SPECIFICATION Spec
CONSTANTS
  c1 = c1
  c2 = c2
  Callers = {c1, c2}
  MaxCalls = 3
  MaxNodes = 1
  Failures = {"cancel"}
SYMMETRY Symmetry
INVARIANT KeepsLatest
CHECK_DEADLOCK FALSE
