CONSTANTS
  Reqs = {r1, r2}
  Graphs = {gA, gB}
  NoGraph = NoGraph
  MaxAttempts = 1
  Failures = {"wire"}
SPECIFICATION Spec
CHECK_DEADLOCK FALSE
INVARIANTS KvIsRunning
