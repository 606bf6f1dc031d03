SPECIFICATION FairSpec
CONSTANTS
  c1 = c1
  c2 = c2
  c3 = c3
  Callers = {c1, c2, c3}
  MaxCalls = 4
  MaxNodes = 2
  Failures = {"handler", "writeback", "cancel"}
INVARIANT TypeOK OneLoop NewestIsKept OutputAnswersLatest
PROPERTY RunsInOrder EveryValueRuns
CHECK_DEADLOCK FALSE
