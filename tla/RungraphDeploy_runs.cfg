CONSTANTS
  Reqs = {r1, r2}
  Graphs = {gA, gB}
  NoGraph = NoGraph
  MaxAttempts = 1
  Failures = {"validate", "wire", "encode", "put", "publish"}
SPECIFICATION FairSpec
CHECK_DEADLOCK FALSE
INVARIANT TypeOK ApplyExclusive TurnComes NewestWins
PROPERTY KeepsPromise ServesInTurn EverySubmissionAnswered
