CONSTANTS
  c1 = c1
  c2 = c2
  gA = gA
  gB = gB
  gX = gX
  Calls = {c1, c2}
  Graphs = {gA, gB, gX}
  NoGraph = NoGraph
  Garbled = {gX}
  Plans <- MCPlans
  MaxSends = 2
  MaxInst = 2
SPECIFICATION FairSpec
CHECK_DEADLOCK FALSE
INVARIANT TypeOK SuccessIsHonest LastCallWins
PROPERTY CallsEnd
