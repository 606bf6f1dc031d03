CONSTANTS
  Ui = Ui
  Loop = Loop
  w1 = w1
  w2 = w2
  t1 = t1
  t2 = t2
  Workers = {w1, w2}
  Tasks = {t1, t2}
  None = None
  MaxProcs = 2
  MaxRequests = 2
SPECIFICATION FairSpec
PROPERTY ReclaimEnds
CHECK_DEADLOCK FALSE
