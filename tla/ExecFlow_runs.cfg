SPECIFICATION FairSpec
CONSTANTS
  a1 = a1
  a2 = a2
  Workers <- MCWorkers
  NoWorker = NoWorker
  Togglers = {a1, a2}
  Deployer = Deployer
  MaxTriggers = 2
  MaxGraphs = 2
  MaxContexts = 2
  Failures <- AllFailures
INVARIANT TypeOK NoStrayWorker QueueIsCurrent InactiveIsQuiet 
PROPERTY FifoOrder TriggersLeave
CHECK_DEADLOCK FALSE
