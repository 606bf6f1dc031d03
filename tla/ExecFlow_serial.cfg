SPECIFICATION Spec
CONSTANTS
  a1 = a1
  Workers <- MCWorkers
  NoWorker = NoWorker
  Togglers = {a1}
  Deployer = Deployer
  MaxTriggers = 3
  MaxGraphs = 2
  MaxContexts = 2
  Failures <- SlowCleanups
INVARIANT Serialized
CHECK_DEADLOCK FALSE
