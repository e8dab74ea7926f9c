\* A second threadpool_destroy while the first one waits for the workers.
CONSTANTS
  ThreadCount = 2
  QueueSize = 2
  main = main
  client = client
  k1 = k1
  k2 = k2
  k3 = k3
  k4 = k4
  Callers <- TwoCallers
  Creator = main
  Destroyers <- TwoCallers
  Tasks <- TwoTasks
  NoTask = NoTask
  NoThread = NoThread
SPECIFICATION FairSpec
CHECK_DEADLOCK FALSE
PROPERTY EveryTaskRuns
