\* Two workers under the fairness assumptions: what must happen, happens,
\* the pool is freed after its last user, and
\* the pool implements TaskPool.
CONSTANTS
  ThreadCount = 2
  QueueSize = 2
  main = main
  client = client
  k1 = k1
  k2 = k2
  k3 = k3
  k4 = k4
  Callers <- TwoCallers
  Creator = main
  Destroyers <- OneCaller
  Tasks <- ThreeTasks
  NoTask = NoTask
  NoThread = NoThread
SPECIFICATION FairSpec
INVARIANT NoUseAfterFree
PROPERTIES
  EveryTaskRuns
  DestroyReturns
  ImplementsTaskPool
