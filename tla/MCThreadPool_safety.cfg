\* Three workers, a ring of two slots that wraps, an outside client and tasks
\* that submit tasks; every thread creation may fail, and
\* threadpool_destroy may be called by two threads.
CONSTANTS
  ThreadCount = 3
  QueueSize = 2
  main = main
  client = client
  k1 = k1
  k2 = k2
  k3 = k3
  k4 = k4
  Callers <- TwoCallers
  Creator = main
  Destroyers <- TwoCallers
  Tasks <- FourTasks
  NoTask = NoTask
  NoThread = NoThread
SPECIFICATION Spec
SYMMETRY TaskSymmetry
\* A second threadpool_destroy can leave the mutex locked for good.
CHECK_DEADLOCK FALSE
INVARIANTS
  TypeOK
  FirstInFirstOut
  NoLostWakeup
  DestroyFrees
  GracefulDrains
