CONSTANTS
  main = main worker = worker other = other r1 = r1 r2 = r2 json = json multipart = multipart
  Threads <- TwoThreads
  Routes <- OneRoute
  Types <- OneType
  Kinds <- Failures
  Named <- JustFirst
  Waits <- OneTick
  RetryLimit = 1
  MaxLag = 0
  MaxCalls = 2
  MaxConns = 2
SPECIFICATION Spec
PROPERTIES
  EveryCallReturns
CHECK_DEADLOCK FALSE
