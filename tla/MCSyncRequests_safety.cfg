CONSTANTS
  main = main worker = worker other = other r1 = r1 r2 = r2 json = json multipart = multipart
  Threads <- TwoThreads
  Routes <- OneRoute
  Types <- TwoTypes
  Kinds <- Limits
  Named <- JustFirst
  Waits <- TwoTicks
  RetryLimit = 1
  MaxLag = 1
  MaxCalls = 3
  MaxConns = 2
SYMMETRY AnyName
SPECIFICATION Spec
INVARIANTS
  LimitsKept
  RequestIsOwn
CHECK_DEADLOCK FALSE
