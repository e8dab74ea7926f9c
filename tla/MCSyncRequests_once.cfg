CONSTANTS
  main = main worker = worker other = other r1 = r1 r2 = r2 json = json multipart = multipart
  Threads <- TwoThreads
  Routes <- OneRoute
  Types <- OneType
  Kinds <- Limits
  Named <- JustFirst
  Waits <- OneTick
  RetryLimit = 1
  MaxLag = 1
  MaxCalls = 3
  MaxConns = 2
SPECIFICATION Spec
INVARIANTS
  OneAtATime
CHECK_DEADLOCK FALSE
