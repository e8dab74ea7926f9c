\* Two routes, one with a bucket, limits and stops: queues, timers and batches.
CONSTANTS
  r1 = r1
  r2 = r2
  h1 = h1
  Routes <- TwoRoutes
  Hashes <- OneHash
  HashOf <- OwnAndNone
  Kinds <- TwoKinds
  Remainings <- TwoOnly
  Waits <- OneTick
  RetryLimit = 1
  MaxRequests = 3
  MaxStops = 1
  Priorities <- Tails
SPECIFICATION Spec
INVARIANTS
  InBounds
  NothingIsLost
  SentInOrder
PROPERTIES
  OverIsOver
  BatchesAreWhole
