\* A request is retried: TLC goes on to the second with -continue.
CONSTANTS
  r1 = r1
  r2 = r2
  h1 = h1
  Routes <- OneRoute
  Hashes <- OneHash
  HashOf <- Single
  Kinds <- Errors
  Remainings <- ZeroOrTwo
  Waits <- OneTick
  RetryLimit = 1
  MaxRequests = 1
  MaxStops = 0
  Priorities <- Tails
SPECIFICATION Spec
INVARIANTS
  HandlesReturned FailIsFinal
