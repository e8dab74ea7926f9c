\* Requests end, with local and global limits, failures and retries, without
\* priorities and stops.
CONSTANTS
  r1 = r1
  r2 = r2
  h1 = h1
  Routes <- OneRoute
  Hashes <- OneHash
  HashOf <- Single
  Kinds <- Liveness
  Remainings <- ZeroOrTwo
  Waits <- OneTick
  RetryLimit = 1
  MaxRequests = 2
  MaxStops = 0
  Priorities <- Tails
SPECIFICATION FairSpec
PROPERTIES
  EveryRequestEnds
