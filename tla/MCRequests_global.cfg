\* Two routes that the server counts in one bucket, a global limit, and buckets that
\* do not know their window: TLC goes on to the second property with -continue.
CONSTANTS
  r1 = r1
  r2 = r2
  h1 = h1
  Routes <- TwoRoutes
  Hashes <- OneHash
  HashOf <- Shared
  Kinds <- GlobalOnly
  Remainings <- ZeroOrTwo
  Waits <- OneTick
  RetryLimit = 0
  MaxRequests = 2
  MaxStops = 0
  Priorities <- Tails
SPECIFICATION Spec
INVARIANTS
  OneBucketPerHash
PROPERTIES
  GlobalLocksAll
