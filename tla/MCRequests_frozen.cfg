\* Two requests of one bucket are timed out.
CONSTANTS
  r1 = r1
  r2 = r2
  h1 = h1
  Routes <- OneRoute
  Hashes <- OneHash
  HashOf <- Single
  Kinds <- Limits
  Remainings <- ZeroOrTwo
  Waits <- TwoTicks
  RetryLimit = 1
  MaxRequests = 3
  MaxStops = 0
  Priorities <- Tails
SPECIFICATION Spec
PROPERTIES
  TimedOutIsSkipped
