\* One worker whose callbacks interfere with the main thread at every step, the
\* runs repeated: assertions, bounds, and every close ends.
CONSTANTS
  RetryLimit = 2
  Interval = 1
  FiveSeconds = 1
  MaxAcks = 1
  w1 = w1
  w2 = w2
  Workers <- OneWorker
  QueueSize = 2
  Modes <- Both
  UserCalls <- AllCalls
  CloseCodes <- AllCodes
  RunsAgain = TRUE
SPECIFICATION GwFairSpec
INVARIANTS
  GwTypeOK
  HandleMatchesStatus
  ReadyMeansOnline
  ReconnectsBounded
PROPERTIES
  StatusCycle
  RequestedCloseEnds
  ImplementsSession
