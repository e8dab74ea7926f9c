\* Callbacks in the main thread only.
CONSTANTS
  RetryLimit = 3
  Interval = 1
  FiveSeconds = 1
  MaxAcks = 1
  w1 = w1
  w2 = w2
  Workers <- NoWorkers
  QueueSize = 1
  Modes <- InMain
  UserCalls <- AllCalls
  CloseCodes <- AllCodes
  RunsAgain = FALSE
SPECIFICATION GwFairSpec
PROPERTIES
  DeadServerIsLeft
  FatalCloseEnds
