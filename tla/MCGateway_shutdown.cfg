\* A shutdown asked for by a callback, and a RECONNECT of the server.
CONSTANTS
  RetryLimit = 2
  Interval = 0
  FiveSeconds = 1
  MaxAcks = 1
  w1 = w1
  w2 = w2
  Workers <- NoWorkers
  QueueSize = 1
  Modes <- InMain
  UserCalls <- ShutdownOnly
  CloseCodes <- AllCodes
  RunsAgain = FALSE
SPECIFICATION GwFairSpec
PROPERTY ShutdownEnds
