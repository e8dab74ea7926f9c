\* Connections that follow each other within five seconds, one lost while a heartbeat
\* is not acknowledged (-continue).
CONSTANTS
  RetryLimit = 2
  Interval = 0
  FiveSeconds = 3
  MaxAcks = 1
  w1 = w1
  w2 = w2
  Workers <- NoWorkers
  QueueSize = 1
  Modes <- InMain
  UserCalls <- NoCalls
  CloseCodes <- AllCodes
  RunsAgain = FALSE
SPECIFICATION GwSpec
PROPERTIES IdentifyRate FreshSessionStays
