\* A worker thread: a shutdown asked for between two connections, and more events than
\* its queue has room for (-continue).
CONSTANTS
  RetryLimit = 2
  Interval = 0
  FiveSeconds = 1
  MaxAcks = 1
  w1 = w1
  w2 = w2
  Workers <- OneWorker
  QueueSize = 1
  Modes <- InWorker
  UserCalls <- ShutdownOnly
  CloseCodes <- AllCodes
  RunsAgain = FALSE
SPECIFICATION GwFairSpec
INVARIANT EventsAreQueued
PROPERTY FlagMeansClosing
