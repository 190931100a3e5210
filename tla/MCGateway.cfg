SPECIFICATION FairSpec
CONSTANTS
  RetryLimit <- MCRetryLimit
  MaxConcurrency = 1
  MaxRuns = 1
  MaxSeq = 2
  MaxDrops = 2
  MaxCalls = 1
  Foreign = TRUE
CHECK_DEADLOCK FALSE
INVARIANT TypeOK
INVARIANT NoEventSkipped
INVARIANT ReadyIsBeating
PROPERTY Recovers
PROPERTY SilenceIsNoticed
PROPERTY ShutdownEnds
