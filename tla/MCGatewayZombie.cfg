SPECIFICATION FairSpec
CONSTANTS
  RetryLimit <- MCRetryLimit
  MaxConcurrency = 2
  MaxRuns = 0
  MaxSeq = 2
  MaxDrops = 1
  MaxCalls = 0
  Foreign = FALSE
CHECK_DEADLOCK FALSE
PROPERTY OnlyZombiesDropped
