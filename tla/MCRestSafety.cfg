SPECIFICATION Spec
CONSTANTS
  r1 = r1
  r2 = r2
  k1 = k1
  k2 = k2
  main = main
  worker = worker
  NullB = NullB
  MissB = MissB
  NoBucket = NoBucket
  NoReq = NoReq
  NoKey = NoKey
  Timeout = Timeout
  Main = main
  Requests <- MCTwoRequests
  Keys <- MCKeys
  Callers <- MCCallers
  Grouped = TRUE
  MaxWait = 0
  RetryLimit = 1
  MaxThrottles = 2
  Outcomes <- AllOutcomes
  SyncModes <- MCBoth
  Priorities <- MCBoth
SYMMETRY MCSymmetry
INVARIANT TypeOK
INVARIANT InFlightIsBusy
INVARIANT OneAlarmPerTimeout
INVARIANT ListedIffQueued
INVARIANT OnePlace
INVARIANT InBucketOfItsRoute
INVARIANT OneCallerPerSync
CHECK_DEADLOCK FALSE
