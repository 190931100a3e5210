SPECIFICATION FairSpec
CONSTANTS
  r1 = r1
  r2 = r2
  k1 = k1
  k2 = k2
  main = main
  worker = worker
  NullB = NullB
  MissB = MissB
  NoBucket = NoBucket
  NoReq = NoReq
  NoKey = NoKey
  Timeout = Timeout
  Main = main
  Requests <- MCTwoRequests
  Keys <- MCOneKey
  Callers <- MCOneCaller
  Grouped = TRUE
  MaxWait = 1
  RetryLimit = 1
  MaxThrottles = 1
  Outcomes <- MCThrottles
  SyncModes <- MCBoth
  Priorities <- MCAsync
PROPERTY EveryRequestAnswered
PROPERTY ServiceSpec
PROPERTY EveryCallerReturns
