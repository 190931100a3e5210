SPECIFICATION FairSpec
CONSTANTS
  r1 = r1
  r2 = r2
  k1 = k1
  k2 = k2
  main = main
  worker = worker
  NullB = NullB
  MissB = MissB
  NoBucket = NoBucket
  NoReq = NoReq
  NoKey = NoKey
  Timeout = Timeout
  Main = main
  Requests <- MCOneRequest
  Keys <- MCOneKey
  Callers <- MCOneCaller
  Grouped = TRUE
  MaxWait = 0
  RetryLimit = 3
  MaxThrottles = 0
  Outcomes <- MCServerErrors
  SyncModes <- MCAsync
  Priorities <- MCAsync
PROPERTY ServerErrorRetried
