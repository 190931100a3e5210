SPECIFICATION Spec
CONSTANTS
  r1 = r1
  r2 = r2
  k1 = k1
  k2 = k2
  main = main
  worker = worker
  NullB = NullB
  MissB = MissB
  NoBucket = NoBucket
  NoReq = NoReq
  NoKey = NoKey
  Timeout = Timeout
  Main = main
  Requests <- MCOneRequest
  Keys <- MCOneKey
  Callers <- MCOneCaller
  Grouped = FALSE
  MaxWait = 1
  RetryLimit = 3
  MaxThrottles = 4
  Outcomes <- MCThrottles
  SyncModes <- MCAsync
  Priorities <- MCAsync
INVARIANT UnselectsBusyRequest
