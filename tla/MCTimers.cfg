SPECIFICATION FairSpec
CONSTANTS
  i1 = i1
  i2 = i2
  t1 = t1
  NoId = NoId
  NoEntry = NoEntry
  NoCall = NoCall
  Ids <- MCIds
  Threads <- MCThreads
  Shapes <- MCShapes
  Repeats <- MCRepeats
  MaxSleep = 1
  MaxTime = 2
  MaxCalls = 3
INVARIANT TypeOK
INVARIANT NoLostUpdate
INVARIANT NoOversleep
CHECK_DEADLOCK FALSE
PROPERTY EveryCallReturns
PROPERTY FlaggedIsRun
