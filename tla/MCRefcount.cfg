SPECIFICATION Spec
CONSTANTS
  d1 = d1
  d2 = d2
  t1 = t1
  t2 = t2
  NoData = NoData
  Data <- MCData
  Threads <- MCThreads
  IntMax <- MCIntMax
  MaxHeld <- MCMaxHeld
INVARIANT TypeOK
INVARIANT HeldIsPresent
INVARIANT UnheldIsCleaned
PROPERTY RightfulReleaseSucceeds
CHECK_DEADLOCK FALSE
