SPECIFICATION FairSpec
CONSTANTS
  w1 = w1
  w2 = w2
  Workers <- MCWorkers
  Ids <- MCIds
  Scripts <- MCScripts
  Traffic <- MCTraffic
  QueueSize = 1
  MaxObjects = 6
  MaxEvents = 3
  MaxClaims = 2
  MaxDrops = 1
INVARIANT TypeOK
INVARIANT GlobalsTogether
INVARIANT CountsAreHolders
PROPERTY CleanupEnds
CHECK_DEADLOCK FALSE
