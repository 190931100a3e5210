SPECIFICATION FairSpec
CONSTANTS
  g1 = g1
  g2 = g2
  c1 = c1
  c2 = c2
  t1 = t1
  t2 = t2
  NoGuild = NoGuild
  NoChannel = NoChannel
  MaxVcs = 2
  Guilds <- MCGuilds
  Channels <- MCChannels
  Threads <- MCThreads
  Threshold = 2
  MaxCalls = 4
  MaxFaults = 1
INVARIANT TypeOK
INVARIANT PoolSlotIsIdle
PROPERTY GivesUp
PROPERTY ShutdownFrees
PROPERTY RedirectFollowed
CHECK_DEADLOCK FALSE
