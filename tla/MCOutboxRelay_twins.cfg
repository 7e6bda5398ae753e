SPECIFICATION FairSpec
CONSTANTS
  w1 = w1
  w2 = w2
  None = None
  NumEvents = 2
  IndexEvents = {1, 2}
  Relays = {w1, w2}
  Batch = 2
  MaxPosts = 0
  Text <- MCTwins
  ChunkWords = 3
  OverlapWords = 1
  LongestDelay = 2
  MaxFaults = 0
  MaxOverruns = 0
PROPERTIES
  EveryThreadIndexed
