SPECIFICATION FairSpec
CONSTANTS
  w1 = w1
  w2 = w2
  None = None
  NumEvents = 2
  IndexEvents = {1}
  Relays = {w1, w2}
  Batch = 2
  MaxPosts = 2
  Text <- MCOneThread
  ChunkWords = 3
  OverlapWords = 1
  LongestDelay = 2
  MaxFaults = 1
  MaxOverruns = 1
INVARIANTS
  ChunksMakeUpTheText
  ProcessedWasDone
  OneRelayPerEvent
  ChunksHavePoints
PROPERTIES
  EveryEventProcessed
