SPECIFICATION FairSpec
CONSTANTS
  Threads = {t1, t2}
  NoThread = none
  NumPeers = 2
  FileSize = 5
  ChunkSize = 2
  Window = 4
  ResSize = 1
  MaxServed = 1000000
  MayRefuse <- Source0
  MayBreak <- Nothing
  Serves <- Everything
  Stale <- Nothing
CHECK_DEADLOCK FALSE
PROPERTY
  RefusedChunkIsRetried
