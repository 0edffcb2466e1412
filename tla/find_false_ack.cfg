SPECIFICATION FairSpec
CONSTANTS
  Threads = {t1, t2}
  NoThread = none
  NumPeers = 2
  FileSize = 9
  ChunkSize = 2
  Window = 3
  ResSize = 1
  MaxServed = 1000000
  MayRefuse <- Nothing
  MayBreak <- Nothing
  Serves <- Everything
  Stale <- Nothing
CHECK_DEADLOCK FALSE
INVARIANT
  AckMeansSource
