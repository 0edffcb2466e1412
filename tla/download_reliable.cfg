SPECIFICATION FairSpec
CONSTANTS
  Threads = {t1, t2, t3}
  NoThread = none
  NumPeers = 2
  FileSize = 7
  ChunkSize = 2
  Window = 4
  ResSize = 1
  MaxServed = 1000000
  MayRefuse <- Nothing
  MayBreak <- Nothing
  Serves <- Everything
  Stale <- Nothing
INVARIANTS
  TypeOK
  ChunkExclusive
  CountersCoverPrefix
  AckMeansSource
PROPERTIES
  DownloadCompletes
