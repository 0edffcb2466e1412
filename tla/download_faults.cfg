SPECIFICATION FairSpec
CONSTANTS
  Threads = {t1, t2}
  NoThread = none
  NumPeers = 3
  FileSize = 7
  ChunkSize = 2
  Window = 4
  ResSize = 1
  MaxServed = 1000000
  MayRefuse <- AllSources
  MayBreak <- Source0
  Serves <- AllButTail
  Stale <- Nothing
CHECK_DEADLOCK FALSE
INVARIANTS
  NoStrandedChunk
  CompleteUnlessPeersGone
  CreditMatches
PROPERTIES
  InvertedForGood
  EndsOrInverts
  SpinCostsOneChunk
  DownloadedStable
  PoolSpec
