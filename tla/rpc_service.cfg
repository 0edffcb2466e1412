SPECIFICATION FairSpec
CONSTANTS
  c1 = c1
  c2 = c2
  c3 = c3
  c4 = c4
  Clients = {c1, c2, c3, c4}
  None = none
  Request <- UploadsAndDownload
  Paths <- HomeUsbOwn
  OutPath <- AllToOwn
  AtFirst <- HomeAtFirst
  Written <- LongAndShort
  JunkByte = 0
  JunkSizes = {0, 3}
  ChunkSize = 2
  WordSize = 2
  IntLimit = 8
  MayDie = {c4}
  MayStop = TRUE
  MayHang = TRUE
  DiskMayFill = FALSE
  MaxEdits = 1
CHECK_DEADLOCK FALSE
INVARIANTS
  RpcTypeOK
  IndexDescribesCopy
  SuccessMeansStored
  SpinForAReason
PROPERTIES
  AskedAreAnswered
