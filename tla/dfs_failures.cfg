SPECIFICATION DfsSpec
CONSTANTS
  d1 = d1
  d2 = d2
  n1 = n1
  n2 = n2
  x1 = x1
  x2 = x2
  h1 = h1
  h2 = h2
  Clients = {d1, d2}
  Uids = {0, 1, 2, 3, 4}
  JunkUids = {0, 4}
  Names = {n1}
  Contents = {x1}
  Hashes = {h1}
  HashOf <- OneHash
  None = none
  SameSecond = FALSE
  MayVanish = TRUE
  MaxBacklog = 3
  MaxRequests = 12
  PeerRequests <- NoPeers
  MaxPeerRequests = 0
  Junk = junk
  SizeOf <- OneSize
  BufferSize = 1
  Parts = 1
  Uploads <- OneFile
  AskUnknown = TRUE
  EarlyUse = TRUE
  MayHubDie = TRUE
  MaxJobs = 2
  MaxStarts = 2
CHECK_DEADLOCK FALSE
SYMMETRY Swap
INVARIANTS
  DfsTypeOK
  UniqueUids
  UidIsPersistent
  AddressIsOwner
PROPERTIES
  HubServesDfs
