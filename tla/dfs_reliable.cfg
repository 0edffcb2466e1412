SPECIFICATION FairDfsSpec
CONSTANTS
  d1 = d1
  d2 = d2
  n1 = n1
  n2 = n2
  x1 = x1
  x2 = x2
  h1 = h1
  h2 = h2
  Clients = {d1, d2}
  Uids = {0, 1, 2}
  JunkUids = {0}
  Names = {n1, n2}
  Contents = {x1, x2}
  Hashes = {h1, h2}
  HashOf <- OwnHash
  None = none
  SameSecond = FALSE
  MayVanish = FALSE
  MaxBacklog = 3
  MaxRequests = 12
  PeerRequests <- NoPeers
  MaxPeerRequests = 0
  Junk = junk
  SizeOf <- TwoSizes
  BufferSize = 3
  Parts = 2
  Uploads <- TwoFiles
  AskUnknown = FALSE
  EarlyUse = FALSE
  MayHubDie = FALSE
  MaxJobs = 3
  MaxStarts = 2
INVARIANTS
  SourcesHoldFile
  HubSurvives
  DownloadsAreGenuine
PROPERTIES
  DownloadsEnd
  UploadsReachHub
  ServesAsStore
