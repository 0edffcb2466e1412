SPECIFICATION FairHubSpec
CONSTANTS
  c1 = c1
  c2 = c2
  x1 = x1
  x2 = x2
  x3 = x3
  h1 = h1
  h2 = h2
  Clients = {c1, c2}
  Uids = {1}
  JunkUids = {}
  Names = {n1}
  Contents = {x1}
  Hashes = {h1}
  HashOf <- OneFile
  None = none
  SameSecond = TRUE
  MayVanish = TRUE
  MaxBacklog = 2
  MaxRequests = 3
  PeerRequests <- PeerKinds
  MaxPeerRequests = 1
CHECK_DEADLOCK FALSE
INVARIANTS
  NamedFilesComplete
PROPERTIES
  WaitersAreServed
