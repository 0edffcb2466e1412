SPECIFICATION FairHubSpec
CONSTANTS
  c1 = c1
  c2 = c2
  x1 = x1
  x2 = x2
  x3 = x3
  h1 = h1
  h2 = h2
  Clients = {c1}
  Uids = {1, 2}
  JunkUids = {}
  Names = {n1, n2}
  Contents = {x1, x2, x3}
  Hashes = {h1, h2}
  HashOf <- Collide
  None = none
  SameSecond = TRUE
  MayVanish = TRUE
  MaxBacklog = 2
  MaxRequests = 3
  PeerRequests <- NoPeers
  MaxPeerRequests = 0
CHECK_DEADLOCK FALSE
INVARIANTS
  HubTypeOK
  IndexDescribesMetadata
  AnswersAreUsable
PROPERTIES
  BindingsAreStable
