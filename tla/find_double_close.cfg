SPECIFICATION Spec
CONSTANTS
  r1 = r1
  r2 = r2
  r3 = r3
  Requesters = {r1, r2}
  None = none
  Junk = junk
  RpcThread = rpc
  NumFds = 3
  ChunkLen = 2
  ResLen = 1
  Refused = {r2}
  MayVanish = {}
  MayNotStart = {}
  MaxOpens = 0
CHECK_DEADLOCK FALSE
INVARIANTS
  AnswersBelong
