SPECIFICATION Spec
CONSTANTS
  InitiatorId = 10
  ResponderId = 20
  ClientNonces = {1, 2}
  ServerNonces = {1, 4, 8}
  Capabilities = {0, 1}
  ViaCodec = TRUE
  XorOp <- MCXor
  None = None
INVARIANTS HelloDecodes
CHECK_DEADLOCK FALSE
