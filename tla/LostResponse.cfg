SPECIFICATION DSpec
CONSTANTS
  r1 = r1  r2 = r2  u1 = u1  i1 = i1  t1 = t1  t2 = t2
  Requests = {r1}
  TxSignRequests = {r1}
  UnknownMsgs = {}
  InvalidMsgs = {}
  MsgIds = {11, 12}
  PrefixSize = 10
  AGENT_REQUESTS_CACHE_SIZE = 1
  BROADCAST_BATCH_SIZE = 1
  WEBSOCKET_ENABLED = FALSE
  Tasks = {t1}
  MaxBatch = 1
  MaxFaults = 0
  CrashesAllowed = FALSE
  BroadcastsMayFail = TRUE
INVARIANTS NoLostResponse
