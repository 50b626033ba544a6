SPECIFICATION DSpec
CONSTANTS
  r1 = r1  r2 = r2  u1 = u1  i1 = i1  t1 = t1  t2 = t2
  Requests = {r1, r2}
  TxSignRequests = {r1}
  UnknownMsgs = {}
  InvalidMsgs = {}
  MsgIds = {11, 12, 21}
  PrefixSize = 10
  AGENT_REQUESTS_CACHE_SIZE = 2
  BROADCAST_BATCH_SIZE = 1
  WEBSOCKET_ENABLED = FALSE
  Tasks = {t1}
  MaxBatch = 2
  MaxFaults = 1
  CrashesAllowed = TRUE
  BroadcastsMayFail = TRUE
INVARIANTS NeverAckedUndecided NoForeignAck BroadcastsBounded
