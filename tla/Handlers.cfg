SPECIFICATION Spec
CONSTANTS
  r1 = r1  r2 = r2  u1 = u1  i1 = i1  t1 = t1  t2 = t2
  Requests = {r1, r2}
  TxSignRequests = {r1}
  UnknownMsgs = {u1}
  InvalidMsgs = {i1}
  MsgIds = {11, 21}
  PrefixSize = 10
  AGENT_REQUESTS_CACHE_SIZE = 1
  BROADCAST_BATCH_SIZE = 1
  WEBSOCKET_ENABLED = TRUE
  Tasks = {t1, t2}
  MaxBatch = 1
SYMMETRY Symmetry
INVARIANTS TypeOK CacheConsistent
