SPECIFICATION DSpec
CONSTANTS
  r1 = r1  r2 = r2  u1 = u1  i1 = i1  t1 = t1  t2 = t2
  Requests = {r1}
  TxSignRequests = {r1}
  UnknownMsgs = {u1}
  InvalidMsgs = {}
  MsgIds = {11, 12}
  PrefixSize = 10
  AGENT_REQUESTS_CACHE_SIZE = 1
  BROADCAST_BATCH_SIZE = 1
  WEBSOCKET_ENABLED = TRUE
  Tasks = {t1, t2}
  MaxBatch = 1
  MaxFaults = 1
  CrashesAllowed = TRUE
  BroadcastsMayFail = TRUE
SYMMETRY Symmetry
INVARIANTS DTypeOK AnswersAgree
PROPERTIES KeepsLifecycle
