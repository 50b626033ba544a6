SPECIFICATION FairSpec
CONSTANTS
  s1 = s1  s2 = s2  s3 = s3
  None = None
  Sockets = {s1, s2, s3}
  RECONNECT_BASE_MS = 2
  RECONNECT_MAX_MS = 7
CHECK_DEADLOCK FALSE
INVARIANTS TypeOK NeverWedged Supervised NoOrphanSocket
PROPERTIES ImplementsConnection Reconnects DeadSocketReleased
