SPECIFICATION Spec
CONSTANTS
  c1 = c1  c2 = c2
  WsConnect = WsConnect
  None = None
  Calls = {c1, c2}
  Lives = {3}
  Skew = 1
  MaxRevocations = 1
INVARIANTS ReconnectsAfresh
