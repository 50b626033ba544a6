SPECIFICATION FairSpec
CONSTANTS
  r1 = r1  r2 = r2  u1 = u1  h1 = h1  h2 = h2
  Requests = {r1, u1}
  Supported = {r1}
  Handlers = {h1, h2}
  CrashesAllowed = TRUE
INVARIANTS TypeOK SignedOnce
PROPERTIES ImplementsCustomer DecidedInTheEnd
