SPECIFICATION VFairSpec
CONSTANTS
  tk1 = tk1  tk2 = tk2  h1 = h1  h2 = h2  None = None
  Tokens = {tk1, tk2}
  Handlers = {h1, h2}
  MaxRotations = 2
INVARIANTS VTypeOK RunsPaired StoppedExplained NothingElseWasted
           HandledIsGenuine 
PROPERTIES SavedForGood StartsUp
