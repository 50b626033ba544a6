SPECIFICATION FairSpec
CONSTANTS
  k1 = k1  k2 = k2
  Keys = {k1, k2}
  MAX_SIGN_ATTEMPTS = 2
INVARIANTS TypeOK OneLossRecovered ReturnedKeysStored
PROPERTIES CallsEnd
