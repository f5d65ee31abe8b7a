SPECIFICATION SignedSpec
CONSTANTS
  Nonces = {n1}
  SignedCalls = {1, 2}
  Offsets = {3}
  SignedSecond = 3
  MaxSkewSeconds = 1
  SignedDelay = 0
  SignedTime = 12
INVARIANT NonceUsedOnce
