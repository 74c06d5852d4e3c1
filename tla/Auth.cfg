SPECIFICATION Spec
CONSTANTS
  ApiKeys = {key1, key2}
  Secrets = {secret1, secret2}
  Expiry = 2
  TicksPerSecond = 2
  Skews = {1, 3}
  MaxNow = 8
  MaxTokens = 1
SYMMETRY Symmetry
INVARIANTS
  TypeOK
  TokenExpires
  TokenLasts
  RevocationEnds
