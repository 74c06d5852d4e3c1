SPECIFICATION Spec
CONSTANTS
  tokenA = tokenA
  tokenB = tokenB
  hostA = hostA
  Headers = {tokenA}
  Hosts = {}
  None = None
  Unknown = unknown
  Limit = 2
  Window = 2
  TicksPerSecond = 2
  MaxNow = 8
INVARIANTS
  TypeOK
  WindowBudget
PROPERTIES
  RetryAfterSuffices
  RetryAfterIsNeeded
  ImplementsSlidingWindow
