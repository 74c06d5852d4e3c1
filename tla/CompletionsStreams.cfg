SPECIFICATION Spec
CONSTANTS
  Requests = {r1, r2, r3}
  RequestIds = {i1, i2}
  None = None
  PromptTokens = 2
  MaxTokens = 1
  DbFaults = FALSE
SYMMETRY Symmetry
INVARIANTS
  SomeClaimHolds
CHECK_DEADLOCK FALSE
