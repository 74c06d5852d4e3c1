SPECIFICATION Spec
CONSTANTS
  a = a
  b = b
  x = x
  y = y
  Segments = {a, b, x, y}
  Names <- MCNames
  Configs <- MCShipped
  None = None
  MaxRestarts = 0
INVARIANTS
  RegisteredCanBeServed
CHECK_DEADLOCK FALSE
