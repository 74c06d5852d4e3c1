SPECIFICATION Spec
CONSTANTS
  a = a
  b = b
  x = x
  y = y
  Segments = {a, b, x, y}
  Names <- MCNames
  Configs <- MCConfigs
  None = None
  MaxRestarts = 1
INVARIANTS
  TypeOK
  AdvertisedIsRouted
CHECK_DEADLOCK FALSE
