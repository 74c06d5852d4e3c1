SPECIFICATION FairSpec
CONSTANTS
  Gpus = 3
  MaxAge = 3
  None = None
INVARIANTS
  TypeOK
  EarlierIsFresher
PROPERTIES
  WorkingGpuIsRefreshed
