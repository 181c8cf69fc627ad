SPECIFICATION FairSpec
CONSTANTS
  Execution = {x1, x2}
  Instance = {i1, i2}
  NoExecution = NoExecution
  NoInstance = NoInstance
  MaxCancels = 1
  MaxFaults = 1
CHECK_DEADLOCK FALSE
INVARIANTS
  OrphanNeedsFault
  EndIsLogged
PROPERTIES
  Implements
  CancelStops
