SPECIFICATION FairSpec
CONSTANTS
  Handler = {h1, h2}
  DeleteTask = {d1}
  NoTask = NoTask
  MaxRetries = 1
  MaxUserRetries = 0
  MaxFaults = 1
  Apart = TRUE
  Overlap = FALSE
  UserOps = {"delete", "retry"}
CHECK_DEADLOCK FALSE
INVARIANTS
  IndexedIsSearchable
PROPERTIES
  Implements
  
  DeletingEnds
