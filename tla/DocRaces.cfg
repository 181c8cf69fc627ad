SPECIFICATION Spec
CONSTANTS
  Handler = {h1, h2}
  DeleteTask = {d1}
  NoTask = NoTask
  MaxRetries = 0
  MaxUserRetries = 0
  MaxFaults = 1
  Apart = FALSE
  Overlap = FALSE
  UserOps = {"delete", "retry", "clear", "dropSubject"}
SYMMETRY Symmetry
CHECK_DEADLOCK FALSE
INVARIANT SuccessIsBacked
