SPECIFICATION Spec
CONSTANTS
  Handler = {h1, h2}
  DeleteTask = {d1}
  NoTask = NoTask
  MaxRetries = 1
  MaxUserRetries = 0
  MaxFaults = 0
  Apart = FALSE
  Overlap = FALSE
  UserOps = {}
CHECK_DEADLOCK FALSE
PROPERTY TransientIsRetried
