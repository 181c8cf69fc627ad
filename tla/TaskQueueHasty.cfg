SPECIFICATION Spec
CONSTANTS
  Task = {t1}
  Msg = {m1, m2}
  Handler = {h1}
  Publisher = {p1}
  NoTask = NoTask
  NoMsg = NoMsg
  MaxRetries = 1
  MaxDeliver = 3
  MaxUserRetries = 1
  MaxFaults = 0
  TimelyAck = TRUE
  PatientUser = FALSE
  WideWindow = TRUE
SYMMETRY Symmetry
CHECK_DEADLOCK FALSE
INVARIANT NotLost
