\* The queue with every timing assumption the configuration suggests.
SPECIFICATION FairSpec
CONSTANTS
  Task = {t1}
  Msg = {m1, m2}
  Handler = {h1, h2}
  Publisher = {p1, p2}
  NoTask = NoTask
  NoMsg = NoMsg
  MaxRetries = 3
  MaxDeliver = 5
  MaxUserRetries = 1
  MaxFaults = 3
  TimelyAck = TRUE
  PatientUser = TRUE
  WideWindow = TRUE
CHECK_DEADLOCK FALSE
INVARIANTS
  Exclusive
  NotLost
  StrandingIsPaidFor
PROPERTIES
  AckOnlyWhenSettled
  EverySettles
