SPECIFICATION FairSpec
CONSTANTS
  Request = {"r1", "r2", "r3"}
  Workloads <- Mixes
  Session = {"s1", "s2"}
  Message = {"m1", "m2"}
  UserName = {"ann"}
  BaseName = {"law", "tax"}
  SessionOf <- ItsSession
  Base = "base"
  FirstName = "law"
  Opened = {{"s2"}, {"s1", "s2"}}
  MaxConns = 2
INVARIANTS NamesAreUnique AllOrNothing ReadsMissNothing
PROPERTIES DeletedStaysQuiet EndsWithoutDeadline
CHECK_DEADLOCK FALSE
