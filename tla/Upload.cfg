SPECIFICATION Spec
CONSTANTS
  Request = {r1, r2, r3}
  Quota = 2
  Period = 2
  Second = 2
  MaxTime = 5
  Filename = {a, b}
  NoFilename = NoFilename
SYMMETRY Symmetry
INVARIANTS
  NeverOverQuota
  RetryIsEnough
  DuplicatesOverlap
  StoredTogether
CHECK_DEADLOCK FALSE
