SPECIFICATION FairSpec
CONSTANTS
  Proc <- MCProc
  Task <- MCTask
  Kinds = 2
  KindOf <- MCKindOf
  Files = 2
  MaxConns <- MCMaxConns
  MaxStarts = 2
  MaxFaults = 1
INVARIANTS MigratedOnceInOrder HandlersFindEverything ClientsOutliveUsers
PROPERTIES StartAndStopEnd WorkSurvivesShutdown
CHECK_DEADLOCK FALSE
