SPECIFICATION FairSpec
CONSTANTS
  MaxRequests = 3
  MaxSlots = 1
  MaxRewrites = 1
  MaxCitations = 3
  ChunkCounts = {0, 2}
  LinkCounts = {0, 2}
  Answers <- MCAnswers
  MaxCrashes = 1
INVARIANTS
  OneDriver
  CleanedStaysClean
  WellCited
  RestsOnLastSearch
PROPERTIES
  EveryRequestEnds
CHECK_DEADLOCK FALSE
