SPECIFICATION CutSpec
CONSTANTS
  Parsed <- ParsedTexts
  Configured <- ChunkingSections
  LeastSize = 2
  DefaultSize = 3
  DefaultOverlap = 1
  DefaultMinSize = 1
  DefaultLookback = 1
  MaxSingle = 6
  MaxEach = 2
INVARIANTS
  NothingLost
  WellCut
PROPERTY Progress
CHECK_DEADLOCK FALSE
