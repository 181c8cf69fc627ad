SPECIFICATION Spec
CONSTANTS
  Document <- Documents
  Chunk <- Chunks6
  DocOf <- ChunkDocument
  IndexOf <- ChunkPlace
  SectionOf <- ChunkSection
  LeadOf <- ChunkLead
  Overlap <- WordOverlap
  SectionOverlap <- SectionWords
  MaxSubQueries = 2
  TopK = 3
  Multiplier = 2
  CandidateLimit = 3
  Rerank = TRUE
  Threshold = 3500
  Relative = 50
  MaxCitations = 5
  MaxPerDocument = 2
  Own <- Own1
  Query = {"short", "other", "third"}
  Questions <- AskedQuestions
  Similarities <- MilvusScores
  Wordings <- WordScores
  PageSize = 2
  OverviewLimit = 1
  NavigationLimit = 2
INVARIANTS
  NothingDeletedIsShown
  CompleteMeansAll
  EvidenceIsSound
  OrderIsIrrelevant
CHECK_DEADLOCK FALSE
