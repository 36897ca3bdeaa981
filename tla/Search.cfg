CONSTANTS
  MaxMessage = 5
  Mine = {1, 2, 3, 4}
  ThreadOf <- MCThreadOf
  Chunks <- MCChunks
  Lookups = {"words"}
  Questions = {"why", "odd"}
  QueryDistance <- MCQueryDistance
  ChunkDistance <- MCChunkDistance
  RareRows <- MCRareRows
  WholeHits <- MCWholeHits
  TermHits <- MCTermHits
  Overlap <- MCOverlap
  DemoNear <- MCDemoNear
  Floor = 18
  MatchCount = 2
  DigestCount = 3
  RelatedCount = 1
  Apis = {"server", "demo"}
  Initial <- MCInitial
  Touched = {1, 3}
  Citations <- MCCitations
  Attempts = 2
  MaxRequests = 3
  MaxOpens = 2
  MaxEvents = 1
SPECIFICATION Spec
CHECK_DEADLOCK FALSE
INVARIANTS TypeOK AnswerOfQuery SearchFinds RelatedOfOpen
PROPERTIES BriefResolves SearchEnds
