CONSTANTS
  MaxLength = 9
  Texts <- MCTexts
  ChunkSize = 5
  ChunkOverlap = 2
SPECIFICATION ChunkingSpec
CHECK_DEADLOCK FALSE
INVARIANTS SlicesWhole
