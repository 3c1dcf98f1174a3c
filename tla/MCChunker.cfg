CONSTANTS
  MaxSize = 4
  MaxLength = 9
  Sizes <- UpToMaxSize
  Overlaps <- BelowMaxSize
  Lengths <- UpToMaxLength
SPECIFICATION FairSpec
INVARIANTS TypeOK ContextKept ChunksFit NoneTooMany
PROPERTY Returns
CHECK_DEADLOCK FALSE
