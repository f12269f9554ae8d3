SPECIFICATION Spec
CONSTANTS
  MEMBLOCK_SIZE = 8
  Sizes <- MCSizes
  Alignments <- MCAlignments
  MaxNodes = 4
INVARIANTS TypeOK ChunksSound NothingWasted
PROPERTY NullOnlyOnFailure
CHECK_DEADLOCK FALSE
