SPECIFICATION CopySpec
CONSTANTS
  A = A
  B = B
  none = none
  Names <- MCNames
  NoName <- none
  MaxObjects = 4
  MaxSections = 2
  MaxMarks = 2
SYMMETRY NameSymmetry
INVARIANTS CopyFaithful CopyBindsAlike TraversalSound
CHECK_DEADLOCK FALSE
