SPECIFICATION Spec
CONSTANTS
  A = A
  B = B
  none = none
  Names <- MCNames
  NoName <- none
  MaxObjects = 2
  MaxSections = 2
INVARIANT FindBlockIsLive
CHECK_DEADLOCK FALSE
