SPECIFICATION Spec
CONSTANTS
  A = A
  B = B
  none = none
  Names <- MCNames
  NoName <- none
  MaxObjects = 4
  MaxSections = 3
SYMMETRY NameSymmetry
INVARIANTS TypeOK DictSound BindingsSound NoDanglingInsert
PROPERTIES ForwardRefsResolved BindingsStable
CHECK_DEADLOCK FALSE
