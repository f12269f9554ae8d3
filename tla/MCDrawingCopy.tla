--------------------------- MODULE MCDrawingCopy ---------------------------
EXTENDS DrawingTraversal

CONSTANTS A, B, none

MCNames == {A, B}
NameSymmetry == Permutations(MCNames)
=============================================================================
