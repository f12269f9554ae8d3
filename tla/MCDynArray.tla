----------------------------- MODULE MCDynArray -----------------------------
(* TLC instance of DynArray: three elements told apart, at most four of      *)
(* them in the array, so that a block of one element doubles twice.          *)
EXTENDS DynArray

CONSTANTS a, b, c, junk

MCValues == {a, b, c}
MCBatches == { <<a, b>>, <<b, a, c>> }
MCInitSizes == {1, 3}
=============================================================================
