----------------------------- MODULE MCDrawing -----------------------------
(* TLC instance of Drawing: two block names, four objects, three sections: *)
(* enough for a block shown before and after it is defined, a name defined *)
(* twice, a repeated section and a second file.  Names are interchangeable. *)
EXTENDS Drawing, TLC

CONSTANTS A, B, none

MCNames == {A, B}
NameSymmetry == Permutations(MCNames)
=============================================================================
