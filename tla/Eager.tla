-------------------------------- MODULE Eager --------------------------------
(***************************************************************************)
(* Long computations on values: With binds a value that is computed once,  *)
(* and Fold applies an operator along a sequence.                          *)
(***************************************************************************)
EXTENDS Integers, Sequences

\* Op of a value that is computed once
With(value, Op(_)) == CHOOSE y \in {Op(x) : x \in {value}} : TRUE

Fold(Op(_, _), base, s) ==
  LET upTo[k \in 0 .. Len(s)] ==
        IF k = 0 THEN base
        ELSE Op(upTo[k - 1], s[k])
  IN  upTo[Len(s)]
=============================================================================
