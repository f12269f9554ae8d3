----------------------------- MODULE MCPointTree ----------------------------
(* TLC instance of PointTree: points that differ in each of the dimensions,  *)
(* some of them on the middle of others, and leaves of two points, so that   *)
(* leaves split again and in different dimensions.                           *)
EXTENDS PointTree

CONSTANTS tag

MCPoint == { <<0, 0, 0>>, <<0, 0, 1>>, <<2, 0, 0>>, <<1, 3, 0>> }
MCData == {NULL, tag}
=============================================================================
