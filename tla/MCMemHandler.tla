---------------------------- MODULE MCMemHandler ----------------------------
(* TLC instance of MemHandler: 8-byte nodes, so that half a node, a whole   *)
(* node and padding between chunks are a few calls away.                    *)
EXTENDS MemHandler

MCSizes == {2, 3, 8}
MCAlignments == {1, 4}
=============================================================================
