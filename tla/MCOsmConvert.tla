---------------------------- MODULE MCOsmConvert ----------------------------
(* TLC instance of OsmConvert: three places, one of which truncates to      *)
(* another, ways that meet, one that returns to its start, three entities.  *)
EXTENDS OsmConvert

CONSTANTS here, near, there

MCPlaces == {here, near, there}
MCTruncated == [x \in MCPlaces |-> IF x = near THEN here ELSE x]
MCOutlines == { << >>, <<here, near>>, <<near, there, near>> }
=============================================================================
