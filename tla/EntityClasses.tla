---------------------------- MODULE EntityClasses ---------------------------
(***************************************************************************)
(* The entity classes of src/src/entities, each as                         *)
(*   fixed      the group codes of the fields it writes whatever they      *)
(*              hold, in the order it writes them;                         *)
(*   optional   those of the fields it writes when they are of interest;   *)
(*   init       what its constructor puts into them, where it is not 0;    *)
(*   own        the records countRecords() adds to those of the base       *)
(*              class, and to those that depend on the entity;             *)
(*   hides      write() writes nothing when the entity is deleted;         *)
(*   parts      the arrays of other entities it contains.                  *)
(* handleRecord(), getRecord() and copy() of a class treat just these      *)
(* fields; what a class does besides is in EntityRecords.                  *)
(***************************************************************************)
EXTENDS Integers, Sequences, FiniteSets, SequencesExt

CONSTANTS
  Unset,  \* what memory holds that was allocated and not assigned
  Bad,    \* text where a number is expected, or nothing
  Full    \* two pi

\* the group codes of n points: 10, 20, 30, 11, 21, 31, ...
Points(n) == [k \in 1 .. 3 * n |-> 10 * (((k - 1) % 3) + 1) + ((k - 1) \div 3)]

Class(fixed, optional, init, own) ==
  [fixed |-> fixed, optional |-> optional, init |-> init, own |-> own,
   hides |-> FALSE, parts |-> {}]
Hiding(class) == [class EXCEPT !.hides = TRUE]

\* thickness and direction of ExtrusionEntity
Extrusion == {39, 210, 220, 230}
Up == 230 :> 1

Line == Class(Points(2), Extrusion, Up, 7)
Point == Hiding(Class(Points(1), Extrusion, Up, 4))
Circle == Class(Points(1) \o <<40>>, Extrusion, Up, 5)
Arc == Class(Points(1) \o <<40, 50, 51>>, Extrusion, Up @@ 51 :> Full, 7)
Ellipse == Class(Points(2) \o <<40, 41, 42>>, Extrusion,
                 Up @@ 31 :> 1 @@ 40 :> 1 @@ 42 :> Full, 10)

\* the four corners of FaceEntity
Corners == Points(4)
Face3D == Hiding(Class(Corners, {70}, << >>, 13))
Solid == Hiding(Class(Corners, Extrusion, Up, 13))
Trace == Hiding(Class(Corners, Extrusion, Up, 13))

Vertex == Hiding(Class(<<70>> \o Points(1), 71 .. 74, << >>, 5))
Polyline == [Hiding(Class(Points(1) \o <<70>>, 71 .. 75 \cup Extrusion, Up, 5))
               EXCEPT !.parts = {"frame", "coord", "index"}]
Insert == [Class(<<2>> \o Points(1), {50, 66, 70, 71, 210, 220, 230} \cup 41 .. 45,
                 Up @@ 2 :> Unset @@ [c \in {41, 42, 43, 70, 71} |-> 1], 5)
             EXCEPT !.parts = {"attributes"}]
LWPolyline == Class(<<90>>, {38, 43, 70} \cup Extrusion, Up, 2)
\* a tolerance of 0 stands for the default one
Spline == Class(<<70, 71, 72, 73, 74, 42, 43>>, {44}, 70 :> 8 @@ 71 :> 3, 7)

\* a name of NULL, as an INSERT that names no block
Block == [Class(<<2, 70>> \o Points(1), {}, 2 :> Unset, 6) EXCEPT !.parts = {"members"}]

Hatch == Class(<< >>, {}, << >>, 5)
MText == Class(<< >>, {1, 7, 8, 10, 20}, [c \in {1, 7, 8} |-> ""], 5)
Unknown == Class(<< >>, {}, << >>, 1)

\* createEntity(), and the names the classes give themselves
Classes ==
  "LINE" :> Line @@ "POINT" :> Point @@ "CIRCLE" :> Circle @@ "ARC" :> Arc
    @@ "ELLIPSE" :> Ellipse @@ "3DFACE" :> Face3D @@ "SOLID" :> Solid @@ "TRACE" :> Trace
    @@ "BLOCK" :> Block @@ "VERTEX" :> Vertex @@ "POLYLINE" :> Polyline @@ "INSERT" :> Insert
    @@ "LWPOLYLINE" :> LWPolyline @@ "SPLINE" :> Spline @@ "HATCH" :> Hatch
    @@ "MTEXT" :> MText @@ "UNKNOWN" :> Unknown

KindOf(name) ==
  CASE name \in {"ATTDEF", "TEXT", "IMAGE", "ATTRIB"} -> "MTEXT"
    [] name \in DOMAIN Classes -> name
    [] OTHER -> "UNKNOWN"

FieldCodes(kind) == ToSet(Classes[kind].fixed) \cup Classes[kind].optional
Default(kind, c) == IF c \in DOMAIN Classes[kind].init THEN Classes[kind].init[c] ELSE 0

\* get_record_type(): the group codes whose values are numbers
Numeric ==
  10 .. 79 \cup 90 .. 99 \cup 140 .. 147 \cup 170 .. 178 \cup {210, 220, 230}
    \cup 270 .. 275 \cup 280 .. 289 \cup 1060 .. 1071
=============================================================================
