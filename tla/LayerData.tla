------------------------------ MODULE LayerData -----------------------------
(***************************************************************************)
(* dxfLayerData (src/src/convert/layerdata.cpp): the geometry of one       *)
(* colour.  Places are entered in two point trees, which are used as the   *)
(* PointIndex they are and never removed from: a list of places without    *)
(* repetition.  Lines and faces are lists of numbers of places, from 1,    *)
(* in which 0 (the code's -1) ends a strip or a face.                      *)
(* A definition with an underscore in its name is a fault for a mutation   *)
(* run, not the code's.                                                    *)
(***************************************************************************)
EXTENDS Integers, Sequences, SequencesExt

End == 0

NewLayer == [fill |-> TRUE, facePts |-> << >>, faces |-> << >>,
             linePts |-> << >>, lines |-> << >>, pts |-> << >>]

\* dimeBSPTree::addPoint(): the places, and the number of one that is there
Entered(places, p) == IF Contains(places, p) THEN places ELSE Append(places, p)
EnteredAll(places, pts) ==
  LET after[k \in 0 .. Len(pts)] ==
        IF k = 0 THEN places ELSE Entered(after[k - 1], pts[k])
  IN  after[Len(pts)]
NumberOf(places, p) == SelectInSeq(places, LAMBDA q : q = p)

Joined_Always(lines, i, j) == IF lines = << >> THEN <<i, j>> ELSE Append(lines, j)

\* a line that starts where the last one ended continues its strip
Joined(lines, i, j) ==
  IF lines # << >> /\ Last(lines) = i THEN Append(lines, j)
  ELSE (IF lines = << >> THEN << >> ELSE Append(lines, End)) \o <<i, j>>

AddLine(ld, a, b) ==
  LET places == Entered(Entered(ld.linePts, a), b)
  IN  [ld EXCEPT !.linePts = places,
                 !.lines = Joined(@, NumberOf(places, a), NumberOf(places, b))]

Edges(pts) == [k \in DOMAIN pts |-> <<pts[k], pts[(k % Len(pts)) + 1]>>]

\* the lines of an outline, one after the other
AddOutline(ld, edges) ==
  LET after[k \in 0 .. Len(edges)] ==
        IF k = 0 THEN ld ELSE AddLine(after[k - 1], edges[k][1], edges[k][2])
  IN  after[Len(edges)]

\* addTriangle() and addQuad(): a face, or its outline
AddFace(ld, pts) ==
  IF ld.fill
  THEN LET places == EnteredAll(ld.facePts, pts)
       IN  [ld EXCEPT !.facePts = places,
                      !.faces = @ \o [k \in DOMAIN pts |-> NumberOf(places, pts[k])]
                                  \o <<End>>]
  ELSE AddOutline(ld, Edges(pts))

\* what a conversion adds is told by the number of its points
Add(ld, pts) ==
  CASE Len(pts) = 1 -> [ld EXCEPT !.pts = @ \o pts]
    [] Len(pts) = 2 -> AddLine(ld, pts[1], pts[2])
    [] OTHER -> AddFace(ld, pts)

\* writeWrl(): the last strip is ended in place
Closed(lines) ==
  IF lines # << >> /\ Last(lines) # End THEN Append(lines, End) ELSE lines

-----------------------------------------------------------------------------
(* What a viewer sees. *)

\* the line that number k of the strips ends, if any
Stroke(places, lines, k) ==
  IF k = 1 \/ lines[k] = End \/ lines[k - 1] = End THEN << >>
  ELSE <<<<places[lines[k - 1]], places[lines[k]]>>>>

\* the lines of all strips, in order
DrawnLines(places, lines) ==
  FlattenSeq([k \in DOMAIN lines |-> Stroke(places, lines, k)])

\* the faces that have ended and the corners of the one that has not, in order
NothingSeen == [ended |-> << >>, corners |-> << >>]
See(places, before, number) ==
  IF number = End
  THEN [ended |-> Append(before.ended, before.corners), corners |-> << >>]
  ELSE [before EXCEPT !.corners = Append(@, places[number])]
Seen(places, faces) ==
  LET seen[k \in 0 .. Len(faces)] ==
        IF k = 0 THEN NothingSeen ELSE See(places, seen[k - 1], faces[k])
  IN  seen[Len(faces)]
DrawnFaces(places, faces) == Seen(places, faces).ended
=============================================================================
