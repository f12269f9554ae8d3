---------------------------- MODULE EntityRecords ---------------------------
(***************************************************************************)
(* An entity (src/src/entities) as records of a DXF file: what becomes of  *)
(* a record that is read or set, and what is answered for one.             *)
(* A record is a pair <<group code, value>>, an entity                     *)
(*   kind, name   its class, and the name it was created for;              *)
(*   f            the fields, each known by its group code;                *)
(*   recs         the records the holder keeps;                            *)
(*   layer, colour, marks (entityFlags), deleted;                          *)
(*   arr, at, got the arrays of LWPOLYLINE and SPLINE by group code, the   *)
(*                next place in them, and the codes met for that place;    *)
(*   parts        VERTEXes, attributes and the members of a BLOCK;         *)
(*   seqend       the SEQEND or ENDBLK behind them, in a sequence of one.  *)
(* Numbers survive being printed, and counts fit into 16 bits.             *)
(***************************************************************************)
EXTENDS EntityClasses

ByLayer == 256

Codes(recs) == {recs[k][1] : k \in DOMAIN recs}
With(recs, c) == SelectSeq(recs, LAMBDA r : r[1] = c)
FirstWith(recs, c) == SubSeq(With(recs, c), 1, IF c \in Codes(recs) THEN 1 ELSE 0)
Bit(flags, b) == (flags \div b) % 2 = 1

\* getEntityName()
NameOf(e) == CASE e.kind = "UNKNOWN" -> e.name
               [] e.kind = "HATCH" -> "CIRCLE"
               [] OTHER -> e.kind

\* the constructors
New(name) ==
  LET kind == KindOf(name)
  IN  [kind |-> kind, name |-> name,
       f |-> [c \in FieldCodes(kind) |-> Default(kind, c)],
       recs |-> << >>, layer |-> "0", colour |-> ByLayer, marks |-> {}, deleted |-> FALSE,
       arr |-> << >>, at |-> [c \in {10, 11, 40, 41} |-> 1], got |-> {},
       parts |-> [p \in Classes[kind].parts |-> << >>], seqend |-> << >>]
-----------------------------------------------------------------------------
(* One record: handleRecord(), and the holder when that declines. *)
Mark == [c \in {5, 6, 62, 67, 100, 330, 360} |->
          CASE c = 5 -> "handle" [] c = 6 -> "linetype" [] c = 62 -> "colour"
            [] c = 67 -> "paperspace" [] c = 100 -> "subclass"
            [] c = 330 -> "reactors" [] c = 360 -> "xdictionary"]

EntityHandles_NoMark(e, c, v) ==
  [e EXCEPT !.marks = IF c \in DOMAIN Mark \ {6} THEN @ \cup {Mark[c]} ELSE @,
            !.layer = IF c = 8 THEN v ELSE @,
            !.colour = IF c = 62 THEN v ELSE @]

EntityHandles(e, c, v) ==
  [e EXCEPT !.marks = IF c \in DOMAIN Mark THEN @ \cup {Mark[c]} ELSE @,
            !.layer = IF c = 8 THEN v ELSE @,
            !.colour = IF c = 62 THEN v ELSE @]

LWCodes == {10, 20, 40, 41, 42}
SplineCodes == {10, 20, 30, 11, 21, 31, 40, 41}

\* the arrays, allocated when the first vertex is met
LWArrays(e) ==
  [c \in IF e.f[43] = 0 THEN LWCodes ELSE LWCodes \ {40, 41} |->
     [i \in 1 .. e.f[90] |-> IF c \in {10, 20} THEN Unset ELSE 0]]

\* a code met for the second time belongs to the next vertex
LWVertex_NoReset(e, c, v) ==
  LET a == IF e.arr = << >> THEN LWArrays(e) ELSE e.arr
      n == IF c \in e.got THEN e.at[10] + 1 ELSE e.at[10]
      fits == n <= e.f[90] /\ c \in DOMAIN a
  IN  IF e.arr = << >> /\ e.f[90] <= 0 THEN e
      ELSE [e EXCEPT !.arr = IF fits THEN [a EXCEPT ![c][n] = v] ELSE a,
                     !.at[10] = n,
                     !.got = @ \cup (IF fits THEN {c} ELSE {})]

LWVertex(e, c, v) ==
  LET a == IF e.arr = << >> THEN LWArrays(e) ELSE e.arr
      n == IF c \in e.got THEN e.at[10] + 1 ELSE e.at[10]
      fits == n <= e.f[90] /\ c \in DOMAIN a
  IN  IF e.arr = << >> /\ e.f[90] <= 0 THEN e
      ELSE [e EXCEPT !.arr = IF fits THEN [a EXCEPT ![c][n] = v] ELSE a,
                     !.at[10] = n,
                     !.got = (IF c \in @ THEN {} ELSE @) \cup (IF fits THEN {c} ELSE {})]

SplineSize(c) == CASE c = 40 -> 72 [] c \in {11, 21, 31} -> 74 [] OTHER -> 73
SplineArray(c) == CASE c \in {10, 20, 30} -> {10, 20, 30}
                    [] c \in {11, 21, 31} -> {11, 21, 31}
                    [] OTHER -> {c}

\* an array is allocated at its first record; the last code of a point moves on
SplineItem(e, c, v) ==
  LET n == e.f[SplineSize(c)]
      new == IF c \notin DOMAIN e.arr /\ n # 0 THEN SplineArray(c) ELSE {}
      a == [d \in DOMAIN e.arr \cup new |->
              IF d \in new THEN [i \in 1 .. n |-> Unset] ELSE e.arr[d]]
      first == CHOOSE d \in SplineArray(c) : \A x \in SplineArray(c) : d <= x
      i == IF new # {} THEN 1 ELSE e.at[first]
  IN  [e EXCEPT !.arr = IF c \in DOMAIN a /\ i <= n THEN [a EXCEPT ![c][i] = v] ELSE a,
                !.at[first] = IF c \in {30, 31, 40, 41} THEN i + 1 ELSE i]

Handle(e, c, v) ==
  CASE e.kind = "LWPOLYLINE" /\ c \in LWCodes -> LWVertex(e, c, v)
    [] e.kind = "SPLINE" /\ c \in SplineCodes -> SplineItem(e, c, v)
    [] e.kind = "POLYLINE" /\ c = 66 -> [e EXCEPT !.marks = @ \cup {"vertices"}]
    [] e.kind = "MTEXT" /\ c \in DOMAIN e.f -> EntityHandles([e EXCEPT !.f[c] = v], c, v)
    [] e.kind # "MTEXT" /\ c \in DOMAIN e.f -> [e EXCEPT !.f[c] = v]
    [] OTHER -> EntityHandles(e, c, v)

\* what handleRecord() returns: FALSE leaves the record to the holder
Handled(e, c, v) ==
  \/ e.kind = "LWPOLYLINE" /\ c \in LWCodes
  \/ e.kind = "SPLINE" /\ c \in SplineCodes
  \/ e.kind = "POLYLINE" /\ c = 66
  \/ e.kind # "MTEXT" /\ c \in DOMAIN e.f
  \/ c \in {8, 62, 67, 102}
  \/ c = 100 /\ v = "AcDbEntity"

\* while reading
Receive(e, c, v) ==
  IF Handled(e, c, v) THEN Handle(e, c, v)
  ELSE [Handle(e, c, v) EXCEPT !.recs = Append(@, <<c, v>>)]

\* findRecord(): the place of record i of a group code, or none
PlacesOf(recs, c, i) ==
  {k \in DOMAIN recs : recs[k][1] = c /\ Len(With(SubSeq(recs, 1, k), c)) = i}

SetRecord_Appends(e, c, v, i) == Receive(e, c, v)

\* setRecord(), with i = 1, and setIndexedRecord(): a record that is not there
\* is the last one
SetRecord(e, c, v, i) ==
  LET places == PlacesOf(e.recs, c, i)
  IN  IF Handled(e, c, v) \/ places = {} THEN Receive(e, c, v)
      ELSE [Handle(e, c, v) EXCEPT !.recs = [k \in DOMAIN @ |->
                                               IF k \in places THEN <<c, v>> ELSE @[k]]]

\* setRecords(): what is new comes before all the records there were
SetRecords(e, list) ==
  LET set(x, r) == IF ~Handled(x, r[1], r[2]) /\ PlacesOf(x.recs, r[1], 1) = {}
                   THEN Handle(x, r[1], r[2]) ELSE SetRecord(x, r[1], r[2], 1)
      all == FoldLeft(set, e, list)
      new == SelectSeq(list, LAMBDA r : ~Handled(e, r[1], r[2])
                                          /\ PlacesOf(e.recs, r[1], 1) = {})
  IN  [all EXCEPT !.recs = new \o @]

\* getRecord() with index i, from 1: nothing, or a sequence of one
HolderAnswers(e, c, i) ==
  IF i <= Len(With(e.recs, c)) THEN <<With(e.recs, c)[i][2]>> ELSE << >>

EntityAnswers(e, c, i) ==
  CASE c = 8 -> <<e.layer>>
    [] c = 62 -> <<e.colour>>
    [] OTHER -> HolderAnswers(e, c, i)

GetRecord(e, c, i) ==
  CASE e.kind = "LWPOLYLINE" /\ c \in LWCodes ->
         IF c \in DOMAIN e.arr /\ i \in 1 .. e.f[90] THEN <<e.arr[c][i]>> ELSE << >>
    [] e.kind = "SPLINE" /\ c = 41 -> IF c \in DOMAIN e.arr THEN <<e.arr[c][i]>> ELSE <<1>>
    [] e.kind = "SPLINE" /\ c \in SplineCodes \ {41} ->
         IF c \in DOMAIN e.arr /\ i \in DOMAIN e.arr[c] THEN <<e.arr[c][i]>> ELSE <<Unset>>
    [] e.kind = "POLYLINE" /\ c = 66 -> <<e.f[70]>>
    [] e.kind = "MTEXT" /\ c \in {10, 20, 30, 40} -> <<Unset>>
    [] e.kind # "MTEXT" /\ c \in DOMAIN e.f -> <<e.f[c]>>
    [] OTHER -> EntityAnswers(e, c, i)
=============================================================================
