------------------------------ MODULE EntityIO ------------------------------
(***************************************************************************)
(* An ENTITIES or BLOCKS section between file and memory: what read() makes *)
(* of a stream of records, what write() makes of the entities, how many records *)
(* countRecords() announces, what copy() keeps and what a client changes   *)
(* in between.  Entities and single records are in EntityRecords.          *)
(* The text form of the file is meant; the value after the group code a    *)
(* HATCH writes is Bad.  Reading it takes the next group code for it, and  *)
(* so every value for a code, up to the name of the next entity, which is  *)
(* no number: the read fails, as it does on Bad.                           *)
(* Assertions are compiled out, as in a release build (configure.ac:116).  *)
(***************************************************************************)
EXTENDS EntityRecords

CONSTANTS
  Texts,     \* the files there are, as sequences of records
  Clean,     \* those of them that hold nothing twice and nothing unusual
  Edits,     \* the records a client sets
  EditLists, \* the records it sets at once
  Layers,    \* the layers it moves entities to
  NewOnes,   \* the entities it makes and inserts
  NewParts,  \* sequences of vertices it gives to a POLYLINE
  NewValues, \* arrays of numbers it gives to a SPLINE
  NewFaces,  \* the three or four corners it gives to a face
  MaxReach,  \* bound on the place of the vertices and members it edits
  MaxSteps   \* bound on what happens to one drawing

ASSUME EntityIOAssumption == MaxSteps \in Nat /\ MaxReach \in Nat /\ Clean \subseteq Texts

VARIABLES
  file,     \* the section read last, from its name on
  drawing,  \* the entities
  status,   \* "ok", "failed" (the file could not be read), "crashed"
  steps     \* what happened since the file was read

vars == <<file, drawing, status, steps>>

Opt(when, recs) == IF when THEN recs ELSE << >>
Fields(e, codes) == [k \in DOMAIN codes |-> <<codes[k], e.f[codes[k]]>>]
NonZero(e, codes) == SelectSeq(Fields(e, codes), LAMBDA r : r[2] # 0)
Values3(e, codes) == [k \in 1 .. 3 |-> e.f[codes[k]]]
Other(e, codes, default) == Opt(Values3(e, codes) # default, Fields(e, codes))
NormalCodes == <<210, 220, 230>>

ExtrusionData(e) == NonZero(e, <<39>>) \o Other(e, NormalCodes, <<0, 0, 1>>)

\* dimeVertex::numIndices(), as the codes of the indices
IndexCodes(e) ==
  LET n == CHOOSE n \in 0 .. 4 : /\ \A k \in 1 .. n : e.f[70 + k] # 0
                                 /\ n = 4 \/ e.f[71 + n] = 0
  IN  IF Bit(e.f[70], 128) /\ ~Bit(e.f[70], 64) THEN [k \in 1 .. n |-> 70 + k] ELSE << >>

HasVertices(e) == \E p \in {"frame", "coord", "index"} : e.parts[p] # << >>
HasAttributes(e) == e.f[66] # 0 /\ e.parts["attributes"] # << >>

\* dimeSpline::hasWeights()
HasWeights(e) == 41 \in DOMAIN e.arr /\ \E i \in 1 .. e.f[73] : e.arr[41][i] # 1

Live(parts) == SelectSeq(parts, LAMBDA v : ~v.deleted)
-----------------------------------------------------------------------------
(* Writing. *)
PreWrite(e) ==
  LET has(m) == m \in e.marks
      group(m, name, c) == Opt(has(m), <<<<102, name>>>> \o FirstWith(e.recs, c) \o <<<<102, "}">>>>)
  IN  <<<<0, NameOf(e)>>>>
        \o Opt(has("handle"), FirstWith(e.recs, 5))
        \o group("reactors", "{ACAD_REACTORS", 330)
        \o group("xdictionary", "{ACAD_XDICTIONARY", 360)
        \o Opt(has("subclass"), <<<<100, "AcDbEntity">>>>)
        \o Opt(has("paperspace"), <<<<67, 1>>>>)
        \o <<<<8, e.layer>>>>
        \o Opt(has("linetype"), FirstWith(e.recs, 6))
        \o Opt(e.colour # ByLayer, <<<<62, e.colour>>>>)
        \o Opt(has("subclass"), With(e.recs, 100))

\* what is left for dimeEntity::write()
PreWritten == {5, 6, 100, 330, 360}
Held(e) == SelectSeq(e.recs, LAMBDA r : r[1] \notin PreWritten)

Items(e, codes, n) ==
  FlattenSeq([i \in 1 .. n |-> [k \in DOMAIN codes |-> <<codes[k], e.arr[codes[k]][i]>>]])

LWVertices(e) ==
  FlattenSeq([i \in 1 .. e.f[90] |->
    <<<<10, e.arr[10][i]>>, <<20, e.arr[20][i]>>>>
      \o Opt(40 \in DOMAIN e.arr /\ e.arr[40][i] # 0, <<<<40, e.arr[40][i]>>>>)
      \o Opt(41 \in DOMAIN e.arr /\ e.arr[41][i] # 0, <<<<41, e.arr[41][i]>>>>)
      \o Opt(e.arr[42][i] # 0, <<<<42, e.arr[42][i]>>>>)])

SplineItems(e) ==
  Opt(e.f[74] # 0, Fields(e, <<44>>)) \o Items(e, <<40>>, e.f[72])
    \o Opt(HasWeights(e), Items(e, <<41>>, e.f[73]))
    \o Items(e, <<10, 20, 30>>, e.f[73]) \o Items(e, <<11, 21, 31>>, e.f[74])

InsertFields(e) ==
  Opt(e.f[66] # 0, <<<<66, 1>>>>) \o Fields(e, Insert.fixed)
    \o Other(e, <<41, 42, 43>>, <<1, 1, 1>>) \o NonZero(e, <<50>>)
    \o Opt(e.f[70] # 1, Fields(e, <<70>>)) \o Opt(e.f[71] # 1, Fields(e, <<71>>))
    \o NonZero(e, <<44, 45>>) \o Held(e) \o Other(e, NormalCodes, <<0, 0, 1>>)

PolylineFields(e) ==
  Opt(HasVertices(e), <<<<66, 1>>>>) \o Fields(e, Polyline.fixed) \o ExtrusionData(e)
    \o (IF Bit(e.f[70], 64)
        THEN <<<<71, Len(Live(e.parts["coord"]))>>, <<72, Len(Live(e.parts["index"]))>>>>
        ELSE NonZero(e, <<71, 72, 73, 74, 75>>))
    \o Held(e)

BlockFields(e) == Fields(e, Block.fixed) \o Held(e)

Body(e) ==
  LET fixed == Fields(e, Classes[e.kind].fixed)
  IN  CASE e.kind \in {"LINE", "POINT", "CIRCLE", "ARC", "ELLIPSE", "SOLID", "TRACE"} ->
             fixed \o ExtrusionData(e) \o Held(e)
        [] e.kind = "BLOCK" -> BlockFields(e)
        [] e.kind = "3DFACE" -> fixed \o NonZero(e, <<70>>) \o Held(e)
        [] e.kind = "VERTEX" -> fixed \o Fields(e, IndexCodes(e)) \o Held(e)
        [] e.kind = "LWPOLYLINE" ->
             fixed \o NonZero(e, <<70, 38, 43>>) \o ExtrusionData(e) \o Held(e) \o LWVertices(e)
        [] e.kind = "SPLINE" -> Held(e) \o fixed \o SplineItems(e)
        [] e.kind = "INSERT" -> InsertFields(e)
        [] e.kind = "POLYLINE" -> PolylineFields(e)
        [] e.kind = "HATCH" -> <<<<10, Bad>>>> \o Held(e)
        [] e.kind = "MTEXT" -> <<<<10, e.f[1]>>>> \o Held(e)
        [] OTHER -> Held(e)

\* write(), with the entities an entity contains and the SEQEND behind them
RECURSIVE Saved(_)
Saved(e) ==
  LET all(parts) == FlattenSeq([k \in DOMAIN parts |-> Saved(parts[k])])
      closing(default) == IF e.seqend # << >> THEN all(e.seqend) ELSE default
  IN  IF e.deleted /\ Classes[e.kind].hides THEN << >>
      ELSE PreWrite(e) \o Body(e)
             \o (CASE e.kind = "POLYLINE" ->
                        all(e.parts["frame"]) \o all(e.parts["coord"]) \o all(e.parts["index"])
                          \o closing(<<<<0, "SEQEND">>, <<8, e.layer>>>>)
                   [] e.kind = "BLOCK" ->
                        all(e.parts["members"]) \o closing(<<<<0, "ENDBLK">>, <<8, e.layer>>>>)
                   [] e.kind = "INSERT" /\ HasAttributes(e) ->
                        all(e.parts["attributes"]) \o closing(<<<<0, "SEQEND">>>>)
                   [] OTHER -> << >>)

\* dimeEntitiesSection::write(), dimeBlocksSection::write()
Written(section, entities) ==
  <<<<2, section>>>> \o FlattenSeq([k \in DOMAIN entities |-> Saved(entities[k])])
    \o <<<<0, "ENDSEC">>>>
-----------------------------------------------------------------------------
(* Counting. *)
CountIf(cond) == IF cond THEN 1 ELSE 0
CountNonZero(e, codes) == Cardinality({c \in codes : e.f[c] # 0})
CountOther(e, codes, default) == 3 * CountIf(Values3(e, codes) # default)

CountBase(e) == 1 + CountIf(e.colour # ByLayer) + Len(e.recs)
CountNormal(e) == CountOther(e, NormalCodes, <<0, 0, 1>>)
CountExtrusion_NoThickness(e) == CountNormal(e) + CountBase(e)
CountExtrusion(e) == CountNonZero(e, {39}) + CountNormal(e) + CountBase(e)

\* nonzero entries of the optional arrays
CountItems(e, codes) ==
  Cardinality({<<c, i>> \in (codes \cap DOMAIN e.arr) \X (1 .. e.f[90]) : e.arr[c][i] # 0})

CountLWPolyline(e) ==
  CountNonZero(e, {38, 43, 70}) + 2 * e.f[90] + CountItems(e, {40, 41, 42}) + CountExtrusion(e)

CountSpline(e) ==
  3 * e.f[73] + CountIf(HasWeights(e)) * e.f[73] + 3 * e.f[74] + CountIf(e.f[74] # 0)
    + e.f[72] + CountBase(e)

CountInsert(e) ==
  CountIf(e.f[66] # 0) + CountOther(e, <<41, 42, 43>>, <<1, 1, 1>>)
    + CountNonZero(e, {44, 45, 50}) + CountIf(e.f[70] # 1) + CountIf(e.f[71] # 1)
    + CountNormal(e) + CountIf(HasAttributes(e)) + CountBase(e)

CountPolyline(e) ==
  CountIf(e.parts["coord"] # << >> \/ e.parts["index"] # << >>)
    + (IF Bit(e.f[70], 64) THEN 2 ELSE CountNonZero(e, 71 .. 75)) + CountIf(e.seqend = << >>)

CountBlock(e) == Block.own + CountBase(e)

\* countRecords(), and that of the entities an entity contains
RECURSIVE Count(_)
Count(e) ==
  LET sum(parts) == FoldLeft(LAMBDA n, x : n + Count(x), 0, parts)
      own == Classes[e.kind].own
  IN  CASE e.deleted /\ e.kind \in {"3DFACE", "SOLID", "TRACE", "VERTEX"} -> 0
        [] e.kind \in {"LINE", "POINT", "CIRCLE", "ARC", "ELLIPSE"} -> own + CountExtrusion(e)
        [] e.kind \in {"SOLID", "TRACE"} /\ ~e.deleted -> own + CountExtrusion(e)
        [] e.kind = "3DFACE" /\ ~e.deleted -> own + CountNonZero(e, {70}) + CountBase(e)
        [] e.kind = "VERTEX" /\ ~e.deleted -> own + Len(IndexCodes(e)) + CountBase(e)
        [] e.kind = "LWPOLYLINE" -> own + CountLWPolyline(e)
        [] e.kind = "SPLINE" -> own + CountSpline(e)
        [] e.kind = "INSERT" ->
             own + CountInsert(e) + (IF HasAttributes(e) THEN sum(e.parts["attributes"]) ELSE 0)
        [] e.kind = "POLYLINE" ->
             own + CountPolyline(e) + sum(Live(e.parts["coord"])) + sum(Live(e.parts["index"]))
               + sum(Live(e.parts["frame"])) + sum(e.seqend)
        [] e.kind = "BLOCK" -> CountBlock(e) + sum(e.parts["members"])
        [] e.kind \in {"HATCH", "MTEXT", "UNKNOWN"} -> own + CountBase(e)

\* countRecords() of the sections
CountSection(entities) == FoldLeft(LAMBDA n, e : n + Count(e), 0, entities) + 2
-----------------------------------------------------------------------------
(* Reading.  "open" is the entities that are being read, from the section's *)
(* own (level 1) to the innermost POLYLINE, INSERT or BLOCK whose parts are  *)
(* coming: at each level its owner and what it has so far; "cur" is the      *)
(* entity whose records are coming, "state" is "reading", "failed" or "over".*)
Start(section) ==
  [section |-> section, open |-> <<[owner |-> << >>, items |-> << >>]>>, cur |-> << >>,
   state |-> "reading"]

Keep(p, e) == [p EXCEPT !.open[Len(p.open)].items = Append(@, e), !.cur = << >>]
Inside(p) == Len(p.open) > 1
OwnerKind(p) == Last(p.open).owner[1].kind
\* the entity that ends the list that is open
Stop(p) == IF OwnerKind(p) = "BLOCK" THEN "ENDBLK" ELSE "SEQEND"

\* dimePolyline::read(): each vertex is one of three kinds
Sorted(kind, items) ==
  LET frame(v) == Bit(v.f[70], 16)
      index(v) == IndexCodes(v) # << >>
  IN  IF kind # "POLYLINE" THEN [p \in Classes[kind].parts |-> items]
      ELSE [frame |-> SelectSeq(items, LAMBDA v : frame(v)),
            index |-> SelectSeq(items, LAMBDA v : index(v) /\ ~frame(v)),
            coord |-> SelectSeq(items, LAMBDA v : ~index(v) /\ ~frame(v))]

\* the SEQEND or ENDBLK is complete, and so is the entity it belongs to
Close(p) ==
  LET level == Last(p.open)
      owner == level.owner[1]
  IN  Keep([p EXCEPT !.open = Front(@)],
           [owner EXCEPT !.parts = Sorted(owner.kind, level.items), !.seqend = p.cur])

\* the records of an entity are complete; others may belong to it
Complete(p) ==
  IF p.cur = << >> THEN p
  ELSE LET e == p.cur[1]
       IN  IF Inside(p) /\ e.name = Stop(p) THEN Close(p)
           ELSE IF \/ e.kind = "BLOCK"
                   \/ e.kind = "POLYLINE" /\ "vertices" \in e.marks
                   \/ e.kind = "INSERT" /\ e.f[66] # 0
                THEN [p EXCEPT !.open = Append(@, [owner |-> p.cur, items |-> << >>]), !.cur = << >>]
                ELSE Keep(p, e)

\* the next entity, or the end
Begin(p, name) ==
  IF ~Inside(p) /\ name = "ENDSEC" THEN [p EXCEPT !.state = "over"]
  ELSE IF \/ Inside(p) /\ OwnerKind(p) = "POLYLINE" /\ name \notin {"VERTEX", "SEQEND"}
          \/ ~Inside(p) /\ p.section = "BLOCKS" /\ name # "BLOCK"
       THEN [p EXCEPT !.state = "failed"]
  ELSE [p EXCEPT !.cur = <<New(name)>>]

Unreadable(c, v) == c \in Numeric /\ v = Bad

Accept(p, r) ==
  IF p.state # "reading" THEN p
  ELSE IF r[1] = 0 THEN Begin(Complete(p), r[2])
  ELSE IF p.cur = << >> \/ Unreadable(r[1], r[2]) THEN [p EXCEPT !.state = "failed"]
  ELSE [p EXCEPT !.cur[1] = Receive(@, r[1], r[2])]

\* dimeEntitiesSection::read(), dimeBlocksSection::read(): the entities, in a
\* sequence of one, or failure; "text" begins with the name of the section
Parsed(text) ==
  LET p == FoldLeft(Accept, Start(text[1][2]), Tail(text))
  IN  IF p.state = "over" THEN <<p.open[1].items>> ELSE << >>
-----------------------------------------------------------------------------
(* Copying. *)
\* the arrays of a copy: an array that never came is allocated for its count
CopiedArrays(e) ==
  IF e.kind = "SPLINE" /\ e.f[72] # 0 /\ 40 \notin DOMAIN e.arr
  THEN [c \in DOMAIN e.arr \cup {40} |-> IF c = 40 THEN [i \in 1 .. e.f[72] |-> Unset] ELSE e.arr[c]]
  ELSE e.arr

RECURSIVE Copied(_)
Copied(e) ==
  LET live(parts) == LET l == Live(parts) IN [k \in DOMAIN l |-> Copied(l[k])]
  IN  [e EXCEPT !.f = IF e.kind = "MTEXT" THEN [New("MTEXT").f EXCEPT ![1] = e.f[1]] ELSE @,
                !.arr = CopiedArrays(e),
                !.parts = [p \in DOMAIN @ |-> live(@[p])],
                !.seqend = [k \in DOMAIN @ |-> Copied(@[k])]]

\* dimeEntity::copyEntityArray(); dimeBlocksSection::copy() leaves nothing out
Copying(section, entities) == IF section = "BLOCKS" THEN entities ELSE Live(entities)
CopiedAll(section, entities) ==
  LET l == Copying(section, entities) IN [k \in DOMAIN l |-> Copied(l[k])]

\* write() and copy() follow pointers to arrays, and copy() to the SEQEND
RECURSIVE Writable(_)
Writable(e) ==
  /\ e.kind = "LWPOLYLINE" => (e.f[90] > 0 => e.arr # << >>)
  /\ e.kind = "SPLINE" => \A c \in {40, 10, 11} : e.f[SplineSize(c)] # 0 => c \in DOMAIN e.arr
  /\ \A p \in DOMAIN e.parts : \A v \in ToSet(e.parts[p]) : Writable(v)

RECURSIVE Copyable(_)
Copyable(e) ==
  /\ e.kind = "LWPOLYLINE" => (e.f[90] > 0 => e.arr # << >>)
  /\ e.kind = "POLYLINE" => e.seqend # << >>
  /\ \A p \in DOMAIN e.parts : \A v \in ToSet(Live(e.parts[p])) : Copyable(v)
-----------------------------------------------------------------------------
(* What a client does. *)
Init == file = << >> /\ drawing = << >> /\ status = "ok" /\ steps = 0

\* a section that cannot be read is dropped
Load(text) ==
  LET read == Parsed(text)
  IN  /\ file' = text
      /\ status' = IF read = << >> THEN "failed" ELSE "ok"
      /\ drawing' = IF read = << >> THEN << >> ELSE read[1]

Read(text) == file = << >> /\ Load(text) /\ UNCHANGED steps

SectionName == IF file = << >> THEN "none" ELSE file[1][2]
Step == file # << >> /\ status = "ok" /\ steps < MaxSteps /\ steps' = steps + 1
Crash == status' = "crashed" /\ UNCHANGED <<file, drawing>>

\* write() to a file, and read() of that file into another model
Rewrite ==
  /\ Step
  /\ IF \A k \in DOMAIN drawing : Writable(drawing[k]) THEN Load(Written(SectionName, drawing))
     ELSE Crash

\* dimeModel::copy()
CopyModel ==
  /\ Step
  /\ IF \A e \in ToSet(Copying(SectionName, drawing)) : Copyable(e)
     THEN drawing' = CopiedAll(SectionName, drawing) /\ UNCHANGED <<file, status>>
     ELSE Crash

\* the entities a client reaches: those of the section, vertices and members
Vertices(k) ==
  UNION {{<<k, p, j>> : j \in 1 .. MaxReach \cap DOMAIN drawing[k].parts[p]} :
         p \in DOMAIN drawing[k].parts \ {"attributes"}}
Places == {<<k>> : k \in DOMAIN drawing} \cup UNION {Vertices(k) : k \in DOMAIN drawing}
At(entities, place) ==
  IF Len(place) = 1 THEN entities[place[1]] ELSE entities[place[1]].parts[place[2]][place[3]]
Put(place, e) ==
  /\ drawing' = IF Len(place) = 1 THEN [drawing EXCEPT ![place[1]] = e]
                ELSE [drawing EXCEPT ![place[1]].parts[place[2]][place[3]] = e]
  /\ UNCHANGED <<file, status>>

\* the arrays, and the counts they were allocated for, are not set record by
\* record, and setRecord() refuses the layer and the name of a block
Settable(e, c) ==
  /\ c # 8
  /\ ~(e.kind \in {"INSERT", "BLOCK"} /\ c = 2)
  /\ ~(e.kind = "LWPOLYLINE" /\ c \in LWCodes \cup {90})
  /\ ~(e.kind = "SPLINE" /\ c \in SplineCodes \cup 72 .. 74)

Set(place, c, v) ==
  /\ Step
  /\ Settable(At(drawing, place), c)
  /\ Put(place, SetRecord(At(drawing, place), c, v, 1))

\* setIndexedRecord() of the second record, and setRecords()
SetIndexed(place, c, v) ==
  /\ Step
  /\ Settable(At(drawing, place), c)
  /\ Put(place, SetRecord(At(drawing, place), c, v, 2))

SetList(place, list) ==
  /\ Step
  /\ \A r \in ToSet(list) : Settable(At(drawing, place), r[1])
  /\ Put(place, SetRecords(At(drawing, place), list))

SetDeleted(place, onOff) == Step /\ Put(place, [At(drawing, place) EXCEPT !.deleted = onOff])

\* dimePolyline::setLayer() moves the vertices, too
Moved(e, layer) ==
  IF e.kind = "POLYLINE"
  THEN [e EXCEPT !.layer = layer,
                 !.parts = [p \in DOMAIN @ |-> [k \in DOMAIN @[p] |-> [@[p][k] EXCEPT !.layer = layer]]]]
  ELSE [e EXCEPT !.layer = layer]
SetLayer(place, layer) == Step /\ Put(place, Moved(At(drawing, place), layer))

\* insertEntity() and removeEntity() of a section or of a block in it
Edited(entities) == Step /\ drawing' = entities /\ UNCHANGED <<file, status>>
EditedBlock(k, members) == Edited([drawing EXCEPT ![k].parts["members"] = members])
Blocks == {k \in DOMAIN drawing : drawing[k].kind = "BLOCK"}

InsertEntity(e) ==
  \/ /\ SectionName = "ENTITIES"
     /\ \E i \in 1 .. Len(drawing) + 1 : Edited(InsertAt(drawing, i, e))
  \/ \E k \in Blocks : \E i \in 1 .. Len(drawing[k].parts["members"]) + 1 :
       EditedBlock(k, InsertAt(drawing[k].parts["members"], i, e))
RemoveEntity ==
  \/ \E i \in DOMAIN drawing : Edited(RemoveAt(drawing, i))
  \/ \E k \in Blocks : \E i \in DOMAIN drawing[k].parts["members"] :
       EditedBlock(k, RemoveAt(drawing[k].parts["members"], i))

\* setCoordVertices(), setIndexVertices(), setSplineFrameControlPoints()
SetVertices(k, part, vertices) ==
  /\ drawing[k].kind = "POLYLINE"
  /\ Edited([drawing EXCEPT ![k].parts[part] = vertices])

\* dimePolyline::clearSurfaceData()
ClearSurfaceData(k) ==
  /\ drawing[k].kind = "POLYLINE"
  /\ Edited([drawing EXCEPT ![k].f[73] = 0, ![k].f[74] = 0, ![k].f[75] = 0])

\* the arrays of a SPLINE, of an entity that is not in a memory handler:
\* weights do not outlive another number of control points
NewArrays(e, codes, values) ==
  [c \in codes \cup DOMAIN e.arr |-> IF c \in codes THEN values ELSE e.arr[c]]
SetKnotValues(e, values) ==
  [e EXCEPT !.f[72] = Len(values), !.arr = NewArrays(e, {40}, values)]
SetControlPoints(e, values) ==
  LET kept == IF e.f[73] = Len(values) THEN e
              ELSE [e EXCEPT !.arr = [c \in DOMAIN @ \ {41} |-> @[c]]]
  IN  [kept EXCEPT !.f[73] = Len(values), !.arr = NewArrays(kept, {10, 20, 30}, values)]
SetFitPoints(e, values) ==
  [e EXCEPT !.f[74] = Len(values), !.arr = NewArrays(e, {11, 21, 31}, values)]

\* a weight is never set back to 1
SetWeight(e, i, w) ==
  LET weights == IF HasWeights(e) THEN e.arr[41] ELSE [k \in 1 .. e.f[73] |-> 1]
  IN  IF w = 1 THEN e ELSE [e EXCEPT !.arr = NewArrays(e, {41}, [weights EXCEPT ![i] = w])]

EditSpline(k) ==
  LET put(e) == Step /\ Put(<<k>>, e)
      e == drawing[k]
  IN  /\ e.kind = "SPLINE"
      /\ \/ \E values \in NewValues :
              put(SetKnotValues(e, values)) \/ put(SetControlPoints(e, values))
                \/ put(SetFitPoints(e, values))
         \/ \E i \in 1 .. e.f[73], w \in {1, 7} : put(SetWeight(e, i, w))

\* setTriangle() and setQuad() of a 3DFACE, SOLID or TRACE
SetFace(k, corners) ==
  LET e == drawing[k]
      corner(n) == corners[IF n < Len(corners) THEN n + 1 ELSE Len(corners)]
  IN  /\ e.kind \in {"3DFACE", "SOLID", "TRACE"}
      /\ Step
      /\ Put(<<k>>, [e EXCEPT !.f = [c \in DOMAIN @ |-> IF c \in ToSet(Corners)
                                                       THEN corner(c % 10) ELSE @[c]]])

Next ==
  \/ \E text \in Texts : Read(text)
  \/ Rewrite
  \/ CopyModel
  \/ \E place \in Places :
       \/ \E r \in Edits : Set(place, r[1], r[2]) \/ SetIndexed(place, r[1], r[2])
       \/ \E list \in EditLists : SetList(place, list)
       \/ \E onOff \in BOOLEAN : SetDeleted(place, onOff)
       \/ \E layer \in Layers : SetLayer(place, layer)
  \/ \E e \in NewOnes : InsertEntity(e)
  \/ RemoveEntity
  \/ \E k \in DOMAIN drawing :
       \/ \E part \in Polyline.parts, vertices \in NewParts : SetVertices(k, part, vertices)
       \/ ClearSurfaceData(k)
       \/ EditSpline(k)
       \/ \E corners \in NewFaces : SetFace(k, corners)

Spec == Init /\ [][Next]_vars
-----------------------------------------------------------------------------
(* Properties. *)
RECURSIVE Whole(_)
Whole(e) ==
  /\ e.kind = KindOf(e.name) /\ DOMAIN e.f = FieldCodes(e.kind)
  /\ \A c \in DOMAIN e.arr : DOMAIN e.arr[c] = 1 .. e.f[IF e.kind = "LWPOLYLINE" THEN 90 ELSE SplineSize(c)]
  /\ \A r \in ToSet(e.recs) : ~Handled(e, r[1], r[2])
  /\ \A c \in {5, 6, 330, 360} : Mark[c] \in e.marks <=> c \in Codes(e.recs)
  /\ \A p \in DOMAIN e.parts : \A v \in ToSet(e.parts[p]) : Whole(v)

\* Every entity is what its class allows: its arrays have the size its counts
\* say, no record lies in the record holder that the class has a field for,
\* and the mark that makes preWrite() look for a handle, a line type, reactors
\* or a dictionary is there just when the record is (Entity.cpp:736-896).
TypeOK ==
  /\ status \in {"ok", "failed", "crashed"} /\ steps \in 0 .. MaxSteps
  /\ \A k \in DOMAIN drawing : Whole(drawing[k])

Single(e, c) == Len(With(e.recs, c)) <= 1

\* nothing in the arrays is missing, and all of them will be written
ArraysPortable(e) ==
  /\ \A c \in DOMAIN e.arr : Unset \notin ToSet(e.arr[c])
  /\ e.kind = "LWPOLYLINE" =>
       /\ e.arr = << >> <=> e.f[90] = 0
       /\ e.arr # << >> => (40 \in DOMAIN e.arr <=> e.f[43] = 0)
  /\ e.kind = "SPLINE" =>
       /\ \A c \in {40, 10, 11} : c \in DOMAIN e.arr <=> e.f[SplineSize(c)] # 0
       /\ 41 \in DOMAIN e.arr => HasWeights(e)
       /\ e.f[74] = 0 => e.f[44] = Default("SPLINE", 44)

PartsPortable(e) ==
  /\ e.kind = "VERTEX" => \A c \in 71 .. 74 : e.f[c] # 0 => c \in ToSet(IndexCodes(e))
  /\ e.kind = "INSERT" =>
       e.f[2] # Unset /\ e.f[66] = CountIf(e.parts["attributes"] # << >>)
  /\ e.kind = "BLOCK" => e.f[2] # Unset /\ e.seqend # << >>
  /\ e.kind = "POLYLINE" =>
       /\ HasVertices(e) /\ "vertices" \in e.marks /\ e.seqend # << >>
       /\ e.parts = Sorted("POLYLINE", e.parts["frame"] \o e.parts["coord"] \o e.parts["index"])
       /\ Bit(e.f[70], 64) => /\ e.f[71] = Len(e.parts["coord"])
                              /\ e.f[72] = Len(e.parts["index"])
                              /\ \A c \in 73 .. 75 : e.f[c] = 0

\* entities a file can hold without loss; the README says what the others lose
RECURSIVE Portable(_)
Portable(e) ==
  /\ ~e.deleted
  /\ e.kind \notin {"HATCH", "MTEXT"}
  /\ \A c \in {5, 6, 330, 360} : Single(e, c)
  /\ ArraysPortable(e) /\ PartsPortable(e)
  /\ \A p \in DOMAIN e.parts : \A v \in ToSet(e.parts[p]) : Portable(v)
  /\ \A v \in ToSet(e.seqend) : Portable(v)

\* what a client can see of an entity: the records of each group code in order
RECURSIVE Shape(_)
Shape(e) ==
  [class |-> <<e.kind, e.name>>, f |-> e.f, layer |-> e.layer, colour |-> e.colour,
   recs |-> [c \in Codes(e.recs) |-> With(e.recs, c)], marks |-> e.marks \ {"colour"},
   arr |-> e.arr,
   parts |-> [p \in DOMAIN e.parts |-> [k \in DOMAIN e.parts[p] |-> Shape(e.parts[p][k])]],
   seqend |-> [k \in DOMAIN e.seqend |-> Shape(e.seqend[k])]]
ShapeAll(entities) == [k \in DOMAIN entities |-> Shape(entities[k])]

\* What was written is read back as it was: write(), preWrite() and read() of
\* every class agree on the group codes, on their order where it matters and on
\* what comes behind an entity, and no entity swallows the next.
Reread ==
  file # << >> /\ (\A k \in DOMAIN drawing : Portable(drawing[k])) =>
    LET back == Parsed(Written(SectionName, drawing))
    IN  back # << >> /\ ShapeAll(back[1]) = ShapeAll(drawing)

Occurrences(recs, r) == Len(SelectSeq(recs, LAMBDA s : s = r))

\* No record of a clean file is lost or changed between read() and write(),
\* known to a class or not; zeroes may be left out.
NothingLost ==
  file \in Clean /\ steps = 0 =>
    \A r \in ToSet(file) :
      (r[1] \in Numeric => r[2] # 0) =>
        Occurrences(Written(SectionName, drawing), r) = Occurrences(file, r)

\* setRecord() and setIndexedRecord() set that record and no other, where
\* getRecord() finds it, and so does setRecords() for each of several: not so
\* for what is only marked (67, 102), the AcDbEntity subclass, the flag of a
\* POLYLINE that getRecord() answers with another (66) and the MTEXT.
Answers(e, c, v) ==
  ~(c \in {67, 102} \/ <<c, v>> = <<100, "AcDbEntity">> \/ <<e.kind, c>> = <<"POLYLINE", 66>>)
Recorded(e) == Codes(e.recs) \cup DOMAIN e.f \cup {8, 62}
Kept(e, new, c, i) == GetRecord(new, c, i) = GetRecord(e, c, i)
SetOne(e, new, c, v, i) ==
  LET there == Len(With(e.recs, c))
      at == IF i <= there THEN i ELSE there + 1
  IN  /\ Answers(e, c, v) => GetRecord(new, c, at) = <<v>>
      /\ \A d \in Recorded(e) \cup Recorded(new) : \A k \in 1 .. 2 :
           d # c \/ (k # at /\ c \in Codes(e.recs)) => Kept(e, new, d, k)
SetAll(e, new, list) ==
  /\ \A r \in ToSet(list) : Answers(e, r[1], r[2]) => GetRecord(new, r[1], 1) = <<r[2]>>
  /\ \A d \in (Recorded(e) \cup Recorded(new)) \ Codes(list) : \A k \in 1 .. 2 :
       Kept(e, new, d, k)
SetThenGet ==
  [][\A place \in Places :
       LET e == At(drawing, place)
           new == At(drawing', place)
       IN  e.kind # "MTEXT" =>
             /\ \A r \in Edits :
                  /\ Set(place, r[1], r[2]) => SetOne(e, new, r[1], r[2], 1)
                  /\ SetIndexed(place, r[1], r[2]) => SetOne(e, new, r[1], r[2], 2)
             /\ \A list \in EditLists : SetList(place, list) => SetAll(e, new, list)]_vars

\* entities of the classes and with the records for which countRecords() is
\* right (see the README for the others)
RECURSIVE Countable(_)
Countable(e) ==
  /\ e.kind \notin {"HATCH", "MTEXT", "SPLINE", "POLYLINE"}
  /\ ~e.deleted
  /\ e.marks \cap {"subclass", "paperspace", "reactors", "xdictionary"} = {}
  /\ Single(e, 5) /\ Single(e, 6)
  /\ e.kind = "INSERT" => e.parts["attributes"] = << >>
  /\ e.kind = "BLOCK" => \A m \in ToSet(e.parts["members"]) : Countable(m)

\* the ENDBLK of a block
RECURSIVE Unannounced(_)
Unannounced(e) ==
  IF e.kind # "BLOCK" THEN 0
  ELSE (IF e.seqend = << >> THEN 2 ELSE Len(Saved(e.seqend[1])))
         + FoldLeft(LAMBDA n, m : n + Unannounced(m), 0, e.parts["members"])

\* countRecords() of the section announces what write() writes, except the
\* ENDBLK of every block.
CountExact ==
  (\A k \in DOMAIN drawing : Countable(drawing[k]) /\ Writable(drawing[k])) /\ file # << >> =>
    CountSection(drawing) + FoldLeft(LAMBDA n, e : n + Unannounced(e), 0, drawing)
      = Len(Written(SectionName, drawing))

\* Between a file and the drawing nothing gets lost, either way.
RoundTrip == Reread /\ NothingLost
=============================================================================
