----------------------------- MODULE DrawingCopy -----------------------------
(***************************************************************************)
(* A drawing that has been read and edited (Drawing) is marked and copied: *)
(* dimeEntity::setDeleted(), the rows and columns of an INSERT, and        *)
(* dimeModel::copy(), which changes nothing in the drawing, so that it is  *)
(* an operator on its state.                                               *)
(*                                                                         *)
(* Bounds: marks commute with every other step, so they are made last; one *)
(* drawing is read, as a copy looks at one only.                           *)
(***************************************************************************)
EXTENDS Drawing, FiniteSets

CONSTANT MaxMarks   \* bound on the marks made

ASSUME MarksAssumption == MaxMarks \in Nat

VARIABLES
  deleted,  \* the entities marked as deleted
  grid,     \* rowCount * columnCount of the INSERTs where it is not 1
  built     \* the blocks a client made: they have no ENDBLK

markVars == <<deleted, grid, built>>
copyVars == <<vars, markVars>>

Marks == Cardinality(deleted) + Cardinality(DOMAIN grid)
IsInsert(e) == obj[e].kind = "INSERT"
-----------------------------------------------------------------------------
(* dimeModel::copy: sections in their order, entities in theirs.  "to" is  *)
(* the new model: its objects, the original of each, its dictionary and    *)
(* its sections.                                                           *)

EmptyCopy == [obj |-> << >>, of |-> << >>, dict |-> NoReferences, sections |-> << >>]

New(to, e, object) ==
  [to EXCEPT !.obj = Append(@, object), !.of = Append(@, e)]

\* dimeInsert::copy: the new model's block of that name, if it is there by
\* now; otherwise the name is entered with NULL, for fixReferences()
CopyInsert(to, e) ==
  LET n == obj[e].name
  IN  [New(to, e, Object("INSERT", n, Find(to.dict, n)))
         EXCEPT !.dict = Referenced(@, n)]

CopyEntity(to, e) ==
  IF IsInsert(e) THEN CopyInsert(to, e)
  ELSE New(to, e, Object("PLAIN", NoName, NULL))

CopyEntityArray_All(to, ids) ==
  LET after[k \in 0 .. Len(ids)] ==
        IF k = 0 THEN to ELSE CopyEntity(after[k - 1], ids[k])
  IN  after[Len(ids)]

\* dimeEntity::copyEntityArray: deleted entities are left behind
CopyEntityArray(to, ids) ==
  LET after[k \in 0 .. Len(ids)] ==
        IF k = 0 THEN to
        ELSE IF ids[k] \in deleted THEN after[k - 1] ELSE CopyEntity(after[k - 1], ids[k])
  IN  after[Len(ids)]

\* what has been added since "before", in order
Added(before, after) ==
  [i \in 1 .. Len(after.obj) - Len(before.obj) |-> Len(before.obj) + i]

CopyBlock_NameUnbound(to, b) ==
  LET in == CopyEntityArray(to, obj[b].members)
  IN  New(in, b, [Object("BLOCK", obj[b].name, NULL)
                    EXCEPT !.members = Added(to, in)])

\* dimeBlock::copy: first the entities, then the name, which reading does in
\* the opposite order; a block is copied although it is marked
CopyBlock(to, b) ==
  LET in == CopyEntityArray(to, obj[b].members)
      new == [Object("BLOCK", obj[b].name, NULL)
                EXCEPT !.members = Added(to, in)]
  IN  [New(in, b, new) EXCEPT !.dict[obj[b].name] = Len(in.obj) + 1]

\* the new model after each of the blocks
CopyBlocks(to, blocks) ==
  LET after[k \in 0 .. Len(blocks)] ==
        IF k = 0 THEN to ELSE CopyBlock(after[k - 1], blocks[k])
  IN  after

\* copy() of a section: the new one holds what was made of its items
CopySection(to, sec) ==
  LET blocks == CopyBlocks(to, sec.items)
      entities == CopyEntityArray(to, sec.items)
      Appended(after, items) ==
        [after EXCEPT !.sections = Append(@, [kind |-> sec.kind, items |-> items])]
  IN  IF sec.kind = "BLOCKS"
      THEN Appended(blocks[Len(sec.items)],
                    [k \in 1 .. Len(sec.items) |-> Len(blocks[k].obj)])
      ELSE Appended(entities, Added(to, entities))

CopySections ==
  LET after[s \in 0 .. Len(sections)] ==
        IF s = 0 THEN EmptyCopy ELSE CopySection(after[s - 1], sections[s])
  IN  after[Len(sections)]

CopyModel ==
  [CopySections EXCEPT !.obj = FixReferences(@, CopySections.sections, CopySections.dict)]
-----------------------------------------------------------------------------
CopyInit == Init /\ deleted = {} /\ grid = << >> /\ built = {}

\* any step of the drawing; a block the client inserts has no ENDBLK
DrawingStep ==
  /\ Marks = 0 /\ phase # "failed"
  /\ Next /\ (phase = "ready" => phase' = "ready")
  /\ built' = built \cup {b \in {NewId} \cap DOMAIN obj' :
                              phase = "ready" /\ obj'[b].kind = "BLOCK"}
  /\ UNCHANGED <<deleted, grid>>

CanMark == phase = "ready" /\ Marks < MaxMarks

\* dimeEntity::setDeleted
SetDeleted(e) ==
  /\ CanMark /\ e \notin deleted
  /\ deleted' = deleted \cup {e}
  /\ UNCHANGED <<vars, grid, built>>

\* setRecord() of 70 or 71 on an INSERT: no rows at all, or two
SetGrid(e, k) ==
  /\ CanMark /\ IsInsert(e) /\ e \notin DOMAIN grid
  /\ grid' = [i \in DOMAIN grid \cup {e} |-> IF i = e THEN k ELSE grid[i]]
  /\ UNCHANGED <<vars, deleted, built>>

CopyNext ==
  \/ DrawingStep
  \/ \E e \in Entities : SetDeleted(e) \/ \E k \in {0, 2} : SetGrid(e, k)

CopySpec == CopyInit /\ [][CopyNext]_copyVars
-----------------------------------------------------------------------------
\* those of a list that are not deleted
Live(ids) ==
  LET live[k \in 0 .. Len(ids)] ==
        IF k = 0 THEN << >>
        ELSE IF ids[k] \in deleted THEN live[k - 1] ELSE Append(live[k - 1], ids[k])
  IN  live[Len(ids)]

BlockItems == UNION {Range(sections[s].items) : s \in
                      {t \in DOMAIN sections : sections[t].kind = "BLOCKS"}}

\* copy() leaves out the deleted entities and nothing else: section by section
\* and block by block, the copies stand for the live originals, in their order,
\* each with the kind and the name of its original and in one place only.
CopyFaithful ==
  phase = "ready" =>
    \A c \in {CopyModel} :
      LET Of(ids) == [i \in DOMAIN ids |-> c.of[ids[i]]]
      IN
        /\ \A s \in DOMAIN sections :
             /\ c.sections[s].kind = sections[s].kind
             /\ Of(c.sections[s].items) = IF sections[s].kind = "BLOCKS"
                                          THEN sections[s].items
                                          ELSE Live(sections[s].items)
        /\ \A x \in DOMAIN c.obj :
             /\ c.obj[x].kind = obj[c.of[x]].kind
             /\ c.obj[x].name = obj[c.of[x]].name
             /\ Of(c.obj[x].members) = Live(obj[c.of[x]].members)
        /\ \A x, y \in DOMAIN c.obj : c.of[x] = c.of[y] => x = y

\* An INSERT of the copy shows a block of the copy, of its own name.  Where no
\* two blocks of the model have one name, it shows the copy of the block its
\* original shows, although members are copied before their block has its name
\* and sections in any order; one whose original shows none gets a block only
\* if there is one by now.
CopyBindsAlike ==
  phase = "ready" =>
    \A c \in {CopyModel} :
    LET Once == \A a, b \in BlockItems : obj[a].name = obj[b].name => a = b
        Bound(x) == c.obj[x].block
    IN  \A x \in Visited(c.obj, c.sections) :
          c.obj[x].kind = "INSERT" =>
            /\ Bound(x) # NULL => /\ c.obj[Bound(x)].kind = "BLOCK"
                                  /\ c.obj[Bound(x)].name = c.obj[x].name
            /\ Bound(x) = NULL => \A b \in BlockItems : obj[b].name # c.obj[x].name
            /\ (Once /\ obj[c.of[x]].block \in BlockItems)
                 => c.of[Bound(x)] = obj[c.of[x]].block
=============================================================================
