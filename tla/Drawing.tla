------------------------------ MODULE Drawing ------------------------------
(***************************************************************************)
(* The BLOCK / INSERT structure of a dimeModel: how reading a DXF file     *)
(* builds it, how forward references are resolved, and how a client edits  *)
(* it (src/src/Model.cpp, entities/Block.cpp, entities/Insert.cpp,         *)
(* sections/BlocksSection.cpp, sections/EntitiesSection.cpp).              *)
(*                                                                         *)
(* The file is whatever the environment supplies: sections in any order    *)
(* and number, blocks and inserts of any names, an error anywhere.  An     *)
(* object is named by its position in "obj"; 0 is the null pointer.        *)
(* Entities other than BLOCK and INSERT are PLAIN.  The attributes that    *)
(* may follow an INSERT hold no references and are left out; the deleted   *)
(* mark of an entity is in DrawingCopy, the module it matters to.          *)
(* A definition with an underscore in its name is not the code's: it is    *)
(* the fault a mutation run plants in the definition after it.             *)
(***************************************************************************)
EXTENDS Integers, Sequences, SequencesExt

CONSTANTS
  Names,        \* block names
  NoName,       \* the name of an object that has none
  MaxObjects,   \* bound on the objects ever created
  MaxSections   \* bound on the sections of a file

ASSUME DrawingAssumption ==
  /\ NoName \notin Names
  /\ MaxObjects \in Nat
  /\ MaxSections \in Nat

VARIABLES
  memHandler,  \* does this model allocate from a dimeMemHandler?
  obj,       \* every entity created: [kind, name, block, members]
  freed,     \* the objects whose memory has been given back
  refDict,   \* the reference dictionary: a block, NULL, or ABSENT
  sections,  \* the sections of the model: [kind, items]
  cur,       \* the section being read, with the block being read, if any
  phase      \* "reading", "ready" (read() returned true), "failed"

vars == <<memHandler, obj, freed, refDict, sections, cur, phase>>

NULL == 0
ABSENT == -1
Ids == 1 .. Len(obj)
NewId == Len(obj) + 1
SectionKinds == {"BLOCKS", "ENTITIES"}
NoSection == [kind |-> "none", items |-> << >>, block |-> NULL]

Object(kind, name, block) ==
  [kind |-> kind, name |-> name, block |-> block, members |-> << >>]

\* dimeModel::findReference / findBlock: NULL also for a name not entered
Find_Raw(dict, n) == dict[n]
Find(dict, n) == IF dict[n] = ABSENT THEN NULL ELSE dict[n]

\* the block an INSERT gets when it is read: the one bound to its name now;
\* an unknown name is entered with value NULL and left to fixReferences()
Resolve(dict, n) == Find(dict, n)
Referenced_Self(dict, n) == IF dict[n] = ABSENT THEN [dict EXCEPT ![n] = NewId]
                            ELSE dict
Referenced(dict, n) == IF dict[n] = ABSENT THEN [dict EXCEPT ![n] = NULL]
                       ELSE dict

\* dimeModel::findSection: the index of the first section of a kind, or 0
FindSection(secs, kind) ==
  LET first == {i \in DOMAIN secs :
                  /\ secs[i].kind = kind
                  /\ \A j \in 1 .. (i - 1) : secs[j].kind # kind}
  IN  IF first = {} THEN 0 ELSE CHOOSE i \in first : TRUE

ItemsOf(secs, kind) ==
  IF FindSection(secs, kind) = 0 THEN << >>
  ELSE secs[FindSection(secs, kind)].items

\* the entities a section's fixReferences() visits
Within(objects, ids) ==
  ids \cup UNION { Range(objects[b].members) : b \in ids }
Visited(objects, secs) ==
  Within(objects, Range(ItemsOf(secs, "BLOCKS"))
                    \cup Range(ItemsOf(secs, "ENTITIES")))

FixReferences_BlocksOnly(objects, secs, dict) ==
  [i \in DOMAIN objects |->
     IF /\ i \in Within(objects, Range(ItemsOf(secs, "BLOCKS")))
        /\ objects[i].kind = "INSERT" /\ objects[i].block = NULL
     THEN [objects[i] EXCEPT !.block = Find(dict, objects[i].name)]
     ELSE objects[i]]
FixReferences_Rebind(objects, secs, dict) ==
  [i \in DOMAIN objects |->
     IF i \in Visited(objects, secs) /\ objects[i].kind = "INSERT"
     THEN [objects[i] EXCEPT !.block = Find(dict, objects[i].name)]
     ELSE objects[i]]

\* dimeInsert::fixReferences on every entity visited
FixReferences(objects, secs, dict) ==
  [i \in DOMAIN objects |->
     IF /\ i \in Visited(objects, secs)
        /\ objects[i].kind = "INSERT" /\ objects[i].block = NULL
     THEN [objects[i] EXCEPT !.block = Find(dict, objects[i].name)]
     ELSE objects[i]]
-----------------------------------------------------------------------------
NoReferences == [n \in Names |-> ABSENT]

Init ==
  /\ memHandler \in BOOLEAN
  /\ obj = << >>
  /\ freed = {}
  /\ refDict = NoReferences
  /\ sections = << >>
  /\ cur = NoSection
  /\ phase = "reading"

Room == Len(obj) < MaxObjects

\* dimeModel::read meets SECTION and its name
BeginSection(kind) ==
  /\ phase = "reading" /\ cur.kind = "none" /\ Len(sections) < MaxSections
  /\ cur' = [kind |-> kind, items |-> << >>, block |-> NULL]
  /\ UNCHANGED <<memHandler, obj, freed, refDict, sections, phase>>

\* dimeBlock::read, its own records: the name is bound before its entities
\* are read, and a name already bound is bound anew
ReadBlock(n) ==
  /\ phase = "reading" /\ cur.kind = "BLOCKS" /\ cur.block = NULL /\ Room
  /\ obj' = Append(obj, Object("BLOCK", n, NULL))
  /\ refDict' = [refDict EXCEPT ![n] = NewId]
  /\ cur' = [cur EXCEPT !.block = NewId]
  /\ UNCHANGED <<memHandler, freed, sections, phase>>

\* readEntities (in a block) and dimeEntitiesSection::read append one entity
Attach(objects, id) ==
  IF cur.block = NULL
  THEN /\ obj' = objects
       /\ cur' = [cur EXCEPT !.items = Append(@, id)]
  ELSE /\ obj' = [objects EXCEPT ![cur.block].members = Append(@, id)]
       /\ UNCHANGED cur

CanReadEntity ==
  /\ phase = "reading" /\ Room
  /\ cur.kind = "ENTITIES" \/ cur.block # NULL

ReadPlain ==
  /\ CanReadEntity
  /\ Attach(Append(obj, Object("PLAIN", NoName, NULL)), NewId)
  /\ UNCHANGED <<memHandler, freed, refDict, sections, phase>>

\* dimeInsert::read
ReadInsert(n) ==
  /\ CanReadEntity
  /\ Attach(Append(obj, Object("INSERT", n, Resolve(refDict, n))), NewId)
  /\ refDict' = Referenced(refDict, n)
  /\ UNCHANGED <<memHandler, freed, sections, phase>>

\* ENDBLK: the block joins its section
EndBlock ==
  /\ phase = "reading" /\ cur.block # NULL
  /\ cur' = [cur EXCEPT !.items = Append(@, cur.block), !.block = NULL]
  /\ UNCHANGED <<memHandler, obj, freed, refDict, sections, phase>>

\* ENDSEC: the section joins the model
EndSection ==
  /\ phase = "reading" /\ cur.kind # "none" /\ cur.block = NULL
  /\ sections' = Append(sections, [kind |-> cur.kind, items |-> cur.items])
  /\ cur' = NoSection
  /\ UNCHANGED <<memHandler, obj, freed, refDict, phase>>

\* EOF: forward references of the first BLOCKS and the first ENTITIES
\* section are resolved, and read() returns true
EndOfFile ==
  /\ phase = "reading" /\ cur.kind = "none"
  /\ obj' = FixReferences(obj, sections, refDict)
  /\ phase' = "ready"
  /\ UNCHANGED <<memHandler, freed, refDict, sections, cur>>

\* an error anywhere: read() returns false, nothing is resolved, and the
\* section being read is dropped
ReadFails ==
  /\ phase = "reading"
  /\ phase' = "failed"
  /\ cur' = NoSection
  /\ UNCHANGED <<memHandler, obj, freed, refDict, sections>>

\* what delete gives back: nothing when a memory handler owns the memory
Delete(ids) == freed' = IF memHandler THEN freed ELSE freed \cup ids

ReadAgain_KeepsDict ==
  /\ phase \in {"ready", "failed"}
  /\ freed' = IF memHandler THEN freed \cup Ids ELSE freed
  /\ sections' = << >>
  /\ phase' = "reading"
  /\ UNCHANGED <<memHandler, obj, refDict, cur>>

\* dimeModel::init, as another read() begins: a memory handler takes all its
\* memory with it; without one the old sections are forgotten, not deleted
ReadAgain ==
  /\ phase \in {"ready", "failed"}
  /\ freed' = IF memHandler THEN freed \cup Ids ELSE freed
  /\ refDict' = NoReferences
  /\ sections' = << >>
  /\ phase' = "reading"
  /\ UNCHANGED <<memHandler, obj, cur>>
-----------------------------------------------------------------------------
(* What a client does with a model that has been read.                     *)

BlocksAt == FindSection(sections, "BLOCKS")
EntitiesAt == FindSection(sections, "ENTITIES")

\* the entities of the model, over all sections
Items == UNION { Range(sections[s].items) : s \in DOMAIN sections }
Entities == Within(obj, Items)

\* dimeModel::addBlock and dimeBlocksSection::insertBlock at the end
InsertBlock(n) ==
  /\ phase = "ready" /\ BlocksAt # 0 /\ Room
  /\ obj' = Append(obj, Object("BLOCK", n, NULL))
  /\ refDict' = [refDict EXCEPT ![n] = NewId]
  /\ sections' = [sections EXCEPT ![BlocksAt].items = Append(@, NewId)]
  /\ UNCHANGED <<memHandler, freed, cur, phase>>

InsertInsert_KeepsName(b) ==
  /\ phase = "ready" /\ EntitiesAt # 0 /\ Room
  /\ \E n \in Names : obj' = Append(obj, Object("INSERT", n, b))
  /\ sections' = [sections EXCEPT ![EntitiesAt].items = Append(@, NewId)]
  /\ UNCHANGED <<memHandler, freed, refDict, cur, phase>>

\* a new INSERT given its block by dimeInsert::setBlock, then
\* dimeModel::addEntity
InsertInsert(b) ==
  /\ phase = "ready" /\ EntitiesAt # 0 /\ Room
  /\ obj' = Append(obj, Object("INSERT", obj[b].name, b))
  /\ sections' = [sections EXCEPT ![EntitiesAt].items = Append(@, NewId)]
  /\ UNCHANGED <<memHandler, freed, refDict, cur, phase>>

\* dimeEntitiesSection::removeEntity
RemoveEntity(i) ==
  /\ phase = "ready"
  /\ Delete({sections[EntitiesAt].items[i]})
  /\ sections' = [sections EXCEPT ![EntitiesAt].items = RemoveAt(@, i)]
  /\ UNCHANGED <<memHandler, obj, refDict, cur, phase>>

\* dimeBlocksSection::removeBlock; the block's destructor deletes its
\* entities.  The client sees to it that no INSERT of another block or of a
\* section still shows the block
RemoveBlock(i) ==
  LET b == sections[BlocksAt].items[i]
      gone == {b} \cup Range(obj[b].members)
  IN  /\ phase = "ready"
      /\ \A e \in Entities \ gone : obj[e].block # b
      /\ Delete(gone)
      /\ sections' = [sections EXCEPT ![BlocksAt].items = RemoveAt(@, i)]
      /\ UNCHANGED <<memHandler, obj, refDict, cur, phase>>

Read ==
  \/ \E kind \in SectionKinds : BeginSection(kind)
  \/ \E n \in Names : ReadBlock(n) \/ ReadInsert(n)
  \/ ReadPlain
  \/ EndBlock
  \/ EndSection
  \/ EndOfFile
  \/ ReadFails
  \/ ReadAgain

Edit ==
  \/ \E n \in Names : InsertBlock(n)
  \/ \E b \in Range(ItemsOf(sections, "BLOCKS")) : InsertInsert(b)
  \/ \E i \in DOMAIN ItemsOf(sections, "ENTITIES") : RemoveEntity(i)
  \/ \E i \in DOMAIN ItemsOf(sections, "BLOCKS") : RemoveBlock(i)

Next == Read \/ Edit

Spec == Init /\ [][Next]_vars
-----------------------------------------------------------------------------
ObjectType ==
  [kind : {"BLOCK", "INSERT", "PLAIN"}, name : Names \cup {NoName},
   block : Nat, members : Seq(Nat)]

SectionType == [kind : SectionKinds, items : Seq(Nat)]

\* Types of the model's parts.
TypeOK ==
  /\ memHandler \in BOOLEAN
  /\ obj \in Seq(ObjectType)
  /\ freed \subseteq Nat
  /\ refDict \in [Names -> Nat \cup {ABSENT}]
  /\ sections \in Seq(SectionType)
  /\ cur \in [kind : SectionKinds \cup {"none"}, items : Seq(Nat), block : Nat]
  /\ phase \in {"reading", "ready", "failed"}

\* The dictionary binds a name only to a BLOCK of that name, even after the
\* name has been defined again or first met in a forward reference.
DictSound ==
  \A n \in Names :
    refDict[n] > 0 => /\ refDict[n] \in Ids
                      /\ obj[refDict[n]].kind = "BLOCK"
                      /\ obj[refDict[n]].name = n

\* An INSERT that shows a block shows a BLOCK of its own blockName, whether
\* it was bound while reading, by fixReferences() or by setBlock().
BindingsSound ==
  \A i \in Ids :
    (obj[i].kind = "INSERT" /\ obj[i].block # NULL)
      => /\ obj[i].block \in Ids
         /\ obj[obj[i].block].kind = "BLOCK"
         /\ obj[obj[i].block].name = obj[i].name

\* read() leaves no forward reference behind: once the file has been read, an
\* INSERT of the first BLOCKS and the first ENTITIES section is unbound only
\* when this file has no block of that name.
ForwardRefsResolved ==
  [][ (phase = "reading" /\ phase' = "ready") =>
        \A i \in Visited(obj', sections') :
          (obj'[i].kind = "INSERT" /\ obj'[i].block = NULL)
            => \A b \in Items :
                 obj[b].kind = "BLOCK" => obj[b].name # obj'[i].name ]_vars

\* fixReferences() and everything after it keep a binding: an INSERT bound to
\* one block never silently moves to another.
BindingsStable ==
  [][ \A i \in Ids : obj[i].block # NULL => obj'[i].block = obj[i].block ]_vars

\* No entity of the model has been given back, and no INSERT shows a block
\* that has: neither a block removed by the client (who takes its INSERTs away
\* first) nor one of a drawing read before into the same dimeModel.
NoDanglingInsert ==
  \A e \in Entities :
    /\ e \notin freed
    /\ obj[e].block # NULL => obj[e].block \notin freed

\* dimeModel::findBlock: "Returns a pointer to the block with name blockname,
\* or NULL if no block with that name exists" (src/src/Model.cpp:441).
FindBlockIsLive ==
  \A n \in Names : Find(refDict, n) # NULL => Find(refDict, n) \notin freed
=============================================================================
