--------------------------- MODULE DrawingProofs ---------------------------
(* Proofs about Drawing and DrawingCopy, for every set of names and every  *)
(* bound: types; the reference dictionary and the INSERTs only ever show a *)
(* BLOCK of the right name; nothing of a model, and no block one of its    *)
(* INSERTs shows, has been given back; read() leaves no forward reference  *)
(* behind; dimeModel::copy() copies every live entity once, in its place,  *)
(* with INSERTs that show the copies of what the originals show; and       *)
(* dimeModel::traverseEntities() ends, shows and stops as it should.       *)
EXTENDS DrawingTraversal, SequenceTheorems, Induction

-----------------------------------------------------------------------------
(* The inductive invariant.                                                *)

\* Everything a section holds exists, and a BLOCKS section holds blocks.
HoldsObjects(kind, items) ==
  \A j \in DOMAIN items :
    /\ items[j] \in Ids
    /\ kind = "BLOCKS" => obj[items[j]].kind = "BLOCK"

SectionsSound ==
  \A s \in DOMAIN sections : HoldsObjects(sections[s].kind, sections[s].items)

\* The same of the section being read, and the block being read is a block.
CurSound ==
  /\ HoldsObjects(cur.kind, cur.items)
  /\ cur.block # NULL => cur.block \in Ids /\ obj[cur.block].kind = "BLOCK"

\* BLOCKs and INSERTs have a name.
Named == \A i \in Ids : obj[i].kind # "PLAIN" => obj[i].name \in Names

IInv ==
  TypeOK /\ DictSound /\ BindingsSound /\ SectionsSound /\ CurSound /\ Named
-----------------------------------------------------------------------------
(* What the operators return.                                              *)

Same(x, y) == x.kind = y.kind /\ x.name = y.name /\ x.block = y.block

\* One object o is created; the others keep kind, name and block.
Created(o) ==
  /\ obj' \in Seq(ObjectType)
  /\ Len(obj') = NewId
  /\ \A i \in Ids : Same(obj'[i], obj[i])
  /\ Same(obj'[NewId], o)

LEMMA ObjectTyped ==
  ASSUME NEW kind \in {"BLOCK", "INSERT", "PLAIN"},
         NEW name \in Names \cup {NoName}, NEW block \in Nat
  PROVE  /\ Object(kind, name, block) \in ObjectType
         /\ Object(kind, name, block).kind = kind
         /\ Object(kind, name, block).name = name
         /\ Object(kind, name, block).block = block
  BY DEF Object, ObjectType

LEMMA AppendCreates ==
  ASSUME TypeOK, NEW o \in ObjectType, obj' = Append(obj, o)
  PROVE  Created(o)
  BY DEF TypeOK, Created, Same, Ids, NewId

LEMMA NewMember ==
  ASSUME NEW b \in ObjectType, NEW m \in Seq(Nat)
  PROVE  [b EXCEPT !.members = m] \in ObjectType
         /\ Same([b EXCEPT !.members = m], b)
  BY DEF ObjectType, Same

\* Attach puts the new object into the block being read, or the section.
LEMMA AttachCreates ==
  ASSUME IInv, NEW o \in ObjectType, Attach(Append(obj, o), NewId)
  PROVE  Created(o)
  <1> DEFINE grown == Append(obj, o)
  <1>1. grown \in Seq(ObjectType) /\ Len(grown) = NewId
    BY DEF IInv, TypeOK, NewId
  <1>2. (\A i \in Ids : grown[i] = obj[i]) /\ grown[NewId] = o
    BY DEF IInv, TypeOK, Ids, NewId
  <1>3. CASE cur.block = NULL
    BY <1>1, <1>2, <1>3 DEF Attach, Created, Same
  <1>4. CASE cur.block # NULL
    <2>1. cur.block \in 1 .. Len(grown)
      BY <1>1, <1>4 DEF IInv, TypeOK, CurSound, Ids, NewId
    <2> DEFINE host == [grown[cur.block] EXCEPT
                          !.members = Append(@, NewId)]
    <2>2. obj' = [grown EXCEPT ![cur.block] = host]
      BY <1>4 DEF Attach
    <2>3. grown[cur.block] \in ObjectType
      BY <1>1, <2>1
    <2> DEFINE m == Append(grown[cur.block].members, NewId)
    <2>a. m \in Seq(Nat)
      <3>1. grown[cur.block].members \in Seq(Nat) BY <2>3 DEF ObjectType
      <3> HIDE DEF grown
      <3> QED BY <3>1 DEF NewId, IInv, TypeOK
    <2> HIDE DEF grown, m
    <2>4. host \in ObjectType /\ Same(host, grown[cur.block])
      <3>1. host = [grown[cur.block] EXCEPT !.members = m] BY DEF m
      <3> HIDE DEF host
      <3> QED BY <2>3, <2>a, <3>1, NewMember
    <2> HIDE DEF host
    <2>5. obj' \in Seq(ObjectType) /\ Len(obj') = NewId
      BY <1>1, <2>1, <2>2, <2>4
    <2>6. \A i \in 1 .. Len(grown) : Same(obj'[i], grown[i])
      BY <1>1, <2>1, <2>2, <2>4 DEF Same
    <2> QED BY <1>1, <1>2, <2>5, <2>6 DEF Created, Ids, NewId, IInv, TypeOK
  <1> QED BY <1>3, <1>4

LEMMA FindSectionIndex ==
  ASSUME NEW kind, FindSection(sections, kind) # 0
  PROVE  /\ FindSection(sections, kind) \in DOMAIN sections
         /\ sections[FindSection(sections, kind)].kind = kind
  BY DEF FindSection

LEMMA FindTyped ==
  ASSUME TypeOK, NEW n \in Names
  PROVE  /\ Find(refDict, n) \in Nat
         /\ Find(refDict, n) # NULL => Find(refDict, n) = refDict[n]
                                       /\ refDict[n] > 0
  BY DEF TypeOK, Find, ABSENT, NULL

LEMMA RemoveAtTyped ==
  ASSUME NEW s \in Seq(Nat), NEW i \in 1 .. Len(s)
  PROVE  /\ RemoveAt(s, i) \in Seq(Nat)
         /\ \A j \in DOMAIN RemoveAt(s, i) :
              \E k \in DOMAIN s : RemoveAt(s, i)[j] = s[k]
  <1> DEFINE left == SubSeq(s, 1, i - 1)
             right == SubSeq(s, i + 1, Len(s))
  <1>1. /\ left \in Seq(Nat) /\ Len(left) = i - 1
        /\ \A j \in 1 .. i - 1 : left[j] = s[j]
    BY SubSeqProperties
  <1>2. /\ right \in Seq(Nat) /\ Len(right) = Len(s) - i
        /\ \A j \in 1 .. Len(s) - i : right[j] = s[i + j]
    BY SubSeqProperties
  <1>3. RemoveAt(s, i) = left \o right
    BY DEF RemoveAt
  <1> HIDE DEF left, right
  <1>4. Len(s) \in Nat /\ i \in Nat /\ i >= 1 /\ i <= Len(s)
        /\ DOMAIN s = 1 .. Len(s)
    OBVIOUS
  <1>5. /\ left \o right \in Seq(Nat)
        /\ Len(left \o right) = Len(left) + Len(right)
        /\ \A j \in 1 .. Len(left) + Len(right) :
             (left \o right)[j]
               = IF j <= Len(left) THEN left[j] ELSE right[j - Len(left)]
    BY <1>1, <1>2, ConcatProperties
  <1>6. Len(left) + Len(right) = Len(s) - 1
    BY <1>1, <1>2, <1>4
  <1>7. ASSUME NEW j \in 1 .. Len(s) - 1
        PROVE  \E k \in DOMAIN s : (left \o right)[j] = s[k]
    <2>0. j \in Int /\ 1 <= j /\ j <= Len(s) - 1
      BY <1>4
    <2>1. CASE j < i
      <3>1. (left \o right)[j] = left[j]
        BY <1>1, <1>4, <1>5, <1>6, <2>1
      <3>2. left[j] = s[j] /\ j \in DOMAIN s
        BY <1>1, <1>4, <2>0, <2>1
      <3> QED BY <3>1, <3>2
    <2>2. CASE ~(j < i)
      <3>a. j \in 1 .. Len(left) + Len(right)
        BY <1>6
      <3>b. (left \o right)[j] = right[j - Len(left)]
        <4>1. ~(j <= Len(left))
          BY <1>1, <1>4, <2>0, <2>2
        <4> QED BY <1>5, <3>a, <4>1
      <3>1. (left \o right)[j] = right[j - (i - 1)]
        BY <1>1, <3>b
      <3>2. right[j - (i - 1)] = s[i + (j - (i - 1))]
        BY <1>2, <1>4, <2>0, <2>2
      <3>3. i + (j - (i - 1)) \in DOMAIN s
        BY <1>4, <2>0, <2>2
      <3> QED BY <3>1, <3>2, <3>3
    <2> QED BY <1>4, <2>0, <2>1, <2>2
  <1>8. DOMAIN (left \o right) = 1 .. Len(s) - 1
    BY <1>5, <1>6
  <1> QED BY <1>3, <1>5, <1>7, <1>8

\* What holds of a list of objects holds of it when another is created.
LEMMA HoldsStill ==
  ASSUME IInv, NEW o, Created(o), NEW kind, NEW items, HoldsObjects(kind, items)
  PROVE  \A j \in DOMAIN items :
            /\ items[j] \in 1 .. Len(obj')
            /\ kind = "BLOCKS" => obj'[items[j]].kind = "BLOCK"
  BY DEF IInv, TypeOK, HoldsObjects, Created, Same, Ids, NewId

LEMMA SectionsStill ==
  ASSUME IInv, NEW o, Created(o), sections' = sections
  PROVE  SectionsSound'
  <1>1. ASSUME NEW s \in DOMAIN sections,
               NEW j \in DOMAIN sections[s].items
        PROVE  /\ sections[s].items[j] \in 1 .. Len(obj')
               /\ sections[s].kind = "BLOCKS"
                    => obj'[sections[s].items[j]].kind = "BLOCK"
    <2>1. HoldsObjects(sections[s].kind, sections[s].items)
      BY DEF IInv, SectionsSound
    <2> QED BY <2>1, HoldsStill
  <1> QED BY <1>1 DEF SectionsSound, HoldsObjects, Ids

\* A new object leaves the dictionary and the bindings sound when a bound
\* INSERT shows a block of its name, and a name is bound anew to a block only.
LEMMA CreationSound ==
  ASSUME IInv, NEW o \in ObjectType, Created(o),
         (o.kind = "INSERT" /\ o.block # NULL)
           => /\ o.block \in Ids /\ obj[o.block].kind = "BLOCK"
              /\ obj[o.block].name = o.name,
         \A n \in Names :
           refDict'[n] > 0
             => \/ refDict[n] > 0 /\ refDict'[n] = refDict[n]
                \/ refDict'[n] = NewId /\ o.kind = "BLOCK" /\ o.name = n,
         o.kind # "PLAIN" => o.name \in Names
  PROVE  DictSound' /\ BindingsSound' /\ Named'
  <1>1. Len(obj) \in Nat /\ Ids \subseteq 1 .. Len(obj')
        /\ 1 .. Len(obj') = Ids \cup {NewId}
    BY DEF IInv, TypeOK, Created, Ids, NewId
  <1>2. DictSound'
    BY <1>1 DEF IInv, DictSound, Created, Same, Ids, NewId
  <1>3. ASSUME NEW i \in 1 .. Len(obj'),
               obj'[i].kind = "INSERT", obj'[i].block # NULL
        PROVE  /\ obj'[i].block \in 1 .. Len(obj')
               /\ obj'[obj'[i].block].kind = "BLOCK"
               /\ obj'[obj'[i].block].name = obj'[i].name
    <2>1. CASE i \in Ids
      BY <1>1, <1>3, <2>1 DEF IInv, BindingsSound, Created, Same
    <2>2. CASE i = NewId
      BY <1>1, <1>3, <2>2 DEF Created, Same
    <2> QED BY <1>1, <2>1, <2>2
  <1>4. BindingsSound'
    BY <1>3 DEF BindingsSound, Ids
  <1>5. Named'
    BY <1>1 DEF IInv, Named, Created, Same, Ids
  <1> QED BY <1>2, <1>4, <1>5

LEMMA InsertTyped ==
  ASSUME IInv, NEW n \in Names
  PROVE  LET o == Object("INSERT", n, Resolve(refDict, n))
         IN  /\ o \in ObjectType /\ o.kind = "INSERT" /\ o.name = n
             /\ o.block # NULL
                  => /\ o.block \in Ids /\ obj[o.block].kind = "BLOCK"
                     /\ obj[o.block].name = o.name
  <1>1. /\ Resolve(refDict, n) \in Nat
        /\ Resolve(refDict, n) # NULL
              => Resolve(refDict, n) = refDict[n] /\ refDict[n] > 0
    BY FindTyped DEF IInv, Resolve
  <1> DEFINE o == Object("INSERT", n, Resolve(refDict, n))
  <1>2. /\ o \in ObjectType /\ o.kind = "INSERT" /\ o.name = n
        /\ o.block = Resolve(refDict, n)
    BY <1>1, ObjectTyped
  <1> HIDE DEF o
  <1>3. o.block # NULL
          => /\ o.block \in Ids /\ obj[o.block].kind = "BLOCK"
             /\ obj[o.block].name = o.name
    BY <1>1, <1>2 DEF IInv, DictSound
  <1> QED BY <1>2, <1>3 DEF o
-----------------------------------------------------------------------------
(* Every action keeps the invariant.                                       *)

THEOREM InitSound == Init => IInv
  <1> SUFFICES ASSUME Init PROVE IInv
    OBVIOUS
  <1>1. obj = << >> /\ sections = << >> /\ cur = NoSection /\ freed = {}
        /\ refDict = [n \in Names |-> ABSENT] /\ memHandler \in BOOLEAN
        /\ phase = "reading"
    BY DEF Init, NoReferences
  <1>2. TypeOK
    BY <1>1 DEF TypeOK, NoSection, ABSENT, NULL
  <1>3. DictSound /\ BindingsSound /\ SectionsSound /\ Named
    BY <1>1 DEF DictSound, BindingsSound, SectionsSound, Named, Ids, ABSENT
  <1>4. CurSound
    BY <1>1 DEF CurSound, NoSection, HoldsObjects
  <1> QED BY <1>2, <1>3, <1>4 DEF IInv

\* Actions that create no object and leave the objects as they are.
LEMMA BeginSectionStep ==
  ASSUME IInv, NEW kind \in SectionKinds, BeginSection(kind) PROVE IInv'
  <1>1. cur' = [kind |-> kind, items |-> << >>, block |-> NULL]
        /\ obj' = obj /\ freed' = freed /\ refDict' = refDict
        /\ sections' = sections /\ phase' = phase /\ memHandler' = memHandler
    BY DEF BeginSection
  <1>2. TypeOK'
    BY <1>1 DEF IInv, TypeOK, NULL
  <1>3. DictSound' /\ BindingsSound' /\ SectionsSound' /\ Named'
    BY <1>1 DEF IInv, DictSound, BindingsSound, SectionsSound, Named,
                HoldsObjects, Ids
  <1>4. CurSound'
    BY <1>1 DEF CurSound, HoldsObjects
  <1> QED BY <1>2, <1>3, <1>4 DEF IInv

LEMMA EndBlockStep ==
  ASSUME IInv, EndBlock PROVE IInv'
  <1>1. /\ obj' = obj /\ freed' = freed /\ refDict' = refDict
        /\ sections' = sections /\ phase' = phase /\ memHandler' = memHandler
        /\ cur.block # NULL
        /\ cur' = [cur EXCEPT !.items = Append(@, cur.block), !.block = NULL]
    BY DEF EndBlock
  <1>2. cur.items \in Seq(Nat) /\ cur.block \in Nat
        /\ cur.kind \in SectionKinds \cup {"none"}
    BY DEF IInv, TypeOK
  <1> DEFINE items == Append(cur.items, cur.block)
  <1>3. items \in Seq(Nat)
        /\ DOMAIN items = DOMAIN cur.items \cup {Len(cur.items) + 1}
        /\ (\A j \in DOMAIN cur.items : items[j] = cur.items[j])
        /\ items[Len(cur.items) + 1] = cur.block
    BY <1>2
  <1>4. cur' = [cur EXCEPT !.items = items, !.block = NULL]
    BY <1>1
  <1> HIDE DEF items
  <1>5. /\ cur' \in [kind : SectionKinds \cup {"none"}, items : Seq(Nat),
                     block : Nat]
        /\ cur'.kind = cur.kind /\ cur'.items = items /\ cur'.block = NULL
    BY <1>3, <1>4 DEF IInv, TypeOK, NULL
  <1>6. TypeOK'
    BY <1>1, <1>5 DEF IInv, TypeOK
  <1>7. DictSound' /\ BindingsSound' /\ SectionsSound' /\ Named'
    BY <1>1 DEF IInv, DictSound, BindingsSound, SectionsSound, Named,
                HoldsObjects, Ids
  <1>8. CurSound'
    BY <1>1, <1>3, <1>5 DEF IInv, CurSound, HoldsObjects, Ids
  <1> QED BY <1>6, <1>7, <1>8 DEF IInv

LEMMA EndSectionStep ==
  ASSUME IInv, EndSection PROVE IInv'
  <1>1. /\ obj' = obj /\ freed' = freed /\ refDict' = refDict
        /\ cur' = NoSection /\ phase' = phase /\ memHandler' = memHandler
        /\ cur.kind # "none"
        /\ sections' = Append(sections,
                              [kind |-> cur.kind, items |-> cur.items])
    BY DEF EndSection
  <1> DEFINE done == [kind |-> cur.kind, items |-> cur.items]
  <1>2. /\ done \in SectionType
        /\ done.kind = cur.kind /\ done.items = cur.items
    BY <1>1 DEF IInv, TypeOK, SectionType
  <1>3. sections' = Append(sections, done)
    BY <1>1
  <1> HIDE DEF done
  <1>4. TypeOK'
    BY <1>1, <1>2, <1>3 DEF IInv, TypeOK, NoSection, NULL
  <1>5. DictSound' /\ BindingsSound' /\ Named'
    BY <1>1 DEF IInv, DictSound, BindingsSound, Named, Ids
  <1>6. /\ sections \in Seq(SectionType)
        /\ Len(sections) \in Nat
    BY DEF IInv, TypeOK
  <1>7. ASSUME NEW s \in DOMAIN sections'
        PROVE  HoldsObjects(sections'[s].kind, sections'[s].items)
    <2>1. CASE s \in DOMAIN sections
      BY <1>3, <1>6, <2>1 DEF IInv, SectionsSound
    <2>2. CASE s = Len(sections) + 1
      BY <1>2, <1>3, <1>6, <2>2 DEF IInv, CurSound
    <2> QED BY <1>2, <1>3, <1>6, <2>1, <2>2
  <1>8. SectionsSound'
    BY <1>1, <1>7 DEF SectionsSound, HoldsObjects, Ids
  <1>9. CurSound'
    BY <1>1 DEF CurSound, NoSection, HoldsObjects
  <1> QED BY <1>4, <1>5, <1>8, <1>9 DEF IInv

LEMMA ReadFailsStep ==
  ASSUME IInv, ReadFails PROVE IInv'
  <1>1. /\ obj' = obj /\ freed' = freed /\ refDict' = refDict
        /\ sections' = sections /\ memHandler' = memHandler
        /\ cur' = NoSection /\ phase' = "failed"
    BY DEF ReadFails
  <1>2. TypeOK'
    BY <1>1 DEF IInv, TypeOK, NoSection, NULL
  <1>3. DictSound' /\ BindingsSound' /\ SectionsSound' /\ Named'
    BY <1>1 DEF IInv, DictSound, BindingsSound, SectionsSound, Named,
                HoldsObjects, Ids
  <1>4. CurSound'
    BY <1>1 DEF CurSound, NoSection, HoldsObjects
  <1> QED BY <1>2, <1>3, <1>4 DEF IInv

LEMMA ReadAgainStep ==
  ASSUME IInv, ReadAgain PROVE IInv'
  <1>1. /\ obj' = obj /\ cur' = cur /\ memHandler' = memHandler
        /\ freed' \subseteq freed \cup Ids /\ phase' = "reading"
        /\ refDict' = [n \in Names |-> ABSENT] /\ sections' = << >>
    BY DEF ReadAgain, NoReferences
  <1>2. TypeOK'
    BY <1>1 DEF IInv, TypeOK, ABSENT, Ids
  <1>3. DictSound' /\ BindingsSound' /\ SectionsSound' /\ CurSound' /\ Named'
    BY <1>1 DEF IInv, DictSound, BindingsSound, SectionsSound, CurSound,
                Named,                HoldsObjects, Ids, ABSENT
  <1> QED BY <1>2, <1>3 DEF IInv

\* Actions that create one object.
LEMMA ReadBlockStep ==
  ASSUME IInv, NEW n \in Names, ReadBlock(n) PROVE IInv'
  <1> DEFINE o == Object("BLOCK", n, NULL)
  <1>1. o \in ObjectType /\ o.kind = "BLOCK" /\ o.name = n /\ o.block = NULL
    BY ObjectTyped DEF NULL
  <1>2. /\ obj' = Append(obj, o)
        /\ refDict' = [refDict EXCEPT ![n] = NewId]
        /\ cur' = [cur EXCEPT !.block = NewId]
        /\ freed' = freed /\ sections' = sections /\ phase' = phase
        /\ memHandler' = memHandler /\ cur.kind = "BLOCKS"
    BY DEF ReadBlock
  <1> HIDE DEF o
  <1>3. Created(o)
    BY <1>1, <1>2, AppendCreates DEF IInv
  <1>4. NewId \in Nat /\ refDict \in [Names -> Nat \cup {ABSENT}]
    BY DEF IInv, TypeOK, NewId
  <1>5. DictSound' /\ BindingsSound' /\ Named'
    BY <1>1, <1>2, <1>3, <1>4, CreationSound
  <1>6. /\ cur' \in [kind : SectionKinds \cup {"none"}, items : Seq(Nat),
                     block : Nat]
        /\ cur'.kind = cur.kind /\ cur'.items = cur.items
        /\ cur'.block = NewId
    <2>1. cur \in [kind : SectionKinds \cup {"none"}, items : Seq(Nat),
                   block : Nat]
      BY DEF IInv, TypeOK
    <2> QED BY <1>2, <1>4, <2>1
  <1>7. TypeOK'
    BY <1>2, <1>3, <1>4, <1>6 DEF IInv, TypeOK, Created
  <1>8. SectionsSound'
    BY <1>2, <1>3, SectionsStill
  <1>9. CurSound'
    <2>1. HoldsObjects(cur.kind, cur.items)
      BY DEF IInv, CurSound
    <2>2. NewId \in 1 .. Len(obj') /\ obj'[NewId].kind = "BLOCK"
      BY <1>1, <1>3, <1>4 DEF Created, Same, NewId, IInv, TypeOK
    <2>3. \A j \in DOMAIN cur.items :
            /\ cur.items[j] \in 1 .. Len(obj')
            /\ cur.kind = "BLOCKS" => obj'[cur.items[j]].kind = "BLOCK"
      BY <1>3, <2>1, HoldsStill
    <2> QED BY <1>6, <2>2, <2>3 DEF CurSound, HoldsObjects, Ids
  <1> QED BY <1>5, <1>7, <1>8, <1>9 DEF IInv

\* Attach leaves the section being read sound.
LEMMA AttachKeepsCur ==
  ASSUME IInv, CanReadEntity, NEW o \in ObjectType,
         Attach(Append(obj, o), NewId)
  PROVE  /\ cur' \in [kind : SectionKinds \cup {"none"}, items : Seq(Nat),
                      block : Nat]
         /\ CurSound'
  <1>1. Created(o)
    BY AttachCreates
  <1>2. HoldsObjects(cur.kind, cur.items)
        /\ cur \in [kind : SectionKinds \cup {"none"}, items : Seq(Nat),
                    block : Nat]
    BY DEF IInv, TypeOK, CurSound
  <1>3. NewId \in Nat /\ NewId \in 1 .. Len(obj')
    BY <1>1 DEF IInv, TypeOK, NewId, Created
  <1>4. CASE cur.block = NULL
    <2> DEFINE items == Append(cur.items, NewId)
    <2>1. cur' = [cur EXCEPT !.items = items] /\ cur.kind = "ENTITIES"
      BY <1>4 DEF Attach, CanReadEntity
    <2>2. items \in Seq(Nat)
          /\ DOMAIN items = DOMAIN cur.items \cup {Len(cur.items) + 1}
          /\ (\A j \in DOMAIN cur.items : items[j] = cur.items[j])
          /\ items[Len(cur.items) + 1] = NewId
      BY <1>2, <1>3
    <2> HIDE DEF items
    <2>3. /\ cur' \in [kind : SectionKinds \cup {"none"}, items : Seq(Nat),
                       block : Nat]
          /\ cur'.kind = "ENTITIES" /\ cur'.items = items
          /\ cur'.block = NULL
      BY <1>2, <1>4, <2>1, <2>2
    <2>4. \A j \in DOMAIN items : items[j] \in 1 .. Len(obj')
      BY <1>1, <1>2, <1>3, <2>2, HoldsStill
    <2>5. CurSound'
      BY <2>3, <2>4 DEF CurSound, HoldsObjects, Ids
    <2> QED BY <2>3, <2>5
  <1>5. CASE cur.block # NULL
    <2>1. cur' = cur
      BY <1>5 DEF Attach
    <2>2. cur.block \in 1 .. Len(obj') /\ obj'[cur.block].kind = "BLOCK"
      BY <1>1, <1>5 DEF IInv, TypeOK, CurSound, Created, Same, Ids, NewId
    <2>3. HoldsObjects(cur.kind, cur.items)'
      <3>1. ASSUME NEW j \in DOMAIN cur.items
            PROVE  /\ cur.items[j] \in 1 .. Len(obj')
                   /\ cur.kind = "BLOCKS" => obj'[cur.items[j]].kind = "BLOCK"
        BY <1>1, HoldsStill DEF IInv, CurSound
      <3> QED BY <2>1, <3>1 DEF HoldsObjects, Ids
    <2>4. CurSound'
      BY <2>1, <2>2, <2>3 DEF CurSound, Ids
    <2> QED BY <1>2, <2>1, <2>4
  <1> QED BY <1>4, <1>5

LEMMA ReadPlainStep ==
  ASSUME IInv, ReadPlain PROVE IInv'
  <1> DEFINE o == Object("PLAIN", NoName, NULL)
  <1>1. o \in ObjectType /\ o.kind = "PLAIN" /\ o.block = NULL
    BY ObjectTyped DEF NULL
  <1>2. /\ CanReadEntity /\ Attach(Append(obj, o), NewId)
        /\ refDict' = refDict /\ freed' = freed /\ sections' = sections
        /\ phase' = phase /\ memHandler' = memHandler
    BY DEF ReadPlain
  <1> HIDE DEF o
  <1>3. Created(o)
    BY <1>1, <1>2, AttachCreates
  <1>4. DictSound' /\ BindingsSound' /\ Named'
    BY <1>1, <1>2, <1>3, CreationSound
  <1>5. /\ cur' \in [kind : SectionKinds \cup {"none"}, items : Seq(Nat),
                     block : Nat]
        /\ CurSound'
    BY <1>1, <1>2, AttachKeepsCur
  <1>6. TypeOK'
    BY <1>2, <1>3, <1>5 DEF IInv, TypeOK, Created
  <1>7. SectionsSound'
    BY <1>2, <1>3, SectionsStill
  <1> QED BY <1>4, <1>5, <1>6, <1>7 DEF IInv

LEMMA ReadInsertStep ==
  ASSUME IInv, NEW n \in Names, ReadInsert(n) PROVE IInv'
  <1> DEFINE o == Object("INSERT", n, Resolve(refDict, n))
  <1>1. /\ o \in ObjectType /\ o.kind = "INSERT" /\ o.name = n
        /\ o.block # NULL
              => /\ o.block \in Ids /\ obj[o.block].kind = "BLOCK"
                 /\ obj[o.block].name = o.name
    BY InsertTyped
  <1>2. /\ CanReadEntity /\ Attach(Append(obj, o), NewId)
        /\ refDict' = Referenced(refDict, n)
        /\ freed' = freed /\ sections' = sections
        /\ phase' = phase /\ memHandler' = memHandler
    BY DEF ReadInsert
  <1> HIDE DEF o
  <1>3. Created(o)
    BY <1>1, <1>2, AttachCreates
  <1>4. /\ refDict' \in [Names -> Nat \cup {ABSENT}]
        /\ \A m \in Names : refDict'[m] > 0 => refDict'[m] = refDict[m]
    BY <1>2 DEF IInv, TypeOK, Referenced, NULL, ABSENT
  <1>5. DictSound' /\ BindingsSound' /\ Named'
    BY <1>1, <1>3, <1>4, CreationSound
  <1>6. /\ cur' \in [kind : SectionKinds \cup {"none"}, items : Seq(Nat),
                     block : Nat]
        /\ CurSound'
    BY <1>1, <1>2, AttachKeepsCur
  <1>7. TypeOK'
    BY <1>2, <1>3, <1>4, <1>6 DEF IInv, TypeOK, Created
  <1>8. SectionsSound'
    BY <1>2, <1>3, SectionsStill
  <1> QED BY <1>5, <1>6, <1>7, <1>8 DEF IInv

\* fixReferences() changes nothing but the block of unbound INSERTs.
LEMMA EndOfFileStep ==
  ASSUME IInv, EndOfFile PROVE IInv'
  <1>1. /\ obj' = FixReferences(obj, sections, refDict) /\ phase' = "ready"
        /\ refDict' = refDict /\ freed' = freed /\ sections' = sections
        /\ cur' = cur /\ memHandler' = memHandler
    BY DEF EndOfFile
  <1>2. ASSUME NEW i \in Ids
        PROVE  /\ obj'[i] \in ObjectType
               /\ obj'[i].kind = obj[i].kind /\ obj'[i].name = obj[i].name
               /\ \/ obj'[i].block = obj[i].block
                  \/ /\ obj[i].name \in Names
                     /\ obj'[i].block = Find(refDict, obj[i].name)
    <2>1. obj[i] \in ObjectType /\ DOMAIN obj = Ids
      BY DEF IInv, TypeOK, Ids
    <2>2. \/ obj'[i] = obj[i]
          \/ /\ obj[i].kind = "INSERT" /\ obj[i].block = NULL
             /\ obj'[i] = [obj[i] EXCEPT !.block = Find(refDict, obj[i].name)]
      BY <1>1, <2>1 DEF FixReferences
    <2>3. obj[i].kind = "INSERT" => obj[i].name \in Names
      BY DEF IInv, Named
    <2> QED BY <2>1, <2>2, <2>3, FindTyped DEF IInv, ObjectType
  <1>3. obj' \in Seq(ObjectType) /\ Len(obj') = Len(obj)
    <2>1. obj' = [i \in 1 .. Len(obj) |-> obj'[i]] /\ Len(obj) \in Nat
      BY <1>1 DEF FixReferences, IInv, TypeOK
    <2> QED BY <1>2, <2>1 DEF Ids
  <1>4. TypeOK'
    BY <1>1, <1>3 DEF IInv, TypeOK
  <1>5. DictSound' /\ SectionsSound' /\ CurSound' /\ Named'
    BY <1>1, <1>2, <1>3 DEF IInv, DictSound, SectionsSound, CurSound, Named,
                            HoldsObjects, Ids
  <1>6. ASSUME NEW i \in Ids, obj'[i].kind = "INSERT", obj'[i].block # NULL
        PROVE  /\ obj'[i].block \in Ids
               /\ obj'[obj'[i].block].kind = "BLOCK"
               /\ obj'[obj'[i].block].name = obj'[i].name
    <2>1. CASE obj'[i].block = obj[i].block
      BY <1>2, <1>6, <2>1 DEF IInv, BindingsSound
    <2>2. CASE obj[i].name \in Names
               /\ obj'[i].block = Find(refDict, obj[i].name)
      BY <1>2, <1>6, <2>2, FindTyped DEF IInv, DictSound
    <2> QED BY <1>2, <2>1, <2>2
  <1>7. BindingsSound'
    BY <1>3, <1>6 DEF BindingsSound, Ids
  <1> QED BY <1>4, <1>5, <1>7 DEF IInv

\* What a client does.
LEMMA SectionAt ==
  ASSUME IInv, NEW kind, FindSection(sections, kind) # 0
  PROVE  LET s == FindSection(sections, kind)
         IN  /\ s \in DOMAIN sections /\ sections[s].kind = kind
             /\ sections[s] \in SectionType
             /\ HoldsObjects(kind, sections[s].items)
  BY FindSectionIndex DEF IInv, TypeOK, SectionsSound

\* Another list of objects in one of the sections.
LEMMA NewItems ==
  ASSUME IInv, NEW s \in DOMAIN sections, NEW items \in Seq(Nat)
  PROVE  sections' = [sections EXCEPT ![s].items = items]
           => /\ sections' \in Seq(SectionType)
              /\ DOMAIN sections' = DOMAIN sections
              /\ \A t \in DOMAIN sections :
                   /\ sections'[t].kind = sections[t].kind
                   /\ sections'[t].items
                        = IF t = s THEN items ELSE sections[t].items
  <1> DEFINE new == [sections[s] EXCEPT !.items = items]
  <1>1. sections \in Seq(SectionType)
    BY DEF IInv, TypeOK
  <1>a. sections[s] \in SectionType
    BY <1>1
  <1>2. /\ new \in SectionType
        /\ new.kind = sections[s].kind /\ new.items = items
    BY <1>a DEF SectionType
  <1>3. [sections EXCEPT ![s].items = items] = [sections EXCEPT ![s] = new]
    OBVIOUS
  <1> HIDE DEF new
  <1>4. SUFFICES ASSUME sections' = [sections EXCEPT ![s] = new]
                 PROVE  /\ sections' \in Seq(SectionType)
                        /\ DOMAIN sections' = DOMAIN sections
                        /\ \A t \in DOMAIN sections :
                             /\ sections'[t].kind = sections[t].kind
                             /\ sections'[t].items
                                  = IF t = s THEN items ELSE sections[t].items
    BY <1>3
  <1> QED BY <1>1, <1>2, <1>4

LEMMA InsertBlockStep ==
  ASSUME IInv, NEW n \in Names, InsertBlock(n) PROVE IInv'
  <1> DEFINE o == Object("BLOCK", n, NULL)
             items == Append(sections[BlocksAt].items, NewId)
  <1>1. o \in ObjectType /\ o.kind = "BLOCK" /\ o.name = n /\ o.block = NULL
    BY ObjectTyped DEF NULL
  <1>2. /\ obj' = Append(obj, o) /\ BlocksAt # 0
        /\ refDict' = [refDict EXCEPT ![n] = NewId]
        /\ cur' = cur /\ freed' = freed /\ phase' = phase
        /\ memHandler' = memHandler
    BY DEF InsertBlock
  <1>3. sections' = [sections EXCEPT ![BlocksAt].items = items]
    BY DEF InsertBlock
  <1>4. /\ BlocksAt \in DOMAIN sections /\ sections[BlocksAt].kind = "BLOCKS"
        /\ sections[BlocksAt].items \in Seq(Nat)
        /\ HoldsObjects("BLOCKS", sections[BlocksAt].items)
    BY <1>2, SectionAt DEF BlocksAt, SectionType
  <1>5. NewId \in Nat /\ refDict \in [Names -> Nat \cup {ABSENT}]
    BY DEF IInv, TypeOK, NewId
  <1>6. /\ items \in Seq(Nat)
        /\ \A j \in DOMAIN items :
             \/ items[j] = NewId
             \/ /\ j \in DOMAIN sections[BlocksAt].items
                /\ items[j] = sections[BlocksAt].items[j]
    BY <1>4, <1>5
  <1> HIDE DEF o, items
  <1>7. Created(o)
    BY <1>1, <1>2, AppendCreates DEF IInv
  <1>8. DictSound' /\ BindingsSound' /\ Named'
    BY <1>1, <1>2, <1>5, <1>7, CreationSound
  <1>9. /\ sections' \in Seq(SectionType)
        /\ DOMAIN sections' = DOMAIN sections
        /\ \A t \in DOMAIN sections :
             /\ sections'[t].kind = sections[t].kind
             /\ sections'[t].items = IF t = BlocksAt THEN items
                                     ELSE sections[t].items
    BY <1>3, <1>4, <1>6, NewItems
  <1>10. TypeOK'
    BY <1>2, <1>5, <1>7, <1>9 DEF IInv, TypeOK, Created
  <1>11. NewId \in 1 .. Len(obj') /\ obj'[NewId].kind = "BLOCK"
    BY <1>1, <1>5, <1>7 DEF Created, Same, NewId, IInv, TypeOK
  <1>12. ASSUME NEW t \in DOMAIN sections, NEW j \in DOMAIN sections'[t].items
         PROVE  /\ sections'[t].items[j] \in 1 .. Len(obj')
                /\ sections'[t].kind = "BLOCKS"
                     => obj'[sections'[t].items[j]].kind = "BLOCK"
    <2>1. CASE t = BlocksAt
      <3>1. \A k \in DOMAIN sections[BlocksAt].items :
              /\ sections[BlocksAt].items[k] \in 1 .. Len(obj')
              /\ obj'[sections[BlocksAt].items[k]].kind = "BLOCK"
        BY <1>4, <1>7, HoldsStill
      <3>2. sections'[t].items = items
        BY <1>9, <2>1
      <3>3. items[j] = NewId
            \/ \E k \in DOMAIN sections[BlocksAt].items :
                 items[j] = sections[BlocksAt].items[k]
        BY <1>6, <1>12, <3>2
      <3> QED BY <1>11, <3>1, <3>2, <3>3
    <2>2. CASE t # BlocksAt
      <3>1. HoldsObjects(sections[t].kind, sections[t].items)
        BY DEF IInv, SectionsSound
      <3> QED BY <1>7, <1>9, <2>2, <3>1, HoldsStill
    <2> QED BY <2>1, <2>2
  <1>13. SectionsSound'
    BY <1>9, <1>12 DEF SectionsSound, HoldsObjects, Ids
  <1>14. CurSound'
    <2>1. HoldsObjects(cur.kind, cur.items)
      BY DEF IInv, CurSound
    <2>2. cur.block # NULL
            => cur.block \in 1 .. Len(obj') /\ obj'[cur.block].kind = "BLOCK"
      BY <1>5, <1>7 DEF IInv, TypeOK, CurSound, Created, Same, Ids, NewId
    <2> QED BY <1>2, <1>7, <2>1, <2>2, HoldsStill
            DEF CurSound, HoldsObjects, Ids
  <1> QED BY <1>8, <1>10, <1>13, <1>14 DEF IInv

\* What BLOCKS holds: what the client may show.
LEMMA BlockItemKnown ==
  ASSUME IInv, NEW b \in Range(ItemsOf(sections, "BLOCKS"))
  PROVE  b \in Ids /\ obj[b].kind = "BLOCK" /\ obj[b].name \in Names
  <1>1. FindSection(sections, "BLOCKS") # 0
    BY DEF ItemsOf, Range
  <1> DEFINE s == FindSection(sections, "BLOCKS")
  <1>2. HoldsObjects("BLOCKS", sections[s].items)
    BY <1>1, SectionAt
  <1>3. PICK j \in DOMAIN sections[s].items : b = sections[s].items[j]
    BY <1>1 DEF ItemsOf, Range
  <1>4. b \in Ids /\ obj[b].kind = "BLOCK"
    BY <1>2, <1>3 DEF HoldsObjects
  <1> QED BY <1>4 DEF IInv, Named

LEMMA InsertInsertStep ==
  ASSUME IInv, NEW b \in Range(ItemsOf(sections, "BLOCKS")), InsertInsert(b)
  PROVE  IInv'
  <1> DEFINE o == Object("INSERT", obj[b].name, b)
             items == Append(sections[EntitiesAt].items, NewId)
  <1>a. b \in Ids /\ obj[b].kind = "BLOCK" /\ obj[b].name \in Names /\ b \in Nat
    BY BlockItemKnown DEF Ids
  <1>1. /\ o \in ObjectType /\ o.kind = "INSERT" /\ o.name = obj[b].name
        /\ o.block = b
    BY <1>a, ObjectTyped
  <1>2. /\ obj' = Append(obj, o) /\ EntitiesAt # 0 /\ refDict' = refDict
        /\ cur' = cur /\ freed' = freed /\ phase' = phase
        /\ memHandler' = memHandler
    BY DEF InsertInsert
  <1>3. sections' = [sections EXCEPT ![EntitiesAt].items = items]
    BY DEF InsertInsert
  <1>4. /\ EntitiesAt \in DOMAIN sections
        /\ sections[EntitiesAt].kind = "ENTITIES"
        /\ sections[EntitiesAt].items \in Seq(Nat)
        /\ HoldsObjects("ENTITIES", sections[EntitiesAt].items)
    BY <1>2, SectionAt DEF EntitiesAt, SectionType
  <1>5. NewId \in Nat
    BY DEF IInv, TypeOK, NewId
  <1>6. /\ items \in Seq(Nat)
        /\ \A j \in DOMAIN items :
             \/ items[j] = NewId
             \/ /\ j \in DOMAIN sections[EntitiesAt].items
                /\ items[j] = sections[EntitiesAt].items[j]
    BY <1>4, <1>5
  <1> HIDE DEF o, items
  <1>7. Created(o)
    BY <1>1, <1>2, AppendCreates DEF IInv
  <1>8. DictSound' /\ BindingsSound' /\ Named'
    BY <1>a, <1>1, <1>2, <1>7, CreationSound
  <1>9. /\ sections' \in Seq(SectionType)
        /\ DOMAIN sections' = DOMAIN sections
        /\ \A t \in DOMAIN sections :
             /\ sections'[t].kind = sections[t].kind
             /\ sections'[t].items = IF t = EntitiesAt THEN items
                                     ELSE sections[t].items
    BY <1>3, <1>4, <1>6, NewItems
  <1>10. TypeOK'
    BY <1>2, <1>7, <1>9 DEF IInv, TypeOK, Created
  <1>11. NewId \in 1 .. Len(obj')
    BY <1>5, <1>7 DEF Created, NewId, IInv, TypeOK
  <1>12. ASSUME NEW t \in DOMAIN sections, NEW j \in DOMAIN sections'[t].items
         PROVE  /\ sections'[t].items[j] \in 1 .. Len(obj')
                /\ sections'[t].kind = "BLOCKS"
                     => obj'[sections'[t].items[j]].kind = "BLOCK"
    <2>1. CASE t = EntitiesAt
      <3>1. \A k \in DOMAIN sections[EntitiesAt].items :
              sections[EntitiesAt].items[k] \in 1 .. Len(obj')
        BY <1>4, <1>7, HoldsStill
      <3>2. sections'[t].items = items /\ sections'[t].kind = "ENTITIES"
        BY <1>4, <1>9, <2>1
      <3>3. items[j] = NewId
            \/ \E k \in DOMAIN sections[EntitiesAt].items :
                 items[j] = sections[EntitiesAt].items[k]
        BY <1>6, <1>12, <3>2
      <3> QED BY <1>11, <3>1, <3>2, <3>3
    <2>2. CASE t # EntitiesAt
      <3>1. HoldsObjects(sections[t].kind, sections[t].items)
        BY DEF IInv, SectionsSound
      <3> QED BY <1>7, <1>9, <2>2, <3>1, HoldsStill
    <2> QED BY <2>1, <2>2
  <1>13. SectionsSound'
    BY <1>9, <1>12 DEF SectionsSound, HoldsObjects, Ids
  <1>14. CurSound'
    <2>1. HoldsObjects(cur.kind, cur.items)
      BY DEF IInv, CurSound
    <2>2. cur.block # NULL
            => cur.block \in 1 .. Len(obj') /\ obj'[cur.block].kind = "BLOCK"
      BY <1>5, <1>7 DEF IInv, TypeOK, CurSound, Created, Same, Ids, NewId
    <2> QED BY <1>2, <1>7, <2>1, <2>2, HoldsStill
            DEF CurSound, HoldsObjects, Ids
  <1> QED BY <1>8, <1>10, <1>13, <1>14 DEF IInv

\* Taking one element out of a section.
LEMMA RemovalSound ==
  ASSUME IInv, NEW s \in DOMAIN sections, NEW i \in DOMAIN sections[s].items,
         obj' = obj, refDict' = refDict, cur' = cur, phase' = phase,
         memHandler' = memHandler, freed' \subseteq Nat
  PROVE  sections' = [sections EXCEPT ![s].items = RemoveAt(@, i)] => IInv'
  <1> DEFINE items == RemoveAt(sections[s].items, i)
  <1>1. sections \in Seq(SectionType)
    BY DEF IInv, TypeOK
  <1>a. sections[s] \in SectionType
    BY <1>1
  <1>2. sections[s].items \in Seq(Nat)
    BY <1>a DEF SectionType
  <1>3. /\ items \in Seq(Nat)
        /\ \A j \in DOMAIN items :
             \E k \in DOMAIN sections[s].items : items[j] = sections[s].items[k]
    BY <1>2, RemoveAtTyped
  <1>4. [sections EXCEPT ![s].items = RemoveAt(@, i)]
          = [sections EXCEPT ![s].items = items]
    OBVIOUS
  <1> HIDE DEF items
  <1> SUFFICES ASSUME sections' = [sections EXCEPT ![s].items = items]
               PROVE  IInv'
    BY <1>4
  <1>5. /\ sections' \in Seq(SectionType)
        /\ DOMAIN sections' = DOMAIN sections
        /\ \A t \in DOMAIN sections :
             /\ sections'[t].kind = sections[t].kind
             /\ sections'[t].items = IF t = s THEN items ELSE sections[t].items
    BY <1>3, NewItems
  <1>6. TypeOK'
    BY <1>5 DEF IInv, TypeOK
  <1>7. DictSound' /\ BindingsSound' /\ CurSound' /\ Named'
    BY DEF IInv, DictSound, BindingsSound, CurSound, Named, HoldsObjects, Ids
  <1>8. ASSUME NEW t \in DOMAIN sections, NEW j \in DOMAIN sections'[t].items
        PROVE  /\ sections'[t].items[j] \in Ids
               /\ sections'[t].kind = "BLOCKS"
                    => obj[sections'[t].items[j]].kind = "BLOCK"
    <2>1. HoldsObjects(sections[t].kind, sections[t].items)
      BY DEF IInv, SectionsSound
    <2> QED BY <1>3, <1>5, <1>8, <2>1 DEF HoldsObjects
  <1>9. SectionsSound'
    BY <1>5, <1>8 DEF SectionsSound, HoldsObjects, Ids
  <1> QED BY <1>6, <1>7, <1>9 DEF IInv

LEMMA DeleteTyped ==
  ASSUME IInv, NEW ids \in SUBSET Nat, Delete(ids)
  PROVE  freed' \subseteq Nat
  BY DEF IInv, TypeOK, Delete

LEMMA RemoveEntityStep ==
  ASSUME IInv, NEW i \in DOMAIN ItemsOf(sections, "ENTITIES"), RemoveEntity(i)
  PROVE  IInv'
  <1>1. FindSection(sections, "ENTITIES") # 0
    BY DEF ItemsOf
  <1>2. /\ EntitiesAt \in DOMAIN sections
        /\ sections[EntitiesAt].items \in Seq(Nat)
        /\ i \in DOMAIN sections[EntitiesAt].items
    BY <1>1, SectionAt DEF EntitiesAt, ItemsOf, SectionType
  <1>3. freed' \subseteq Nat
    BY <1>2, DeleteTyped DEF RemoveEntity
  <1>4. /\ sections' = [sections EXCEPT ![EntitiesAt].items = RemoveAt(@, i)]
        /\ obj' = obj /\ refDict' = refDict /\ cur' = cur /\ phase' = phase
        /\ memHandler' = memHandler
    BY DEF RemoveEntity
  <1> QED BY <1>2, <1>3, <1>4, RemovalSound

LEMMA RemoveBlockStep ==
  ASSUME IInv, NEW i \in DOMAIN ItemsOf(sections, "BLOCKS"), RemoveBlock(i)
  PROVE  IInv'
  <1>1. FindSection(sections, "BLOCKS") # 0
    BY DEF ItemsOf
  <1>2. /\ BlocksAt \in DOMAIN sections
        /\ sections[BlocksAt].items \in Seq(Nat)
        /\ i \in DOMAIN sections[BlocksAt].items
        /\ sections[BlocksAt].items[i] \in Ids
    BY <1>1, SectionAt DEF BlocksAt, ItemsOf, SectionType, HoldsObjects
  <1> DEFINE b == sections[BlocksAt].items[i]
  <1>3. b \in Nat /\ obj[b] \in ObjectType
    BY <1>2 DEF IInv, TypeOK, Ids
  <1>4. Range(obj[b].members) \subseteq Nat
    BY <1>3 DEF ObjectType, Range
  <1>5. freed' \subseteq Nat
    BY <1>3, <1>4, DeleteTyped DEF RemoveBlock
  <1>6. /\ sections' = [sections EXCEPT ![BlocksAt].items = RemoveAt(@, i)]
        /\ obj' = obj /\ refDict' = refDict /\ cur' = cur /\ phase' = phase
        /\ memHandler' = memHandler
    BY DEF RemoveBlock
  <1> QED BY <1>2, <1>5, <1>6, RemovalSound

LEMMA NextSound == IInv /\ [Next]_vars => IInv'
  <1> SUFFICES ASSUME IInv, [Next]_vars PROVE IInv'
    OBVIOUS
  <1>1. CASE Read
    BY <1>1, BeginSectionStep, ReadBlockStep, ReadInsertStep, ReadPlainStep,
       EndBlockStep, EndSectionStep, EndOfFileStep, ReadFailsStep,
       ReadAgainStep
    DEF Read
  <1>2. CASE Edit
    BY <1>2, InsertBlockStep, InsertInsertStep, RemoveEntityStep,
       RemoveBlockStep
    DEF Edit
  <1>3. CASE UNCHANGED vars
    BY <1>3 DEF vars, IInv, TypeOK, DictSound, BindingsSound, SectionsSound,
                CurSound, Named, HoldsObjects, Ids
  <1> QED BY <1>1, <1>2, <1>3 DEF Next

\* The invariant holds in every state, whatever the file holds and the client
\* does with the model.
THEOREM DrawingInvariant == Spec => []IInv
  BY InitSound, NextSound, PTL DEF Spec

\* The parts of a dimeModel have their types.
THEOREM TypeCorrect == Spec => []TypeOK
  BY DrawingInvariant, PTL DEF IInv

\* dimeModel::findBlock() never returns something that is not a block of the
\* name asked for.
THEOREM DictionarySound == Spec => []DictSound
  BY DrawingInvariant, PTL DEF IInv

\* An INSERT shows a block of its own name, however it came to show it.
THEOREM InsertsSound == Spec => []BindingsSound
  BY DrawingInvariant, PTL DEF IInv

LEMMA StepKeepsBindings ==
  ASSUME IInv, Next
  PROVE  \A i \in Ids : obj[i].block # NULL => obj'[i].block = obj[i].block
  <1> DEFINE Kept ==
        \A i \in Ids : obj[i].block # NULL => obj'[i].block = obj[i].block
  <1>1. ASSUME NEW o, Created(o) PROVE Kept
    BY <1>1 DEF Created, Same
  <1>2. CASE obj' = obj
    BY <1>2
  <1>3. ASSUME NEW n \in Names, ReadBlock(n) \/ InsertBlock(n) PROVE Kept
    <2>1. Object("BLOCK", n, NULL) \in ObjectType
      BY ObjectTyped DEF NULL
    <2>2. obj' = Append(obj, Object("BLOCK", n, NULL))
      BY <1>3 DEF ReadBlock, InsertBlock
    <2> QED BY <1>1, <2>1, <2>2, AppendCreates DEF IInv
  <1>4. ASSUME NEW n \in Names, ReadInsert(n) PROVE Kept
    BY <1>1, <1>4, InsertTyped, AttachCreates DEF ReadInsert
  <1>5. CASE ReadPlain
    BY <1>1, <1>5, ObjectTyped, AttachCreates DEF ReadPlain, NULL
  <1>6. CASE EndOfFile
    BY <1>6 DEF EndOfFile, FixReferences, Ids, IInv, TypeOK
  <1>7. ASSUME NEW b \in Range(ItemsOf(sections, "BLOCKS")), InsertInsert(b)
        PROVE  Kept
    <2>1. Object("INSERT", obj[b].name, b) \in ObjectType
      BY BlockItemKnown, ObjectTyped DEF Ids
    <2> QED BY <1>1, <1>7, <2>1, AppendCreates DEF IInv, InsertInsert
  <1>8. \/ obj' = obj \/ ReadPlain \/ EndOfFile
        \/ \E n \in Names : ReadBlock(n) \/ ReadInsert(n) \/ InsertBlock(n)
        \/ \E b \in Range(ItemsOf(sections, "BLOCKS")) : InsertInsert(b)
    BY DEF Next, Read, Edit, BeginSection, EndBlock, EndSection, ReadFails,
           ReadAgain, RemoveEntity, RemoveBlock
  <1> QED BY <1>2, <1>3, <1>4, <1>5, <1>6, <1>7, <1>8

\* Once an INSERT shows a block, neither resolving forward references nor
\* anything the client does lets it show another.
THEOREM BindingsNeverMove == Spec => BindingsStable
  <1> DEFINE Kept ==
        \A i \in Ids : obj[i].block # NULL => obj'[i].block = obj[i].block
  <1>1. IInv /\ [Next]_vars => [Kept]_vars
    BY StepKeepsBindings
  <1>2. BindingsStable <=> [][Kept]_vars
    BY DEF BindingsStable
  <1> QED BY <1>1, <1>2, DrawingInvariant, PTL DEF Spec
-----------------------------------------------------------------------------
(* The life of objects: the inductive invariant.                           *)

Members(b) == Range(obj[b].members)

\* what lies in a section, read or being read, and the block being read
Tops == Items \cup Range(cur.items) \cup ({cur.block} \ {NULL})
Held == Within(obj, Tops)

\* An object has one place: in one section, once,
OnceInSections ==
  \A s, t \in DOMAIN sections :
    \A i \in DOMAIN sections[s].items : \A j \in DOMAIN sections[t].items :
      sections[s].items[i] = sections[t].items[j] => s = t /\ i = j

\* or in the section being read,
OnceInCur ==
  /\ \A i, j \in DOMAIN cur.items : cur.items[i] = cur.items[j] => i = j
  /\ Range(cur.items) \cap Items = {}
  /\ cur.block \notin Range(cur.items) \cup Items

\* or in one block.
OneParent ==
  /\ \A b \in Ids : \A m \in Members(b) :
       m \in Ids /\ obj[m].kind # "BLOCK" /\ m \notin Tops
  /\ \A b, c \in Ids : b # c => Members(b) \cap Members(c) = {}

\* Blocks are read in a BLOCKS section and are in no other.
NoBlocks(items) == \A j \in DOMAIN items : obj[items[j]].kind # "BLOCK"
KindsSound ==
  /\ \A s \in DOMAIN sections :
       sections[s].kind = "ENTITIES" => NoBlocks(sections[s].items)
  /\ cur.kind = "ENTITIES" => NoBlocks(cur.items)
  /\ cur.block # NULL => cur.kind = "BLOCKS"

\* Only an INSERT shows a block.
OnlyInserts == \A i \in Ids : obj[i].block # NULL => obj[i].kind = "INSERT"

\* Nothing the model has, or shows, has been given back.
Alive ==
  \A e \in Held :
    e \notin freed /\ (obj[e].block # NULL => obj[e].block \notin freed)

\* While a file is read, the dictionary has the blocks of this file, and all
\* of them.
DictFresh ==
  phase = "reading" =>
    /\ \A n \in Names : refDict[n] > 0 => refDict[n] \notin freed
    /\ \A b \in Tops : obj[b].kind = "BLOCK" => refDict[obj[b].name] > 0

Idle == phase # "reading" \/ cur.kind = "none" => cur = NoSection

Places == OnceInSections /\ OnceInCur /\ OneParent /\ KindsSound
LInv ==
  IInv /\ freed \subseteq Ids /\ OnlyInserts /\ Places /\ Alive /\ DictFresh /\ Idle
-----------------------------------------------------------------------------
(* Sequences.                                                              *)

LEMMA RangeAppend ==
  ASSUME NEW s \in Seq(Nat), NEW x \in Nat
  PROVE  /\ Append(s, x) \in Seq(Nat)
         /\ DOMAIN Append(s, x) = DOMAIN s \cup {Len(s) + 1}
         /\ Len(s) + 1 \notin DOMAIN s
         /\ \A j \in DOMAIN s : Append(s, x)[j] = s[j]
         /\ Append(s, x)[Len(s) + 1] = x
         /\ Range(Append(s, x)) = Range(s) \cup {x}
  <1>1. /\ Append(s, x) \in Seq(Nat)
        /\ DOMAIN Append(s, x) = DOMAIN s \cup {Len(s) + 1}
        /\ Len(s) + 1 \notin DOMAIN s
        /\ \A j \in DOMAIN s : Append(s, x)[j] = s[j]
        /\ Append(s, x)[Len(s) + 1] = x
    OBVIOUS
  <1> DEFINE r == Append(s, x)
  <1> HIDE DEF r
  <1>2. ASSUME DOMAIN r = DOMAIN s \cup {Len(s) + 1},
               \A j \in DOMAIN s : r[j] = s[j], r[Len(s) + 1] = x
        PROVE  Range(r) = Range(s) \cup {x}
    BY ZenonT(60), <1>2 DEF Range
  <1> QED BY <1>1, <1>2 DEF r

\* A list without its i-th element: the others, in their order.
LEMMA RemoveAtShifts ==
  ASSUME NEW s \in Seq(Nat), NEW i \in 1 .. Len(s)
  PROVE  /\ RemoveAt(s, i) \in Seq(Nat)
         /\ DOMAIN RemoveAt(s, i) = 1 .. Len(s) - 1
         /\ \A j \in 1 .. Len(s) - 1 :
              RemoveAt(s, i)[j] = s[IF j < i THEN j ELSE j + 1]
  <1> DEFINE left == SubSeq(s, 1, i - 1)
             right == SubSeq(s, i + 1, Len(s))
  <1>1. /\ left \in Seq(Nat) /\ Len(left) = i - 1
        /\ \A j \in 1 .. i - 1 : left[j] = s[j]
    BY SubSeqProperties
  <1>2. /\ right \in Seq(Nat) /\ Len(right) = Len(s) - i
        /\ \A j \in 1 .. Len(s) - i : right[j] = s[i + j]
    BY SubSeqProperties
  <1>3. RemoveAt(s, i) = left \o right
    BY DEF RemoveAt
  <1> HIDE DEF left, right
  <1>4. Len(s) \in Nat /\ i \in Nat /\ i >= 1 /\ i <= Len(s)
    OBVIOUS
  <1>5. /\ left \o right \in Seq(Nat)
        /\ Len(left \o right) = Len(left) + Len(right)
        /\ \A j \in 1 .. Len(left) + Len(right) :
             (left \o right)[j]
               = IF j <= Len(left) THEN left[j] ELSE right[j - Len(left)]
    BY <1>1, <1>2, ConcatProperties
  <1>6. Len(left) + Len(right) = Len(s) - 1
    BY <1>1, <1>2, <1>4
  <1>7. ASSUME NEW j \in 1 .. Len(s) - 1
        PROVE  (left \o right)[j] = s[IF j < i THEN j ELSE j + 1]
    <2>0. j \in Int /\ 1 <= j /\ j <= Len(s) - 1
      BY <1>4
    <2>1. CASE j < i
      BY SMTT(60), <1>1, <1>4, <1>5, <1>6, <2>0, <2>1
    <2>2. CASE ~(j < i)
      <3>1. ~(j <= Len(left)) /\ j \in 1 .. Len(left) + Len(right)
        BY <1>1, <1>4, <1>6, <2>0, <2>2
      <3>2. (left \o right)[j] = right[j - (i - 1)]
        BY <1>1, <1>5, <3>1
      <3>3. right[j - (i - 1)] = s[i + (j - (i - 1))]
        BY <1>2, <1>4, <2>0, <2>2
      <3>4. i + (j - (i - 1)) = j + 1
        BY <1>4, <2>0
      <3> QED BY <2>2, <3>2, <3>3, <3>4
    <2> QED BY <2>1, <2>2
  <1>8. DOMAIN (left \o right) = 1 .. Len(s) - 1
    BY <1>5, <1>6
  <1> QED BY <1>3, <1>5, <1>7, <1>8
-----------------------------------------------------------------------------
(* What the parts of the invariant say together.                           *)

LEMMA ItemsAre ==
  \A x : x \in Items <=> \E s \in DOMAIN sections :
                            \E j \in DOMAIN sections[s].items : x = sections[s].items[j]
  BY DEF Items, Range

LEMMA TopsKnown ==
  ASSUME IInv
  PROVE  Items \subseteq Ids /\ Range(cur.items) \subseteq Ids /\ Tops \subseteq Ids
         /\ NULL \notin Ids /\ NewId \notin Ids /\ NewId \in Nat
  <1>1. Items \subseteq Ids
    BY ItemsAre DEF IInv, SectionsSound, HoldsObjects
  <1>2. Range(cur.items) \subseteq Ids
    BY DEF IInv, CurSound, HoldsObjects, Range
  <1>3. cur.block # NULL => cur.block \in Ids
    BY DEF IInv, CurSound
  <1>4. NULL \notin Ids /\ NewId \notin Ids /\ NewId \in Nat
    BY DEF IInv, TypeOK, NULL, Ids, NewId
  <1> QED BY <1>1, <1>2, <1>3, <1>4 DEF Tops

LEMMA HeldAre ==
  \A x : x \in Held <=> x \in Tops \/ \E b \in Tops : x \in Members(b)
  BY DEF Held, Within, Members

LEMMA HeldKnown ==
  ASSUME LInv
  PROVE  Held \subseteq Ids
  BY TopsKnown, HeldAre DEF LInv, Places, OneParent

\* The model's entities are among what is held.
LEMMA EntitiesHeld == Entities \subseteq Held
  BY DEF Entities, Held, Within, Tops

\* A new object is alive when what it shows is.
LEMMA AliveGrows ==
  ASSUME LInv, NEW o, Created(o), freed' = freed,
         o.block # NULL => o.block \notin freed,
         Held' \subseteq Held \cup {NewId}
  PROVE  Alive' /\ freed' \subseteq Ids'
  <1>1. Ids \subseteq Ids' /\ NewId \notin freed
    BY TopsKnown DEF LInv, IInv, TypeOK, Created, Ids, NewId
  <1>2. ASSUME NEW e \in Held'
        PROVE  e \notin freed' /\ (obj'[e].block # NULL => obj'[e].block \notin freed')
    <2>1. CASE e \in Held
      BY <2>1, HeldKnown DEF LInv, Alive, Created, Same
    <2>2. CASE e = NewId
      BY <2>2, <1>1 DEF Created, Same
    <2> QED BY <2>1, <2>2
  <1> QED BY <1>1, <1>2 DEF LInv, Alive

\* The new object lies in a section, or is the block being read.
LEMMA TopGrows ==
  ASSUME LInv, NEW o, Created(o), freed' = freed,
         o.block # NULL => o.block \notin freed,
         \A b \in Ids : Range(obj'[b].members) = Members(b),
         Range(obj'[NewId].members) = {},
         Tops' = Tops \cup {NewId}
  PROVE  OneParent' /\ Alive' /\ freed' \subseteq Ids'
  <1>1. Ids' = Ids \cup {NewId} /\ NewId \notin Ids
    BY TopsKnown DEF LInv, IInv, TypeOK, Created, Ids, NewId
  <1>2. Held' \subseteq Held \cup {NewId}
    <2>1. ASSUME NEW x \in Held' PROVE x \in Held \cup {NewId}
      <3>1. x \in Tops' \/ \E b \in Tops' : x \in Range(obj'[b].members)
        BY <2>1 DEF Held, Within
      <3> QED BY <3>1, <1>1, HeldAre, TopsKnown DEF LInv
    <2> QED BY <2>1
  <1>3. ASSUME NEW b \in Ids', NEW m \in Range(obj'[b].members)
        PROVE  m \in Ids' /\ obj'[m].kind # "BLOCK" /\ m \notin Tops'
    <2>1. b \in Ids /\ m \in Members(b)
      BY <1>1, <1>3
    <2>2. m \in Ids /\ obj[m].kind # "BLOCK" /\ m \notin Tops
      BY <2>1 DEF LInv, Places, OneParent
    <2> QED BY <2>2, <1>1 DEF Created, Same
  <1>4. ASSUME NEW b \in Ids', NEW c \in Ids', b # c
        PROVE  Range(obj'[b].members) \cap Range(obj'[c].members) = {}
    BY <1>1, <1>4 DEF LInv, Places, OneParent
  <1>5. OneParent'
    BY <1>3, <1>4 DEF OneParent, Members
  <1> QED BY <1>2, <1>5, AliveGrows

\* The new object is put into the block being read.
LEMMA MemberGrows ==
  ASSUME LInv, NEW o, Created(o), freed' = freed,
         o.block # NULL => o.block \notin freed,
         o.kind # "BLOCK", cur.block \in Ids, cur.block # NULL,
         \A b \in Ids : Range(obj'[b].members)
                          = IF b = cur.block THEN Members(b) \cup {NewId} ELSE Members(b),
         Range(obj'[NewId].members) = {},
         Tops' = Tops
  PROVE  OneParent' /\ Alive' /\ freed' \subseteq Ids'
  <1>1. Ids' = Ids \cup {NewId} /\ NewId \notin Ids /\ Tops \subseteq Ids
    BY TopsKnown DEF LInv, IInv, TypeOK, Created, Ids, NewId
  <1>2. Held' \subseteq Held \cup {NewId}
    <2>1. ASSUME NEW x \in Held' PROVE x \in Held \cup {NewId}
      <3>1. x \in Tops' \/ \E b \in Tops' : x \in Range(obj'[b].members)
        BY <2>1 DEF Held, Within
      <3> QED BY <3>1, <1>1, HeldAre
    <2> QED BY <2>1
  <1>3. ASSUME NEW b \in Ids', NEW m \in Range(obj'[b].members)
        PROVE  m \in Ids' /\ obj'[m].kind # "BLOCK" /\ m \notin Tops'
    <2>1. CASE m = NewId
      BY <2>1, <1>1 DEF Created, Same
    <2>2. CASE m # NewId
      <3>1. b \in Ids /\ m \in Members(b)
        BY <1>1, <1>3, <2>2
      <3>2. m \in Ids /\ obj[m].kind # "BLOCK" /\ m \notin Tops
        BY <3>1 DEF LInv, Places, OneParent
      <3> QED BY <3>2, <1>1 DEF Created, Same
    <2> QED BY <2>1, <2>2
  <1>a. \A b \in Ids : NewId \notin Members(b)
    BY <1>1 DEF LInv, Places, OneParent
  <1>b. \A b, c \in Ids : b # c => Members(b) \cap Members(c) = {}
    BY DEF LInv, Places, OneParent
  <1>4. ASSUME NEW b \in Ids', NEW c \in Ids', b # c
        PROVE  Range(obj'[b].members) \cap Range(obj'[c].members) = {}
    <2>1. CASE b = NewId \/ c = NewId
      BY <2>1
    <2>2. CASE b \in Ids /\ c \in Ids
      BY ZenonT(60), <2>2, <1>a, <1>b, <1>4
    <2> QED BY <1>1, <2>1, <2>2
  <1>5. OneParent'
    BY <1>3, <1>4 DEF OneParent, Members
  <1> QED BY <1>2, <1>5, AliveGrows

\* What Append and Attach do to the lists.
LEMMA AppendMembers ==
  ASSUME IInv, NEW o, o.members = << >>, obj' = Append(obj, o)
  PROVE  /\ \A b \in Ids : Range(obj'[b].members) = Members(b)
         /\ Range(obj'[NewId].members) = {}
  <1>1. (\A b \in Ids : obj'[b] = obj[b]) /\ obj'[NewId] = o
    BY DEF IInv, TypeOK, Ids, NewId
  <1>2. Range(<< >>) = {}
    BY DEF Range
  <1> QED BY <1>1, <1>2 DEF Members
-----------------------------------------------------------------------------
(* Steps that create no object.                                            *)

LEMMA Shrinks ==
  ASSUME LInv, obj' = obj, Tops' \subseteq Tops, freed' \subseteq Ids,
         \A e \in Held' : e \notin freed' \ freed /\ obj[e].block \notin freed' \ freed
  PROVE  OneParent' /\ Alive' /\ freed' \subseteq Ids'
  <1>1. Held' \subseteq Held
    <2>1. ASSUME NEW x \in Held' PROVE x \in Held
      <3>1. x \in Tops' \/ \E b \in Tops' : x \in Range(obj'[b].members)
        BY <2>1 DEF Held, Within
      <3> QED BY <3>1, HeldAre DEF Members
    <2> QED BY <2>1
  <1>2. Alive'
    BY <1>1 DEF LInv, Alive
  <1>3. OneParent'
    BY DEF LInv, Places, OneParent, Members, Ids
  <1> QED BY <1>2, <1>3 DEF Ids

\* The same when nothing is given back, and the section being read is empty.
LEMMA CurEmpty ==
  ASSUME LInv, obj' = obj, freed' = freed, sections' = sections,
         cur'.items = << >>, cur'.block = NULL
  PROVE  /\ Items' = Items /\ Tops' = Items /\ Range(cur'.items) = {}
         /\ OneParent' /\ Alive' /\ freed' \subseteq Ids'
         /\ Places'
  <1>1. Range(cur'.items) = {}
    BY DEF Range
  <1>2. Items' = Items /\ Tops' = Items
    BY <1>1 DEF Items, Tops
  <1>3. OneParent' /\ Alive' /\ freed' \subseteq Ids'
    BY <1>2, Shrinks DEF Tops, LInv
  <1>4. OnceInSections' /\ OnceInCur'
    BY <1>1, <1>2, TopsKnown DEF LInv, Places, OnceInSections, OnceInCur
  <1>5. KindsSound'
    BY DEF LInv, Places, KindsSound, NoBlocks
  <1> QED BY <1>1, <1>2, <1>3, <1>4, <1>5 DEF Places

LEMMA BeginSectionLife ==
  ASSUME LInv, NEW kind \in SectionKinds, BeginSection(kind) PROVE LInv'
  <1>1. /\ cur'.items = << >> /\ cur'.block = NULL
        /\ obj' = obj /\ freed' = freed /\ refDict' = refDict
        /\ sections' = sections /\ phase' = phase /\ phase = "reading"
    BY DEF BeginSection
  <1>2. Tops' = Items /\ Alive' /\ freed' \subseteq Ids' /\ Places'
    BY <1>1, CurEmpty
  <1>3. DictFresh'
    BY <1>1, <1>2 DEF LInv, DictFresh, Tops
  <1>4. cur'.kind \in SectionKinds /\ cur'.kind # "none"
    BY DEF BeginSection, SectionKinds
  <1>5. IInv' /\ Idle'
    BY <1>1, <1>4, BeginSectionStep DEF LInv, Idle
  <1>o. OnlyInserts'
    BY <1>1 DEF LInv, OnlyInserts, Ids
  <1> QED BY <1>o, <1>2, <1>3, <1>5 DEF LInv

LEMMA ReadFailsLife ==
  ASSUME LInv, ReadFails PROVE LInv'
  <1>1. /\ cur' = NoSection /\ cur'.items = << >> /\ cur'.block = NULL
        /\ obj' = obj /\ freed' = freed /\ sections' = sections
        /\ phase' = "failed"
    BY DEF ReadFails, NoSection
  <1>2. Alive' /\ freed' \subseteq Ids' /\ Places'
    BY <1>1, CurEmpty
  <1>3. DictFresh' /\ Idle'
    BY <1>1 DEF DictFresh, Idle, NoSection
  <1>4. IInv'
    BY ReadFailsStep DEF LInv
  <1>o. OnlyInserts'
    BY <1>1 DEF LInv, OnlyInserts, Ids
  <1> QED BY <1>o, <1>2, <1>3, <1>4 DEF LInv

LEMMA ReadAgainLife ==
  ASSUME LInv, ReadAgain PROVE LInv'
  <1>1. /\ cur' = NoSection /\ cur'.items = << >> /\ cur'.block = NULL
        /\ cur'.kind = "none" /\ obj' = obj /\ sections' = << >>
        /\ phase' = "reading" /\ refDict' = [n \in Names |-> ABSENT]
        /\ freed' \subseteq Ids
    BY DEF ReadAgain, NoSection, NoReferences, LInv, Idle
  <1>2. Range(cur'.items) = {} /\ Items' = {} /\ Tops' = {}
    BY <1>1 DEF Range, Items, Tops
  <1>3. Held' = {}
    BY <1>2 DEF Held, Within
  <1>4. OneParent' /\ Alive' /\ freed' \subseteq Ids'
    BY <1>1, <1>2, <1>3, Shrinks
  <1>5. OnceInSections' /\ OnceInCur' /\ KindsSound'
    BY <1>1, <1>2 DEF OnceInSections, OnceInCur, KindsSound
  <1>6. DictFresh' /\ Idle'
    BY <1>1, <1>2 DEF DictFresh, Idle, ABSENT
  <1>7. IInv'
    BY ReadAgainStep DEF LInv
  <1>o. OnlyInserts'
    BY <1>1 DEF LInv, OnlyInserts, Ids
  <1> QED BY <1>o, <1>4, <1>5, <1>6, <1>7 DEF LInv, Places

LEMMA EndBlockLife ==
  ASSUME LInv, EndBlock PROVE LInv'
  <1>1. /\ obj' = obj /\ freed' = freed /\ refDict' = refDict
        /\ sections' = sections /\ phase' = phase /\ phase = "reading"
        /\ cur.block # NULL
        /\ cur' = [cur EXCEPT !.items = Append(@, cur.block), !.block = NULL]
    BY DEF EndBlock
  <1>2. cur.items \in Seq(Nat) /\ cur.block \in Nat
    BY DEF LInv, IInv, TypeOK
  <1> DEFINE items == Append(cur.items, cur.block)
  <1>3. /\ DOMAIN items = DOMAIN cur.items \cup {Len(cur.items) + 1}
        /\ \A j \in DOMAIN cur.items : items[j] = cur.items[j]
        /\ items[Len(cur.items) + 1] = cur.block
        /\ Range(items) = Range(cur.items) \cup {cur.block}
    BY <1>2, RangeAppend
  <1>4. cur'.items = items /\ cur'.block = NULL /\ cur'.kind = cur.kind
    BY <1>1 DEF LInv, IInv, TypeOK
  <1> HIDE DEF items
  <1>5. Items' = Items /\ Tops' = Tops
    <2>1. Items' = Items
      BY <1>1 DEF Items
    <2>2. Range(cur'.items) = Range(cur.items) \cup {cur.block}
      BY <1>3, <1>4
    <2> QED BY <1>1, <1>4, <2>1, <2>2 DEF Tops
  <1>6. OneParent' /\ Alive' /\ freed' \subseteq Ids'
    BY <1>1, <1>5, Shrinks DEF LInv
  <1>7. cur.block \notin Range(cur.items) \cup Items /\ cur.kind = "BLOCKS"
    BY <1>1 DEF LInv, Places, OnceInCur, KindsSound
  <1>8. OnceInSections' /\ KindsSound'
    BY <1>1, <1>4, <1>7 DEF LInv, Places, OnceInSections, KindsSound, NoBlocks
  <1>9. OnceInCur'
    <2>1. \A j \in DOMAIN cur.items : cur.items[j] # cur.block
      BY <1>7 DEF Range
    <2>2. \A i, j \in DOMAIN items : items[i] = items[j] => i = j
      BY <1>3, <2>1 DEF LInv, Places, OnceInCur
    <2>3. Range(items) \cap Items = {} /\ NULL \notin Range(items) \cup Items
      BY <1>1, <1>3, <1>7, TopsKnown DEF LInv, Places, OnceInCur
    <2> QED BY <1>4, <1>5, <2>2, <2>3 DEF OnceInCur
  <1>10. DictFresh' /\ Idle'
    BY <1>1, <1>4, <1>5, <1>7 DEF LInv, DictFresh, Idle
  <1>11. IInv'
    BY EndBlockStep DEF LInv
  <1>o. OnlyInserts'
    BY <1>1 DEF LInv, OnlyInserts, Ids
  <1> QED BY <1>o, <1>6, <1>8, <1>9, <1>10, <1>11 DEF LInv, Places

LEMMA EndSectionLife ==
  ASSUME LInv, EndSection PROVE LInv'
  <1> DEFINE done == [kind |-> cur.kind, items |-> cur.items]
             n == Len(sections) + 1
  <1>1. /\ obj' = obj /\ freed' = freed /\ refDict' = refDict
        /\ cur' = NoSection /\ phase' = phase /\ phase = "reading"
        /\ cur.block = NULL
        /\ sections' = Append(sections, done)
    BY DEF EndSection
  <1>2. done.kind = cur.kind /\ done.items = cur.items
    OBVIOUS
  <1> HIDE DEF done
  <1>3. /\ DOMAIN sections' = DOMAIN sections \cup {n} /\ n \notin DOMAIN sections
        /\ \A s \in DOMAIN sections : sections'[s] = sections[s]
        /\ sections'[n].kind = cur.kind /\ sections'[n].items = cur.items
    <2>1. sections \in Seq(SectionType)
      BY DEF LInv, IInv, TypeOK
    <2> QED BY <1>1, <1>2, <2>1
  <1> HIDE DEF n
  <1>4. Items' = Items \cup Range(cur.items)
    BY <1>3 DEF Items
  <1>5. cur'.items = << >> /\ cur'.block = NULL /\ cur'.kind = "none"
        /\ Range(cur'.items) = {}
    BY <1>1 DEF NoSection, Range
  <1>6. Tops' = Tops
    BY <1>1, <1>4, <1>5 DEF Tops
  <1>7. OneParent' /\ Alive' /\ freed' \subseteq Ids'
    BY <1>1, <1>6, Shrinks DEF LInv
  <1>8. OnceInSections'
    <2> SUFFICES ASSUME NEW s \in DOMAIN sections', NEW t \in DOMAIN sections',
                        NEW i \in DOMAIN sections'[s].items,
                        NEW j \in DOMAIN sections'[t].items,
                        sections'[s].items[i] = sections'[t].items[j]
                 PROVE  s = t /\ i = j
      BY DEF OnceInSections
    <2>1. CASE s \in DOMAIN sections /\ t \in DOMAIN sections
      BY <1>3, <2>1 DEF LInv, Places, OnceInSections
    <2>2. CASE s = n /\ t = n
      BY <1>3, <2>2 DEF LInv, Places, OnceInCur
    <2>3. ASSUME NEW u \in DOMAIN sections, NEW k \in DOMAIN sections[u].items,
                 NEW l \in DOMAIN cur.items, sections[u].items[k] = cur.items[l]
          PROVE  FALSE
      <3>1. cur.items[l] \in Range(cur.items) /\ cur.items[l] \in Items
        BY <2>3, ItemsAre DEF Range
      <3> QED BY <3>1 DEF LInv, Places, OnceInCur
    <2> QED BY <1>3, <2>1, <2>2, <2>3
  <1>9. OnceInCur'
    BY <1>4, <1>5, TopsKnown DEF OnceInCur, LInv
  <1>10. KindsSound'
    BY <1>1, <1>3, <1>5 DEF LInv, Places, KindsSound, NoBlocks
  <1>11. DictFresh' /\ Idle'
    BY <1>1, <1>6 DEF LInv, DictFresh, Idle
  <1>12. IInv'
    BY EndSectionStep DEF LInv
  <1>o. OnlyInserts'
    BY <1>1 DEF LInv, OnlyInserts, Ids
  <1> QED BY <1>o, <1>7, <1>8, <1>9, <1>10, <1>11, <1>12 DEF LInv, Places

LEMMA FixReferencesChanges ==
  ASSUME IInv, obj' = FixReferences(obj, sections, refDict)
  PROVE  /\ Ids' = Ids
         /\ \A i \in Ids :
              /\ obj'[i].kind = obj[i].kind /\ obj'[i].name = obj[i].name
              /\ obj'[i].members = obj[i].members
              /\ \/ obj'[i].block = obj[i].block
                 \/ /\ obj[i].kind = "INSERT" /\ obj[i].name \in Names
                    /\ obj'[i].block = Find(refDict, obj[i].name)
  <1>1. ASSUME NEW i \in Ids
        PROVE  /\ obj'[i].kind = obj[i].kind /\ obj'[i].name = obj[i].name
               /\ obj'[i].members = obj[i].members
               /\ \/ obj'[i].block = obj[i].block
                  \/ /\ obj[i].kind = "INSERT" /\ obj[i].name \in Names
                     /\ obj'[i].block = Find(refDict, obj[i].name)
    <2>1. obj[i] \in ObjectType /\ DOMAIN obj = Ids
      BY DEF IInv, TypeOK, Ids
    <2>2. \/ obj'[i] = obj[i]
          \/ /\ obj[i].kind = "INSERT"
             /\ obj'[i] = [obj[i] EXCEPT !.block = Find(refDict, obj[i].name)]
      BY <2>1 DEF FixReferences
    <2>3. obj[i].kind = "INSERT" => obj[i].name \in Names
      BY DEF IInv, Named
    <2> QED BY <2>1, <2>2, <2>3 DEF ObjectType
  <1>2. Ids' = Ids
    BY DEF FixReferences, IInv, TypeOK, Ids
  <1> QED BY <1>1, <1>2

LEMMA EndOfFileLife ==
  ASSUME LInv, EndOfFile PROVE LInv'
  <1>1. /\ obj' = FixReferences(obj, sections, refDict) /\ phase' = "ready"
        /\ phase = "reading" /\ refDict' = refDict /\ freed' = freed
        /\ sections' = sections /\ cur' = cur /\ cur.kind = "none"
    BY DEF EndOfFile
  <1>2. /\ Ids' = Ids
        /\ \A i \in Ids :
             /\ obj'[i].kind = obj[i].kind /\ obj'[i].name = obj[i].name
             /\ obj'[i].members = obj[i].members
             /\ \/ obj'[i].block = obj[i].block
                \/ /\ obj[i].kind = "INSERT" /\ obj[i].name \in Names
                   /\ obj'[i].block = Find(refDict, obj[i].name)
    BY <1>1, FixReferencesChanges DEF LInv
  <1>3. Items' = Items /\ Tops' = Tops /\ Tops \subseteq Ids
    BY <1>1, TopsKnown DEF Items, Tops, LInv
  <1>4. Held' = Held
    <2>1. \A b \in Tops : Range(obj'[b].members) = Members(b)
      BY <1>2, <1>3 DEF Members
    <2> QED BY <2>1, <1>3 DEF Held, Within, Members
  <1>5. Alive'
    <2> SUFFICES ASSUME NEW e \in Held
                 PROVE  e \notin freed
                        /\ (obj'[e].block # NULL => obj'[e].block \notin freed)
      BY <1>1, <1>4 DEF Alive
    <2>1. e \in Ids /\ e \notin freed /\ (obj[e].block # NULL => obj[e].block \notin freed)
      BY HeldKnown DEF LInv, Alive
    <2>2. \A n \in Names : Find(refDict, n) # NULL => Find(refDict, n) \notin freed
      BY <1>1, FindTyped DEF LInv, IInv, DictFresh
    <2> QED BY <1>2, <2>1, <2>2
  <1>6. OneParent'
    BY <1>2, <1>3 DEF LInv, Places, OneParent, Members
  <1>7. OnceInSections' /\ OnceInCur'
    BY <1>1, <1>3 DEF LInv, Places, OnceInSections, OnceInCur
  <1>8. KindsSound'
    <2>1. \A s \in DOMAIN sections : \A j \in DOMAIN sections[s].items :
            sections[s].items[j] \in Ids
      BY DEF LInv, IInv, SectionsSound, HoldsObjects
    <2>2. \A j \in DOMAIN cur.items : cur.items[j] \in Ids
      BY DEF LInv, IInv, CurSound, HoldsObjects
    <2> QED BY <1>1, <1>2, <2>1, <2>2 DEF LInv, Places, KindsSound, NoBlocks
  <1>9. DictFresh' /\ Idle' /\ freed' \subseteq Ids'
    BY <1>1, <1>2 DEF DictFresh, Idle, LInv
  <1>10. IInv'
    BY EndOfFileStep DEF LInv
  <1>11. OnlyInserts'
    BY <1>2 DEF LInv, OnlyInserts
  <1> QED BY <1>11, <1>5, <1>6, <1>7, <1>8, <1>9, <1>10 DEF LInv, Places
-----------------------------------------------------------------------------
(* Steps that create an object.                                            *)

\* What was read keeps its kind, and the new object is in none of the lists.
LEMMA ListsKeepKinds ==
  ASSUME LInv, NEW o, Created(o)
  PROVE  /\ \A s \in DOMAIN sections :
              sections[s].kind = "ENTITIES" =>
                \A j \in DOMAIN sections[s].items : obj'[sections[s].items[j]].kind # "BLOCK"
         /\ cur.kind = "ENTITIES" =>
              \A j \in DOMAIN cur.items : obj'[cur.items[j]].kind # "BLOCK"
         /\ \A j \in DOMAIN cur.items : cur.items[j] # NewId
         /\ \A s \in DOMAIN sections : \A j \in DOMAIN sections[s].items :
              sections[s].items[j] # NewId
  <1>1. \A s \in DOMAIN sections : \A j \in DOMAIN sections[s].items :
          sections[s].items[j] \in Ids
    BY DEF LInv, IInv, SectionsSound, HoldsObjects
  <1>2. \A j \in DOMAIN cur.items : cur.items[j] \in Ids
    BY DEF LInv, IInv, CurSound, HoldsObjects
  <1>3. NewId \notin Ids
    BY TopsKnown DEF LInv
  <1>4. \A i \in Ids : obj'[i].kind = obj[i].kind
    BY DEF Created, Same
  <1> QED BY <1>1, <1>2, <1>3, <1>4 DEF LInv, Places, KindsSound, NoBlocks

LEMMA OnlyInsertsGrows ==
  ASSUME LInv, NEW o, Created(o), o.block # NULL => o.kind = "INSERT"
  PROVE  OnlyInserts'
  <1>1. Ids' = Ids \cup {NewId}
    BY DEF LInv, IInv, TypeOK, Created, Ids, NewId
  <1> QED BY <1>1 DEF LInv, OnlyInserts, Created, Same

LEMMA ReadBlockLife ==
  ASSUME LInv, NEW n \in Names, ReadBlock(n) PROVE LInv'
  <1> DEFINE o == Object("BLOCK", n, NULL)
  <1>1. /\ obj' = Append(obj, o) /\ refDict' = [refDict EXCEPT ![n] = NewId]
        /\ cur' = [cur EXCEPT !.block = NewId] /\ cur.block = NULL
        /\ cur.kind = "BLOCKS" /\ freed' = freed /\ sections' = sections
        /\ phase = "reading" /\ phase' = "reading"
    BY DEF ReadBlock
  <1>2. o \in ObjectType /\ o.kind = "BLOCK" /\ o.name = n /\ o.block = NULL
        /\ o.members = << >>
    BY ObjectTyped DEF Object, NULL
  <1> HIDE DEF o
  <1>3. Created(o)
    BY <1>1, <1>2, AppendCreates DEF LInv, IInv
  <1>4. cur'.items = cur.items /\ cur'.block = NewId /\ cur'.kind = cur.kind
    BY <1>1 DEF LInv, IInv, TypeOK
  <1>5. Items' = Items /\ Tops' = Tops \cup {NewId} /\ NewId # NULL
        /\ NewId \notin Ids /\ NewId \in Nat
    <2>1. NewId # NULL /\ NewId \notin Ids /\ NewId \in Nat
      BY DEF LInv, IInv, TypeOK, NewId, NULL, Ids
    <2> QED BY <1>1, <1>4, <2>1 DEF Items, Tops
  <1>6. OneParent' /\ Alive' /\ freed' \subseteq Ids'
    BY <1>1, <1>2, <1>3, <1>5, AppendMembers, TopGrows DEF LInv
  <1>7. OnceInSections' /\ OnceInCur'
    BY <1>1, <1>4, <1>5, TopsKnown DEF LInv, Places, OnceInSections, OnceInCur
  <1>8. KindsSound'
    BY <1>1, <1>3, <1>4, ListsKeepKinds DEF KindsSound, NoBlocks
  <1>9. DictFresh'
    <2>1. refDict' \in [Names -> Nat \cup {ABSENT}] /\ refDict'[n] = NewId
          /\ \A a \in Names : a # n => refDict'[a] = refDict[a]
      BY <1>1, <1>5 DEF LInv, IInv, TypeOK
    <2>2. NewId \notin freed /\ NewId > 0
      BY <1>5 DEF LInv, NULL
    <2>3. ASSUME NEW b \in Tops', obj'[b].kind = "BLOCK"
          PROVE  refDict'[obj'[b].name] > 0
      <3>1. CASE b = NewId
        BY <3>1, <1>2, <1>3, <2>1, <2>2 DEF Created, Same
      <3>2. CASE b \in Tops
        <4>1. b \in Ids /\ obj'[b].name = obj[b].name /\ obj[b].kind = "BLOCK"
          BY <3>2, <2>3, <1>3, TopsKnown DEF LInv, Created, Same
        <4>2. obj[b].name \in Names /\ refDict[obj[b].name] > 0
          BY <3>2, <4>1, <1>1 DEF LInv, IInv, Named, DictFresh
        <4> QED BY <4>1, <4>2, <2>1, <2>2
      <3> QED BY <1>5, <3>1, <3>2
    <2>4. \A a \in Names : refDict'[a] > 0 => refDict'[a] \notin freed
      BY <1>1, <2>1, <2>2 DEF LInv, DictFresh
    <2> QED BY <1>1, <2>3, <2>4 DEF DictFresh
  <1>10. Idle'
    BY <1>1, <1>4 DEF Idle
  <1>11. IInv'
    BY ReadBlockStep DEF LInv
  <1>12. OnlyInserts'
    BY <1>2, <1>3, OnlyInsertsGrows
  <1> QED BY <1>12, <1>6, <1>7, <1>8, <1>9, <1>10, <1>11 DEF LInv, Places

\* An entity that is read lies in the section or in the block being read.
LEMMA AttachLife ==
  ASSUME LInv, NEW o \in ObjectType, o.members = << >>, o.kind # "BLOCK",
         o.block # NULL => o.kind = "INSERT",
         o.block # NULL => o.block \notin freed,
         CanReadEntity, Attach(Append(obj, o), NewId),
         freed' = freed, sections' = sections, phase' = phase,
         \A a \in Names : refDict[a] > 0 \/ refDict'[a] > 0 => refDict'[a] = refDict[a]
  PROVE  Alive' /\ freed' \subseteq Ids' /\ OnlyInserts' /\ Places' /\ DictFresh' /\ Idle'
  <1>1. Created(o)
    BY AttachCreates DEF LInv
  <1>2. NewId \notin Ids /\ NewId \in Nat /\ NewId # NULL
        /\ Items \subseteq Ids /\ Range(cur.items) \subseteq Ids /\ NULL \notin Ids
    BY TopsKnown DEF LInv, IInv, TypeOK, NewId, NULL
  <1>3. /\ phase = "reading" /\ (cur.kind = "ENTITIES" \/ cur.block # NULL)
        /\ cur.items \in Seq(Nat)
        /\ cur \in [kind : SectionKinds \cup {"none"}, items : Seq(Nat), block : Nat]
    BY DEF CanReadEntity, LInv, IInv, TypeOK
  <1>4. \A b \in Tops : /\ b \in Ids
                        /\ obj'[b].kind = obj[b].kind /\ obj'[b].name = obj[b].name
                        /\ obj[b].kind = "BLOCK" => obj[b].name \in Names
                                                     /\ refDict[obj[b].name] > 0
    <2>1. Tops \subseteq Ids
      BY TopsKnown DEF LInv
    <2>2. \A b \in Ids : obj'[b].kind = obj[b].kind /\ obj'[b].name = obj[b].name
      BY <1>1 DEF Created, Same
    <2>3. \A b \in Ids : obj[b].kind = "BLOCK" => obj[b].name \in Names
      BY DEF LInv, IInv, Named
    <2>4. \A b \in Tops : obj[b].kind = "BLOCK" => refDict[obj[b].name] > 0
      BY <1>3 DEF LInv, DictFresh
    <2> QED BY <2>1, <2>2, <2>3, <2>4
  <1>5. Items' = Items
    BY DEF Items
  <1>6. ASSUME Tops' \subseteq Tops \cup {NewId} PROVE DictFresh'
    <2>1. \A b \in Tops' : obj'[b].kind = "BLOCK" => b \in Tops
      BY <1>1, <1>6 DEF Created, Same
    <2> QED BY <1>3, <1>4, <2>1 DEF DictFresh, LInv
  <1>o. OnlyInserts'
    BY <1>1, OnlyInsertsGrows
  <1>7. CASE cur.block = NULL
    <2> DEFINE items == Append(cur.items, NewId)
    <2>1. obj' = Append(obj, o) /\ cur' = [cur EXCEPT !.items = items]
      BY <1>7 DEF Attach
    <2>2. /\ DOMAIN items = DOMAIN cur.items \cup {Len(cur.items) + 1}
          /\ \A j \in DOMAIN cur.items : items[j] = cur.items[j]
          /\ items[Len(cur.items) + 1] = NewId
          /\ Range(items) = Range(cur.items) \cup {NewId}
      BY <1>2, <1>3, RangeAppend
    <2> HIDE DEF items
    <2>3. cur'.items = items /\ cur'.block = NULL /\ cur'.kind = cur.kind
      BY <1>3, <1>7, <2>1
    <2>4. Range(cur'.items) = Range(cur.items) \cup {NewId}
      BY <2>2, <2>3
    <2>5. Tops' = Tops \cup {NewId}
      BY <1>5, <1>7, <2>3, <2>4 DEF Tops
    <2>6. OneParent' /\ Alive' /\ freed' \subseteq Ids'
      <3>1. /\ \A b \in Ids : Range(obj'[b].members) = Members(b)
            /\ Range(obj'[NewId].members) = {}
        BY <2>1, AppendMembers DEF LInv
      <3> QED BY <1>1, <2>5, <3>1, TopGrows
    <2>7. OnceInSections' /\ OnceInCur'
      <3>1. \A j \in DOMAIN cur.items : cur.items[j] # NewId
        BY <1>1, ListsKeepKinds
      <3>2. \A i, j \in DOMAIN items : items[i] = items[j] => i = j
        BY <2>2, <3>1 DEF LInv, Places, OnceInCur
      <3>3. Range(items) \cap Items = {} /\ NULL \notin Range(items) \cup Items
        BY <1>2, <2>2 DEF LInv, Places, OnceInCur
      <3> QED BY <1>5, <2>3, <3>2, <3>3
              DEF LInv, Places, OnceInSections, OnceInCur
    <2>8. KindsSound'
      <3>1. obj'[NewId].kind # "BLOCK"
        BY <1>1 DEF Created, Same
      <3> QED BY <1>1, <2>2, <2>3, <3>1, ListsKeepKinds DEF KindsSound, NoBlocks
    <2>9. Idle'
      BY <1>3, <1>7, <2>3 DEF Idle
    <2> QED BY <1>o, <1>6, <2>5, <2>6, <2>7, <2>8, <2>9 DEF Places
  <1>8. CASE cur.block # NULL
    <2> DEFINE grown == Append(obj, o)
               m == Append(grown[cur.block].members, NewId)
    <2>1. cur' = cur /\ obj' = [grown EXCEPT ![cur.block].members = m]
      BY <1>8 DEF Attach
    <2>2. /\ cur.block \in Ids /\ obj \in Seq(ObjectType)
          /\ obj[cur.block] \in ObjectType
      BY <1>8 DEF LInv, IInv, TypeOK, CurSound, Ids
    <2>3. /\ \A b \in Ids : grown[b] = obj[b]
          /\ grown[NewId] = o
          /\ DOMAIN grown = Ids \cup {NewId}
      BY <2>2 DEF Ids, NewId
    <2>4. /\ Range(m) = Members(cur.block) \cup {NewId}
      <3>1. obj[cur.block].members \in Seq(Nat)
        BY <2>2 DEF ObjectType
      <3>2. m = Append(obj[cur.block].members, NewId)
        BY <2>2, <2>3
      <3> HIDE DEF m
      <3> QED BY <1>2, <3>1, <3>2, RangeAppend DEF Members
    <2> HIDE DEF grown, m
    <2>5. /\ \A b \in Ids : b # cur.block => obj'[b] = obj[b]
          /\ obj'[NewId] = o
          /\ obj'[cur.block].members = m
      BY <1>2, <2>1, <2>2, <2>3 DEF ObjectType
    <2>6. /\ \A b \in Ids : Range(obj'[b].members)
                             = IF b = cur.block THEN Members(b) \cup {NewId} ELSE Members(b)
          /\ Range(obj'[NewId].members) = {}
      <3>1. Range(<< >>) = {}
        BY DEF Range
      <3> QED BY <2>4, <2>5, <3>1 DEF Members
    <2>7. Tops' = Tops
      BY <1>5, <2>1 DEF Tops
    <2>8. OneParent' /\ Alive' /\ freed' \subseteq Ids'
      BY <1>1, <1>8, <2>2, <2>6, <2>7, MemberGrows
    <2>9. OnceInSections' /\ OnceInCur' /\ Idle'
      BY <1>5, <2>1 DEF LInv, Places, OnceInSections, OnceInCur, Idle
    <2>10. KindsSound'
      BY <1>1, <2>1, ListsKeepKinds DEF KindsSound, NoBlocks, LInv, Places
    <2> QED BY <1>o, <1>6, <2>7, <2>8, <2>9, <2>10 DEF Places
  <1> QED BY <1>7, <1>8

LEMMA ReadInsertLife ==
  ASSUME LInv, NEW n \in Names, ReadInsert(n) PROVE LInv'
  <1> DEFINE o == Object("INSERT", n, Resolve(refDict, n))
  <1>1. /\ Attach(Append(obj, o), NewId) /\ refDict' = Referenced(refDict, n)
        /\ freed' = freed /\ sections' = sections /\ phase' = phase
        /\ CanReadEntity /\ phase = "reading"
    BY DEF ReadInsert, CanReadEntity
  <1>2. o \in ObjectType /\ o.kind = "INSERT"
    BY InsertTyped DEF LInv
  <1>3. o.members = << >> /\ o.block = Resolve(refDict, n)
    BY DEF Object
  <1>4. o.block # NULL => o.block \notin freed
    BY <1>1, <1>3, FindTyped DEF Resolve, LInv, IInv, DictFresh
  <1>5. \A a \in Names : refDict[a] > 0 \/ refDict'[a] > 0 => refDict'[a] = refDict[a]
    <2>1. refDict \in [Names -> Nat \cup {ABSENT}]
      BY DEF LInv, IInv, TypeOK
    <2> QED BY <1>1, <2>1 DEF Referenced, ABSENT, NULL
  <1> HIDE DEF o
  <1>6. Alive' /\ freed' \subseteq Ids' /\ OnlyInserts' /\ Places' /\ DictFresh' /\ Idle'
    BY <1>1, <1>2, <1>3, <1>4, <1>5, AttachLife
  <1>7. IInv'
    BY ReadInsertStep DEF LInv
  <1> QED BY <1>6, <1>7 DEF LInv

LEMMA ReadPlainLife ==
  ASSUME LInv, ReadPlain PROVE LInv'
  <1> DEFINE o == Object("PLAIN", NoName, NULL)
  <1>1. /\ Attach(Append(obj, o), NewId) /\ refDict' = refDict
        /\ freed' = freed /\ sections' = sections /\ phase' = phase
        /\ CanReadEntity
    BY DEF ReadPlain
  <1>2. o \in ObjectType /\ o.kind = "PLAIN" /\ o.block = NULL /\ o.members = << >>
    BY ObjectTyped DEF Object, NULL
  <1> HIDE DEF o
  <1>3. Alive' /\ freed' \subseteq Ids' /\ OnlyInserts' /\ Places' /\ DictFresh' /\ Idle'
    BY <1>1, <1>2, AttachLife
  <1>4. IInv'
    BY ReadPlainStep DEF LInv
  <1> QED BY <1>3, <1>4 DEF LInv

\* A client puts a new object at the end of a section.
LEMMA AppendItemLife ==
  ASSUME LInv, NEW o \in ObjectType, o.members = << >>,
         o.block # NULL => o.block \notin freed /\ o.kind = "INSERT",
         NEW s \in DOMAIN sections, sections[s].kind = "ENTITIES" => o.kind # "BLOCK",
         phase = "ready", phase' = phase, cur' = cur, freed' = freed,
         obj' = Append(obj, o),
         sections' = [sections EXCEPT ![s].items = Append(@, NewId)]
  PROVE  Alive' /\ freed' \subseteq Ids' /\ OnlyInserts' /\ Places' /\ DictFresh' /\ Idle'
  <1> DEFINE items == Append(sections[s].items, NewId)
  <1>1. Created(o)
    BY AppendCreates DEF LInv, IInv
  <1>2. NewId \notin Ids /\ NewId \in Nat /\ Items \subseteq Ids /\ NULL \notin Ids
    BY TopsKnown DEF LInv
  <1>3. sections[s].items \in Seq(Nat)
    <2>1. sections[s] \in SectionType
      BY DEF LInv, IInv, TypeOK
    <2> QED BY <2>1 DEF SectionType
  <1>4. /\ items \in Seq(Nat)
        /\ DOMAIN items = DOMAIN sections[s].items \cup {Len(sections[s].items) + 1}
        /\ \A j \in DOMAIN sections[s].items : items[j] = sections[s].items[j]
        /\ items[Len(sections[s].items) + 1] = NewId
        /\ Len(sections[s].items) + 1 \notin DOMAIN sections[s].items
    BY <1>2, <1>3, RangeAppend
  <1>5. sections' = [sections EXCEPT ![s].items = items]
    OBVIOUS
  <1> HIDE DEF items
  <1>6. /\ DOMAIN sections' = DOMAIN sections
        /\ \A t \in DOMAIN sections :
             /\ sections'[t].kind = sections[t].kind
             /\ sections'[t].items = IF t = s THEN items ELSE sections[t].items
    BY <1>4, <1>5, NewItems DEF LInv
  <1>7. cur = NoSection /\ cur.items = << >> /\ cur.block = NULL /\ cur.kind = "none"
        /\ Range(cur.items) = {}
    BY DEF LInv, Idle, NoSection, Range
  <1>8. Items' = Items \cup {NewId}
    <2>1. \A x : x \in Items' <=> \E t \in DOMAIN sections' :
                                     \E j \in DOMAIN sections'[t].items :
                                       x = sections'[t].items[j]
      BY DEF Items, Range
    <2>2. ASSUME NEW x \in Items' PROVE x \in Items \cup {NewId}
      <3>1. PICK t \in DOMAIN sections : \E j \in DOMAIN sections'[t].items :
                x = sections'[t].items[j]
        BY <1>6, <2>1, <2>2
      <3>2. PICK j \in DOMAIN sections'[t].items : x = sections'[t].items[j]
        BY <3>1
      <3>3. x = NewId \/ (j \in DOMAIN sections[t].items /\ x = sections[t].items[j])
        BY <1>4, <1>6, <3>2
      <3> QED BY <3>3, ItemsAre
    <2>3. ASSUME NEW x \in Items PROVE x \in Items'
      <3>1. PICK t \in DOMAIN sections : \E j \in DOMAIN sections[t].items :
                x = sections[t].items[j]
        BY <2>3, ItemsAre
      <3>2. PICK j \in DOMAIN sections[t].items : x = sections[t].items[j]
        BY <3>1
      <3>3. j \in DOMAIN sections'[t].items /\ x = sections'[t].items[j]
        <4>1. CASE t = s
          <5>1. sections'[t].items = items
            BY <1>6, <4>1
          <5> QED BY <1>4, <3>2, <4>1, <5>1
        <4>2. CASE t # s
          <5>1. sections'[t].items = sections[t].items
            BY <1>6, <4>2
          <5> QED BY <3>2, <5>1
        <4> QED BY <4>1, <4>2
      <3> QED BY <1>6, <2>1, <3>3
    <2>4. NewId \in Items'
      <3>1. sections'[s].items = items
        BY <1>6
      <3> DEFINE last == Len(sections[s].items) + 1
      <3>2. last \in DOMAIN items /\ items[last] = NewId
        BY <1>4
      <3> HIDE DEF last
      <3>3. s \in DOMAIN sections' /\ last \in DOMAIN sections'[s].items
            /\ NewId = sections'[s].items[last]
        BY <1>6, <3>1, <3>2
      <3> QED BY <2>1, <3>3
    <2> QED BY <2>2, <2>3, <2>4
  <1>9. Tops' = Tops \cup {NewId}
    BY <1>7, <1>8 DEF Tops
  <1>10. OneParent' /\ Alive' /\ freed' \subseteq Ids'
    BY <1>1, <1>9, AppendMembers, TopGrows DEF LInv
  <1>11. OnceInSections'
    <2>1. \A t \in DOMAIN sections : \A j \in DOMAIN sections[t].items :
            sections[t].items[j] # NewId
      BY <1>1, ListsKeepKinds
    <2> SUFFICES ASSUME NEW t \in DOMAIN sections, NEW u \in DOMAIN sections,
                        NEW i \in DOMAIN sections'[t].items,
                        NEW j \in DOMAIN sections'[u].items,
                        sections'[t].items[i] = sections'[u].items[j]
                 PROVE  t = u /\ i = j
      BY <1>6 DEF OnceInSections
    <2>2. /\ \/ i \in DOMAIN sections[t].items /\ sections'[t].items[i] = sections[t].items[i]
             \/ t = s /\ i = Len(sections[s].items) + 1 /\ sections'[t].items[i] = NewId
          /\ \/ j \in DOMAIN sections[u].items /\ sections'[u].items[j] = sections[u].items[j]
             \/ u = s /\ j = Len(sections[s].items) + 1 /\ sections'[u].items[j] = NewId
      BY <1>4, <1>6
    <2> QED BY <2>1, <2>2 DEF LInv, Places, OnceInSections
  <1>12. OnceInCur'
    <2>1. cur'.items = << >> /\ cur'.block = NULL /\ Range(cur'.items) = {}
      BY <1>7 DEF Range
    <2>2. NULL \notin Items'
      BY <1>2, <1>8 DEF LInv, IInv, TypeOK, NewId, NULL
    <2> QED BY <2>1, <2>2 DEF OnceInCur
  <1>13. KindsSound'
    <2>1. obj'[NewId].kind = o.kind
      BY <1>1 DEF Created, Same
    <2>2. ASSUME NEW t \in DOMAIN sections, sections[t].kind = "ENTITIES",
                 NEW j \in DOMAIN sections'[t].items
          PROVE  obj'[sections'[t].items[j]].kind # "BLOCK"
      <3>1. \A k \in DOMAIN sections[t].items : obj'[sections[t].items[k]].kind # "BLOCK"
        BY <1>1, <2>2, ListsKeepKinds
      <3>2. CASE t = s /\ sections'[t].items[j] = NewId
        BY <2>1, <2>2, <3>2
      <3>3. CASE j \in DOMAIN sections[t].items
                   /\ sections'[t].items[j] = sections[t].items[j]
        BY <3>1, <3>3
      <3>4. \/ t = s /\ sections'[t].items[j] = NewId
            \/ j \in DOMAIN sections[t].items
                   /\ sections'[t].items[j] = sections[t].items[j]
        BY <1>4, <1>6
      <3> QED BY <3>2, <3>3, <3>4
    <2>3. cur'.kind = "none" /\ cur'.block = NULL
      BY <1>7
    <2>4. \A t \in DOMAIN sections' : sections'[t].kind = "ENTITIES" =>
            \A j \in DOMAIN sections'[t].items : obj'[sections'[t].items[j]].kind # "BLOCK"
      <3> SUFFICES ASSUME NEW t \in DOMAIN sections', sections'[t].kind = "ENTITIES",
                          NEW j \in DOMAIN sections'[t].items
                   PROVE  obj'[sections'[t].items[j]].kind # "BLOCK"
        OBVIOUS
      <3>1. t \in DOMAIN sections /\ sections[t].kind = "ENTITIES"
        BY <1>6
      <3> QED BY <2>2, <3>1
    <2> QED BY <2>3, <2>4 DEF KindsSound, NoBlocks
  <1>14. DictFresh' /\ Idle'
    BY <1>7 DEF DictFresh, Idle
  <1>15. OnlyInserts'
    BY <1>1, OnlyInsertsGrows
  <1> QED BY <1>15, <1>10, <1>11, <1>12, <1>13, <1>14 DEF Places

LEMMA InsertBlockLife ==
  ASSUME LInv, NEW n \in Names, InsertBlock(n) PROVE LInv'
  <1> DEFINE o == Object("BLOCK", n, NULL)
  <1>1. /\ phase = "ready" /\ BlocksAt # 0 /\ obj' = Append(obj, o)
        /\ sections' = [sections EXCEPT ![BlocksAt].items = Append(@, NewId)]
        /\ freed' = freed /\ cur' = cur /\ phase' = phase
    BY DEF InsertBlock
  <1>2. o \in ObjectType /\ o.block = NULL /\ o.members = << >>
    BY ObjectTyped DEF Object, NULL
  <1> HIDE DEF o
  <1>3. BlocksAt \in DOMAIN sections /\ sections[BlocksAt].kind = "BLOCKS"
    BY <1>1, FindSectionIndex DEF BlocksAt
  <1>4. Alive' /\ freed' \subseteq Ids' /\ OnlyInserts' /\ Places' /\ DictFresh' /\ Idle'
    BY <1>1, <1>2, <1>3, AppendItemLife
  <1>5. IInv'
    BY InsertBlockStep DEF LInv
  <1> QED BY <1>4, <1>5 DEF LInv

LEMMA InsertInsertLife ==
  ASSUME LInv, NEW b \in Range(ItemsOf(sections, "BLOCKS")), InsertInsert(b)
  PROVE  LInv'
  <1> DEFINE o == Object("INSERT", obj[b].name, b)
  <1>1. /\ phase = "ready" /\ EntitiesAt # 0 /\ obj' = Append(obj, o)
        /\ sections' = [sections EXCEPT ![EntitiesAt].items = Append(@, NewId)]
        /\ freed' = freed /\ cur' = cur /\ phase' = phase
    BY DEF InsertInsert
  <1>2. b \in Nat /\ obj[b].name \in Names
    BY BlockItemKnown DEF LInv, Ids
  <1>3. o \in ObjectType /\ o.kind = "INSERT" /\ o.block = b /\ o.members = << >>
    BY <1>2, ObjectTyped DEF Object
  <1> HIDE DEF o
  <1>4. b \notin freed
    <2>1. b \in Items
      BY FindSectionIndex DEF Items, ItemsOf, Range
    <2>2. b \in Held
      BY <2>1, HeldAre DEF Tops
    <2> QED BY <2>2 DEF LInv, Alive
  <1>5. EntitiesAt \in DOMAIN sections
    BY <1>1, FindSectionIndex DEF EntitiesAt
  <1>6. Alive' /\ freed' \subseteq Ids' /\ OnlyInserts' /\ Places' /\ DictFresh' /\ Idle'
    BY <1>1, <1>3, <1>4, <1>5, AppendItemLife
  <1>7. IInv'
    BY InsertInsertStep DEF LInv
  <1> QED BY <1>6, <1>7 DEF LInv
-----------------------------------------------------------------------------
(* Steps that give something back.                                         *)

\* An item leaves its section, and has no place any more.
LEMMA ItemLeaves ==
  ASSUME LInv, phase = "ready", obj' = obj, cur' = cur, phase' = phase,
         NEW s \in DOMAIN sections, NEW i \in DOMAIN sections[s].items,
         sections' = [sections EXCEPT ![s].items = RemoveAt(@, i)]
  PROVE  /\ OnceInSections' /\ OnceInCur' /\ KindsSound' /\ DictFresh' /\ Idle'
         /\ Tops = Items /\ Tops' = Items' /\ Items' \subseteq Items
         /\ sections[s].items[i] \in Ids
         /\ sections[s].items[i] \in Items /\ sections[s].items[i] \notin Items'
  <1> DEFINE items == RemoveAt(sections[s].items, i)
             old(j) == IF j < i THEN j ELSE j + 1
  <1>1. sections[s].items \in Seq(Nat)
    <2>1. sections[s] \in SectionType
      BY DEF LInv, IInv, TypeOK
    <2> QED BY <2>1 DEF SectionType
  <1>2. /\ items \in Seq(Nat)
        /\ \A j \in DOMAIN items :
             /\ old(j) \in DOMAIN sections[s].items /\ old(j) # i
             /\ items[j] = sections[s].items[old(j)]
        /\ \A j, k \in DOMAIN items : old(j) = old(k) => j = k
    <2>1. /\ DOMAIN sections[s].items = 1 .. Len(sections[s].items)
          /\ Len(sections[s].items) \in Nat /\ i \in 1 .. Len(sections[s].items)
      BY <1>1
    <2>2. /\ items \in Seq(Nat) /\ DOMAIN items = 1 .. Len(sections[s].items) - 1
          /\ \A j \in 1 .. Len(sections[s].items) - 1 :
               items[j] = sections[s].items[old(j)]
      BY <1>1, <2>1, RemoveAtShifts
    <2>3. \A j \in 1 .. Len(sections[s].items) - 1 :
            old(j) \in 1 .. Len(sections[s].items) /\ old(j) # i
      BY <2>1
    <2>4. \A j, k \in 1 .. Len(sections[s].items) - 1 : old(j) = old(k) => j = k
      BY <2>1
    <2> QED BY <2>2, <2>1, <2>3, <2>4
  <1>3. sections' = [sections EXCEPT ![s].items = items]
    OBVIOUS
  <1> HIDE DEF items, old
  <1>4. /\ DOMAIN sections' = DOMAIN sections
        /\ \A t \in DOMAIN sections :
             /\ sections'[t].kind = sections[t].kind
             /\ sections'[t].items = IF t = s THEN items ELSE sections[t].items
    BY <1>2, <1>3, NewItems DEF LInv
  \* where an item that stays has been
  <1> DEFINE was(t, j) == IF t = s THEN old(j) ELSE j
  <1>5. ASSUME NEW t \in DOMAIN sections, NEW j \in DOMAIN sections'[t].items
        PROVE  /\ was(t, j) \in DOMAIN sections[t].items
               /\ sections'[t].items[j] = sections[t].items[was(t, j)]
               /\ t = s => was(t, j) # i
    BY <1>2, <1>4, <1>5
  <1>6. ASSUME NEW t \in DOMAIN sections, NEW j \in DOMAIN sections'[t].items,
               NEW k \in DOMAIN sections'[t].items, was(t, j) = was(t, k)
        PROVE  j = k
    BY <1>2, <1>4, <1>6
  <1> HIDE DEF was
  <1>7. OnceInSections'
    <2> SUFFICES ASSUME NEW t \in DOMAIN sections, NEW u \in DOMAIN sections,
                        NEW j \in DOMAIN sections'[t].items,
                        NEW k \in DOMAIN sections'[u].items,
                        sections'[t].items[j] = sections'[u].items[k]
                 PROVE  t = u /\ j = k
      BY <1>4 DEF OnceInSections
    <2>1. sections[t].items[was(t, j)] = sections[u].items[was(u, k)]
      BY <1>5
    <2>2. t = u /\ was(t, j) = was(u, k)
      BY <1>5, <2>1 DEF LInv, Places, OnceInSections
    <2> QED BY <1>6, <2>2
  <1>8. \A x : x \in Items' <=> \E t \in DOMAIN sections' :
                                  \E j \in DOMAIN sections'[t].items : x = sections'[t].items[j]
    BY DEF Items, Range
  <1>9. ASSUME NEW x \in Items' PROVE x \in Items /\ x # sections[s].items[i]
    <2>1. PICK t \in DOMAIN sections : \E j \in DOMAIN sections'[t].items :
                                         x = sections'[t].items[j]
      BY <1>4, <1>8
    <2>2. PICK j \in DOMAIN sections'[t].items : x = sections'[t].items[j]
      BY <2>1
    <2>3. /\ was(t, j) \in DOMAIN sections[t].items /\ x = sections[t].items[was(t, j)]
          /\ t = s => was(t, j) # i
      BY <1>5, <2>2
    <2> QED BY <2>3, ItemsAre DEF LInv, Places, OnceInSections
  <1>10. /\ sections[s].items[i] \in Items /\ sections[s].items[i] \notin Items'
         /\ Items' \subseteq Items /\ sections[s].items[i] \in Ids
    BY <1>9, ItemsAre, TopsKnown DEF LInv
  <1>11. /\ cur.items = << >> /\ cur.block = NULL /\ cur.kind = "none"
         /\ Range(cur.items) = {} /\ Range(cur'.items) = {}
    BY DEF LInv, Idle, NoSection, Range
  <1>12. Tops = Items /\ Tops' = Items'
    BY <1>11 DEF Tops
  <1>13. OnceInCur'
    <2>1. NULL \notin Items'
      BY <1>10, TopsKnown DEF LInv
    <2> QED BY <1>11, <2>1 DEF OnceInCur
  <1>14. KindsSound'
    <2>1. ASSUME NEW t \in DOMAIN sections, sections[t].kind = "ENTITIES",
                 NEW j \in DOMAIN sections'[t].items
          PROVE  obj[sections'[t].items[j]].kind # "BLOCK"
      BY <1>5, <2>1 DEF LInv, Places, KindsSound, NoBlocks
    <2> QED BY <1>4, <1>11, <2>1 DEF KindsSound, NoBlocks
  <1>15. DictFresh' /\ Idle'
    BY DEF DictFresh, Idle, LInv
  <1> QED BY <1>7, <1>10, <1>12, <1>13, <1>14, <1>15

\* What an object shows is a block.
LEMMA ShownIsBlock ==
  ASSUME LInv, NEW e \in Ids, obj[e].block # NULL
  PROVE  obj[obj[e].block].kind = "BLOCK"
  BY DEF LInv, OnlyInserts, IInv, BindingsSound

LEMMA RemoveEntityLife ==
  ASSUME LInv, NEW i \in DOMAIN ItemsOf(sections, "ENTITIES"), RemoveEntity(i)
  PROVE  LInv'
  <1> DEFINE x == sections[EntitiesAt].items[i]
  <1>1. /\ EntitiesAt \in DOMAIN sections /\ sections[EntitiesAt].kind = "ENTITIES"
        /\ i \in DOMAIN sections[EntitiesAt].items
    BY FindSectionIndex DEF EntitiesAt, ItemsOf
  <1>2. /\ phase = "ready" /\ obj' = obj /\ cur' = cur /\ phase' = phase
        /\ sections' = [sections EXCEPT ![EntitiesAt].items = RemoveAt(@, i)]
        /\ freed' \subseteq freed \cup {x}
    BY DEF RemoveEntity, Delete
  <1>3. /\ OnceInSections' /\ OnceInCur' /\ KindsSound' /\ DictFresh' /\ Idle'
        /\ Tops = Items /\ Tops' = Items' /\ Items' \subseteq Items
        /\ x \in Ids /\ x \in Items /\ x \notin Items'
    BY <1>1, <1>2, ItemLeaves
  <1>4. obj[x].kind # "BLOCK"
    BY <1>1 DEF LInv, Places, KindsSound, NoBlocks
  <1> HIDE DEF x
  <1>5. ASSUME NEW e \in Held' PROVE e # x /\ obj[e].block # x
    <2>1. e \in Items' \/ \E b \in Items' : e \in Members(b)
      BY <1>2, <1>3 DEF Held, Within, Members
    <2>2. e # x /\ e \in Ids
      BY <1>3, <2>1, TopsKnown DEF LInv, Places, OneParent
    <2>3. obj[e].block # x
      BY <1>3, <1>4, <2>2, ShownIsBlock, TopsKnown DEF LInv
    <2> QED BY <2>2, <2>3
  <1>6. OneParent' /\ Alive' /\ freed' \subseteq Ids'
    <2>1. freed' \subseteq Ids /\ Tops' \subseteq Tops
      BY <1>2, <1>3 DEF LInv
    <2>2. \A e \in Held' : e \notin freed' \ freed /\ obj[e].block \notin freed' \ freed
      BY <1>2, <1>5
    <2> QED BY <1>2, <2>1, <2>2, Shrinks
  <1>7. IInv'
    BY RemoveEntityStep DEF LInv
  <1>8. OnlyInserts'
    BY <1>2 DEF LInv, OnlyInserts, Ids
  <1> QED BY <1>3, <1>6, <1>7, <1>8 DEF LInv, Places

LEMMA RemoveBlockLife ==
  ASSUME LInv, NEW i \in DOMAIN ItemsOf(sections, "BLOCKS"), RemoveBlock(i)
  PROVE  LInv'
  <1> DEFINE b == sections[BlocksAt].items[i]
             gone == {b} \cup Members(b)
  <1>1. /\ BlocksAt \in DOMAIN sections /\ sections[BlocksAt].kind = "BLOCKS"
        /\ i \in DOMAIN sections[BlocksAt].items
    BY FindSectionIndex DEF BlocksAt, ItemsOf
  <1>2. /\ phase = "ready" /\ obj' = obj /\ cur' = cur /\ phase' = phase
        /\ sections' = [sections EXCEPT ![BlocksAt].items = RemoveAt(@, i)]
        /\ freed' \subseteq freed \cup gone
        /\ \A e \in Entities \ gone : obj[e].block # b
    BY DEF RemoveBlock, Delete, Members
  <1>3. /\ OnceInSections' /\ OnceInCur' /\ KindsSound' /\ DictFresh' /\ Idle'
        /\ Tops = Items /\ Tops' = Items' /\ Items' \subseteq Items
        /\ b \in Ids /\ b \in Items /\ b \notin Items'
    BY <1>1, <1>2, ItemLeaves
  <1>4. \A m \in Members(b) : m \in Ids /\ obj[m].kind # "BLOCK" /\ m \notin Items
    BY <1>3 DEF LInv, Places, OneParent
  <1> HIDE DEF b
  <1>5. ASSUME NEW e \in Held' PROVE e \notin gone /\ obj[e].block \notin gone
    <2>1. e \in Items' \/ \E c \in Items' : e \in Members(c)
      BY <1>2, <1>3 DEF Held, Within, Members
    <2>2. e \notin gone /\ e \in Ids /\ e \in Entities
      <3>1. CASE e \in Items'
        BY <1>3, <1>4, <3>1, TopsKnown DEF LInv, Entities, Within
      <3>2. ASSUME NEW c \in Items', e \in Members(c) PROVE e \notin gone /\ e \in Ids /\ e \in Entities
        <4>1. c \in Ids /\ c # b /\ c \in Items
          BY <1>3, TopsKnown DEF LInv
        <4>2. e \notin Members(b) /\ e \in Ids /\ e \notin Items
          BY <1>3, <3>2, <4>1 DEF LInv, Places, OneParent
        <4>3. e \in Entities
          BY <3>2, <4>1 DEF Entities, Within, Members
        <4> QED BY <1>3, <4>2, <4>3
      <3> QED BY <2>1, <3>1, <3>2
    <2>3. obj[e].block # b
      BY <1>2, <2>2
    <2>4. obj[e].block \notin Members(b)
      <3>1. NULL \notin Members(b)
        BY <1>4, TopsKnown DEF LInv
      <3> QED BY <1>4, <2>2, <3>1, ShownIsBlock
    <2> QED BY <2>2, <2>3, <2>4
  <1>6. OneParent' /\ Alive' /\ freed' \subseteq Ids'
    <2>1. freed' \subseteq Ids /\ Tops' \subseteq Tops
      BY <1>2, <1>3, <1>4 DEF LInv
    <2>2. \A e \in Held' : e \notin freed' \ freed /\ obj[e].block \notin freed' \ freed
      BY <1>2, <1>5
    <2> QED BY <1>2, <2>1, <2>2, Shrinks
  <1>7. IInv'
    BY RemoveBlockStep DEF LInv
  <1>8. OnlyInserts'
    BY <1>2 DEF LInv, OnlyInserts, Ids
  <1> QED BY <1>3, <1>6, <1>7, <1>8 DEF LInv, Places
-----------------------------------------------------------------------------
(* The theorems.                                                           *)

LEMMA InitLife == Init => LInv
  <1> SUFFICES ASSUME Init PROVE LInv
    OBVIOUS
  <1>1. /\ obj = << >> /\ freed = {} /\ sections = << >> /\ cur.items = << >>
        /\ cur.block = NULL /\ cur = NoSection /\ refDict = [n \in Names |-> ABSENT]
    BY DEF Init, NoReferences, NoSection
  <1>2. Items = {} /\ Range(cur.items) = {} /\ Tops = {} /\ Held = {} /\ Ids = {}
    BY <1>1 DEF Items, Tops, Range, Held, Within, Ids
  <1>3. OnceInSections /\ OnceInCur /\ OneParent
    BY <1>1, <1>2 DEF OnceInSections, OnceInCur, OneParent
  <1>4. KindsSound
    BY <1>1 DEF KindsSound, NoBlocks, NoSection
  <1>5. OnlyInserts /\ Alive /\ DictFresh /\ Idle /\ freed \subseteq Ids
    BY <1>1, <1>2 DEF OnlyInserts, Alive, DictFresh, Idle, ABSENT
  <1> QED BY <1>3, <1>4, <1>5, InitSound DEF LInv, Places

LEMMA NextLife == LInv /\ [Next]_vars => LInv'
  <1> SUFFICES ASSUME LInv, [Next]_vars PROVE LInv'
    OBVIOUS
  <1>1. CASE Read
    BY <1>1, BeginSectionLife, ReadBlockLife, ReadInsertLife, ReadPlainLife,
       EndBlockLife, EndSectionLife, EndOfFileLife, ReadFailsLife, ReadAgainLife
    DEF Read
  <1>2. CASE Edit
    BY <1>2, InsertBlockLife, InsertInsertLife, RemoveEntityLife, RemoveBlockLife
    DEF Edit
  <1>3. CASE UNCHANGED vars
    <2>1. IInv'
      BY <1>3, NextSound DEF LInv
    <2>2. Items' = Items /\ Tops' = Tops /\ Held' = Held /\ Ids' = Ids
      BY <1>3 DEF vars, Items, Tops, Held, Within, Ids
    <2>3. OnceInSections' /\ OnceInCur' /\ KindsSound'
      BY <1>3, <2>2 DEF vars, LInv, Places, OnceInSections, OnceInCur, KindsSound, NoBlocks
    <2>4. OneParent' /\ OnlyInserts' /\ Alive' /\ DictFresh' /\ Idle' /\ freed' \subseteq Ids'
      BY <1>3, <2>2 DEF vars, LInv, Places, OneParent, Members, OnlyInserts, Alive,
                        DictFresh, Idle
    <2> QED BY <2>1, <2>3, <2>4 DEF LInv, Places
  <1> QED BY <1>1, <1>2, <1>3 DEF Next

\* The invariant holds in every state: an object has one place, what the model
\* has or shows has not been given back, and the dictionary is that of the file.
THEOREM LifeInvariant == Spec => []LInv
  BY InitLife, NextLife, PTL DEF Spec

\* No entity of the model, and no block that one of its INSERTs shows, has been
\* given back, by removeBlock(), removeEntity() or a read into the same model.
THEOREM NothingDangles == Spec => []NoDanglingInsert
  <1>1. LInv => NoDanglingInsert
    BY EntitiesHeld DEF LInv, Alive, NoDanglingInsert
  <1> QED BY <1>1, LifeInvariant, PTL

\* At the end of the file fixReferences() has bound what can be bound.
LEMMA StepResolves ==
  ASSUME LInv, Next, phase = "reading", phase' = "ready"
  PROVE  \A i \in Visited(obj', sections') :
           (obj'[i].kind = "INSERT" /\ obj'[i].block = NULL)
             => \A b \in Items : obj[b].kind = "BLOCK" => obj[b].name # obj'[i].name
  <1>1. EndOfFile
    BY DEF Next, Read, Edit, BeginSection, ReadBlock, ReadInsert, ReadPlain,
           EndBlock, EndSection, ReadFails, ReadAgain, InsertBlock, InsertInsert,
           RemoveEntity, RemoveBlock
  <1>2. obj' = FixReferences(obj, sections, refDict) /\ sections' = sections
    BY <1>1 DEF EndOfFile
  <1>3. /\ Ids' = Ids
        /\ \A i \in Ids :
             /\ obj'[i].kind = obj[i].kind /\ obj'[i].name = obj[i].name
             /\ obj'[i].members = obj[i].members
             /\ \/ obj'[i].block = obj[i].block
                \/ /\ obj[i].kind = "INSERT" /\ obj[i].name \in Names
                   /\ obj'[i].block = Find(refDict, obj[i].name)
    BY <1>2, FixReferencesChanges DEF LInv
  <1> DEFINE tops == Range(ItemsOf(sections, "BLOCKS")) \cup Range(ItemsOf(sections, "ENTITIES"))
  <1>4. tops \subseteq Items /\ Items \subseteq Tops /\ Tops \subseteq Ids
    <2>1. Range(<< >>) = {}
      BY DEF Range
    <2>2. \A kind : Range(ItemsOf(sections, kind)) \subseteq Items
      BY <2>1, FindSectionIndex DEF ItemsOf, Items
    <2> QED BY <2>2, TopsKnown DEF LInv, Tops
  <1>5. Visited(obj', sections') = Visited(obj, sections)
    <2>1. \A b \in tops : Range(obj'[b].members) = Range(obj[b].members)
      BY <1>3, <1>4
    <2> QED BY <1>2, <2>1 DEF Visited, Within
  <1>6. Visited(obj, sections) \subseteq Ids
    <2>1. Visited(obj, sections) \subseteq Held
      BY <1>4 DEF Visited, Within, Held
    <2> QED BY <2>1, HeldKnown
  <1> SUFFICES ASSUME NEW i \in Visited(obj, sections),
                      obj'[i].kind = "INSERT", obj'[i].block = NULL,
                      NEW b \in Items, obj[b].kind = "BLOCK",
                      obj[b].name = obj'[i].name
               PROVE  FALSE
    BY <1>5
  <1>7. i \in Ids /\ obj[i].kind = "INSERT" /\ obj[i].name = obj[b].name
    BY <1>3, <1>6
  <1>8. obj[i].name \in Names /\ refDict[obj[i].name] > 0
    <2>1. b \in Tops /\ b \in Ids
      BY <1>4
    <2> QED BY <1>7, <2>1 DEF LInv, IInv, Named, DictFresh
  <1>9. Find(refDict, obj[i].name) # NULL
    BY <1>8 DEF Find, ABSENT, NULL, LInv, IInv, TypeOK
  <1>10. CASE obj[i].block # NULL
    <2>1. DOMAIN obj = Ids
      BY DEF LInv, IInv, TypeOK, Ids
    <2>2. obj'[i] = obj[i]
      BY <1>2, <1>7, <1>10, <2>1 DEF FixReferences
    <2> QED BY <1>10, <2>2
  <1>11. CASE obj[i].block = NULL
    <2>1. DOMAIN obj = Ids /\ obj[i] \in ObjectType
      BY <1>7 DEF LInv, IInv, TypeOK, Ids
    <2>2. obj'[i] = [obj[i] EXCEPT !.block = Find(refDict, obj[i].name)]
      BY <1>2, <1>7, <1>11, <2>1 DEF FixReferences
    <2>3. obj'[i].block = Find(refDict, obj[i].name)
      BY <2>1, <2>2 DEF ObjectType
    <2> QED BY <1>9, <2>3
  <1> QED BY <1>10, <1>11

\* read() that returns true has bound every INSERT it visits whose block is
\* in the file, in whatever order the file has them.
THEOREM ReferencesResolved == Spec => ForwardRefsResolved
  <1> DEFINE Resolved ==
        (phase = "reading" /\ phase' = "ready") =>
          \A i \in Visited(obj', sections') :
            (obj'[i].kind = "INSERT" /\ obj'[i].block = NULL)
              => \A b \in Items :
                   obj[b].kind = "BLOCK" => obj[b].name # obj'[i].name
  <1>1. LInv /\ [Next]_vars => [Resolved]_vars
    BY StepResolves
  <1>2. ForwardRefsResolved <=> [][Resolved]_vars
    BY DEF ForwardRefsResolved
  <1> QED BY <1>1, <1>2, LifeInvariant, PTL DEF Spec
-----------------------------------------------------------------------------
(* What an object is made of.                                              *)

\* Only a BLOCK has members, each once, and a PLAIN entity has no name.
Shaped(o) == /\ o.kind # "BLOCK" => o.members = << >>
             /\ \A i, j \in DOMAIN o.members : o.members[i] = o.members[j] => i = j
             /\ o.kind = "PLAIN" => o.name = NoName
Shapes == \A i \in Ids : Shaped(obj[i])

LEMMA ObjectShaped ==
  ASSUME NEW kind, NEW name, NEW block, kind = "PLAIN" => name = NoName
  PROVE  Shaped(Object(kind, name, block))
  BY DEF Object, Shaped

LEMMA AppendShaped ==
  ASSUME TypeOK, Shapes, NEW o \in ObjectType, Shaped(o)
  PROVE  \A i \in 1 .. Len(Append(obj, o)) : Shaped(Append(obj, o)[i])
  <1>1. Len(obj) \in Nat /\ Len(Append(obj, o)) = Len(obj) + 1
        /\ Append(obj, o)[Len(obj) + 1] = o
        /\ \A i \in 1 .. Len(obj) : Append(obj, o)[i] = obj[i]
    BY DEF TypeOK
  <1> QED BY <1>1 DEF Shapes, Ids

LEMMA AttachShaped ==
  ASSUME LInv, Shapes, NEW o \in ObjectType, Shaped(o), Attach(Append(obj, o), NewId)
  PROVE  Shapes'
  <1>0. IInv
    BY DEF LInv
  <1> DEFINE grown == Append(obj, o)
  <1>1. \A i \in 1 .. Len(grown) : Shaped(grown[i])
    BY <1>0, AppendShaped DEF IInv
  <1>2. grown \in Seq(ObjectType) /\ Len(grown) = Len(obj) + 1
        /\ \A i \in Ids : grown[i] = obj[i]
    BY <1>0 DEF IInv, TypeOK, Ids
  <1> HIDE DEF grown
  <1>3. CASE cur.block = NULL
    BY <1>1, <1>3 DEF Attach, grown, Shapes, Ids
  <1>4. CASE cur.block # NULL
    <2>1. cur.block \in Ids /\ obj[cur.block].kind = "BLOCK"
          /\ cur.block \in 1 .. Len(grown)
      BY <1>0, <1>2, <1>4 DEF IInv, CurSound, TypeOK, Ids
    <2>2. obj' = [grown EXCEPT ![cur.block].members = Append(@, NewId)]
      BY <1>4 DEF Attach, grown
    <2>3. grown[cur.block] \in ObjectType /\ grown[cur.block].kind = "BLOCK"
      BY <1>2, <2>1
    <2>4. Len(obj') = Len(grown)
          /\ \A i \in 1 .. Len(grown) : i # cur.block => obj'[i] = grown[i]
      BY <1>2, <2>2
    <2> DEFINE m == grown[cur.block].members
    <2>5. obj'[cur.block].kind = "BLOCK" /\ obj'[cur.block].members = Append(m, NewId)
      BY <1>2, <2>1, <2>2, <2>3 DEF ObjectType
    <2>a. m \in Seq(Nat) /\ NewId \notin Range(m) /\ NewId \in Nat
      <3>1. m = obj[cur.block].members
        BY <1>2, <2>1
      <3>2. Range(obj[cur.block].members) \subseteq Ids
        BY <2>1 DEF LInv, Places, OneParent, Members
      <3> QED BY <1>0, <2>3, <3>1, <3>2, TopsKnown DEF ObjectType
    <2>b. \A i, j \in DOMAIN m : m[i] = m[j] => i = j
      BY <1>1, <2>1 DEF Shaped
    <2> HIDE DEF m
    <2> DEFINE more == Append(m, NewId)
    <2>c. /\ DOMAIN more = DOMAIN m \cup {Len(m) + 1}
          /\ \A j \in DOMAIN m : more[j] = m[j] /\ m[j] # NewId
          /\ more[Len(m) + 1] = NewId
      BY <2>a, RangeAppend DEF Range
    <2> HIDE DEF more
    <2>d. \A i, j \in DOMAIN more : more[i] = more[j] => i = j
      BY <2>b, <2>c
    <2>e. obj'[cur.block].members = more
      BY <2>5 DEF more
    <2>6. \A i \in 1 .. Len(grown) : Shaped(obj'[i])
      BY <1>1, <2>4, <2>5, <2>d, <2>e DEF Shaped
    <2> QED BY <2>4, <2>6 DEF Shapes, Ids
  <1> QED BY <1>3, <1>4

LEMMA NextShapes == LInv /\ Shapes /\ [Next]_vars => Shapes'
  <1> SUFFICES ASSUME LInv, Shapes, [Next]_vars PROVE Shapes'
    OBVIOUS
  <1>0. IInv
    BY DEF LInv
  <1>1. CASE obj' = obj
    BY <1>1 DEF Shapes, Ids
  <1>2. ASSUME NEW o \in ObjectType, Shaped(o), obj' = Append(obj, o) PROVE Shapes'
    BY <1>0, <1>2, AppendShaped DEF Shapes, Ids, IInv
  <1>3. ASSUME NEW n \in Names, ReadBlock(n) \/ InsertBlock(n) PROVE Shapes'
    <2>1. Object("BLOCK", n, NULL) \in ObjectType
      BY ObjectTyped DEF NULL
    <2> QED BY <1>2, <1>3, <2>1, ObjectShaped DEF ReadBlock, InsertBlock
  <1>4. ASSUME NEW n \in Names, ReadInsert(n) PROVE Shapes'
    BY <1>0, <1>4, InsertTyped, ObjectShaped, AttachShaped DEF ReadInsert
  <1>5. CASE ReadPlain
    <2>1. Object("PLAIN", NoName, NULL) \in ObjectType
      BY ObjectTyped DEF NULL
    <2> QED BY <1>5, <2>1, ObjectShaped, AttachShaped DEF ReadPlain
  <1>6. CASE EndOfFile
    BY <1>0, <1>6, FixReferencesChanges DEF EndOfFile, Shapes, Shaped
  <1>7. ASSUME NEW b \in Range(ItemsOf(sections, "BLOCKS")), InsertInsert(b)
        PROVE  Shapes'
    <2>1. Object("INSERT", obj[b].name, b) \in ObjectType
      BY <1>0, BlockItemKnown, ObjectTyped DEF Ids
    <2> QED BY <1>2, <1>7, <2>1, ObjectShaped DEF InsertInsert
  <1>8. \/ obj' = obj \/ ReadPlain \/ EndOfFile
        \/ \E n \in Names : ReadBlock(n) \/ ReadInsert(n) \/ InsertBlock(n)
        \/ \E b \in Range(ItemsOf(sections, "BLOCKS")) : InsertInsert(b)
    BY DEF Next, Read, Edit, BeginSection, EndBlock, EndSection, ReadFails,
           ReadAgain, RemoveEntity, RemoveBlock, vars
  <1> QED BY <1>1, <1>3, <1>4, <1>5, <1>6, <1>7, <1>8
-----------------------------------------------------------------------------
(* A copy: its objects stand for originals, each for one.                  *)

Copies ==
  [obj : Seq(ObjectType), of : Seq(Nat), dict : [Names -> Nat \cup {ABSENT}],
   sections : Seq(SectionType)]

\* the originals of these objects of the copy
Originals(to, ids) == [i \in DOMAIN ids |-> to.of[ids[i]]]

IsBlockNamed(to, b, n) ==
  /\ b \in 1 .. Len(to.obj)
  /\ to.obj[b].kind = "BLOCK" /\ to.obj[b].name = n

\* object x of the copy is what was made of its original: it shows a block of
\* its name if any, and its members are those that stand for the live ones
IsCopy(to, x) ==
  LET o == to.obj[x]
      e == to.of[x]
  IN  /\ e \in Ids /\ o.kind = obj[e].kind /\ o.name = obj[e].name
      /\ o.members \in Seq(1 .. Len(to.obj))
      /\ Originals(to, o.members) = Live(obj[e].members)
      /\ o.block # NULL => o.kind = "INSERT" /\ IsBlockNamed(to, o.block, o.name)
      /\ o.kind = "BLOCK" => to.dict[o.name] > 0

Sound(to) ==
  /\ to \in Copies /\ Len(to.of) = Len(to.obj)
  /\ \A x \in 1 .. Len(to.obj) : IsCopy(to, x)
  /\ \A x, y \in 1 .. Len(to.obj) : to.of[x] = to.of[y] => x = y
  /\ \A n \in Names : to.dict[n] > 0 => IsBlockNamed(to, to.dict[n], n)

\* what was in the copy is still there
Extends(to, new) ==
  /\ Len(to.obj) <= Len(new.obj)
  /\ \A x \in 1 .. Len(to.obj) : new.obj[x] = to.obj[x] /\ new.of[x] = to.of[x]
  /\ \A n \in Names : to.dict[n] > 0 => new.dict[n] > 0
  /\ new.sections = to.sections

LEMMA CopyFields ==
  ASSUME NEW to \in Copies
  PROVE  /\ to.obj \in Seq(ObjectType) /\ Len(to.obj) \in Nat
         /\ \A x \in 1 .. Len(to.obj) : to.obj[x] \in ObjectType
         /\ to.of \in Seq(Nat) /\ Len(to.of) \in Nat
         /\ to.dict \in [Names -> Nat \cup {ABSENT}]
         /\ to.sections \in Seq(SectionType)
  BY DEF Copies

LEMMA ExtendsTwice ==
  ASSUME NEW a, NEW b, NEW c, Extends(a, b), Extends(b, c),
         Len(a.obj) \in Nat, Len(b.obj) \in Nat, Len(c.obj) \in Nat
  PROVE  Extends(a, c)
  <1>1. \A x \in 1 .. Len(a.obj) : x \in 1 .. Len(b.obj)
    BY DEF Extends
  <1> QED BY <1>1 DEF Extends

LEMMA ExtendsItself ==
  ASSUME NEW a, Len(a.obj) \in Nat PROVE Extends(a, a)
  BY DEF Extends

\* New() with a dictionary
Grows(to, new, e, o, dict) ==
  /\ new \in Copies
  /\ new.obj = Append(to.obj, o) /\ new.of = Append(to.of, e)
  /\ new.dict = dict /\ new.sections = to.sections

LEMMA NewGrows ==
  ASSUME NEW to \in Copies, NEW e \in Nat, NEW o \in ObjectType,
         NEW dict \in [Names -> Nat \cup {ABSENT}]
  PROVE  /\ Grows(to, New(to, e, o), e, o, to.dict)
         /\ Grows(to, [New(to, e, o) EXCEPT !.dict = dict], e, o, dict)
  <1>1. Append(to.obj, o) \in Seq(ObjectType) /\ Append(to.of, e) \in Seq(Nat)
    BY CopyFields
  <1> DEFINE O == Append(to.obj, o)
             F == Append(to.of, e)
  <1>2. New(to, e, o) = [to EXCEPT !.obj = O, !.of = F]
    BY DEF New
  <1>3. O \in Seq(ObjectType) /\ F \in Seq(Nat)
    BY <1>1
  <1> HIDE DEF O, F
  <1>4. /\ New(to, e, o) \in Copies
        /\ New(to, e, o).obj = O /\ New(to, e, o).of = F
        /\ New(to, e, o).dict = to.dict /\ New(to, e, o).sections = to.sections
    BY <1>2, <1>3 DEF Copies
  <1> DEFINE n == New(to, e, o)
             d == [n EXCEPT !.dict = dict]
  <1>5. n \in Copies
    BY <1>4
  <1> HIDE DEF n
  <1>6. d \in Copies /\ d.obj = n.obj /\ d.of = n.of /\ d.dict = dict
        /\ d.sections = n.sections
    BY <1>5 DEF Copies
  <1> QED BY <1>4, <1>6 DEF n, Grows, O, F

\* Members that were there stand for what they stood for.
LEMMA OriginalsKept ==
  ASSUME NEW to, NEW new, Extends(to, new), NEW ids \in Seq(1 .. Len(to.obj)),
         Len(to.obj) \in Nat, Len(new.obj) \in Nat
  PROVE  ids \in Seq(1 .. Len(new.obj)) /\ Originals(new, ids) = Originals(to, ids)
  <1>1. \A i \in DOMAIN ids : ids[i] \in 1 .. Len(to.obj)
    OBVIOUS
  <1>2. \A i \in DOMAIN ids : new.of[ids[i]] = to.of[ids[i]]
    BY <1>1 DEF Extends
  <1>3. Originals(new, ids) = Originals(to, ids)
    BY <1>2 DEF Originals
  <1>4. \A x \in 1 .. Len(to.obj) : x \in 1 .. Len(new.obj)
    BY DEF Extends
  <1>5. ids \in Seq(1 .. Len(new.obj))
    <2> DEFINE S == 1 .. Len(to.obj)
               T == 1 .. Len(new.obj)
    <2>1. S \subseteq T /\ ids \in Seq(S)
      BY <1>4
    <2> HIDE DEF S, T
    <2>2. ids \in Seq(T)
      BY <2>1
    <2> QED BY <2>2 DEF T
  <1> QED BY <1>3, <1>5

LEMMA BlockKept ==
  ASSUME NEW to, NEW new, Extends(to, new), Len(to.obj) \in Nat, Len(new.obj) \in Nat,
         NEW b, NEW n, IsBlockNamed(to, b, n)
  PROVE  IsBlockNamed(new, b, n)
  BY DEF Extends, IsBlockNamed

\* o may join the copy as what was made of e, dict becoming its dictionary
MayJoin(to, e, o, dict) ==
  /\ e \in Ids /\ o \in ObjectType
  /\ \A x \in 1 .. Len(to.obj) : to.of[x] # e
  /\ o.kind = obj[e].kind /\ o.name = obj[e].name
  /\ o.members \in Seq(1 .. Len(to.obj))
  /\ Originals(to, o.members) = Live(obj[e].members)
  /\ o.block # NULL => o.kind = "INSERT" /\ IsBlockNamed(to, o.block, o.name)
  /\ o.kind = "BLOCK" => dict[o.name] > 0
  /\ \A n \in Names : to.dict[n] > 0 => dict[n] > 0
  /\ \A n \in Names : dict[n] > 0 =>
       \/ dict[n] = to.dict[n]
       \/ dict[n] = Len(to.obj) + 1 /\ o.kind = "BLOCK" /\ o.name = n

\* the copy of e, and no other, is added to the copy
OneMore(to, new, e) ==
  /\ Sound(new) /\ Extends(to, new)
  /\ Len(new.obj) = Len(to.obj) + 1
  /\ new.of[Len(to.obj) + 1] = e

\* One object more, which stands for e.
LEMMA NewSound ==
  ASSUME IInv, NEW to, Sound(to), NEW e, NEW o, NEW new, NEW dict,
         Grows(to, new, e, o, dict), MayJoin(to, e, o, dict)
  PROVE  OneMore(to, new, e) /\ new.obj[Len(to.obj) + 1] = o
  <1> DEFINE n0 == Len(to.obj)
  <1>0. /\ e \in Ids /\ o \in ObjectType
        /\ \A x \in 1 .. Len(to.obj) : to.of[x] # e
        /\ o.kind = obj[e].kind /\ o.name = obj[e].name
        /\ o.members \in Seq(1 .. Len(to.obj))
        /\ Originals(to, o.members) = Live(obj[e].members)
        /\ o.block # NULL => o.kind = "INSERT" /\ IsBlockNamed(to, o.block, o.name)
        /\ o.kind = "BLOCK" => dict[o.name] > 0
        /\ \A n \in Names : to.dict[n] > 0 => dict[n] > 0
        /\ \A n \in Names : dict[n] > 0 =>
             \/ dict[n] = to.dict[n]
             \/ dict[n] = Len(to.obj) + 1 /\ o.kind = "BLOCK" /\ o.name = n
    BY DEF MayJoin
  <1>1. to \in Copies /\ new \in Copies /\ Len(to.of) = n0 /\ n0 \in Nat
        /\ to.obj \in Seq(ObjectType) /\ to.of \in Seq(Nat) /\ e \in Nat
    BY <1>0, CopyFields DEF Sound, Grows, Ids
  <1>2. /\ Len(new.obj) = n0 + 1 /\ Len(new.of) = n0 + 1
        /\ new.obj[n0 + 1] = o /\ new.of[n0 + 1] = e
        /\ \A x \in 1 .. n0 : new.obj[x] = to.obj[x] /\ new.of[x] = to.of[x]
        /\ new.dict = dict /\ new.sections = to.sections
    BY <1>1 DEF Grows
  <1>3. Extends(to, new)
    BY <1>0, <1>1, <1>2 DEF Extends
  <1>4. n0 + 1 \in Nat /\ \A x \in 1 .. n0 + 1 : x \in 1 .. n0 \/ x = n0 + 1
    <2>1. n0 \in Nat
      BY <1>1
    <2> HIDE DEF n0
    <2> QED BY <2>1
  <1>5. \A ids \in Seq(1 .. n0) : ids \in Seq(1 .. n0 + 1)
                                  /\ Originals(new, ids) = Originals(to, ids)
    BY <1>1, <1>2, <1>3, <1>4, OriginalsKept
  <1>6. \A b, n : IsBlockNamed(to, b, n) => IsBlockNamed(new, b, n)
    BY <1>1, <1>2, <1>3, <1>4, BlockKept
  <1> HIDE DEF n0
  <1>7. ASSUME NEW x \in 1 .. n0 PROVE IsCopy(new, x)
    <2>1. IsCopy(to, x)
      BY <1>7 DEF Sound, n0
    <2>2. new.obj[x] = to.obj[x] /\ new.of[x] = to.of[x]
      BY <1>2
    <2> DEFINE p == to.obj[x]
               u == to.of[x]
    <2>3. /\ u \in Ids /\ p.kind = obj[u].kind /\ p.name = obj[u].name
          /\ p.members \in Seq(1 .. n0) /\ Originals(to, p.members) = Live(obj[u].members)
          /\ p.block # NULL => p.kind = "INSERT" /\ IsBlockNamed(to, p.block, p.name)
          /\ p.kind = "BLOCK" => to.dict[p.name] > 0
      BY <2>1 DEF IsCopy, n0
    <2>4. p.kind = "BLOCK" => dict[p.name] > 0
      BY <1>0, <2>3 DEF IInv, Named
    <2> HIDE DEF p, u
    <2>5. p.members \in Seq(1 .. n0 + 1) /\ Originals(new, p.members) = Live(obj[u].members)
      BY <1>5, <2>3
    <2> QED BY <1>2, <1>6, <2>2, <2>3, <2>4, <2>5 DEF IsCopy, p, u
  <1>8. IsCopy(new, n0 + 1)
    <2>1. o.members \in Seq(1 .. n0 + 1) /\ Originals(new, o.members) = Live(obj[e].members)
      BY <1>0, <1>5 DEF n0
    <2> QED BY <1>0, <1>2, <1>6, <2>1 DEF IsCopy
  <1>9. \A x, y \in 1 .. n0 + 1 : new.of[x] = new.of[y] => x = y
    <2>1. \A x, y \in 1 .. n0 : to.of[x] = to.of[y] => x = y
      BY DEF Sound, n0
    <2>2. \A x \in 1 .. n0 : to.of[x] # e
      BY <1>0 DEF n0
    <2> QED BY <1>2, <1>4, <2>1, <2>2
  <1>10. \A n \in Names : dict[n] > 0 => IsBlockNamed(new, dict[n], n)
    <2> SUFFICES ASSUME NEW n \in Names, dict[n] > 0 PROVE IsBlockNamed(new, dict[n], n)
      OBVIOUS
    <2>1. CASE dict[n] = to.dict[n]
      BY <1>6, <2>1 DEF Sound
    <2>2. CASE dict[n] = n0 + 1 /\ o.kind = "BLOCK" /\ o.name = n
      BY <1>2, <1>4, <2>2 DEF IsBlockNamed
    <2> QED BY <1>0, <2>1, <2>2 DEF n0
  <1>11. Sound(new)
    BY <1>1, <1>2, <1>4, <1>7, <1>8, <1>9, <1>10 DEF Sound
  <1> QED BY <1>2, <1>3, <1>11 DEF n0, OneMore
-----------------------------------------------------------------------------
(* Lists of entities.                                                      *)

\* f[k] is what of the first k is not deleted
LiveUpTo(ids, f) ==
  /\ f[0] = << >>
  /\ \A k \in 1 .. Len(ids) :
       f[k] = IF ids[k] \in deleted THEN f[k - 1] ELSE Append(f[k - 1], ids[k])

LEMMA LiveList ==
  ASSUME NEW S, NEW ids \in Seq(S)
  PROVE  \E f \in [0 .. Len(ids) -> Seq(S)] :
           LiveUpTo(ids, f) /\ Live(ids) = f[Len(ids)]
  <1> DEFINE n == Len(ids)
             Q == Seq(S)
             Step(v, k) == IF ids[k] \in deleted THEN v ELSE Append(v, ids[k])
             Body(f, k) == IF k = 0 THEN << >>
                           ELSE IF ids[k] \in deleted THEN f[k - 1]
                                ELSE Append(f[k - 1], ids[k])
             Eq(f) == f = [k \in 0 .. n |-> Body(f, k)]
             g == [k \in 1 .. n |-> [v \in Q |-> Step(v, k)]]
             live == CHOOSE f : Eq(f)
             B == << >>
  <1>1. n \in Nat /\ \A k \in 1 .. n : ids[k] \in S
    BY LenProperties, ElementOfSeq
  <1>2. g \in [1 .. n -> [Q -> Q]]
    <2>1. \A k \in 1 .. n, v \in Q : Step(v, k) \in Q
      BY <1>1, AppendProperties
    <2> HIDE DEF n, Q, Step
    <2> QED BY <2>1
  <1>3. PICK f \in [0 .. n -> Q] : Follows(f, n, B, g)
    <2>1. n \in Nat /\ B \in Q
      BY <1>1
    <2> HIDE DEF n, Q, g, B
    <2> QED BY <1>2, <2>1, Recursion
  <1>4. \A h, k : Body(h, k) = IF k = 0 THEN B ELSE Step(h[k - 1], k)
    OBVIOUS
  <1>5. \A k \in 0 .. n : k # 0 => k \in 1 .. n /\ k - 1 \in 0 .. n
    BY <1>1
  <1>6. f[0] = B /\ \A k \in 1 .. n : f[k] = Step(f[k - 1], k)
    <2>1. \A k \in 1 .. n : k - 1 \in 0 .. n
      BY <1>1
    <2>2. \A k \in 1 .. n : f[k - 1] \in Q
      BY <2>1
    <2> HIDE DEF Q, B, Step, n
    <2> QED BY <1>3, <2>2 DEF Follows
  <1>7. Eq(f)
    <2> HIDE DEF Body, Step, B, n
    <2>1. \A k \in 0 .. n : f[k] = Body(f, k)
      BY <1>4, <1>5, <1>6
    <2> QED BY <2>1
  <1>8. LiveUpTo(ids, f)
    BY <1>6 DEF LiveUpTo
  <1>9. live = f
    <2>1. Eq(live)
      <3> HIDE DEF Eq
      <3> QED BY <1>7
    <2> HIDE DEF live
    <2>2. DOMAIN live = 0 .. n /\ \A k \in 0 .. n : live[k] = Body(live, k)
      <3> DEFINE r == [k \in 0 .. n |-> Body(live, k)]
      <3> HIDE DEF Body, n
      <3>1. live = r
        BY <2>1
      <3>2. DOMAIN r = 0 .. n /\ \A k \in 0 .. n : r[k] = Body(live, k)
        OBVIOUS
      <3> HIDE DEF r
      <3> QED BY <3>1, <3>2
    <2> DEFINE T == {k \in 0 .. n : live[k] = f[k]}
    <2>3. 0 \in T
      BY <1>1, <1>6, <2>2
    <2>4. ASSUME NEW k \in 1 .. n, k - 1 \in T PROVE k \in T
      <3>1. k \in 0 .. n /\ k # 0
        BY <1>1
      <3>2. live[k] = Step(live[k - 1], k)
        BY <1>4, <2>2, <3>1
      <3> QED BY <1>6, <2>4, <3>1, <3>2
    <2>5. 0 .. n \subseteq T
      <3> HIDE DEF T, n
      <3> QED BY <1>1, <2>3, <2>4, UpTo
    <2>6. live = [k \in 0 .. n |-> live[k]]
      <3> HIDE DEF Body, n
      <3> QED BY <2>1
    <2>7. f = [k \in 0 .. n |-> f[k]]
      OBVIOUS
    <2> HIDE DEF n, T
    <2>8. \A k \in 0 .. n : live[k] = f[k]
      BY <2>5 DEF T
    <2> QED BY <2>6, <2>7, <2>8
  <1>10. Live(ids) = live[n]
    BY DEF Live
  <1> HIDE DEF live
  <1> QED BY <1>8, <1>9, <1>10

LEMMA LiveNothing == Live(<< >>) = << >>
  <1>1. << >> \in Seq(Nat) /\ Len(<< >>) = 0
    OBVIOUS
  <1>2. PICK f \in [0 .. 0 -> Seq(Nat)] : LiveUpTo(<< >>, f) /\ Live(<< >>) = f[0]
    BY <1>1, LiveList
  <1> QED BY <1>2 DEF LiveUpTo
-----------------------------------------------------------------------------
(* Copying an entity.                                                      *)

LEMMA FindIs ==
  ASSUME NEW dict \in [Names -> Nat \cup {ABSENT}], NEW n \in Names
  PROVE  /\ Find(dict, n) \in Nat
         /\ Find(dict, n) # NULL => Find(dict, n) = dict[n] /\ dict[n] > 0
         /\ Find(dict, n) = NULL => ~(dict[n] > 0)
         /\ Referenced(dict, n) \in [Names -> Nat \cup {ABSENT}]
         /\ \A m \in Names : Referenced(dict, n)[m] > 0 <=> dict[m] > 0
         /\ \A m \in Names : dict[m] > 0 => Referenced(dict, n)[m] = dict[m]
  BY DEF Find, Referenced, NULL, ABSENT

LEMMA CopyEntityGrows ==
  ASSUME IInv, NEW to \in Copies, NEW e \in Ids
  PROVE  \/ /\ IsInsert(e) /\ obj[e].name \in Names
            /\ Object("INSERT", obj[e].name, Find(to.dict, obj[e].name)) \in ObjectType
            /\ Grows(to, CopyEntity(to, e), e,
                     Object("INSERT", obj[e].name, Find(to.dict, obj[e].name)),
                     Referenced(to.dict, obj[e].name))
         \/ /\ ~IsInsert(e)
            /\ Object("PLAIN", NoName, NULL) \in ObjectType
            /\ Grows(to, CopyEntity(to, e), e, Object("PLAIN", NoName, NULL), to.dict)
  <1>1. e \in Nat /\ to.dict \in [Names -> Nat \cup {ABSENT}]
    BY CopyFields DEF Ids
  <1>2. CASE IsInsert(e)
    <2> DEFINE n == obj[e].name
               o == Object("INSERT", n, Find(to.dict, n))
               d == Referenced(to.dict, n)
    <2>1. n \in Names
      BY <1>2 DEF IInv, Named, IsInsert
    <2>2. o \in ObjectType
      BY <1>1, <2>1, FindIs, ObjectTyped
    <2>3. d \in [Names -> Nat \cup {ABSENT}]
      BY <1>1, <2>1, FindIs
    <2>4. CopyEntity(to, e) = [New(to, e, o) EXCEPT !.dict = Referenced(@, n)]
      BY <1>2 DEF CopyEntity, CopyInsert
    <2> HIDE DEF o, n
    <2>5. New(to, e, o).dict = to.dict /\ New(to, e, o) \in Copies
      BY <1>1, <2>2, NewGrows DEF Grows
    <2>6. CopyEntity(to, e) = [New(to, e, o) EXCEPT !.dict = d]
      BY <2>4, <2>5 DEF Copies
    <2> HIDE DEF d
    <2>7. Grows(to, CopyEntity(to, e), e, o, d)
      BY <1>1, <2>2, <2>3, <2>6, NewGrows
    <2> QED BY <1>2, <2>1, <2>2, <2>7 DEF o, d, n
  <1>3. CASE ~IsInsert(e)
    <2>1. Object("PLAIN", NoName, NULL) \in ObjectType
      BY ObjectTyped DEF NULL
    <2>2. CopyEntity(to, e) = New(to, e, Object("PLAIN", NoName, NULL))
      BY <1>3 DEF CopyEntity
    <2> QED BY <1>1, <1>3, <2>1, <2>2, NewGrows
  <1> QED BY <1>2, <1>3

LEMMA CopyEntityTyped ==
  ASSUME IInv, NEW to \in Copies, NEW e \in Ids
  PROVE  CopyEntity(to, e) \in Copies
  BY CopyEntityGrows DEF Grows

LEMMA ObjectIs ==
  ASSUME NEW kind, NEW name, NEW block
  PROVE  /\ Object(kind, name, block).kind = kind
         /\ Object(kind, name, block).name = name
         /\ Object(kind, name, block).block = block
         /\ Object(kind, name, block).members = << >>
  BY DEF Object

LEMMA CopyEntitySound ==
  ASSUME IInv, Shapes, NEW to, Sound(to), NEW e \in Ids, obj[e].kind # "BLOCK",
         \A x \in 1 .. Len(to.obj) : to.of[x] # e
  PROVE  OneMore(to, CopyEntity(to, e), e)
  <1> DEFINE new == CopyEntity(to, e)
             n == obj[e].name
             insert == Object("INSERT", n, Find(to.dict, n))
             plain == Object("PLAIN", NoName, NULL)
  <1>1. to \in Copies /\ to.dict \in [Names -> Nat \cup {ABSENT}]
    BY CopyFields DEF Sound
  <1>2. obj[e].members = << >> /\ obj[e].kind \in {"INSERT", "PLAIN"}
        /\ (obj[e].kind = "PLAIN" => n = NoName)
    <2>1. obj[e] \in ObjectType
      BY DEF IInv, TypeOK, Ids
    <2> QED BY <2>1 DEF Shapes, Shaped, ObjectType
  <1>3. << >> \in Seq(1 .. Len(to.obj)) /\ Originals(to, << >>) = << >>
    BY DEF Originals
  <1>4. Live(obj[e].members) = << >>
    BY <1>2, LiveNothing
  <1>5. \/ /\ IsInsert(e) /\ n \in Names /\ insert \in ObjectType
           /\ Grows(to, new, e, insert, Referenced(to.dict, n))
        \/ /\ ~IsInsert(e) /\ plain \in ObjectType
           /\ Grows(to, new, e, plain, to.dict)
    BY <1>1, CopyEntityGrows
  <1>6. /\ insert.kind = "INSERT" /\ insert.name = n /\ insert.block = Find(to.dict, n)
        /\ insert.members = << >>
        /\ plain.kind = "PLAIN" /\ plain.name = NoName /\ plain.block = NULL
        /\ plain.members = << >>
    BY ObjectIs
  <1> HIDE DEF insert, plain, new, n
  <1>7. CASE IsInsert(e)
    <2> DEFINE d == Referenced(to.dict, n)
    <2>1. n \in Names /\ insert \in ObjectType /\ Grows(to, new, e, insert, d)
          /\ obj[e].kind = "INSERT"
      BY <1>5, <1>7 DEF IsInsert
    <2>2. insert.block # NULL => IsBlockNamed(to, insert.block, n)
      BY <1>1, <1>6, <2>1, FindIs DEF Sound
    <2>3. /\ \A m \in Names : to.dict[m] > 0 => d[m] > 0
          /\ \A m \in Names : d[m] > 0 => d[m] = to.dict[m]
      BY <1>1, <2>1, FindIs
    <2>4. /\ insert.kind = obj[e].kind /\ insert.name = obj[e].name
          /\ insert.members \in Seq(1 .. Len(to.obj))
          /\ Originals(to, insert.members) = Live(obj[e].members)
          /\ insert.block # NULL => /\ insert.kind = "INSERT"
                                    /\ IsBlockNamed(to, insert.block, insert.name)
          /\ insert.kind # "BLOCK"
      BY <1>3, <1>4, <1>6, <2>1, <2>2 DEF n
    <2> HIDE DEF d
    <2>5. MayJoin(to, e, insert, d)
      BY <2>1, <2>3, <2>4 DEF MayJoin
    <2>6. OneMore(to, new, e)
      BY <2>1, <2>5, NewSound
    <2> QED BY <2>6 DEF new
  <1>8. CASE ~IsInsert(e)
    <2>1. plain \in ObjectType /\ Grows(to, new, e, plain, to.dict) /\ obj[e].kind = "PLAIN"
      BY <1>2, <1>5, <1>8 DEF IsInsert
    <2>2. /\ plain.kind = obj[e].kind /\ plain.name = obj[e].name
          /\ plain.members \in Seq(1 .. Len(to.obj))
          /\ Originals(to, plain.members) = Live(obj[e].members)
          /\ plain.block = NULL /\ plain.kind # "BLOCK"
      BY <1>2, <1>3, <1>4, <1>6, <2>1 DEF n
    <2>3. MayJoin(to, e, plain, to.dict)
      BY <2>1, <2>2 DEF MayJoin
    <2>4. OneMore(to, new, e)
      BY <2>1, <2>3, NewSound
    <2> QED BY <2>4 DEF new
  <1> QED BY <1>7, <1>8 DEF new
-----------------------------------------------------------------------------
(* Copying a list of entities.                                             *)

\* f[k] is the copy after the first k entities of the list
ArrayUpTo(to, ids, f) ==
  /\ f[0] = to
  /\ \A k \in 1 .. Len(ids) :
       f[k] = IF ids[k] \in deleted THEN f[k - 1] ELSE CopyEntity(f[k - 1], ids[k])

LEMMA CopyArrayUpTo ==
  ASSUME IInv, NEW to \in Copies, NEW ids \in Seq(Ids)
  PROVE  \E f \in [0 .. Len(ids) -> Copies] :
           ArrayUpTo(to, ids, f) /\ CopyEntityArray(to, ids) = f[Len(ids)]
  <1> DEFINE n == Len(ids)
             Step(v, k) == IF ids[k] \in deleted THEN v ELSE CopyEntity(v, ids[k])
             Body(f, k) == IF k = 0 THEN to
                           ELSE IF ids[k] \in deleted THEN f[k - 1]
                                ELSE CopyEntity(f[k - 1], ids[k])
             Eq(f) == f = [k \in 0 .. n |-> Body(f, k)]
             g == [k \in 1 .. n |-> [v \in Copies |-> Step(v, k)]]
             after == CHOOSE f : Eq(f)
  <1>1. n \in Nat /\ (\A k \in 1 .. n : ids[k] \in Ids)
        /\ \A k \in 1 .. n : k - 1 \in 0 .. n /\ k \in 0 .. n /\ k # 0
    <2>1. n \in Nat /\ \A k \in 1 .. n : ids[k] \in Ids
      BY LenProperties, ElementOfSeq
    <2> HIDE DEF n
    <2> QED BY <2>1
  <1>2. \A v \in Copies, k \in 1 .. n : Step(v, k) \in Copies
    BY <1>1, CopyEntityTyped
  <1>3. \A h, k : Body(h, k) = IF k = 0 THEN to ELSE Step(h[k - 1], k)
    OBVIOUS
  <1>4. \A h : ArrayUpTo(to, ids, h) <=>
                 h[0] = to /\ \A k \in 1 .. n : h[k] = Step(h[k - 1], k)
    BY DEF ArrayUpTo
  <1>5. CopyEntityArray(to, ids) = after[n]
    BY DEF CopyEntityArray
  <1> HIDE DEF n, Step, Body
  <1>6. g \in [1 .. n -> [Copies -> Copies]]
    BY <1>2
  <1>7. PICK f \in [0 .. n -> Copies] : Follows(f, n, to, g)
    BY <1>1, <1>6, Recursion
  <1>8. Eq(f)
    <2>1. \A k \in 1 .. n : f[k - 1] \in Copies
      BY <1>1
    <2>2. f[0] = to /\ \A k \in 1 .. n : f[k] = Step(f[k - 1], k)
      BY <1>7, <2>1 DEF Follows
    <2>3. \A k \in 0 .. n : k # 0 => k \in 1 .. n
      BY <1>1
    <2>4. \A k \in 0 .. n : f[k] = Body(f, k)
      BY <1>3, <2>2, <2>3
    <2> QED BY <2>4
  <1>9. Eq(after)
    <2> HIDE DEF Eq
    <2> QED BY <1>8
  <1> HIDE DEF after
  <1>10. (\A k \in 0 .. n : after[k] = Body(after, k)) /\ after = [k \in 0 .. n |-> after[k]]
    <2> DEFINE r == [k \in 0 .. n |-> Body(after, k)]
    <2>1. after = r
      BY <1>9
    <2>2. (\A k \in 0 .. n : r[k] = Body(after, k)) /\ r = [k \in 0 .. n |-> r[k]]
      OBVIOUS
    <2> HIDE DEF r
    <2> QED BY <2>1, <2>2
  <1>11. after[0] = to /\ \A k \in 1 .. n : after[k] = Step(after[k - 1], k)
    <2>1. 0 \in 0 .. n
      BY <1>1
    <2> QED BY <1>1, <1>3, <1>10, <2>1
  <1>12. ArrayUpTo(to, ids, after)
    BY <1>4, <1>11
  <1> DEFINE T == {k \in 0 .. n : after[k] \in Copies}
  <1>13. 0 .. n \subseteq T
    <2>1. 0 \in T
      BY <1>1, <1>11
    <2>2. ASSUME NEW k \in 1 .. n, k - 1 \in T PROVE k \in T
      BY <1>1, <1>2, <1>11, <2>2
    <2> HIDE DEF T
    <2> QED BY <1>1, <2>1, <2>2, UpTo
  <1>14. after \in [0 .. n -> Copies]
    BY <1>10, <1>13
  <1> QED BY <1>5, <1>12, <1>14 DEF n

LEMMA CopyArrayTyped ==
  ASSUME IInv, NEW to \in Copies, NEW ids \in Seq(Ids)
  PROVE  CopyEntityArray(to, ids) \in Copies
  <1>1. PICK f \in [0 .. Len(ids) -> Copies] : CopyEntityArray(to, ids) = f[Len(ids)]
    BY CopyArrayUpTo
  <1>2. Len(ids) \in 0 .. Len(ids)
    BY LenProperties
  <1> QED BY <1>1, <1>2

\* the originals the copy has objects for
Taken(to) == {to.of[x] : x \in 1 .. Len(to.obj)}

\* list is what the objects added since stand for
Appends(to, new, list) ==
  /\ Sound(new) /\ Extends(to, new)
  /\ Len(new.obj) = Len(to.obj) + Len(list)
  /\ \A i \in 1 .. Len(list) : new.of[Len(to.obj) + i] = list[i]

LEMMA AppendsNothing ==
  ASSUME NEW to, Sound(to) PROVE Appends(to, to, << >>)
  <1>1. Len(to.obj) \in Nat /\ Len(<< >>) = 0
    BY CopyFields DEF Sound
  <1> QED BY <1>1, ExtendsItself DEF Appends

LEMMA AppendsMore ==
  ASSUME NEW S, NEW to, NEW mid, NEW new, NEW list \in Seq(S), NEW e \in S,
         Sound(to), Appends(to, mid, list), OneMore(mid, new, e)
  PROVE  Appends(to, new, Append(list, e))
  <1> DEFINE more == Append(list, e)
             n == Len(list)
             m == Len(to.obj)
  <1>1. n \in Nat /\ Len(more) = n + 1 /\ more[n + 1] = e
        /\ \A i \in 1 .. n : more[i] = list[i]
    OBVIOUS
  <1>2. m \in Nat /\ Len(mid.obj) = m + n /\ Len(new.obj) = (m + n) + 1
        /\ new.of[(m + n) + 1] = e
        /\ (\A x \in 1 .. Len(mid.obj) : new.of[x] = mid.of[x])
        /\ (\A i \in 1 .. n : mid.of[m + i] = list[i])
        /\ Sound(new) /\ Extends(to, mid) /\ Extends(mid, new)
    BY CopyFields DEF Sound, Appends, OneMore, Extends
  <1> HIDE DEF more, n
  <1>3. Extends(to, new)
    BY <1>1, <1>2, ExtendsTwice
  <1> HIDE DEF m
  <1>4. ASSUME NEW i \in 1 .. n + 1 PROVE new.of[m + i] = more[i]
    <2>1. CASE i = n + 1
      BY <1>1, <1>2, <2>1
    <2>2. CASE i # n + 1
      <3>1. i \in 1 .. n /\ m + i \in 1 .. m + n
        BY <1>1, <1>2, <2>2
      <3> QED BY <1>1, <1>2, <3>1
    <2> QED BY <2>1, <2>2
  <1>5. Len(new.obj) = m + Len(more) /\ \A i \in 1 .. Len(more) : new.of[m + i] = more[i]
    BY <1>1, <1>2, <1>4
  <1>6. Appends(to, new, more)
    BY <1>2, <1>3, <1>5 DEF Appends, m
  <1> QED BY <1>6 DEF more

\* Every object of the copy stands for one taken before or one of the list.
LEMMA AppendsTakes ==
  ASSUME NEW to, NEW new, NEW list, Len(list) \in Nat, Len(to.obj) \in Nat,
         Appends(to, new, list)
  PROVE  \A x \in 1 .. Len(new.obj) :
           new.of[x] \in Taken(to) \/ \E i \in 1 .. Len(list) : new.of[x] = list[i]
  <1> SUFFICES ASSUME NEW x \in 1 .. Len(new.obj)
               PROVE new.of[x] \in Taken(to) \/ \E i \in 1 .. Len(list) : new.of[x] = list[i]
    OBVIOUS
  <1>1. CASE x \in 1 .. Len(to.obj)
    BY <1>1 DEF Appends, Extends, Taken
  <1>2. CASE x \notin 1 .. Len(to.obj)
    <2>1. x - Len(to.obj) \in 1 .. Len(list) /\ Len(to.obj) + (x - Len(to.obj)) = x
      BY <1>2 DEF Appends
    <2> QED BY <2>1 DEF Appends
  <1> QED BY <1>1, <1>2

\* entities that are no blocks, each once and none of them copied yet
Fresh(to, ids) ==
  /\ ids \in Seq(Ids)
  /\ \A i \in DOMAIN ids : obj[ids[i]].kind # "BLOCK" /\ ids[i] \notin Taken(to)
  /\ \A i, j \in DOMAIN ids : ids[i] = ids[j] => i = j

\* copyEntityArray(): a copy of every live entity of the list, in order.
LEMMA CopyArraySound ==
  ASSUME IInv, Shapes, NEW to, Sound(to), NEW ids, Fresh(to, ids)
  PROVE  Appends(to, CopyEntityArray(to, ids), Live(ids))
  <1> DEFINE n == Len(ids)
             S(k) == {ids[j] : j \in 1 .. k}
  <1>1. ids \in Seq(Ids) /\ n \in Nat /\ DOMAIN ids = 1 .. n /\ to \in Copies
        /\ Len(to.obj) \in Nat
    BY LenProperties, CopyFields DEF Fresh, Sound
  <1>2. PICK f \in [0 .. n -> Copies] :
          ArrayUpTo(to, ids, f) /\ CopyEntityArray(to, ids) = f[n]
    BY <1>1, CopyArrayUpTo
  <1>3. PICK live \in [0 .. n -> Seq(Ids)] : LiveUpTo(ids, live) /\ Live(ids) = live[n]
    BY <1>1, LiveList
  <1> DEFINE Good(k) == /\ Appends(to, f[k], live[k])
                        /\ \A i \in 1 .. Len(live[k]) : \E j \in 1 .. k : live[k][i] = ids[j]
             T == {k \in 0 .. n : Good(k)}
  <1>4. 0 \in T
    <2>1. f[0] = to /\ live[0] = << >> /\ Len(<< >>) = 0
      BY <1>2, <1>3 DEF ArrayUpTo, LiveUpTo
    <2>2. Good(0)
      BY <2>1, AppendsNothing
    <2> QED BY <1>1, <2>2
  <1>5. ASSUME NEW k \in 1 .. n, k - 1 \in T PROVE k \in T
    <2> DEFINE e == ids[k]
               a == f[k - 1]
               l == live[k - 1]
    <2>1. /\ f[k] = IF e \in deleted THEN a ELSE CopyEntity(a, e)
          /\ live[k] = IF e \in deleted THEN l ELSE Append(l, e)
      BY <1>2, <1>3 DEF ArrayUpTo, LiveUpTo
    <2>2. Appends(to, a, l)
          /\ \A i \in 1 .. Len(l) : \E j \in 1 .. k - 1 : l[i] = ids[j]
      BY <1>5
    <2>3. /\ k \in 0 .. n /\ k - 1 \in 0 .. n /\ k \in DOMAIN ids
          /\ \A j \in 1 .. k - 1 : j \in 1 .. k /\ j \in DOMAIN ids /\ j # k
      <3> HIDE DEF n
      <3> QED BY <1>1
    <2>4. e \in Ids /\ obj[e].kind # "BLOCK" /\ e \notin Taken(to)
          /\ \A j \in 1 .. k - 1 : ids[j] # e
      BY <2>3 DEF Fresh
    <2>5. l \in Seq(Ids) /\ Len(l) \in Nat
      <3>1. l \in Seq(Ids)
        BY <2>3
      <3> QED BY <3>1, LenProperties
    <2> HIDE DEF e, a, l, n
    <2>6. CASE e \in deleted
      BY <2>1, <2>2, <2>3, <2>6
    <2>7. CASE e \notin deleted
      <3>1. f[k] = CopyEntity(a, e) /\ live[k] = Append(l, e)
        BY <2>1, <2>7
      <3>2. \A x \in 1 .. Len(a.obj) : a.of[x] # e
        <4>1. \A x \in 1 .. Len(a.obj) :
                a.of[x] \in Taken(to) \/ \E i \in 1 .. Len(l) : a.of[x] = l[i]
          BY <1>1, <2>2, <2>5, AppendsTakes
        <4>2. \A i \in 1 .. Len(l) : l[i] # e
          <5> SUFFICES ASSUME NEW i \in 1 .. Len(l), l[i] = e PROVE FALSE
            OBVIOUS
          <5>1. PICK j \in 1 .. k - 1 : l[i] = ids[j]
            BY <2>2
          <5> QED BY <2>4, <5>1
        <4>3. e \notin Taken(to)
          BY <2>4
        <4> QED BY <4>1, <4>2, <4>3
      <3>3. Sound(a)
        BY <2>2 DEF Appends
      <3>4. OneMore(a, f[k], e)
        BY <2>4, <3>1, <3>2, <3>3, CopyEntitySound
      <3>5. Appends(to, f[k], live[k])
        BY <2>2, <2>4, <2>5, <3>1, <3>4, AppendsMore
      <3>6. Len(live[k]) = Len(l) + 1 /\ live[k][Len(l) + 1] = e
            /\ \A i \in 1 .. Len(l) : live[k][i] = l[i]
        BY <2>4, <2>5, <3>1
      <3>7. \A i \in 1 .. Len(live[k]) : \E j \in 1 .. k : live[k][i] = ids[j]
        <4> SUFFICES ASSUME NEW i \in 1 .. Len(live[k])
                     PROVE \E j \in 1 .. k : live[k][i] = ids[j]
          OBVIOUS
        <4>1. CASE i = Len(l) + 1
          <5>1. k \in 1 .. k
            BY <1>1
          <5> QED BY <3>6, <4>1, <5>1 DEF e
        <4>2. CASE i # Len(l) + 1
          <5>1. i \in 1 .. Len(l)
            BY <2>5, <3>6, <4>2
          <5> QED BY <2>2, <2>3, <3>6, <5>1
        <4> QED BY <4>1, <4>2
      <3> QED BY <2>3, <3>5, <3>7
    <2> QED BY <2>6, <2>7
  <1>6. n \in T
    <2> HIDE DEF T, n
    <2>1. 0 .. n \subseteq T
      BY <1>1, <1>4, <1>5, UpTo
    <2>2. n \in 0 .. n
      BY <1>1
    <2> QED BY <2>1, <2>2
  <1> QED BY <1>2, <1>3, <1>6
-----------------------------------------------------------------------------
(* Copying a block.                                                        *)

LEMMA AddedTyped ==
  ASSUME NEW to, NEW new, Len(to.obj) \in Nat, Len(new.obj) \in Nat
  PROVE  Added(to, new) \in Seq(Nat)
  <1> DEFINE a == Len(to.obj)
             n == Len(new.obj) - a
             s == [i \in 1 .. n |-> a + i]
  <1>1. a \in Nat /\ n \in Int
    OBVIOUS
  <1>2. Added(to, new) = s
    BY DEF Added
  <1> HIDE DEF a, n
  <1>3. s \in Seq(Nat)
    <2>1. CASE n \in Nat
      BY <1>1, <2>1
    <2>2. CASE n \notin Nat
      <3>1. 1 .. n = 1 .. 0
        BY <1>1, <2>2
      <3>2. s = [i \in 1 .. 0 |-> a + i]
        BY <3>1
      <3> QED BY <1>1, <3>2
    <2> QED BY <2>1, <2>2
  <1> QED BY <1>2, <1>3

\* What was added are objects of the copy, which stand for the list.
LEMMA AddedStandFor ==
  ASSUME NEW S, NEW list \in Seq(S), NEW to, NEW new, Len(to.obj) \in Nat,
         Len(new.obj) \in Nat, Appends(to, new, list)
  PROVE  /\ Added(to, new) \in Seq(1 .. Len(new.obj))
         /\ Originals(new, Added(to, new)) = list
  <1> DEFINE a == Len(to.obj)
             n == Len(list)
             s == [i \in 1 .. n |-> a + i]
  <1>1. a \in Nat /\ n \in Nat /\ Len(new.obj) = a + n /\ DOMAIN list = 1 .. n
        /\ list = [i \in 1 .. n |-> list[i]]
        /\ \A i \in 1 .. n : new.of[a + i] = list[i]
    BY DEF Appends
  <1>2. Added(to, new) = s
    <2>1. Len(new.obj) - a = n
      BY <1>1
    <2> QED BY <2>1 DEF Added
  <1> HIDE DEF a, n
  <1>3. s \in Seq(1 .. a + n)
    BY <1>1
  <1>4. DOMAIN s = 1 .. n /\ \A i \in 1 .. n : s[i] = a + i
    OBVIOUS
  <1> HIDE DEF s
  <1>5. Originals(new, s) = [i \in 1 .. n |-> new.of[s[i]]]
    BY <1>4 DEF Originals
  <1>6. \A i \in 1 .. n : new.of[s[i]] = list[i]
    BY <1>1, <1>4
  <1> QED BY <1>1, <1>2, <1>3, <1>5, <1>6

BlockCopy(n, m) == [Object("BLOCK", n, NULL) EXCEPT !.members = m]

LEMMA BlockCopyIs ==
  ASSUME NEW n \in Names, NEW m \in Seq(Nat)
  PROVE  /\ BlockCopy(n, m) \in ObjectType
         /\ BlockCopy(n, m).kind = "BLOCK" /\ BlockCopy(n, m).name = n
         /\ BlockCopy(n, m).block = NULL /\ BlockCopy(n, m).members = m
  BY DEF BlockCopy, Object, ObjectType, NULL

LEMMA MembersKnown ==
  ASSUME LInv, NEW b \in Ids
  PROVE  /\ obj[b].members \in Seq(Ids)
         /\ \A i \in DOMAIN obj[b].members :
              /\ obj[b].members[i] \in Members(b)
              /\ obj[obj[b].members[i]].kind # "BLOCK"
  <1> DEFINE m == obj[b].members
  <1>1. obj[b] \in ObjectType
    BY DEF LInv, IInv, TypeOK, Ids
  <1>2. m \in Seq(Nat)
    BY <1>1 DEF ObjectType
  <1>3. \A i \in DOMAIN m : m[i] \in Members(b)
    BY DEF Members, Range
  <1>4. \A x \in Members(b) : x \in Ids /\ obj[x].kind # "BLOCK"
    BY DEF LInv, Places, OneParent
  <1> HIDE DEF m
  <1>5. m \in Seq(Ids)
    BY <1>2, <1>3, <1>4
  <1> QED BY <1>3, <1>4, <1>5 DEF m

LEMMA CopyBlockGrows ==
  ASSUME LInv, NEW to \in Copies, NEW b \in Ids, obj[b].kind = "BLOCK"
  PROVE  LET in == CopyEntityArray(to, obj[b].members)
             n == obj[b].name
         IN  /\ in \in Copies /\ n \in Names /\ Added(to, in) \in Seq(Nat)
             /\ Grows(in, CopyBlock(to, b), b, BlockCopy(n, Added(to, in)),
                      [in.dict EXCEPT ![n] = Len(in.obj) + 1])
  <1> DEFINE in == CopyEntityArray(to, obj[b].members)
             n == obj[b].name
             m == Added(to, in)
             o == BlockCopy(n, m)
             d == [in.dict EXCEPT ![n] = Len(in.obj) + 1]
  <1>1. in \in Copies
    BY MembersKnown, CopyArrayTyped DEF LInv
  <1>2. n \in Names /\ b \in Nat
    BY DEF LInv, IInv, Named, Ids
  <1>3. CopyBlock(to, b) = [New(in, b, o) EXCEPT !.dict[n] = Len(in.obj) + 1]
    BY DEF CopyBlock, BlockCopy
  <1> HIDE DEF in, n, o
  <1>4. in.dict \in [Names -> Nat \cup {ABSENT}] /\ Len(in.obj) \in Nat
        /\ Len(to.obj) \in Nat
    BY <1>1, CopyFields
  <1>5. m \in Seq(Nat)
    BY <1>4, AddedTyped
  <1> HIDE DEF m
  <1>6. o \in ObjectType
    BY <1>2, <1>5, BlockCopyIs DEF o
  <1>7. New(in, b, o).dict = in.dict /\ New(in, b, o) \in Copies
    <2>1. Grows(in, New(in, b, o), b, o, in.dict)
      BY <1>1, <1>2, <1>4, <1>6, NewGrows
    <2> QED BY <2>1 DEF Grows
  <1>8. d \in [Names -> Nat \cup {ABSENT}]
    BY <1>2, <1>4
  <1>9. CopyBlock(to, b) = [New(in, b, o) EXCEPT !.dict = d]
    BY <1>3, <1>7 DEF Copies
  <1> HIDE DEF d
  <1>10. Grows(in, CopyBlock(to, b), b, o, d)
    BY <1>1, <1>2, <1>6, <1>8, <1>9, NewGrows
  <1> QED BY <1>1, <1>2, <1>5, <1>10 DEF in, n, m, o, d

LEMMA CopyBlockTyped ==
  ASSUME LInv, NEW to \in Copies, NEW b \in Ids, obj[b].kind = "BLOCK"
  PROVE  CopyBlock(to, b) \in Copies
  BY CopyBlockGrows DEF Grows

LEMMA LiveAmong ==
  ASSUME NEW S, NEW ids \in Seq(S) PROVE Live(ids) \in Seq(S)
  <1>1. PICK f \in [0 .. Len(ids) -> Seq(S)] : Live(ids) = f[Len(ids)]
    BY LiveList
  <1>2. Len(ids) \in 0 .. Len(ids)
    BY LenProperties
  <1> QED BY <1>1, <1>2

\* dimeBlock::copy: the live members and the block itself are added.
LEMMA CopyBlockSound ==
  ASSUME LInv, NEW to, Sound(to), Shapes, NEW b \in Ids, obj[b].kind = "BLOCK",
         b \notin Taken(to), Fresh(to, obj[b].members)
  PROVE  Appends(to, CopyBlock(to, b), Append(Live(obj[b].members), b))
  <1> DEFINE in == CopyEntityArray(to, obj[b].members)
             n == obj[b].name
             m == Added(to, in)
             o == BlockCopy(n, m)
             d == [in.dict EXCEPT ![n] = Len(in.obj) + 1]
             live == Live(obj[b].members)
             new == CopyBlock(to, b)
  <1>1. to \in Copies /\ Len(to.obj) \in Nat /\ IInv
    BY CopyFields DEF Sound, LInv
  <1>2. /\ in \in Copies /\ n \in Names /\ m \in Seq(Nat)
        /\ Grows(in, new, b, o, d)
    BY <1>1, CopyBlockGrows
  <1>3. Appends(to, in, live)
    BY <1>1, CopyArraySound
  <1>4. live \in Seq(Ids) /\ live \in Seq(Members(b)) /\ Len(live) \in Nat
    <2>1. obj[b].members \in Seq(Ids) /\ obj[b].members \in Seq(Members(b))
      <3> DEFINE s == obj[b].members
      <3>1. s \in Seq(Ids) /\ \A i \in DOMAIN s : s[i] \in Members(b)
        BY MembersKnown
      <3> HIDE DEF s
      <3>2. s \in Seq(Members(b))
        BY <3>1
      <3> QED BY <3>1, <3>2 DEF s
    <2>2. live \in Seq(Ids) /\ live \in Seq(Members(b))
      BY <2>1, LiveAmong
    <2> QED BY <2>2, LenProperties
  <1> HIDE DEF live, in, new
  <1>5. in.dict \in [Names -> Nat \cup {ABSENT}] /\ Len(in.obj) \in Nat
    BY <1>2, CopyFields
  <1>6. m \in Seq(1 .. Len(in.obj)) /\ Originals(in, m) = live
    BY <1>1, <1>3, <1>4, <1>5, AddedStandFor
  <1>7. o \in ObjectType /\ o.kind = "BLOCK" /\ o.name = n /\ o.block = NULL
        /\ o.members = m
    BY <1>2, BlockCopyIs
  <1>8. \A x \in 1 .. Len(in.obj) : in.of[x] # b
    <2>1. \A x \in 1 .. Len(in.obj) :
            in.of[x] \in Taken(to) \/ \E i \in 1 .. Len(live) : in.of[x] = live[i]
      BY <1>1, <1>3, <1>4, AppendsTakes
    <2>2. \A i \in 1 .. Len(live) : live[i] # b
      <3>1. \A i \in 1 .. Len(live) : live[i] \in Members(b)
        BY <1>4, ElementOfSeq
      <3>2. b \notin Members(b)
        BY DEF LInv, Places, OneParent
      <3> QED BY <3>1, <3>2
    <2> QED BY <2>1, <2>2
  <1>9. /\ d[n] = Len(in.obj) + 1 /\ d[n] > 0
        /\ \A k \in Names : k # n => d[k] = in.dict[k]
    BY <1>2, <1>5
  <1> HIDE DEF d, o, m
  <1>10. MayJoin(in, b, o, d)
    <2>1. /\ o.kind = obj[b].kind /\ o.name = obj[b].name
          /\ Originals(in, o.members) = Live(obj[b].members)
      BY <1>6, <1>7 DEF live
    <2>2. \A k \in Names : d[k] > 0 =>
            \/ d[k] = in.dict[k]
            \/ d[k] = Len(in.obj) + 1 /\ o.kind = "BLOCK" /\ o.name = k
      BY <1>7, <1>9
    <2>3. \A k \in Names : in.dict[k] > 0 => d[k] > 0
      BY <1>9
    <2> HIDE DEF n
    <2> QED BY <1>6, <1>7, <1>8, <1>9, <2>1, <2>2, <2>3 DEF MayJoin
  <1>11. OneMore(in, new, b)
    <2>1. Sound(in)
      BY <1>3 DEF Appends
    <2> QED BY <1>1, <1>2, <1>10, <2>1, NewSound
  <1>12. Appends(to, new, Append(live, b))
    BY <1>3, <1>4, <1>11, AppendsMore
  <1> QED BY <1>12 DEF new, live
-----------------------------------------------------------------------------
(* Copying the items of a section.                                         *)

\* a block with its members, and those of several blocks
Family(b) == {b} \cup Members(b)
Families(blocks) == UNION {Family(blocks[i]) : i \in DOMAIN blocks}

\* only what is in S has been copied since
TakesFrom(to, new, S) == Taken(new) \subseteq Taken(to) \cup S

LEMMA TakesFromIs ==
  ASSUME NEW to, NEW new, NEW S
  PROVE  TakesFrom(to, new, S) <=>
           \A x \in 1 .. Len(new.obj) : new.of[x] \in Taken(to) \/ new.of[x] \in S
  BY DEF TakesFrom, Taken

LEMMA AppendsTakesFrom ==
  ASSUME NEW to, NEW new, NEW S, NEW list \in Seq(S), Len(to.obj) \in Nat,
         Appends(to, new, list)
  PROVE  TakesFrom(to, new, S)
  <1>1. Len(list) \in Nat /\ \A i \in 1 .. Len(list) : list[i] \in S
    BY LenProperties, ElementOfSeq
  <1>2. \A x \in 1 .. Len(new.obj) :
          new.of[x] \in Taken(to) \/ \E i \in 1 .. Len(list) : new.of[x] = list[i]
    BY <1>1, AppendsTakes
  <1>3. \A x \in 1 .. Len(new.obj) : new.of[x] \in Taken(to) \/ new.of[x] \in S
    BY <1>1, <1>2
  <1> QED BY <1>3, TakesFromIs

\* b, with its members, has been copied, the block itself last
CopiedBlock(to, new, b) ==
  /\ Sound(new) /\ Extends(to, new) /\ Len(new.obj) \in 1 .. Len(new.obj)
  /\ new.of[Len(new.obj)] = b
  /\ TakesFrom(to, new, Family(b))

LEMMA MembersFresh ==
  ASSUME LInv, Shapes, NEW to, NEW b \in Ids, Members(b) \cap Taken(to) = {}
  PROVE  Fresh(to, obj[b].members)
  <1>1. \A i, j \in DOMAIN obj[b].members :
          obj[b].members[i] = obj[b].members[j] => i = j
    BY DEF Shapes, Shaped
  <1> QED BY <1>1, MembersKnown DEF Fresh

LEMMA CopyBlockCopies ==
  ASSUME LInv, Shapes, NEW to, Sound(to), NEW b \in Ids, obj[b].kind = "BLOCK",
         Family(b) \cap Taken(to) = {}
  PROVE  CopiedBlock(to, CopyBlock(to, b), b)
  <1> DEFINE new == CopyBlock(to, b)
             live == Live(obj[b].members)
             list == Append(live, b)
  <1>1. Appends(to, new, list)
    BY MembersFresh, CopyBlockSound DEF Family
  <1>2. live \in Seq(Members(b))
    <2> DEFINE s == obj[b].members
    <2>1. s \in Seq(Ids) /\ \A i \in DOMAIN s : s[i] \in Members(b)
      BY MembersKnown
    <2> HIDE DEF s
    <2>2. s \in Seq(Members(b))
      BY <2>1
    <2> QED BY <2>2, LiveAmong DEF s
  <1> HIDE DEF live, new
  <1>3. list \in Seq(Family(b)) /\ Len(list) = Len(live) + 1 /\ list[Len(live) + 1] = b
        /\ Len(live) \in Nat
    <2> DEFINE F == Family(b)
    <2>1. Members(b) \subseteq F /\ b \in F
      BY DEF Family
    <2> HIDE DEF F
    <2>2. live \in Seq(F)
      BY <1>2, <2>1
    <2>3. list \in Seq(F) /\ Len(list) = Len(live) + 1 /\ list[Len(live) + 1] = b
          /\ Len(live) \in Nat
      BY <2>1, <2>2
    <2> QED BY <2>3 DEF F
  <1> HIDE DEF list
  <1>4. Len(to.obj) \in Nat
    BY CopyFields DEF Sound
  <1>5. Len(new.obj) = Len(to.obj) + (Len(live) + 1)
        /\ new.of[Len(to.obj) + (Len(live) + 1)] = b
    <2>1. Len(list) \in 1 .. Len(list)
      BY <1>3
    <2> QED BY <1>1, <1>3, <2>1 DEF Appends
  <1>6. TakesFrom(to, new, Family(b))
    BY <1>1, <1>3, <1>4, AppendsTakesFrom
  <1>7. CopiedBlock(to, new, b)
    <2>1. Len(new.obj) \in 1 .. Len(new.obj)
      <3> DEFINE a == Len(to.obj)
                 l == Len(live)
                 m == Len(new.obj)
      <3>1. a \in Nat /\ l \in Nat /\ m = a + (l + 1)
        BY <1>3, <1>4, <1>5
      <3> HIDE DEF a, l, m
      <3>2. m \in 1 .. m
        BY <3>1
      <3> QED BY <3>2 DEF m
    <2>2. new.of[Len(new.obj)] = b
      BY <1>5
    <2> QED BY <1>1, <1>6, <2>1, <2>2 DEF CopiedBlock, Appends
  <1> QED BY <1>7 DEF new

\* f[k] is the copy after the first k blocks
BlocksUpTo(to, blocks, f) ==
  f[0] = to /\ \A k \in 1 .. Len(blocks) : f[k] = CopyBlock(f[k - 1], blocks[k])

AllBlocks(blocks) ==
  /\ blocks \in Seq(Ids)
  /\ \A k \in DOMAIN blocks : obj[blocks[k]].kind = "BLOCK"

LEMMA CopyBlocksUpTo ==
  ASSUME LInv, NEW to \in Copies, NEW blocks, AllBlocks(blocks)
  PROVE  /\ CopyBlocks(to, blocks) \in [0 .. Len(blocks) -> Copies]
         /\ BlocksUpTo(to, blocks, CopyBlocks(to, blocks))
  <1> DEFINE n == Len(blocks)
             Step(v, k) == CopyBlock(v, blocks[k])
             Body(f, k) == IF k = 0 THEN to ELSE CopyBlock(f[k - 1], blocks[k])
             Eq(f) == f = [k \in 0 .. n |-> Body(f, k)]
             g == [k \in 1 .. n |-> [v \in Copies |-> Step(v, k)]]
             after == CHOOSE f : Eq(f)
  <1>1. n \in Nat /\ (\A k \in 1 .. n : blocks[k] \in Ids /\ obj[blocks[k]].kind = "BLOCK")
        /\ \A k \in 1 .. n : k - 1 \in 0 .. n /\ k \in 0 .. n /\ k # 0
    <2>1. n \in Nat /\ \A k \in 1 .. n : blocks[k] \in Ids /\ obj[blocks[k]].kind = "BLOCK"
      BY LenProperties, ElementOfSeq DEF AllBlocks
    <2> HIDE DEF n
    <2> QED BY <2>1
  <1>2. \A v \in Copies, k \in 1 .. n : Step(v, k) \in Copies
    BY <1>1, CopyBlockTyped
  <1>3. \A h, k : Body(h, k) = IF k = 0 THEN to ELSE Step(h[k - 1], k)
    OBVIOUS
  <1>4. \A h : BlocksUpTo(to, blocks, h) <=>
                 h[0] = to /\ \A k \in 1 .. n : h[k] = Step(h[k - 1], k)
    BY DEF BlocksUpTo
  <1>5. CopyBlocks(to, blocks) = after
    BY DEF CopyBlocks
  <1> HIDE DEF n, Step, Body
  <1>6. g \in [1 .. n -> [Copies -> Copies]]
    BY <1>2
  <1>7. PICK f \in [0 .. n -> Copies] : Follows(f, n, to, g)
    BY <1>1, <1>6, Recursion
  <1>8. Eq(f)
    <2>1. \A k \in 1 .. n : f[k - 1] \in Copies
      BY <1>1
    <2>2. f[0] = to /\ \A k \in 1 .. n : f[k] = Step(f[k - 1], k)
      BY <1>7, <2>1 DEF Follows
    <2>3. \A k \in 0 .. n : k # 0 => k \in 1 .. n
      BY <1>1
    <2>4. \A k \in 0 .. n : f[k] = Body(f, k)
      BY <1>3, <2>2, <2>3
    <2> QED BY <2>4
  <1>9. Eq(after)
    <2> HIDE DEF Eq
    <2> QED BY <1>8
  <1> HIDE DEF after
  <1>10. (\A k \in 0 .. n : after[k] = Body(after, k)) /\ after = [k \in 0 .. n |-> after[k]]
    <2> DEFINE r == [k \in 0 .. n |-> Body(after, k)]
    <2>1. after = r
      BY <1>9
    <2>2. (\A k \in 0 .. n : r[k] = Body(after, k)) /\ r = [k \in 0 .. n |-> r[k]]
      OBVIOUS
    <2> HIDE DEF r
    <2> QED BY <2>1, <2>2
  <1>11. after[0] = to /\ \A k \in 1 .. n : after[k] = Step(after[k - 1], k)
    <2>1. 0 \in 0 .. n
      BY <1>1
    <2> QED BY <1>1, <1>3, <1>10, <2>1
  <1>12. BlocksUpTo(to, blocks, after)
    BY <1>4, <1>11
  <1> DEFINE T == {k \in 0 .. n : after[k] \in Copies}
  <1>13. 0 .. n \subseteq T
    <2>1. 0 \in T
      BY <1>1, <1>11
    <2>2. ASSUME NEW k \in 1 .. n, k - 1 \in T PROVE k \in T
      BY <1>1, <1>2, <1>11, <2>2
    <2> HIDE DEF T
    <2> QED BY <1>1, <2>1, <2>2, UpTo
  <1>14. after \in [0 .. n -> Copies]
    BY <1>10, <1>13
  <1> QED BY <1>5, <1>12, <1>14 DEF n

\* blocks none of which, with their members, have been copied
FreshBlocks(to, blocks) ==
  /\ AllBlocks(blocks)
  /\ \A i, j \in DOMAIN blocks : blocks[i] = blocks[j] => i = j
  /\ Families(blocks) \cap Taken(to) = {}

\* Blocks have no entity in common.
LEMMA FamiliesApart ==
  ASSUME LInv, NEW b \in Ids, NEW c \in Ids, b # c,
         obj[b].kind = "BLOCK", obj[c].kind = "BLOCK"
  PROVE  Family(b) \cap Family(c) = {}
  BY DEF LInv, Places, OneParent, Family

\* k blocks of the list have been copied
CopiedBlocks(to, f, blocks, k) ==
  /\ Sound(f[k]) /\ Extends(to, f[k])
  /\ \A j \in 1 .. k : /\ Len(f[j].obj) \in 1 .. Len(f[k].obj)
                       /\ f[k].of[Len(f[j].obj)] = blocks[j]
  /\ \A x \in Taken(f[k]) : x \in Taken(to) \/ \E j \in 1 .. k : x \in Family(blocks[j])

LEMMA CopyBlocksSound ==
  ASSUME LInv, Shapes, NEW to, Sound(to), NEW blocks, FreshBlocks(to, blocks)
  PROVE  LET after == CopyBlocks(to, blocks)
         IN  after \in [0 .. Len(blocks) -> Copies]
             /\ CopiedBlocks(to, after, blocks, Len(blocks))
  <1> DEFINE n == Len(blocks)
             f == CopyBlocks(to, blocks)
             T == {k \in 0 .. n : CopiedBlocks(to, f, blocks, k)}
  <1>1. to \in Copies /\ Len(to.obj) \in Nat /\ n \in Nat /\ DOMAIN blocks = 1 .. n
    BY CopyFields, LenProperties DEF Sound, FreshBlocks, AllBlocks
  <1>2. f \in [0 .. n -> Copies] /\ BlocksUpTo(to, blocks, f)
    BY <1>1, CopyBlocksUpTo DEF FreshBlocks
  <1> HIDE DEF f
  <1>3. \A i \in 1 .. n : /\ blocks[i] \in Ids /\ obj[blocks[i]].kind = "BLOCK"
                          /\ Family(blocks[i]) \cap Taken(to) = {}
    BY <1>1 DEF FreshBlocks, AllBlocks, Families
  <1>4. 0 \in T
    <2>1. f[0] = to
      BY <1>2 DEF BlocksUpTo
    <2>2. CopiedBlocks(to, f, blocks, 0)
      BY <1>1, <2>1, ExtendsItself DEF CopiedBlocks
    <2> QED BY <1>1, <2>2
  <1>5. ASSUME NEW k \in 1 .. n, k - 1 \in T PROVE k \in T
    <2> DEFINE a == f[k - 1]
               new == f[k]
               b == blocks[k]
    <2>1. /\ k \in 0 .. n /\ k - 1 \in 0 .. n
          /\ \A j \in 1 .. k : j \in 1 .. k - 1 \/ j = k
          /\ \A j \in 1 .. k - 1 : j \in 1 .. k /\ j \in 1 .. n /\ j # k
      <3> HIDE DEF n
      <3> QED BY <1>1
    <2>2. CopiedBlocks(to, f, blocks, k - 1)
      BY <1>5
    <2>3. new = CopyBlock(a, b) /\ a \in Copies /\ new \in Copies
      BY <1>2, <2>1 DEF BlocksUpTo
    <2>4. b \in Ids /\ obj[b].kind = "BLOCK" /\ Family(b) \cap Taken(to) = {}
          /\ \A j \in 1 .. k - 1 : blocks[j] # b
      BY <1>1, <1>3, <2>1 DEF FreshBlocks
    <2>5. \A j \in 1 .. k - 1 : Family(b) \cap Family(blocks[j]) = {}
      BY <1>3, <2>1, <2>4, FamiliesApart
    <2>6. /\ Sound(a) /\ Extends(to, a)
          /\ \A j \in 1 .. k - 1 : /\ Len(f[j].obj) \in 1 .. Len(a.obj)
                                   /\ a.of[Len(f[j].obj)] = blocks[j]
          /\ \A x \in Taken(a) : x \in Taken(to) \/ \E j \in 1 .. k - 1 : x \in Family(blocks[j])
      BY <2>2 DEF CopiedBlocks
    <2> HIDE DEF n, a, new, b
    <2>7. Family(b) \cap Taken(a) = {}
      BY <2>4, <2>5, <2>6
    <2>8. CopiedBlock(a, new, b)
      BY <2>3, <2>4, <2>6, <2>7, CopyBlockCopies
    <2>9. /\ Sound(new) /\ Extends(a, new) /\ Len(new.obj) \in 1 .. Len(new.obj)
          /\ new.of[Len(new.obj)] = b
          /\ Taken(new) \subseteq Taken(a) \cup Family(b)
      BY <2>8 DEF CopiedBlock, TakesFrom
    <2>10. Len(a.obj) \in Nat /\ Len(new.obj) \in Nat
      BY <2>3, CopyFields
    <2>11. Extends(to, new)
      BY <1>1, <2>6, <2>9, <2>10, ExtendsTwice
    <2>12. ASSUME NEW j \in 1 .. k
           PROVE  Len(f[j].obj) \in 1 .. Len(new.obj) /\ new.of[Len(f[j].obj)] = blocks[j]
      <3>1. CASE j = k
        BY <2>9, <3>1 DEF new, b
      <3>2. CASE j \in 1 .. k - 1
        <4>1. Len(f[j].obj) \in 1 .. Len(a.obj) /\ a.of[Len(f[j].obj)] = blocks[j]
          BY <2>6, <3>2
        <4>2. \A x \in 1 .. Len(a.obj) : x \in 1 .. Len(new.obj) /\ new.of[x] = a.of[x]
          BY <2>9, <2>10 DEF Extends
        <4> QED BY <4>1, <4>2
      <3> QED BY <2>1, <3>1, <3>2
    <2>13. ASSUME NEW x \in Taken(new)
           PROVE  x \in Taken(to) \/ \E j \in 1 .. k : x \in Family(blocks[j])
      <3>1. CASE x \in Taken(a)
        BY <2>1, <2>6, <3>1
      <3>2. CASE x \in Family(b)
        <4>1. k \in 1 .. k
          BY <1>1
        <4> QED BY <3>2, <4>1 DEF b
      <3> QED BY <2>9, <3>1, <3>2
    <2>14. CopiedBlocks(to, f, blocks, k)
      BY <2>9, <2>11, <2>12, <2>13 DEF CopiedBlocks, new
    <2> QED BY <2>1, <2>14
  <1>6. n \in T
    <2> HIDE DEF T, n
    <2>1. 0 .. n \subseteq T
      BY <1>1, <1>4, <1>5, UpTo
    <2>2. n \in 0 .. n
      BY <1>1
    <2> QED BY <2>1, <2>2
  <1> QED BY <1>2, <1>6 DEF f
-----------------------------------------------------------------------------
(* Copying the sections.                                                   *)

WithSection(mid, kind, list) ==
  [mid EXCEPT !.sections = Append(@, [kind |-> kind, items |-> list])]

\* new is mid with one section more
SectionMore(mid, new, kind, list) ==
  /\ new \in Copies /\ new.obj = mid.obj /\ new.of = mid.of /\ new.dict = mid.dict
  /\ Len(new.sections) = Len(mid.sections) + 1
  /\ \A t \in 1 .. Len(mid.sections) : new.sections[t] = mid.sections[t]
  /\ new.sections[Len(mid.sections) + 1].kind = kind
  /\ new.sections[Len(mid.sections) + 1].items = list

LEMMA WithSectionIs ==
  ASSUME NEW mid \in Copies, NEW kind \in SectionKinds, NEW list \in Seq(Nat)
  PROVE  SectionMore(mid, WithSection(mid, kind, list), kind, list)
  <1> DEFINE r == [kind |-> kind, items |-> list]
             secs == Append(mid.sections, r)
             new == WithSection(mid, kind, list)
  <1>1. r \in SectionType /\ r.kind = kind /\ r.items = list
    BY DEF SectionType
  <1>2. new = [mid EXCEPT !.sections = secs]
    BY DEF WithSection
  <1> HIDE DEF r
  <1>3. /\ secs \in Seq(SectionType) /\ Len(secs) = Len(mid.sections) + 1
        /\ secs[Len(mid.sections) + 1] = r
        /\ \A t \in 1 .. Len(mid.sections) : secs[t] = mid.sections[t]
    BY <1>1, CopyFields
  <1> HIDE DEF secs, new
  <1>4. /\ new \in Copies /\ new.obj = mid.obj /\ new.of = mid.of /\ new.dict = mid.dict
        /\ new.sections = secs
    BY <1>2, <1>3 DEF Copies
  <1>5. SectionMore(mid, new, kind, list)
    BY <1>1, <1>3, <1>4 DEF SectionMore
  <1> QED BY <1>5 DEF new

\* what copy() of a section copies: all blocks, or the live entities
Copied(sec) == IF sec.kind = "BLOCKS" THEN sec.items ELSE Live(sec.items)

\* the items of section sec have been copied, to the objects of list
Made(to, mid, sec, list) ==
  /\ Sound(mid) /\ Extends(to, mid)
  /\ list \in Seq(1 .. Len(mid.obj))
  /\ Originals(mid, list) = Copied(sec)
  /\ TakesFrom(to, mid, Families(sec.items))

LEMMA SectionKnown ==
  ASSUME LInv, NEW s \in DOMAIN sections
  PROVE  /\ sections[s].kind \in SectionKinds /\ sections[s].items \in Seq(Ids)
         /\ Len(sections[s].items) \in Nat
         /\ DOMAIN sections[s].items = 1 .. Len(sections[s].items)
         /\ \A i \in DOMAIN sections[s].items :
              /\ sections[s].items[i] \in Items
              /\ sections[s].kind = "BLOCKS" <=> obj[sections[s].items[i]].kind = "BLOCK"
         /\ \A i, j \in DOMAIN sections[s].items :
              sections[s].items[i] = sections[s].items[j] => i = j
  <1> DEFINE kind == sections[s].kind
             items == sections[s].items
  <1>1. kind \in SectionKinds /\ items \in Seq(Nat)
    <2>1. sections \in Seq(SectionType)
      BY DEF LInv, IInv, TypeOK
    <2>2. sections[s] \in SectionType
      BY <2>1, LenProperties, ElementOfSeq
    <2> QED BY <2>2 DEF SectionType
  <1>2. HoldsObjects(kind, items)
    BY DEF LInv, IInv, SectionsSound
  <1>3. kind = "ENTITIES" => NoBlocks(items)
    BY DEF LInv, Places, KindsSound
  <1>4. \A i \in DOMAIN items : items[i] \in Items
    BY ItemsAre
  <1>5. \A i, j \in DOMAIN items : items[i] = items[j] => i = j
    BY DEF LInv, Places, OnceInSections
  <1> HIDE DEF kind, items
  <1>6. items \in Seq(Ids) /\ Len(items) \in Nat /\ DOMAIN items = 1 .. Len(items)
    BY <1>1, <1>2 DEF HoldsObjects
  <1>7. \A i \in DOMAIN items : kind = "BLOCKS" <=> obj[items[i]].kind = "BLOCK"
    BY <1>1, <1>2, <1>3 DEF HoldsObjects, NoBlocks, SectionKinds
  <1> QED BY <1>1, <1>4, <1>5, <1>6, <1>7 DEF kind, items

LEMMA CopySectionIs ==
  ASSUME LInv, NEW to \in Copies, NEW s \in DOMAIN sections
  PROVE  \E mid \in Copies : \E list \in Seq(Nat) :
           /\ CopySection(to, sections[s]) = WithSection(mid, sections[s].kind, list)
           /\ (/\ Sound(to) /\ Shapes
               /\ Families(sections[s].items) \cap Taken(to) = {})
                => Made(to, mid, sections[s], list)
  <1> DEFINE sec == sections[s]
             items == sec.items
             n == Len(items)
  <1>1. /\ sec.kind \in SectionKinds /\ items \in Seq(Ids) /\ n \in Nat
        /\ DOMAIN items = 1 .. n
        /\ \A i \in DOMAIN items :
              items[i] \in Items /\ (sec.kind = "BLOCKS" <=> obj[items[i]].kind = "BLOCK")
        /\ \A i, j \in DOMAIN items : items[i] = items[j] => i = j
    BY SectionKnown
  <1> HIDE DEF sec
  <1>2. CASE sec.kind = "BLOCKS"
    <2> DEFINE f == CopyBlocks(to, items)
               list == [k \in 1 .. n |-> Len(f[k].obj)]
               mid == f[n]
    <2>1. AllBlocks(items)
      BY <1>1, <1>2 DEF AllBlocks
    <2>2. f \in [0 .. n -> Copies]
      BY <2>1, CopyBlocksUpTo
    <2>3. CopySection(to, sec) = WithSection(mid, sec.kind, list)
      BY <1>2 DEF CopySection, WithSection
    <2> HIDE DEF f, n, items
    <2>4. mid \in Copies /\ \A k \in 1 .. n : Len(f[k].obj) \in Nat
      <3>1. n \in 0 .. n /\ \A k \in 1 .. n : k \in 0 .. n
        BY <1>1
      <3> QED BY <2>2, <3>1, CopyFields
    <2>5. list \in Seq(Nat)
      BY <1>1, <2>4
    <2>6. ASSUME Sound(to), Shapes, Families(items) \cap Taken(to) = {}
          PROVE  Made(to, mid, sec, list)
      <3>1. FreshBlocks(to, items)
        BY <1>1, <2>1, <2>6 DEF FreshBlocks
      <3>2. CopiedBlocks(to, f, items, n)
        BY <2>6, <3>1, CopyBlocksSound DEF f, n
      <3>3. /\ Sound(mid) /\ Extends(to, mid)
            /\ \A k \in 1 .. n : list[k] \in 1 .. Len(mid.obj) /\ mid.of[list[k]] = items[k]
            /\ \A x \in Taken(mid) :
                 x \in Taken(to) \/ \E j \in 1 .. n : x \in Family(items[j])
        BY <3>2 DEF CopiedBlocks
      <3>4. DOMAIN list = 1 .. n
        OBVIOUS
      <3> HIDE DEF list, mid
      <3>5. list \in Seq(1 .. Len(mid.obj))
        BY <1>1, <2>5, <3>3, <3>4
      <3>6. Originals(mid, list) = items
        <4>1. Originals(mid, list) = [k \in 1 .. n |-> mid.of[list[k]]]
          BY <3>4 DEF Originals
        <4>2. items = [k \in 1 .. n |-> items[k]]
          BY <1>1
        <4> QED BY <3>3, <4>1, <4>2
      <3>7. TakesFrom(to, mid, Families(items))
        BY <1>1, <3>3 DEF TakesFrom, Families
      <3> QED BY <1>2, <3>3, <3>5, <3>6, <3>7 DEF Made, Copied, items
    <2> QED BY <2>3, <2>4, <2>5, <2>6 DEF sec, items
  <1>3. CASE sec.kind # "BLOCKS"
    <2> DEFINE mid == CopyEntityArray(to, items)
               list == Added(to, mid)
    <2>1. mid \in Copies
      BY <1>1, CopyArrayTyped DEF LInv
    <2>2. CopySection(to, sec) = WithSection(mid, sec.kind, list)
      BY <1>3 DEF CopySection, WithSection
    <2> HIDE DEF mid
    <2>3. list \in Seq(Nat) /\ Len(to.obj) \in Nat /\ Len(mid.obj) \in Nat
      BY <2>1, CopyFields, AddedTyped
    <2> HIDE DEF list
    <2>4. ASSUME Sound(to), Shapes, Families(items) \cap Taken(to) = {}
          PROVE  Made(to, mid, sec, list)
      <3>1. \A i \in DOMAIN items : items[i] \in Families(items)
        BY DEF Families, Family
      <3> HIDE DEF items, n
      <3>2. Fresh(to, items)
        BY <1>1, <1>3, <2>4, <3>1 DEF Fresh
      <3>3. Appends(to, mid, Live(items))
        BY <2>4, <3>2, CopyArraySound DEF LInv, mid
      <3>4. Live(items) \in Seq(Families(items))
        <4> DEFINE F == Families(items)
        <4>1. \A i \in DOMAIN items : items[i] \in F
          BY <3>1
        <4> HIDE DEF F
        <4>2. items \in Seq(F)
          BY <1>1, <4>1
        <4> QED BY <4>2, LiveAmong DEF F
      <3>5. list \in Seq(1 .. Len(mid.obj)) /\ Originals(mid, list) = Live(items)
        BY <2>3, <3>3, <3>4, AddedStandFor DEF list
      <3>6. TakesFrom(to, mid, Families(items))
        BY <2>3, <3>3, <3>4, AppendsTakesFrom
      <3> QED BY <1>3, <3>3, <3>5, <3>6 DEF Made, Copied, Appends, items
    <2> QED BY <2>1, <2>2, <2>3, <2>4 DEF sec
  <1> QED BY <1>2, <1>3

\* f[s] is the copy after the first s sections
SectionsUpTo(f) ==
  f[0] = EmptyCopy /\ \A s \in 1 .. Len(sections) : f[s] = CopySection(f[s - 1], sections[s])

LEMMA EmptyTyped == EmptyCopy \in Copies
  BY DEF EmptyCopy, Copies, NoReferences, ABSENT

LEMMA CopySectionTyped ==
  ASSUME LInv, NEW to \in Copies, NEW s \in DOMAIN sections
  PROVE  CopySection(to, sections[s]) \in Copies
  <1>1. PICK mid \in Copies : \E list \in Seq(Nat) :
          CopySection(to, sections[s]) = WithSection(mid, sections[s].kind, list)
    BY CopySectionIs
  <1>2. PICK list \in Seq(Nat) :
          CopySection(to, sections[s]) = WithSection(mid, sections[s].kind, list)
    BY <1>1
  <1>3. sections[s].kind \in SectionKinds
    BY SectionKnown
  <1> QED BY <1>2, <1>3, WithSectionIs DEF SectionMore

LEMMA CopySectionsUpTo ==
  ASSUME LInv
  PROVE  \E f \in [0 .. Len(sections) -> Copies] :
           SectionsUpTo(f) /\ CopySections = f[Len(sections)]
  <1> DEFINE n == Len(sections)
             Step(v, k) == CopySection(v, sections[k])
             Body(f, k) == IF k = 0 THEN EmptyCopy ELSE CopySection(f[k - 1], sections[k])
             Eq(f) == f = [k \in 0 .. n |-> Body(f, k)]
             g == [k \in 1 .. n |-> [v \in Copies |-> Step(v, k)]]
             after == CHOOSE f : Eq(f)
  <1>1. n \in Nat /\ DOMAIN sections = 1 .. n
        /\ \A k \in 1 .. n : k - 1 \in 0 .. n /\ k \in 0 .. n /\ k # 0
    <2>1. n \in Nat /\ DOMAIN sections = 1 .. n
      BY LenProperties DEF LInv, IInv, TypeOK
    <2> HIDE DEF n
    <2> QED BY <2>1
  <1>2. \A v \in Copies, k \in 1 .. n : Step(v, k) \in Copies
    BY <1>1, CopySectionTyped
  <1>3. \A h, k : Body(h, k) = IF k = 0 THEN EmptyCopy ELSE Step(h[k - 1], k)
    OBVIOUS
  <1>4. \A h : SectionsUpTo(h) <=>
                 h[0] = EmptyCopy /\ \A k \in 1 .. n : h[k] = Step(h[k - 1], k)
    BY DEF SectionsUpTo
  <1>5. CopySections = after[n]
    BY DEF CopySections
  <1> HIDE DEF n, Step, Body
  <1>6. g \in [1 .. n -> [Copies -> Copies]]
    BY <1>2
  <1>7. PICK f \in [0 .. n -> Copies] : Follows(f, n, EmptyCopy, g)
    BY <1>1, <1>6, EmptyTyped, Recursion
  <1>8. Eq(f)
    <2>1. \A k \in 1 .. n : f[k - 1] \in Copies
      BY <1>1
    <2>2. f[0] = EmptyCopy /\ \A k \in 1 .. n : f[k] = Step(f[k - 1], k)
      BY <1>7, <2>1 DEF Follows
    <2>3. \A k \in 0 .. n : k # 0 => k \in 1 .. n
      BY <1>1
    <2>4. \A k \in 0 .. n : f[k] = Body(f, k)
      BY <1>3, <2>2, <2>3
    <2> QED BY <2>4
  <1>9. Eq(after)
    <2> HIDE DEF Eq
    <2> QED BY <1>8
  <1> HIDE DEF after
  <1>10. (\A k \in 0 .. n : after[k] = Body(after, k)) /\ after = [k \in 0 .. n |-> after[k]]
    <2> DEFINE r == [k \in 0 .. n |-> Body(after, k)]
    <2>1. after = r
      BY <1>9
    <2>2. (\A k \in 0 .. n : r[k] = Body(after, k)) /\ r = [k \in 0 .. n |-> r[k]]
      OBVIOUS
    <2> HIDE DEF r
    <2> QED BY <2>1, <2>2
  <1>11. after[0] = EmptyCopy /\ \A k \in 1 .. n : after[k] = Step(after[k - 1], k)
    <2>1. 0 \in 0 .. n
      BY <1>1
    <2> QED BY <1>1, <1>3, <1>10, <2>1
  <1>12. SectionsUpTo(after)
    BY <1>4, <1>11
  <1> DEFINE T == {k \in 0 .. n : after[k] \in Copies}
  <1>13. 0 .. n \subseteq T
    <2>1. 0 \in T
      BY <1>1, <1>11, EmptyTyped
    <2>2. ASSUME NEW k \in 1 .. n, k - 1 \in T PROVE k \in T
      BY <1>1, <1>2, <1>11, <2>2
    <2> HIDE DEF T
    <2> QED BY <1>1, <2>1, <2>2, UpTo
  <1>14. after \in [0 .. n -> Copies]
    BY <1>10, <1>13
  <1> QED BY <1>5, <1>12, <1>14 DEF n

\* section t of the copy holds the copies of what section t has
SectionIs(c, t) ==
  /\ c.sections[t].kind = sections[t].kind
  /\ c.sections[t].items \in Seq(1 .. Len(c.obj))
  /\ Originals(c, c.sections[t].items) = Copied(sections[t])

\* the first s sections have been copied, and nothing else
CopiedSections(c, s) ==
  /\ Sound(c) /\ Len(c.sections) = s
  /\ \A t \in 1 .. s : SectionIs(c, t)
  /\ \A x \in Taken(c) : \E t \in 1 .. s : x \in Families(sections[t].items)

LEMMA ItemsApart ==
  ASSUME LInv, NEW b \in Items, NEW c \in Items, b # c
  PROVE  Family(b) \cap Family(c) = {}
  <1>1. b \in Ids /\ c \in Ids /\ b \in Tops /\ c \in Tops
    BY TopsKnown DEF Tops, LInv
  <1> QED BY <1>1 DEF LInv, Places, OneParent, Family

LEMMA SectionsApart ==
  ASSUME LInv, NEW s \in DOMAIN sections, NEW t \in DOMAIN sections, s # t
  PROVE  Families(sections[s].items) \cap Families(sections[t].items) = {}
  <1>1. \A i \in DOMAIN sections[s].items, j \in DOMAIN sections[t].items :
          /\ sections[s].items[i] \in Items /\ sections[t].items[j] \in Items
          /\ sections[s].items[i] # sections[t].items[j]
    BY SectionKnown DEF LInv, Places, OnceInSections
  <1>2. \A i \in DOMAIN sections[s].items, j \in DOMAIN sections[t].items :
          Family(sections[s].items[i]) \cap Family(sections[t].items[j]) = {}
    BY <1>1, ItemsApart
  <1> QED BY <1>2 DEF Families

LEMMA CopySectionsSound ==
  ASSUME LInv, Shapes
  PROVE  CopySections \in Copies /\ CopiedSections(CopySections, Len(sections))
  <1> DEFINE n == Len(sections)
  <1>1. n \in Nat /\ DOMAIN sections = 1 .. n
    BY LenProperties DEF LInv, IInv, TypeOK
  <1>2. PICK f \in [0 .. n -> Copies] : SectionsUpTo(f) /\ CopySections = f[n]
    BY CopySectionsUpTo
  <1> DEFINE T == {s \in 0 .. n : CopiedSections(f[s], s)}
  <1>3. 0 \in T
    <2>1. f[0] = EmptyCopy
      BY <1>2 DEF SectionsUpTo
    <2>2. /\ EmptyCopy.obj = << >> /\ EmptyCopy.of = << >> /\ EmptyCopy.sections = << >>
          /\ EmptyCopy.dict = NoReferences
      BY DEF EmptyCopy
    <2>3. Sound(EmptyCopy)
      BY <2>2, EmptyTyped DEF Sound, NoReferences, ABSENT
    <2>4. CopiedSections(EmptyCopy, 0)
      BY <2>2, <2>3 DEF CopiedSections, Taken
    <2> QED BY <1>1, <2>1, <2>4
  <1>4. ASSUME NEW s \in 1 .. n, s - 1 \in T PROVE s \in T
    <2> DEFINE c == f[s - 1]
               new == f[s]
               sec == sections[s]
    <2>1. /\ s \in 0 .. n /\ s - 1 \in 0 .. n /\ s \in DOMAIN sections /\ s \in Nat
          /\ \A t \in 1 .. s : t \in 1 .. s - 1 \/ t = s
          /\ \A t \in 1 .. s - 1 : t \in 1 .. s /\ t \in DOMAIN sections /\ t # s
          /\ s \in 1 .. s
      <3> HIDE DEF n
      <3> QED BY <1>1
    <2>2. c \in Copies /\ new \in Copies /\ new = CopySection(c, sec)
      BY <1>2, <2>1 DEF SectionsUpTo
    <2>3. CopiedSections(c, s - 1)
      BY <1>4
    <2>4. Families(sec.items) \cap Taken(c) = {}
      <3>1. \A t \in 1 .. s - 1 : Families(sec.items) \cap Families(sections[t].items) = {}
        BY <2>1, SectionsApart
      <3> HIDE DEF c, sec
      <3> QED BY <2>3, <3>1 DEF CopiedSections
    <2>5. Sound(c)
      BY <2>3 DEF CopiedSections
    <2>6. \E m \in Copies : \E l \in Seq(Nat) :
            new = WithSection(m, sec.kind, l) /\ Made(c, m, sec, l)
      <3>1. \E m \in Copies : \E l \in Seq(Nat) :
              /\ CopySection(c, sections[s]) = WithSection(m, sections[s].kind, l)
              /\ (Sound(c) /\ Shapes /\ Families(sections[s].items) \cap Taken(c) = {})
                   => Made(c, m, sections[s], l)
        <4> HIDE DEF c
        <4> QED BY <2>1, <2>2, CopySectionIs
      <3> HIDE DEF c, new
      <3> QED BY <2>2, <2>4, <2>5, <3>1
    <2> HIDE DEF c, new
    <2>7. PICK mid \in Copies : \E l \in Seq(Nat) :
            new = WithSection(mid, sec.kind, l) /\ Made(c, mid, sec, l)
      BY <2>6
    <2>8. PICK list \in Seq(Nat) : new = WithSection(mid, sec.kind, list) /\ Made(c, mid, sec, list)
      BY <2>7
    <2>9. SectionMore(mid, new, sec.kind, list)
      BY <2>1, <2>8, SectionKnown, WithSectionIs
    <2>10. /\ Sound(mid) /\ Extends(c, mid) /\ list \in Seq(1 .. Len(mid.obj))
           /\ Originals(mid, list) = Copied(sec)
           /\ Taken(mid) \subseteq Taken(c) \cup Families(sec.items)
      BY <2>8 DEF Made, TakesFrom
    <2> HIDE DEF sec
    <2>11. /\ new.obj = mid.obj /\ new.of = mid.of /\ new.dict = mid.dict
           /\ Len(c.sections) = s - 1 /\ mid.sections = c.sections
           /\ Len(new.sections) = s
           /\ \A t \in 1 .. s - 1 : new.sections[t] = c.sections[t]
           /\ new.sections[s].kind = sec.kind /\ new.sections[s].items = list
      <3>1. Len(c.sections) = s - 1 /\ mid.sections = c.sections
        BY <2>3, <2>10 DEF Extends, CopiedSections
      <3>2. (s - 1) + 1 = s
        BY <2>1
      <3> QED BY <2>9, <3>1, <3>2 DEF SectionMore
    <2>12. \A ids : Originals(new, ids) = Originals(mid, ids)
      BY <2>11 DEF Originals
    <2>13. Sound(new)
      <3>1. \A x : IsCopy(mid, x) => IsCopy(new, x)
        BY <2>11, <2>12 DEF IsCopy, IsBlockNamed
      <3> QED BY <2>2, <2>10, <2>11, <3>1 DEF Sound, IsBlockNamed
    <2>14. ASSUME NEW t \in 1 .. s PROVE SectionIs(new, t)
      <3>1. CASE t = s
        BY <2>10, <2>11, <2>12, <3>1 DEF SectionIs, sec
      <3>2. CASE t \in 1 .. s - 1
        <4>1. SectionIs(c, t)
          BY <2>3, <3>2 DEF CopiedSections
        <4> DEFINE ids == c.sections[t].items
        <4>2. ids \in Seq(1 .. Len(c.obj)) /\ Originals(c, ids) = Copied(sections[t])
              /\ c.sections[t].kind = sections[t].kind
          BY <4>1 DEF SectionIs
        <4>3. new.sections[t] = c.sections[t]
          BY <2>11, <3>2
        <4> HIDE DEF ids
        <4>4. ids \in Seq(1 .. Len(mid.obj)) /\ Originals(mid, ids) = Originals(c, ids)
          BY <2>2, <2>10, <4>2, CopyFields, OriginalsKept
        <4> QED BY <2>11, <2>12, <4>2, <4>3, <4>4 DEF SectionIs, ids
      <3> QED BY <2>1, <3>1, <3>2
    <2>15. \A x \in Taken(new) : \E t \in 1 .. s : x \in Families(sections[t].items)
      <3>1. Taken(new) = Taken(mid)
        BY <2>11 DEF Taken
      <3>2. \A x \in Taken(c) : \E t \in 1 .. s - 1 : x \in Families(sections[t].items)
        BY <2>3 DEF CopiedSections
      <3> QED BY <2>1, <2>10, <3>1, <3>2 DEF sec
    <2>16. CopiedSections(new, s)
      BY <2>11, <2>13, <2>14, <2>15 DEF CopiedSections
    <2> QED BY <2>1, <2>16 DEF new
  <1>5. n \in T
    <2> HIDE DEF T, n
    <2>1. 0 .. n \subseteq T
      BY <1>1, <1>3, <1>4, UpTo
    <2>2. n \in 0 .. n
      BY <1>1
    <2> QED BY <2>1, <2>2
  <1>6. f[n] \in Copies
    <2>1. n \in 0 .. n
      BY <1>1
    <2> QED BY <2>1
  <1> QED BY <1>2, <1>5, <1>6
-----------------------------------------------------------------------------
(* The copied model: references of the copy are fixed.                     *)

\* fixReferences() changes what unbound INSERTs show, and nothing else
Fixed(to, new) ==
  /\ new.of = to.of /\ new.dict = to.dict /\ new.sections = to.sections
  /\ DOMAIN new.obj = 1 .. Len(to.obj)
  /\ \A x \in 1 .. Len(to.obj) :
       /\ new.obj[x].kind = to.obj[x].kind /\ new.obj[x].name = to.obj[x].name
       /\ new.obj[x].members = to.obj[x].members
       /\ new.obj[x].block =
            IF /\ x \in Visited(to.obj, to.sections)
               /\ to.obj[x].kind = "INSERT" /\ to.obj[x].block = NULL
            THEN Find(to.dict, to.obj[x].name) ELSE to.obj[x].block

LEMMA CopyModelIs ==
  ASSUME CopySections \in Copies
  PROVE  Fixed(CopySections, CopyModel)
  <1> DEFINE c == CopySections
             v == FixReferences(c.obj, c.sections, c.dict)
             new == CopyModel
  <1>1. new = [c EXCEPT !.obj = v]
    BY DEF CopyModel
  <1>2. v = [x \in DOMAIN c.obj |->
               IF /\ x \in Visited(c.obj, c.sections)
                  /\ c.obj[x].kind = "INSERT" /\ c.obj[x].block = NULL
               THEN [c.obj[x] EXCEPT !.block = Find(c.dict, c.obj[x].name)]
               ELSE c.obj[x]]
    BY DEF FixReferences
  <1> HIDE DEF c, v, new
  <1>3. c \in Copies
    BY DEF c
  <1>4. /\ new.obj = v /\ new.of = c.of /\ new.dict = c.dict
        /\ new.sections = c.sections
    BY <1>1, <1>3 DEF Copies
  <1>5. DOMAIN c.obj = 1 .. Len(c.obj) /\ \A x \in 1 .. Len(c.obj) : c.obj[x] \in ObjectType
    BY <1>3, CopyFields
  <1>6. ASSUME NEW x \in 1 .. Len(c.obj)
        PROVE  /\ v[x].kind = c.obj[x].kind /\ v[x].name = c.obj[x].name
               /\ v[x].members = c.obj[x].members
               /\ v[x].block =
                    IF /\ x \in Visited(c.obj, c.sections)
                       /\ c.obj[x].kind = "INSERT" /\ c.obj[x].block = NULL
                    THEN Find(c.dict, c.obj[x].name) ELSE c.obj[x].block
    <2> DEFINE V == Visited(c.obj, c.sections)
               F == Find(c.dict, c.obj[x].name)
               o == c.obj[x]
    <2>1. o \in ObjectType
      BY <1>5
    <2>2. v[x] = IF x \in V /\ o.kind = "INSERT" /\ o.block = NULL
                 THEN [o EXCEPT !.block = F] ELSE o
      BY <1>2, <1>5
    <2> HIDE DEF V, F, o
    <2>3. /\ v[x].kind = o.kind /\ v[x].name = o.name /\ v[x].members = o.members
          /\ v[x].block = IF x \in V /\ o.kind = "INSERT" /\ o.block = NULL
                          THEN F ELSE o.block
      BY <2>1, <2>2 DEF ObjectType
    <2> QED BY <2>3 DEF V, F, o
  <1>7. DOMAIN v = 1 .. Len(c.obj)
    BY <1>2, <1>5
  <1>8. Fixed(c, new)
    BY <1>4, <1>6, <1>7 DEF Fixed
  <1> QED BY <1>8 DEF c, new

LEMMA CopyIsFaithfulNow ==
  ASSUME LInv, Shapes PROVE CopyFaithful
  <1> DEFINE to == CopySections
             c == CopyModel
  <1>1. to \in Copies /\ CopiedSections(to, Len(sections)) /\ Fixed(to, c)
    BY CopySectionsSound, CopyModelIs
  <1> HIDE DEF to, c
  <1>2. DOMAIN sections = 1 .. Len(sections)
    BY LenProperties DEF LInv, IInv, TypeOK
  <1>3. Sound(to) /\ \A s \in DOMAIN sections : SectionIs(to, s)
    BY <1>1, <1>2 DEF CopiedSections
  <1>4. \A ids : [i \in DOMAIN ids |-> c.of[ids[i]]] = Originals(to, ids)
    BY <1>1 DEF Fixed, Originals
  <1>5. ASSUME NEW s \in DOMAIN sections
        PROVE  /\ c.sections[s].kind = sections[s].kind
               /\ Originals(to, c.sections[s].items)
                    = IF sections[s].kind = "BLOCKS" THEN sections[s].items
                      ELSE Live(sections[s].items)
    BY <1>1, <1>3 DEF Fixed, SectionIs, Copied
  <1>6. ASSUME NEW x \in DOMAIN c.obj
        PROVE  /\ c.obj[x].kind = obj[c.of[x]].kind
               /\ c.obj[x].name = obj[c.of[x]].name
               /\ Originals(to, c.obj[x].members) = Live(obj[c.of[x]].members)
    <2>1. x \in 1 .. Len(to.obj) /\ c.of = to.of
      BY <1>1 DEF Fixed
    <2>2. IsCopy(to, x)
      BY <1>3, <2>1 DEF Sound
    <2> QED BY <1>1, <2>1, <2>2 DEF Fixed, IsCopy
  <1>7. \A x, y \in DOMAIN c.obj : c.of[x] = c.of[y] => x = y
    BY <1>1, <1>3 DEF Fixed, Sound
  <1> QED BY <1>4, <1>5, <1>6, <1>7 DEF CopyFaithful, c

\* What the copied sections hold and what that holds are objects of the copy.
LEMMA VisitedKnown ==
  ASSUME LInv, NEW to, CopiedSections(to, Len(sections))
  PROVE  /\ Range(ItemsOf(to.sections, "BLOCKS")) \cup Range(ItemsOf(to.sections, "ENTITIES"))
              \subseteq 1 .. Len(to.obj)
         /\ Visited(to.obj, to.sections) \subseteq 1 .. Len(to.obj)
  <1> DEFINE N == 1 .. Len(to.obj)
             tops == Range(ItemsOf(to.sections, "BLOCKS"))
                       \cup Range(ItemsOf(to.sections, "ENTITIES"))
  <1>1. DOMAIN to.sections = 1 .. Len(sections)
    <2>1. to.sections \in Seq(SectionType) /\ Len(to.sections) = Len(sections)
      BY CopyFields DEF CopiedSections, Sound
    <2> QED BY <2>1
  <1>2. \A t \in DOMAIN to.sections : Range(to.sections[t].items) \subseteq N
    <2>1. \A t \in DOMAIN to.sections : to.sections[t].items \in Seq(N)
      BY <1>1 DEF CopiedSections, SectionIs
    <2> HIDE DEF N
    <2> QED BY <2>1 DEF Range
  <1>3. ASSUME NEW kind PROVE Range(ItemsOf(to.sections, kind)) \subseteq N
    <2>1. Range(<< >>) = {}
      BY DEF Range
    <2>2. FindSection(to.sections, kind) # 0 => FindSection(to.sections, kind) \in DOMAIN to.sections
      BY DEF FindSection
    <2> QED BY <1>2, <2>1, <2>2 DEF ItemsOf
  <1>4. tops \subseteq N
    BY <1>3
  <1>5. ASSUME NEW b \in N PROVE Range(to.obj[b].members) \subseteq N
    <2>1. to.obj[b].members \in Seq(N)
      BY DEF CopiedSections, Sound, IsCopy
    <2> HIDE DEF N
    <2> QED BY <2>1 DEF Range
  <1> HIDE DEF N, tops
  <1>6. Within(to.obj, tops) \subseteq N
    BY <1>4, <1>5 DEF Within
  <1> QED BY <1>4, <1>6 DEF Visited, N, tops

LEMMA VisitedSame ==
  ASSUME LInv, NEW to, NEW new, CopiedSections(to, Len(sections)), Fixed(to, new)
  PROVE  Visited(new.obj, new.sections) = Visited(to.obj, to.sections)
  <1> DEFINE tops == Range(ItemsOf(to.sections, "BLOCKS"))
                       \cup Range(ItemsOf(to.sections, "ENTITIES"))
  <1>1. tops \subseteq 1 .. Len(to.obj)
    BY VisitedKnown
  <1>2. \A b \in tops : new.obj[b].members = to.obj[b].members
    BY <1>1 DEF Fixed
  <1>3. new.sections = to.sections
    BY DEF Fixed
  <1>4. Visited(new.obj, new.sections) = Within(new.obj, tops)
        /\ Visited(to.obj, to.sections) = Within(to.obj, tops)
    BY <1>3 DEF Visited
  <1> HIDE DEF tops
  <1>5. Within(new.obj, tops) = Within(to.obj, tops)
    BY <1>2 DEF Within
  <1> QED BY <1>4, <1>5

\* Every block of the model has been copied, and no other block.
LEMMA BlocksCopied ==
  ASSUME LInv, NEW to, CopiedSections(to, Len(sections))
  PROVE  /\ \A b \in BlockItems : \E y \in 1 .. Len(to.obj) : to.of[y] = b
         /\ \A b \in BlockItems : b \in Ids /\ obj[b].kind = "BLOCK"
         /\ \A y \in 1 .. Len(to.obj) : to.obj[y].kind = "BLOCK" => to.of[y] \in BlockItems
  <1>0. DOMAIN sections = 1 .. Len(sections)
    BY LenProperties DEF LInv, IInv, TypeOK
  <1>1. ASSUME NEW b \in BlockItems
        PROVE  b \in Ids /\ obj[b].kind = "BLOCK" /\ \E y \in 1 .. Len(to.obj) : to.of[y] = b
    <2>1. PICK s \in DOMAIN sections : sections[s].kind = "BLOCKS" /\ b \in Range(sections[s].items)
      BY DEF BlockItems
    <2>2. PICK i \in DOMAIN sections[s].items : sections[s].items[i] = b
      BY <2>1 DEF Range
    <2>3. obj[b].kind = "BLOCK" /\ b \in Ids
      BY <2>1, <2>2, SectionKnown DEF LInv, IInv, SectionsSound, HoldsObjects
    <2> DEFINE list == to.sections[s].items
    <2>4. list \in Seq(1 .. Len(to.obj)) /\ Originals(to, list) = sections[s].items
      BY <1>0, <2>1 DEF CopiedSections, SectionIs, Copied
    <2> HIDE DEF list
    <2>5. i \in DOMAIN list /\ to.of[list[i]] = b
      BY <2>2, <2>4 DEF Originals
    <2>6. list[i] \in 1 .. Len(to.obj)
      BY <2>4, <2>5
    <2> QED BY <2>3, <2>5, <2>6
  <1>2. ASSUME NEW y \in 1 .. Len(to.obj), to.obj[y].kind = "BLOCK"
        PROVE  to.of[y] \in BlockItems
    <2> DEFINE b == to.of[y]
    <2>1. b \in Taken(to) /\ b \in Ids /\ obj[b].kind = "BLOCK"
      BY <1>2 DEF Taken, CopiedSections, Sound, IsCopy
    <2>2. PICK t \in DOMAIN sections : b \in Families(sections[t].items)
      BY <1>0, <2>1 DEF CopiedSections
    <2> HIDE DEF b
    <2>3. PICK i \in DOMAIN sections[t].items : b \in Family(sections[t].items[i])
      BY <2>2 DEF Families
    <2> DEFINE a == sections[t].items[i]
    <2>4. a \in Ids
      BY SectionKnown, TopsKnown DEF LInv
    <2>5. b = a
      BY <2>1, <2>3, <2>4 DEF Family, LInv, Places, OneParent
    <2>6. sections[t].kind = "BLOCKS" /\ a \in Range(sections[t].items)
      BY <2>1, <2>5, SectionKnown DEF Range
    <2> QED BY <2>5, <2>6 DEF BlockItems, b
  <1> QED BY <1>1, <1>2

LEMMA CopyBindsAlikeNow ==
  ASSUME LInv, Shapes PROVE CopyBindsAlike
  <1> DEFINE to == CopySections
             c == CopyModel
             Once == \A a, b \in BlockItems : obj[a].name = obj[b].name => a = b
             Bound(x) == c.obj[x].block
  <1>1. to \in Copies /\ CopiedSections(to, Len(sections)) /\ Fixed(to, c)
    BY CopySectionsSound, CopyModelIs
  <1> HIDE DEF to, c
  <1>2. Sound(to)
    BY <1>1 DEF CopiedSections
  <1>3. Visited(c.obj, c.sections) = Visited(to.obj, to.sections)
        /\ Visited(to.obj, to.sections) \subseteq 1 .. Len(to.obj)
    BY <1>1, VisitedSame, VisitedKnown
  <1>4. ASSUME NEW x \in Visited(to.obj, to.sections), c.obj[x].kind = "INSERT"
        PROVE  /\ Bound(x) # NULL => /\ c.obj[Bound(x)].kind = "BLOCK"
                                     /\ c.obj[Bound(x)].name = c.obj[x].name
               /\ Bound(x) = NULL => \A b \in BlockItems : obj[b].name # c.obj[x].name
               /\ (Once /\ obj[c.of[x]].block \in BlockItems)
                    => c.of[Bound(x)] = obj[c.of[x]].block
    <2> DEFINE n == c.obj[x].name
               e == to.of[x]
    <2>1. x \in 1 .. Len(to.obj) /\ to.obj[x].kind = "INSERT" /\ to.obj[x].name = n
          /\ c.of = to.of
          /\ Bound(x) = IF to.obj[x].block = NULL THEN Find(to.dict, n) ELSE to.obj[x].block
      BY <1>1, <1>3, <1>4 DEF Fixed
    <2>2. /\ e \in Ids /\ obj[e].kind = "INSERT" /\ obj[e].name = n
          /\ to.obj[x].block # NULL => IsBlockNamed(to, to.obj[x].block, n)
      BY <1>2, <2>1 DEF Sound, IsCopy
    <2>3. n \in Names
      BY <2>2 DEF LInv, IInv, Named
    <2>4. /\ Find(to.dict, n) # NULL => Find(to.dict, n) = to.dict[n] /\ to.dict[n] > 0
          /\ Find(to.dict, n) = NULL => ~(to.dict[n] > 0)
      BY <1>1, <2>3, CopyFields, FindIs
    <2>5. Bound(x) # NULL => IsBlockNamed(to, Bound(x), n)
      BY <1>2, <2>1, <2>2, <2>3, <2>4 DEF Sound
    <2> HIDE DEF e, n
    <2>6. Bound(x) # NULL => c.obj[Bound(x)].kind = "BLOCK" /\ c.obj[Bound(x)].name = n
      BY <1>1, <2>5 DEF IsBlockNamed, Fixed
    <2>7. ASSUME NEW b \in BlockItems, obj[b].name = n PROVE Bound(x) # NULL
      <3>1. PICK y \in 1 .. Len(to.obj) : to.of[y] = b
        BY <1>1, BlocksCopied
      <3>2. obj[b].kind = "BLOCK"
        BY <1>1, BlocksCopied
      <3>3. to.dict[n] > 0
        BY <1>2, <2>7, <3>1, <3>2 DEF Sound, IsCopy
      <3> QED BY <2>1, <2>4, <3>3
    <2>8. ASSUME Once, obj[e].block \in BlockItems PROVE to.of[Bound(x)] = obj[e].block
      <3> DEFINE b == obj[e].block
                 y == Bound(x)
      <3>1. b \in Ids /\ b # NULL
        BY <1>1, <2>8, BlocksCopied, TopsKnown DEF LInv
      <3>2. obj[b].name = n
        BY <2>2, <3>1 DEF LInv, IInv, BindingsSound, n
      <3>3. IsBlockNamed(to, y, n)
        BY <2>5, <2>7, <2>8, <3>2
      <3> HIDE DEF y
      <3>4. y \in 1 .. Len(to.obj) /\ to.obj[y].kind = "BLOCK" /\ to.obj[y].name = n
        BY <3>3 DEF IsBlockNamed
      <3>5. to.of[y] \in BlockItems
        BY <1>1, <3>4, BlocksCopied
      <3>6. obj[to.of[y]].name = n
        BY <1>2, <3>4 DEF Sound, IsCopy
      <3>7. to.of[y] = b
        BY <2>8, <3>2, <3>5, <3>6
      <3> QED BY <3>7 DEF y
    <2> QED BY <2>1, <2>6, <2>7, <2>8 DEF e, n
  <1> QED BY <1>3, <1>4 DEF CopyBindsAlike, c

LEMMA InitShapes == Init => Shapes
  BY DEF Init, Shapes, Ids

LEMMA CopyStep == CopyNext => [Next]_vars
  BY DEF CopyNext, DrawingStep, SetDeleted, SetGrid

LEMMA CopyInvariant == CopySpec => [](LInv /\ Shapes)
  <1>1. CopyInit => LInv /\ Shapes
    BY InitLife, InitShapes DEF CopyInit
  <1>2. LInv /\ Shapes /\ [CopyNext]_copyVars => (LInv /\ Shapes)'
    <2>1. [CopyNext]_copyVars => [Next]_vars
      BY CopyStep DEF copyVars
    <2> QED BY <2>1, NextLife, NextShapes
  <1> QED BY <1>1, <1>2, PTL DEF CopySpec

\* dimeModel::copy() of a drawing read and edited in any way: every live entity
\* once, in its place and order, as what it was, and nothing else.
THEOREM CopyIsFaithful == CopySpec => []CopyFaithful
  <1>1. LInv /\ Shapes => CopyFaithful
    BY CopyIsFaithfulNow
  <1> QED BY <1>1, CopyInvariant, PTL

\* The copy's INSERTs show the copies of what the originals show, whatever the
\* order of the sections and of members and their blocks.
THEOREM CopyBindsLikeOriginal == CopySpec => []CopyBindsAlike
  <1>1. LInv /\ Shapes => CopyBindsAlike
    BY CopyBindsAlikeNow
  <1> QED BY <1>1, CopyInvariant, PTL
-----------------------------------------------------------------------------
(* dimeModel::traverseEntities(): what is traversed.                        *)

BlockIds == {b \in Ids : obj[b].kind = "BLOCK"}
EntityIds == {e \in Ids : obj[e].kind # "BLOCK"}

\* what is shown more often, or not at all, has that many rows and columns
MarksSound == \A e \in DOMAIN grid : grid[e] \in Nat

\* Blocks lie in the BLOCKS section, other entities in the ENTITIES section
\* and in blocks, each once, and INSERTs show blocks.
Traversable ==
  /\ Len(obj) \in Nat
  /\ \A e \in Ids : obj[e].members \in Seq(EntityIds) /\ Shaped(obj[e])
  /\ \A e \in Ids : IsInsert(e) /\ obj[e].block # NULL => obj[e].block \in BlockIds
  /\ \A e \in Ids : Times(e) \in Nat
  /\ ItemsOf(sections, "BLOCKS") \in Seq(BlockIds)
  /\ ItemsOf(sections, "ENTITIES") \in Seq(EntityIds)

\* a list of naturals of a set is a list of that set
LEMMA ListIn ==
  ASSUME NEW s \in Seq(Nat), NEW S, \A j \in DOMAIN s : s[j] \in S
  PROVE  s \in Seq(S)
<1>1. Len(s) \in Nat /\ DOMAIN s = 1 .. Len(s) /\ s = [j \in 1 .. Len(s) |-> s[j]]
  OBVIOUS
<1>2. s \in [1 .. Len(s) -> S]
  BY <1>1
<1>3. \A n \in Nat : [1 .. n -> S] \subseteq Seq(S)
  BY SeqDef
<1> QED BY <1>1, <1>2, <1>3

LEMMA IsTraversable ==
  ASSUME LInv, Shapes, MarksSound PROVE Traversable
<1>1. /\ Len(obj) \in Nat /\ obj \in [Ids -> ObjectType]
      /\ sections \in Seq(SectionType) /\ DOMAIN sections = 1 .. Len(sections)
  BY LenProperties, ElementOfSeq DEF LInv, IInv, TypeOK, Ids
<1>2. ASSUME NEW e \in Ids PROVE obj[e].members \in Seq(EntityIds) /\ Shaped(obj[e])
  <2>1. obj[e].members \in Seq(Nat)
    BY <1>1 DEF ObjectType
  <2>2. \A j \in DOMAIN obj[e].members : obj[e].members[j] \in EntityIds
    BY DEF LInv, Places, OneParent, Members, Range, EntityIds
  <2> QED BY <2>1, <2>2, ListIn DEF Shapes
<1>3. ASSUME NEW e \in Ids, IsInsert(e), obj[e].block # NULL PROVE obj[e].block \in BlockIds
  BY <1>3 DEF LInv, IInv, BindingsSound, IsInsert, BlockIds
<1>4. \A e \in Ids : Times(e) \in Nat
  BY DEF MarksSound, Times
<1>5. ASSUME NEW s \in DOMAIN sections
      PROVE  /\ sections[s].items \in Seq(Nat)
             /\ sections[s].kind = "BLOCKS" => sections[s].items \in Seq(BlockIds)
             /\ sections[s].kind = "ENTITIES" => sections[s].items \in Seq(EntityIds)
  <2>1. sections[s].items \in Seq(Nat)
    <3>1. sections[s] \in SectionType
      BY <1>1
    <3> QED BY <3>1 DEF SectionType
  <2>2. ASSUME sections[s].kind = "BLOCKS", NEW j \in DOMAIN sections[s].items
        PROVE  sections[s].items[j] \in BlockIds
    BY <2>2 DEF LInv, IInv, SectionsSound, HoldsObjects, BlockIds
  <2>3. ASSUME sections[s].kind = "ENTITIES", NEW j \in DOMAIN sections[s].items
        PROVE  sections[s].items[j] \in EntityIds
    BY <2>3 DEF LInv, IInv, SectionsSound, HoldsObjects, EntityIds, Places, KindsSound, NoBlocks
  <2> QED BY <2>1, <2>2, <2>3, ListIn
<1>6. \A kind : FindSection(sections, kind) = 0
                \/ (FindSection(sections, kind) \in DOMAIN sections
                    /\ sections[FindSection(sections, kind)].kind = kind)
  BY DEF FindSection
<1>7. \A S : << >> \in Seq(S)
  OBVIOUS
<1>8. ItemsOf(sections, "BLOCKS") \in Seq(BlockIds)
  BY <1>5, <1>6, <1>7 DEF ItemsOf
<1>9. ItemsOf(sections, "ENTITIES") \in Seq(EntityIds)
  BY <1>5, <1>6, <1>7 DEF ItemsOf
<1> QED BY <1>1, <1>2, <1>3, <1>4, <1>8, <1>9 DEF Traversable
-----------------------------------------------------------------------------
(* Loops.                                                                  *)

Going(r) == r.status = "going"
\* what one turn of a loop makes of r
Turn(show, r, x) == IF Going(r) THEN show[x][r] ELSE r
Loops(show, r, xs, f) ==
  f[0] = r /\ \A k \in 1 .. Len(xs) : f[k] = Turn(show, f[k - 1], xs[k])

LEMMA OneByOneIs ==
  ASSUME NEW show, NEW r \in Traces, NEW X, NEW xs \in Seq(X),
         \A s \in Traces, x \in X : show[x][s] \in Traces
  PROVE  \E f \in [0 .. Len(xs) -> Traces] :
           Loops(show, r, xs, f) /\ OneByOne(show, r, xs) = f[Len(xs)]
<1> DEFINE n == Len(xs)
           Step(v, k) == Turn(show, v, xs[k])
           Body(f, k) == IF k = 0 THEN r
                         ELSE IF f[k - 1].status = "going" THEN show[xs[k]][f[k - 1]]
                         ELSE f[k - 1]
           Eq(f) == f = [k \in 0 .. n |-> Body(f, k)]
           g == [k \in 1 .. n |-> [v \in Traces |-> Step(v, k)]]
           after == CHOOSE f : Eq(f)
<1>1. n \in Nat /\ (\A k \in 1 .. n : xs[k] \in X)
      /\ \A k \in 1 .. n : k - 1 \in 0 .. n /\ k \in 0 .. n /\ k # 0
  <2>1. n \in Nat /\ \A k \in 1 .. n : xs[k] \in X
    BY LenProperties, ElementOfSeq
  <2> HIDE DEF n
  <2> QED BY <2>1
<1>2. \A v \in Traces, k \in 1 .. n : Step(v, k) \in Traces
  BY <1>1 DEF Turn
<1>3. \A h, k : Body(h, k) = IF k = 0 THEN r ELSE Step(h[k - 1], k)
  BY DEF Turn, Going
<1>4. \A h : Loops(show, r, xs, h) <=> h[0] = r /\ \A k \in 1 .. n : h[k] = Step(h[k - 1], k)
  BY DEF Loops
<1>5. OneByOne(show, r, xs) = after[n]
  BY DEF OneByOne, Fold
<1> HIDE DEF n, Step, Body
<1>6. g \in [1 .. n -> [Traces -> Traces]]
  BY <1>2
<1>7. PICK f \in [0 .. n -> Traces] : Follows(f, n, r, g)
  BY <1>1, <1>6, Recursion
<1>8. Eq(f)
  <2>1. \A k \in 1 .. n : f[k - 1] \in Traces
    BY <1>1
  <2>2. f[0] = r /\ \A k \in 1 .. n : f[k] = Step(f[k - 1], k)
    BY <1>7, <2>1 DEF Follows
  <2>3. \A k \in 0 .. n : k # 0 => k \in 1 .. n
    BY <1>1
  <2>4. \A k \in 0 .. n : f[k] = Body(f, k)
    BY <1>3, <2>2, <2>3
  <2> QED BY <2>4
<1>9. Eq(after)
  <2> HIDE DEF Eq
  <2> QED BY <1>8
<1> HIDE DEF after
<1>10. (\A k \in 0 .. n : after[k] = Body(after, k)) /\ after = [k \in 0 .. n |-> after[k]]
  <2> DEFINE q == [k \in 0 .. n |-> Body(after, k)]
  <2>1. after = q
    BY <1>9
  <2>2. (\A k \in 0 .. n : q[k] = Body(after, k)) /\ q = [k \in 0 .. n |-> q[k]]
    OBVIOUS
  <2> HIDE DEF q
  <2> QED BY <2>1, <2>2
<1>11. after[0] = r /\ \A k \in 1 .. n : after[k] = Step(after[k - 1], k)
  <2>1. 0 \in 0 .. n
    BY <1>1
  <2> QED BY <1>1, <1>3, <1>10, <2>1
<1>12. Loops(show, r, xs, after)
  BY <1>4, <1>11
<1> DEFINE T == {k \in 0 .. n : after[k] \in Traces}
<1>13. 0 .. n \subseteq T
  <2>1. 0 \in T
    BY <1>1, <1>11
  <2>2. ASSUME NEW k \in 1 .. n, k - 1 \in T PROVE k \in T
    BY <1>1, <1>2, <1>11, <2>2
  <2> HIDE DEF T
  <2> QED BY <1>1, <2>1, <2>2, UpTo
<1>14. after \in [0 .. n -> Traces]
  BY <1>10, <1>13
<1> QED BY <1>5, <1>12, <1>14 DEF n

LEMMA OneByOneTyped ==
  ASSUME NEW show, NEW r \in Traces, NEW X, NEW xs \in Seq(X),
         \A s \in Traces, x \in X : show[x][s] \in Traces
  PROVE  OneByOne(show, r, xs) \in Traces
<1>1. PICK f \in [0 .. Len(xs) -> Traces] : OneByOne(show, r, xs) = f[Len(xs)]
  BY OneByOneIs
<1>2. Len(xs) \in 0 .. Len(xs)
  BY LenProperties
<1> QED BY <1>1, <1>2

-----------------------------------------------------------------------------
(* What traverses an entity or a block.                                    *)

Showers == [Ids -> [Traces -> Traces]]
Top == Len(obj) + 1

LEMMA CallIs ==
  ASSUME NEW r \in Traces, NEW e \in Int, NEW no
  PROVE  /\ Call(r, e, no) \in Traces
         /\ Call(r, e, no).seen = Append(r.seen, e)
         /\ Call(r, e, no).status = IF e = no THEN "stopped" ELSE r.status
<1>1. r.seen \in Seq(Int) /\ Append(r.seen, e) \in Seq(Int)
  BY DEF Traces
<1>2. r.status \in {"going", "stopped", "endless"}
  BY DEF Traces
<1> DEFINE s == Append(r.seen, e)
           t == IF e = no THEN "stopped" ELSE r.status
<1>3. Call(r, e, no) = [r EXCEPT !.seen = s, !.status = t]
  BY DEF Call
<1>4. s \in Seq(Int) /\ t \in {"going", "stopped", "endless"}
  BY <1>1, <1>2
<1> HIDE DEF s, t
<1> QED BY <1>3, <1>4 DEF Traces, s, t

\* the list of the blocks that an INSERT shows, one for each of its cells
CellsOf(e) == [i \in 1 .. Times(e) |-> obj[e].block]

LEMMA CellsAre ==
  ASSUME Traversable, NEW e \in Ids, NEW explode, Exploded(e, explode)
  PROVE  /\ CellsOf(e) \in Seq(BlockIds) /\ Len(CellsOf(e)) = Times(e)
         /\ \A k \in 1 .. Times(e) : CellsOf(e)[k] = obj[e].block
<1>1. obj[e].block \in BlockIds /\ Times(e) \in Nat
  BY DEF Exploded, Traversable
<1>2. CellsOf(e) \in [1 .. Times(e) -> BlockIds]
  BY <1>1 DEF CellsOf
<1>3. CellsOf(e) \in Seq(BlockIds)
  BY <1>1, <1>2, SeqDef
<1> QED BY <1>1, <1>3 DEF CellsOf

LEMMA IdsAre ==
  ASSUME Traversable
  PROVE  /\ BlockIds \subseteq Ids /\ EntityIds \subseteq Ids /\ Ids \subseteq Int
         /\ Ids = BlockIds \cup EntityIds /\ BlockIds \cap EntityIds = {}
         /\ Top \in Nat /\ Top # 0
  BY DEF Traversable, BlockIds, EntityIds, Ids, Top

LEMMA ShowTyped ==
  ASSUME Traversable, NEW shows \in Showers, NEW r \in Traces, NEW e \in Ids, NEW explode, NEW no
  PROVE  Show(shows, r, e, explode, no) \in Traces
<1>1. CASE Exploded(e, explode)
  <2>1. CellsOf(e) \in Seq(BlockIds)
    BY <1>1, CellsAre
  <2>2. \A s \in Traces, x \in BlockIds : shows[x][s] \in Traces
    BY IdsAre DEF Showers
  <2>3. OneByOne(shows, r, CellsOf(e)) \in Traces
    BY <2>1, <2>2, OneByOneTyped
  <2> QED BY <1>1, <2>3 DEF Show, CellsOf
<1>2. CASE ~ Exploded(e, explode)
  <2>1. e \in Int
    BY IdsAre
  <2> QED BY <1>2, <2>1, CallIs DEF Show
<1> QED BY <1>1, <1>2

\* what traverses an entity, where "shows" traverses a block
ShowOne(shows, explode, no) ==
  [e \in Ids |-> [s \in Traces |-> Show(shows, s, e, explode, no)]]

LEMMA ShowOneTyped ==
  ASSUME Traversable, NEW shows \in Showers, NEW explode, NEW no
  PROVE  /\ ShowOne(shows, explode, no) \in Showers
         /\ \A e \in Ids, s \in Traces :
              ShowOne(shows, explode, no)[e][s] = Show(shows, s, e, explode, no)
  BY ShowTyped DEF ShowOne, Showers

LEMMA ShowAllIs ==
  ASSUME NEW shows, NEW r, NEW ids, NEW explode, NEW no
  PROVE  ShowAll(shows, r, ids, explode, no) = OneByOne(ShowOne(shows, explode, no), r, ids)
  BY DEF ShowAll, ShowOne

LEMMA ShowAllTyped ==
  ASSUME Traversable, NEW shows \in Showers, NEW r \in Traces, NEW ids \in Seq(EntityIds),
         NEW explode, NEW no
  PROVE  ShowAll(shows, r, ids, explode, no) \in Traces
<1> DEFINE show == ShowOne(shows, explode, no)
<1>1. show \in Showers
  BY ShowOneTyped
<1>2. ShowAll(shows, r, ids, explode, no) = OneByOne(show, r, ids)
  BY ShowAllIs
<1> HIDE DEF show
<1>3. \A s \in Traces, x \in EntityIds : show[x][s] \in Traces
  BY <1>1, IdsAre DEF Showers
<1> QED BY <1>2, <1>3, OneByOneTyped

\* A block is begun, its members are shown unless the callback answered FALSE,
\* and its ENDBLK ends it.
BeginsBlock(r, b) == [r EXCEPT !.seen = Append(@, b)]
ShowsMembers(shows, r, b, explode, no) ==
  IF b = no THEN r ELSE ShowAll(shows, r, obj[b].members, explode, no)
EndsBlock(r, b, no) == IF r.status # "going" \/ b \in built THEN r ELSE Call(r, -b, no)

LEMMA ShowBlockIs ==
  ASSUME Traversable, NEW shows \in Showers, NEW r \in Traces, NEW b \in Ids, NEW explode, NEW no
  PROVE  /\ BeginsBlock(r, b) \in Traces
         /\ ShowsMembers(shows, BeginsBlock(r, b), b, explode, no) \in Traces
         /\ ShowBlock(shows, r, b, explode, no)
              = EndsBlock(ShowsMembers(shows, BeginsBlock(r, b), b, explode, no), b, no)
         /\ ShowBlock(shows, r, b, explode, no) \in Traces
<1> DEFINE v == BeginsBlock(r, b)
           w == ShowsMembers(shows, v, b, explode, no)
           x == EndsBlock(w, b, no)
<1>1. b \in Int /\ -b \in Int
  BY IdsAre
<1>2. v \in Traces
  BY <1>1 DEF BeginsBlock, Traces
<1>3. ShowBlock(shows, r, b, explode, no) = x
  BY DEF ShowBlock, BeginsBlock, ShowsMembers, EndsBlock
<1> HIDE DEF v
<1>4. w \in Traces
  BY <1>2, ShowAllTyped DEF ShowsMembers, Traversable
<1> HIDE DEF w
<1>5. x \in Traces
  BY <1>1, <1>4, CallIs DEF EndsBlock
<1> HIDE DEF x
<1> QED BY <1>2, <1>3, <1>4, <1>5 DEF v, w, x

\* what traverses a block, one level further up at each step
Levels(to, explode, no) ==
  /\ to \in [0 .. Top -> Showers]
  /\ \A b \in Ids, r \in Traces : to[0][b][r] = [r EXCEPT !.status = "endless"]
  /\ \A d \in 1 .. Top : \A b \in Ids, r \in Traces :
       to[d][b][r] = ShowBlock(to[d - 1], r, b, explode, no)

LEMMA NestedIs ==
  ASSUME Traversable, NEW explode, NEW no
  PROVE  \E to : Levels(to, explode, no) /\ Nested(explode, no) = to[Top]
<1> DEFINE Endless(r) == [r EXCEPT !.status = "endless"]
           first == [b \in Ids |-> [r \in Traces |-> Endless(r)]]
           Up(shows) == [b \in Ids |-> [r \in Traces |-> ShowBlock(shows, r, b, explode, no)]]
           Body(f, d) == [b \in Ids |-> [r \in Traces |->
                            IF d = 0 THEN Endless(r)
                            ELSE ShowBlock(f[d - 1], r, b, explode, no)]]
           Eq(f) == f = [d \in 0 .. Len(obj) + 1 |-> Body(f, d)]
           g == [d \in 1 .. Top |-> [shows \in Showers |-> Up(shows)]]
           after == CHOOSE f : Eq(f)
<1>1. Top \in Nat /\ \A d \in 1 .. Top : d - 1 \in 0 .. Top /\ d \in 0 .. Top /\ d # 0
  BY IdsAre
<1>2. first \in Showers
  <2>1. \A r \in Traces : Endless(r) \in Traces
    BY DEF Traces
  <2> QED BY <2>1 DEF Showers
<1>3. \A shows \in Showers : Up(shows) \in Showers
  BY ShowBlockIs DEF Showers
<1>4. \A h : Body(h, 0) = first /\ \A d : d # 0 => Body(h, d) = Up(h[d - 1])
  OBVIOUS
<1>5. Nested(explode, no) = after[Top]
  BY DEF Nested, Top
<1>6. \A h : Eq(h) <=> h = [d \in 0 .. Top |-> Body(h, d)]
  BY DEF Top
<1>7. /\ \A b \in Ids, r \in Traces : first[b][r] = Endless(r)
      /\ \A shows : \A b \in Ids, r \in Traces :
           Up(shows)[b][r] = ShowBlock(shows, r, b, explode, no)
  OBVIOUS
<1> HIDE DEF first, Up, Body, Eq
<1>8. g \in [1 .. Top -> [Showers -> Showers]]
  BY <1>3
<1>9. PICK f \in [0 .. Top -> Showers] : Follows(f, Top, first, g)
  BY <1>1, <1>2, <1>8, Recursion
<1>10. Eq(f)
  <2>1. \A d \in 1 .. Top : f[d - 1] \in Showers
    BY <1>1
  <2>2. f[0] = first /\ \A d \in 1 .. Top : f[d] = Up(f[d - 1])
    BY <1>9, <2>1 DEF Follows
  <2>3. \A d \in 0 .. Top : d # 0 => d \in 1 .. Top
    BY <1>1
  <2>4. \A d \in 0 .. Top : f[d] = Body(f, d)
    BY <1>4, <2>2, <2>3
  <2> QED BY <1>6, <2>4
<1>11. Eq(after)
  BY <1>10
<1> HIDE DEF after
<1>12. (\A d \in 0 .. Top : after[d] = Body(after, d)) /\ after = [d \in 0 .. Top |-> after[d]]
  <2> DEFINE q == [d \in 0 .. Top |-> Body(after, d)]
  <2>1. after = q
    BY <1>6, <1>11
  <2>2. (\A d \in 0 .. Top : q[d] = Body(after, d)) /\ q = [d \in 0 .. Top |-> q[d]]
    OBVIOUS
  <2> HIDE DEF q
  <2> QED BY <2>1, <2>2
<1>13. after[0] = first /\ \A d \in 1 .. Top : after[d] = Up(after[d - 1])
  <2>1. 0 \in 0 .. Top
    BY <1>1
  <2> QED BY <1>1, <1>4, <1>12, <2>1
<1> DEFINE T == {d \in 0 .. Top : after[d] \in Showers}
<1>14. 0 .. Top \subseteq T
  <2>1. 0 \in T
    BY <1>1, <1>2, <1>13
  <2>2. ASSUME NEW d \in 1 .. Top, d - 1 \in T PROVE d \in T
    BY <1>1, <1>3, <1>13, <2>2
  <2> HIDE DEF T
  <2> QED BY <1>1, <2>1, <2>2, UpTo
<1>15. after \in [0 .. Top -> Showers]
  BY <1>12, <1>14
<1>16. Levels(after, explode, no)
  BY <1>7, <1>13, <1>15 DEF Levels
<1> QED BY <1>5, <1>16

-----------------------------------------------------------------------------
(* Where a traversal ends.                                                 *)

Outcome(ends) == IF ends THEN "going" ELSE "endless"
\* in H is what ends
Decides(show, X, H) ==
  \A s \in Traces, x \in X : Going(s) => show[x][s].status = Outcome(x \in H)

LEMMA LoopDecides ==
  ASSUME NEW show, NEW r \in Traces, Going(r), NEW X, NEW xs \in Seq(X), NEW H,
         \A s \in Traces, x \in X : show[x][s] \in Traces, Decides(show, X, H)
  PROVE  OneByOne(show, r, xs).status = Outcome(Range(xs) \subseteq H)
<1> DEFINE n == Len(xs)
<1>1. n \in Nat /\ DOMAIN xs = 1 .. n /\ \A k \in 1 .. n : xs[k] \in X
  BY LenProperties, ElementOfSeq
<1>2. PICK f \in [0 .. n -> Traces] : Loops(show, r, xs, f) /\ OneByOne(show, r, xs) = f[n]
  BY OneByOneIs
<1> DEFINE Passed(k) == \A j \in 1 .. k : xs[j] \in H
           T == {k \in 0 .. n : f[k].status = Outcome(Passed(k))}
<1>3. f[0] = r /\ \A k \in 1 .. n : f[k] = Turn(show, f[k - 1], xs[k])
  BY <1>2 DEF Loops
<1> HIDE DEF n
<1>4. 0 \in T
  BY <1>1, <1>3 DEF Going, Outcome
<1>5. ASSUME NEW k \in 1 .. n, k - 1 \in T PROVE k \in T
  <2>1. k - 1 \in 0 .. n /\ f[k - 1] \in Traces /\ xs[k] \in X
    BY <1>1, <1>2, <1>5
  <2>2. Passed(k) <=> Passed(k - 1) /\ xs[k] \in H
    <3>1. \A j \in 1 .. k : j = k \/ j \in 1 .. k - 1
      BY <1>1
    <3>2. k \in 1 .. k /\ \A j \in 1 .. k - 1 : j \in 1 .. k
      BY <1>1
    <3> QED BY <3>1, <3>2
  <2>3. f[k - 1].status = Outcome(Passed(k - 1)) /\ f[k] = Turn(show, f[k - 1], xs[k])
    BY <1>3, <1>5
  <2> HIDE DEF Passed
  <2>4. CASE Passed(k - 1)
    <3>1. Going(f[k - 1])
      BY <2>3, <2>4 DEF Going, Outcome
    <3>2. f[k].status = Outcome(xs[k] \in H)
      BY <2>1, <2>3, <3>1 DEF Turn, Decides
    <3> QED BY <1>1, <2>2, <2>4, <3>2 DEF Outcome
  <2>5. CASE ~ Passed(k - 1)
    <3>1. f[k - 1].status = "endless"
      BY <2>3, <2>5 DEF Outcome
    <3>2. f[k] = f[k - 1]
      BY <2>3, <3>1 DEF Turn, Going
    <3>3. Outcome(Passed(k)) = "endless"
      BY <2>2, <2>5 DEF Outcome
    <3> QED BY <1>1, <3>1, <3>2, <3>3
  <2> QED BY <2>4, <2>5
<1>6. n \in T
  <2>1. 0 .. n \subseteq T
    <3> HIDE DEF T
    <3> QED BY <1>1, <1>4, <1>5, UpTo
  <2> HIDE DEF T
  <2> QED BY <1>1, <2>1
<1>7. Passed(n) <=> Range(xs) \subseteq H
  BY <1>1 DEF Range
<1> QED BY <1>2, <1>6, <1>7

\* An entity ends when the block it shows does.
LEMMA EntityDecides ==
  ASSUME Traversable, NEW shows \in Showers, NEW H, Decides(shows, BlockIds, H),
         NEW explode \in BOOLEAN
  PROVE  Decides(ShowOne(shows, explode, 0), EntityIds,
                 {e \in Ids : Exploded(e, explode) /\ Times(e) > 0 => obj[e].block \in H})
<1> DEFINE Ends(e) == Exploded(e, explode) /\ Times(e) > 0 => obj[e].block \in H
           E == {e \in Ids : Ends(e)}
<1>1. ASSUME NEW s \in Traces, NEW e \in EntityIds, Going(s)
      PROVE  Show(shows, s, e, explode, 0).status = Outcome(e \in E)
  <2>1. e \in Ids /\ e \in Int /\ e # 0 /\ Times(e) \in Nat
    BY IdsAre DEF Traversable, Ids
  <2>2. CASE Exploded(e, explode)
    <3> DEFINE xs == CellsOf(e)
    <3>1. xs \in Seq(BlockIds) /\ DOMAIN xs = 1 .. Times(e)
          /\ \A k \in 1 .. Times(e) : xs[k] = obj[e].block
      BY <2>1, <2>2, CellsAre DEF CellsOf
    <3>2. Show(shows, s, e, explode, 0) = OneByOne(shows, s, xs)
      BY <2>2 DEF Show, CellsOf
    <3> HIDE DEF xs
    <3>3. \A q \in Traces, x \in BlockIds : shows[x][q] \in Traces
      BY IdsAre DEF Showers
    <3>4. OneByOne(shows, s, xs).status = Outcome(Range(xs) \subseteq H)
      BY <1>1, <3>1, <3>3, LoopDecides
    <3>5. Range(xs) \subseteq H <=> e \in E
      <4>1. CASE Times(e) > 0
        <5>1. 1 \in 1 .. Times(e)
          BY <2>1, <4>1
        <5>2. Range(xs) = {obj[e].block}
          BY <3>1, <5>1 DEF Range
        <5> QED BY <2>1, <2>2, <4>1, <5>2
      <4>2. CASE Times(e) = 0
        <5>1. Range(xs) = {}
          BY <3>1, <4>2 DEF Range
        <5> QED BY <2>1, <4>2, <5>1
      <4> QED BY <2>1, <4>1, <4>2
    <3> QED BY <3>2, <3>4, <3>5
  <2>3. CASE ~ Exploded(e, explode)
    <3>1. e \in E
      BY <2>1, <2>3
    <3>2. Show(shows, s, e, explode, 0) = IF e \in deleted THEN s ELSE Call(s, e, 0)
      BY <2>3 DEF Show
    <3>3. Call(s, e, 0).status = s.status
      BY <2>1, CallIs
    <3>4. Show(shows, s, e, explode, 0).status = s.status
      BY <3>2, <3>3
    <3> QED BY <1>1, <3>1, <3>4 DEF Outcome, Going
  <2> QED BY <2>2, <2>3
<1> HIDE DEF E
<1>2. Decides(ShowOne(shows, explode, 0), EntityIds, E)
  BY <1>1, ShowOneTyped, IdsAre DEF Decides
<1> QED BY <1>2 DEF E

\* A list ends when the blocks it shows do.
LEMMA ListDecides ==
  ASSUME Traversable, NEW shows \in Showers, NEW H, Decides(shows, BlockIds, H),
         NEW explode \in BOOLEAN, NEW r \in Traces, Going(r), NEW ids \in Seq(EntityIds)
  PROVE  ShowAll(shows, r, ids, explode, 0).status
           = Outcome(explode => ShownBy(ids) \subseteq H)
<1> DEFINE E == {e \in Ids : Exploded(e, explode) /\ Times(e) > 0 => obj[e].block \in H}
           show == ShowOne(shows, explode, 0)
<1>1. Decides(show, EntityIds, E)
  BY EntityDecides
<1>2. \A s \in Traces, x \in EntityIds : show[x][s] \in Traces
  BY ShowOneTyped, IdsAre DEF Showers
<1>3. ShowAll(shows, r, ids, explode, 0) = OneByOne(show, r, ids)
  BY ShowAllIs
<1>4. Range(ids) \subseteq E <=> (explode => ShownBy(ids) \subseteq H)
  <2>1. Range(ids) \subseteq Ids
    <3>1. \A k \in DOMAIN ids : ids[k] \in EntityIds
      BY LenProperties, ElementOfSeq
    <3> QED BY <3>1, IdsAre DEF Range
  <2>2. ShownBy(ids) = {obj[e].block : e \in {i \in Range(ids) :
                          IsInsert(i) /\ obj[i].block # NULL /\ Times(i) > 0}}
    BY DEF ShownBy
  <2> QED BY <2>1, <2>2 DEF Exploded
<1> HIDE DEF show, E
<1>5. OneByOne(show, r, ids).status = Outcome(Range(ids) \subseteq E)
  BY <1>1, <1>2, LoopDecides
<1> QED BY <1>3, <1>4, <1>5 DEF Outcome

\* the blocks that end when those of H do
Over(explode, H) == {b \in BlockIds : explode => ShownBy(obj[b].members) \subseteq H}

LEMMA BlockDecides ==
  ASSUME Traversable, NEW shows \in Showers, NEW H, Decides(shows, BlockIds, H),
         NEW explode \in BOOLEAN, NEW r \in Traces, Going(r), NEW b \in BlockIds
  PROVE  ShowBlock(shows, r, b, explode, 0).status = Outcome(b \in Over(explode, H))
<1> DEFINE v == BeginsBlock(r, b)
           w == ShowsMembers(shows, v, b, explode, 0)
<1>1. b \in Ids /\ b # 0 /\ -b # 0 /\ -b \in Int
  BY IdsAre DEF Ids
<1>2. v \in Traces /\ w \in Traces
      /\ ShowBlock(shows, r, b, explode, 0) = EndsBlock(w, b, 0)
  BY <1>1, ShowBlockIs
<1>3. Going(v)
  BY DEF Going, BeginsBlock, Traces
<1>4. w = ShowAll(shows, v, obj[b].members, explode, 0)
  BY <1>1 DEF ShowsMembers
<1> HIDE DEF v
<1>5. obj[b].members \in Seq(EntityIds)
  BY <1>1 DEF Traversable
<1>6. w.status = Outcome(explode => ShownBy(obj[b].members) \subseteq H)
  BY <1>2, <1>3, <1>4, <1>5, ListDecides
<1> HIDE DEF w
<1>7. Call(w, -b, 0).status = w.status
  BY <1>1, <1>2, CallIs
<1>8. EndsBlock(w, b, 0).status = w.status
  BY <1>7 DEF EndsBlock
<1> QED BY <1>2, <1>6, <1>8 DEF Over

\* the blocks that are shown to their end where at most d levels are
Ending(to, d, start) == {b \in BlockIds : Going(to[d][b][start])}

LEMMA LevelDecides ==
  ASSUME Traversable, NEW explode \in BOOLEAN, NEW to, Levels(to, explode, 0),
         NEW start \in Traces, Going(start)
  PROVE  /\ Ending(to, 0, start) = {}
         /\ \A d \in 1 .. Top : Ending(to, d, start) = Over(explode, Ending(to, d - 1, start))
         /\ \A d \in 0 .. Top : Decides(to[d], BlockIds, Ending(to, d, start))
<1> DEFINE E(d) == Ending(to, d, start)
           T == {d \in 0 .. Top : Decides(to[d], BlockIds, E(d))}
<1>1. Top \in Nat /\ BlockIds \subseteq Ids
  BY IdsAre
<1>2. /\ to \in [0 .. Top -> Showers]
      /\ \A b \in Ids, r \in Traces : to[0][b][r] = [r EXCEPT !.status = "endless"]
      /\ \A d \in 1 .. Top : \A b \in Ids, r \in Traces :
           to[d][b][r] = ShowBlock(to[d - 1], r, b, explode, 0)
  BY DEF Levels
<1>3. ASSUME NEW r \in Traces, NEW b \in BlockIds PROVE to[0][b][r].status = "endless"
  <2>1. to[0][b][r] = [r EXCEPT !.status = "endless"]
    BY <1>1, <1>2
  <2> QED BY <2>1 DEF Traces
<1>4. E(0) = {}
  BY <1>3 DEF Ending, Going
<1>5. 0 \in T
  BY <1>1, <1>3, <1>4 DEF Decides, Outcome
<1>6. ASSUME NEW d \in 1 .. Top, d - 1 \in T
      PROVE  d \in T /\ E(d) = Over(explode, E(d - 1))
  <2>1. d - 1 \in 0 .. Top /\ d \in 0 .. Top /\ to[d - 1] \in Showers
    BY <1>1, <1>2
  <2>2. Decides(to[d - 1], BlockIds, E(d - 1))
    BY <1>6
  <2>3. ASSUME NEW r \in Traces, NEW b \in BlockIds, Going(r)
        PROVE  to[d][b][r].status = Outcome(b \in Over(explode, E(d - 1)))
    <3>1. to[d][b][r] = ShowBlock(to[d - 1], r, b, explode, 0)
      BY <1>1, <1>2
    <3> HIDE DEF E
    <3> QED BY <2>1, <2>2, <2>3, <3>1, BlockDecides
  <2>4. \A b \in BlockIds : Going(to[d][b][start]) <=> b \in Over(explode, E(d - 1))
    BY <2>3 DEF Going, Outcome
  <2>5. E(d) = Over(explode, E(d - 1))
    BY <2>4 DEF Ending, Over
  <2> HIDE DEF E
  <2>6. Decides(to[d], BlockIds, E(d))
    BY <2>3, <2>5 DEF Decides
  <2> QED BY <2>1, <2>5, <2>6
<1>7. 0 .. Top \subseteq T
  <2>1. \A d \in 1 .. Top : d - 1 \in T => d \in T
    BY <1>6
  <2> HIDE DEF T
  <2> QED BY <1>1, <1>5, <2>1, UpTo
<1>8. \A d \in 1 .. Top : d - 1 \in T
  <2>1. \A d \in 1 .. Top : d - 1 \in 0 .. Top
    BY <1>1
  <2> HIDE DEF T
  <2> QED BY <1>7, <2>1
<1> QED BY <1>4, <1>6, <1>7, <1>8

-----------------------------------------------------------------------------
(* A traversal ends unless a block shows itself.                           *)

Start == [seen |-> << >>, status |-> "going"]
Listed(blocks) == IF blocks THEN ItemsOf(sections, "BLOCKS") ELSE << >>
Traversed(shows, first, explode, no) ==
  IF Going(first) THEN ShowAll(shows, first, ItemsOf(sections, "ENTITIES"), explode, no)
  ELSE first

LEMMA TraverseIs ==
  ASSUME Traversable, NEW blocks \in BOOLEAN, NEW explode, NEW no
  PROVE  /\ Start \in Traces /\ Going(Start) /\ Listed(blocks) \in Seq(BlockIds)
         /\ \E to : /\ Levels(to, explode, no)
                    /\ OneByOne(to[Top], Start, Listed(blocks)) \in Traces
                    /\ Traverse(blocks, explode, no)
                         = Traversed(to[Top], OneByOne(to[Top], Start, Listed(blocks)), explode, no)
<1>1. Start \in Traces /\ Going(Start)
  BY DEF Start, Traces, Going
<1>2. Listed(blocks) \in Seq(BlockIds)
  BY DEF Listed, Traversable
<1>3. PICK to : Levels(to, explode, no) /\ Nested(explode, no) = to[Top]
  BY NestedIs
<1>4. to[Top] \in Showers
  BY <1>3, IdsAre DEF Levels
<1>5. \A s \in Traces, x \in BlockIds : to[Top][x][s] \in Traces
  BY <1>4, IdsAre DEF Showers
<1>6. OneByOne(to[Top], Start, Listed(blocks)) \in Traces
  BY <1>1, <1>2, <1>5, OneByOneTyped
<1>7. Traverse(blocks, explode, no)
        = Traversed(to[Top], OneByOne(to[Top], Start, Listed(blocks)), explode, no)
  BY <1>3 DEF Traverse, Traversed, Start, Listed, Going
<1> QED BY <1>1, <1>2, <1>3, <1>6, <1>7

\* Reached() is closed, has what it begins with, and is the least such set.
LEMMA ReachedIs ==
  ASSUME Traversable, NEW from \in SUBSET Ids
  PROVE  /\ from \subseteq Reached(from) /\ Reached(from) \subseteq Ids
         /\ Closed(Reached(from))
         /\ \A S \in SUBSET Ids : from \subseteq S /\ Closed(S) => Reached(from) \subseteq S
<1>1. from \subseteq Reached(from) /\ Reached(from) \subseteq Ids
      /\ \A S \in SUBSET Ids : from \subseteq S /\ Closed(S) => Reached(from) \subseteq S
  BY DEF Reached
<1>2. ASSUME NEW b \in Ids PROVE ShownBy(obj[b].members) \subseteq Ids
  <2>1. obj[b].members \in Seq(EntityIds)
    BY DEF Traversable
  <2>2. Range(obj[b].members) \subseteq Ids
    <3>1. \A k \in DOMAIN obj[b].members : obj[b].members[k] \in EntityIds
      BY <2>1, LenProperties, ElementOfSeq
    <3> QED BY <3>1, IdsAre DEF Range
  <2> QED BY <2>2, IdsAre DEF ShownBy, Traversable
<1>3. ASSUME NEW b \in Reached(from), NEW c \in ShownBy(obj[b].members)
      PROVE  c \in Reached(from)
  <2>1. b \in Ids /\ c \in Ids
    BY <1>1, <1>2
  <2>2. ASSUME NEW S \in SUBSET Ids, from \subseteq S, Closed(S) PROVE c \in S
    <3>1. b \in S
      BY <1>1, <2>2
    <3> QED BY <2>2, <3>1 DEF Closed
  <2> QED BY <2>1, <2>2 DEF Reached
<1> QED BY <1>1, <1>3 DEF Closed

\* E[d] ends within d levels
Grades(E) ==
  /\ E \in [0 .. Top -> SUBSET BlockIds] /\ E[0] = {}
  /\ \A d \in 1 .. Top : E[d] = Over(TRUE, E[d - 1])

Loop(b) == b \in Reached(ShownBy(obj[b].members))

LEMMA ShownAreBlocks ==
  ASSUME Traversable, NEW ids \in Seq(EntityIds) PROVE ShownBy(ids) \subseteq BlockIds
<1>1. \A k \in DOMAIN ids : ids[k] \in EntityIds
  BY LenProperties, ElementOfSeq
<1>2. Range(ids) \subseteq Ids
  BY <1>1, IdsAre DEF Range
<1> QED BY <1>2 DEF ShownBy, Traversable

\* A block that ends shows no loop.
LEMMA EndsNoLoop ==
  ASSUME Traversable, NEW E, Grades(E), NEW from \in SUBSET E[Top], NEW b \in Reached(from)
  PROVE  ~ Loop(b)
<1> DEFINE Up(n) == UNION {E[d] : d \in {k \in 0 .. Top : k < n}}
<1>1. Top \in Nat /\ BlockIds \subseteq Ids
      /\ \A d \in 1 .. Top : d - 1 \in 0 .. Top /\ d - 1 < d
  BY IdsAre
<1>2. ASSUME NEW n \in Nat PROVE Up(n) \in SUBSET Ids /\ Closed(Up(n))
  <2>1. Up(n) \in SUBSET Ids
    BY <1>1 DEF Grades
  <2>2. ASSUME NEW c \in Up(n) PROVE ShownBy(obj[c].members) \subseteq Up(n)
    <3>1. PICK d \in 0 .. Top : d < n /\ c \in E[d]
      OBVIOUS
    <3>2. d \in 1 .. Top
      BY <1>1, <3>1 DEF Grades
    <3>3. ShownBy(obj[c].members) \subseteq E[d - 1]
      BY <3>1, <3>2 DEF Grades, Over
    <3>4. d - 1 \in 0 .. Top /\ d - 1 < n
      BY <1>1, <3>1, <3>2
    <3> QED BY <3>3, <3>4
  <2> QED BY <2>1, <2>2 DEF Closed
<1>3. b \in Up(Top + 1)
  <2>1. Top \in 0 .. Top /\ Top < Top + 1 /\ Top + 1 \in Nat
    BY <1>1
  <2>2. from \subseteq Up(Top + 1)
    BY <2>1
  <2>3. from \in SUBSET Ids
    BY <1>1, <2>1 DEF Grades
  <2> HIDE DEF Up
  <2> QED BY <1>2, <2>1, <2>2, <2>3, ReachedIs
<1> DEFINE T == {d \in 0 .. Top : b \in E[d]}
<1>4. T # {} /\ T \subseteq Nat
  BY <1>1, <1>3
<1>5. PICK d \in T : \A k \in T : d <= k
  <2> HIDE DEF T
  <2> QED BY <1>4, NatMin
<1>6. d \in 1 .. Top /\ b \in E[d] /\ d - 1 \in 0 .. Top
  BY <1>1, <1>5 DEF Grades
<1>7. ShownBy(obj[b].members) \subseteq E[d - 1] /\ E[d - 1] \subseteq BlockIds
  BY <1>6 DEF Grades, Over
<1>8. ShownBy(obj[b].members) \subseteq Up(d) /\ d \in Nat
  BY <1>1, <1>6, <1>7
<1>9. b \notin Up(d)
  <2>1. ASSUME NEW k \in 0 .. Top, k < d PROVE b \notin E[k]
    BY <1>1, <1>5, <1>6, <2>1
  <2> QED BY <2>1
<1> HIDE DEF Up, T
<1>10. ShownBy(obj[b].members) \in SUBSET Ids
  BY <1>1, <1>7
<1>11. Reached(ShownBy(obj[b].members)) \subseteq Up(d)
  BY <1>2, <1>8, <1>10, ReachedIs
<1> QED BY <1>9, <1>11 DEF Loop

\* Where no block is in a loop, all end: each shows fewer than it is shown by.
LEMMA NoLoopEnds ==
  ASSUME Traversable, NEW E, Grades(E), NEW from \in SUBSET BlockIds,
         \A b \in Reached(from) : ~ Loop(b)
  PROVE  from \subseteq E[Top]
<1> DEFINE R(b) == Reached(ShownBy(obj[b].members))
           T == {d \in 0 .. Top : \A b \in Reached(from) \cap BlockIds :
                                    Cardinality(R(b)) < d => b \in E[d]}
<1>1. Top \in Nat /\ BlockIds \subseteq Ids /\ Top = Len(obj) + 1 /\ Len(obj) \in Nat
      /\ \A d \in 1 .. Top : d - 1 \in 0 .. Top
  BY IdsAre DEF Top, Traversable
<1>2. ASSUME NEW b \in BlockIds
      PROVE  /\ ShownBy(obj[b].members) \in SUBSET BlockIds
             /\ ShownBy(obj[b].members) \in SUBSET Ids
             /\ ShownBy(obj[b].members) \subseteq R(b) /\ R(b) \subseteq Ids /\ Closed(R(b))
             /\ \A S \in SUBSET Ids :
                  ShownBy(obj[b].members) \subseteq S /\ Closed(S) => R(b) \subseteq S
             /\ IsFiniteSet(R(b)) /\ Cardinality(R(b)) \in Nat /\ Cardinality(R(b)) < Top
  <2>1. ShownBy(obj[b].members) \in SUBSET BlockIds
    BY <1>1, ShownAreBlocks DEF Traversable
  <2>2. ShownBy(obj[b].members) \in SUBSET Ids
    BY <1>1, <2>1
  <2>3. /\ ShownBy(obj[b].members) \subseteq R(b) /\ R(b) \subseteq Ids /\ Closed(R(b))
        /\ \A S \in SUBSET Ids :
             ShownBy(obj[b].members) \subseteq S /\ Closed(S) => R(b) \subseteq S
    BY <2>2, ReachedIs
  <2> HIDE DEF R
  <2>4. IsFiniteSet(Ids) /\ Cardinality(Ids) = Len(obj)
    <3>1. 1 \in Int /\ Len(obj) \in Int
      BY <1>1
    <3>2. IsFiniteSet(1 .. Len(obj))
          /\ Cardinality(1 .. Len(obj)) = IF 1 > Len(obj) THEN 0 ELSE Len(obj) - 1 + 1
      BY <3>1, FS_Interval
    <3> QED BY <1>1, <3>2 DEF Ids
  <2>5. IsFiniteSet(R(b)) /\ Cardinality(R(b)) <= Len(obj)
    BY <2>3, <2>4, FS_Subset
  <2>6. Cardinality(R(b)) \in Nat
    BY <2>5, FS_CardinalityType
  <2> QED BY <1>1, <2>1, <2>2, <2>3, <2>5, <2>6
<1>3. from \subseteq Reached(from) /\ Reached(from) \subseteq Ids /\ Closed(Reached(from))
  <2>1. from \in SUBSET Ids
    BY <1>1
  <2> QED BY <2>1, ReachedIs
<1>4. 0 \in T
  BY <1>1, <1>2
<1>5. ASSUME NEW d \in 1 .. Top, d - 1 \in T PROVE d \in T
  <2>1. ASSUME NEW b \in Reached(from) \cap BlockIds, Cardinality(R(b)) < d PROVE b \in E[d]
    <3>1. ASSUME NEW c \in ShownBy(obj[b].members) PROVE c \in E[d - 1]
      <4>1. c \in BlockIds /\ c \in Reached(from) /\ c \in R(b)
        BY <1>2, <1>3 DEF Closed
      <4>2. c \notin R(c)
        BY <4>1 DEF Loop
      <4>3. ShownBy(obj[c].members) \subseteq R(b)
        BY <1>2, <4>1 DEF Closed
      <4>4. R(c) \subseteq R(b)
        BY <1>2, <4>1, <4>3
      <4> HIDE DEF R
      <4>5. Cardinality(R(c)) < Cardinality(R(b))
        <5>1. R(c) # R(b) /\ IsFiniteSet(R(b))
          BY <1>2, <4>1, <4>2
        <5>2. Cardinality(R(c)) \in Nat /\ Cardinality(R(b)) \in Nat
          BY <1>2, <4>1
        <5>3. Cardinality(R(c)) <= Cardinality(R(b)) /\ Cardinality(R(c)) # Cardinality(R(b))
          BY <4>4, <5>1, FS_Subset
        <5> QED BY <5>2, <5>3
      <4>6. Cardinality(R(c)) < d - 1
        BY <1>1, <1>2, <2>1, <4>1, <4>5
      <4> QED BY <1>5, <4>1, <4>6
    <3>2. b \in Over(TRUE, E[d - 1])
      BY <3>1 DEF Over
    <3> QED BY <3>2 DEF Grades
  <2>2. d \in 0 .. Top
    BY <1>1
  <2> QED BY <2>1, <2>2
<1>6. Top \in T
  <2> HIDE DEF T
  <2>1. 0 .. Top \subseteq T
    BY <1>1, <1>4, <1>5, UpTo
  <2> QED BY <1>1, <2>1
<1> HIDE DEF R
<1> QED BY <1>2, <1>3, <1>6

LEMMA TraversalEndsNow ==
  ASSUME Traversable PROVE TraversalEnds
<1> SUFFICES ASSUME NEW blocks \in BOOLEAN, NEW explode \in BOOLEAN
             PROVE  Traverse(blocks, explode, 0).status
                      = IF explode /\ Circular(blocks) THEN "endless" ELSE "going"
  BY DEF TraversalEnds
<1> DEFINE ids == ItemsOf(sections, "ENTITIES")
           bs == Listed(blocks)
           from == ShownBy(ids) \cup Range(bs)
<1>1. Start \in Traces /\ Going(Start) /\ bs \in Seq(BlockIds) /\ ids \in Seq(EntityIds)
  BY TraverseIs DEF Traversable
<1>2. PICK to : /\ Levels(to, explode, 0)
                /\ OneByOne(to[Top], Start, bs) \in Traces
                /\ Traverse(blocks, explode, 0)
                     = Traversed(to[Top], OneByOne(to[Top], Start, bs), explode, 0)
  BY TraverseIs
<1> DEFINE first == OneByOne(to[Top], Start, bs)
           E == [d \in 0 .. Top |-> Ending(to, d, Start)]
           H == Ending(to, Top, Start)
<1>3. Top \in Nat /\ Top # 0 /\ Top \in 0 .. Top /\ Top \in 1 .. Top /\ BlockIds \subseteq Ids
      /\ 0 \in 0 .. Top /\ \A d \in 1 .. Top : d \in 0 .. Top /\ d - 1 \in 0 .. Top
  BY IdsAre
<1>4. to[Top] \in Showers
  BY <1>2, <1>3 DEF Levels
<1>5. /\ Ending(to, 0, Start) = {}
      /\ \A d \in 1 .. Top : Ending(to, d, Start) = Over(explode, Ending(to, d - 1, Start))
      /\ Decides(to[Top], BlockIds, H)
  BY <1>1, <1>2, <1>3, LevelDecides
<1>6. \A s \in Traces, x \in BlockIds : to[Top][x][s] \in Traces
  BY <1>3, <1>4 DEF Showers
<1> HIDE DEF ids, bs
<1>7. first.status = Outcome(Range(bs) \subseteq H)
  BY <1>1, <1>5, <1>6, LoopDecides
<1>8. Traverse(blocks, explode, 0).status
        = Outcome(Range(bs) \subseteq H /\ (explode => ShownBy(ids) \subseteq H))
  <2>0. first \in Traces
    BY <1>2
  <2> HIDE DEF first, H
  <2>1. CASE Range(bs) \subseteq H
    <3>1. Going(first)
      BY <1>7, <2>1 DEF Outcome, Going
    <3>2. ShowAll(to[Top], first, ids, explode, 0).status
            = Outcome(explode => ShownBy(ids) \subseteq H)
      BY <1>1, <1>4, <1>5, <2>0, <3>1, ListDecides
    <3> QED BY <1>2, <2>1, <3>1, <3>2 DEF Traversed, first, ids, Outcome
  <2>2. CASE ~(Range(bs) \subseteq H)
    <3>1. first.status = "endless" /\ ~ Going(first)
      BY <1>7, <2>2 DEF Outcome, Going
    <3> QED BY <1>2, <2>2, <3>1 DEF Traversed, first, Outcome
  <2> QED BY <2>1, <2>2
<1>9. Range(bs) \subseteq BlockIds /\ ShownBy(ids) \subseteq BlockIds
  <2>1. \A k \in DOMAIN bs : bs[k] \in BlockIds
    BY <1>1, LenProperties, ElementOfSeq
  <2> QED BY <1>1, <2>1, ShownAreBlocks DEF Range
<1>10. CASE ~ explode
  <2>1. H = BlockIds
    BY <1>3, <1>5, <1>10 DEF Over
  <2> QED BY <1>8, <1>9, <1>10, <2>1 DEF Outcome
<1>11. CASE explode
  <2>1. Grades(E)
    <3>1. E \in [0 .. Top -> SUBSET BlockIds]
      BY DEF Ending
    <3>2. E[0] = {} /\ \A d \in 1 .. Top : E[d] = Over(TRUE, E[d - 1])
      BY <1>3, <1>5, <1>11
    <3> HIDE DEF E
    <3> QED BY <3>1, <3>2 DEF Grades
  <2>2. E[Top] = H
    BY <1>3
  <2> HIDE DEF E, H
  <2>3. from \in SUBSET BlockIds
    BY <1>9
  <2>4. Circular(blocks) <=> \E b \in Reached(from) : Loop(b)
    <3>1. Range(bs) = IF blocks THEN Range(ItemsOf(sections, "BLOCKS")) ELSE {}
      BY DEF bs, Listed, Range
    <3> QED BY <3>1 DEF Circular, Entered, Loop, ids
  <2> HIDE DEF from
  <2>5. from \subseteq H <=> ~ Circular(blocks)
    <3>1. ASSUME from \subseteq H, NEW b \in Reached(from) PROVE ~ Loop(b)
      BY <2>1, <2>2, <3>1, EndsNoLoop
    <3>2. ASSUME \A b \in Reached(from) : ~ Loop(b) PROVE from \subseteq H
      BY <2>1, <2>2, <2>3, <3>2, NoLoopEnds
    <3> QED BY <2>4, <3>1, <3>2
  <2>6. from \subseteq H <=> Range(bs) \subseteq H /\ (explode => ShownBy(ids) \subseteq H)
    BY <1>11 DEF from
  <2> QED BY <1>8, <1>11, <2>5, <2>6 DEF Outcome
<1> QED BY <1>10, <1>11

-----------------------------------------------------------------------------
(* A traversal that is told to stop, and one that is not.                  *)

Before(s, t) == Len(s) <= Len(t) /\ \A i \in 1 .. Len(s) : s[i] = t[i]
\* "no" is the last of s, and only the last
EndsWith(s, no) ==
  Len(s) > 0 /\ s[Len(s)] = no /\ \A i \in 1 .. Len(s) - 1 : s[i] # no
\* s is what a callback that answers FALSE to "no" has seen, w one that does not:
\* it was not shown yet, or has been shown at the end of s.
Heeds(s, w, no) ==
  \/ s = w /\ no \notin Range(w.seen)
  \/ s.status = "stopped" /\ Before(s.seen, w.seen) /\ EndsWith(s.seen, no)

LEMMA BeforeIs ==
  ASSUME NEW a \in Traces, NEW b \in Traces, NEW c \in Traces
  PROVE  /\ Before(a.seen, a.seen)
         /\ Before(a.seen, b.seen) /\ Before(b.seen, c.seen) => Before(a.seen, c.seen)
<1>1. Len(a.seen) \in Nat /\ Len(b.seen) \in Nat /\ Len(c.seen) \in Nat
  BY LenProperties DEF Traces
<1> QED BY <1>1 DEF Before

\* a stopped one stays as it is
LEMMA HeedsOn ==
  ASSUME NEW s \in Traces, NEW v \in Traces, NEW w \in Traces, NEW no,
         Heeds(s, v, no), s.status = "stopped", Going(v), Before(v.seen, w.seen)
  PROVE  Heeds(s, w, no)
<1>1. s # v
  BY DEF Going
<1> QED BY <1>1, BeforeIs DEF Heeds

\* a call of the callback
LEMMA CallHeeds ==
  ASSUME NEW r \in Traces, NEW e \in Int, e # 0, NEW no \in Int
  PROVE  /\ Before(r.seen, Call(r, e, 0).seen)
         /\ no \notin Range(r.seen) => Heeds(Call(r, e, no), Call(r, e, 0), no)
<1> DEFINE s == Call(r, e, no)
           w == Call(r, e, 0)
           t == r.seen
<1>1. /\ s \in Traces /\ s.seen = Append(t, e) /\ s.status = IF e = no THEN "stopped" ELSE r.status
      /\ w \in Traces /\ w.seen = Append(t, e) /\ w.status = r.status
  BY CallIs
<1>2. t \in Seq(Int)
  BY DEF Traces
<1>3. e # no => s = w
  BY DEF Call
<1> HIDE DEF s, w, t
<1>4. /\ Len(t) \in Nat /\ Len(Append(t, e)) = Len(t) + 1 /\ Append(t, e)[Len(t) + 1] = e
      /\ \A i \in 1 .. Len(t) : Append(t, e)[i] = t[i]
      /\ DOMAIN t = 1 .. Len(t) /\ DOMAIN Append(t, e) = 1 .. Len(t) + 1
  BY <1>2
<1> DEFINE u == Append(t, e)
<1> HIDE DEF u
<1>5. Before(t, u) /\ Before(u, u)
  BY <1>4 DEF Before, u
<1>6. ASSUME no \notin Range(t), e = no PROVE Heeds(s, w, no)
  <2>1. \A i \in 1 .. Len(t) : t[i] # no
    BY <1>4, <1>6 DEF Range
  <2>2. Len(u) = Len(t) + 1 /\ u[Len(t) + 1] = e /\ \A i \in 1 .. Len(t) : u[i] = t[i]
    BY <1>4 DEF u
  <2>3. EndsWith(u, no)
    BY <1>4, <1>6, <2>1, <2>2 DEF EndsWith
  <2> QED BY <1>1, <1>5, <1>6, <2>3 DEF Heeds, u
<1>7. ASSUME no \notin Range(t), e # no PROVE Heeds(s, w, no)
  <2>1. \A i \in 1 .. Len(t) + 1 : i = Len(t) + 1 \/ i \in 1 .. Len(t)
    BY <1>4
  <2>2. \A i \in DOMAIN u : u[i] # no
    BY <1>4, <1>7, <2>1 DEF Range, u
  <2>3. no \notin Range(w.seen)
    BY <1>1, <2>2 DEF Range, u
  <2> QED BY <1>3, <1>7, <2>3 DEF Heeds
<1> QED BY <1>1, <1>5, <1>6, <1>7 DEF u, s, w, t

\* "whole" shows with a callback that never answers FALSE, "part" with one that does
Pairs(whole, part, X, no) ==
  \A s \in Traces, x \in X :
    /\ whole[x][s] \in Traces /\ part[x][s] \in Traces
    /\ Before(s.seen, whole[x][s].seen)
    /\ Going(s) /\ no \notin Range(s.seen) /\ Going(whole[x][s])
         => Heeds(part[x][s], whole[x][s], no)

LEMMA LoopHeeds ==
  ASSUME NEW whole, NEW part, NEW X, NEW no, Pairs(whole, part, X, no), NEW xs \in Seq(X),
         NEW r \in Traces, NEW q \in Traces
  PROVE  /\ Before(r.seen, OneByOne(whole, r, xs).seen)
         /\ Heeds(q, r, no) /\ Going(OneByOne(whole, r, xs))
              => Heeds(OneByOne(part, q, xs), OneByOne(whole, r, xs), no)
<1> DEFINE n == Len(xs)
<1>1. n \in Nat /\ \A k \in 1 .. n : xs[k] \in X
  BY LenProperties, ElementOfSeq
<1>2. PICK f \in [0 .. n -> Traces] : Loops(whole, r, xs, f) /\ OneByOne(whole, r, xs) = f[n]
  <2>1. \A s \in Traces, x \in X : whole[x][s] \in Traces
    BY DEF Pairs
  <2> QED BY <2>1, OneByOneIs
<1>3. PICK g \in [0 .. n -> Traces] : Loops(part, q, xs, g) /\ OneByOne(part, q, xs) = g[n]
  <2>1. \A s \in Traces, x \in X : part[x][s] \in Traces
    BY DEF Pairs
  <2> QED BY <2>1, OneByOneIs
<1>4. /\ f[0] = r /\ \A k \in 1 .. n : f[k] = Turn(whole, f[k - 1], xs[k])
      /\ g[0] = q /\ \A k \in 1 .. n : g[k] = Turn(part, g[k - 1], xs[k])
  BY <1>2, <1>3 DEF Loops
<1> HIDE DEF n
<1> DEFINE P(s, w) == Before(r.seen, w.seen) /\ (Heeds(q, r, no) /\ Going(w) => Heeds(s, w, no))
           T == {k \in 0 .. n : P(g[k], f[k])}
<1>5. 0 \in T
  BY <1>1, <1>4, BeforeIs
<1>6. ASSUME NEW k \in 1 .. n, k - 1 \in T PROVE k \in T
  <2> DEFINE v == f[k - 1]
             s == g[k - 1]
             x == xs[k]
             w == whole[x][v]
  <2>1. k - 1 \in 0 .. n /\ k \in 0 .. n
    BY <1>1
  <2>2. v \in Traces /\ s \in Traces /\ x \in X
    BY <1>1, <2>1
  <2>3. P(s, v)
    BY <1>6
  <2>4. f[k] = Turn(whole, v, x) /\ g[k] = Turn(part, s, x)
    BY <1>4
  <2> HIDE DEF v, s, x
  <2>5. CASE ~ Going(v)
    <3>1. f[k] = v
      BY <2>4, <2>5 DEF Turn
    <3> QED BY <2>1, <2>3, <2>5, <3>1
  <2>6. CASE Going(v)
    <3>1. f[k] = w /\ w \in Traces /\ Before(v.seen, w.seen)
      BY <2>2, <2>4, <2>6 DEF Turn, Pairs
    <3>2. Heeds(q, r, no) => Heeds(s, v, no)
      BY <2>3, <2>6
    <3>3. Before(r.seen, w.seen)
      BY <2>2, <2>3, <3>1, BeforeIs
    <3>4. ASSUME Going(w), s = v, no \notin Range(v.seen) PROVE Heeds(g[k], w, no)
      <4>1. g[k] = part[x][v]
        BY <2>4, <2>6, <3>4 DEF Turn
      <4> QED BY <2>2, <2>6, <3>4, <4>1 DEF Pairs
    <3>5. ASSUME Heeds(q, r, no), s.status = "stopped" PROVE Heeds(g[k], w, no)
      <4>1. g[k] = s
        BY <2>4, <3>5 DEF Turn, Going
      <4> HIDE DEF w
      <4> QED BY <2>2, <2>6, <3>1, <3>2, <3>5, <4>1, HeedsOn
    <3> HIDE DEF w
    <3>6. Heeds(q, r, no) /\ Going(w) => Heeds(g[k], w, no)
      BY <3>2, <3>4, <3>5 DEF Heeds
    <3> QED BY <2>1, <3>1, <3>3, <3>6
  <2> QED BY <2>5, <2>6
<1>7. n \in T
  <2> HIDE DEF T
  <2>1. 0 .. n \subseteq T
    BY <1>1, <1>5, <1>6, UpTo
  <2> QED BY <1>1, <2>1
<1> QED BY <1>2, <1>3, <1>7

LEMMA EntityHeeds ==
  ASSUME Traversable, NEW whole \in Showers, NEW part \in Showers, NEW no \in Int,
         Pairs(whole, part, BlockIds, no), NEW explode
  PROVE  Pairs(ShowOne(whole, explode, 0), ShowOne(part, explode, no), EntityIds, no)
<1>1. ASSUME NEW r \in Traces, NEW e \in EntityIds
      PROVE  /\ Before(r.seen, Show(whole, r, e, explode, 0).seen)
             /\ Going(r) /\ no \notin Range(r.seen) /\ Going(Show(whole, r, e, explode, 0))
                  => Heeds(Show(part, r, e, explode, no), Show(whole, r, e, explode, 0), no)
  <2>1. e \in Ids /\ e \in Int /\ e # 0
    BY IdsAre DEF Ids
  <2>2. CASE Exploded(e, explode)
    <3> DEFINE xs == CellsOf(e)
               w == OneByOne(whole, r, xs)
               s == OneByOne(part, r, xs)
    <3>1. xs \in Seq(BlockIds)
      BY <2>1, <2>2, CellsAre
    <3>2. Show(whole, r, e, explode, 0) = w /\ Show(part, r, e, explode, no) = s
      BY <2>2 DEF Show, CellsOf
    <3> HIDE DEF xs
    <3>3. ASSUME Going(r), no \notin Range(r.seen)
          PROVE  Going(w) => Heeds(s, w, no)
      <4>1. Heeds(r, r, no)
        BY <3>3 DEF Heeds
      <4> QED BY <3>1, <4>1, LoopHeeds
    <3>4. Before(r.seen, w.seen)
      BY <3>1, LoopHeeds
    <3> HIDE DEF s, w
    <3> QED BY <3>2, <3>3, <3>4
  <2>3. CASE ~ Exploded(e, explode)
    <3>1. Show(whole, r, e, explode, 0) = (IF e \in deleted THEN r ELSE Call(r, e, 0))
          /\ Show(part, r, e, explode, no) = (IF e \in deleted THEN r ELSE Call(r, e, no))
      BY <2>3 DEF Show
    <3>2. CASE e \in deleted
      BY <3>1, <3>2, BeforeIs DEF Heeds
    <3>3. CASE e \notin deleted
      BY <2>1, <3>1, <3>3, CallHeeds
    <3> QED BY <3>2, <3>3
  <2> QED BY <2>2, <2>3
<1> DEFINE A == ShowOne(whole, explode, 0)
           B == ShowOne(part, explode, no)
<1>2. /\ \A e \in Ids, s \in Traces : A[e][s] = Show(whole, s, e, explode, 0)
      /\ \A e \in Ids, s \in Traces : B[e][s] = Show(part, s, e, explode, no)
      /\ A \in Showers /\ B \in Showers
  BY ShowOneTyped
<1> HIDE DEF A, B
<1>3. ASSUME NEW s \in Traces, NEW x \in EntityIds
      PROVE  /\ A[x][s] \in Traces /\ B[x][s] \in Traces
             /\ A[x][s] = Show(whole, s, x, explode, 0) /\ B[x][s] = Show(part, s, x, explode, no)
  BY <1>2, IdsAre DEF Showers
<1>4. Pairs(A, B, EntityIds, no)
  BY <1>1, <1>3 DEF Pairs
<1> QED BY <1>4 DEF A, B

\* the members of a block, and any list
LEMMA ListHeeds ==
  ASSUME Traversable, NEW whole \in Showers, NEW part \in Showers, NEW no \in Int,
         Pairs(whole, part, BlockIds, no), NEW explode,
         NEW ids \in Seq(EntityIds), NEW r \in Traces, NEW q \in Traces
  PROVE  /\ Before(r.seen, ShowAll(whole, r, ids, explode, 0).seen)
         /\ Heeds(q, r, no) /\ Going(ShowAll(whole, r, ids, explode, 0))
              => Heeds(ShowAll(part, q, ids, explode, no), ShowAll(whole, r, ids, explode, 0), no)
<1> DEFINE A == ShowOne(whole, explode, 0)
           B == ShowOne(part, explode, no)
<1>1. Pairs(A, B, EntityIds, no)
  BY EntityHeeds
<1>2. /\ ShowAll(whole, r, ids, explode, 0) = OneByOne(A, r, ids)
      /\ ShowAll(part, q, ids, explode, no) = OneByOne(B, q, ids)
  BY ShowAllIs
<1> HIDE DEF A, B
<1> QED BY <1>1, <1>2, LoopHeeds

\* A callback that answers FALSE to something that is not a BLOCK.
LEMMA BlockHeeds ==
  ASSUME Traversable, NEW whole \in Showers, NEW part \in Showers,
         NEW no \in Int \ BlockIds, Pairs(whole, part, BlockIds, no), NEW explode,
         NEW r \in Traces, NEW b \in BlockIds
  PROVE  /\ Before(r.seen, ShowBlock(whole, r, b, explode, 0).seen)
         /\ no \notin Range(r.seen) /\ Going(ShowBlock(whole, r, b, explode, 0))
              => Heeds(ShowBlock(part, r, b, explode, no), ShowBlock(whole, r, b, explode, 0), no)
<1> DEFINE v == BeginsBlock(r, b)
           w == ShowsMembers(whole, v, b, explode, 0)
           s == ShowsMembers(part, v, b, explode, no)
           w1 == EndsBlock(w, b, 0)
           s1 == EndsBlock(s, b, no)
<1>1. b \in Ids /\ b \in Int /\ b # 0 /\ b # no /\ -b \in Int /\ -b # 0
  BY IdsAre DEF Ids
<1>2. /\ v \in Traces /\ w \in Traces /\ s \in Traces /\ w1 \in Traces
      /\ ShowBlock(whole, r, b, explode, 0) = w1 /\ ShowBlock(part, r, b, explode, no) = s1
  BY <1>1, ShowBlockIs
<1>3. obj[b].members \in Seq(EntityIds)
  BY <1>1 DEF Traversable
<1>4. v.seen = Append(r.seen, b) /\ r.seen \in Seq(Int)
  BY DEF BeginsBlock, Traces
<1>5. Before(r.seen, v.seen) /\ (no \notin Range(r.seen) => no \notin Range(v.seen))
  <2> DEFINE t == r.seen
             u == Append(t, b)
  <2>1. t \in Seq(Int)
    BY <1>4
  <2> HIDE DEF t
  <2>2. /\ Len(t) \in Nat /\ Len(u) = Len(t) + 1 /\ u[Len(t) + 1] = b
        /\ DOMAIN t = 1 .. Len(t) /\ DOMAIN u = 1 .. Len(t) + 1
        /\ \A i \in 1 .. Len(t) : u[i] = t[i]
    BY <1>1, <2>1
  <2> HIDE DEF u
  <2>3. \A i \in 1 .. Len(t) + 1 : i = Len(t) + 1 \/ i \in 1 .. Len(t)
    BY <2>2
  <2>4. Before(t, u)
    BY <2>2 DEF Before
  <2>5. no \notin Range(t) => no \notin Range(u)
    BY <1>1, <2>2, <2>3 DEF Range
  <2> QED BY <1>4, <2>4, <2>5 DEF t, u
<1>6. /\ w = ShowAll(whole, v, obj[b].members, explode, 0)
      /\ s = ShowAll(part, v, obj[b].members, explode, no)
  BY <1>1 DEF ShowsMembers
<1> HIDE DEF v
<1>7. Before(v.seen, w.seen) /\ (Heeds(v, v, no) /\ Going(w) => Heeds(s, w, no))
  BY <1>2, <1>3, <1>6, ListHeeds
<1> HIDE DEF w, s
<1>8. Before(w.seen, w1.seen)
  <2>1. Before(w.seen, w.seen)
    BY <1>2, BeforeIs
  <2>2. Before(w.seen, Call(w, -b, 0).seen)
    BY <1>1, <1>2, CallHeeds
  <2> QED BY <2>1, <2>2 DEF EndsBlock
<1>9. ASSUME no \notin Range(r.seen), Going(w1) PROVE Heeds(s1, w1, no)
  <2>1. Heeds(v, v, no)
    BY <1>5, <1>9 DEF Heeds
  <2>2. Going(w)
    <3>1. Call(w, -b, 0).status = w.status
      BY <1>1, <1>2, CallIs
    <3> QED BY <1>9, <3>1 DEF EndsBlock, Going
  <2>3. Heeds(s, w, no)
    BY <1>7, <2>1, <2>2
  <2>4. CASE s = w /\ no \notin Range(w.seen)
    <3>1. CASE b \in built
      BY <2>3, <3>1 DEF EndsBlock
    <3>2. CASE b \notin built
      <4>1. w1 = Call(w, -b, 0) /\ s1 = Call(w, -b, no)
        BY <2>2, <2>4, <3>2 DEF EndsBlock, Going
      <4>2. Heeds(Call(w, -b, no), Call(w, -b, 0), no)
        BY <1>1, <1>2, <2>4, CallHeeds
      <4> QED BY <4>1, <4>2
    <3> QED BY <3>1, <3>2
  <2>5. CASE s.status = "stopped"
    <3>1. s1 = s
      BY <2>5 DEF EndsBlock
    <3> HIDE DEF w1, s1
    <3> QED BY <1>2, <1>8, <2>2, <2>3, <2>5, <3>1, HeedsOn
  <2> QED BY <2>3, <2>4, <2>5 DEF Heeds
<1> HIDE DEF w1, s1
<1>10. Before(r.seen, w1.seen)
  <2>1. Before(r.seen, w.seen)
    BY <1>2, <1>5, <1>7, BeforeIs
  <2> QED BY <1>2, <1>8, <2>1, BeforeIs
<1> QED BY <1>2, <1>9, <1>10

LEMMA LevelHeeds ==
  ASSUME Traversable, NEW explode, NEW no \in Int \ BlockIds,
         NEW to, Levels(to, explode, 0), NEW up, Levels(up, explode, no)
  PROVE  Pairs(to[Top], up[Top], BlockIds, no)
<1> DEFINE T == {d \in 0 .. Top : Pairs(to[d], up[d], BlockIds, no)}
<1>1. Top \in Nat /\ BlockIds \subseteq Ids /\ Top \in 0 .. Top /\ 0 \in 0 .. Top
      /\ \A d \in 1 .. Top : d \in 0 .. Top /\ d - 1 \in 0 .. Top
  BY IdsAre
<1>2. ASSUME NEW d \in 0 .. Top, NEW s \in Traces, NEW x \in BlockIds
      PROVE  to[d][x][s] \in Traces /\ up[d][x][s] \in Traces
  <2>1. to[d] \in Showers /\ up[d] \in Showers
    BY DEF Levels
  <2> QED BY <1>1, <2>1 DEF Showers
<1>3. 0 \in T
  <2>1. ASSUME NEW s \in Traces, NEW x \in BlockIds
        PROVE  Before(s.seen, to[0][x][s].seen) /\ ~ Going(to[0][x][s])
    <3>1. to[0][x][s] = [s EXCEPT !.status = "endless"]
      BY <1>1 DEF Levels
    <3>2. to[0][x][s].seen = s.seen /\ to[0][x][s].status = "endless"
      BY <3>1 DEF Traces
    <3> QED BY <3>2, BeforeIs DEF Going
  <2> QED BY <1>1, <1>2, <2>1 DEF Pairs
<1>4. ASSUME NEW d \in 1 .. Top, d - 1 \in T PROVE d \in T
  <2>1. to[d - 1] \in Showers /\ up[d - 1] \in Showers
        /\ Pairs(to[d - 1], up[d - 1], BlockIds, no)
    BY <1>1, <1>4 DEF Levels
  <2>2. ASSUME NEW s \in Traces, NEW x \in BlockIds
        PROVE  /\ to[d][x][s] = ShowBlock(to[d - 1], s, x, explode, 0)
               /\ up[d][x][s] = ShowBlock(up[d - 1], s, x, explode, no)
    BY <1>1 DEF Levels
  <2>3. ASSUME NEW s \in Traces, NEW x \in BlockIds
        PROVE  /\ Before(s.seen, to[d][x][s].seen)
               /\ no \notin Range(s.seen) /\ Going(to[d][x][s])
                    => Heeds(up[d][x][s], to[d][x][s], no)
    BY <2>1, <2>2, BlockHeeds
  <2>4. Pairs(to[d], up[d], BlockIds, no)
    BY <1>1, <1>2, <2>3 DEF Pairs
  <2> QED BY <1>1, <2>4
<1>5. 0 .. Top \subseteq T
  <2> HIDE DEF T
  <2> QED BY <1>1, <1>3, <1>4, UpTo
<1> QED BY <1>1, <1>5

LEMMA TraverseHeeds ==
  ASSUME Traversable, NEW blocks \in BOOLEAN, NEW explode \in BOOLEAN, NEW no \in Int \ BlockIds,
         Going(Traverse(blocks, explode, 0))
  PROVE  Heeds(Traverse(blocks, explode, no), Traverse(blocks, explode, 0), no)
<1> DEFINE bs == Listed(blocks)
           ids == ItemsOf(sections, "ENTITIES")
<1>1. Start \in Traces /\ bs \in Seq(BlockIds) /\ ids \in Seq(EntityIds)
  BY TraverseIs DEF Traversable
<1>2. PICK to : /\ Levels(to, explode, 0)
                /\ OneByOne(to[Top], Start, bs) \in Traces
                /\ Traverse(blocks, explode, 0)
                     = Traversed(to[Top], OneByOne(to[Top], Start, bs), explode, 0)
  BY TraverseIs
<1>3. PICK up : /\ Levels(up, explode, no)
                /\ OneByOne(up[Top], Start, bs) \in Traces
                /\ Traverse(blocks, explode, no)
                     = Traversed(up[Top], OneByOne(up[Top], Start, bs), explode, no)
  BY TraverseIs
<1> HIDE DEF bs
<1> DEFINE w == OneByOne(to[Top], Start, bs)
           s == OneByOne(up[Top], Start, bs)
<1>4. Pairs(to[Top], up[Top], BlockIds, no)
  BY <1>2, <1>3, LevelHeeds
<1>5. to[Top] \in Showers /\ up[Top] \in Showers
  BY <1>2, <1>3, IdsAre DEF Levels
<1>6. Heeds(Start, Start, no)
  BY DEF Heeds, Start, Range
<1>7. Going(w) => Heeds(s, w, no)
  BY <1>1, <1>4, <1>6, LoopHeeds
<1>8. w \in Traces /\ s \in Traces
  BY <1>2, <1>3
<1>9. /\ Traverse(blocks, explode, 0) = Traversed(to[Top], w, explode, 0)
      /\ Traverse(blocks, explode, no) = Traversed(up[Top], s, explode, no)
  BY <1>2, <1>3
<1> HIDE DEF w, s
<1> DEFINE w1 == ShowAll(to[Top], w, ids, explode, 0)
           s1 == ShowAll(up[Top], s, ids, explode, no)
<1>10. Going(w) /\ Traverse(blocks, explode, 0) = w1
  BY <1>9 DEF Traversed
<1>11. Before(w.seen, w1.seen) /\ (Heeds(s, w, no) /\ Going(w1) => Heeds(s1, w1, no))
  BY <1>1, <1>4, <1>5, <1>8, ListHeeds
<1>12. Going(w1) /\ w1 \in Traces
  <2> HIDE DEF ids
  <2> QED BY <1>1, <1>5, <1>8, <1>10, ShowAllTyped
<1>13. CASE s.status = "stopped"
  <2>1. Traverse(blocks, explode, no) = s
    BY <1>9, <1>13 DEF Traversed, Going
  <2> HIDE DEF w1
  <2> QED BY <1>7, <1>8, <1>10, <1>11, <1>12, <1>13, <2>1, HeedsOn
<1>14. CASE s = w
  <2>1. Traverse(blocks, explode, no) = s1
    BY <1>9, <1>10, <1>14 DEF Traversed
  <2> HIDE DEF w1, s1
  <2> QED BY <1>7, <1>10, <1>11, <1>12, <2>1
<1> QED BY <1>7, <1>10, <1>13, <1>14 DEF Heeds

LEMMA StopsNow ==
  ASSUME Traversable PROVE StopsAtOnce
<1> SUFFICES ASSUME NEW blocks \in BOOLEAN, NEW explode \in BOOLEAN,
                    Traverse(blocks, explode, 0).status = "going",
                    NEW no \in Range(Traverse(blocks, explode, 0).seen),
                    no < 0 \/ obj[no].kind # "BLOCK"
             PROVE  /\ Traverse(blocks, explode, no).status = "stopped"
                    /\ IsPrefix(Traverse(blocks, explode, no).seen, Traverse(blocks, explode, 0).seen)
                    /\ Occurs(no, Traverse(blocks, explode, no).seen) = 1
                    /\ Last(Traverse(blocks, explode, no).seen) = no
  BY DEF StopsAtOnce
<1> DEFINE whole == Traverse(blocks, explode, 0)
           r == Traverse(blocks, explode, no)
<1>1. whole \in Traces /\ r \in Traces
  <2>1. ASSUME NEW n PROVE Traverse(blocks, explode, n) \in Traces
    <3> DEFINE bs == Listed(blocks)
               ids == ItemsOf(sections, "ENTITIES")
    <3>1. PICK to : /\ Levels(to, explode, n)
                    /\ OneByOne(to[Top], Start, bs) \in Traces
                    /\ Traverse(blocks, explode, n)
                         = Traversed(to[Top], OneByOne(to[Top], Start, bs), explode, n)
      BY TraverseIs
    <3>2. to[Top] \in Showers /\ ids \in Seq(EntityIds)
      BY <3>1, IdsAre DEF Levels, Traversable
    <3> HIDE DEF bs
    <3> DEFINE first == OneByOne(to[Top], Start, bs)
    <3>3. first \in Traces
      BY <3>1
    <3> HIDE DEF first, ids
    <3>4. ShowAll(to[Top], first, ids, explode, n) \in Traces
      BY <3>2, <3>3, ShowAllTyped
    <3> QED BY <3>1, <3>3, <3>4 DEF Traversed, first, ids
  <2> QED BY <2>1
<1>2. no \in Int /\ no \notin BlockIds
  <2>1. whole.seen \in Seq(Int)
    BY <1>1 DEF Traces
  <2>2. no \in Int
    <3>1. \A k \in DOMAIN whole.seen : whole.seen[k] \in Int
      BY <2>1, LenProperties, ElementOfSeq
    <3> QED BY <3>1 DEF Range
  <2> QED BY <2>2 DEF BlockIds, Ids
<1>3. Heeds(r, whole, no)
  BY <1>2, TraverseHeeds DEF Going
<1>4. no \in Range(whole.seen)
  OBVIOUS
<1> HIDE DEF whole, r
<1> DEFINE s == r.seen
           t == whole.seen
<1>5. r.status = "stopped" /\ Before(s, t) /\ EndsWith(s, no)
  BY <1>3, <1>4 DEF Heeds
<1>6. s \in Seq(Int) /\ t \in Seq(Int)
  BY <1>1 DEF Traces
<1> HIDE DEF s, t
<1>7. Len(s) \in Nat /\ Len(t) \in Nat /\ DOMAIN s = 1 .. Len(s)
  BY <1>6
<1>8. IsPrefix(s, t)
  <2>1. SubSeq(s, 1, Len(s)) = [i \in 1 .. Len(s) |-> s[i]]
    BY <1>6, <1>7
  <2>2. SubSeq(t, 1, Len(s)) = [i \in 1 .. Len(s) |-> t[i]]
    BY <1>5, <1>6, <1>7 DEF Before
  <2> QED BY <1>5, <2>1, <2>2 DEF Before, IsPrefix
<1>9. Last(s) = no
  BY <1>5 DEF EndsWith, Last
<1>10. Occurs(no, s) = 1
  <2>1. {i \in DOMAIN s : s[i] = no} = {Len(s)}
    <3>1. ASSUME NEW i \in 1 .. Len(s), i # Len(s) PROVE s[i] # no
      <4>1. i \in 1 .. Len(s) - 1
        <5> DEFINE n == Len(s)
        <5>1. n \in Nat /\ i \in 1 .. n /\ i # n
          BY <1>7, <3>1
        <5> HIDE DEF n
        <5>2. i \in 1 .. n - 1
          BY <5>1
        <5> QED BY <5>2 DEF n
      <4> QED BY <1>5, <4>1 DEF EndsWith
    <3>2. Len(s) \in 1 .. Len(s) /\ s[Len(s)] = no
      BY <1>5, <1>7 DEF EndsWith
    <3> QED BY <1>7, <3>1, <3>2
  <2> QED BY <2>1, FS_Singleton DEF Occurs
<1> QED BY <1>5, <1>8, <1>9, <1>10 DEF s, t, r, whole

-----------------------------------------------------------------------------
(* Sums and occurrences.                                                   *)

Sums(t, n, f) == t[0] = 0 /\ \A k \in 1 .. n : t[k] = t[k - 1] + f[k]

LEMMA SumIs ==
  ASSUME NEW n \in Nat, NEW f \in [1 .. n -> Int]
  PROVE  \E t \in [0 .. n -> Int] : Sums(t, n, f) /\ Sum(f) = t[n]
<1> DEFINE Body(h, k) == IF k = 0 THEN 0 ELSE h[k - 1] + f[k]
           Eq(h) == h = [k \in 0 .. n |-> Body(h, k)]
           g == [k \in 1 .. n |-> [v \in Int |-> v + f[k]]]
           after == CHOOSE h : Eq(h)
<1>1. \A k \in 1 .. n : k - 1 \in 0 .. n /\ k \in 0 .. n /\ k # 0
  OBVIOUS
<1>2. Sum(f) = after[n]
  <2>1. f \in Seq(Int) /\ Len(f) = n
    BY LenProperties, SeqDef
  <2> QED BY <2>1 DEF Sum, Fold
<1>3. g \in [1 .. n -> [Int -> Int]]
  OBVIOUS
<1>4. 0 \in Int
  OBVIOUS
<1>5. PICK h \in [0 .. n -> Int] : Follows(h, n, 0, g)
  BY <1>3, <1>4, Recursion
<1>6. Eq(h)
  <2>1. h[0] = 0 /\ \A k \in 1 .. n : h[k] = h[k - 1] + f[k]
    BY <1>1, <1>5 DEF Follows
  <2>2. \A k \in 0 .. n : k # 0 => k \in 1 .. n
    OBVIOUS
  <2>3. \A k \in 0 .. n : h[k] = Body(h, k)
    BY <2>1, <2>2
  <2> QED BY <2>3
<1>7. Eq(after)
  <2> HIDE DEF Eq
  <2> QED BY <1>6
<1> HIDE DEF after
<1>8. (\A k \in 0 .. n : after[k] = Body(after, k)) /\ after = [k \in 0 .. n |-> after[k]]
  <2> DEFINE q == [k \in 0 .. n |-> Body(after, k)]
  <2>1. after = q
    BY <1>7
  <2>2. (\A k \in 0 .. n : q[k] = Body(after, k)) /\ q = [k \in 0 .. n |-> q[k]]
    OBVIOUS
  <2> HIDE DEF q
  <2> QED BY <2>1, <2>2
<1>9. Sums(after, n, f)
  <2>1. after[0] = 0
    <3>1. 0 \in 0 .. n
      OBVIOUS
    <3> QED BY <1>8, <3>1
  <2>2. \A k \in 1 .. n : after[k] = after[k - 1] + f[k]
    BY <1>1, <1>8
  <2> QED BY <2>1, <2>2 DEF Sums
<1> DEFINE T == {k \in 0 .. n : after[k] \in Int}
<1>10. 0 .. n \subseteq T
  <2>1. 0 \in T
    BY <1>9 DEF Sums
  <2>2. ASSUME NEW k \in 1 .. n, k - 1 \in T PROVE k \in T
    BY <1>1, <1>9, <2>2 DEF Sums
  <2> HIDE DEF T
  <2> QED BY <2>1, <2>2, UpTo
<1>11. after \in [0 .. n -> Int]
  BY <1>8, <1>10
<1> QED BY <1>2, <1>9, <1>11

LEMMA SumAdds ==
  ASSUME NEW n \in Nat, NEW f \in [1 .. n -> Int], NEW g \in [1 .. n -> Int],
         NEW h \in [1 .. n -> Int], \A k \in 1 .. n : h[k] = f[k] + g[k]
  PROVE  Sum(f) \in Int /\ Sum(g) \in Int /\ Sum(h) = Sum(f) + Sum(g)
<1>1. PICK t \in [0 .. n -> Int] : Sums(t, n, f) /\ Sum(f) = t[n]
  BY SumIs
<1>2. PICK u \in [0 .. n -> Int] : Sums(u, n, g) /\ Sum(g) = u[n]
  BY SumIs
<1>3. PICK v \in [0 .. n -> Int] : Sums(v, n, h) /\ Sum(h) = v[n]
  BY SumIs
<1> DEFINE T == {k \in 0 .. n : v[k] = t[k] + u[k]}
<1>4. 0 \in T
  BY <1>1, <1>2, <1>3 DEF Sums
<1>5. ASSUME NEW k \in 1 .. n, k - 1 \in T PROVE k \in T
  <2>1. k - 1 \in 0 .. n /\ k \in 0 .. n /\ v[k - 1] = t[k - 1] + u[k - 1]
    BY <1>5
  <2>2. t[k] = t[k - 1] + f[k] /\ u[k] = u[k - 1] + g[k] /\ v[k] = v[k - 1] + h[k]
    BY <1>1, <1>2, <1>3 DEF Sums
  <2>3. t[k - 1] \in Int /\ u[k - 1] \in Int /\ f[k] \in Int /\ g[k] \in Int
    BY <2>1
  <2>4. v[k] = (t[k - 1] + u[k - 1]) + (f[k] + g[k])
    BY <2>1, <2>2
  <2> QED BY <2>1, <2>2, <2>3, <2>4
<1>6. n \in T
  <2> HIDE DEF T
  <2>1. 0 .. n \subseteq T
    BY <1>4, <1>5, UpTo
  <2> QED BY <2>1
<1> QED BY <1>1, <1>2, <1>3, <1>6

\* of numbers that are 0 but for one
LEMMA SumAt ==
  ASSUME NEW n \in Nat, NEW f \in [1 .. n -> Int], NEW i \in 1 .. n,
         \A k \in 1 .. n : k # i => f[k] = 0
  PROVE  Sum(f) = f[i]
<1>1. PICK t \in [0 .. n -> Int] : Sums(t, n, f) /\ Sum(f) = t[n]
  BY SumIs
<1> DEFINE T == {k \in 0 .. n : t[k] = IF k < i THEN 0 ELSE f[i]}
<1>2. 0 \in T
  BY <1>1 DEF Sums
<1>3. ASSUME NEW k \in 1 .. n, k - 1 \in T PROVE k \in T
  <2>1. k \in 0 .. n /\ t[k] = t[k - 1] + f[k] /\ f[k] \in Int /\ f[i] \in Int
    BY <1>1 DEF Sums
  <2>2. t[k - 1] = IF k - 1 < i THEN 0 ELSE f[i]
    BY <1>3
  <2>3. CASE k < i
    BY <2>1, <2>2, <2>3
  <2>4. CASE k = i
    BY <2>1, <2>2, <2>4
  <2>5. CASE k > i
    BY <2>1, <2>2, <2>5
  <2> QED BY <2>3, <2>4, <2>5
<1>4. n \in T
  <2> HIDE DEF T
  <2>1. 0 .. n \subseteq T
    BY <1>2, <1>3, UpTo
  <2> QED BY <2>1
<1> QED BY <1>1, <1>4

LEMMA SumNothing ==
  ASSUME NEW n \in Nat, NEW f \in [1 .. n -> Int], \A k \in 1 .. n : f[k] = 0
  PROVE  Sum(f) = 0
<1>1. Sum(f) \in Int /\ Sum(f) = Sum(f) + Sum(f)
  BY SumAdds
<1> QED BY <1>1

\* how often x is among the first k of s
Among(x, s, k) == Cardinality({i \in 1 .. k : s[i] = x})

LEMMA AmongIs ==
  ASSUME NEW x, NEW s
  PROVE  /\ Among(x, s, 0) = 0
         /\ \A k \in Nat : Among(x, s, k) \in Nat
         /\ \A k \in Nat \ {0} : Among(x, s, k) = Among(x, s, k - 1) + IF s[k] = x THEN 1 ELSE 0
<1> DEFINE A(k) == {i \in 1 .. k : s[i] = x}
<1>1. A(0) = {}
  OBVIOUS
<1>2. Among(x, s, 0) = 0
  BY <1>1, FS_EmptySet DEF Among
<1>3. ASSUME NEW k \in Nat PROVE IsFiniteSet(A(k)) /\ Cardinality(A(k)) \in Nat
  <2>1. IsFiniteSet(1 .. k) /\ A(k) \subseteq 1 .. k
    BY FS_Interval
  <2> HIDE DEF A
  <2> QED BY <2>1, FS_Subset, FS_CardinalityType
<1>4. ASSUME NEW k \in Nat \ {0}
      PROVE  Cardinality(A(k)) = Cardinality(A(k - 1)) + IF s[k] = x THEN 1 ELSE 0
  <2>1. k - 1 \in Nat
    OBVIOUS
  <2>2. IsFiniteSet(A(k - 1)) /\ Cardinality(A(k - 1)) \in Nat
    BY <1>3, <2>1
  <2>3. k \notin A(k - 1) /\ A(k) = IF s[k] = x THEN A(k - 1) \cup {k} ELSE A(k - 1)
    <3>1. \A i : i \in 1 .. k <=> i = k \/ i \in 1 .. k - 1
      OBVIOUS
    <3>2. k \notin 1 .. k - 1
      OBVIOUS
    <3> QED BY <3>1, <3>2
  <2> HIDE DEF A
  <2>4. Cardinality(A(k - 1) \cup {k}) = Cardinality(A(k - 1)) + 1
    BY <2>2, <2>3, FS_AddElement
  <2> QED BY <2>2, <2>3, <2>4
<1> QED BY <1>2, <1>3, <1>4 DEF Among

LEMMA OccursIs ==
  ASSUME NEW S, NEW s \in Seq(S), NEW x
  PROVE  Occurs(x, s) = Among(x, s, Len(s)) /\ Occurs(x, s) \in Nat
<1>1. DOMAIN s = 1 .. Len(s) /\ Len(s) \in Nat
  OBVIOUS
<1>2. Occurs(x, s) = Among(x, s, Len(s))
  BY <1>1 DEF Occurs, Among
<1>3. \A k \in Nat : Among(x, s, k) \in Nat
  BY AmongIs
<1> QED BY <1>1, <1>2, <1>3

LEMMA OccursAppend ==
  ASSUME NEW s \in Seq(Int), NEW e \in Int, NEW x
  PROVE  Occurs(x, Append(s, e)) = Occurs(x, s) + IF x = e THEN 1 ELSE 0
<1> DEFINE t == Append(s, e)
           n == Len(s)
<1>1. /\ n \in Nat /\ t \in Seq(Int) /\ Len(t) = n + 1 /\ t[n + 1] = e
      /\ \A i \in 1 .. n : t[i] = s[i]
  OBVIOUS
<1>2. Occurs(x, s) = Among(x, s, n) /\ Occurs(x, t) = Among(x, t, Len(t))
  BY <1>1, OccursIs
<1> HIDE DEF t, n
<1>3. Among(x, t, n + 1) = Among(x, t, n) + IF t[n + 1] = x THEN 1 ELSE 0
  <2>1. n + 1 \in Nat \ {0} /\ (n + 1) - 1 = n
    BY <1>1
  <2>2. \A k \in Nat \ {0} : Among(x, t, k) = Among(x, t, k - 1) + IF t[k] = x THEN 1 ELSE 0
    BY AmongIs
  <2> DEFINE m == n + 1
  <2>3. Among(x, t, m) = Among(x, t, m - 1) + IF t[m] = x THEN 1 ELSE 0
    <3> HIDE DEF m
    <3> QED BY <2>1, <2>2 DEF m
  <2> QED BY <2>1, <2>3
<1>4. {i \in 1 .. n : t[i] = x} = {i \in 1 .. n : s[i] = x}
  BY <1>1
<1>5. Among(x, t, n) = Among(x, s, n)
  BY <1>4 DEF Among
<1> QED BY <1>1, <1>2, <1>3, <1>5 DEF t

\* nothing that is not in it, and what is in it once
LEMMA OccursOnce ==
  ASSUME NEW S, NEW s \in Seq(S), NEW x
  PROVE  /\ x \notin Range(s) => Occurs(x, s) = 0
         /\ x \in Range(s) /\ (\A i, j \in DOMAIN s : s[i] = s[j] => i = j) => Occurs(x, s) = 1
<1>1. ASSUME x \notin Range(s) PROVE Occurs(x, s) = 0
  <2>1. {i \in DOMAIN s : s[i] = x} = {}
    BY <1>1 DEF Range
  <2> QED BY <2>1, FS_EmptySet DEF Occurs
<1>2. ASSUME x \in Range(s), \A i, j \in DOMAIN s : s[i] = s[j] => i = j PROVE Occurs(x, s) = 1
  <2>1. PICK j \in DOMAIN s : s[j] = x
    BY <1>2 DEF Range
  <2>2. {i \in DOMAIN s : s[i] = x} = {j}
    BY <1>2, <2>1
  <2> QED BY <2>2, FS_Singleton DEF Occurs
<1> QED BY <1>1, <1>2

-----------------------------------------------------------------------------
(* What is shown, and how often.                                           *)

\* where D is how often each is shown, and W how often it would be shown, were
\* it neither deleted nor exploded:
Holding(D, e) == [b \in Ids |-> IF e \in Range(obj[b].members) THEN D[b] ELSE 0]
CellsTo(W, b, explode) ==
  [i \in Ids |-> IF Exploded(i, explode) /\ obj[i].block = b THEN W[i] * Times(i) ELSE 0]

\* each is shown as often as it is in the lists gone through (U), and as the blocks
\* that hold it and the INSERTs that show it
Balanced(D, W, U, explode) ==
  /\ D \in [Int -> Int] /\ W \in [Ids -> Int] /\ U \in [Ids -> Int]
  /\ \A e \in EntityIds :
       /\ W[e] = U[e] + Sum(Holding(D, e))
       /\ D[e] = IF e \in deleted \/ Exploded(e, explode) THEN 0 ELSE W[e]
  /\ \A b \in BlockIds :
       /\ D[b] = U[b] + Sum(CellsTo(W, b, explode))
       /\ D[-b] = IF b \in built THEN 0 ELSE D[b]

Plus(f, g) == [x \in DOMAIN f |-> f[x] + g[x]]
Unit(x) == [y \in Ids |-> IF y = x THEN 1 ELSE 0]
Nothing == [y \in Ids |-> 0]

LEMMA Distributes == \A a, b, c \in Int : a * c \in Int /\ (a + b) * c = a * c + b * c
  OBVIOUS

LEMMA HoldingTyped ==
  ASSUME Traversable, NEW D \in [Int -> Int], NEW e
  PROVE  Holding(D, e) \in [1 .. Len(obj) -> Int]
<1>1. Ids = 1 .. Len(obj) /\ Ids \subseteq Int
  BY IdsAre DEF Ids
<1>2. \A b \in Ids : D[b] \in Int
  BY <1>1
<1>3. Holding(D, e) \in [Ids -> Int]
  BY <1>2 DEF Holding
<1> QED BY <1>1, <1>3

LEMMA CellsTyped ==
  ASSUME Traversable, NEW W \in [Ids -> Int], NEW b, NEW explode
  PROVE  CellsTo(W, b, explode) \in [1 .. Len(obj) -> Int]
<1>1. Ids = 1 .. Len(obj)
  BY DEF Ids
<1>2. \A i \in Ids : W[i] \in Int /\ Times(i) \in Int
  BY DEF Traversable
<1>3. \A i \in Ids : W[i] * Times(i) \in Int
  BY <1>2, Distributes
<1>4. CellsTo(W, b, explode) \in [Ids -> Int]
  BY <1>3 DEF CellsTo
<1> QED BY <1>1, <1>4

\* What is shown one after the other is added.
LEMMA BalancedAdds ==
  ASSUME Traversable, NEW explode,
         NEW D1, NEW W1, NEW U1, Balanced(D1, W1, U1, explode),
         NEW D2, NEW W2, NEW U2, Balanced(D2, W2, U2, explode)
  PROVE  Balanced(Plus(D1, D2), Plus(W1, W2), Plus(U1, U2), explode)
<1> DEFINE D == Plus(D1, D2)
           W == Plus(W1, W2)
           U == Plus(U1, U2)
           N == Len(obj)
<1>1. /\ D1 \in [Int -> Int] /\ W1 \in [Ids -> Int] /\ U1 \in [Ids -> Int]
      /\ D2 \in [Int -> Int] /\ W2 \in [Ids -> Int] /\ U2 \in [Ids -> Int]
  BY DEF Balanced
<1>2. /\ D \in [Int -> Int] /\ W \in [Ids -> Int] /\ U \in [Ids -> Int]
      /\ \A x \in Int : D[x] = D1[x] + D2[x]
      /\ \A x \in Ids : W[x] = W1[x] + W2[x] /\ U[x] = U1[x] + U2[x]
  BY <1>1 DEF Plus
<1> HIDE DEF D, W, U
<1>3. N \in Nat /\ Ids = 1 .. N /\ Ids \subseteq Int /\ BlockIds \subseteq Ids /\ EntityIds \subseteq Ids
  BY IdsAre DEF Traversable, Ids
<1>4. ASSUME NEW e \in EntityIds
      PROVE  /\ W[e] = U[e] + Sum(Holding(D, e))
             /\ D[e] = IF e \in deleted \/ Exploded(e, explode) THEN 0 ELSE W[e]
  <2> DEFINE f == Holding(D1, e)
             g == Holding(D2, e)
             h == Holding(D, e)
  <2>1. f \in [1 .. N -> Int] /\ g \in [1 .. N -> Int] /\ h \in [1 .. N -> Int]
    BY <1>1, <1>2, HoldingTyped
  <2>2. ASSUME NEW k \in Ids PROVE h[k] = f[k] + g[k]
    <3>1. k \in Int /\ D[k] = D1[k] + D2[k]
      BY <1>2, <1>3
    <3> QED BY <3>1 DEF Holding
  <2>3. \A k \in 1 .. N : h[k] = f[k] + g[k]
    BY <1>3, <2>2
  <2> HIDE DEF f, g, h, N
  <2>4. Sum(f) \in Int /\ Sum(g) \in Int /\ Sum(h) = Sum(f) + Sum(g)
    BY <1>3, <2>1, <2>3, SumAdds
  <2>5. W1[e] = U1[e] + Sum(f) /\ W2[e] = U2[e] + Sum(g)
    BY DEF Balanced, f, g
  <2>6. /\ W[e] = W1[e] + W2[e] /\ U[e] = U1[e] + U2[e] /\ D[e] = D1[e] + D2[e]
        /\ U1[e] \in Int /\ U2[e] \in Int
    BY <1>1, <1>2, <1>3
  <2>7. W[e] = U[e] + Sum(h)
    BY <2>4, <2>5, <2>6
  <2>8. D[e] = IF e \in deleted \/ Exploded(e, explode) THEN 0 ELSE W[e]
    <3>1. /\ D1[e] = IF e \in deleted \/ Exploded(e, explode) THEN 0 ELSE W1[e]
          /\ D2[e] = IF e \in deleted \/ Exploded(e, explode) THEN 0 ELSE W2[e]
      BY DEF Balanced
    <3> QED BY <2>6, <3>1
  <2> QED BY <2>7, <2>8 DEF h
<1>5. ASSUME NEW b \in BlockIds
      PROVE  /\ D[b] = U[b] + Sum(CellsTo(W, b, explode))
             /\ D[-b] = IF b \in built THEN 0 ELSE D[b]
  <2> DEFINE f == CellsTo(W1, b, explode)
             g == CellsTo(W2, b, explode)
             h == CellsTo(W, b, explode)
  <2>1. f \in [1 .. N -> Int] /\ g \in [1 .. N -> Int] /\ h \in [1 .. N -> Int]
    BY <1>1, <1>2, CellsTyped
  <2>2. ASSUME NEW k \in Ids PROVE h[k] = f[k] + g[k]
    <3>1. W[k] = W1[k] + W2[k] /\ W1[k] \in Int /\ W2[k] \in Int /\ Times(k) \in Int
      BY <1>1, <1>2 DEF Traversable
    <3>2. W[k] * Times(k) = W1[k] * Times(k) + W2[k] * Times(k)
      BY <3>1, Distributes
    <3>3. /\ f[k] = IF Exploded(k, explode) /\ obj[k].block = b THEN W1[k] * Times(k) ELSE 0
          /\ g[k] = IF Exploded(k, explode) /\ obj[k].block = b THEN W2[k] * Times(k) ELSE 0
          /\ h[k] = IF Exploded(k, explode) /\ obj[k].block = b THEN W[k] * Times(k) ELSE 0
      BY DEF CellsTo
    <3> QED BY <3>2, <3>3
  <2>3. \A k \in 1 .. N : h[k] = f[k] + g[k]
    BY <1>3, <2>2
  <2> HIDE DEF f, g, h, N
  <2>4. Sum(f) \in Int /\ Sum(g) \in Int /\ Sum(h) = Sum(f) + Sum(g)
    BY <1>3, <2>1, <2>3, SumAdds
  <2>5. D1[b] = U1[b] + Sum(f) /\ D2[b] = U2[b] + Sum(g)
    BY DEF Balanced, f, g
  <2>6. /\ U[b] = U1[b] + U2[b] /\ D[b] = D1[b] + D2[b] /\ U1[b] \in Int /\ U2[b] \in Int
    BY <1>1, <1>2, <1>3
  <2>7. D[b] = U[b] + Sum(h)
    BY <2>4, <2>5, <2>6
  <2>8. D[-b] = IF b \in built THEN 0 ELSE D[b]
    <3>1. /\ D1[-b] = IF b \in built THEN 0 ELSE D1[b]
          /\ D2[-b] = IF b \in built THEN 0 ELSE D2[b]
      BY DEF Balanced
    <3>2. D[-b] = D1[-b] + D2[-b]
      <4>1. -b \in Int
        BY <1>3
      <4> QED BY <1>2, <4>1
    <3> QED BY <2>6, <3>1, <3>2
  <2> QED BY <2>7, <2>8 DEF h
<1> QED BY <1>2, <1>4, <1>5 DEF Balanced, D, W, U

\* what is shown between r and w
Adds(r, w, D) == \A x \in Int : Occurs(x, w.seen) = Occurs(x, r.seen) + D[x]
Counted(r, w, U, explode) == \E D, W : Balanced(D, W, U, explode) /\ Adds(r, w, D)

LEMMA CountedAdds ==
  ASSUME Traversable, NEW explode, NEW r \in Traces, NEW v \in Traces, NEW w \in Traces,
         NEW U1, NEW U2, Counted(r, v, U1, explode), Counted(v, w, U2, explode)
  PROVE  Counted(r, w, Plus(U1, U2), explode)
<1>1. PICK D1, W1 : Balanced(D1, W1, U1, explode) /\ Adds(r, v, D1)
  BY DEF Counted
<1>2. PICK D2, W2 : Balanced(D2, W2, U2, explode) /\ Adds(v, w, D2)
  BY DEF Counted
<1>3. Balanced(Plus(D1, D2), Plus(W1, W2), Plus(U1, U2), explode)
  BY <1>1, <1>2, BalancedAdds
<1>4. D1 \in [Int -> Int] /\ D2 \in [Int -> Int]
  BY <1>1, <1>2 DEF Balanced
<1>5. ASSUME NEW x \in Int PROVE Occurs(x, w.seen) = Occurs(x, r.seen) + Plus(D1, D2)[x]
  <2>1. Plus(D1, D2)[x] = D1[x] + D2[x] /\ D1[x] \in Int /\ D2[x] \in Int
    BY <1>4 DEF Plus
  <2>2. Occurs(x, v.seen) = Occurs(x, r.seen) + D1[x] /\ Occurs(x, w.seen) = Occurs(x, v.seen) + D2[x]
    BY <1>1, <1>2 DEF Adds
  <2>3. Occurs(x, r.seen) \in Nat
    <3>1. r.seen \in Seq(Int)
      BY DEF Traces
    <3> QED BY <3>1, OccursIs
  <2> QED BY <2>1, <2>2, <2>3
<1>6. Adds(r, w, Plus(D1, D2))
  BY <1>5 DEF Adds
<1> QED BY <1>3, <1>6 DEF Counted

-----------------------------------------------------------------------------
(* The steps of a traversal, counted.                                      *)

\* Only blocks hold entities.
LEMMA OneHolds ==
  ASSUME Traversable, NEW D \in [Int -> Int], NEW b \in BlockIds,
         \A c \in BlockIds : c # b => D[c] = 0, NEW e
  PROVE  Sum(Holding(D, e)) = IF e \in Range(obj[b].members) THEN D[b] ELSE 0
<1> DEFINE n == Len(obj)
           f == Holding(D, e)
<1>1. n \in Nat /\ Ids = 1 .. n /\ b \in 1 .. n
  BY IdsAre DEF Traversable, Ids
<1>2. f \in [1 .. n -> Int]
  BY HoldingTyped
<1>3. ASSUME NEW k \in 1 .. n, k # b PROVE f[k] = 0
  <2>1. k \in Ids
    BY <1>1
  <2>2. CASE k \in BlockIds
    BY <1>3, <2>1, <2>2 DEF Holding
  <2>3. CASE k \notin BlockIds
    <3>1. obj[k].members = << >>
      BY <2>1, <2>3 DEF BlockIds, Traversable, Shaped
    <3>2. e \notin Range(obj[k].members)
      BY <3>1 DEF Range
    <3> QED BY <2>1, <3>2 DEF Holding
  <2> QED BY <2>2, <2>3
<1>4. f[b] = IF e \in Range(obj[b].members) THEN D[b] ELSE 0
  BY <1>1 DEF Holding
<1> HIDE DEF f, n
<1>5. Sum(f) = f[b]
  BY <1>1, <1>2, <1>3, SumAt
<1> QED BY <1>4, <1>5 DEF f

LEMMA NoneHolds ==
  ASSUME Traversable, NEW D \in [Int -> Int], \A c \in BlockIds : D[c] = 0, NEW e
  PROVE  Sum(Holding(D, e)) = 0
<1>1. CASE BlockIds # {}
  <2>1. PICK b \in BlockIds : TRUE
    BY <1>1
  <2> QED BY <2>1, OneHolds
<1>2. CASE BlockIds = {}
  <2> DEFINE n == Len(obj)
             f == Holding(D, e)
  <2>1. n \in Nat /\ Ids = 1 .. n
    BY DEF Traversable, Ids
  <2>2. f \in [1 .. n -> Int]
    BY HoldingTyped
  <2>3. ASSUME NEW k \in 1 .. n PROVE f[k] = 0
    <3>1. obj[k].members = << >>
      BY <1>2, <2>1 DEF BlockIds, Traversable, Shaped
    <3>2. e \notin Range(obj[k].members)
      BY <3>1 DEF Range
    <3> QED BY <2>1, <3>2 DEF Holding
  <2> HIDE DEF f, n
  <2>4. Sum(f) = 0
    BY <2>1, <2>2, <2>3, SumNothing
  <2> QED BY <2>4 DEF f
<1> QED BY <1>1, <1>2

\* the cells of one INSERT
LEMMA CellsOfOne ==
  ASSUME Traversable, NEW W \in [Ids -> Int], NEW e \in Ids, NEW explode,
         \A i \in Ids : i # e => W[i] = 0, NEW b
  PROVE  Sum(CellsTo(W, b, explode))
           = IF Exploded(e, explode) /\ obj[e].block = b THEN W[e] * Times(e) ELSE 0
<1> DEFINE n == Len(obj)
           f == CellsTo(W, b, explode)
<1>1. n \in Nat /\ Ids = 1 .. n
  BY DEF Traversable, Ids
<1>2. f \in [1 .. n -> Int]
  BY CellsTyped
<1>3. ASSUME NEW k \in 1 .. n, k # e PROVE f[k] = 0
  <2>1. k \in Ids /\ W[k] = 0 /\ Times(k) \in Nat
    BY <1>1, <1>3 DEF Traversable
  <2>2. 0 * Times(k) = 0
    BY <2>1
  <2> QED BY <2>1, <2>2 DEF CellsTo
<1>4. f[e] = IF Exploded(e, explode) /\ obj[e].block = b THEN W[e] * Times(e) ELSE 0
  BY DEF CellsTo
<1> HIDE DEF f, n
<1>5. Sum(f) = f[e]
  BY <1>1, <1>2, <1>3, SumAt
<1> QED BY <1>4, <1>5 DEF f

LEMMA NoCells ==
  ASSUME Traversable, NEW b, NEW explode PROVE Sum(CellsTo(Nothing, b, explode)) = 0
<1> DEFINE n == Len(obj)
           f == CellsTo(Nothing, b, explode)
<1>1. n \in Nat /\ Ids = 1 .. n
  BY DEF Traversable, Ids
<1>2. Nothing \in [Ids -> Int]
  BY DEF Nothing
<1>3. f \in [1 .. n -> Int]
  BY <1>2, CellsTyped
<1>4. ASSUME NEW k \in 1 .. n PROVE f[k] = 0
  <2>1. k \in Ids /\ Nothing[k] = 0 /\ Times(k) \in Nat
    BY <1>1 DEF Traversable, Nothing
  <2>2. 0 * Times(k) = 0
    BY <2>1
  <2> QED BY <2>1, <2>2 DEF CellsTo
<1> HIDE DEF f, n
<1>5. Sum(f) = 0
  BY <1>1, <1>3, <1>4, SumNothing
<1> QED BY <1>5 DEF f

\* An entity that is not exploded is shown once, or not at all.
LEMMA EntityOnce ==
  ASSUME Traversable, NEW explode, NEW e \in EntityIds, ~ Exploded(e, explode), NEW r \in Traces
  PROVE  Counted(r, IF e \in deleted THEN r ELSE Call(r, e, 0), Unit(e), explode)
<1> DEFINE D == [x \in Int |-> IF x = e /\ e \notin deleted THEN 1 ELSE 0]
           w == IF e \in deleted THEN r ELSE Call(r, e, 0)
<1>1. e \in Ids /\ e \in Int /\ BlockIds \subseteq Ids /\ EntityIds \subseteq Ids
      /\ Ids \subseteq Int /\ e \notin BlockIds
  BY IdsAre
<1>2. D \in [Int -> Int] /\ Unit(e) \in [Ids -> Int]
      /\ (\A x \in Int : D[x] = IF x = e /\ e \notin deleted THEN 1 ELSE 0)
      /\ \A x \in Ids : Unit(e)[x] = IF x = e THEN 1 ELSE 0
  BY DEF Unit
<1> HIDE DEF D
<1>3. \A c \in BlockIds : D[c] = 0 /\ D[-c] = 0
  <2>1. \A c \in BlockIds : c \in Int /\ -c \in Int /\ c # e /\ -c # e
    BY <1>1 DEF Ids
  <2> QED BY <1>2, <2>1
<1>4. ASSUME NEW x \in EntityIds
      PROVE  /\ Unit(e)[x] = Unit(e)[x] + Sum(Holding(D, x))
             /\ D[x] = IF x \in deleted \/ Exploded(x, explode) THEN 0 ELSE Unit(e)[x]
  <2>1. Sum(Holding(D, x)) = 0
    BY <1>2, <1>3, NoneHolds
  <2>2. x \in Ids /\ x \in Int /\ Unit(e)[x] \in Int
    BY <1>1, <1>2
  <2> QED BY <1>2, <2>1, <2>2
<1>5. ASSUME NEW b \in BlockIds
      PROVE  /\ D[b] = Unit(e)[b] + Sum(CellsTo(Unit(e), b, explode))
             /\ D[-b] = IF b \in built THEN 0 ELSE D[b]
  <2>1. Sum(CellsTo(Unit(e), b, explode)) = 0
    BY <1>1, <1>2, CellsOfOne
  <2>2. Unit(e)[b] = 0
    BY <1>1, <1>2
  <2> QED BY <1>3, <2>1, <2>2
<1>6. Balanced(D, Unit(e), Unit(e), explode)
  BY <1>2, <1>4, <1>5 DEF Balanced
<1>7. Adds(r, w, D)
  <2>1. r.seen \in Seq(Int)
    BY DEF Traces
  <2>2. ASSUME NEW x \in Int PROVE Occurs(x, w.seen) = Occurs(x, r.seen) + D[x]
    <3>1. Occurs(x, r.seen) \in Nat
      BY <2>1, OccursIs
    <3>2. CASE e \in deleted
      BY <1>2, <3>1, <3>2
    <3>3. CASE e \notin deleted
      <4>1. w.seen = Append(r.seen, e)
        BY <1>1, <3>3, CallIs
      <4>2. Occurs(x, Append(r.seen, e)) = Occurs(x, r.seen) + IF x = e THEN 1 ELSE 0
        BY <1>1, <2>1, OccursAppend
      <4> QED BY <1>2, <3>3, <4>1, <4>2
    <3> QED BY <3>2, <3>3
  <2> QED BY <2>2 DEF Adds
<1> HIDE DEF w
<1>8. Counted(r, w, Unit(e), explode)
  BY <1>6, <1>7 DEF Counted
<1> QED BY <1>8 DEF w

Tally(xs) == [y \in Ids |-> Occurs(y, xs)]
Minus(f, g) == [x \in DOMAIN f |-> f[x] - g[x]]

LEMMA TallyTyped ==
  ASSUME NEW S, NEW xs \in Seq(S) PROVE Tally(xs) \in [Ids -> Int]
<1>1. \A y : Occurs(y, xs) \in Int
  BY OccursIs
<1> QED BY <1>1 DEF Tally

\* what is not in the list is not in the tally
LEMMA TallyIn ==
  ASSUME NEW S, NEW xs \in Seq(S), NEW y \in Ids, y \notin S PROVE Tally(xs)[y] = 0
<1>1. \A k \in DOMAIN xs : xs[k] \in S
  BY LenProperties, ElementOfSeq
<1>2. y \notin Range(xs)
  BY <1>1 DEF Range
<1> QED BY <1>2, OccursOnce DEF Tally

LEMMA CellsTally ==
  ASSUME Traversable, NEW e \in Ids, NEW explode, Exploded(e, explode), NEW y \in Ids
  PROVE  Tally(CellsOf(e))[y] = IF y = obj[e].block THEN Times(e) ELSE 0
<1> DEFINE xs == CellsOf(e)
           n == Times(e)
<1>1. n \in Nat /\ DOMAIN xs = 1 .. n /\ \A k \in 1 .. n : xs[k] = obj[e].block
  BY DEF CellsOf, Traversable
<1>2. Tally(xs)[y] = Cardinality({i \in DOMAIN xs : xs[i] = y})
  BY DEF Tally, Occurs
<1> HIDE DEF xs, n
<1>3. CASE y = obj[e].block
  <2>1. {i \in DOMAIN xs : xs[i] = y} = 1 .. n
    BY <1>1, <1>3
  <2>2. Cardinality(1 .. n) = n
    <3>1. Cardinality(1 .. n) = IF 1 > n THEN 0 ELSE n - 1 + 1
      BY <1>1, FS_Interval
    <3> QED BY <1>1, <3>1
  <2> QED BY <1>2, <1>3, <2>1, <2>2 DEF xs, n
<1>4. CASE y # obj[e].block
  <2>1. {i \in DOMAIN xs : xs[i] = y} = {}
    BY <1>1, <1>4
  <2> QED BY <1>2, <1>4, <2>1, FS_EmptySet DEF xs
<1> QED BY <1>3, <1>4

\* An INSERT that is exploded stands for the blocks of its cells.
LEMMA StandsForCells ==
  ASSUME Traversable, NEW explode, NEW e \in EntityIds, Exploded(e, explode), NEW r \in Traces
  PROVE  Counted(r, r, Minus(Unit(e), Tally(CellsOf(e))), explode)
<1> DEFINE D == [x \in Int |-> 0]
           W == Unit(e)
           C == Tally(CellsOf(e))
           U == Minus(W, C)
<1>1. e \in Ids /\ e \in Int /\ BlockIds \subseteq Ids /\ EntityIds \subseteq Ids
      /\ Ids \subseteq Int /\ e \notin BlockIds /\ BlockIds \cap EntityIds = {}
  BY IdsAre
<1>2. D \in [Int -> Int] /\ (\A x \in Int : D[x] = 0)
      /\ \A b \in BlockIds : D[b] = 0 /\ D[-b] = 0
  <2>1. \A b \in BlockIds : b \in Int /\ -b \in Int
    BY <1>1
  <2> QED BY <2>1
<1>3. W \in [Ids -> Int] /\ \A x \in Ids : W[x] = IF x = e THEN 1 ELSE 0
  BY DEF Unit
<1>4. obj[e].block \in BlockIds /\ Times(e) \in Nat
  BY <1>1 DEF Exploded, Traversable
<1>5. \A y \in Ids : C[y] = IF y = obj[e].block THEN Times(e) ELSE 0
  BY <1>1, CellsTally
<1> HIDE DEF D, C, W
<1>6. U \in [Ids -> Int] /\ \A x \in Ids : U[x] = W[x] - C[x]
  BY <1>3, <1>4, <1>5 DEF Minus
<1> HIDE DEF U
<1>7. ASSUME NEW x \in EntityIds
      PROVE  /\ W[x] = U[x] + Sum(Holding(D, x))
             /\ D[x] = IF x \in deleted \/ Exploded(x, explode) THEN 0 ELSE W[x]
  <2>1. Sum(Holding(D, x)) = 0
    BY <1>2, NoneHolds
  <2>2. x \in Ids /\ x \in Int /\ C[x] = 0 /\ W[x] \in Int
    BY <1>1, <1>3, <1>4, <1>5
  <2>3. W[x] = U[x] + Sum(Holding(D, x))
    BY <1>6, <2>1, <2>2
  <2>4. D[x] = IF x \in deleted \/ Exploded(x, explode) THEN 0 ELSE W[x]
    BY <1>2, <1>3, <2>2
  <2> QED BY <2>3, <2>4
<1>8. ASSUME NEW b \in BlockIds
      PROVE  /\ D[b] = U[b] + Sum(CellsTo(W, b, explode))
             /\ D[-b] = IF b \in built THEN 0 ELSE D[b]
  <2>1. \A i \in Ids : i # e => W[i] = 0
    BY <1>3
  <2>2. Sum(CellsTo(W, b, explode)) = IF Exploded(e, explode) /\ obj[e].block = b THEN W[e] * Times(e) ELSE 0
    BY <1>1, <1>3, <2>1, CellsOfOne
  <2>3. W[e] * Times(e) = Times(e)
    <3>1. W[e] = 1
      BY <1>1, <1>3
    <3> QED BY <1>4, <3>1
  <2>4. b \in Ids /\ U[b] = 0 - C[b] /\ C[b] = IF b = obj[e].block THEN Times(e) ELSE 0
    <3>1. b \in Ids /\ W[b] = 0
      BY <1>1, <1>3
    <3> QED BY <1>5, <1>6, <3>1
  <2>5. U[b] + Sum(CellsTo(W, b, explode)) = 0
    <3>1. CASE b = obj[e].block
      BY <1>4, <2>2, <2>3, <2>4, <3>1
    <3>2. CASE b # obj[e].block
      BY <2>2, <2>4, <3>2
    <3> QED BY <3>1, <3>2
  <2> QED BY <1>2, <2>5
<1>9. Balanced(D, W, U, explode)
  BY <1>2, <1>3, <1>6, <1>7, <1>8 DEF Balanced
<1>10. Adds(r, r, D)
  <2>1. ASSUME NEW x \in Int PROVE Occurs(x, r.seen) = Occurs(x, r.seen) + D[x]
    <3>1. Occurs(x, r.seen) \in Nat
      <4>1. r.seen \in Seq(Int)
        BY DEF Traces
      <4> QED BY <4>1, OccursIs
    <3> QED BY <1>2, <3>1
  <2> QED BY <2>1 DEF Adds
<1>11. Counted(r, r, U, explode)
  BY <1>9, <1>10 DEF Counted
<1> QED BY <1>11 DEF U, W, C

-----------------------------------------------------------------------------
(* Loops, lists, blocks and levels, counted.                               *)

\* each of X, when it is shown to its end, counts as itself
Counts(show, X, explode) ==
  \A s \in Traces, x \in X :
    Going(s) /\ Going(show[x][s]) => Counted(s, show[x][s], Unit(x), explode)

LEMMA NothingCounted ==
  ASSUME Traversable, NEW explode, NEW r \in Traces PROVE Counted(r, r, Nothing, explode)
<1> DEFINE D == [x \in Int |-> 0]
<1>1. D \in [Int -> Int] /\ (\A x \in Int : D[x] = 0)
      /\ \A b \in BlockIds : D[b] = 0 /\ D[-b] = 0
  <2>1. \A b \in BlockIds : b \in Int /\ -b \in Int
    BY IdsAre
  <2> QED BY <2>1
<1>2. Nothing \in [Ids -> Int] /\ \A x \in Ids : Nothing[x] = 0
  BY DEF Nothing
<1> HIDE DEF D
<1>3. ASSUME NEW x \in EntityIds PROVE Sum(Holding(D, x)) = 0 /\ D[x] = 0 /\ x \in Ids
  BY <1>1, NoneHolds, IdsAre
<1>4. ASSUME NEW b \in BlockIds PROVE Sum(CellsTo(Nothing, b, explode)) = 0 /\ b \in Ids
  BY NoCells, IdsAre
<1>5. Balanced(D, Nothing, Nothing, explode)
  BY <1>1, <1>2, <1>3, <1>4 DEF Balanced
<1>6. Adds(r, r, D)
  <2>1. ASSUME NEW x \in Int PROVE Occurs(x, r.seen) = Occurs(x, r.seen) + D[x]
    <3>1. r.seen \in Seq(Int)
      BY DEF Traces
    <3>2. Occurs(x, r.seen) \in Nat
      BY <3>1, OccursIs
    <3> QED BY <1>1, <3>2
  <2> QED BY <2>1 DEF Adds
<1> QED BY <1>5, <1>6 DEF Counted

\* A loop counts what it goes through.
LEMMA LoopCounted ==
  ASSUME Traversable, NEW explode, NEW show, NEW X, X \subseteq Ids,
         \A s \in Traces, x \in X : show[x][s] \in Traces, Counts(show, X, explode),
         NEW xs \in Seq(X), NEW r \in Traces, Going(OneByOne(show, r, xs))
  PROVE  Counted(r, OneByOne(show, r, xs), Tally(xs), explode)
<1> DEFINE n == Len(xs)
           To(k) == [y \in Ids |-> Among(y, xs, k)]
<1>1. n \in Nat /\ \A k \in 1 .. n : xs[k] \in X
  BY LenProperties, ElementOfSeq
<1>2. PICK f \in [0 .. n -> Traces] : Loops(show, r, xs, f) /\ OneByOne(show, r, xs) = f[n]
  BY OneByOneIs
<1>3. f[0] = r /\ \A k \in 1 .. n : f[k] = Turn(show, f[k - 1], xs[k])
  BY <1>2 DEF Loops
<1>4. To(n) = Tally(xs)
  <2>1. \A y : Occurs(y, xs) = Among(y, xs, n)
    BY OccursIs
  <2> QED BY <2>1 DEF Tally
<1>5. To(0) = Nothing
  <2>1. \A y : Among(y, xs, 0) = 0
    BY AmongIs
  <2> QED BY <2>1 DEF Nothing
<1>6. ASSUME NEW k \in 1 .. n PROVE Plus(To(k - 1), Unit(xs[k])) = To(k)
  <2>1. k \in Nat \ {0} /\ k - 1 \in Nat
    BY <1>1
  <2>2. ASSUME NEW y \in Ids PROVE Among(y, xs, k) = Among(y, xs, k - 1) + Unit(xs[k])[y]
    <3>1. \A j \in Nat \ {0} : Among(y, xs, j) = Among(y, xs, j - 1) + IF xs[j] = y THEN 1 ELSE 0
      BY AmongIs
    <3>2. Unit(xs[k])[y] = IF xs[k] = y THEN 1 ELSE 0
      BY DEF Unit
    <3> QED BY <2>1, <3>1, <3>2
  <2>3. Plus(To(k - 1), Unit(xs[k])) = [y \in Ids |-> Among(y, xs, k - 1) + Unit(xs[k])[y]]
    BY DEF Plus
  <2> QED BY <2>2, <2>3
<1> HIDE DEF n, To
<1> DEFINE P(k) == Going(f[k]) => Counted(r, f[k], To(k), explode)
           T == {k \in 0 .. n : P(k)}
<1>7. 0 \in T
  BY <1>1, <1>3, <1>5, NothingCounted
<1>8. ASSUME NEW k \in 1 .. n, k - 1 \in T PROVE k \in T
  <2> DEFINE v == f[k - 1]
             w == f[k]
             x == xs[k]
  <2>1. k - 1 \in 0 .. n /\ k \in 0 .. n
    BY <1>1
  <2>2. v \in Traces /\ w \in Traces /\ x \in X
    BY <1>1, <2>1
  <2>3. Going(v) => Counted(r, v, To(k - 1), explode)
    BY <1>8
  <2>4. w = Turn(show, v, x)
    BY <1>3
  <2>5. Plus(To(k - 1), Unit(x)) = To(k)
    BY <1>6
  <2> HIDE DEF v, w, x
  <2>6. ASSUME Going(w) PROVE Counted(r, w, To(k), explode)
    <3>1. Going(v) /\ w = show[x][v]
      BY <2>4, <2>6 DEF Turn
    <3>2. Counted(v, w, Unit(x), explode)
      BY <2>2, <2>6, <3>1 DEF Counts
    <3>3. Counted(r, w, Plus(To(k - 1), Unit(x)), explode)
      BY <2>2, <2>3, <3>1, <3>2, CountedAdds
    <3> QED BY <2>5, <3>3
  <2> QED BY <2>1, <2>6 DEF w
<1>9. n \in T
  <2> HIDE DEF T
  <2>1. 0 .. n \subseteq T
    BY <1>1, <1>7, <1>8, UpTo
  <2> QED BY <1>1, <2>1
<1> QED BY <1>2, <1>4, <1>9

\* An entity counts as itself when blocks do.
LEMMA EntityCounted ==
  ASSUME Traversable, NEW explode, NEW shows \in Showers, Counts(shows, BlockIds, explode)
  PROVE  Counts(ShowOne(shows, explode, 0), EntityIds, explode)
<1>1. ASSUME NEW r \in Traces, NEW e \in EntityIds, Going(r), Going(Show(shows, r, e, explode, 0))
      PROVE  Counted(r, Show(shows, r, e, explode, 0), Unit(e), explode)
  <2>1. e \in Ids /\ BlockIds \subseteq Ids
    BY IdsAre
  <2>2. CASE Exploded(e, explode)
    <3> DEFINE xs == CellsOf(e)
               w == OneByOne(shows, r, xs)
               C == Tally(xs)
    <3>1. xs \in Seq(BlockIds)
      BY <2>1, <2>2, CellsAre
    <3>2. Show(shows, r, e, explode, 0) = w
      BY <2>2 DEF Show, CellsOf
    <3>3. Counted(r, r, Minus(Unit(e), C), explode)
      BY <2>2, StandsForCells
    <3>4. C \in [Ids -> Int]
      BY <3>1, TallyTyped
    <3> HIDE DEF xs
    <3>5. \A s \in Traces, x \in BlockIds : shows[x][s] \in Traces
      BY <2>1 DEF Showers
    <3>6. w \in Traces
      BY <3>1, <3>5, OneByOneTyped
    <3>7. Counted(r, w, C, explode)
      BY <1>1, <2>1, <3>1, <3>2, <3>5, LoopCounted
    <3> HIDE DEF w, C
    <3>8. Counted(r, w, Plus(Minus(Unit(e), C), C), explode)
      BY <3>3, <3>6, <3>7, CountedAdds
    <3>9. Plus(Minus(Unit(e), C), C) = Unit(e)
      <4>1. \A x \in Ids : (Unit(e)[x] - C[x]) + C[x] = Unit(e)[x]
        BY <3>4 DEF Unit
      <4>2. Plus(Minus(Unit(e), C), C) = [x \in Ids |-> (Unit(e)[x] - C[x]) + C[x]]
        BY DEF Plus, Minus, Unit
      <4>3. Unit(e) = [x \in Ids |-> Unit(e)[x]]
        BY DEF Unit
      <4> QED BY <4>1, <4>2, <4>3
    <3> QED BY <3>2, <3>8, <3>9
  <2>3. CASE ~ Exploded(e, explode)
    <3>1. Show(shows, r, e, explode, 0) = IF e \in deleted THEN r ELSE Call(r, e, 0)
      BY <2>3 DEF Show
    <3> QED BY <2>3, <3>1, EntityOnce
  <2> QED BY <2>2, <2>3
<1> DEFINE A == ShowOne(shows, explode, 0)
<1>2. \A e \in Ids, s \in Traces : A[e][s] = Show(shows, s, e, explode, 0)
  BY ShowOneTyped
<1> HIDE DEF A
<1>3. ASSUME NEW s \in Traces, NEW x \in EntityIds PROVE A[x][s] = Show(shows, s, x, explode, 0)
  BY <1>2, IdsAre
<1>4. Counts(A, EntityIds, explode)
  BY <1>1, <1>3 DEF Counts
<1> QED BY <1>4 DEF A

LEMMA ListCounted ==
  ASSUME Traversable, NEW explode, NEW shows \in Showers, Counts(shows, BlockIds, explode),
         NEW ids \in Seq(EntityIds), NEW r \in Traces, Going(ShowAll(shows, r, ids, explode, 0))
  PROVE  Counted(r, ShowAll(shows, r, ids, explode, 0), Tally(ids), explode)
<1> DEFINE A == ShowOne(shows, explode, 0)
<1>1. Counts(A, EntityIds, explode)
  BY EntityCounted
<1>2. ShowAll(shows, r, ids, explode, 0) = OneByOne(A, r, ids)
  BY ShowAllIs
<1>3. A \in Showers
  BY ShowOneTyped
<1> HIDE DEF A
<1>4. EntityIds \subseteq Ids /\ \A s \in Traces, x \in EntityIds : A[x][s] \in Traces
  BY <1>3, IdsAre DEF Showers
<1> QED BY <1>1, <1>2, <1>4, LoopCounted

\* A block, shown between its BLOCK and its ENDBLK, stands for its members.
Shell(b) == [x \in Int |-> IF x = b \/ (x = -b /\ b \notin built) THEN 1 ELSE 0]

LEMMA ShellBalanced ==
  ASSUME Traversable, NEW explode, NEW b \in BlockIds
  PROVE  Balanced(Shell(b), Nothing, Minus(Unit(b), Tally(obj[b].members)), explode)
<1> DEFINE D == Shell(b)
           C == Tally(obj[b].members)
           U == Minus(Unit(b), C)
<1>1. /\ b \in Ids /\ b \in Int /\ b > 0 /\ Ids \subseteq Int /\ \A x \in Ids : x > 0
      /\ BlockIds \subseteq Ids /\ EntityIds \subseteq Ids /\ BlockIds \cap EntityIds = {}
  BY IdsAre DEF Ids
<1>2. obj[b].members \in Seq(EntityIds) /\ Shaped(obj[b])
  BY <1>1 DEF Traversable
<1>3. D \in [Int -> Int]
      /\ \A x \in Int : D[x] = IF x = b \/ (x = -b /\ b \notin built) THEN 1 ELSE 0
  BY DEF Shell
<1>4. C \in [Ids -> Int] /\ \A c \in BlockIds : C[c] = 0
  <2>1. C \in [Ids -> Int]
    BY <1>2, TallyTyped
  <2>2. ASSUME NEW c \in BlockIds PROVE C[c] = 0
    BY <1>1, <1>2, TallyIn
  <2> QED BY <2>1, <2>2
<1>5. ASSUME NEW e \in EntityIds PROVE C[e] = IF e \in Range(obj[b].members) THEN 1 ELSE 0
  <2>1. C[e] = Occurs(e, obj[b].members)
    BY <1>1 DEF Tally
  <2>2. \A i, j \in DOMAIN obj[b].members : obj[b].members[i] = obj[b].members[j] => i = j
    BY <1>2 DEF Shaped
  <2> QED BY <1>2, <2>1, <2>2, OccursOnce
<1> HIDE DEF D, C
<1>6. U \in [Ids -> Int] /\ \A x \in Ids : U[x] = (IF x = b THEN 1 ELSE 0) - C[x]
  BY <1>4 DEF Minus, Unit
<1> HIDE DEF U
<1>7. Nothing \in [Ids -> Int] /\ \A x \in Ids : Nothing[x] = 0
  BY DEF Nothing
<1>8. ASSUME NEW e \in EntityIds
      PROVE  /\ Nothing[e] = U[e] + Sum(Holding(D, e))
             /\ D[e] = IF e \in deleted \/ Exploded(e, explode) THEN 0 ELSE Nothing[e]
  <2>1. ASSUME NEW c \in BlockIds, c # b PROVE D[c] = 0
    <3>1. c \in Int /\ c # -b
      BY <1>1
    <3> QED BY <1>3, <2>1, <3>1
  <2>2. Sum(Holding(D, e)) = IF e \in Range(obj[b].members) THEN D[b] ELSE 0
    BY <1>3, <2>1, OneHolds
  <2>3. D[b] = 1
    BY <1>1, <1>3
  <2>4. e \in Ids /\ e \in Int /\ e # b /\ e # -b
    BY <1>1
  <2>5. U[e] = 0 - C[e]
    BY <1>6, <2>4
  <2>6. Nothing[e] = U[e] + Sum(Holding(D, e))
    BY <1>5, <1>7, <2>2, <2>3, <2>4, <2>5
  <2>7. D[e] = 0
    BY <1>3, <2>4
  <2> QED BY <1>7, <2>4, <2>6, <2>7
<1>9. ASSUME NEW c \in BlockIds
      PROVE  /\ D[c] = U[c] + Sum(CellsTo(Nothing, c, explode))
             /\ D[-c] = IF c \in built THEN 0 ELSE D[c]
  <2>1. Sum(CellsTo(Nothing, c, explode)) = 0
    BY NoCells
  <2>2. c \in Ids /\ c \in Int /\ -c \in Int /\ c > 0 /\ c # -b /\ -c # b /\ (-c = -b <=> c = b)
    BY <1>1
  <2>3. U[c] = IF c = b THEN 1 ELSE 0
    BY <1>4, <1>6, <2>2
  <2>4. D[c] = IF c = b THEN 1 ELSE 0
    BY <1>3, <2>2
  <2>5. D[-c] = IF c = b /\ b \notin built THEN 1 ELSE 0
    BY <1>3, <2>2
  <2> QED BY <2>1, <2>3, <2>4, <2>5
<1>10. Balanced(D, Nothing, U, explode)
  BY <1>3, <1>6, <1>7, <1>8, <1>9 DEF Balanced
<1> QED BY <1>10 DEF D, U, C

LEMMA BlockCounted ==
  ASSUME Traversable, NEW explode, NEW shows \in Showers, Counts(shows, BlockIds, explode),
         NEW r \in Traces, NEW b \in BlockIds, Going(ShowBlock(shows, r, b, explode, 0))
  PROVE  Counted(r, ShowBlock(shows, r, b, explode, 0), Unit(b), explode)
<1> DEFINE v == BeginsBlock(r, b)
           w == ShowsMembers(shows, v, b, explode, 0)
           z == EndsBlock(w, b, 0)
           C == Tally(obj[b].members)
<1>1. b \in Ids /\ b \in Int /\ b > 0 /\ b # 0 /\ -b \in Int /\ -b # 0
  BY IdsAre DEF Ids
<1>2. v \in Traces /\ w \in Traces /\ z \in Traces /\ ShowBlock(shows, r, b, explode, 0) = z
  BY <1>1, ShowBlockIs
<1>3. obj[b].members \in Seq(EntityIds)
  BY <1>1 DEF Traversable
<1>4. v.seen = Append(r.seen, b) /\ r.seen \in Seq(Int)
  BY DEF BeginsBlock, Traces
<1>5. w = ShowAll(shows, v, obj[b].members, explode, 0)
  BY <1>1 DEF ShowsMembers
<1>6. z = (IF w.status # "going" \/ b \in built THEN w ELSE Call(w, -b, 0))
  BY DEF EndsBlock
<1>7. Going(z)
  BY <1>2
<1> HIDE DEF v, w, z
<1>8. Going(w)
  BY <1>6, <1>7 DEF Going
<1>9. z = (IF b \in built THEN w ELSE Call(w, -b, 0))
  BY <1>6, <1>8 DEF Going
<1>10. Counted(v, w, C, explode)
  BY <1>2, <1>3, <1>5, <1>8, ListCounted
<1>11. PICK D, W : Balanced(D, W, C, explode) /\ Adds(v, w, D)
  BY <1>10 DEF Counted
<1>12. C \in [Ids -> Int]
  BY <1>3, TallyTyped
<1>13. Balanced(Shell(b), Nothing, Minus(Unit(b), C), explode)
  BY ShellBalanced
<1> HIDE DEF C
<1> DEFINE E == Plus(Shell(b), D)
           V == Plus(Nothing, W)
           U == Plus(Minus(Unit(b), C), C)
<1>14. Balanced(E, V, U, explode)
  BY <1>11, <1>13, BalancedAdds
<1>15. U = Unit(b)
  <2>1. \A x \in Ids : (Unit(b)[x] - C[x]) + C[x] = Unit(b)[x]
    BY <1>12 DEF Unit
  <2>2. U = [x \in Ids |-> (Unit(b)[x] - C[x]) + C[x]]
    BY DEF Plus, Minus, Unit
  <2>3. Unit(b) = [x \in Ids |-> Unit(b)[x]]
    BY DEF Unit
  <2> HIDE DEF U
  <2> QED BY <2>1, <2>2, <2>3
<1>16. ASSUME NEW x \in Int PROVE Occurs(x, z.seen) = Occurs(x, r.seen) + E[x]
  <2>1. E[x] = Shell(b)[x] + D[x] /\ D[x] \in Int
    <3>1. D \in [Int -> Int]
      BY <1>11 DEF Balanced
    <3> QED BY <3>1 DEF Plus, Shell
  <2>2. Shell(b)[x] = IF x = b \/ (x = -b /\ b \notin built) THEN 1 ELSE 0
    BY DEF Shell
  <2> HIDE DEF E
  <2>3. w.seen \in Seq(Int)
    BY <1>2 DEF Traces
  <2>4. Occurs(x, r.seen) \in Nat
    BY <1>4, OccursIs
  <2>5. Occurs(x, v.seen) = Occurs(x, r.seen) + IF x = b THEN 1 ELSE 0
    BY <1>1, <1>4, OccursAppend
  <2>6. Occurs(x, w.seen) = Occurs(x, v.seen) + D[x]
    BY <1>11 DEF Adds
  <2>7. Occurs(x, z.seen) = Occurs(x, w.seen) + IF x = -b /\ b \notin built THEN 1 ELSE 0
    <3>1. Occurs(x, w.seen) \in Nat
      BY <2>3, OccursIs
    <3>2. CASE b \in built
      BY <1>9, <3>1, <3>2
    <3>3. CASE b \notin built
      <4>1. z.seen = Append(w.seen, -b)
        BY <1>1, <1>2, <1>9, <3>3, CallIs
      <4>2. Occurs(x, Append(w.seen, -b)) = Occurs(x, w.seen) + IF x = -b THEN 1 ELSE 0
        BY <1>1, <2>3, OccursAppend
      <4> QED BY <3>3, <4>1, <4>2
    <3> QED BY <3>2, <3>3
  <2>8. b # -b
    BY <1>1
  <2> QED BY <2>1, <2>2, <2>4, <2>5, <2>6, <2>7, <2>8
<1>17. Adds(r, z, E)
  BY <1>16 DEF Adds
<1> HIDE DEF E, V
<1>18. Counted(r, z, Unit(b), explode)
  BY <1>14, <1>15, <1>17 DEF Counted
<1> QED BY <1>2, <1>18

LEMMA LevelCounted ==
  ASSUME Traversable, NEW explode, NEW to, Levels(to, explode, 0)
  PROVE  Counts(to[Top], BlockIds, explode)
<1> DEFINE T == {d \in 0 .. Top : Counts(to[d], BlockIds, explode)}
<1>1. Top \in Nat /\ BlockIds \subseteq Ids /\ Top \in 0 .. Top /\ 0 \in 0 .. Top
      /\ \A d \in 1 .. Top : d \in 0 .. Top /\ d - 1 \in 0 .. Top
  BY IdsAre
<1>2. 0 \in T
  <2>1. ASSUME NEW s \in Traces, NEW x \in BlockIds PROVE ~ Going(to[0][x][s])
    <3>1. to[0][x][s] = [s EXCEPT !.status = "endless"]
      BY <1>1 DEF Levels
    <3>2. to[0][x][s].status = "endless"
      BY <3>1 DEF Traces
    <3> QED BY <3>2 DEF Going
  <2> QED BY <1>1, <2>1 DEF Counts
<1>3. ASSUME NEW d \in 1 .. Top, d - 1 \in T PROVE d \in T
  <2>1. to[d - 1] \in Showers /\ Counts(to[d - 1], BlockIds, explode)
    BY <1>1, <1>3 DEF Levels
  <2>2. ASSUME NEW s \in Traces, NEW x \in BlockIds
        PROVE  to[d][x][s] = ShowBlock(to[d - 1], s, x, explode, 0)
    BY <1>1 DEF Levels
  <2>3. ASSUME NEW s \in Traces, NEW x \in BlockIds, Going(to[d][x][s])
        PROVE  Counted(s, to[d][x][s], Unit(x), explode)
    BY <2>1, <2>2, <2>3, BlockCounted
  <2>4. Counts(to[d], BlockIds, explode)
    BY <2>3 DEF Counts
  <2> QED BY <1>1, <2>4
<1>4. 0 .. Top \subseteq T
  <2> HIDE DEF T
  <2> QED BY <1>1, <1>2, <1>3, UpTo
<1> QED BY <1>1, <1>4

-----------------------------------------------------------------------------
(* What a traversal that ends shows.                                       *)

LEMMA TraverseCounted ==
  ASSUME Traversable, NEW blocks \in BOOLEAN, NEW explode \in BOOLEAN,
         Going(Traverse(blocks, explode, 0))
  PROVE  Counted(Start, Traverse(blocks, explode, 0),
                 Plus(Tally(Listed(blocks)), Tally(ItemsOf(sections, "ENTITIES"))), explode)
<1> DEFINE bs == Listed(blocks)
           ids == ItemsOf(sections, "ENTITIES")
           r == Traverse(blocks, explode, 0)
<1>1. Start \in Traces /\ bs \in Seq(BlockIds) /\ ids \in Seq(EntityIds)
  BY TraverseIs DEF Traversable
<1>2. PICK to : /\ Levels(to, explode, 0)
                /\ OneByOne(to[Top], Start, bs) \in Traces
                /\ r = Traversed(to[Top], OneByOne(to[Top], Start, bs), explode, 0)
  BY TraverseIs
<1>3. BlockIds \subseteq Ids /\ to[Top] \in Showers
  BY <1>2, IdsAre DEF Levels
<1>4. Counts(to[Top], BlockIds, explode)
  BY <1>2, LevelCounted
<1>5. \A s \in Traces, x \in BlockIds : to[Top][x][s] \in Traces
  BY <1>3 DEF Showers
<1> HIDE DEF bs, ids, r
<1> DEFINE first == OneByOne(to[Top], Start, bs)
           w == ShowAll(to[Top], first, ids, explode, 0)
<1>6. Going(first) => Counted(Start, first, Tally(bs), explode)
  BY <1>1, <1>3, <1>4, <1>5, LoopCounted
<1>7. first \in Traces
  BY <1>2
<1>8. r = IF Going(first) THEN w ELSE first
  BY <1>2 DEF Traversed, ids
<1>9. Going(r)
  BY DEF r
<1> HIDE DEF first
<1>10. Going(first) /\ r = w
  BY <1>8, <1>9
<1>11. w \in Traces
  BY <1>1, <1>3, <1>7, ShowAllTyped
<1>12. Counted(first, w, Tally(ids), explode)
  BY <1>1, <1>3, <1>4, <1>7, <1>9, <1>10, ListCounted
<1> HIDE DEF w
<1>13. Counted(Start, w, Plus(Tally(bs), Tally(ids)), explode)
  BY <1>1, <1>6, <1>7, <1>10, <1>11, <1>12, CountedAdds
<1> QED BY <1>10, <1>13 DEF r, bs, ids

LEMMA CountsNow ==
  ASSUME Traversable PROVE TraversalCounts
<1> SUFFICES ASSUME NEW blocks \in BOOLEAN, NEW explode \in BOOLEAN
             PROVE  LET r == Traverse(blocks, explode, 0)
                        seen == [x \in Ids \cup {-b : b \in Ids} |-> Occurs(x, r.seen)]
                        visits == [e \in Ids |->
                          Occurs(e, ItemsOf(sections, "ENTITIES"))
                            + Sum([b \in Ids |-> IF e \in Range(obj[b].members) THEN seen[b] ELSE 0])]
                        Cells(b) == [i \in Ids |-> IF Exploded(i, explode) /\ obj[i].block = b
                                                   THEN visits[i] * Times(i) ELSE 0]
                    IN  r.status = "going" =>
                          \A e \in Ids :
                            IF obj[e].kind = "BLOCK"
                            THEN /\ seen[e] = (IF blocks THEN Occurs(e, ItemsOf(sections, "BLOCKS")) ELSE 0)
                                                + Sum(Cells(e))
                                 /\ seen[-e] = IF e \in built THEN 0 ELSE seen[e]
                            ELSE seen[e] = IF e \in deleted \/ Exploded(e, explode) THEN 0 ELSE visits[e]
  BY DEF TraversalCounts
<1> DEFINE r == Traverse(blocks, explode, 0)
           seen == [x \in Ids \cup {-b : b \in Ids} |-> Occurs(x, r.seen)]
           ids == ItemsOf(sections, "ENTITIES")
           bs == Listed(blocks)
           visits == [e \in Ids |->
                       Occurs(e, ids)
                         + Sum([b \in Ids |-> IF e \in Range(obj[b].members) THEN seen[b] ELSE 0])]
           Cells(b) == [i \in Ids |-> IF Exploded(i, explode) /\ obj[i].block = b
                                      THEN visits[i] * Times(i) ELSE 0]
           U == Plus(Tally(bs), Tally(ids))
<1> SUFFICES ASSUME r.status = "going", NEW e \in Ids
             PROVE  IF obj[e].kind = "BLOCK"
                    THEN /\ seen[e] = (IF blocks THEN Occurs(e, ItemsOf(sections, "BLOCKS")) ELSE 0)
                                        + Sum(Cells(e))
                         /\ seen[-e] = IF e \in built THEN 0 ELSE seen[e]
                    ELSE seen[e] = IF e \in deleted \/ Exploded(e, explode) THEN 0 ELSE visits[e]
  OBVIOUS
<1>1. Counted(Start, r, U, explode)
  BY TraverseCounted DEF Going
<1>2. PICK D, W : Balanced(D, W, U, explode) /\ Adds(Start, r, D)
  BY <1>1 DEF Counted
<1>3. Start \in Traces /\ bs \in Seq(BlockIds) /\ ids \in Seq(EntityIds)
  BY TraverseIs DEF Traversable
<1> HIDE DEF r
<1>4. /\ BlockIds \subseteq Ids /\ EntityIds \subseteq Ids /\ Ids \subseteq Int
      /\ Ids = BlockIds \cup EntityIds /\ BlockIds \cap EntityIds = {}
      /\ \A x \in Ids : -x \in Int
  <2>1. \A x \in Int : -x \in Int
    OBVIOUS
  <2> QED BY <2>1, IdsAre
<1>5. D \in [Int -> Int] /\ W \in [Ids -> Int]
  BY <1>2 DEF Balanced
<1>6. ASSUME NEW x \in Int PROVE Occurs(x, r.seen) = D[x]
  <2>1. Start.seen \in Seq(Int) /\ x \notin Range(Start.seen)
    BY DEF Start, Range
  <2>2. Occurs(x, Start.seen) = 0
    BY <2>1, OccursOnce
  <2> QED BY <1>2, <1>5, <2>2 DEF Adds
<1>7. ASSUME NEW x \in Ids PROVE seen[x] = D[x] /\ seen[-x] = D[-x]
  <2>1. x \in Int /\ -x \in Int
    BY <1>4
  <2>2. x \in Ids \cup {-b : b \in Ids} /\ -x \in Ids \cup {-b : b \in Ids}
    OBVIOUS
  <2>3. seen[x] = Occurs(x, r.seen) /\ seen[-x] = Occurs(-x, r.seen)
    BY <2>2
  <2> HIDE DEF seen
  <2> QED BY <1>6, <2>1, <2>3
<1> HIDE DEF seen
<1>8. ASSUME NEW x \in Ids
      PROVE  U[x] = Occurs(x, bs) + Occurs(x, ids)
  BY DEF Plus, Tally
<1>9. ASSUME NEW x \in EntityIds PROVE Occurs(x, bs) = 0 /\ Occurs(x, ids) \in Nat
  <2>1. Tally(bs)[x] = 0
    BY <1>3, <1>4, TallyIn
  <2>2. Tally(bs)[x] = Occurs(x, bs)
    BY <1>4 DEF Tally
  <2> QED BY <1>3, <2>1, <2>2, OccursIs
<1>10. ASSUME NEW x \in BlockIds PROVE Occurs(x, ids) = 0 /\ Occurs(x, bs) \in Nat
  <2>1. Tally(ids)[x] = 0
    BY <1>3, <1>4, TallyIn
  <2>2. Tally(ids)[x] = Occurs(x, ids)
    BY <1>4 DEF Tally
  <2> QED BY <1>3, <2>1, <2>2, OccursIs
<1> HIDE DEF U, bs, ids
<1>11. ASSUME NEW x \in EntityIds PROVE visits[x] = W[x]
  <2>1. [b \in Ids |-> IF x \in Range(obj[b].members) THEN seen[b] ELSE 0] = Holding(D, x)
    BY <1>7 DEF Holding
  <2>2. visits[x] = Occurs(x, ids) + Sum(Holding(D, x))
    BY <1>4, <2>1
  <2>3. W[x] = U[x] + Sum(Holding(D, x))
    BY <1>2 DEF Balanced
  <2>4. U[x] = Occurs(x, ids)
    BY <1>4, <1>8, <1>9
  <2> QED BY <2>2, <2>3, <2>4
<1> HIDE DEF visits
<1>12. ASSUME NEW b PROVE Cells(b) = CellsTo(W, b, explode)
  <2>1. \A i \in Ids : Exploded(i, explode) => i \in EntityIds
    BY DEF Exploded, IsInsert, EntityIds
  <2>2. \A i \in Ids : Exploded(i, explode) => visits[i] = W[i]
    BY <1>11, <2>1
  <2> QED BY <2>2 DEF CellsTo
<1> HIDE DEF Cells
<1>13. CASE e \in BlockIds
  <2>1. /\ D[e] = U[e] + Sum(CellsTo(W, e, explode))
        /\ D[-e] = IF e \in built THEN 0 ELSE D[e]
    BY <1>2, <1>13 DEF Balanced
  <2>2. U[e] = Occurs(e, bs)
    BY <1>8, <1>10, <1>13
  <2>3. Occurs(e, bs) = IF blocks THEN Occurs(e, ItemsOf(sections, "BLOCKS")) ELSE 0
    <3>1. << >> \in Seq(Int) /\ e \notin Range(<< >>)
      BY DEF Range
    <3>2. Occurs(e, << >>) = 0
      BY <3>1, OccursOnce
    <3> QED BY <3>2 DEF bs, Listed
  <2>4. seen[e] = D[e] /\ seen[-e] = D[-e] /\ Cells(e) = CellsTo(W, e, explode)
    BY <1>7, <1>12
  <2>5. obj[e].kind = "BLOCK"
    BY <1>13 DEF BlockIds
  <2> QED BY <2>1, <2>2, <2>3, <2>4, <2>5
<1>14. CASE e \in EntityIds
  <2>1. D[e] = IF e \in deleted \/ Exploded(e, explode) THEN 0 ELSE W[e]
    BY <1>2, <1>14 DEF Balanced
  <2>2. seen[e] = D[e] /\ visits[e] = W[e]
    BY <1>7, <1>11, <1>14
  <2>3. obj[e].kind # "BLOCK"
    BY <1>14 DEF EntityIds
  <2> QED BY <2>1, <2>2, <2>3
<1> QED BY <1>4, <1>13, <1>14
-----------------------------------------------------------------------------
LEMMA MarksStay == MarksSound /\ [CopyNext]_copyVars => MarksSound'
<1> SUFFICES ASSUME MarksSound, [CopyNext]_copyVars PROVE MarksSound'
  OBVIOUS
<1>1. CASE UNCHANGED grid
  BY <1>1 DEF MarksSound
<1>2. ASSUME NEW e, NEW k \in {0, 2}, SetGrid(e, k) PROVE MarksSound'
  <2>1. grid' = [i \in DOMAIN grid \cup {e} |-> IF i = e THEN k ELSE grid[i]]
    BY <1>2 DEF SetGrid
  <2>2. /\ DOMAIN grid' = DOMAIN grid \cup {e}
        /\ \A x \in DOMAIN grid' : grid'[x] = IF x = e THEN k ELSE grid[x]
    BY <2>1
  <2> QED BY <2>2 DEF MarksSound
<1>3. CASE DrawingStep
  BY <1>1, <1>3 DEF DrawingStep
<1>4. ASSUME NEW e, SetDeleted(e) PROVE MarksSound'
  BY <1>1, <1>4 DEF SetDeleted
<1>5. CASE UNCHANGED copyVars
  BY <1>1, <1>5 DEF copyVars, markVars
<1> QED BY <1>2, <1>3, <1>4, <1>5 DEF CopyNext

LEMMA TraversableAlways == CopySpec => []Traversable
<1>1. CopyInit => MarksSound
  BY DEF CopyInit, MarksSound
<1>2. CopySpec => []MarksSound
  BY <1>1, MarksStay, PTL DEF CopySpec
<1>3. LInv /\ Shapes /\ MarksSound => Traversable
  BY IsTraversable
<1> QED BY <1>2, <1>3, CopyInvariant, PTL

\* A traversal ends unless it explodes INSERTs and enters a block that shows
\* itself, shows everything as often as it is in what it goes through, and stops
\* where the callback answers FALSE: whatever was read, edited and marked before,
\* however deep blocks are nested.
THEOREM TraversalIsSound == CopySpec => []TraversalSound
<1>1. Traversable => TraversalSound
  BY TraversalEndsNow, CountsNow, StopsNow DEF TraversalSound
<1> QED BY <1>1, TraversableAlways, PTL
=============================================================================
