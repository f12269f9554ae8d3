------------------------------ MODULE Document ------------------------------
(***************************************************************************)
(* A dimeModel apart from its drawing: header comments, header variables,  *)
(* tables with their layers, classes, objects and sections that are passed *)
(* through; the layers and the largest handle of the model.  Clients read, *)
(* edit, copy and write it.  Names, handles and numbers are as in the      *)
(* file; memory is not modelled here.                                      *)
(***************************************************************************)
EXTENDS Output, Dict, SequencesExt, FiniteSetsExt

CONSTANTS
  Contents,    \* the files there are, as the records that dimeInput delivers:
               \* comments, group code 999, of binary files only
  Colors,      \* color numbers a client sets: negative for a layer that is off
  LayerNames,  \* names that clients give to layers
  Variables,   \* names of header variables a client sets
  Values,      \* what it sets them to: sequences of records
  Inserted,    \* sections a client makes and inserts
  TableNames,  \* names of tables, classes and objects a client makes
  ItemRecords, \* records it sets of classes and objects
  Junk,        \* what an uninitialized int may hold
  MaxEdits     \* bound on the edits of one behaviour

VARIABLES
  model,    \* the dimeModel
  given,    \* the handles that getUniqueHandle() has given
  touched,  \* the layers that were named before their LAYER entry was
  edits     \* the number of edits made

vars == <<model, given, touched, edits>>

NoHandle == 0 - 1    \* an empty handle
NoName == ""
-----------------------------------------------------------------------------
(* Sections and what they hold.                                             *)

Section(kind, name) ==
  [kind |-> kind, name |-> name, recs |-> << >>, items |-> << >>]
KindOf(name) ==
  CASE name = "HEADER" -> "header" [] name = "TABLES" -> "tables"
    [] OTHER -> "unknown"

\* dimeTable, the table entries, dimeUnknownClass and dimeUnknownObject
Table == [name |-> NoName, recs |-> << >>, entries |-> << >>]
Entry(table) ==
  [table |-> table, name |-> NoName, color |-> 0, info |-> 0, recs |-> << >>]
Class(dxf) ==
  [is |-> "class", dxf |-> dxf, name |-> NoName, app |-> NoName, version |-> 0,
   flag1 |-> 0, flag2 |-> 0, recs |-> << >>]
Object(name) == [is |-> "object", dxf |-> name, recs |-> << >>]

\* dimeClass::handleRecord; dimeObject has no records of its own
ClassHandles(i, r) ==
  CASE r.code = 1 -> [i EXCEPT !.name = r.str]
    [] r.code = 2 -> [i EXCEPT !.app = r.str]
    [] r.code = 90 -> [i EXCEPT !.version = r.num]
    [] r.code = 280 -> [i EXCEPT !.flag1 = r.num]
    [] r.code = 281 -> [i EXCEPT !.flag2 = r.num]

\* dimeRecordHolder::setRecord of a class or an object: the first record of
\* that group code is set, or a new one is the last
SetItem(i, r) ==
  LET at == {j \in DOMAIN i.recs : i.recs[j].code = r.code}
  IN  IF i.is = "class" /\ r.code \in {1, 2, 90, 280, 281} THEN ClassHandles(i, r)
      ELSE IF at = {} THEN [i EXCEPT !.recs = Append(@, r)]
      ELSE [i EXCEPT !.recs[Min(at)] = r]

\* the records of a file, which are strings or numbers, and what sections hold
Record == [code : Int, str : STRING, num : Int]
RecordSeq == Seq(Record)
EntryType ==
  [table : STRING, name : Keys \cup {NoName}, color : Int, info : Nat, recs : RecordSeq]
TableType == [name : STRING, recs : RecordSeq, entries : Seq(EntryType)]
ClassType ==
  [is : {"class"}, dxf : STRING, name : STRING, app : STRING, version : Int,
   flag1 : Int, flag2 : Int, recs : RecordSeq]
ObjectType == [is : {"object"}, dxf : STRING, recs : RecordSeq]
ItemType(kind) ==
  CASE kind = "tables" -> TableType [] kind = "classes" -> ClassType
    [] kind = "objects" -> ObjectType [] kind \in {"header", "unknown"} -> {}
SectionType(kind) ==
  [kind : {kind}, name : STRING, recs : RecordSeq, items : Seq(ItemType(kind))]
Kinds == {"header", "tables", "classes", "objects", "unknown"}
IsSection(section) ==
  /\ section.kind \in Kinds /\ section \in SectionType(section.kind)
  /\ section.name = "HEADER" => section.kind = "header"

\* a section that a client makes brings no handles, and its entries have
\* registered no layers
Fresh(section) ==
  /\ section.kind = "unknown" =>
       \A i \in DOMAIN section.recs : section.recs[i].code # 5
  /\ section.kind = "tables" =>
       \A t \in DOMAIN section.items : \A k \in DOMAIN section.items[t].entries :
         LET e == section.items[t].entries[k]
         IN  e.info = 0 /\ \A i \in DOMAIN e.recs : e.recs[i].code # 5

\* Any string may be the name of a layer, but NoName, which stands for NULL;
\* group code 9 begins a variable.
ASSUME DocumentAssumption ==
  /\ \A file \in Contents :
       /\ file \in RecordSeq
       /\ \A i \in DOMAIN file : file[i].code = 2 => file[i].str \in Keys \cup {NoName}
  /\ Colors \subseteq Int /\ Junk \subseteq Int
  /\ LayerNames \subseteq Keys /\ Keys \subseteq STRING /\ NoName \notin Keys
  /\ Variables \subseteq STRING /\ TableNames \subseteq STRING
  /\ \A values \in Values :
       values \in RecordSeq /\ \A i \in DOMAIN values : values[i].code # 9
  /\ ItemRecords \subseteq Record
  /\ \A section \in Inserted : IsSection(section) /\ Fresh(section)

\* a fact of strings, which the provers do not know
ASSUME StringAssumption == {NoName, "LAYER", "$HANDSEED"} \subseteq STRING

NewModel ==
  [comments |-> << >>, sections |-> << >>, layers |-> << >>,
   layerDict |-> EmptyDict, largest |-> 0]

\* dimeModel::init: the comments and the largest handle are not touched
InitModel(m) ==
  [m EXCEPT !.sections = << >>, !.layers = << >>, !.layerDict = EmptyDict]

FindSection(m, name) ==
  LET at == {i \in DOMAIN m.sections : m.sections[i].name = name}
  IN  IF at = {} THEN 0 ELSE Min(at)
-----------------------------------------------------------------------------
(* Layers and handles.                                                      *)

Abs(n) == IF n < 0 THEN 0 - n ELSE n

\* dimeModel::getLayer(name): its number, or 0
LayerNum(m, name) == IF Has(m.layerDict, name) THEN Find(m.layerDict, name) ELSE 0

\* dimeModel::addLayer: a layer that exists keeps its color
AddLayer(m, name, color) ==
  IF Has(m.layerDict, name) THEN m
  ELSE [m EXCEPT !.layers = Append(@, [name |-> name, color |-> color]),
                 !.layerDict = Enter(@, name, Len(m.layers) + 1)]

\* dimeLayerTable::registerLayer, for entry k of table t of section s
RegisterLayer(m, s, t, k) ==
  LET e == m.sections[s].items[t].entries[k]
  IN  IF e.info # 0 \/ e.name = NoName \/ e.table # "LAYER" THEN m
      ELSE LET n == AddLayer(m, e.name, Abs(e.color))
           IN  [n EXCEPT !.sections[s].items[t].entries[k].info = LayerNum(n, e.name)]

\* dimeLayerTable::setColorNumber
SetColorNumber(m, s, t, k, color) ==
  LET info == m.sections[s].items[t].entries[k].info
      set == [m EXCEPT !.sections[s].items[t].entries[k].color = color]
  IN  IF info = 0 THEN set ELSE [set EXCEPT !.layers[info].color = Abs(color)]

\* dimeModel::registerHandle(int), and of a string: sscanf() says EOF, which
\* is not 0, for an empty one, and the number is what was in memory
RegisterNumber_Last(m, n) == [m EXCEPT !.largest = n]
RegisterNumber(m, n) == IF n >= m.largest THEN [m EXCEPT !.largest = n] ELSE m
RegisterHandle(m, n, junk) ==
  RegisterNumber(m, IF n = NoHandle THEN junk ELSE n)

\* dimeModel::getUniqueHandle
UniqueHandle(m) == m.largest + 1
Counted(m) == [m EXCEPT !.largest = @ + 1]
-----------------------------------------------------------------------------
(* Header variables.                                                        *)

\* dimeHeaderSection::findVariable
FindVariable(recs, name) ==
  LET at == {i \in DOMAIN recs : recs[i] = Str(9, name)}
  IN  IF at = {} THEN 0 ELSE Min(at)

\* the records from i on that belong to one variable
EndOfVariable(recs, i) ==
  Min({j \in i .. Len(recs) : recs[j].code = 9} \cup {Len(recs) + 1})

\* dimeHeaderSection::getVariable: << >> also stands for -1
GetVariable(recs, name, most) ==
  LET i == FindVariable(recs, name)
      values == SubSeq(recs, i + 1, EndOfVariable(recs, i + 1) - 1)
  IN  IF i = 0 THEN << >>
      ELSE SubSeq(values, 1, IF Len(values) < most THEN Len(values) ELSE most)

\* the first record of r's group code from i on, unless the variable ends
SetValue_Anywhere(recs, i, r) ==
  LET at == {j \in i .. Len(recs) : recs[j].code = r.code}
  IN  IF at = {} THEN recs ELSE [recs EXCEPT ![Min(at)] = r]
SetValue(recs, i, r) ==
  LET at == {j \in i .. EndOfVariable(recs, i) - 1 : recs[j].code = r.code}
  IN  IF at = {} THEN recs ELSE [recs EXCEPT ![Min(at)] = r]

\* dimeHeaderSection::setVariable: a new variable gets a record for every
\* value, an old one keeps the records it has
SetVariable(recs, name, values) ==
  LET i == FindVariable(recs, name)
      all == IF i = 0 THEN recs \o <<Str(9, name)>> \o values ELSE recs
      from == FindVariable(all, name) + 1
  IN  Fold(LAMBDA rs, r : SetValue(rs, from, r), all, values)
-----------------------------------------------------------------------------
(* Reading, one record at a time.  "at" is the loop that is open.          *)

Put(p, at, m) == [at |-> at, m |-> m]
Here(p) == Len(p.m.sections)
Items(p) == p.m.sections[Here(p)].items
ThisTable(p) == Len(Items(p))
ThisEntry(p) == Len(Items(p)[ThisTable(p)].entries)

\* the records of a header, of an unknown section, which keeps its ENDSEC
ReadIntoSection(p, r) ==
  LET s == Here(p)
      kept == [p.m EXCEPT !.sections[s].recs = Append(@, r)]
  IN  IF r # Str(0, "ENDSEC") THEN Put(p, "records", kept)
      ELSE Put(p, "model", IF p.m.sections[s].kind = "header" THEN p.m ELSE kept)

\* dimeTable::read: its own records, then entries up to ENDTAB
ReadIntoTable(p, r) ==
  LET s == Here(p)
      t == ThisTable(p)
  IN  CASE r = Str(0, "ENDTAB") -> Put(p, "tables", p.m)
        [] r.code = 0 /\ r.str # "ENDTAB" ->
             Put(p, "entry",
                 [p.m EXCEPT !.sections[s].items[t].entries = Append(@, Entry(r.str))])
        [] r.code = 2 -> Put(p, "table", [p.m EXCEPT !.sections[s].items[t].name = r.str])
        [] r.code = 70 -> p
        [] OTHER -> Put(p, "table", [p.m EXCEPT !.sections[s].items[t].recs = Append(@, r)])

\* dimeLayerTable::handleRecord, and dimeLayerTable::read when the entry ends
ReadIntoEntry(p, r) ==
  LET s == Here(p)
      t == ThisTable(p)
      k == ThisEntry(p)
      layer == Items(p)[t].entries[k].table = "LAYER"
  IN  CASE r.code = 0 -> ReadIntoTable(Put(p, "table", RegisterLayer(p.m, s, t, k)), r)
        [] r.code = 2 /\ layer ->
             Put(p, "entry", [p.m EXCEPT !.sections[s].items[t].entries[k].name = r.str])
        [] r.code = 62 /\ layer -> Put(p, "entry", SetColorNumber(p.m, s, t, k, r.num))
        [] OTHER ->
             Put(p, "entry",
                 [p.m EXCEPT !.sections[s].items[t].entries[k].recs = Append(@, r)])

\* dimeModel::read and dimeTablesSection::read; a group code 999 gets here from
\* a binary file only
ReadRecord(p, r) ==
  CASE p.at = "model" /\ r.code = 999 ->
         Put(p, "model", [p.m EXCEPT !.comments = Append(@, r)])
    [] p.at = "model" /\ r.code = 0 ->
         Put(p, IF r.str = "EOF" THEN "end" ELSE "name", p.m)
    [] p.at = "name" ->
         Put(p, IF KindOf(r.str) = "tables" THEN "tables" ELSE "records",
             [p.m EXCEPT !.sections = Append(@, Section(KindOf(r.str), r.str))])
    [] p.at = "records" -> ReadIntoSection(p, r)
    [] p.at = "tables" ->
         IF r = Str(0, "ENDSEC") THEN Put(p, "model", p.m)
         ELSE Put(p, "table",
                  [p.m EXCEPT !.sections[Here(p)].items = Append(@, Table)])
    [] p.at = "table" -> ReadIntoTable(p, r)
    [] p.at = "entry" -> ReadIntoEntry(p, r)
    [] OTHER -> p

\* dimeInput::readString registers what follows group code 5
ReadOne(p, r, junk) ==
  LET q == ReadRecord(p, r)
  IN  IF r.code = 5 THEN [q EXCEPT !.m = RegisterHandle(@, r.num, junk)] ELSE q

Load(m, recs, junk) ==
  Fold(LAMBDA p, r : ReadOne(p, r, junk), [at |-> "model", m |-> m], recs).m
-----------------------------------------------------------------------------
(* Writing.                                                                 *)

WriteEach(o, Write(_, _), items) ==
  Fold(LAMBDA x, item : AndThen(x, LAMBDA y : Write(y, item)), o, items)

PreWrite_RecordsTwice(o, e) ==
  WriteRecords(WriteRecords(WriteRecord(o, Str(0, e.table)), e.recs), e.recs)

\* dimeTableEntry::preWrite, which is all that is written of other entries
PreWrite(o, e) == WriteRecords(WriteRecord(o, Str(0, e.table)), e.recs)

\* dimeLayerTable::write says TRUE whatever happened
WriteLayer(o, e) ==
  LET Name(x) == IF e.name = NoName THEN x ELSE WriteUnchecked(x, Str(2, e.name))
  IN  Ignored(WriteUnchecked(Name(PreWrite(o, e)), Num(62, e.color)))

WriteEntry(o, e) == IF e.table = "LAYER" THEN WriteLayer(o, e) ELSE PreWrite(o, e)

\* dimeTable::tableName; fprintf() prints a NULL
TableName(t) ==
  IF t.name # NoName THEN t.name
  ELSE IF t.entries # << >> THEN t.entries[1].table ELSE "(null)"

\* dimeTable::write
WriteTable(o, t) ==
  LET head == WriteRecords(WriteUnchecked(WriteUnchecked(o, Str(0, "TABLE")),
                                          Str(2, TableName(t))), t.recs)
      count(x) == WriteUnchecked(x, Num(70, Len(t.entries)))
  IN  AndThen(WriteEach(AndThen(head, count), WriteEntry, t.entries),
              LAMBDA x : WriteUnchecked(x, Str(0, "ENDTAB")))

\* dimeUnknownClass::write with dimeClass::write
WriteClass(o, i) ==
  LET Given(name, default) == IF name = NoName THEN default ELSE name
      own == <<Str(1, Given(i.name, "Default class name")),
               Str(2, Given(i.app, "Default app name")), Num(90, i.version),
               Num(280, i.flag1), Num(281, i.flag2)>>
  IN  AndThen(WriteRecord(o, Str(9, i.dxf)),
              LAMBDA x : WriteRecords(Fold(WriteUnchecked, x, own), i.recs))

\* dimeUnknownObject::write with dimeObject::write
WriteObject(o, i) ==
  AndThen(WriteRecord(o, Str(0, i.dxf)), LAMBDA x : WriteRecords(x, i.recs))

\* write() of the sections; o is the output after their name
EndSec(o) == AndThen(o, LAMBDA x : WriteUnchecked(x, Str(0, "ENDSEC")))
WriteHeader(o, s) == EndSec(WriteRecords(WriteRecord(o, Str(2, s.name)), s.recs))
WriteTables(o, s) ==
  WriteNext(WriteEach(WriteRecord(o, Str(2, s.name)), WriteTable, s.items),
            Str(0, "ENDSEC"))
WriteClasses(o, s) ==
  EndSec(WriteEach(WriteUnchecked(o, Str(2, s.name)), WriteClass, s.items))
WriteObjects(o, s) ==
  EndSec(WriteEach(WriteUnchecked(o, Str(2, s.name)), WriteObject, s.items))
WriteUnknown(o, s) == WriteRecords(WriteRecord(o, Str(2, s.name)), s.recs)

WriteSection(o, s) ==
  CASE s.kind = "header" -> WriteHeader(o, s)
    [] s.kind = "tables" -> WriteTables(o, s)
    [] s.kind = "classes" -> WriteClasses(o, s)
    [] s.kind = "objects" -> WriteObjects(o, s)
    [] s.kind = "unknown" -> WriteUnknown(o, s)

\* a header comment, which dimeStringRecord::write leaves out when its group
\* code is refused, without dimeModel::write looking at the answer
WriteComment(o, r) == Ignored(WriteRecord(o, r))

\* dimeModel::write, from the header comments on
WriteModel(m, refusal) ==
  LET comments == Fold(WriteComment, NewOutput(refusal), m.comments)
      Begun(o, s) == WriteSection(WriteUnchecked(o, Str(0, "SECTION")), s)
  IN  WriteNext(WriteEach(comments, Begun, m.sections), Str(0, "EOF"))

\* dimeModel::write before that: $HANDSEED becomes the handle that would be
\* given next
SeedWith(m, handle) ==
  LET h == FindSection(m, "HEADER")
      seed == IF h = 0 THEN << >> ELSE GetVariable(m.sections[h].recs, "$HANDSEED", 1)
  IN  IF m.largest <= 0 \/ seed = << >> THEN m
      ELSE [m EXCEPT !.sections[h].recs =
              SetVariable(@, "$HANDSEED", <<Num(seed[1].code, handle)>>)]
Seeded(m) == SeedWith(m, UniqueHandle(m))
-----------------------------------------------------------------------------
(* Counting: countRecords() is for the progress that a callback shows.     *)

CountEach(Count(_), items) == Fold(LAMBDA n, item : n + Count(item), 0, items)

\* the name of a layer is counted if the layer is registered
CountLayer(e) == 2 + (IF e.info # 0 THEN 1 ELSE 0) + Len(e.recs)
CountEntry(e) == IF e.table = "LAYER" THEN CountLayer(e) ELSE 1 + Len(e.recs)
CountTable(t) == 2 + Len(t.recs) + CountEach(CountEntry, t.entries) + 1

\* dimeClass::countRecords and dimeObject::countRecords
CountClass(i) == 1 + 5 + Len(i.recs)
CountObject(i) == 1 + Len(i.recs)

CountTables(s) == CountEach(CountTable, s.items) + 2
CountClasses(s) == CountEach(CountClass, s.items) + 2
CountObjects(s) == CountEach(CountObject, s.items) + 2
CountHeader(s) == Len(s.recs) + 2
CountUnknown(s) == Len(s.recs) + 1

CountSection(s) ==
  CASE s.kind = "header" -> CountHeader(s)
    [] s.kind = "tables" -> CountTables(s)
    [] s.kind = "classes" -> CountClasses(s)
    [] s.kind = "objects" -> CountObjects(s)
    [] s.kind = "unknown" -> CountUnknown(s)

CountModel(m) == CountEach(LAMBDA s : 1 + CountSection(s), m.sections) + 1
-----------------------------------------------------------------------------
(* Copying.                                                                 *)

\* dimeLayerTable::copy: registered again, in the copy, if it was
CopyEntry(m, n, e) ==
  LET name == m.layers[e.info].name
      s == Len(n.sections)
      t == Len(n.sections[s].items)
  IN  IF e.info = 0 THEN [n EXCEPT !.sections[s].items[t].entries = Append(@, e)]
      ELSE LET x == AddLayer(n, name, Abs(e.color))
           IN  [x EXCEPT !.sections[s].items[t].entries =
                           Append(@, [e EXCEPT !.info = LayerNum(x, name)])]

\* dimeTable::copy, and copy() of the sections
CopyTable(m, n, t) ==
  Fold(LAMBDA x, e : CopyEntry(m, x, e),
       [n EXCEPT !.sections[Len(n.sections)].items =
                   Append(@, [t EXCEPT !.entries = << >>])], t.entries)
CopyTables(m, n, section) ==
  Fold(LAMBDA x, t : CopyTable(m, x, t),
       [n EXCEPT !.sections = Append(@, [section EXCEPT !.items = << >>])],
       section.items)

\* dimeClass::copyRecords, dimeObject::copyRecords
CopyItem(i) ==
  IF i.is = "object" THEN [Object(i.dxf) EXCEPT !.recs = i.recs]
  ELSE [Class(i.dxf) EXCEPT !.recs = i.recs, !.name = i.name, !.app = i.app,
                            !.version = i.version, !.flag1 = i.flag1,
                            !.flag2 = i.flag2]
CopyItems(n, section) ==
  LET new == Section(section.kind, section.name)
      items == Fold(LAMBDA done, i : Append(done, CopyItem(i)), << >>, section.items)
  IN  [n EXCEPT !.sections = Append(@, [new EXCEPT !.items = items])]

\* header variables and the records of an unknown section
CopyRecords(n, section) ==
  LET new == Section(section.kind, section.name)
  IN  [n EXCEPT !.sections = Append(@, [new EXCEPT !.recs = section.recs])]

CopySection(m, n, section) ==
  CASE section.kind = "tables" -> CopyTables(m, n, section)
    [] section.kind \in {"classes", "objects"} -> CopyItems(n, section)
    [] OTHER -> CopyRecords(n, section)

\* dimeModel::copy: the header comments stay behind
CopyFrom(m, n) == Fold(LAMBDA x, s : CopySection(m, x, s), n, m.sections)
CopyModel(m) == CopyFrom(m, [NewModel EXCEPT !.largest = m.largest])
-----------------------------------------------------------------------------
(* The program: a model, read from a file, that a client edits.            *)

\* the entries of all the tables, each by its section, table and place
Tables(m) == {s \in DOMAIN m.sections : m.sections[s].kind = "tables"}
Entries(m) ==
  UNION {UNION {{<<s, t, k>> : k \in DOMAIN m.sections[s].items[t].entries} :
                  t \in DOMAIN m.sections[s].items} : s \in Tables(m)}
EntryAt(m, p) == m.sections[p[1]].items[p[2]].entries[p[3]]

Init ==
  /\ \E file \in Contents, junk \in Junk : model = Load(NewModel, file, junk)
  /\ given = {} /\ touched = {} /\ edits = 0

Edit(m) ==
  /\ edits < MaxEdits /\ edits' = edits + 1
  /\ model' = m

\* read() into the model that was there, and into a new one
Read ==
  /\ \E file \in Contents, junk \in Junk : Edit(Load(InitModel(model), file, junk))
  /\ given' = {} /\ touched' = {}

\* dimeHeaderSection::setVariable of a client
ClientSetsVariable ==
  /\ \E s \in DOMAIN model.sections, name \in Variables, values \in Values :
       /\ model.sections[s].kind = "header"
       /\ Edit([model EXCEPT !.sections[s].recs = SetVariable(@, name, values)])
  /\ UNCHANGED <<given, touched>>

\* a LAYER entry that a client makes, with a handle, and inserts in a table
\* (insertTableEntry); it may register the layer
InsertEntry ==
  \E s \in Tables(model), name \in LayerNames, color \in Colors, registers \in BOOLEAN :
    \E t \in DOMAIN model.sections[s].items :
      \E k \in 1 .. Len(model.sections[s].items[t].entries) + 1 :
        LET entry == [Entry("LAYER") EXCEPT !.name = name, !.color = color,
                                            !.recs = <<Num(5, UniqueHandle(model))>>]
            m == [Counted(model) EXCEPT !.sections[s].items[t].entries =
                                          InsertAt(@, k, entry)]
        IN  /\ Edit(IF registers THEN RegisterLayer(m, s, t, k) ELSE m)
            /\ given' = given \cup {UniqueHandle(model)}
            /\ touched' = IF Has(model.layerDict, name) THEN touched \cup {name}
                          ELSE touched

IsLayer(e) == e.table = "LAYER"

ClientSetsColor ==
  /\ \E p \in Entries(model), color \in Colors :
       /\ IsLayer(EntryAt(model, p))
       /\ Edit(SetColorNumber(model, p[1], p[2], p[3], color))
  /\ UNCHANGED <<given, touched>>

\* dimeTable::removeTableEntry
RemoveEntry ==
  \E p \in Entries(model) :
    /\ Edit([model EXCEPT !.sections[p[1]].items[p[2]].entries = RemoveAt(@, p[3])])
    /\ touched' = touched \cup {EntryAt(model, p).name}
    /\ UNCHANGED given

\* dimeModel::addLayer of an entity that is read, or of a client: color 7
UseLayer ==
  /\ \E name \in LayerNames :
       /\ Edit(AddLayer(model, name, 7))
       /\ touched' = IF Has(model.layerDict, name) THEN touched
                     ELSE touched \cup {name}
  /\ UNCHANGED given

\* dimeTablesSection::insertTable and removeTable; the table is a new one
InsertTable ==
  /\ \E s \in Tables(model), name \in TableNames :
       \E t \in 1 .. Len(model.sections[s].items) + 1 :
         Edit([model EXCEPT !.sections[s].items =
                 InsertAt(@, t, [Table EXCEPT !.name = name])])
  /\ UNCHANGED <<given, touched>>
RemoveTable ==
  \E s \in Tables(model) : \E t \in DOMAIN model.sections[s].items :
    /\ Edit([model EXCEPT !.sections[s].items = RemoveAt(@, t)])
    /\ touched' = touched \cup
         {EntryAt(model, p).name :
            p \in {q \in Entries(model) : q[1] = s /\ q[2] = t}}
    /\ UNCHANGED given

\* the records of a table: dimeTable::setTableName, insertTableRecord of
\* other records than the name, and removeTableRecord
EditTable(s, t, table) == Edit([model EXCEPT !.sections[s].items[t] = table])
SetTableName(s, t, name) ==
  EditTable(s, t, [model.sections[s].items[t] EXCEPT !.name = name])
InsertTableRecord(s, t, r) ==
  \E i \in 1 .. Len(model.sections[s].items[t].recs) + 1 :
    EditTable(s, t, [model.sections[s].items[t] EXCEPT !.recs = InsertAt(@, i, r)])
RemoveTableRecord(s, t) ==
  \E i \in DOMAIN model.sections[s].items[t].recs :
    EditTable(s, t, [model.sections[s].items[t] EXCEPT !.recs = RemoveAt(@, i)])

ClientEditsTable ==
  /\ \E s \in Tables(model) : \E t \in DOMAIN model.sections[s].items :
       \/ \E name \in TableNames : SetTableName(s, t, name)
       \/ \E r \in ItemRecords : InsertTableRecord(s, t, r)
       \/ RemoveTableRecord(s, t)
  /\ UNCHANGED <<given, touched>>

\* insertClass and insertObject, and the methods that remove them
Holders == {s \in DOMAIN model.sections :
              model.sections[s].kind \in {"classes", "objects"}}
NewItem(s, name) ==
  IF model.sections[s].kind = "classes" THEN Class(name) ELSE Object(name)
InsertItem ==
  /\ \E s \in Holders, name \in TableNames :
       \E i \in 1 .. Len(model.sections[s].items) + 1 :
         Edit([model EXCEPT !.sections[s].items = InsertAt(@, i, NewItem(s, name))])
  /\ UNCHANGED <<given, touched>>
RemoveItem ==
  /\ \E s \in Holders : \E i \in DOMAIN model.sections[s].items :
       Edit([model EXCEPT !.sections[s].items = RemoveAt(@, i)])
  /\ UNCHANGED <<given, touched>>

\* setRecord() of a class or an object
ClientSetsItem ==
  /\ \E s \in Holders, r \in ItemRecords :
       \E i \in DOMAIN model.sections[s].items :
         Edit([model EXCEPT !.sections[s].items[i] = SetItem(@, r)])
  /\ UNCHANGED <<given, touched>>

\* dimeModel::insertSection and removeSection
InsertSection ==
  /\ \E section \in Inserted, s \in 1 .. Len(model.sections) + 1 :
       Edit([model EXCEPT !.sections = InsertAt(@, s, section)])
  /\ UNCHANGED <<given, touched>>
RemoveSection ==
  /\ \E s \in DOMAIN model.sections :
       /\ Edit([model EXCEPT !.sections = RemoveAt(@, s)])
       /\ touched' = touched \cup
            {EntryAt(model, p).name : p \in {q \in Entries(model) : q[1] = s}}
  /\ UNCHANGED given

\* the copy replaces the model
Copy ==
  /\ Edit(CopyModel(model))
  /\ touched' = {}
  /\ UNCHANGED given

\* the model is written, which may change $HANDSEED
Write ==
  /\ Edit(Seeded(model))
  /\ UNCHANGED <<given, touched>>

Next ==
  \/ Read \/ ClientSetsVariable \/ InsertEntry \/ ClientSetsColor \/ RemoveEntry
  \/ UseLayer \/ InsertTable \/ RemoveTable \/ ClientEditsTable \/ InsertItem \/ RemoveItem
  \/ ClientSetsItem \/ InsertSection \/ RemoveSection \/ Copy \/ Write

Spec == Init /\ [][Next]_vars
-----------------------------------------------------------------------------
(* Properties.                                                              *)

\* a callback that never refuses
Never == 0 - 1

Whole(m) == WriteModel(m, Never)

\* the records that a text consists of
Records(lines) ==
  [i \in 1 .. Len(lines) \div 2 |-> [lines[2 * i] EXCEPT !.code = lines[2 * i - 1].code]]

\* dimeInput::readGroupCode of a text, which is all that dimeOutput writes:
\* comments are skipped wherever they are
Delivered(recs) == SelectSeq(recs, LAMBDA r : r.code # 999)

\* write() answers TRUE only for a whole file, whenever the callback refuses,
\* and answers TRUE when it never does: dimeOutput keeps "aborted", so that
\* results nobody looks at are found by a group code written later.
WriteTrueMeansWhole ==
  /\ Whole(model).ok
  /\ \A call \in 0 .. Whole(model).numwrites :
       call % AskEvery = 0 =>
         LET o == WriteModel(model, call)
         IN  o.ok => o.lines = Whole(model).lines

\* countRecords() tells a callback how many group codes write() will write,
\* but for the header comments, one record of each table, and the names of
\* layers that no table entry has registered: the progress it shows passes
\* 100 per cent by so many and no more.
Unregistered(e) == IsLayer(e) /\ e.name # NoName /\ e.info = 0
TableOver(t) == 1 + Cardinality({k \in DOMAIN t.entries : Unregistered(t.entries[k])})
SectionOver(s) == IF s.kind = "tables" THEN CountEach(TableOver, s.items) ELSE 0
CountAnnounced ==
  Whole(model).numwrites =
    CountModel(model) + Len(model.comments) + CountEach(SectionOver, model.sections)

\* The writing is announced, and its result is to be believed.
WritingSound == WriteTrueMeansWhole /\ CountAnnounced

\* What is written can be read, and is written the same again but for its
\* comments, which dimeInput keeps from the model when it reads a text: nothing
\* of a header, table, layer, class, object or unknown section is lost or
\* doubled, and nothing else goes with the comments.
ReadBack ==
  LET delivered == Delivered(Records(Whole(model).lines))
  IN  Records(Whole(Load(NewModel, delivered, 0)).lines) = delivered


\* the handles of table entries and of sections passed through, with their
\* places; those in the header are seeds
Places(recs, at) == {<<at, i>> : i \in {j \in DOMAIN recs : recs[j].code = 5}}
HandlesAt(m) ==
  (UNION {{<<EntryAt(m, p).recs[q[2]].num, q>> : q \in Places(EntryAt(m, p).recs, p)} :
            p \in Entries(m)})
  \cup (UNION {{<<m.sections[s].recs[q[2]].num, q>> :
                   q \in Places(m.sections[s].recs, <<s>>)} :
                 s \in {t \in DOMAIN m.sections : m.sections[t].kind = "unknown"}})

\* A handle that getUniqueHandle() has given is in one place only, whatever
\* was read, copied, written or read again, an empty handle included; and the
\* $HANDSEED that is written is above them all.  Compared are the handles of
\* table entries and of sections passed through.
HandlesUnique ==
  /\ \A x, y \in HandlesAt(model) : x[1] = y[1] /\ x[1] \in given => x = y
  /\ LET h == FindSection(model, "HEADER")
         seed == GetVariable(Seeded(model).sections[h].recs, "$HANDSEED", 1)
     IN  h # 0 /\ model.largest > 0 /\ seed # << >> =>
           \A x \in HandlesAt(model) : x[1] < seed[1].num

\* the variables of a header
OneOfEach(values) ==
  \A i, j \in DOMAIN values : values[i].code = values[j].code => i = j
Names(recs) == {recs[i].str : i \in {j \in DOMAIN recs : recs[j].code = 9}}

\* setVariable() makes a new variable with the values given, one of each group
\* code, and changes no other variable, whatever group codes the two share.
VariableLaws ==
  \A s \in DOMAIN model.sections : model.sections[s].kind = "header" =>
    LET recs == model.sections[s].recs
    IN  \A name \in Variables, values \in Values :
          LET set == SetVariable(recs, name, values)
          IN  /\ \A other \in Names(set) \ {name} :
                   GetVariable(set, other, Len(set)) = GetVariable(recs, other, Len(set))
              /\ name \notin Names(recs) /\ OneOfEach(values) =>
                   GetVariable(set, name, Len(set)) = values

\* a layer's entry that was registered and is the only one of its name
Registered(m) ==
  {p \in Entries(m) :
     /\ EntryAt(m, p).info # 0
     /\ \A q \in Entries(m) : IsLayer(EntryAt(m, q))
          /\ EntryAt(m, q).name = EntryAt(m, p).name => q = p}

\* The dictionary finds every layer by its name, under its number, though
\* names share buckets; and the layer that an entry is registered for has the
\* color of the entry, unless the layer was there before the entry was.
LayersSound ==
  /\ \A i \in DOMAIN model.layers : LayerNum(model, model.layers[i].name) = i
  /\ \A p \in Registered(model) :
       LET e == EntryAt(model, p)
       IN  /\ model.layers[e.info].name = e.name
           /\ e.name \notin touched => model.layers[e.info].color = Abs(e.color)
=============================================================================
