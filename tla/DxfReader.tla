------------------------------ MODULE DxfReader ------------------------------
(***************************************************************************)
(* dimeModel::read() and the read() methods it calls, down to records and  *)
(* the dimeInput they share.  The calls that are open are a stack; a step  *)
(* is one turn of the loop of the innermost of them, with every group code *)
(* and value that turn reads.  "sections" is what the model owns: the      *)
(* records of the sections that were read to their end.                    *)
(***************************************************************************)
EXTENDS Input

CONSTANTS Files   \* the files: their records, how they are written, the cut

VARIABLES
  file,      \* the file that is read
  in,        \* the dimeInput
  stack,     \* the read() calls that are open, the innermost last
  sections,  \* the records of the header comments and sections of the model
  status     \* "reading", or what dimeModel::read() returned, or "crashed"

vars == <<file, in, stack, sections, status>>

\* a record: the text of a string or a real, the number of an integer
Str(code, text) == [code |-> code, text |-> text, num |-> 0]
Num(code, num) == [code |-> code, text |-> << >>, num |-> num]
Named(name) == Str(0, <<name>>)

\* stands for an entity that is in an array a second time, or for NULL
Again == Str(0, <<"again">>)
-----------------------------------------------------------------------------
(* The file as its characters.                                              *)

Pad(n) == IF n THEN <<"SP">> ELSE << >>
EolOf(eol) == IF eol = "CRLF" THEN <<"CR", "LF">> ELSE <<eol>>

Numerals(n) == CHOOSE c \in DigitRuns \ {"010"} : Numeral[c] = n
HexNumerals(n) == CHOOSE c \in HexRuns : HexNumeral[c] = n
Figures(n, f) == IF f.hex THEN <<"0", "x", HexNumerals(n)>> ELSE <<Numerals(n)>>
ValueOf(r, f) == IF r.num = 0 /\ r.text # << >> THEN r.text ELSE Figures(r.num, f)

\* get_record_type, for the codes that occur
RecordType(code) ==
  CASE code \in 10 .. 59 \cup 140 .. 147 \cup {210, 220, 230} -> "double"
    [] code \in 60 .. 79 \cup 170 .. 178 \cup 1060 .. 1070 -> "int16"
    [] code \in 90 .. 99 \cup {1071} -> "int32"
    [] code \in 270 .. 275 \cup 280 .. 289 -> "int8"
    [] OTHER -> "string"

LineOf(chars, f) == Pad(f.pad) \o chars \o EolOf(f.eol)

TextRecord(r, f) ==
  LineOf(Figures(r.code, f), f) \o
  LineOf(IF RecordType(r.code) = "string" THEN r.text ELSE ValueOf(r, f), f)

Filled(chars, n) == chars \o [i \in 1 .. n - Len(chars) |-> "NUL"]

\* the two bytes of the group codes that need them
TwoBytes(code) ==
  CASE code = 0 -> <<"NUL", "NUL">>
    [] code = 280 -> <<"24", "1">>
    [] code = 999 -> <<"231", "3">>
    [] OTHER -> <<Numerals(code), "NUL">>

BinaryRecord(r, f) ==
  (IF f.wide THEN TwoBytes(r.code)
   ELSE IF r.code > 254 THEN <<"255">> \o TwoBytes(r.code)
   ELSE SubSeq(TwoBytes(r.code), 1, 1)) \o
  (CASE RecordType(r.code) = "string" -> Append(r.text, "NUL")
     [] RecordType(r.code) = "double" -> Filled(r.text, 8)
     [] RecordType(r.code) = "int8" -> ValueOf(r, f)
     [] RecordType(r.code) = "int16" -> Filled(ValueOf(r, f), 2)
     [] RecordType(r.code) = "int32" -> Filled(ValueOf(r, f), 4))

Binary(f) == f.eol = "NUL"
Characters(f) ==
  LET one(r) == IF Binary(f) THEN BinaryRecord(r, f) ELSE TextRecord(r, f)
      all == FlattenSeq([i \in DOMAIN f.records |-> one(f.records[i])])
  IN  IF Binary(f) THEN Filled(<<"ID">>, 5) \o all
      ELSE SubSeq(all, 1, Len(all) - f.cut)
-----------------------------------------------------------------------------
(* Results of one turn: what it read, and the input it left.               *)

\* a group code with the string after it, which are read together or, where
\* the code has to be one of "codes", one after the other
StringAfter(code) ==
  With(ReadString(code.in), LAMBDA text :
    [ok |-> code.ok, num |-> code.num, null |-> ~text.ok, text |-> text.text,
     in |-> text.in])
NextAny(s, goOn) == With(ReadGroupCode(s, goOn), StringAfter)
Next0(s, codes, goOn) ==
  With(ReadGroupCode(s, goOn), LAMBDA code :
    IF code.ok /\ code.num \in codes THEN StringAfter(code)
    ELSE [ok |-> FALSE, in |-> code.in])

\* dimeRecord::readRecordData and the read() methods of the record classes
ReadNumber(r, code) == [ok |-> r.ok, in |-> r.in, rec |-> Num(code, r.num)]
ReadText(r, code) == [ok |-> r.ok, in |-> r.in, rec |-> Str(code, r.text)]
ReadData(s, code) ==
  CASE RecordType(code) = "string" -> With(ReadString(s), LAMBDA r : ReadText(r, code))
    [] RecordType(code) = "double" -> With(ReadDouble(s), LAMBDA r : ReadText(r, code))
    [] RecordType(code) = "int8" -> With(ReadInt8(s), LAMBDA r : ReadNumber(r, code))
    [] RecordType(code) = "int16" -> With(ReadInt16(s), LAMBDA r : ReadNumber(r, code))
    [] RecordType(code) = "int32" -> With(ReadInt32(s), LAMBDA r : ReadNumber(r, code))

Frame(kind, name, items) == [kind |-> kind, name |-> name, items |-> items]
Top == Last(stack)
Kept(s, new, kept) == [in |-> s, stack |-> new, kept |-> kept, is |-> "reading"]
To(s, new) == Kept(s, new, sections)
Stops(s, how) == [in |-> s, stack |-> << >>, kept |-> sections, is |-> how]
Fails_RefusalIsOk(s) == Stops(s, IF s.aborted THEN "ok" ELSE "failed")
Fails(s) == Stops(s, "failed")

\* the innermost call is done: its records go to the call that made it
Return(s, more) ==
  LET items == Top.items \o more
      rest == Front(stack)
  IN  IF Len(stack) = 1 THEN Kept(s, << >>, sections \o items)
      ELSE To(s, [rest EXCEPT ![Len(rest)].items = @ \o items])

Push(s, frame) == To(s, Append(stack, frame))
Become(s, frame) == To(s, Append(Front(stack), frame))
Add(s, rec) == Become(s, [Top EXCEPT !.items = Append(@, rec)])
-----------------------------------------------------------------------------
(* The loops.                                                               *)

SectionKind(name) ==
  CASE name = "HEADER" -> "header" [] name = "TABLES" -> "tables"
    [] name = "BLOCKS" -> "blocks" [] name = "ENTITIES" -> "entities"
    [] OTHER -> "unknown"

ModelTurn_GoesOn(goOn, goOn2) ==
  With(Next0(in, {0, 999}, goOn), LAMBDA r :
    IF ~r.ok THEN To(r.in, stack)
    ELSE IF r.null THEN Fails(r.in)
    ELSE IF r.num = 999
         THEN Kept(r.in, stack, Append(sections, Str(999, r.text)))
    ELSE IF r.text = <<"EOF">> THEN Stops(r.in, "ok")
    ELSE IF r.text # <<"SECTION">> THEN Fails(r.in)
    ELSE With(NextAny(r.in, goOn2), LAMBDA name :
           IF ~name.ok \/ name.null \/ name.num # 2 THEN Fails(name.in)
           ELSE Push(name.in, Frame(SectionKind(Last(name.text)), "section",
                              <<Named("SECTION"), Str(2, name.text)>>))))

\* dimeModel::read and dimeSection::createSection: comments that dimeInput
\* lets through are kept, EOF ends the file
ModelTurn(goOn, goOn2) ==
  With(Next0(in, {0, 999}, goOn), LAMBDA r :
    IF ~r.ok \/ r.null THEN Fails(r.in)
    ELSE IF r.num = 999
         THEN Kept(r.in, stack, Append(sections, Str(999, r.text)))
    ELSE IF r.text = <<"EOF">> THEN Stops(r.in, "ok")
    ELSE IF r.text # <<"SECTION">> THEN Fails(r.in)
    ELSE With(NextAny(r.in, goOn2), LAMBDA name :
           IF ~name.ok \/ name.null \/ name.num # 2 THEN Fails(name.in)
           ELSE Push(name.in, Frame(SectionKind(Last(name.text)), "section",
                              <<Named("SECTION"), Str(2, name.text)>>))))

\* dimeRecord::readRecord, which does not look at what read() answers: a
\* number that cannot be read stays undefined (0 here)
ReadRecord(s, goOn) ==
  With(ReadGroupCode(s, goOn), LAMBDA code :
    IF ~code.ok THEN [ok |-> FALSE, in |-> code.in]
    ELSE With(ReadData(code.in, code.num), LAMBDA data :
           [ok |-> TRUE, in |-> data.in, rec |-> data.rec,
            null |-> code.num = 0 /\ ~data.ok]))

\* dimeHeaderSection::read and dimeUnknownSection::read; isEndOfSectionRecord()
\* compares the name of a record 0 with strcmp(), NULL or not
RecordsTurn(goOn) ==
  With(ReadRecord(in, goOn), LAMBDA r :
    IF ~r.ok THEN Fails(r.in)
    ELSE IF r.null THEN Stops(r.in, "crashed")
    ELSE IF r.rec = Named("ENDSEC") THEN Return(r.in, <<r.rec>>)
    ELSE Add(r.in, r.rec))

\* what ends the list that a frame reads, and what may be in it
StopOf(frame) == IF frame.name = "section" THEN "ENDSEC" ELSE frame.name
Allowed(frame, text) ==
  CASE frame.kind = "blocks" -> text = <<"BLOCK">>
    [] frame.kind = "tables" -> text = <<"TABLE">>
    [] frame.kind = "vertices" -> text = <<"VERTEX">>
    [] OTHER -> TRUE

\* the end of a list of members: ENDBLK or SEQEND is read as an entity
EndMembers_Dropped(s) == Become(s, Frame("end", Top.name, Top.items))
EndMembers(s) ==
  Become(s, Frame("end", Top.name, Append(Top.items, Named(Top.name))))

\* a name is compared with strcmp(), NULL or not, in three of the loops
NoName(s) ==
  CASE Top.kind \in {"blocks", "tables", "vertices"} -> Stops(s, "crashed")
    [] Top.kind = "members" ->
         Become(s, Frame("end", Top.name, Append(Top.items, Again)))
    [] OTHER -> Fails(s)

\* an item of a list: its name has been read
Item(r) ==
  IF r.null THEN NoName(r.in)
  ELSE IF r.text = <<StopOf(Top)>>
       THEN IF Top.kind \in {"members", "vertices"} THEN EndMembers(r.in)
            ELSE Return(r.in, <<Str(0, r.text)>>)
  ELSE IF ~Allowed(Top, r.text) THEN Fails(r.in)
  ELSE Push(r.in, Frame(IF Top.kind = "tables" THEN "table" ELSE "holder",
                        r.text, <<Str(0, r.text)>>))

\* the lists: dimeEntitiesSection, dimeBlocksSection and dimeTablesSection,
\* dimeEntity::readEntities, the vertices of dimePolyline::read and the
\* entries of dimeTable::read
ListTurn(goOn) ==
  With(Next0(in, {0}, goOn), LAMBDA r : IF r.ok THEN Item(r) ELSE Fails(r.in))

\* dimeTable::read: the records before the first entry, whose name follows
TableTurn(goOn) ==
  With(ReadGroupCode(in, goOn), LAMBDA code :
    IF ~code.ok THEN Fails(code.in)
    ELSE IF code.num # 0
    THEN With(ReadData(code.in, code.num), LAMBDA data :
           IF data.ok THEN Add(data.in, data.rec) ELSE Fails(data.in))
    ELSE With(ReadString(code.in), LAMBDA text :
           IF ~text.ok THEN Fails(text.in)
           ELSE IF text.text = <<"ENDTAB">>
                THEN Return(text.in, <<Named("ENDTAB")>>)
           ELSE To(text.in, Front(stack) \o
                     <<Frame("entries", "ENDTAB", Top.items),
                       Frame("holder", text.text, <<Str(0, text.text)>>)>>)))

\* does the last record 66 of a list say that entities follow?
Follow(items) ==
  LET flags == SelectSeq(items, LAMBDA r : r.code = 66)
  IN  flags # << >> /\ Last(flags).num # 0

\* dimeBlock::read, dimeInsert::read, dimePolyline::read after the records
AfterRecords(s) ==
  LET name == Top.name
  IN  IF Top.kind = "end" THEN Return(s, << >>)
      ELSE IF name = <<"BLOCK">> THEN Become(s, Frame("members", "ENDBLK", Top.items))
      ELSE IF name = <<"INSERT">> /\ Follow(Top.items)
           THEN Become(s, Frame("members", "SEQEND", Top.items))
      ELSE IF name = <<"POLYLINE">> /\ Follow(Top.items)
           THEN Become(s, Frame("vertices", "SEQEND", Top.items))
      ELSE Return(s, << >>)

\* dimeRecordHolder::read: the group code that ends the records is put back
HolderTurn(goOn) ==
  With(ReadGroupCode(in, goOn), LAMBDA code :
    IF ~code.ok THEN Fails(code.in)
    ELSE IF code.num = 0 THEN AfterRecords(PutBackGroupCode(code.in, 0))
    ELSE With(ReadData(code.in, code.num), LAMBDA data :
           IF data.ok THEN Add(data.in, data.rec) ELSE Fails(data.in)))
-----------------------------------------------------------------------------
Init ==
  /\ file \in Files
  /\ in = OpenFile(Characters(file), file.opened)
  /\ stack = << >> /\ sections = << >> /\ status = "reading"

Does(turn) ==
  /\ in' = turn.in /\ stack' = turn.stack /\ sections' = turn.kept
  /\ status' = turn.is
  /\ UNCHANGED file

InLoop(kinds) == status = "reading" /\ stack # << >> /\ Top.kind \in kinds

ReadSection ==
  /\ status = "reading" /\ stack = << >>
  /\ \E a, b \in BOOLEAN : \E t \in {ModelTurn(a, b)} : Does(t)
ReadRecords ==
  /\ InLoop({"header", "unknown"})
  /\ \E a \in BOOLEAN : \E t \in {RecordsTurn(a)} : Does(t)
ReadList ==
  /\ InLoop({"entities", "blocks", "tables", "entries", "members", "vertices"})
  /\ \E a \in BOOLEAN : \E t \in {ListTurn(a)} : Does(t)
ReadTable ==
  /\ InLoop({"table"})
  /\ \E a \in BOOLEAN : \E t \in {TableTurn(a)} : Does(t)
ReadHolder ==
  /\ InLoop({"holder", "end"})
  /\ \E a \in BOOLEAN : \E t \in {HolderTurn(a)} : Does(t)

Next == ReadSection \/ ReadRecords \/ ReadList \/ ReadTable \/ ReadHolder
Spec == Init /\ [][Next]_vars /\ WF_vars(Next)
-----------------------------------------------------------------------------
(* What the readers promise.                                                *)

\* what a file says: long lines are cut, and comments are not part of a text
\* file
Reference(f) ==
  LET line(r) == [r EXCEPT !.text = IF Len(@) > MaxLine
                                    THEN SubSeq(@, 1, MaxLine) ELSE @]
      said == SelectSeq(f.records, LAMBDA r : Binary(f) \/ r.code # 999)
  IN  [i \in DOMAIN said |-> line(said[i])]

Content(f) == SelectSeq(Reference(f), LAMBDA r : r # Named("EOF"))
HandlesOf(f) == SelectSeq(Content(f), LAMBDA r : r.code = 5)

\* CR alone cannot say an empty value: nextLine() takes its end for the end
\* of the line before
Ambiguous(f) ==
  /\ f.eol = "CR"
  /\ \E i \in DOMAIN f.records :
       RecordType(f.records[i].code) = "string" /\ f.records[i].text = << >>

\* What the model owns is, section by section, what the file says, in its
\* order: a read that fails, at the end of the file or in a list whose last
\* entity readEntities() appends again, leaves no trace of the section it
\* failed in, and no comment, put back code, block end, blank or kind of line
\* end adds, drops or moves a record.
SectionsInOrder == Ambiguous(file) \/ IsPrefix(sections, Content(file))

\* read() returns TRUE only for a file that was read to its EOF without
\* refusal: never for one that is cut short, however the cut falls.
TrueMeansComplete ==
  status = "ok" /\ ~Ambiguous(file) =>
    /\ sections = Content(file)
    /\ in.handles = [i \in DOMAIN HandlesOf(file) |-> HandlesOf(file)[i].text]

\* A well formed file is read whatever its line ends, blanks, comments and
\* long lines, and wherever the blocks of the buffer end.
WholeFileReads ==
  file.good /\ ~Ambiguous(file) /\ status \in {"failed", "crashed"}
    => in.aborted

\* Once the progress callback has refused, the read has failed: no loop goes
\* on with the rest of the file, which the input would still deliver.
RefusalEndsRead == in.aborted => status = "failed"

\* registerHandle() is called with the values of the records 5, in their
\* order, and with nothing else: not with a comment, nor with the name after
\* a code that was put back.
HandlesSeen ==
  \/ Ambiguous(file)
  \/ \A i \in DOMAIN in.handles :
       i <= Len(HandlesOf(file)) /\ in.handles[i] = HandlesOf(file)[i].text

\* Every read ends, for files that are cut short or malformed too: the
\* loops are left at the end of the file.
ReadEnds == <>(status # "reading")

\* What read() answers is what happened: TRUE for a whole drawing with all its
\* handles, FALSE after a refusal.
AnswersTruly == TrueMeansComplete /\ RefusalEndsRead /\ HandlesSeen
=============================================================================
