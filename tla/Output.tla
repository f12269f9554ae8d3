------------------------------- MODULE Output -------------------------------
(***************************************************************************)
(* dimeOutput: the lines of a text file, a group code and its value in     *)
(* turn, and the progress callback that may stop the writing.  An output   *)
(* is a record; "ok" is what the last method answered.                     *)
(***************************************************************************)
EXTENDS Eager

CONSTANT AskEvery   \* the group codes between two calls of the callback: 256

ASSUME OutputAssumption == AskEvery \in Nat \ {0}

\* a record: strings have a text and numbers a number
Str(code, str) == [code |-> code, str |-> str, num |-> 0]
Num(code, num) == [code |-> code, str |-> "", num |-> num]

\* dimeOutput::dimeOutput and setCallback(); the callback refuses when it
\* is asked for group code number "refusal"
NewOutput(refusal) ==
  [lines |-> << >>, ok |-> TRUE, aborted |-> FALSE, numwrites |-> 0,
   refusal |-> refusal]

WriteGroupCode_NotSticky(o, code) ==
  IF o.numwrites % AskEvery = 0 /\ o.numwrites = o.refusal
  THEN [o EXCEPT !.ok = FALSE, !.numwrites = @ + 1]
  ELSE [o EXCEPT !.ok = TRUE, !.lines = Append(@, Num(code, 0)),
                 !.numwrites = @ + 1]

\* dimeOutput::writeGroupCode: the call that is refused still writes
WriteGroupCode(o, code) ==
  LET asks == o.numwrites % AskEvery = 0
  IN  IF o.aborted THEN [o EXCEPT !.ok = FALSE]
      ELSE [o EXCEPT !.ok = TRUE, !.lines = Append(@, Num(code, 0)),
                     !.aborted = asks /\ o.numwrites = o.refusal,
                     !.numwrites = @ + 1]

\* writeString and the methods for numbers: they do not look at "aborted"
WriteValue(o, r) ==
  [o EXCEPT !.ok = TRUE,
            !.lines = Append(@, [code |-> 0 - 1, str |-> r.str, num |-> r.num])]

\* a && b
AndThen(o, Op(_)) == IF o.ok THEN Op(o) ELSE o

\* the result of a call that nobody looks at
Ignored(o) == [o EXCEPT !.ok = TRUE]

\* dimeRecord::write and the write() methods of its classes
WriteRecord(o, r) ==
  AndThen(WriteGroupCode(o, r.code), LAMBDA x : WriteValue(x, r))

\* a group code and a value whose results nobody looks at
WriteUnchecked(o, r) == WriteValue(WriteGroupCode(o, r.code), r)

WriteNext(o, r) == AndThen(o, LAMBDA x : WriteRecord(x, r))

\* dimeRecordHolder::write, and the loops like it: the first failure ends them
WriteRecords(o, recs) == Fold(WriteNext, o, recs)
=============================================================================
