-------------------------------- MODULE Input --------------------------------
(***************************************************************************)
(* dimeInput: a DXF file read character by character through a block       *)
(* buffer, as text or as binary DXF.  An input is a record, and a method   *)
(* is an operator that returns what it answers with the input it leaves.   *)
(*                                                                         *)
(* A character is a string.  A run of digits is one character here, and so *)
(* are a run of hexadecimal digits after "x" and a name; "SP", "LF", "CR"  *)
(* and "NUL" are what they say, and "ID" is the identification of a binary *)
(* file.  In a binary file a run of digits is the byte of that value, and  *)
(* the eight bytes of a double are those of its text filled up with "NUL". *)
(***************************************************************************)
EXTENDS Eager, SequencesExt

CONSTANTS
  BufSize,        \* READBUFSIZE, 65536 in the code
  MaxLine,        \* DXF_MAXLINELEN, 4096 in the code
  CallbackEvery,  \* the group codes between two looks at the position: 100
  ProgressSteps   \* the calls a file can bring: 100 in the code

ASSUME InputAssumption ==
  /\ BufSize \in Nat \ {0} /\ MaxLine \in Nat \ {0}
  /\ CallbackEvery \in Nat /\ ProgressSteps \in Nat \ {0}

\* strtol(.., 0) of the runs of digits that occur: a leading 0 means octal
Numeral ==
  ("0" :> 0) @@ ("1" :> 1) @@ ("2" :> 2) @@ ("3" :> 3) @@ ("5" :> 5) @@
  ("8" :> 8) @@ ("9" :> 9) @@ ("10" :> 10) @@ ("010" :> 8) @@ ("24" :> 24) @@
  ("62" :> 62) @@ ("66" :> 66) @@ ("70" :> 70) @@ ("90" :> 90) @@
  ("231" :> 231) @@ ("255" :> 255) @@ ("280" :> 280) @@ ("999" :> 999)

\* strtol(.., 0) of the runs of hexadecimal digits that follow 0x
HexNumeral ==
  ("0" :> 0) @@ ("1" :> 1) @@ ("2" :> 2) @@ ("3" :> 3) @@ ("5" :> 5) @@
  ("8" :> 8) @@ ("9" :> 9) @@ ("A" :> 10) @@ ("3E" :> 62) @@ ("42" :> 66) @@
  ("46" :> 70) @@ ("5A" :> 90) @@ ("118" :> 280) @@ ("3E7" :> 999)

DigitRuns == DOMAIN Numeral
HexRuns == DOMAIN HexNumeral
EndLine == {"LF", "CR"}

\* the byte a character is in a binary file
Byte(c) == IF c = "NUL" THEN 0 ELSE IF c \in DigitRuns THEN Numeral[c] ELSE 65
-----------------------------------------------------------------------------
(* The buffer and the characters put back.                                 *)

\* dimeInput::doBufferRead: the next block of the file
Fill(s) ==
  LET left == Len(s.text) - s.at
      n == IF left < BufSize THEN left ELSE BufSize
  IN  [ok |-> n > 0, in |-> [s EXCEPT !.at = @ + n, !.index = 0, !.len = n]]

\* dimeInput::get
Buffered(s) ==
  [ok |-> TRUE, c |-> s.text[s.at - s.len + s.index + 1],
   in |-> [s EXCEPT !.index = @ + 1]]
Get(s) ==
  IF s.back # << >>
  THEN [ok |-> TRUE, c |-> Last(s.back), in |-> [s EXCEPT !.back = Front(@)]]
  ELSE IF s.index < s.len THEN Buffered(s)
  ELSE With(Fill(s), LAMBDA r :
         IF r.ok THEN Buffered(r.in) ELSE [ok |-> FALSE, c |-> "none", in |-> r.in])

\* dimeInput::putBack
PutBack(s, c) ==
  IF s.index > 0 /\ s.back = << >> THEN [s EXCEPT !.index = @ - 1]
  ELSE [s EXCEPT !.back = Append(@, c)]

\* the first character that is not in "skipped", as Get returns it
RECURSIVE GetPast(_, _)
GetPast(s, skipped) ==
  With(Get(s), LAMBDA r :
    IF r.ok /\ r.c \in skipped THEN GetPast(r.in, skipped) ELSE r)

\* the first character that is in "stops"
RECURSIVE GetUntil(_, _)
GetUntil(s, stops) ==
  With(Get(s), LAMBDA r :
    IF r.ok /\ r.c \notin stops THEN GetUntil(r.in, stops) ELSE r)

NoLimit == 0 - 1

\* dimeInput::readDigits and readHexDigits, and readChar when at most one is
\* wanted: the characters in "wanted" that come next, after those in "chars";
\* the one after them is put back
RECURSIVE Run(_, _, _, _)
Run(chars, s, wanted, most) ==
  IF Len(chars) = most THEN [chars |-> chars, in |-> s]
  ELSE With(Get(s), LAMBDA r :
         IF ~r.ok THEN [chars |-> chars, in |-> r.in]
         ELSE IF r.c \in wanted
              THEN Run(Append(chars, r.c), r.in, wanted, most)
         ELSE [chars |-> chars, in |-> PutBack(r.in, r.c)])

Digits(s) == Run(<< >>, s, DigitRuns, NoLimit)
HexDigits(s) == Run(<< >>, s, HexRuns, NoLimit)
OneOf(s, wanted) == Run(<< >>, s, wanted, 1)
Nothing(s) == [chars |-> << >>, in |-> s]

\* dimeInput::skipWhiteSpace: ends of lines are not white space here
SkipWhiteSpace(s) ==
  IF s.binary THEN [ok |-> TRUE, in |-> s]
  ELSE With(GetPast(s, {"SP"}), LAMBDA r :
         [ok |-> r.ok, in |-> IF r.ok THEN PutBack(r.in, r.c) ELSE r.in])

NextLine_LfOnly(s) ==
  IF s.binary THEN [ok |-> TRUE, in |-> s]
  ELSE With(GetUntil(s, EndLine), LAMBDA r : [ok |-> r.ok, in |-> r.in])

\* dimeInput::nextLine: CR may be followed by LF, or end the line alone; then
\* the ends of the empty lines that follow go with it
NextLine(s) ==
  LET past(r) == IF r.ok /\ r.c = "CR" THEN GetPast(r.in, {"CR"}) ELSE r
  IN  IF s.binary THEN [ok |-> TRUE, in |-> s]
      ELSE With(past(GetUntil(s, EndLine)), LAMBDA r :
             [ok |-> r.ok, in |-> IF r.ok /\ r.c # "LF" THEN PutBack(r.in, r.c)
                                  ELSE r.in])
-----------------------------------------------------------------------------
(* Values.                                                                  *)

\* the bytes of a binary number, lowest first
RECURSIVE Bytes(_, _, _)
Bytes(chars, s, width) ==
  With(Get(s), LAMBDA r :
    IF Len(chars) + 1 = width
    THEN [ok |-> r.ok, chars |-> Append(chars, r.c), in |-> r.in]
    ELSE Bytes(Append(chars, r.c), r.in, width))

RECURSIVE Whole(_)
Whole(bytes) ==
  IF bytes = << >> THEN 0 ELSE Byte(Head(bytes)) + 256 * Whole(Tail(bytes))

\* a number of "width" bytes
BinaryInt(s, width, low) ==
  With(Bytes(<< >>, s, width), LAMBDA b :
    [ok |-> b.ok, in |-> b.in,
     num |-> IF low < 0 /\ Byte(Last(b.chars)) >= 128
             THEN Whole(b.chars) - 256^width ELSE Whole(b.chars)])

\* dimeInput::readUnsignedIntegerString, with the value of its digits
Valued(digits, value) ==
  [ok |-> digits.chars # << >>, in |-> digits.in,
   num |-> IF digits.chars = << >> THEN 0 ELSE value[digits.chars[1]]]
Unsigned(s) ==
  With(Digits(s), LAMBDA digits :
    IF digits.chars # <<"0">> THEN Valued(digits, Numeral)
    ELSE With(OneOf(digits.in, {"x"}), LAMBDA x :
           IF x.chars = << >> THEN [ok |-> TRUE, in |-> x.in, num |-> 0]
           ELSE Valued(HexDigits(x.in), HexNumeral)))

\* dimeInput::readInteger
TextInt(s) ==
  With(OneOf(s, {"-", "+"}), LAMBDA sign :
    With(Unsigned(sign.in), LAMBDA r :
      IF sign.chars = <<"-">> THEN [r EXCEPT !.num = 0 - @] ELSE r))

\* dimeInput::readInt8, readInt16, readInt32: "width" bytes, or a line
ReadInt(s, width, low, high) ==
  IF s.binary THEN BinaryInt(s, width, low)
  ELSE With(SkipWhiteSpace(s), LAMBDA blank :
         IF ~blank.ok THEN [ok |-> FALSE, num |-> 0, in |-> blank.in]
         ELSE With(TextInt(blank.in), LAMBDA r :
                IF ~r.ok \/ r.num < low \/ r.num > high
                THEN [ok |-> FALSE, num |-> 0, in |-> r.in]
                ELSE With(NextLine(r.in), LAMBDA line :
                       [ok |-> line.ok, num |-> r.num, in |-> line.in])))

ReadInt8(s) == ReadInt(s, 1, 0 - 128, 127)
ReadInt16(s) == ReadInt(s, 2, 0 - 32768, 32767)
ReadInt32(s) == ReadInt(s, 4, 0 - 2147483647, 2147483647)

\* dimeInput::readReal: sign and mantissa, then the exponent; the characters
\* that atof() is given
Mantissa(s) ==
  With(OneOf(s, {"-", "+"}), LAMBDA sign :
    With(Digits(sign.in), LAMBDA int :
      With(OneOf(int.in, {"."}), LAMBDA dot :
        With(IF dot.chars = << >> THEN Nothing(dot.in) ELSE Digits(dot.in),
          LAMBDA frac :
            [ok |-> int.chars \o frac.chars # << >>, in |-> frac.in,
             text |-> sign.chars \o int.chars \o dot.chars \o frac.chars]))))

Exponent(s) ==
  With(OneOf(s, {"e", "E"}), LAMBDA e :
    IF e.chars = << >> THEN [ok |-> TRUE, text |-> << >>, in |-> e.in]
    ELSE With(OneOf(e.in, {"-", "+"}), LAMBDA sign :
           With(Digits(sign.in), LAMBDA digits :
             [ok |-> digits.chars # << >>, in |-> digits.in,
              text |-> e.chars \o sign.chars \o digits.chars])))

ReadReal(s) ==
  With(Mantissa(s), LAMBDA m :
    IF ~m.ok THEN m
    ELSE With(Exponent(m.in), LAMBDA e :
           [ok |-> e.ok, text |-> m.text \o e.text, in |-> e.in]))

\* dimeInput::readDouble
ReadDouble(s) ==
  IF s.binary
  THEN With(Bytes(<< >>, s, 8), LAMBDA b :
         [ok |-> b.ok, text |-> SelectSeq(b.chars, LAMBDA c : c # "NUL"),
          in |-> b.in])
  ELSE With(SkipWhiteSpace(s), LAMBDA blank :
         IF ~blank.ok THEN [ok |-> FALSE, text |-> << >>, in |-> blank.in]
         ELSE With(ReadReal(blank.in), LAMBDA r :
                IF ~r.ok THEN r
                ELSE With(NextLine(r.in), LAMBDA line :
                       [ok |-> line.ok, text |-> r.text, in |-> line.in])))

\* the loop of readString: what is kept, and the last character got
RECURSIVE TextOf(_, _, _)
TextOf(s, text, last) ==
  With(Get(s), LAMBDA r :
    IF ~r.ok THEN [text |-> text, c |-> last, in |-> r.in]
    ELSE IF r.c \in EndLine \cup {"NUL"} \/ Len(text) = MaxLine
         THEN [text |-> text, c |-> r.c, in |-> r.in]
    ELSE TextOf(r.in, Append(text, r.c), r.c))

ReadLine(s) ==
  With(TextOf(s, << >>, "none"), LAMBDA t :
    [text |-> t.text,
     in |-> NextLine(IF t.c \in EndLine THEN PutBack(t.in, t.c) ELSE t.in).in])

\* dimeInput::readString registers the value of group code 5
Registered(s, text) ==
  IF s.wash THEN [s EXCEPT !.handles = Append(@, text), !.wash = FALSE] ELSE s

\* dimeInput::readString: NULL only when nothing but blanks is left; a last
\* line without its end is accepted
ReadString(s) ==
  With(SkipWhiteSpace(s), LAMBDA blank :
    IF ~blank.ok THEN [ok |-> FALSE, text |-> << >>, in |-> blank.in]
    ELSE With(ReadLine(blank.in), LAMBDA t :
           [ok |-> TRUE, text |-> t.text, in |-> Registered(t.in, t.text)]))
-----------------------------------------------------------------------------
(* Group codes.                                                             *)

\* dimeInput::relativePosition, in characters
Position(s) == s.at - (s.len - s.index)

\* the loop of readGroupCode over comments; of text files only
RECURSIVE SkipComments(_)
SkipComments(code) ==
  With(code, LAMBDA r :
    IF r.ok /\ r.num = 999
    THEN SkipComments(ReadInt32(ReadString(r.in).in)) ELSE r)

\* a group code of a binary file: a byte, or 255 and two bytes, or two bytes
BinaryCode(s) ==
  With(BinaryInt(s, IF s.wide THEN 2 ELSE 1, 0), LAMBDA r :
    IF r.num = 255 THEN ReadInt16(r.in) ELSE r)

PlainCode(s) ==
  With(IF s.binary THEN BinaryCode(s) ELSE SkipComments(ReadInt32(s)),
    LAMBDA r : [r EXCEPT !.in.wash = (r.num = 5)])

\* the codes are counted when the file was opened by dimeInput
Tick(s) ==
  IF ~s.opened THEN s
  ELSE IF s.cbcnt > CallbackEvery THEN [s EXCEPT !.cbcnt = 0]
  ELSE [s EXCEPT !.cbcnt = @ + 1]

\* does this call report progress?
Reports(s) ==
  /\ ~s.put /\ s.opened /\ s.cbcnt > CallbackEvery
  /\ (Position(s) - s.prev) * ProgressSteps > Len(s.text)

\* dimeInput::readGroupCode; "goOn" is what the progress callback answers, if
\* it is called.  A code that was put back comes first, without the callback
ReadGroupCode(s, goOn) ==
  IF s.put
  THEN [ok |-> TRUE, num |-> s.putCode,
        in |-> [s EXCEPT !.put = FALSE, !.wash = (s.putCode = 5)]]
  ELSE IF ~Reports(s) THEN PlainCode(Tick(s))
  ELSE IF goOn THEN PlainCode([Tick(s) EXCEPT !.prev = Position(s)])
  ELSE [ok |-> FALSE, num |-> 0,
        in |-> [Tick(s) EXCEPT !.prev = Position(s), !.aborted = TRUE]]

\* dimeInput::putBackGroupCode
PutBackGroupCode(s, code) == [s EXCEPT !.put = TRUE, !.putCode = code]
-----------------------------------------------------------------------------
(* Opening a file: the first characters tell a binary file.                 *)

Unread(text, opened) ==
  [text |-> text, at |-> 0, len |-> 0, index |-> 0, back |-> << >>,
   binary |-> FALSE, wide |-> FALSE, opened |-> opened, cbcnt |-> 0,
   prev |-> 0, aborted |-> FALSE, put |-> FALSE, putCode |-> 0,
   wash |-> FALSE, handles |-> << >>]

\* dimeInput::checkBinary: the byte after the identification is 0, and the
\* next one is 0, too, where group codes have two bytes; both are put back
CheckBinary(s) ==
  With(Get(s), LAMBDA r :
    IF ~(r.ok /\ r.c = "ID") THEN [r.in EXCEPT !.index = 0]
    ELSE With(Bytes(<< >>, r.in, 6), LAMBDA test :
           [PutBack(PutBack(test.in, test.chars[6]), "NUL")
              EXCEPT !.binary = TRUE, !.wide = test.chars[6] = "NUL"]))

\* a stream that the client opened has no size, and so no progress is shown
SetFileHandle(text) == CheckBinary(Unread(text, FALSE))
SetFilePointer(text) == CheckBinary(Unread(text, TRUE))
OpenFile(text, opened) == IF opened THEN SetFilePointer(text) ELSE SetFileHandle(text)
=============================================================================
