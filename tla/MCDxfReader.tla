---------------------------- MODULE MCDxfReader ----------------------------
EXTENDS DxfReader

Section(name, records) ==
  <<Named("SECTION"), Str(2, <<name>>)>> \o records \o <<Named("ENDSEC")>>
Eof == <<Named("EOF")>>

\* a variable with a handle, layers, and a section that is passed through
Settings ==
  Section("HEADER", <<Str(9, <<"$HANDSEED">>), Str(5, <<"FF">>), Num(70, 1)>>) \o
  Section("TABLES",
    <<Named("TABLE"), Str(2, <<"LAYER">>), Num(70, 1),
      Named("LAYER"), Str(2, <<"L">>), Num(62, 70), Named("ENDTAB")>>) \o
  Section("OBJECTS", <<Named("DICTIONARY"), Str(5, <<"C">>), Num(280, 1), Num(90, 3)>>) \o Eof

\* a block with an entity and a polyline
Blocks ==
  Section("BLOCKS",
    <<Named("BLOCK"), Str(2, <<"B">>), Named("LINE"), Str(5, <<"1E">>), Num(280, 1), Num(90, 3),
      Named("POLYLINE"), Num(66, 1), Named("VERTEX"), Str(10, <<"-", "1", ".", "5">>),
      Named("SEQEND"), Named("ENDBLK"), Str(5, <<"1F">>)>>) \o
  Section("ENTITIES", <<Named("LINE"), Str(8, <<"0">>)>>) \o Eof

\* an insert with an attribute whose text is empty, and a text that is long
Entities(text) ==
  Section("ENTITIES",
    <<Named("INSERT"), Str(5, <<"2A">>), Num(66, 1), Str(2, <<"B">>),
      Named("ATTRIB"), Str(1, text), Named("SEQEND"), Str(8, <<"L">>),
      Named("LINE"), Str(10, <<"2", "e", "+", "3">>)>>) \o Eof

\* the SEQEND is missing, and the EOF
Endless ==
  Section("ENTITIES",
    <<Named("INSERT"), Num(66, 1), Named("ATTRIB"), Str(1, <<"T">>)>>)

Long == <<"L", "O", "N", "G", "SP", "T">>
Contents == {Settings, Blocks, Entities(<<>>), Entities(Long)}

As(records, eol, pad) ==
  [records |-> records, eol |-> eol, pad |-> pad, cut |-> 0, good |-> TRUE,
   wide |-> FALSE, opened |-> TRUE, hex |-> FALSE]

\* every kind of line end and a comment before any record; padded lines with
\* LF have their numbers in hexadecimal form
Comment == Str(999, <<"9">>)
Texts ==
  UNION {{[As(InsertAt(c, i, Comment), eol, pad)
             EXCEPT !.opened = pad, !.hex = pad /\ eol = "LF"] :
             i \in DOMAIN c} :
         c \in Contents, eol \in {"LF", "CRLF", "CR"}, pad \in BOOLEAN}

\* cut after any character; without its last end of line, EOF is still read
CutShort ==
  UNION {{[As(c, "CRLF", FALSE) EXCEPT !.cut = n, !.good = n < 3] :
             n \in 0 .. Len(Characters(As(c, "CRLF", FALSE)))} :
         c \in {Settings, Blocks, Entities(<<>>)}}

Malformed ==
  {[As(Endless, "LF", FALSE) EXCEPT !.good = FALSE, !.cut = n] : n \in 0 .. 14}

\* binary files keep comments: before a section, and among records, but not
\* in a list; and what is too long in them is read as the next record
Binaries ==
  UNION {{[As(IF i = 0 THEN c ELSE InsertAt(c, i, Comment), "NUL", FALSE)
             EXCEPT !.wide = wide,
                    !.good = c # Entities(Long) /\ i \in {0, Len(c)}] :
             i \in {0, 4, 5, Len(c)}} :
         c \in Contents, wide \in BOOLEAN}

MCFiles == Texts \cup CutShort \cup Malformed \cup Binaries
=============================================================================
