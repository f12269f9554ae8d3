----------------------------- MODULE MCDocument -----------------------------
(***************************************************************************)
(* Two files: a binary one with comments, before the sections and in one,  *)
(* a header with a seed, layers that share a bucket of the dictionary and  *)
(* an unknown section; one with the sections in another order, two entries *)
(* of one name and an empty handle.                                        *)
(***************************************************************************)
EXTENDS Document

Rec0(s) == Str(0, s)
LayerEntry(name, color, handle) ==
  <<Rec0("LAYER"), Num(5, handle), Str(2, name), Num(62, color), Str(6, "line")>>

MCContents == {
  <<Str(999, "c"), Rec0("SECTION"), Str(2, "HEADER"),
    Str(9, "$A"), Num(70, 1), Str(9, "$HANDSEED"), Num(5, 4), Str(9, "$B"), Num(40, 2),
    Rec0("ENDSEC"), Rec0("SECTION"), Str(2, "TABLES"),
    Rec0("TABLE"), Str(2, "LAYER"), Num(5, 2), Num(70, 2)>>
    \o LayerEntry("a", 3, 1) \o LayerEntry("b", 0 - 4, 9)
    \o <<Rec0("ENDTAB"), Rec0("TABLE"), Num(70, 1), Rec0("STYLE"), Str(2, "s"),
         Rec0("ENDTAB"), Rec0("ENDSEC"),
         Rec0("SECTION"), Str(2, "THUMB"), Num(5, 7), Str(999, "d"), Rec0("ENDSEC"), Rec0("EOF")>>,
  <<Rec0("SECTION"), Str(2, "TABLES"), Rec0("TABLE"), Str(2, "LAYER")>>
    \o LayerEntry("a", 3, NoHandle) \o LayerEntry("a", 5, 2)
    \o <<Rec0("ENDTAB"), Rec0("ENDSEC"),
         Rec0("SECTION"), Str(2, "HEADER"), Str(9, "$HANDSEED"), Num(5, 3),
         Rec0("ENDSEC"), Rec0("EOF")>>}

MCClass == SetItem(SetItem(SetItem(Class("D"), Str(2, "app")), Num(281, 1)), Num(71, 3))
MCInserted == {
  [Section("classes", "CLASSES") EXCEPT !.items = <<MCClass, Class("E")>>],
  [Section("objects", "OBJECTS") EXCEPT !.items = <<SetItem(Object("DICT"), Str(3, "k"))>>]}
MCTableNames == {"X"}
MCItemRecords == {Str(1, "cpp"), Num(71, 4)}

MCLayerNames == {"a", "b", "c"}
MCKeys == MCLayerNames \cup {"HEADER", "TABLES", "LAYER", "THUMB", "s"}
MCBucketNr == [k \in MCKeys |-> IF k = "c" THEN 4 ELSE 7]
MCVariables == {"$A", "$C"}
MCValues == {<<Num(40, 5)>>, <<Num(70, 6), Num(40, 7)>>}
MCColors == {1, 0 - 2}
MCJunk == {0 - 5, 6}
=============================================================================
