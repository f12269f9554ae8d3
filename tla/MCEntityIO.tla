----------------------------- MODULE MCEntityIO -----------------------------
(* TLC instance of EntityIO: files with entities of every class, the parts   *)
(* of POLYLINE and INSERT in every order that matters, arrays that are       *)
(* complete, short, too long or missing; few values, since a value is only   *)
(* passed on: 7 and up stand for a number, 0 for one that may be left out.   *)
EXTENDS EntityGeometry

CONSTANTS unset, bad, full

E(name, recs) == <<<<0, name>>, <<8, "L">>>> \o recs
End == <<<<0, "ENDSEC">>>>

\* n points with distinct coordinates
At3(n) == [k \in 1 .. 3 * n |-> <<Points(n)[k], 6 + k>>]
Header == <<<<5, "A1">>, <<100, "AcDbEntity">>, <<67, 1>>>>
Groups == <<<<5, "A2">>, <<102, "{ACAD_REACTORS">>, <<330, "R">>, <<102, "}">>,
            <<102, "{ACAD_XDICTIONARY">>, <<360, "X">>, <<102, "}">>>>
Tilted == <<<<39, 8>>, <<210, 1>>, <<220, 0>>, <<230, 9>>>>

V(flags, recs) == E("VERTEX", <<<<70, flags>>>> \o At3(1) \o recs)
Seqend == E("SEQEND", << >>)
Face(i, j) == V(128, <<<<71, i>>, <<72, j>>>>)
PolylineOf(flags, recs) == E("POLYLINE", <<<<66, 1>>, <<70, flags>>>> \o At3(1) \o recs)

Simple ==
  {E("LINE", Header \o At3(2) \o Tilted \o <<<<1000, "app">>>>),
   E("POINT", <<<<62, 3>>, <<6, "DASHED">>>> \o At3(1)),
   E("CIRCLE", Groups \o At3(1) \o <<<<40, 9>>, <<39, 5>>>>),
   E("ARC", At3(1) \o <<<<40, 9>>, <<50, 7>>, <<51, 8>>, <<48, 2>>>>),
   E("ELLIPSE", At3(2) \o <<<<40, 9>>, <<41, 7>>, <<42, 8>>>>),
   E("3DFACE", At3(4) \o <<<<70, 2>>>>),
   E("SOLID", <<<<62, 0>>>> \o At3(4) \o Tilted),
   E("TRACE", At3(4) \o <<<<39, 9>>>>),
   E("XLINE", <<<<5, "B">>, <<100, "AcDbXline">>>> \o At3(2))}

Shapes ==
  {E("LWPOLYLINE", <<<<90, 2>>, <<70, 1>>, <<38, 9>>, <<10, 7>>, <<20, 8>>, <<42, 5>>,
                     <<10, 9>>, <<20, 7>>, <<40, 4>>, <<41, 3>>>>),
   E("LWPOLYLINE", <<<<90, 2>>, <<43, 9>>, <<10, 7>>, <<20, 8>>, <<10, 9>>, <<20, 7>>, <<42, 5>>>>),
   E("SPLINE", <<<<70, 8>>, <<71, 2>>, <<72, 2>>, <<73, 1>>, <<74, 1>>, <<42, 3>>, <<43, 4>>, <<44, 5>>,
                 <<40, 7>>, <<40, 8>>, <<41, 9>>>> \o At3(1)
                 \o <<<<11, 4>>, <<21, 5>>, <<31, 6>>>>),
   PolylineOf(9, << >>) \o V(32, << >>) \o V(0, <<<<42, 5>>>>) \o Seqend,
   PolylineOf(4, <<<<75, 6>>>>) \o V(16, << >>) \o V(8, << >>) \o Seqend,
   PolylineOf(64, <<<<71, 1>>, <<72, 1>>>>) \o V(192, << >>) \o Face(7, 8) \o Seqend,
   E("INSERT", <<<<2, "B">>>> \o At3(1) \o Tilted),
   E("INSERT", <<<<66, 1>>, <<2, "B">>>> \o At3(1) \o <<<<41, 2>>, <<42, 1>>, <<43, 1>>, <<50, 9>>, <<70, 2>>, <<44, 7>>>>)
     \o E("LINE", At3(2)) \o Seqend}

\* what files hold, too: nothing where something is announced, too little, too
\* much, parts in another order, other parts than expected
Odd ==
  {E("HATCH", <<<<70, 7>>>>), E("MTEXT", At3(1) \o <<<<40, 7>>, <<1, bad>>>>), E("TEXT", <<<<1, 7>>>>),
   E("POLYLINE", At3(1)), PolylineOf(0, << >>) \o Seqend,
   PolylineOf(64, << >>) \o Face(7, 0) \o V(0, << >>) \o Face(0, 7) \o V(16, << >>) \o Seqend,
   PolylineOf(0, << >>) \o E("LINE", << >>) \o Seqend,
   E("INSERT", <<<<66, 1>>>>) \o Seqend, E("INSERT", <<<<66, 1>>, <<2, "B">>>>) \o E("ATTRIB", <<<<1, 7>>>>) \o Seqend,
   E("INSERT", <<<<66, 1>>, <<2, "B">>>>) \o E("INSERT", <<<<66, 1>>, <<2, "C">>>>) \o E("POINT", << >>) \o Seqend \o Seqend,
   E("LWPOLYLINE", <<<<90, 1>>>>), E("LWPOLYLINE", <<<<10, 7>>>>),
   E("LWPOLYLINE", <<<<90, 2>>, <<10, 7>>, <<20, 7>>>>),
   E("LWPOLYLINE", <<<<90, 1>>, <<40, 7>>, <<10, 7>>, <<20, 7>>, <<10, 8>>, <<43, 7>>>>),
   E("SPLINE", <<<<72, 1>>>>), E("SPLINE", <<<<73, 1>>, <<10, 7>>, <<30, 7>>, <<10, 8>>, <<41, 1>>, <<41, 1>>>>),
   E("LINE", <<<<330, "P">>, <<330, "Q">>, <<5, "A">>, <<5, "B">>>>), E("LINE", <<<<10, bad>>>>),
   E("SEQEND", << >>), V(0, <<<<71, 7>>>>)}

B(name, recs) == E("BLOCK", <<<<2, name>>, <<70, 0>>>> \o At3(1) \o recs)
Endblk == E("ENDBLK", << >>)

\* a mesh closed both ways, one row short; a closed one with its smooth surface;
\* one that does not add up
Mesh(flags, recs, n) == PolylineOf(flags, recs) \o FlattenSeq([k \in 1 .. n |-> V(64, << >>)]) \o Seqend
MeshFiles == {Mesh(49, <<<<71, 3>>, <<72, 2>>>>, 4), Mesh(16, <<<<71, 2>>, <<72, 2>>>>, 3),
              Mesh(48, <<<<71, 2>>, <<72, 1>>, <<73, 2>>, <<74, 1>>, <<75, 6>>>>, 4)}

MCSections ==
  {E("BLOCK", <<<<2, "B">>>>) \o E("BLOCK", <<<<2, "C">>>>) \o Endblk \o Endblk,
   B("B", Header) \o E("LINE", At3(2)) \o PolylineOf(0, << >>) \o V(0, << >>) \o Seqend \o Endblk}
MCBlocks ==
  {B("B", <<<<62, 4>>>>) \o E("POINT", At3(1)) \o E("3DFACE", At3(4)) \o E("ENDBLK", <<<<5, "A">>>>),
   B("B", << >>) \o Endblk \o B("C", << >>) \o E("SEQEND", << >>) \o Endblk}

In(section, body) == <<<<2, section>>>> \o body
MCClean == {In("ENTITIES", e \o E("POINT", << >>) \o End) : e \in Simple \cup Shapes \cup MCSections}
             \cup {In("BLOCKS", e \o End) : e \in MCBlocks}
MCTexts == MCClean \cup {In("ENTITIES", e \o E("POINT", << >>) \o End) : e \in Odd \cup MeshFiles}
             \cup {In("ENTITIES", E("POINT", << >>)), In("ENTITIES", <<<<8, "L">>>>),
                    In("BLOCKS", B("B", << >>) \o Endblk \o E("POINT", << >>) \o End),
                    In("BLOCKS", B("B", << >>) \o E("POINT", << >>) \o End)}
MCEdits == {<<5, "H">>, <<10, 9>>, <<39, 0>>, <<40, 9>>, <<62, 256>>, <<66, 1>>, <<67, 1>>, <<70, 64>>,
            <<100, "AcDbNew">>, <<230, 1>>, <<1000, "app">>}
MCEditLists == {<<<<5, "H">>, <<39, 9>>, <<1000, "new">>>>, <<<<48, 3>>, <<6, "DASHED">>>>}
MCLayers == {"L", "M"}
MCNewOnes == {[New("POINT") EXCEPT !.layer = "M"], [New("3DFACE") EXCEPT !.deleted = TRUE]}
MCNewParts == {<< >>, <<[New("VERTEX") EXCEPT !.f[71] = 2, !.f[70] = 128]>>}
MCNewValues == {<< >>, <<7, 1>>}
MCNewFaces == {<<1, 2, 3>>, <<1, 2, 3, 4>>}
=============================================================================
