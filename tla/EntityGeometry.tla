--------------------------- MODULE EntityGeometry ---------------------------
(***************************************************************************)
(* extractGeometry(): the vertices and indices of an entity.  Every vertex *)
(* is its three coordinates; indices are from 0, and NoMore, which is -1   *)
(* in the code, ends a face.  Circles, arcs and ellipses are left out.     *)
(***************************************************************************)
EXTENDS EntityIO

NoMore == 0 - 1

Geometry(type, verts, indices) == [type |-> type, verts |-> verts, indices |-> indices]
Cleared(type, verts) == Geometry(type, verts, << >>)
\* dimeEntity::extractGeometry
Nothing == Cleared("NONE", << >>)

\* what the client's arrays hold already stays
Appended(g, type, verts) == [g EXCEPT !.type = type, !.verts = @ \o verts]

Corner(e, n) == Values3(e, [k \in 1 .. 3 |-> 10 * k + n])

\* dimeLWPolyline: a closed one ends where it begins
LWOutline(e) ==
  LET points == [i \in 1 .. e.f[90] |-> <<e.arr[10][i], e.arr[20][i], e.f[38]>>]
  IN  points \o Opt(Bit(e.f[70], 1), <<points[1]>>)

\* dimeFaceEntity: three corners or four; a SOLID or TRACE has its last two crossed
FaceOutline(e) ==
  LET fourth == Corner(e, 3)
  IN  <<Corner(e, 0), Corner(e, 1)>>
        \o (IF Corner(e, 2) = fourth THEN <<fourth>>
            ELSE IF e.kind = "3DFACE" THEN <<Corner(e, 2), fourth>> ELSE <<fourth, Corner(e, 2)>>)

Coords(e) == [k \in DOMAIN e.parts["coord"] |-> Corner(e.parts["coord"][k], 0)]

NextAlong_NoWrap(i, n) == i + 1
NextAlong(i, n) == IF i + 1 = n THEN 0 ELSE i + 1

\* the faces of an m by n mesh whose vertices begin behind "first" others
MeshFaces(e, m, n, first) ==
  LET rows == IF Bit(e.f[70], 1) THEN m ELSE m - 1
      columns == IF Bit(e.f[70], 32) THEN n ELSE n - 1
      corner(i, j) == first + i * n + j
      face(i, j) == <<corner(i, j), corner(i, NextAlong(j, n)),
                      corner(NextAlong(i, m), NextAlong(j, n)),
                      corner(NextAlong(i, m), j), NoMore>>
  IN  FlattenSeq([i \in 1 .. rows |->
                    FlattenSeq([j \in 1 .. columns |-> face(i - 1, j - 1)])])

\* the dimensions of the control mesh and of the smooth surface: when they do
\* not add up to the vertices there are, one of them may be wrong or missing
Meshes(e) ==
  LET total == Len(e.parts["coord"])
      m == e.f[71]
      n == e.f[72]
      smooth == e.f[75] # 0 /\ e.f[73] # 0 /\ e.f[74] # 0
      m2 == IF smooth THEN e.f[73] ELSE 0
      n2 == IF smooth THEN e.f[74] ELSE 0
      addUp(rows, columns, r2, c2) == rows * columns + r2 * c2 = total
  IN  IF addUp(m, n, m2, n2) THEN <<<<m, n>>, <<m2, n2>>>>
      ELSE IF addUp(m - 1, n, m2, n2) THEN <<<<m - 1, n>>, <<m2, n2>>>>
      ELSE IF addUp(m, n, 0, 0) THEN <<<<m, n>>, <<0, 0>>>>
      ELSE IF addUp(0, 0, m2, n2) THEN <<<<0, 0>>, <<m2, n2>>>>
      ELSE << >>

PolygonMesh(e) ==
  LET d == Meshes(e)
      first == d[2][1] * d[2][2]
  IN  IF d = << >> THEN Nothing
      ELSE Geometry("POLYGONS", Coords(e),
                    MeshFaces(e, d[1][1], d[1][2], first)
                      \o MeshFaces(e, d[2][1], d[2][2], 0))

\* a negative index means a hidden edge
FaceOf(v) ==
  LET codes == IndexCodes(v)
      position(i) == (IF i < 0 THEN 0 - i ELSE i) - 1
  IN  [k \in DOMAIN codes |-> position(v.f[codes[k]])] \o <<NoMore>>

PolyfaceMesh(e) ==
  IF e.parts["index"] = << >> \/ e.parts["coord"] = << >> THEN Nothing
  ELSE LET faces == Live(e.parts["index"])
       IN  Geometry("POLYGONS", Coords(e),
                    FlattenSeq([k \in DOMAIN faces |-> FaceOf(faces[k])]))

\* dimePolyline: none of the flags 8, 16 and 64, or 8, is a line
PolylineGeometry(e) ==
  LET flags == e.f[70]
      many == Len(e.parts["coord"]) > 1
      line == Bit(flags, 8) \/ ~(Bit(flags, 16) \/ Bit(flags, 64))
  IN  IF line /\ many
      THEN Cleared("LINES", Coords(e) \o Opt(Bit(flags, 1), <<Coords(e)[1]>>))
      ELSE IF Bit(flags, 16) /\ many THEN PolygonMesh(e)
      ELSE PolyfaceMesh(e)

LineGeometry(e, before) == Appended(before, "LINES", <<Corner(e, 0), Corner(e, 1)>>)
PointGeometry(e, before) == Appended(before, "POINTS", <<Corner(e, 0)>>)
HatchGeometry(before) == Appended(before, "POLYGONS", << >>)

\* extractGeometry(), into arrays that hold "before"
ExtractGeometry(e, before) ==
  CASE e.kind = "LINE" -> LineGeometry(e, before)
    [] e.kind = "POINT" -> PointGeometry(e, before)
    [] e.kind = "HATCH" -> HatchGeometry(before)
    [] e.kind = "LWPOLYLINE" -> Appended(before, "LINES", LWOutline(e))
    [] e.kind \in {"3DFACE", "SOLID", "TRACE"} -> Cleared("POLYGONS", FaceOutline(e))
    [] e.kind = "POLYLINE" -> PolylineGeometry(e)
    [] OTHER -> Nothing
-----------------------------------------------------------------------------
(* Properties. *)
Fresh == Nothing
Used == Geometry("POLYGONS", <<<<7, 7, 7>>, <<7, 7, 8>>>>, <<0, 1, NoMore>>)

\* a closed LWPOLYLINE without vertices is a pointer followed to nowhere
Extractable(e) ==
  /\ e.kind \notin {"CIRCLE", "ARC"}
  /\ e.kind = "LWPOLYLINE" => Writable(e) /\ (Bit(e.f[70], 1) => e.f[90] > 0)

IsMesh(e) ==
  /\ e.kind = "POLYLINE" /\ Bit(e.f[70], 16) /\ ~Bit(e.f[70], 8)
  /\ Len(e.parts["coord"]) > 1

\* the directed edges of a mesh, each face taking five indices
EdgeCount(indices, a, b) ==
  Cardinality({k \in DOMAIN indices : k % 5 # 0 /\ indices[k] = a
                 /\ (IF k % 5 = 4 THEN indices[k - 3] ELSE indices[k + 1]) = b})

NoneDeleted(e) == \A p \in DOMAIN e.parts : \A v \in ToSet(e.parts[p]) : ~v.deleted

\* extractGeometry(): whatever dimensions the file gives for a polygon mesh,
\* its faces use vertices that are there, and one closed both ways has no
\* hole: every edge is passed as often in one direction as in the other.  What
\* the client's arrays held before is behind nothing that is extracted, and for
\* surfaces does not matter.  A copy has the geometry of its original.
GeometrySound ==
  \A place \in Places :
    LET e == At(drawing, place)
        g == ExtractGeometry(e, Fresh)
        used == ExtractGeometry(e, Used)
        corners == ToSet(g.indices) \ {NoMore}
    IN  Extractable(e) =>
          /\ IsMesh(e) => corners \subseteq 0 .. Len(g.verts) - 1
          /\ IsMesh(e) /\ Bit(e.f[70], 1) /\ Bit(e.f[70], 32) =>
               \A a, b \in corners : EdgeCount(g.indices, a, b) = EdgeCount(g.indices, b, a)
          /\ IF g.type = "POLYGONS" /\ e.kind # "HATCH" THEN used = g
             ELSE IsSuffix(g.verts, used.verts)
          /\ Copyable(e) /\ NoneDeleted(e) => ExtractGeometry(Copied(e), Fresh) = g
=============================================================================
