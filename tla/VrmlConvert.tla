----------------------------- MODULE VrmlConvert ----------------------------
(***************************************************************************)
(* dxfConverter (src/src/convert/convert.cpp and the convert_... functions *)
(* beside it): entities met in a traversal are turned into lines and faces *)
(* on the layer of their colour, and writeVrml() prints the layers.        *)
(*                                                                         *)
(* Coordinates are integers.  An INSERT only moves what it shows; the      *)
(* turned coordinate system of an extrusion direction other than Z, the    *)
(* arcs of bulges, and circles, arcs and ellipses are floating point and   *)
(* left out.  The corners of wide segments, which the code computes, are   *)
(* places of their own, told apart by segment and corner; all the model    *)
(* keeps of the geometry of a joint is which corners coincide.             *)
(***************************************************************************)
EXTENDS LayerData, FiniteSets

CONSTANTS
  Entities,   \* the entities a traversal may meet
  Inserts,    \* the INSERTs it may meet them through
  LayerCol,   \* the converter's option to colour by layer only
  MaxShown    \* bound on the entities of one conversion

BYBLOCK == 0
BYLAYER == 256
NoColour == 257      \* a VERTEX for which no colour number was read
White == 7
None == -1

Place == [1 .. 3 -> Int]
Abs(c) == IF c < 0 THEN -c ELSE c

IsPoly(e, form) == e.kind = "polyline" /\ e.form = form

\* what the conversions rely on: a LINE has two points, a 3DFACE and a SOLID
\* four, the faces of a polyface mesh have corners among its vertices, and
\* the dimensions of a mesh are those of a grid
IsEntity(e) ==
  /\ e.kind \in {"line", "point", "3dface", "solid"} =>
       /\ e.pts \in Seq(Place)
       /\ Len(e.pts) = CASE e.kind = "point" -> 1 [] e.kind = "line" -> 2 [] OTHER -> 4
       /\ e.kind # "3dface" => e.elev \in Int /\ e.thick \in Int
  /\ e.kind \in {"polyline", "lwpolyline"} =>
       /\ e.vs \in Seq(ToSet(e.vs))
       /\ \A v \in ToSet(e.vs) : v.pt \in Place
  /\ e.kind = "lwpolyline" \/ IsPoly(e, "wide") => e.thick \in Int
  /\ IsPoly(e, "mesh") =>
       /\ e.m \in Nat \ {0} /\ e.n \in Nat \ {0} /\ e.m2 \in Nat /\ e.n2 \in Nat
  /\ IsPoly(e, "polyface") =>
       /\ e.faces \in Seq(ToSet(e.faces))
       /\ \A f \in ToSet(e.faces) :
            /\ f.indices \in Seq(Int) \ {<< >>}
            /\ \A i \in ToSet(f.indices) : Abs(i) \in DOMAIN e.vs

IsInsert(ins) == ins.colour \in Int /\ ins.layer \in Int /\ ins.at \in Place

ASSUME ConvertAssumption ==
  /\ \A e \in Entities : IsEntity(e)
  /\ \A ins \in Inserts : IsInsert(ins)

VARIABLES
  layers,         \* layerData[], defined for the colours in use
  fillmode,       \* the $FILLMODE of the drawing
  insertColour,   \* currentInsertColorIndex
  polyline,       \* currentPolyline, << >> for NULL
  shown,          \* what has been converted since doConvert() began, and how
  out             \* what writeVrml() has printed, with what it was to show
vars == <<layers, fillmode, insertColour, polyline, shown, out>>

Init == /\ layers = << >> /\ fillmode = TRUE /\ insertColour = White
        /\ polyline = << >> /\ shown = << >> /\ out = << >>
-----------------------------------------------------------------------------
(* Colours. *)

\* getColorIndex(), for what carries a colour: an entity, INSERT or VERTEX
ColourIndex(w) == IF LayerCol \/ w.colour = BYLAYER THEN w.layer ELSE w.colour

\* getLayerData(): a layer turned off has a negative colour
LayerIndex(w, pl, ic) ==
  LET own == IF w.kind = "vertex" /\ pl # << >> /\ w.colour = NoColour THEN pl ELSE w
      c == IF ColourIndex(own) = BYBLOCK THEN ic ELSE ColourIndex(own)
  IN  IF Abs(c) \in 1 .. 255 THEN Abs(c) ELSE White

InsertColour_Kept(ins) == IF ins = << >> THEN insertColour ELSE ColourIndex(ins)

InsertColour(ins) == IF ins = << >> THEN White ELSE ColourIndex(ins)
-----------------------------------------------------------------------------
(* The conversions.  Each gives the primitives it adds, in order: whose    *)
(* colour, and the places.                                                 *)
Prim(who, pts) == <<[who |-> who, pts |-> pts]>>

Up(p, t) == [p EXCEPT ![3] = @ + t]
Level(e, p) == IF e.elev = None THEN p ELSE [p EXCEPT ![3] = e.elev]
Wall(a, b, t) == <<a, b, Up(b, t), Up(a, t)>>

LinePrims(e) ==
  LET a == Level(e, e.pts[1])
      b == Level(e, e.pts[2])
  IN  IF e.thick # 0 THEN Prim(e, Wall(a, b, e.thick)) ELSE Prim(e, <<a, b>>)

PointPrims(e) ==
  LET a == Level(e, e.pts[1])
  IN  IF e.thick # 0 THEN Prim(e, <<a, Up(a, e.thick)>>) ELSE Prim(e, <<a>>)

FacePrims(e) ==
  Prim(e, IF e.pts[3] = e.pts[4] THEN SubSeq(e.pts, 1, 3) ELSE e.pts)

Distinct(pts) == EnteredAll(<< >>, pts)

\* the order around a SOLID: its third and fourth points are crossed
Around(n) == IF n = 4 THEN <<1, 2, 4, 3>> ELSE [k \in 1 .. n |-> k]

\* SOLID and TRACE
SolidPrims(e) ==
  LET given == Distinct([k \in DOMAIN e.pts |-> Level(e, e.pts[k])])
      n == Len(given)
      u == [k \in 1 .. n |-> given[Around(n)[k]]]
      roof == [k \in 1 .. n |-> Up(u[k], e.thick)]
  IN  CASE e.thick = 0 -> Prim(e, u)
        [] n = 1 -> Prim(e, u \o roof)
        [] n = 2 -> Prim(e, Wall(u[1], u[2], e.thick))
        [] OTHER -> Prim(e, u) \o Prim(e, roof)
                      \o [k \in 1 .. n |-> Prim(e, Wall(u[k], u[(k % n) + 1], e.thick))[1]]
-----------------------------------------------------------------------------
(* Lines with width and height (linesegment.cpp): segment i of a polyline  *)
(* runs from vertex i to the next.                                         *)
NextOf(e, i) == (i % Len(e.vs)) + 1
PrevOf(e, i) == IF i = 1 THEN Len(e.vs) ELSE i - 1

\* the places computed for a segment (calculate_v), numbered as in the code,
\* and for a joint (calculate_connect): unless widths agree or the angle is
\* sharp, the two segments meet in corners of their own
Corner(e, i, k) ==
  LET end == IF k \in {0, 2} THEN i ELSE NextOf(e, i)
      w == IF k \in {0, 2} THEN e.vs[i].w0 ELSE e.vs[i].w1
  IN  IF w = 0 THEN e.vs[end].pt ELSE <<-(10 * i + k), 1, 0>>

Joint(e, i, k) ==
  LET common == e.vs[i].w1 = e.vs[NextOf(e, i)].w0 \/ e.sharp
  IN  <<-(10 * i + (IF common THEN k % 2 ELSE k)), 2, 0>>

Cap(wanted, wall) == IF wanted THEN wall ELSE << >>

\* dxfLineSegment::convert()
SegmentPrims(e, i, prev, next, who) ==
  LET v == e.vs[i]
      a == <<e.vs[i].pt, e.vs[NextOf(e, i)].pt>>
      v0 == IF prev # None THEN Joint(e, prev, 2) ELSE Corner(e, i, 0)
      v2 == IF prev # None THEN Joint(e, prev, 3) ELSE Corner(e, i, 2)
      v1 == IF next # None THEN Joint(e, i, 0) ELSE Corner(e, i, 1)
      v3 == IF next # None THEN Joint(e, i, 1) ELSE Corner(e, i, 3)
      base == <<v0, v1, v3, v2>>
  IN  CASE v.w0 = 0 /\ v.w1 = 0 ->
             Prim(who, IF e.thick = 0 THEN a ELSE Wall(a[1], a[2], e.thick))
        [] e.thick = 0 -> Prim(who, base)
        [] OTHER ->
             Prim(who, base)
             \o Prim(who, [k \in 1 .. 4 |-> Up(base[k], e.thick)])
             \o Prim(who, Wall(v0, v1, e.thick))
             \o Cap(next = None, Prim(who, Wall(v1, v3, e.thick)))
             \o Prim(who, Wall(v3, v2, e.thick))
             \o Cap(prev = None, Prim(who, Wall(v2, v0, e.thick)))

\* the loop over the segments: the last one is given no successor, closed or
\* not, and the first one of a closed polyline has a predecessor
ChainPrims(e, closed, who) ==
  LET stop == IF closed THEN Len(e.vs) ELSE Len(e.vs) - 1
  IN  FlattenSeq([i \in 1 .. stop |->
        SegmentPrims(e, i, IF i > 1 \/ closed THEN PrevOf(e, i) ELSE None,
                     IF i < stop THEN i + 1 ELSE None, who[i])])

WidePrims(e) == ChainPrims(e, e.closed /\ Len(e.vs) > 2, e.vs)
LWPrims(e) == ChainPrims(e, e.closed, [i \in DOMAIN e.vs |-> e])

Line3dPrims(e) ==
  [i \in 1 .. (IF e.closed THEN Len(e.vs) ELSE Len(e.vs) - 1) |->
     [who |-> e.vs[i], pts |-> <<e.vs[i].pt, e.vs[NextOf(e, i)].pt>>]]
-----------------------------------------------------------------------------
(* Meshes: m rows of n vertices, after the m2 rows of n2 vertices of a     *)
(* smooth surface.                                                         *)

\* the dimensions used, given those in the file and the number of vertices
MeshSize(m, n, m2, n2, count) ==
  CASE m * n + m2 * n2 = count -> <<m, n, m2, n2>>
    [] (m - 1) * n + m2 * n2 = count -> <<m - 1, n, m2, n2>>
    [] m * n = count -> <<m, n, 0, 0>>
    [] m2 * n2 = count -> <<0, 0, m2, n2>>
    [] OTHER -> <<0, 0, 0, 0>>

Wrapped_Never(i, m) == i
Wrapped(i, m) == IF i = m THEN 0 ELSE i

\* the faces of a grid, its vertices numbered row by row after the first "add"
GridFaces(add, m, n, closedM, closedN) ==
  LET endm == IF closedM THEN m ELSE m - 1
      endn == IF closedN THEN n ELSE n - 1
      cell == [k \in 1 .. (IF endm > 0 /\ endn > 0 THEN endm * endn ELSE 0) |->
                 <<(k - 1) \div endn, (k - 1) % endn>>]
      V(i, j) == add + Wrapped(i, m) * n + Wrapped(j, n) + 1
  IN  [k \in DOMAIN cell |->
        LET i == cell[k][1]
            j == cell[k][2]
        IN  <<V(i, j), V(i, j + 1), V(i + 1, j + 1), V(i + 1, j)>>]

MeshFaces(m, n, m2, n2, count, closedM, closedN) ==
  LET size == MeshSize(m, n, m2, n2, count)
  IN  GridFaces(size[3] * size[4], size[1], size[2], closedM, closedN)
        \o GridFaces(0, size[3], size[4], closedM, closedN)

MeshPrims(e) ==
  LET faces == MeshFaces(e.m, e.n, e.m2, e.n2, Len(e.vs), e.closed, e.closedN)
  IN  [f \in DOMAIN faces |->
        [who |-> e, pts |-> [k \in 1 .. 4 |-> e.vs[faces[f][k]].pt]]]

\* a face of a polyface mesh names three or four vertices, and negates the
\* number where the edge that follows is hidden
PolyfacePrims(e) ==
  [f \in DOMAIN e.faces |->
    [who |-> e.faces[f],
     pts |-> [k \in DOMAIN e.faces[f].indices |-> e.vs[Abs(e.faces[f].indices[k])].pt]]]
-----------------------------------------------------------------------------
(* The converter. *)
Prims(e) == CASE e.kind = "line" -> LinePrims(e)
              [] e.kind = "point" -> PointPrims(e)
              [] e.kind = "3dface" -> FacePrims(e)
              [] e.kind = "solid" -> SolidPrims(e)
              [] e.kind = "lwpolyline" -> LWPrims(e)
              [] IsPoly(e, "mesh") -> MeshPrims(e)
              [] IsPoly(e, "polyface") -> PolyfacePrims(e)
              [] IsPoly(e, "3d") -> Line3dPrims(e)
              [] IsPoly(e, "wide") -> WidePrims(e)
              [] OTHER -> << >>

\* the conversions that respect $FILLMODE, on the layer of the entity
Fill(e) == IF e.kind = "solid" \/ IsPoly(e, "wide")
           THEN fillmode ELSE TRUE

\* the matrix of the traversal; convert_point() does not use it
Moved(e, ins, pts) ==
  IF ins = << >> \/ e.kind = "point" THEN pts
  ELSE [k \in DOMAIN pts |-> [d \in 1 .. 3 |-> pts[k][d] + ins.at[d]]]

\* getLayerData(colidx): made when first asked for
Opened(ls, c) == IF c \in DOMAIN ls THEN ls
                 ELSE [d \in DOMAIN ls \cup {c} |-> IF d = c THEN NewLayer ELSE ls[d]]

\* what e adds, and to which layers, in a traversal with these colours
Todo(e, ins, pl, ic) ==
  [k \in DOMAIN Prims(e) |-> [layer |-> LayerIndex(Prims(e)[k].who, pl, ic),
                              pts |-> Moved(e, ins, Prims(e)[k].pts)]]
AddAll(ls, todo) ==
  LET after[k \in 0 .. Len(todo)] ==
        IF k = 0 THEN ls
        ELSE [Opened(after[k - 1], todo[k].layer)
                EXCEPT ![todo[k].layer] = Add(@, todo[k].pts)]
  IN  after[Len(todo)]

\* private_callback(), for entity e met through the INSERT ins (or none)
Convert(e, ins) ==
  LET pl == IF e.kind = "polyline" THEN e ELSE polyline
      ic == InsertColour(ins)
      own == LayerIndex(e, pl, ic)
      todo == Todo(e, ins, pl, ic)
      result == AddAll([Opened(layers, own) EXCEPT ![own].fill = Fill(e)], todo)
  IN  /\ out = << >> /\ Len(shown) < MaxShown
      /\ polyline' = pl /\ insertColour' = ic
      /\ layers' = result
      /\ shown' = Append(shown,
           [entity |-> e, through |-> ins,
            added |-> [k \in DOMAIN todo |->
                        [layer |-> todo[k].layer, pts |-> todo[k].pts,
                         fill |-> result[todo[k].layer].fill]]])
      /\ UNCHANGED <<fillmode, out>>

DoConvert == /\ layers' = << >> /\ shown' = << >> /\ out' = << >>
             /\ UNCHANGED <<fillmode, insertColour, polyline>>

\* findHeaderVariables() or setFillmode(), before a conversion
SetFillmode(b) == /\ shown = << >> /\ out = << >>
                  /\ fillmode' = b
                  /\ UNCHANGED <<layers, insertColour, polyline, shown, out>>

\* prints the layers and drops them
WriteVrml ==
  /\ out = << >> /\ shown # << >>
  /\ out' = [asked |-> shown,
             text |-> [c \in DOMAIN layers |-> [layers[c] EXCEPT !.lines = Closed(@)]]]
  /\ layers' = << >>
  /\ UNCHANGED <<fillmode, insertColour, polyline, shown>>

Next == \/ \E e \in Entities, ins \in Inserts \cup {<< >>} : Convert(e, ins)
        \/ DoConvert
        \/ \E b \in BOOLEAN : SetFillmode(b)
        \/ WriteVrml

Spec == Init /\ [][Next]_vars
-----------------------------------------------------------------------------
\* Layers belong to colours, every number in a strip or a face is that of a
\* place that has been entered, and no place has two numbers.
TypeOK ==
  /\ DOMAIN layers \subseteq 1 .. 255
  /\ fillmode \in BOOLEAN /\ insertColour \in Int
  /\ \A c \in DOMAIN layers :
       LET ld == layers[c]
       IN  /\ ld.fill \in BOOLEAN
           /\ ToSet(ld.lines) \subseteq 0 .. Len(ld.linePts)
           /\ ToSet(ld.faces) \subseteq 0 .. Len(ld.facePts)
           /\ Cardinality(ToSet(ld.linePts)) = Len(ld.linePts)
           /\ Cardinality(ToSet(ld.facePts)) = Len(ld.facePts)

\* the lines and the faces that a primitive asks of layer c
LinesOf(c, p) ==
  IF p.layer # c THEN << >>
  ELSE IF Len(p.pts) = 2 THEN <<p.pts>>
  ELSE IF Len(p.pts) > 2 /\ ~p.fill THEN Edges(p.pts) ELSE << >>
FacesOf(c, p) == IF p.layer = c /\ Len(p.pts) > 2 /\ p.fill THEN <<p.pts>> ELSE << >>

LinesAdded(c, added) == FlattenSeq([k \in DOMAIN added |-> LinesOf(c, added[k])])
FacesAdded(c, added) == FlattenSeq([k \in DOMAIN added |-> FacesOf(c, added[k])])
LinesAsked(c, asked) == FlattenSeq([s \in DOMAIN asked |-> LinesAdded(c, asked[s].added)])
FacesAsked(c, asked) == FlattenSeq([s \in DOMAIN asked |-> FacesAdded(c, asked[s].added)])

\* the layers that something was added to
LayersAsked(asked) ==
  UNION {{asked[s].added[k].layer : k \in DOMAIN asked[s].added} : s \in DOMAIN asked}

Draws(ld, c, asked) == /\ DrawnLines(ld.linePts, ld.lines) = LinesAsked(c, asked)
                       /\ DrawnFaces(ld.facePts, ld.faces) = FacesAsked(c, asked)

\* However lines are joined into strips and places shared, a layer shows the
\* lines and faces added to it, in order, and nothing else; so does what is
\* printed, in which the last strip is ended, and no layer is missing.
DrawsWhatWasAdded ==
  IF out = << >>
  THEN /\ LayersAsked(shown) \subseteq DOMAIN layers
       /\ \A c \in DOMAIN layers : Draws(layers[c], c, shown)
  ELSE /\ LayersAsked(out.asked) \subseteq DOMAIN out.text
       /\ \A c \in DOMAIN out.text :
            /\ Draws(out.text[c], c, out.asked)
            /\ out.text[c].lines # << >> => Last(out.text[c].lines) = End

\* the layers of e's primitives in a converter that has met nothing before
LayersAlone(e, ins) ==
  [k \in DOMAIN Prims(e) |->
     LayerIndex(Prims(e)[k].who, IF e.kind = "polyline" THEN e ELSE << >>,
                IF ins = << >> THEN White ELSE ColourIndex(ins))]

\* The colours of an entity depend on it and on the INSERT it is met through,
\* not on what was converted before, in this conversion or an earlier one.
HistoryFree ==
  \A s \in DOMAIN shown :
    [k \in DOMAIN shown[s].added |-> shown[s].added[k].layer]
      = LayersAlone(shown[s].entity, shown[s].through)

\* Every edge of the faces is an edge of exactly two.
IsClosedSurface(faces) ==
  LET sides == {<<f, k>> : f \in DOMAIN faces, k \in 1 .. 4}
      real == {s \in sides : s[2] <= Len(faces[s[1]])}
      Edge(s) == {Edges(faces[s[1]])[s[2]][1], Edges(faces[s[1]])[s[2]][2]}
  IN  \A s \in real : Cardinality({t \in real : Edge(t) = Edge(s)}) = 2

Wide(e) == /\ e.kind = "lwpolyline" \/ IsPoly(e, "wide")
           /\ e.thick # 0
           /\ \A i \in DOMAIN e.vs : e.vs[i].w0 > 0 /\ e.vs[i].w1 > 0
           /\ e.sharp \/ \A i \in DOMAIN e.vs : e.vs[i].w1 = e.vs[NextOf(e, i)].w0

\* A SOLID with thickness, an open polyline with width and thickness and a
\* mesh that is closed both ways have surfaces without holes, whatever number
\* of the SOLID's points coincide ("a continous mesh, without cracks",
\* linesegment.cpp:89).
Watertight ==
  \A s \in DOMAIN shown :
    LET e == shown[s].entity
        faces == [k \in DOMAIN shown[s].added |-> shown[s].added[k].pts]
    IN  (\/ e.kind = "solid" /\ e.thick # 0 /\ Len(Distinct(e.pts)) >= 3
         \/ Wide(e) /\ ~e.closed
         \/ IsPoly(e, "mesh") /\ e.closed /\ e.closedN
             /\ e.m > 2 /\ e.n > 2)
        => IsClosedSurface(faces)

\* The faces of a mesh use its vertices and no others, all of them when
\* the dimensions agree with their number and rows and columns are long
\* enough, and no face is drawn twice.  (A property
\* of the functions, looked at before anything is converted.)
MeshSound ==
  polyline = << >> /\ shown = << >> =>
  \A m, n \in 1 .. 4, smooth \in {<<0, 0>>} \cup (2 .. 3) \X (2 .. 3) :
    \A count \in 0 .. 16 : \A closedM, closedN \in BOOLEAN :
      LET faces == MeshFaces(m, n, smooth[1], smooth[2], count, closedM, closedN)
          used == UNION {ToSet(faces[f]) : f \in DOMAIN faces}
      IN  /\ used \subseteq 1 .. count
          /\ (m * n + smooth[1] * smooth[2] = count /\ m > 1 /\ n > 1) => used = 1 .. count
          /\ \A f, g \in DOMAIN faces : f # g => faces[f] # faces[g]

\* The faces that stand for something with a volume, and those of every mesh,
\* are the right ones.
SurfacesSound == Watertight /\ MeshSound

\* Strips and faces are in order, and show what was added.
StripsSound == TypeOK /\ DrawsWhatWasAdded
=============================================================================
