---------------------------- MODULE MCVrmlConvert ---------------------------
(* TLC instance of VrmlConvert: entities of every kind, some of the colour   *)
(* of their block or layer, and INSERTs with a colour of their own.          *)
EXTENDS VrmlConvert

o == <<0, 0, 0>>
x == <<1, 0, 0>>
y == <<0, 1, 0>>
xy == <<1, 1, 0>>

Vertex(p, w, c) == [kind |-> "vertex", pt |-> p, w0 |-> w, w1 |-> w, colour |-> c, layer |-> 4]
Line(p, q, c, t) == [kind |-> "line", pts |-> <<p, q>>, elev |-> None, thick |-> t,
                     colour |-> c, layer |-> -2]
Poly(form, vs, closed) == [kind |-> "polyline", form |-> form, vs |-> vs, closed |-> closed,
                           sharp |-> FALSE, thick |-> 1, colour |-> 3, layer |-> 4]
Mesh(m, n, m2, n2, count) ==
  [kind |-> "polyline", form |-> "mesh", closed |-> TRUE, closedN |-> TRUE,
   m |-> m, n |-> n, m2 |-> m2, n2 |-> n2, colour |-> BYLAYER, layer |-> 4,
   vs |-> [k \in 1 .. count |-> Vertex(<<k, 0, 0>>, 0, NoColour)]]

MCEntities ==
  { Line(o, x, BYBLOCK, 0), Line(x, y, BYLAYER, 0),
    [kind |-> "point", pts |-> <<x>>, elev |-> 1, thick |-> 0, colour |-> BYBLOCK, layer |-> 1],
    [kind |-> "point", pts |-> <<y>>, elev |-> None, thick |-> 1, colour |-> 300, layer |-> 1],
    [kind |-> "3dface", pts |-> <<o, x, y, y>>, colour |-> 4, layer |-> 1],
    [kind |-> "solid", pts |-> <<o, x, y, xy>>, elev |-> 2, thick |-> 1, colour |-> 4, layer |-> 1],
    [kind |-> "solid", pts |-> <<x, x, y, o>>, elev |-> None, thick |-> 1, colour |-> 3, layer |-> 1],
    [kind |-> "lwpolyline", vs |-> <<Vertex(o, 0, 0), Vertex(x, 0, 0)>>, closed |-> TRUE,
     sharp |-> FALSE, thick |-> 0, colour |-> BYLAYER, layer |-> 4],
    Poly("wide", <<Vertex(o, 1, 4), Vertex(x, 1, NoColour), Vertex(xy, 1, 4)>>, FALSE),
    Poly("wide", <<Vertex(o, 2, 4), Vertex(x, 1, NoColour), Vertex(xy, 0, 4)>>, TRUE),
    Poly("3d", <<Vertex(o, 0, 4), Vertex(x, 0, NoColour), Vertex(xy, 0, BYLAYER)>>, TRUE),
    Mesh(3, 3, 0, 0, 9),
    [kind |-> "polyline", form |-> "polyface", colour |-> 3, layer |-> 4,
     vs |-> <<Vertex(o, 0, 0), Vertex(x, 0, 0), Vertex(xy, 0, 0), Vertex(y, 0, 0)>>,
     faces |-> <<[kind |-> "vertex", colour |-> 4, layer |-> 1, indices |-> <<1, -2, 3>>],
                 [kind |-> "vertex", colour |-> NoColour, layer |-> 1, indices |-> <<4, 3, 2, 1>>]>>] }

MCInserts == { [kind |-> "insert", colour |-> 5, layer |-> 1, at |-> <<2, 0, 0>>] }
=============================================================================
