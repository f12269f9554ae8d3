------------------------------ MODULE PointTree -----------------------------
(***************************************************************************)
(* dimeBSPTree (src/src/util/BSPTree.cpp): an index of points kept in a    *)
(* binary tree.  A node is a position in "node", its top is the first, and *)
(* 0 is NULL; points and user data are numbered from 1, 0 is the code's -1 *)
(* and dimensions are 1 to 3.  The indices of a leaf are a set: which of   *)
(* them comes first is never told apart.  A node's "position" is kept      *)
(* twice as large as the code's, since it halves a sum.  The walk from the *)
(* top to a leaf is one step a node ("call" is the call in progress).      *)
(* Coordinates are exact and equal to themselves: a NaN is left out.       *)
(***************************************************************************)
EXTENDS Integers, Sequences, FiniteSets

CONSTANTS
  Point,        \* the places, triples of coordinates
  Data,         \* the user data clients attach
  NULL,         \* the user data of a client that gives none
  MaxNodePts,   \* maxnodepts of the constructor
  Far,          \* a coordinate beyond all others (FLT_MAX)
  MaxPoints,    \* bound on the number of points entered
  MaxNodes      \* bound on the number of nodes, out of reach unless a leaf
                \* is split for ever

Dims == 1 .. 3

ASSUME PointTreeAssumption ==
  /\ Point \subseteq [Dims -> Int]
  /\ NULL \in Data
  /\ MaxNodePts \in Nat /\ MaxNodePts >= 2
  /\ MaxPoints \in Nat /\ MaxNodes \in Nat
  /\ Far \in Nat
  /\ \A p \in Point : \A d \in Dims : -Far < p[d] /\ p[d] < Far

VARIABLES points, userdata, node, box, call, last
vars == <<points, userdata, node, box, call, last>>

Top == 1
Leaf(s) == [left |-> 0, right |-> 0, dim |-> 0, pos |-> 0, indices |-> s]
IsLeaf(n) == node[n].left = 0
live == UNION {node[n].indices : n \in DOMAIN node}
Idle == call = << >>

EmptyBox == [min |-> [d \in Dims |-> Far], max |-> [d \in Dims |-> -Far]]

\* dimeBox::grow()
Grown(b, pt) ==
  [min |-> [d \in Dims |-> IF b.min[d] > pt[d] THEN pt[d] ELSE b.min[d]],
   max |-> [d \in Dims |-> IF b.max[d] < pt[d] THEN pt[d] ELSE b.max[d]]]

Init == /\ points = << >> /\ userdata = << >>
        /\ node = <<Leaf({})>>
        /\ box = EmptyBox
        /\ call = << >> /\ last = << >>
-----------------------------------------------------------------------------
(* Calls.  A call starts at the top. *)
Begin(op, pt, d) ==
  /\ Idle
  /\ call' = [op |-> op, pt |-> pt, data |-> d, at |-> Top]
  /\ last' = << >>
  /\ UNCHANGED <<points, userdata, node>>

BeginAdd(pt, d) ==
  /\ Len(points) < MaxPoints \/ \E i \in live : points[i] = pt
  /\ Begin("add", pt, d)
  /\ box' = Grown(box, pt)

BeginFind(pt) == Begin("find", pt, NULL) /\ UNCHANGED box
BeginRemove(pt) == Begin("remove", pt, NULL) /\ UNCHANGED box

\* removePoint(index) removes whatever lies where the point of that number
\* lay.
BeginRemoveAt(i) == BeginRemove(points[i])

SetUserData(i, d) == /\ Idle
                     /\ userdata' = [userdata EXCEPT ![i] = d]
                     /\ UNCHANGED <<points, node, box, call, last>>

Clear == /\ Idle
         /\ points' = << >> /\ userdata' = << >>
         /\ node' = <<Leaf({})>>
         /\ box' = EmptyBox
         /\ last' = << >>
         /\ UNCHANGED call
-----------------------------------------------------------------------------
(* The walk. *)
\* leftOf(), for a node split at pos in dim
Before(dim, pos, pt) == 2 * pt[dim] < pos

\* the child of node n of the tree t that a point belongs to
Child(t, n, pt) ==
  IF Before(t[n].dim, t[n].pos, pt) THEN t[n].left ELSE t[n].right

GoDown ==
  /\ ~Idle /\ ~IsLeaf(call.at)
  /\ call' = [call EXCEPT !.at = Child(node, call.at, call.pt)]
  /\ UNCHANGED <<points, userdata, node, box, last>>

Low(s, d) == CHOOSE x \in {points[i][d] : i \in s} : \A i \in s : x <= points[i][d]
High(s, d) == CHOOSE x \in {points[i][d] : i \in s} : \A i \in s : x >= points[i][d]
Extent(s, d) == High(s, d) - Low(s, d)

LongestDim(s) ==
  IF Extent(s, 1) > Extent(s, 2)
  THEN IF Extent(s, 1) > Extent(s, 3) THEN 1 ELSE 3
  ELSE IF Extent(s, 2) > Extent(s, 3) THEN 2 ELSE 3

Middle_Low(s, d) == 2 * Low(s, d)

Middle(s, d) == Low(s, d) + High(s, d)

Full(n) == Cardinality(node[n].indices) >= MaxNodePts

Sides_Swapped(n, dim, pos) ==
  LET s == node[n].indices
      left == {i \in s : Before(dim, pos, points[i])}
  IN  <<s \ left, left>>

\* the indices of the two halves of a leaf
Sides(n, dim, pos) ==
  LET s == node[n].indices
      left == {i \in s : Before(dim, pos, points[i])}
  IN  <<left, s \ left>>

\* split(), and addPoint() again on the node that is no longer a leaf
Split ==
  /\ ~Idle /\ call.op = "add" /\ Len(node) < MaxNodes
  /\ LET n == call.at
         dim == LongestDim(node[n].indices)
         pos == Middle(node[n].indices, dim)
         sides == Sides(n, dim, pos)
     IN  /\ IsLeaf(n) /\ Full(n)
         /\ node' = [node EXCEPT ![n] =
                      [left |-> Len(node) + 1, right |-> Len(node) + 2,
                       dim |-> dim, pos |-> pos, indices |-> {}]]
                    \o <<Leaf(sides[1]), Leaf(sides[2])>>
  /\ UNCHANGED <<points, userdata, box, call, last>>
-----------------------------------------------------------------------------
(* The end of the walk. *)
Here == {i \in node[call.at].indices : points[i] = call.pt}
Return(i) == /\ call' = << >>
             /\ last' = [op |-> call.op, pt |-> call.pt, ret |-> i]

Arrived(op) == ~Idle /\ call.op = op /\ IsLeaf(call.at)

FoundAlready ==
  /\ Arrived("add") /\ ~Full(call.at)
  /\ \E i \in Here : Return(i)
  /\ UNCHANGED <<points, userdata, node, box>>

\* the new point, and in dimeBSPTree::addPoint() its user data
AddHere ==
  /\ Arrived("add") /\ ~Full(call.at) /\ Here = {}
  /\ points' = Append(points, call.pt)
  /\ userdata' = Append(userdata, call.data)
  /\ node' = [node EXCEPT ![call.at].indices = @ \cup {Len(points')}]
  /\ Return(Len(points'))
  /\ UNCHANGED box

FindHere ==
  /\ Arrived("find")
  /\ \/ \E i \in Here : Return(i)
     \/ Here = {} /\ Return(0)
  /\ UNCHANGED <<points, userdata, node, box>>

RemoveHere_Keeps ==
  /\ Arrived("remove")
  /\ \/ \E i \in Here : Return(i)
     \/ Here = {} /\ Return(0)
  /\ UNCHANGED <<points, userdata, node, box>>

RemoveHere ==
  /\ Arrived("remove")
  /\ \/ \E i \in Here : /\ Return(i)
                        /\ node' = [node EXCEPT ![call.at].indices = @ \ {i}]
     \/ Here = {} /\ Return(0) /\ UNCHANGED node
  /\ UNCHANGED <<points, userdata, box>>

Step == GoDown \/ Split \/ FoundAlready \/ AddHere \/ FindHere \/ RemoveHere

Next == \/ \E pt \in Point, d \in Data : BeginAdd(pt, d)
        \/ \E pt \in Point : BeginFind(pt) \/ BeginRemove(pt)
        \/ \E i \in DOMAIN points : BeginRemoveAt(i)
        \/ \E i \in DOMAIN userdata, d \in Data : SetUserData(i, d)
        \/ Clear
        \/ Step

Spec == Init /\ [][Next]_vars

\* A call that has begun runs on: one thread, no waiting.
FairSpec == Spec /\ WF_vars(Step)
-----------------------------------------------------------------------------
Indices == DOMAIN points
Nodes == DOMAIN node
NodeType == [left : Nat, right : Nat, dim : Dims \cup {0}, pos : Int,
             indices : SUBSET Nat]
CallType == [op : {"add", "find", "remove"}, pt : Point, data : Data, at : Nat]

\* The types of the tree: children follow their parent, leaves hold numbers
\* of points, a call is at a node, user data are as many as points
\* (dimeBSPTree::getUserData asserts the latter).
TypeOK ==
  /\ points \in Seq(Point)
  /\ userdata \in Seq(Data) /\ Len(userdata) = Len(points)
  /\ node \in Seq(NodeType) /\ Top \in Nodes
  /\ \A n \in Nodes :
       /\ node[n].indices \subseteq Indices
       /\ ~IsLeaf(n) => /\ node[n].left \in Nodes /\ node[n].left > n
                         /\ node[n].right \in Nodes /\ node[n].right > n
                         /\ node[n].dim \in Dims
  /\ call # << >> => call \in CallType /\ call.at \in Nodes
  /\ last # << >> => last \in [op : {"add", "find", "remove"}, pt : Point, ret : Nat]

\* where the walk for a point ends, from each node of the tree t
WalkIn(t, pt) ==
  LET walk[n \in DOMAIN t] ==
        IF t[n].left = 0 THEN n ELSE walk[Child(t, n, pt)]
  IN  walk
Walk(pt) == WalkIn(node, pt)[Top]

\* A point that has not been removed is held by one leaf, the one its walk
\* ends in, however the tree has been split since it was added; no leaf
\* holds more than the constructor allows.
Findable ==
  \A n \in Nodes :
    /\ \A i \in node[n].indices : Walk(points[i]) = n
    /\ Cardinality(node[n].indices) <= MaxNodePts

\* the points added since the tree was cleared, removed ones included
Added == {points[i] : i \in Indices}
           \cup (IF ~Idle /\ call.op = "add" THEN {call.pt} ELSE {})

IsHull(b, s) ==
  IF s = {} THEN b = EmptyBox
  ELSE \A d \in Dims :
         /\ b.min[d] \in {p[d] : p \in s}
         /\ b.max[d] \in {p[d] : p \in s}
         /\ \A p \in s : b.min[d] <= p[d] /\ p[d] <= b.max[d]

\* getBBox(): the smallest box around every point added.
BoxIsHull == IsHull(box, Added)

\* The tree and the lists beside it fit, lead to every point, and the box is
\* the one getBBox() promises.
TreeSound == TypeOK /\ Findable /\ BoxIsHull

\* Every call returns: the walk ends and splitting does.
CallReturns == ~Idle ~> Idle

\* The tree is an index of points: it answers, removes and numbers as one
\* that looks at all of them (PointIndex).
Index == INSTANCE PointIndex
IsPointIndex == Index!Spec
=============================================================================
