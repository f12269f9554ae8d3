--------------------------- MODULE PointTreeProofs ---------------------------
(***************************************************************************)
(* Proofs about PointTree: for every set of points, every size of a leaf   *)
(* and any number of points, the walk for a point leads to the leaf that   *)
(* holds it, and the tree answers as PointIndex does.                      *)
(***************************************************************************)
EXTENDS PointTree, Induction, FiniteSetTheorems, SequenceTheorems, TLAPS

-----------------------------------------------------------------------------
(* Walks.                                                                    *)

\* A tree whose nodes have their children after them.
Tree(t) ==
  /\ t \in Seq(NodeType) /\ Top \in DOMAIN t
  /\ \A n \in DOMAIN t :
       t[n].left # 0 => /\ t[n].left \in DOMAIN t /\ t[n].left > n
                        /\ t[n].right \in DOMAIN t /\ t[n].right > n

LEMMA ChildType ==
  ASSUME NEW t, Tree(t), NEW n \in DOMAIN t, t[n].left # 0, NEW pt
  PROVE  Child(t, n, pt) \in DOMAIN t /\ Child(t, n, pt) > n
BY DEF Tree, Child

\* Since children come after their parents, the walk ends: the equation of
\* WalkIn has a solution, which is built from the last node to the first.
LEMMA WalkExists ==
  ASSUME NEW t, Tree(t), NEW pt
  PROVE  \E w : w = [n \in DOMAIN t |->
                       IF t[n].left = 0 THEN n ELSE w[Child(t, n, pt)]]
<1>. DEFINE L == Len(t)
            Solves(g, k) == \A n \in 1 .. L : n > L - k =>
                              g[n] = IF t[n].left = 0 THEN n ELSE g[Child(t, n, pt)]
            T == {k \in Nat : k <= L => \E g \in [1 .. L -> 1 .. L] : Solves(g, k)}
<1>1. L \in Nat /\ DOMAIN t = 1 .. L
  BY DEF Tree
<1>2. \A n \in 1 .. L : t[n].left # 0 =>
        Child(t, n, pt) \in 1 .. L /\ Child(t, n, pt) > n
  BY <1>1, ChildType
<1>. HIDE DEF L
<1>3. 0 \in T
  <2>1. Solves([n \in 1 .. L |-> n], 0)
    BY <1>1
  <2>2. [n \in 1 .. L |-> n] \in [1 .. L -> 1 .. L]
    OBVIOUS
  <2>. QED  BY <2>1, <2>2
<1>4. ASSUME NEW k \in Nat, k \in T PROVE k + 1 \in T
  <2>. SUFFICES ASSUME k + 1 <= L
                PROVE  \E g \in [1 .. L -> 1 .. L] : Solves(g, k + 1)
    OBVIOUS
  <2>1. PICK g \in [1 .. L -> 1 .. L] : Solves(g, k)
    BY <1>1, <1>4
  <2>. DEFINE m == L - k
              h == [g EXCEPT ![m] = IF t[m].left = 0 THEN m ELSE g[Child(t, m, pt)]]
  <2>2. m \in 1 .. L /\ m \in Int
    BY <1>1
  <2>3. h \in [1 .. L -> 1 .. L]
    BY <1>2, <2>2
  <2>4. \A n \in 1 .. L : n # m => h[n] = g[n]
    OBVIOUS
  <2>5. h[m] = IF t[m].left = 0 THEN m ELSE h[Child(t, m, pt)]
    BY <1>2, <2>2
  <2>6. \A n \in 1 .. L : n > L - (k + 1) => n = m \/ n > m
    <3>1. \A n \in Int : n > L - (k + 1) => n = m \/ n > m
      BY <1>1
    <3>. QED  BY <3>1
  <2>7. \A n \in 1 .. L : n > m =>
          h[n] = IF t[n].left = 0 THEN n ELSE h[Child(t, n, pt)]
    <3>. HIDE DEF h
    <3>. TAKE n \in 1 .. L
    <3>. HAVE n > m
    <3>1. g[n] = IF t[n].left = 0 THEN n ELSE g[Child(t, n, pt)]
      BY <2>1
    <3>2. t[n].left # 0 => Child(t, n, pt) \in 1 .. L /\ Child(t, n, pt) # m
      BY <1>2, <1>1, <2>2
    <3>3. h[n] = g[n]
      <4>1. n \in Int /\ n > m
        OBVIOUS
      <4>. HIDE DEF m
      <4>2. n # m
        BY <2>2, <4>1
      <4>. QED  BY <2>4, <4>2
    <3>. QED  BY <3>1, <3>2, <3>3, <2>4
  <2>. HIDE DEF h, m
  <2>. QED  BY <2>3, <2>5, <2>6, <2>7
<1>. HIDE DEF T
<1>5. L \in T
  BY <1>1, <1>3, <1>4, SetInduction
<1>6. PICK g \in [1 .. L -> 1 .. L] : Solves(g, L)
  BY <1>1, <1>5 DEF T
<1>7. g = [n \in 1 .. L |-> IF t[n].left = 0 THEN n ELSE g[Child(t, n, pt)]]
  <2>1. \A n \in 1 .. L : n > L - L
    BY <1>1
  <2>2. \A n \in 1 .. L : g[n] = IF t[n].left = 0 THEN n ELSE g[Child(t, n, pt)]
    BY <1>6, <2>1
  <2>. QED  BY <2>2
<1>. QED  BY <1>1, <1>7

LEMMA WalkEquation ==
  ASSUME NEW t, Tree(t), NEW pt
  PROVE  WalkIn(t, pt) = [n \in DOMAIN t |->
           IF t[n].left = 0 THEN n ELSE WalkIn(t, pt)[Child(t, n, pt)]]
<1>. DEFINE E(w) == w = [n \in DOMAIN t |->
                          IF t[n].left = 0 THEN n ELSE w[Child(t, n, pt)]]
<1>1. \E w : E(w)
  BY WalkExists
<1>2. WalkIn(t, pt) = CHOOSE w : E(w)
  BY DEF WalkIn
<1>. HIDE DEF E
<1>3. E(WalkIn(t, pt))
  BY <1>1, <1>2
<1>. QED  BY <1>3 DEF E

\* One step of a walk.
LEMMA WalkStep ==
  ASSUME NEW t, Tree(t), NEW pt, NEW n \in DOMAIN t
  PROVE  WalkIn(t, pt)[n] = IF t[n].left = 0 THEN n
                            ELSE WalkIn(t, pt)[Child(t, n, pt)]
BY WalkEquation

\* Splitting a leaf moves the end of the walks that ended there to one of its
\* children, and of no other walk.
LEMMA WalkAfterSplit ==
  ASSUME NEW t, Tree(t), NEW u, Tree(u), Len(u) = Len(t) + 2,
         NEW n \in DOMAIN t, t[n].left = 0,
         \A m \in DOMAIN t \ {n} : u[m] = t[m],
         u[n].left = Len(t) + 1, u[n].right = Len(t) + 2,
         u[Len(t) + 1].left = 0, u[Len(t) + 2].left = 0,
         NEW pt
  PROVE  /\ WalkIn(u, pt)[n] = Child(u, n, pt)
         /\ \A m \in DOMAIN t :
              WalkIn(u, pt)[m] = IF WalkIn(t, pt)[m] = n THEN Child(u, n, pt)
                                 ELSE WalkIn(t, pt)[m]
<1>. DEFINE L == Len(t)
            w == WalkIn(t, pt)
            v == WalkIn(u, pt)
            c == Child(u, n, pt)
            Good(m) == v[m] = IF w[m] = n THEN c ELSE w[m]
            T == {k \in Nat : \A m \in DOMAIN t : m > L - k => Good(m)}
<1>1. L \in Nat /\ DOMAIN t = 1 .. L /\ DOMAIN u = 1 .. (L + 2)
  BY DEF Tree
<1>2. n \in DOMAIN u /\ u[n].left # 0 /\ c \in {L + 1, L + 2} /\ c \in DOMAIN u
  BY <1>1 DEF Child
<1>3. v[c] = c
  <2>1. u[c].left = 0
    BY <1>2
  <2>. QED  BY <1>2, <2>1, WalkStep
<1>4. v[n] = c
  BY <1>2, <1>3, WalkStep
<1>5. w[n] = n
  BY WalkStep
<1>6. \A m \in DOMAIN t : m \in DOMAIN u
  BY <1>1
<1>7. \A m \in DOMAIN t \ {n} : Child(u, m, pt) = Child(t, m, pt)
  BY DEF Child
<1>8. \A m \in DOMAIN t \ {n} : t[m].left = 0 => v[m] = m /\ w[m] = m
  <2>1. \A m \in DOMAIN t \ {n} : t[m].left = 0 => v[m] = m
    <3>. TAKE m \in DOMAIN t \ {n}
    <3>. HAVE t[m].left = 0
    <3>1. u[m].left = 0 /\ m \in DOMAIN u
      BY <1>6
    <3>. QED  BY ZenonT(60), <3>1, WalkStep
  <2>2. \A m \in DOMAIN t \ {n} : t[m].left = 0 => w[m] = m
    BY SMTT(60), WalkStep
  <2>. QED  BY <2>1, <2>2
<1>9. \A m \in DOMAIN t \ {n} : t[m].left # 0 =>
        /\ v[m] = v[Child(t, m, pt)] /\ w[m] = w[Child(t, m, pt)]
        /\ Child(t, m, pt) \in DOMAIN t /\ Child(t, m, pt) > m
  <2>. TAKE m \in DOMAIN t \ {n}
  <2>. HAVE t[m].left # 0
  <2>1. v[m] = v[Child(u, m, pt)]
    BY <1>6, WalkStep
  <2>2. w[m] = w[Child(t, m, pt)]
    BY WalkStep
  <2>. QED  BY <1>7, <2>1, <2>2, ChildType
<1>. HIDE DEF L, w, v, c
<1>10. \A m \in DOMAIN t \ {n} : t[m].left = 0 => Good(m)
  BY <1>8
<1>11. \A m \in DOMAIN t \ {n} : t[m].left # 0 =>
         /\ Child(t, m, pt) \in DOMAIN t /\ Child(t, m, pt) > m
         /\ Good(Child(t, m, pt)) => Good(m)
  BY <1>9
<1>12. Good(n)
  BY <1>4, <1>5
<1>. HIDE DEF Good
<1>13. 0 \in T
  <2>1. \A m \in 1 .. L : ~ (m > L - 0)
    BY <1>1
  <2>. QED  BY <1>1, <2>1
<1>14. ASSUME NEW k \in Nat, k \in T PROVE k + 1 \in T
  <2>. SUFFICES ASSUME NEW m \in DOMAIN t, m > L - (k + 1) PROVE Good(m)
    OBVIOUS
  <2>1. CASE m # n /\ t[m].left # 0
    <3>1. Child(t, m, pt) \in 1 .. L /\ Child(t, m, pt) > m
      BY <1>1, <1>11, <2>1
    <3>2. m \in 1 .. L
      BY <1>1
    <3>3. Child(t, m, pt) > L - k
      BY <1>1, <3>1, <3>2
    <3>. QED  BY <1>11, <1>14, <2>1, <3>1, <3>3
  <2>. QED  BY <1>10, <1>12, <2>1
<1>. HIDE DEF T
<1>15. L \in T
  BY <1>1, <1>13, <1>14, SetInduction
<1>16. \A m \in 1 .. L : m > L - L
  BY <1>1
<1>. QED  BY <1>1, <1>4, <1>15, <1>16 DEF T, Good, c, v, w
\* A walk depends on how nodes are split, not on what the leaves hold.
LEMMA WalkSameShape ==
  ASSUME NEW t, NEW u, DOMAIN u = DOMAIN t,
         \A n \in DOMAIN t : /\ u[n].left = t[n].left /\ u[n].right = t[n].right
                             /\ u[n].dim = t[n].dim /\ u[n].pos = t[n].pos,
         NEW pt
  PROVE  WalkIn(u, pt) = WalkIn(t, pt)
<1>. DEFINE F(w) == [n \in DOMAIN t |-> IF t[n].left = 0 THEN n ELSE w[Child(t, n, pt)]]
            G(w) == [n \in DOMAIN u |-> IF u[n].left = 0 THEN n ELSE w[Child(u, n, pt)]]
<1>1. \A n \in DOMAIN t : Child(u, n, pt) = Child(t, n, pt)
  BY DEF Child
<1>2. \A w : F(w) = G(w)
  BY <1>1
<1>3. WalkIn(t, pt) = CHOOSE w : w = F(w)
  BY DEF WalkIn
<1>4. WalkIn(u, pt) = CHOOSE w : w = G(w)
  BY DEF WalkIn
<1>. HIDE DEF F, G
<1>5. (CHOOSE w : w = F(w)) = (CHOOSE w : w = G(w))
  BY <1>2
<1>. QED  BY <1>3, <1>4, <1>5
-----------------------------------------------------------------------------
(* The invariant.                                                            *)

\* The call in progress is at a node of the walk for its point.
OnPath == ~Idle => WalkIn(node, call.pt)[call.at] = Walk(call.pt)

PInv == TypeOK /\ Findable /\ BoxIsHull /\ OnPath

LEMMA TypeTree == TypeOK => Tree(node)
BY DEF TypeOK, Tree, IsLeaf, Nodes

\* What TypeOK says, for use where its definition would be too much.
LEMMA TypeFacts ==
  ASSUME TypeOK
  PROVE  /\ points \in Seq(Point) /\ userdata \in Seq(Data)
         /\ Len(userdata) = Len(points) /\ Len(points) \in Nat
         /\ DOMAIN points = 1 .. Len(points)
         /\ node \in Seq(NodeType) /\ Len(node) \in Nat
         /\ DOMAIN node = 1 .. Len(node) /\ Top \in DOMAIN node
         /\ \A n \in DOMAIN node : /\ node[n].indices \subseteq 1 .. Len(points)
                                   /\ node[n] \in NodeType
         /\ \A i \in DOMAIN points : points[i] \in Point
BY DEF TypeOK, Nodes, Indices

\* Indices of a leaf are finitely many.
LEMMA FiniteLeaf ==
  ASSUME TypeOK, NEW n \in DOMAIN node
  PROVE  /\ IsFiniteSet(node[n].indices)
         /\ Cardinality(node[n].indices) \in Nat
<1>1. node[n].indices \subseteq 1 .. Len(points) /\ Len(points) \in Nat
  BY TypeFacts
<1>2. IsFiniteSet(1 .. Len(points))
  <2>1. 1 \in Int /\ Len(points) \in Int
    BY <1>1
  <2>. QED  BY <2>1, FS_Interval
<1>3. IsFiniteSet(node[n].indices)
  BY <1>1, <1>2, FS_Subset
<1>. QED  BY <1>3, FS_CardinalityType

\* dimeBox::grow() makes the box around some points that around one more.
LEMMA GrownIsHull ==
  ASSUME NEW b, NEW s, s \subseteq Point, IsHull(b, s), NEW pt \in Point
  PROVE  IsHull(Grown(b, pt), s \cup {pt})
<1>1. \A p \in s \cup {pt} : \A d \in Dims : /\ p[d] \in Int
                                             /\ -Far < p[d] /\ p[d] < Far
  BY PointTreeAssumption
<1>2. Far \in Int /\ -Far \in Int
  BY PointTreeAssumption
<1>. DEFINE g == Grown(b, pt)
<1>3. \A d \in Dims : /\ g.min[d] = IF b.min[d] > pt[d] THEN pt[d] ELSE b.min[d]
                      /\ g.max[d] = IF b.max[d] < pt[d] THEN pt[d] ELSE b.max[d]
  BY DEF Grown
<1>. HIDE DEF g
<1>4. CASE s = {}
  <2>1. \A d \in Dims : b.min[d] = Far /\ b.max[d] = -Far
    BY <1>4 DEF IsHull, EmptyBox
  <2>2. \A d \in Dims : g.min[d] = pt[d] /\ g.max[d] = pt[d]
    BY <1>1, <1>2, <1>3, <2>1
  <2>3. s \cup {pt} = {pt}
    BY <1>4
  <2>4. IsHull(g, {pt})
    BY <1>1, <2>2 DEF IsHull
  <2>. QED  BY <2>3, <2>4 DEF g
<1>5. CASE s # {}
  <2>. DEFINE S == s \cup {pt}
  <2>1. \A d \in Dims : /\ b.min[d] \in {p[d] : p \in s}
                        /\ b.max[d] \in {p[d] : p \in s}
                        /\ \A p \in s : b.min[d] <= p[d] /\ p[d] <= b.max[d]
    BY <1>5 DEF IsHull
  <2>2. ASSUME NEW d \in Dims
        PROVE  /\ g.min[d] \in {p[d] : p \in S}
               /\ g.max[d] \in {p[d] : p \in S}
               /\ \A p \in S : g.min[d] <= p[d] /\ p[d] <= g.max[d]
    <3>1. b.min[d] \in Int /\ b.max[d] \in Int /\ pt[d] \in Int
      BY <1>1, <2>1
    <3>2. \A p \in s : p[d] \in Int /\ b.min[d] <= p[d] /\ p[d] <= b.max[d]
      BY <1>1, <2>1
    <3>3. /\ g.min[d] \in {p[d] : p \in S}
          /\ g.max[d] \in {p[d] : p \in S}
      BY <1>3, <2>1
    <3>4. \A p \in s : g.min[d] <= p[d] /\ p[d] <= g.max[d]
      BY <1>3, <3>1, <3>2
    <3>5. g.min[d] <= pt[d] /\ pt[d] <= g.max[d]
      BY <1>3, <3>1
    <3>. QED  BY <3>3, <3>4, <3>5
  <2>3. IsHull(g, S)
    BY <2>2 DEF IsHull
  <2>. QED  BY <2>3 DEF g
<1>. QED  BY <1>4, <1>5

LEMMA InitInv == Init => PInv
<1>. SUFFICES ASSUME Init PROVE PInv
  OBVIOUS
<1>1. Leaf({}) \in NodeType /\ Leaf({}).left = 0 /\ Leaf({}).indices = {}
  BY DEF Leaf, NodeType
<1>2. /\ node \in Seq(NodeType) /\ Len(node) = 1 /\ node[1] = Leaf({})
      /\ DOMAIN node = {1}
  BY <1>1 DEF Init
<1>3. points = << >> /\ userdata = << >> /\ call = << >> /\ last = << >>
      /\ box = EmptyBox
  BY DEF Init
<1>4. TypeOK
  BY <1>1, <1>2, <1>3 DEF TypeOK, Nodes, Top, IsLeaf
<1>5. Findable
  <2>1. Cardinality({}) = 0
    BY FS_EmptySet
  <2>2. \A n \in Nodes : node[n].indices = {}
    BY <1>1, <1>2 DEF Nodes
  <2>3. 0 <= MaxNodePts
    BY PointTreeAssumption
  <2>. QED  BY <2>1, <2>2, <2>3 DEF Findable
<1>6. Added = {}
  BY <1>3 DEF Added, Idle, Indices
<1>7. BoxIsHull
  BY <1>3, <1>6 DEF BoxIsHull, IsHull
<1>8. OnPath
  BY <1>3 DEF OnPath, Idle
<1>. QED  BY <1>4, <1>5, <1>7, <1>8 DEF PInv

\* The tree and the points stay, and so what can be found.
LEMMA SameTree ==
  ASSUME Findable, UNCHANGED <<points, node>>
  PROVE  Findable'
BY DEF Findable, Nodes, Walk

\* A call begins at the top, where every walk does.
LEMMA BeginInv ==
  ASSUME PInv, NEW op \in {"add", "find", "remove"}, NEW pt \in Point, NEW d \in Data,
         Begin(op, pt, d),
         IF op = "add" THEN box' = Grown(box, pt) ELSE box' = box
  PROVE  PInv'
<1>1. /\ Idle /\ call' = [op |-> op, pt |-> pt, data |-> d, at |-> Top]
      /\ last' = << >> /\ points' = points /\ userdata' = userdata /\ node' = node
  BY DEF Begin
<1>2. call' # << >> /\ call' \in CallType /\ ~Idle'
  BY <1>1 DEF CallType, Top, Idle
<1>3. TypeOK'
  BY <1>1, <1>2 DEF PInv, TypeOK, Nodes, Indices, IsLeaf
<1>4. Findable'
  BY <1>1, SameTree DEF PInv
<1>5. OnPath'
  BY <1>1 DEF OnPath, Walk
<1>6. Added \subseteq Point
  BY <1>1, TypeFacts DEF PInv, Added, Indices
<1>7. Added' = IF op = "add" THEN Added \cup {pt} ELSE Added
  BY <1>1, <1>2 DEF Added, Indices
<1>8. BoxIsHull'
  <2>1. CASE op = "add"
    BY <1>6, <1>7, <2>1, GrownIsHull DEF PInv, BoxIsHull
  <2>2. CASE op # "add"
    BY <1>7, <2>2 DEF PInv, BoxIsHull
  <2>. QED  BY <2>1, <2>2
<1>. QED  BY <1>3, <1>4, <1>5, <1>8 DEF PInv

LEMMA SetUserDataInv ==
  ASSUME PInv, NEW i \in DOMAIN userdata, NEW d \in Data, SetUserData(i, d)
  PROVE  PInv'
<1>1. /\ userdata' = [userdata EXCEPT ![i] = d]
      /\ UNCHANGED <<points, node, box, call, last>>
  BY DEF SetUserData
<1>2. userdata' \in Seq(Data) /\ Len(userdata') = Len(userdata)
  BY <1>1, TypeFacts DEF PInv
<1>3. TypeOK'
  BY <1>1, <1>2 DEF PInv, TypeOK, Nodes, Indices, IsLeaf
<1>4. Findable'
  BY <1>1, SameTree DEF PInv
<1>5. OnPath' /\ BoxIsHull'
  BY <1>1 DEF PInv, OnPath, BoxIsHull, Added, Indices, Idle, Walk
<1>. QED  BY <1>3, <1>4, <1>5 DEF PInv

LEMMA ClearInv ==
  ASSUME PInv, Clear
  PROVE  PInv'
<1>1. Init'
  BY DEF Clear, Init, Idle
<1>. QED  BY <1>1, InitInv, PTL

\* A call that is under way is for a point, at a node.
LEMMA CallFacts ==
  ASSUME TypeOK, ~Idle
  PROVE  /\ call \in CallType /\ call.pt \in Point /\ call.data \in Data
         /\ call.at \in DOMAIN node
BY DEF TypeOK, Idle, CallType, Nodes

\* Going to the child the point belongs to stays on the walk.
LEMMA GoDownInv ==
  ASSUME PInv, GoDown
  PROVE  PInv'
<1>1. /\ ~Idle /\ node[call.at].left # 0
      /\ call' = [call EXCEPT !.at = Child(node, call.at, call.pt)]
      /\ UNCHANGED <<points, userdata, node, box, last>>
  BY DEF GoDown, IsLeaf
<1>2. /\ call \in CallType /\ call.pt \in Point /\ call.at \in DOMAIN node
      /\ Tree(node)
  BY <1>1, CallFacts, TypeTree DEF PInv
<1>3. Child(node, call.at, call.pt) \in DOMAIN node
  BY <1>1, <1>2, ChildType
<1>4. /\ call' \in CallType /\ call' # << >> /\ call'.pt = call.pt
      /\ call'.op = call.op /\ call'.at = Child(node, call.at, call.pt)
  <2>1. Child(node, call.at, call.pt) \in Nat
    BY <1>3, TypeFacts DEF PInv
  <2>. HIDE DEF Child
  <2>2. /\ call' \in CallType /\ call'.pt = call.pt /\ call'.op = call.op
        /\ call'.at = Child(node, call.at, call.pt)
    BY <1>1, <1>2, <2>1 DEF CallType
  <2>3. call' # << >>
    <3>1. call' = [op |-> call.op, pt |-> call.pt, data |-> call.data,
                   at |-> Child(node, call.at, call.pt)]
      BY <1>1, <1>2 DEF CallType
    <3>. QED  BY <3>1
  <2>. QED  BY <2>2, <2>3
<1>5. TypeOK'
  BY <1>1, <1>3, <1>4 DEF PInv, TypeOK, Nodes, Indices, IsLeaf
<1>6. Findable'
  BY <1>1, SameTree DEF PInv
<1>7. OnPath'
  <2>1. WalkIn(node, call.pt)[call.at]
          = WalkIn(node, call.pt)[Child(node, call.at, call.pt)]
    BY <1>1, <1>2, WalkStep
  <2>. QED  BY <1>1, <1>4, <2>1 DEF PInv, OnPath, Walk
<1>8. BoxIsHull'
  <2>1. Added' = Added
    BY <1>1, <1>4 DEF Added, Indices, Idle
  <2>. QED  BY <1>1, <2>1 DEF PInv, BoxIsHull
<1>. QED  BY <1>5, <1>6, <1>7, <1>8 DEF PInv

\* What the end of a call leaves behind.
LEMMA ReturnFacts ==
  ASSUME TypeOK, ~Idle, NEW i \in Nat, Return(i)
  PROVE  /\ call' = << >>
         /\ last' \in [op : {"add", "find", "remove"}, pt : Point, ret : Nat]
BY CallFacts DEF Return, CallType

\* A call that changes neither tree nor points returns: what was found, for
\* add, is among the points already.
LEMMA StayInv ==
  ASSUME PInv, ~Idle, NEW i \in Nat, Return(i),
         UNCHANGED <<points, userdata, node, box>>,
         call.op = "add" => i \in Here
  PROVE  PInv'
<1>1. /\ call' = << >>
      /\ last' \in [op : {"add", "find", "remove"}, pt : Point, ret : Nat]
  BY ReturnFacts DEF PInv
<1>2. TypeOK'
  BY <1>1 DEF PInv, TypeOK, Nodes, Indices, IsLeaf
<1>3. Findable'
  BY SameTree DEF PInv
<1>4. OnPath'
  BY <1>1 DEF OnPath, Idle
<1>5. Added' = Added
  <2>1. \A j \in Here : j \in Indices /\ points[j] = call.pt
    BY CallFacts, TypeFacts DEF PInv, Here, Indices
  <2>. QED  BY <1>1, <2>1 DEF Added, Idle, Indices
<1>6. BoxIsHull'
  BY <1>5 DEF PInv, BoxIsHull
<1>. QED  BY <1>2, <1>3, <1>4, <1>6 DEF PInv

\* The indices found here are numbers of points.
LEMMA HereFacts ==
  ASSUME PInv, ~Idle, IsLeaf(call.at)
  PROVE  /\ Here \subseteq node[call.at].indices
         /\ \A i \in Here : i \in 1 .. Len(points) /\ i \in Nat /\ points[i] = call.pt
         /\ Walk(call.pt) = call.at
<1>1. call.at \in DOMAIN node /\ Tree(node) /\ node[call.at].left = 0
  BY CallFacts, TypeTree DEF PInv, IsLeaf
<1>2. Walk(call.pt) = call.at
  BY <1>1, WalkStep DEF PInv, OnPath
<1>3. \A i \in node[call.at].indices : i \in 1 .. Len(points) /\ i \in Nat
  BY <1>1, TypeFacts DEF PInv
<1>. QED  BY <1>2, <1>3 DEF Here

\* Other indices in one node leave the shape of the tree, and its walks.
LEMMA OtherIndices ==
  ASSUME TypeOK, NEW n \in DOMAIN node, NEW s, s \subseteq Nat,
         node' = [node EXCEPT ![n].indices = s]
  PROVE  /\ node' \in Seq(NodeType) /\ Len(node') = Len(node)
         /\ DOMAIN node' = DOMAIN node
         /\ node'[n].indices = s
         /\ \A m \in DOMAIN node : m # n => node'[m] = node[m]
         /\ \A m \in DOMAIN node : /\ node'[m].left = node[m].left
                                   /\ node'[m].right = node[m].right
                                   /\ node'[m].dim = node[m].dim
         /\ \A pt : WalkIn(node', pt) = WalkIn(node, pt)
<1>1. node \in Seq(NodeType) /\ node[n] \in NodeType
  BY TypeFacts
<1>2. [node[n] EXCEPT !.indices = s] \in NodeType
  BY <1>1 DEF NodeType
<1>3. node' = [node EXCEPT ![n] = [node[n] EXCEPT !.indices = s]]
  OBVIOUS
<1>4. /\ node' \in Seq(NodeType) /\ Len(node') = Len(node)
      /\ DOMAIN node' = DOMAIN node
      /\ node'[n] = [node[n] EXCEPT !.indices = s]
      /\ \A m \in DOMAIN node : m # n => node'[m] = node[m]
  BY <1>1, <1>2, <1>3
<1>5. /\ node'[n].indices = s
      /\ node'[n].left = node[n].left /\ node'[n].right = node[n].right
      /\ node'[n].dim = node[n].dim /\ node'[n].pos = node[n].pos
  BY <1>1, <1>4 DEF NodeType
<1>6. \A m \in DOMAIN node : /\ node'[m].left = node[m].left
                             /\ node'[m].right = node[m].right
                             /\ node'[m].dim = node[m].dim
                             /\ node'[m].pos = node[m].pos
  BY <1>4, <1>5
<1>7. ASSUME NEW pt PROVE WalkIn(node', pt) = WalkIn(node, pt)
  <2>. DEFINE u == node'
  <2>1. /\ DOMAIN u = DOMAIN node
        /\ \A m \in DOMAIN node : /\ u[m].left = node[m].left
                                  /\ u[m].right = node[m].right
                                  /\ u[m].dim = node[m].dim
                                  /\ u[m].pos = node[m].pos
    BY <1>4, <1>6
  <2>. HIDE DEF u
  <2>2. WalkIn(u, pt) = WalkIn(node, pt)
    BY <2>1, WalkSameShape
  <2>. QED  BY <2>2 DEF u
<1>. QED  BY <1>4, <1>5, <1>6, <1>7

\* A point is added to the leaf its walk leads to, which has a place left.
LEMMA AddHereInv ==
  ASSUME PInv, AddHere
  PROVE  PInv'
<1>. DEFINE at == call.at
            new == Len(points) + 1
            s == node[at].indices \cup {new}
<1>1. /\ ~Idle /\ call.op = "add" /\ IsLeaf(at) /\ ~Full(at)
      /\ points' = Append(points, call.pt)
      /\ userdata' = Append(userdata, call.data)
      /\ node' = [node EXCEPT ![at].indices = @ \cup {Len(points')}]
      /\ Return(Len(points')) /\ box' = box
  BY DEF AddHere, Arrived
<1>2. /\ points \in Seq(Point) /\ userdata \in Seq(Data) /\ Len(points) \in Nat
      /\ Len(userdata) = Len(points) /\ call.pt \in Point /\ call.data \in Data
      /\ at \in DOMAIN node /\ new \in Nat
      /\ node[at].indices \subseteq 1 .. Len(points)
  BY <1>1, CallFacts, TypeFacts DEF PInv
<1>3. /\ points' \in Seq(Point) /\ Len(points') = new /\ points'[new] = call.pt
      /\ \A i \in 1 .. Len(points) : points'[i] = points[i]
      /\ userdata' \in Seq(Data) /\ Len(userdata') = new
  BY <1>1, <1>2
<1>4. node' = [node EXCEPT ![at].indices = s] /\ s \subseteq Nat
  BY <1>1, <1>2, <1>3
<1>. HIDE DEF s
<1>5. /\ node' \in Seq(NodeType) /\ Len(node') = Len(node)
      /\ DOMAIN node' = DOMAIN node
      /\ node'[at].indices = s
      /\ \A m \in DOMAIN node : m # at => node'[m] = node[m]
      /\ \A m \in DOMAIN node : /\ node'[m].left = node[m].left
                                /\ node'[m].right = node[m].right
                                /\ node'[m].dim = node[m].dim
      /\ \A pt : WalkIn(node', pt) = WalkIn(node, pt)
  BY <1>2, <1>4, OtherIndices DEF PInv
<1>6. /\ call' = << >>
      /\ last' \in [op : {"add", "find", "remove"}, pt : Point, ret : Nat]
  BY <1>1, <1>2, <1>3, ReturnFacts DEF PInv
<1>7. TypeOK'
  <2>1. \A m \in DOMAIN node' : node'[m].indices \subseteq 1 .. new
    <3>1. s \subseteq 1 .. new
      BY <1>2 DEF s
    <3>2. \A m \in DOMAIN node : node[m].indices \subseteq 1 .. new
      BY <1>2, TypeFacts DEF PInv
    <3>. QED  BY <1>5, <3>1, <3>2
  <2>2. DOMAIN points' = 1 .. new
    BY <1>3
  <2>. QED  BY <1>3, <1>5, <1>6, <2>1, <2>2 DEF PInv, TypeOK, Nodes, Indices, IsLeaf
<1>8. Findable'
  <2>1. Walk(call.pt) = at
    BY <1>1, HereFacts DEF PInv
  <2>2. \A n \in DOMAIN node : \A i \in node[n].indices :
          i \in 1 .. Len(points) /\ WalkIn(node, points[i])[Top] = n
    BY TypeFacts DEF PInv, Findable, Nodes, Walk
  <2>3. \A n \in DOMAIN node : \A i \in node'[n].indices :
          WalkIn(node', points'[i])[Top] = n
    <3>. SUFFICES ASSUME NEW n \in DOMAIN node, NEW i \in node'[n].indices
                  PROVE  WalkIn(node, points'[i])[Top] = n
      BY <1>5
    <3>1. CASE n = at /\ i = new
      BY <3>1, <1>3, <2>1 DEF Walk
    <3>2. CASE ~(n = at /\ i = new)
      <4>1. i \in node[n].indices
        BY <3>2, <1>5 DEF s
      <4>2. i \in 1 .. Len(points) /\ WalkIn(node, points[i])[Top] = n
        BY <2>2, <4>1
      <4>3. points'[i] = points[i]
        BY <1>3, <4>2
      <4>. QED  BY <4>2, <4>3
    <3>. QED  BY <3>1, <3>2
  <2>4. Cardinality(s) <= MaxNodePts
    <3>1. IsFiniteSet(node[at].indices) /\ Cardinality(node[at].indices) \in Nat
      BY <1>2, FiniteLeaf DEF PInv
    <3>2. Cardinality(s) <= Cardinality(node[at].indices) + 1
      <4>1. Cardinality(s) = IF new \in node[at].indices
                             THEN Cardinality(node[at].indices)
                             ELSE Cardinality(node[at].indices) + 1
        BY <3>1, FS_AddElement DEF s
      <4>. QED  BY <3>1, <4>1
    <3>3. Cardinality(node[at].indices) < MaxNodePts
      BY <1>1, <3>1, PointTreeAssumption DEF Full
    <3>4. Cardinality(s) \in Nat
      BY <3>1, FS_AddElement, FS_CardinalityType DEF s
    <3>. QED  BY <3>1, <3>2, <3>3, <3>4, PointTreeAssumption
  <2>5. \A n \in DOMAIN node : Cardinality(node'[n].indices) <= MaxNodePts
    BY <1>5, <2>4 DEF PInv, Findable, Nodes
  <2>. QED  BY <1>5, <2>3, <2>5 DEF Findable, Nodes, Walk
<1>9. OnPath'
  BY <1>6 DEF OnPath, Idle
<1>10. BoxIsHull'
  <2>1. DOMAIN points = 1 .. Len(points) /\ DOMAIN points' = 1 .. new
    BY <1>2, <1>3
  <2>2. Added = {points[i] : i \in 1 .. Len(points)} \cup {call.pt}
    BY <1>1, <2>1 DEF Added, Indices
  <2>3. Added' = {points'[i] : i \in 1 .. new}
    BY <1>6, <2>1 DEF Added, Indices, Idle
  <2>4. 1 .. new = 1 .. Len(points) \cup {new}
    BY <1>2
  <2>5. Added' = Added
    BY <1>3, <2>2, <2>3, <2>4
  <2>. QED  BY <1>1, <2>5 DEF PInv, BoxIsHull
<1>. QED  BY <1>7, <1>8, <1>9, <1>10 DEF PInv

\* Removing takes an index out of its leaf and moves nothing else.
LEMMA RemoveOneInv ==
  ASSUME PInv, ~Idle, call.op = "remove", IsLeaf(call.at), NEW i \in Here, Return(i),
         node' = [node EXCEPT ![call.at].indices = @ \ {i}],
         UNCHANGED <<points, userdata, box>>
  PROVE  PInv'
<1>. DEFINE at == call.at
            s == node[at].indices \ {i}
<1>1. /\ at \in DOMAIN node /\ i \in Nat
      /\ node[at].indices \subseteq 1 .. Len(points)
  BY CallFacts, TypeFacts, HereFacts DEF PInv
<1>2. node' = [node EXCEPT ![at].indices = s] /\ s \subseteq Nat
  BY <1>1
<1>. HIDE DEF s
<1>3. /\ node' \in Seq(NodeType) /\ Len(node') = Len(node)
      /\ DOMAIN node' = DOMAIN node
      /\ node'[at].indices = s
      /\ \A m \in DOMAIN node : m # at => node'[m] = node[m]
      /\ \A m \in DOMAIN node : /\ node'[m].left = node[m].left
                                /\ node'[m].right = node[m].right
                                /\ node'[m].dim = node[m].dim
      /\ \A pt : WalkIn(node', pt) = WalkIn(node, pt)
  BY <1>1, <1>2, OtherIndices DEF PInv
<1>4. \A m \in DOMAIN node : node'[m].indices \subseteq node[m].indices
  BY <1>3 DEF s
<1>5. /\ call' = << >>
      /\ last' \in [op : {"add", "find", "remove"}, pt : Point, ret : Nat]
  BY <1>1, ReturnFacts DEF PInv
<1>6. TypeOK'
  <2>1. \A m \in DOMAIN node : node'[m].indices \subseteq Indices
    BY <1>4 DEF PInv, TypeOK, Nodes
  <2>. QED  BY <1>3, <1>5, <2>1 DEF PInv, TypeOK, Nodes, Indices, IsLeaf
<1>7. Findable'
  <2>1. ASSUME NEW m \in DOMAIN node
        PROVE  /\ \A j \in node'[m].indices : WalkIn(node', points'[j])[Top] = m
               /\ Cardinality(node'[m].indices) <= MaxNodePts
    <3>1. IsFiniteSet(node[m].indices) /\ Cardinality(node[m].indices) \in Nat
      BY FiniteLeaf DEF PInv
    <3>2. Cardinality(node'[m].indices) <= Cardinality(node[m].indices)
          /\ Cardinality(node'[m].indices) \in Nat
      BY <1>4, <3>1, FS_Subset, FS_CardinalityType
    <3>3. Cardinality(node[m].indices) <= MaxNodePts
      BY DEF PInv, Findable, Nodes
    <3>4. \A j \in node[m].indices : WalkIn(node, points[j])[Top] = m
      BY DEF PInv, Findable, Nodes, Walk
    <3>5. \A j \in node'[m].indices : WalkIn(node', points'[j])[Top] = m
      <4>. TAKE j \in node'[m].indices
      <4>1. j \in node[m].indices
        BY <1>4
      <4>2. points'[j] = points[j]
        OBVIOUS
      <4>3. WalkIn(node', points[j]) = WalkIn(node, points[j])
        BY <1>3
      <4>. QED  BY <3>4, <4>1, <4>2, <4>3
    <3>6. Cardinality(node'[m].indices) <= MaxNodePts
      BY <3>1, <3>2, <3>3, PointTreeAssumption
    <3>. QED  BY <3>5, <3>6
  <2>. QED  BY <1>3, <2>1 DEF Findable, Nodes, Walk
<1>8. OnPath'
  BY <1>5 DEF OnPath, Idle
<1>9. BoxIsHull'
  <2>1. Added' = Added
    BY <1>5 DEF Added, Indices, Idle
  <2>. QED  BY <2>1 DEF PInv, BoxIsHull
<1>. QED  BY <1>6, <1>7, <1>8, <1>9 DEF PInv

\* The least and the greatest coordinate of some points.
LEMMA LowHighType ==
  ASSUME TypeOK, NEW s, s \subseteq 1 .. Len(points), s # {}, NEW d \in Dims
  PROVE  Low(s, d) \in Int /\ High(s, d) \in Int
<1>. DEFINE C == {points[i][d] : i \in s}
<1>1. /\ C \subseteq Int /\ C # {} /\ Far \in Int /\ -Far \in Int
      /\ \A x \in C : -Far <= x /\ x <= Far
  <2>1. \A i \in s : points[i] \in Point
    BY TypeFacts
  <2>2. \A i \in s : points[i][d] \in Int /\ -Far < points[i][d] /\ points[i][d] < Far
    BY <2>1, PointTreeAssumption
  <2>3. Far \in Int /\ -Far \in Int
    BY PointTreeAssumption
  <2>4. \A i \in s : -Far <= points[i][d] /\ points[i][d] <= Far
    BY <2>2, <2>3
  <2>. QED  BY <2>2, <2>3, <2>4
<1>2. Low(s, d) \in C
  <2>. HIDE DEF C
  <2>1. PICK x \in C : \A y \in C : x <= y
    BY <1>1, IntMin
  <2>2. \A i \in s : x <= points[i][d]
    BY <2>1 DEF C
  <2>3. \E y \in C : \A i \in s : y <= points[i][d]
    BY <2>2
  <2>4. Low(s, d) = CHOOSE y \in C : \A i \in s : y <= points[i][d]
    BY DEF Low, C
  <2>. QED  BY <2>3, <2>4
<1>3. High(s, d) \in C
  <2>. HIDE DEF C
  <2>1. PICK x \in C : \A y \in C : x >= y
    BY <1>1, IntMax
  <2>2. \A i \in s : x >= points[i][d]
    BY <2>1 DEF C
  <2>3. \E y \in C : \A i \in s : y >= points[i][d]
    BY <2>2
  <2>4. High(s, d) = CHOOSE y \in C : \A i \in s : y >= points[i][d]
    BY DEF High, C
  <2>. QED  BY <2>3, <2>4
<1>. QED  BY <1>1, <1>2, <1>3

\* The leaf at the end of the walk is split: what it holds goes to the side
\* its walk now goes to.
LEMMA SplitInv ==
  ASSUME PInv, Split
  PROVE  PInv'
<1>. DEFINE L == Len(node)
            n == call.at
            s == node[n].indices
            dim == LongestDim(s)
            pos == Middle(s, dim)
            a == {i \in s : Before(dim, pos, points[i])}
            b == s \ a
            r == [left |-> L + 1, right |-> L + 2, dim |-> dim, pos |-> pos,
                  indices |-> {}]
            old == [node EXCEPT ![n] = r]
            u == old \o <<Leaf(a), Leaf(b)>>
<1>1. /\ ~Idle /\ IsLeaf(n) /\ Full(n) /\ node' = u
      /\ UNCHANGED <<points, userdata, box, call, last>>
  BY DEF Split, Sides
<1>2. /\ node \in Seq(NodeType) /\ L \in Nat /\ DOMAIN node = 1 .. L
      /\ n \in 1 .. L /\ node[n].left = 0 /\ Top \in 1 .. L
      /\ s \subseteq 1 .. Len(points) /\ Len(points) \in Nat
      /\ Tree(node)
  BY <1>1, CallFacts, TypeFacts, TypeTree DEF PInv, IsLeaf
<1>3. s # {}
  <2>1. CASE s = {}
    <3>1. Cardinality(s) = 0
      BY <2>1, FS_EmptySet
    <3>. QED  BY <1>1, <3>1, PointTreeAssumption DEF Full
  <2>. QED  BY <2>1
<1>4. dim \in Dims
  BY DEF LongestDim, Dims
<1>5. pos \in Int
  <2>. HIDE DEF dim, s
  <2>1. TypeOK
    BY DEF PInv
  <2>2. Low(s, dim) \in Int /\ High(s, dim) \in Int
    BY <1>2, <1>3, <1>4, <2>1, LowHighType
  <2>. QED  BY <2>2 DEF Middle
<1>6. a \subseteq s /\ b \subseteq s
  OBVIOUS
<1>. HIDE DEF s, dim, pos
<1>7. r \in NodeType
  BY <1>2, <1>4, <1>5 DEF NodeType
<1>8. /\ Leaf(a) \in NodeType /\ Leaf(a).left = 0 /\ Leaf(a).indices = a
      /\ Leaf(b) \in NodeType /\ Leaf(b).left = 0 /\ Leaf(b).indices = b
  <2>. HIDE DEF a, b
  <2>1. \A x \in 1 .. Len(points) : x \in Nat
    BY <1>2
  <2>2. a \subseteq Nat /\ b \subseteq Nat
    BY <1>2, <1>6, <2>1
  <2>. QED  BY <2>2 DEF Leaf, NodeType
<1>9. /\ r.left = L + 1 /\ r.right = L + 2 /\ r.dim = dim /\ r.pos = pos
      /\ r.indices = {}
  OBVIOUS
<1>. HIDE DEF r
<1>10. /\ u \in Seq(NodeType) /\ Len(u) = L + 2 /\ DOMAIN u = 1 .. (L + 2)
       /\ u[n] = r /\ \A m \in 1 .. L : m # n => u[m] = node[m]
       /\ u[L + 1] = Leaf(a) /\ u[L + 2] = Leaf(b)
  <2>1. /\ old \in Seq(NodeType) /\ Len(old) = L /\ old[n] = r
        /\ \A m \in 1 .. L : m # n => old[m] = node[m]
    BY <1>2, <1>7
  <2>. DEFINE p == Leaf(a)
              q == Leaf(b)
  <2>2. p \in NodeType /\ q \in NodeType
    BY <1>8
  <2>. HIDE DEF p, q, old, L
  <2>3. /\ <<p, q>> \in Seq(NodeType) /\ Len(<<p, q>>) = 2
        /\ <<p, q>>[1] = p /\ <<p, q>>[2] = q
    BY <2>2
  <2>4. u = old \o <<p, q>>
    BY DEF p, q
  <2>. HIDE DEF u
  <2>5. /\ u \in Seq(NodeType) /\ Len(u) = L + 2
        /\ \A m \in 1 .. L + 2 :
             u[m] = IF m <= L THEN old[m] ELSE <<p, q>>[m - L]
    <3>. DEFINE z == <<p, q>>
    <3>1. z \in Seq(NodeType) /\ Len(z) = 2 /\ u = old \o z
      BY <2>3, <2>4
    <3>. HIDE DEF z
    <3>2. /\ u \in Seq(NodeType) /\ Len(u) = Len(old) + Len(z)
          /\ \A m \in 1 .. Len(old) + Len(z) :
               u[m] = IF m <= Len(old) THEN old[m] ELSE z[m - Len(old)]
      BY <2>1, <3>1, ConcatProperties
    <3>. QED  BY <2>1, <3>1, <3>2 DEF z
  <2>6. L + 1 \in 1 .. L + 2 /\ L + 2 \in 1 .. L + 2 /\ ~(L + 1 <= L) /\ ~(L + 2 <= L)
        /\ (L + 1) - L = 1 /\ (L + 2) - L = 2
    BY <1>2
  <2>7. \A m \in 1 .. L : m \in 1 .. L + 2 /\ m <= L
    BY <1>2
  <2>8. u[L + 1] = p /\ u[L + 2] = q
    BY <2>3, <2>5, <2>6
  <2>9. \A m \in 1 .. L : u[m] = old[m]
    BY <2>5, <2>7
  <2>10. DOMAIN u = 1 .. (L + 2)
    BY <2>5
  <2>. QED  BY <1>2, <2>1, <2>5, <2>8, <2>9, <2>10 DEF p, q
<1>. HIDE DEF u, a, b
<1>11. \A m \in 1 .. (L + 2) : m = n \/ (m \in 1 .. L /\ m # n) \/ m = L + 1 \/ m = L + 2
  BY <1>2
<1>12. Tree(u)
  <2>1. \A m \in 1 .. L : m # n /\ u[m].left # 0 =>
          /\ u[m].left \in 1 .. L /\ u[m].left > m
          /\ u[m].right \in 1 .. L /\ u[m].right > m
    BY <1>2, <1>10 DEF Tree
  <2>2. \A m \in 1 .. L : m # n /\ u[m].left # 0 =>
          /\ u[m].left \in 1 .. L + 2 /\ u[m].left > m
          /\ u[m].right \in 1 .. L + 2 /\ u[m].right > m
    BY <1>2, <2>1
  <2>3. /\ u[n].left \in 1 .. L + 2 /\ u[n].left > n
        /\ u[n].right \in 1 .. L + 2 /\ u[n].right > n
    BY <1>2, <1>9, <1>10
  <2>4. Top \in 1 .. L + 2
    BY <1>2
  <2>5. u[L + 1].left = 0 /\ u[L + 2].left = 0
    BY <1>8, <1>10
  <2>6. \A m \in 1 .. (L + 2) :
          u[m].left # 0 => /\ u[m].left \in 1 .. L + 2 /\ u[m].left > m
                           /\ u[m].right \in 1 .. L + 2 /\ u[m].right > m
    BY <1>11, <2>2, <2>3, <2>5
  <2>. QED  BY <1>10, <2>4, <2>6 DEF Tree
<1>13. TypeOK'
  <2>1. \A m \in 1 .. (L + 2) : u[m].indices \subseteq Indices
    <3>1. \A m \in 1 .. L : node[m].indices \subseteq Indices
      BY <1>2 DEF PInv, TypeOK, Nodes
    <3>2. a \subseteq Indices /\ b \subseteq Indices
      BY <1>2, <1>6, <3>1 DEF s
    <3>. QED  BY <1>8, <1>9, <1>10, <1>11, <3>1, <3>2
  <2>2. \A m \in 1 .. (L + 2) : u[m].left # 0 => u[m].dim \in Dims
    <3>1. \A m \in 1 .. L : node[m].left # 0 => node[m].dim \in Dims
      BY <1>2 DEF PInv, TypeOK, Nodes, IsLeaf
    <3>. QED  BY <1>4, <1>8, <1>9, <1>10, <1>11, <3>1
  <2>3. \A m \in 1 .. (L + 2) :
          u[m].left # 0 => /\ u[m].left \in 1 .. L + 2 /\ u[m].left > m
                           /\ u[m].right \in 1 .. L + 2 /\ u[m].right > m
    BY <1>10, <1>12 DEF Tree
  <2>4. n \in 1 .. L + 2 /\ Top \in 1 .. L + 2
    BY <1>2
  <2>5. /\ points \in Seq(Point) /\ userdata \in Seq(Data)
        /\ Len(userdata) = Len(points)
        /\ call # << >> => call \in CallType
        /\ last # << >> => last \in [op : {"add", "find", "remove"}, pt : Point, ret : Nat]
    BY DEF PInv, TypeOK
  <2>. QED  BY <1>1, <1>10, <2>1, <2>2, <2>3, <2>4, <2>5 DEF TypeOK, Nodes, Indices, IsLeaf
<1>14. ASSUME NEW pt
       PROVE  /\ WalkIn(u, pt)[n] = Child(u, n, pt)
              /\ \A m \in 1 .. L :
                   WalkIn(u, pt)[m] = IF WalkIn(node, pt)[m] = n THEN Child(u, n, pt)
                                      ELSE WalkIn(node, pt)[m]
  <2>1. /\ Len(u) = Len(node) + 2 /\ n \in DOMAIN node /\ node[n].left = 0
        /\ \A m \in DOMAIN node \ {n} : u[m] = node[m]
        /\ u[n].left = Len(node) + 1 /\ u[n].right = Len(node) + 2
        /\ u[Len(node) + 1].left = 0 /\ u[Len(node) + 2].left = 0
        /\ DOMAIN node = 1 .. L
    BY <1>2, <1>8, <1>9, <1>10
  <2>. HIDE DEF L, n
  <2>2. /\ WalkIn(u, pt)[n] = Child(u, n, pt)
        /\ \A m \in DOMAIN node :
             WalkIn(u, pt)[m] = IF WalkIn(node, pt)[m] = n THEN Child(u, n, pt)
                                ELSE WalkIn(node, pt)[m]
    BY SMTT(60), <1>2, <1>12, <2>1, WalkAfterSplit
  <2>. QED  BY <2>1, <2>2
<1>15. \A pt : Child(u, n, pt) = IF Before(dim, pos, pt) THEN L + 1 ELSE L + 2
  BY <1>9, <1>10 DEF Child
<1>16. Findable'
  <2>1. ASSUME NEW m \in 1 .. L, NEW i \in node[m].indices
        PROVE  /\ WalkIn(node, points[i])[Top] = m
               /\ WalkIn(u, points[i])[Top]
                    = IF m = n THEN Child(u, n, points[i]) ELSE m
    <3>1. WalkIn(node, points[i])[Top] = m
      BY <1>2 DEF PInv, Findable, Nodes, Walk
    <3>. QED  BY <1>2, <1>14, <3>1
  <2>2. \A m \in 1 .. L : m # n =>
          \A i \in u[m].indices : WalkIn(u, points[i])[Top] = m
    BY <1>10, <2>1
  <2>3. \A i \in u[n].indices : FALSE
    BY <1>9, <1>10
  <2>4. \A i \in a : WalkIn(u, points[i])[Top] = L + 1
    BY <1>2, <1>6, <1>15, <2>1 DEF a, s
  <2>5. \A i \in b : WalkIn(u, points[i])[Top] = L + 2
    BY <1>2, <1>6, <1>15, <2>1 DEF a, b, s
  <2>6. \A m \in 1 .. (L + 2) : \A i \in u[m].indices : WalkIn(u, points[i])[Top] = m
    BY <1>8, <1>10, <1>11, <2>2, <2>3, <2>4, <2>5
  <2>7. /\ IsFiniteSet(s) /\ Cardinality(s) \in Nat
        /\ \A m \in 1 .. L : Cardinality(node[m].indices) <= MaxNodePts
    BY <1>2, FiniteLeaf DEF PInv, Findable, Nodes, s
  <2>8. Cardinality(s) <= MaxNodePts
    BY <1>2, <2>7 DEF s
  <2>9. ASSUME NEW c, c \subseteq s PROVE Cardinality(c) <= MaxNodePts
    <3>1. Cardinality(c) <= Cardinality(s) /\ Cardinality(c) \in Nat
      BY <2>7, <2>9, FS_Subset, FS_CardinalityType
    <3>. QED  BY <2>7, <2>8, <3>1, PointTreeAssumption
  <2>10. \A m \in 1 .. (L + 2) : Cardinality(u[m].indices) <= MaxNodePts
    <3>1. Cardinality({}) <= MaxNodePts
      BY <2>9
    <3>2. Cardinality(a) <= MaxNodePts /\ Cardinality(b) <= MaxNodePts
      BY <1>6, <2>9
    <3>. QED  BY <1>8, <1>9, <1>10, <1>11, <2>7, <3>1, <3>2
  <2>. QED  BY <1>1, <1>10, <2>6, <2>10 DEF Findable, Nodes, Walk
<1>17. OnPath'
  <2>1. Walk(call.pt) = n
    BY <1>1, HereFacts DEF PInv
  <2>2. WalkIn(u, call.pt)[Top] = Child(u, n, call.pt)
    BY <1>2, <1>14, <2>1 DEF Walk
  <2>. QED  BY <1>1, <1>14, <2>2 DEF OnPath, Walk
<1>18. BoxIsHull'
  BY <1>1 DEF PInv, BoxIsHull, Added, Indices, Idle
<1>. QED  BY <1>13, <1>16, <1>17, <1>18 DEF PInv

LEMMA FoundAlreadyInv ==
  ASSUME PInv, FoundAlready
  PROVE  PInv'
<1>1. PICK i \in Here : Return(i)
  BY DEF FoundAlready
<1>2. ~Idle /\ IsLeaf(call.at) /\ UNCHANGED <<points, userdata, node, box>>
  BY DEF FoundAlready, Arrived
<1>3. i \in Nat
  BY <1>2, HereFacts
<1>. QED  BY <1>1, <1>2, <1>3, StayInv

LEMMA FindHereInv ==
  ASSUME PInv, FindHere
  PROVE  PInv'
<1>1. /\ ~Idle /\ call.op = "find" /\ IsLeaf(call.at)
      /\ UNCHANGED <<points, userdata, node, box>>
  BY DEF FindHere, Arrived
<1>2. \E i \in Nat : Return(i)
  BY <1>1, HereFacts DEF FindHere
<1>. QED  BY <1>1, <1>2, StayInv

LEMMA RemoveHereInv ==
  ASSUME PInv, RemoveHere
  PROVE  PInv'
<1>1. /\ ~Idle /\ call.op = "remove" /\ IsLeaf(call.at)
      /\ UNCHANGED <<points, userdata, box>>
  BY DEF RemoveHere, Arrived
<1>2. CASE Return(0) /\ UNCHANGED node
  BY <1>1, <1>2, StayInv
<1>3. CASE \E i \in Here : /\ Return(i)
                          /\ node' = [node EXCEPT ![call.at].indices = @ \ {i}]
  BY <1>1, <1>3, RemoveOneInv
<1>. QED  BY <1>2, <1>3 DEF RemoveHere

LEMMA NextInv == PInv /\ [Next]_vars => PInv'
<1>. SUFFICES ASSUME PInv, [Next]_vars PROVE PInv'
  OBVIOUS
<1>1. ASSUME NEW pt \in Point, NEW d \in Data, BeginAdd(pt, d) PROVE PInv'
  BY <1>1, BeginInv DEF BeginAdd
<1>2. ASSUME NEW pt \in Point, BeginFind(pt) PROVE PInv'
  BY <1>2, BeginInv, PointTreeAssumption DEF BeginFind
<1>3. ASSUME NEW pt \in Point, BeginRemove(pt) PROVE PInv'
  BY <1>3, BeginInv, PointTreeAssumption DEF BeginRemove
<1>4. ASSUME NEW i \in DOMAIN points, BeginRemoveAt(i) PROVE PInv'
  <2>1. points[i] \in Point
    BY TypeFacts DEF PInv
  <2>. QED  BY <1>3, <1>4, <2>1 DEF BeginRemoveAt
<1>5. ASSUME NEW i \in DOMAIN userdata, NEW d \in Data, SetUserData(i, d) PROVE PInv'
  BY <1>5, SetUserDataInv
<1>6. CASE Clear
  BY <1>6, ClearInv
<1>7. CASE GoDown
  BY <1>7, GoDownInv
<1>8. CASE Split
  BY <1>8, SplitInv
<1>9. CASE FoundAlready
  BY <1>9, FoundAlreadyInv
<1>10. CASE AddHere
  BY <1>10, AddHereInv
<1>11. CASE FindHere
  BY <1>11, FindHereInv
<1>12. CASE RemoveHere
  BY <1>12, RemoveHereInv
<1>13. CASE UNCHANGED vars
  <2>1. UNCHANGED <<points, userdata, node, box, call, last>>
    BY <1>13 DEF vars
  <2>2. TypeOK'
    BY <2>1 DEF PInv, TypeOK, Nodes, Indices, IsLeaf
  <2>3. Findable'
    BY <2>1, SameTree DEF PInv
  <2>. QED  BY <2>1, <2>2, <2>3 DEF PInv, OnPath, BoxIsHull, Added, Indices, Idle, Walk
<1>. QED  BY <1>1, <1>2, <1>3, <1>4, <1>5, <1>6, <1>7, <1>8, <1>9, <1>10, <1>11,
             <1>12, <1>13 DEF Next, Step

\* The invariant holds in every state: the tree is well formed, the call in
\* progress is on its way, and every point is found where its walk ends.
THEOREM TreeInvariant == Spec => []PInv
BY InitInv, NextInv, PTL DEF Spec

\* However leaves have been split since a point was added, the walk for it
\* ends in the one leaf that holds it, no leaf holds more than maxnodepts,
\* and getBBox() is the smallest box around every point added.
THEOREM TreeIsSound == Spec => []TreeSound
<1>1. PInv => TreeSound
  BY DEF PInv, TreeSound
<1>. QED  BY <1>1, TreeInvariant, PTL
-----------------------------------------------------------------------------
(* The tree is an index of points.                                           *)

\* At the end of a walk, what is here is all there is of the point.
LEMMA HereIsAll ==
  ASSUME PInv, ~Idle, IsLeaf(call.at)
  PROVE  Index!At(call.pt) = Here
<1>1. /\ Here \subseteq node[call.at].indices /\ Walk(call.pt) = call.at
      /\ \A i \in Here : points[i] = call.pt
      /\ call.at \in DOMAIN node
  BY HereFacts, CallFacts DEF PInv
<1>2. ASSUME NEW i \in live, points[i] = call.pt PROVE i \in Here
  <2>1. PICK n \in DOMAIN node : i \in node[n].indices
    BY DEF live
  <2>2. Walk(points[i]) = n
    BY <2>1 DEF PInv, Findable, Nodes
  <2>. QED  BY <1>1, <1>2, <2>1, <2>2 DEF Here
<1>3. \A i \in Here : i \in live
  BY <1>1 DEF live
<1>. QED  BY <1>1, <1>2, <1>3 DEF Index!At

\* An index is in one leaf only.
LEMMA OneLeaf ==
  ASSUME Findable, NEW n \in DOMAIN node, NEW m \in DOMAIN node,
         NEW i \in node[n].indices, i \in node[m].indices
  PROVE  m = n
BY DEF Findable, Nodes

LEMMA LiveSame ==
  ASSUME UNCHANGED node
  PROVE  live' = live
BY DEF live

\* Splitting moves indices, it adds and drops none.
LEMMA SplitLive ==
  ASSUME PInv, Split
  PROVE  live' = live
<1>. DEFINE L == Len(node)
            n == call.at
            s == node[n].indices
            dim == LongestDim(s)
            pos == Middle(s, dim)
            a == {i \in s : Before(dim, pos, points[i])}
            b == s \ a
            r == [left |-> L + 1, right |-> L + 2, dim |-> dim, pos |-> pos,
                  indices |-> {}]
            old == [node EXCEPT ![n] = r]
            z == <<Leaf(a), Leaf(b)>>
<1>1. ~Idle /\ node' = old \o z
  BY DEF Split, Sides
<1>2. /\ node \in Seq(NodeType) /\ L \in Nat /\ DOMAIN node = 1 .. L /\ n \in 1 .. L
  BY <1>1, CallFacts, TypeFacts DEF PInv
<1>3. a \cup b = s
  OBVIOUS
<1>4. Leaf(a).indices = a /\ Leaf(b).indices = b /\ r.indices = {}
  BY DEF Leaf
<1>. DEFINE A == NodeType \cup {r, Leaf(a), Leaf(b)}
<1>5. old \in Seq(A) /\ Len(old) = L /\ old[n] = r
      /\ \A m \in 1 .. L : m # n => old[m] = node[m]
  <2>1. r \in A /\ NodeType \subseteq A
    OBVIOUS
  <2>2. node \in Seq(A)
    BY <1>2, <2>1, SeqMonotonic
  <2>. HIDE DEF A, r, L
  <2>3. L = Len(node)
    BY DEF L
  <2>. QED  BY <1>2, <2>1, <2>2, <2>3
<1>6. z \in Seq(A) /\ Len(z) = 2 /\ z[1] = Leaf(a) /\ z[2] = Leaf(b)
  OBVIOUS
<1>. HIDE DEF old, z, A, r, L, s, dim, pos
<1>7. /\ Len(node') = L + 2 /\ DOMAIN node' = 1 .. (L + 2)
      /\ \A m \in 1 .. L + 2 : node'[m] = IF m <= L THEN old[m] ELSE z[m - L]
  <2>. DEFINE u == node'
  <2>1. u = old \o z
    BY <1>1
  <2>. HIDE DEF u
  <2>2. /\ u \in Seq(A) /\ Len(u) = Len(old) + Len(z)
        /\ \A m \in 1 .. Len(old) + Len(z) :
             u[m] = IF m <= Len(old) THEN old[m] ELSE z[m - Len(old)]
    BY <1>5, <1>6, <2>1, ConcatProperties
  <2>3. Len(u) = L + 2
    BY <1>5, <1>6, <2>2
  <2>4. DOMAIN u = 1 .. L + 2
    BY <2>2, <2>3
  <2>. QED  BY <1>5, <1>6, <2>2, <2>3, <2>4 DEF u
<1>8. \A m \in 1 .. L : node'[m] = old[m]
  BY <1>2, <1>7
<1>9. node'[L + 1] = Leaf(a) /\ node'[L + 2] = Leaf(b)
  <2>1. /\ L + 1 \in 1 .. L + 2 /\ L + 2 \in 1 .. L + 2
        /\ ~(L + 1 <= L) /\ ~(L + 2 <= L) /\ (L + 1) - L = 1 /\ (L + 2) - L = 2
    BY <1>2
  <2>. QED  BY <1>6, <1>7, <2>1
<1>10. \A m \in 1 .. L + 2 : m \in 1 .. L \/ m = L + 1 \/ m = L + 2
  BY <1>2
<1>. HIDE DEF a, b, n
<1>11. ASSUME NEW i \in live' PROVE i \in live
  <2>1. PICK m \in 1 .. L + 2 : i \in node'[m].indices
    BY <1>7 DEF live
  <2>2. CASE m \in 1 .. L
    BY <1>2, <1>4, <1>5, <1>8, <2>1, <2>2 DEF live
  <2>3. CASE m = L + 1 \/ m = L + 2
    BY <1>2, <1>3, <1>4, <1>9, <2>1, <2>3 DEF live, s
  <2>. QED  BY <1>10, <2>2, <2>3
<1>12. ASSUME NEW i \in live PROVE i \in live'
  <2>1. PICK m \in 1 .. L : i \in node[m].indices
    BY <1>2 DEF live
  <2>2. \A k \in 1 .. L + 2 : i \in node'[k].indices => i \in live'
    BY <1>7 DEF live
  <2>3. m \in 1 .. L + 2 /\ L + 1 \in 1 .. L + 2 /\ L + 2 \in 1 .. L + 2
    BY <1>2
  <2>4. CASE m # n
    BY <1>5, <1>8, <2>1, <2>2, <2>3, <2>4
  <2>5. CASE m = n
    BY <1>3, <1>4, <1>9, <2>1, <2>2, <2>3, <2>5 DEF s
  <2>. QED  BY <2>4, <2>5
<1>. QED  BY <1>11, <1>12

\* Every step is one of PointIndex, or one it does not see: a call that begins
\* forgets the last answer, a walk is not seen, and where it ends all there is
\* of the point is at hand.
LEMMA StepRefines == PInv /\ [Next]_vars => [Index!Next]_Index!ivars
<1>. SUFFICES ASSUME PInv, [Next]_vars PROVE [Index!Next]_Index!ivars
  OBVIOUS
<1>. USE DEF Index!Next, Index!ivars
<1>1. ASSUME NEW op, NEW pt, NEW d, Begin(op, pt, d) PROVE Index!Next
  <2>1. /\ last' = << >> /\ UNCHANGED <<points, userdata, node>>
    BY <1>1 DEF Begin
  <2>2. Index!Forget
    BY <2>1, LiveSame DEF Index!Forget
  <2>. QED  BY <2>2
<1>2. CASE \E pt \in Point, d \in Data : BeginAdd(pt, d)
  BY <1>1, <1>2 DEF BeginAdd
<1>3. CASE \E pt \in Point : BeginFind(pt) \/ BeginRemove(pt)
  BY <1>1, <1>3 DEF BeginFind, BeginRemove
<1>4. CASE \E i \in DOMAIN points : BeginRemoveAt(i)
  BY <1>1, <1>4 DEF BeginRemoveAt, BeginRemove
<1>5. ASSUME NEW i \in DOMAIN userdata, NEW d \in Data, SetUserData(i, d)
      PROVE  Index!Next
  <2>1. Index!SetUserData(i, d)
    BY <1>5, LiveSame DEF SetUserData, Index!SetUserData
  <2>. QED  BY <2>1
<1>6. CASE Clear
  <2>1. live' = {}
    <3>1. node' = <<Leaf({})>>
      BY <1>6 DEF Clear
    <3>2. DOMAIN node' = {1} /\ node'[1] = Leaf({})
      BY <3>1
    <3>. QED  BY <3>2 DEF live, Leaf
  <2>2. Index!Clear
    BY <1>6, <2>1 DEF Clear, Index!Clear
  <2>. QED  BY <2>2
<1>7. CASE GoDown
  BY <1>7, LiveSame DEF GoDown
<1>8. CASE Split
  BY <1>8, SplitLive DEF Split
<1>9. ASSUME ~Idle, IsLeaf(call.at)
      PROVE  /\ Index!At(call.pt) = Here /\ call.pt \in Point /\ call.data \in Data
             /\ \A i : Return(i) => Index!Answers(call.op, call.pt, i)
  BY <1>9, HereIsAll, CallFacts DEF PInv, Return, Index!Answers
<1>10. CASE FoundAlready
  <2>1. PICK i \in Here : Return(i)
    BY <1>10 DEF FoundAlready
  <2>2. ~Idle /\ IsLeaf(call.at) /\ call.op = "add" /\ UNCHANGED <<points, userdata, node>>
    BY <1>10 DEF FoundAlready, Arrived
  <2>3. Index!AddPoint(call.pt, call.data)
    BY <1>9, <2>1, <2>2, LiveSame DEF Index!AddPoint
  <2>. QED  BY <1>9, <2>2, <2>3
<1>11. CASE AddHere
  <2>1. /\ ~Idle /\ IsLeaf(call.at) /\ call.op = "add" /\ Here = {}
        /\ points' = Append(points, call.pt) /\ userdata' = Append(userdata, call.data)
        /\ node' = [node EXCEPT ![call.at].indices = @ \cup {Len(points')}]
        /\ Return(Len(points'))
    BY <1>11 DEF AddHere, Arrived
  <2>2. call.at \in DOMAIN node /\ node \in Seq(NodeType) /\ node[call.at] \in NodeType
    BY <2>1, CallFacts, TypeFacts DEF PInv
  <2>3. live' = live \cup {Len(points')}
    <3>1. /\ DOMAIN node' = DOMAIN node
          /\ node'[call.at].indices = node[call.at].indices \cup {Len(points')}
          /\ \A m \in DOMAIN node : m # call.at => node'[m] = node[m]
      BY <2>1, <2>2 DEF NodeType
    <3>. QED  BY <2>2, <3>1 DEF live
  <2>4. Index!AddPoint(call.pt, call.data)
    BY <1>9, <2>1, <2>3 DEF Index!AddPoint
  <2>. QED  BY <1>9, <2>1, <2>4
<1>12. CASE FindHere
  <2>1. ~Idle /\ IsLeaf(call.at) /\ call.op = "find" /\ UNCHANGED <<points, userdata, node>>
    BY <1>12 DEF FindHere, Arrived
  <2>2. Index!FindPoint(call.pt)
    BY <1>9, <1>12, <2>1, LiveSame DEF FindHere, Index!FindPoint
  <2>. QED  BY <1>9, <2>1, <2>2
<1>13. CASE RemoveHere
  <2>1. /\ ~Idle /\ IsLeaf(call.at) /\ call.op = "remove"
        /\ UNCHANGED <<points, userdata>>
    BY <1>13 DEF RemoveHere, Arrived
  <2>2. CASE Here = {} /\ Return(0) /\ UNCHANGED node
    <3>1. Index!RemovePoint(call.pt)
      BY <1>9, <2>1, <2>2, LiveSame DEF Index!RemovePoint
    <3>. QED  BY <1>9, <2>1, <3>1
  <2>3. ASSUME NEW i \in Here, Return(i),
               node' = [node EXCEPT ![call.at].indices = @ \ {i}]
        PROVE  Index!Next
    <3>1. /\ call.at \in DOMAIN node /\ node \in Seq(NodeType)
          /\ node[call.at] \in NodeType /\ i \in node[call.at].indices
      BY <2>1, CallFacts, TypeFacts DEF PInv, Here
    <3>2. /\ DOMAIN node' = DOMAIN node
          /\ node'[call.at].indices = node[call.at].indices \ {i}
          /\ \A m \in DOMAIN node : m # call.at => node'[m] = node[m]
      BY <2>3, <3>1 DEF NodeType
    <3>3. \A m \in DOMAIN node : m # call.at => i \notin node[m].indices
      BY <3>1, OneLeaf DEF PInv
    <3>4. live' = live \ {i}
      BY <3>1, <3>2, <3>3 DEF live
    <3>5. Index!RemovePoint(call.pt)
      BY <1>9, <2>1, <2>3, <3>4 DEF Index!RemovePoint
    <3>. QED  BY <1>9, <2>1, <3>5
  <2>. QED  BY <1>13, <2>2, <2>3 DEF RemoveHere
<1>14. CASE UNCHANGED vars
  BY <1>14, LiveSame DEF vars
<1>. QED  BY <1>2, <1>3, <1>4, <1>5, <1>6, <1>7, <1>8, <1>10, <1>11, <1>12, <1>13,
             <1>14 DEF Next, Step

\* dimeBSPTree is an index of points: addPoint(), findPoint() and removePoint()
\* answer as if they looked at every point, whatever the tree looks like.
THEOREM TreeIsIndex == Spec => IsPointIndex
<1>1. Init => Index!Init
  <2>. SUFFICES ASSUME Init PROVE Index!Init
    OBVIOUS
  <2>1. DOMAIN node = {1} /\ node[1] = Leaf({})
    BY DEF Init
  <2>2. live = {}
    BY <2>1 DEF live, Leaf
  <2>. QED  BY <2>2 DEF Init, Index!Init
<1>. QED  BY <1>1, StepRefines, TreeInvariant, PTL DEF Spec, IsPointIndex, Index!Spec
=============================================================================
