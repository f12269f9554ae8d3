-------------------------- MODULE OsmConvertProofs --------------------------
(* Proofs about OsmConvert: the ids of the document are unique and its      *)
(* references resolve, for every set of places, every truncation and any    *)
(* order in which entities are read, shown and shown again.                 *)
EXTENDS OsmConvert, SequenceTheorems, TLAPS

-----------------------------------------------------------------------------
(* The inductive invariant.                                                *)

Nodes == Elements("node")
Ways == Elements("way")

\* Entities are numbered upwards, below the counter.
EntitiesNumbered ==
  \A e \in 1 .. Len(entities) :
    /\ entities[e].num < entityCount
    /\ entities[e].kind \in NodeKinds => Len(entities[e].at) = 1
    /\ \A f \in 1 .. Len(entities) :
         e < f => entities[e].num < entities[f].num

\* A node has its own id; when that is an entity's number it is that entity's.
NodesSound ==
  \A x \in Nodes :
    /\ x.id < entityCount
    /\ Len(x.at) = 1 /\ x.refs = << >>
    /\ \A e \in 1 .. Len(entities) :
         entities[e].num = x.id
           => entities[e].kind \in NodeKinds /\ x.at = entities[e].at
    /\ \A y \in Nodes : x.id = y.id => x.at = y.at

\* A node lies where the map has it, but for an MTEXT.
LiesAt(x, p) ==
  \/ x.at[1] = p
  \/ /\ Truncated[x.at[1]] = p
     /\ \E e \in 1 .. Len(entities) : /\ entities[e].kind = "MTEXT"
                                      /\ entities[e].num = x.id

PointsSound ==
  \A p \in Places :
    points[p] # 0 => \E x \in Nodes : x.id = points[p] /\ LiesAt(x, p)

\* A way is an entity's, and refers to what the map holds.
WaysSound ==
  \A w \in Ways :
    /\ \E e \in 1 .. Len(entities) :
         w.id = entities[e].num /\ w.at = entities[e].at
    /\ Len(w.refs) = Len(w.at)
    /\ \A i \in 1 .. Len(w.at) :
         points[w.at[i]] # 0 /\ w.refs[i] = points[w.at[i]]

\* The vertices already visited are in the map.
WaySound ==
  way # 0 => /\ vertex <= Len(entities[way].at) + 1
             /\ \A j \in 1 .. vertex - 1 : points[entities[way].at[j]] # 0

IInv == /\ TypeOK /\ EntitiesNumbered /\ NodesSound /\ PointsSound
        /\ WaysSound /\ WaySound /\ BugOnlyForFirst
        /\ (way = 0 => vertex = 1)
-----------------------------------------------------------------------------
THEOREM InitSound == Init => IInv
  <1> SUFFICES ASSUME Init PROVE IInv
    OBVIOUS
  <1>a. /\ entities = << >> /\ entityCount = 0 /\ out = {} /\ way = 0
        /\ vertex = 1 /\ bug = FALSE /\ points = [p \in Places |-> 0]
    BY DEF Init
  <1>b. << >> \in Seq(Entity) /\ Len(<< >>) = 0
    OBVIOUS
  <1>1. TypeOK
    <2>1. entities \in Seq(Entity) /\ way \in 0 .. Len(entities)
      BY <1>a, <1>b
    <2>2. points \in [Places -> Nat]
      BY <1>a
    <2>3. entityCount \in Nat /\ vertex \in Nat \ {0}
      BY <1>a
    <2>5. bug \in BOOLEAN
      BY <1>a, Zenon
    <2>4. out \subseteq Element
      BY <1>a
    <2> QED BY <2>1, <2>2, <2>3, <2>4, <2>5 DEF TypeOK
  <1>2. EntitiesNumbered /\ WaySound /\ BugOnlyForFirst
    BY DEF Init, EntitiesNumbered, WaySound, BugOnlyForFirst
  <1>3. NodesSound /\ PointsSound /\ WaysSound
    BY DEF Init, NodesSound, PointsSound, WaysSound, Nodes, Ways, Elements
  <1> QED BY <1>1, <1>2, <1>3 DEF IInv, Init

LEMMA ReadStep ==
  ASSUME IInv, NEW kind \in WayKinds \cup NodeKinds \cup {"OTHER"},
         NEW at \in Seq(Places), kind \in NodeKinds => Len(at) = 1,
         Read(kind, at)
  PROVE  IInv'
  <1> DEFINE new == [kind |-> kind, num |-> entityCount, at |-> at]
  <1>1. /\ new \in Entity /\ new.kind = kind /\ new.num = entityCount
        /\ new.at = at
    BY DEF Entity, IInv, TypeOK
  <1>2. /\ entities' = Append(entities, new) /\ way = 0
        /\ entityCount' = entityCount + Consumed(kind, at)
        /\ points' = points /\ out' = out /\ way' = way /\ vertex' = vertex
        /\ bug' = bug
    BY DEF Read
  <1>3. entities \in Seq(Entity) /\ Len(entities) \in Nat
    BY DEF IInv, TypeOK
  <1> HIDE DEF new
  <1>4. /\ entities' \in Seq(Entity) /\ Len(entities') = Len(entities) + 1
        /\ \A e \in 1 .. Len(entities) : entities'[e] = entities[e]
        /\ entities'[Len(entities) + 1] = new
    BY <1>1, <1>2, <1>3
  <1>5. Consumed(kind, at) \in Nat /\ Consumed(kind, at) >= 1
    BY DEF Consumed
  <1>6. entityCount \in Nat /\ entityCount' \in Nat
        /\ entityCount < entityCount'
    BY <1>2, <1>5 DEF IInv, TypeOK
  <1>7. TypeOK'
    BY <1>2, <1>4, <1>6 DEF IInv, TypeOK
  <1>8. EntitiesNumbered'
    <2> SUFFICES ASSUME NEW e \in 1 .. Len(entities) + 1
                 PROVE  /\ entities'[e].num < entityCount'
                        /\ entities'[e].kind \in NodeKinds
                             => Len(entities'[e].at) = 1
                        /\ \A f \in 1 .. Len(entities) + 1 :
                             e < f => entities'[e].num < entities'[f].num
      BY <1>4 DEF EntitiesNumbered
    <2>1. CASE e \in 1 .. Len(entities)
      <3>1. entities[e] \in Entity
        BY <1>3, <2>1
      <3>2. entities[e].num \in Nat
        BY <3>1 DEF Entity
      <3>3. /\ entities[e].num < entityCount
            /\ entities[e].kind \in NodeKinds => Len(entities[e].at) = 1
            /\ \A f \in 1 .. Len(entities) :
                 e < f => entities[e].num < entities[f].num
        BY <2>1 DEF IInv, EntitiesNumbered
      <3>4. entities'[e] = entities[e]
        BY <1>4, <2>1
      <3>5. ASSUME NEW f \in 1 .. Len(entities) + 1, e < f
            PROVE  entities'[e].num < entities'[f].num
        <4>1. CASE f \in 1 .. Len(entities)
          BY <1>4, <3>3, <3>4, <3>5, <4>1
        <4>2. CASE f = Len(entities) + 1
          BY <1>1, <1>4, <3>3, <3>4, <4>2
        <4> QED BY <1>3, <4>1, <4>2
      <3> QED BY <1>6, <3>2, <3>3, <3>4, <3>5
    <2>2. CASE e = Len(entities) + 1
      BY <1>1, <1>3, <1>4, <1>6, <2>2
    <2> QED BY <1>3, <2>1, <2>2
  <1>9. ASSUME NEW x \in Nodes
        PROVE  x.id \in Nat /\ x.id < entityCount
    BY DEF IInv, TypeOK, Nodes, Elements, NodesSound, Element
  <1>10. NodesSound'
    <2> SUFFICES ASSUME NEW x \in Nodes
                 PROVE  /\ x.id < entityCount'
                        /\ Len(x.at) = 1 /\ x.refs = << >>
                        /\ \A e \in 1 .. Len(entities) + 1 :
                             entities'[e].num = x.id
                               => /\ entities'[e].kind \in NodeKinds
                                  /\ x.at = entities'[e].at
                        /\ \A y \in Nodes : x.id = y.id => x.at = y.at
      BY <1>2, <1>4 DEF NodesSound, Nodes, Elements
    <2>1. x.id < entityCount'
      BY <1>6, <1>9
    <2>2. ASSUME NEW e \in 1 .. Len(entities) + 1, entities'[e].num = x.id
          PROVE  entities'[e].kind \in NodeKinds /\ x.at = entities'[e].at
      <3>1. e # Len(entities) + 1
        BY <1>1, <1>4, <1>6, <1>9, <2>2
      <3>2. e \in 1 .. Len(entities) /\ entities'[e] = entities[e]
        BY <1>3, <1>4, <3>1
      <3> QED BY <2>2, <3>2 DEF IInv, NodesSound
    <2> QED BY <2>1, <2>2 DEF IInv, NodesSound
  <1>11. PointsSound'
    BY <1>2, <1>3, <1>4 DEF IInv, PointsSound, LiesAt, Nodes, Elements
  <1>12. WaysSound'
    BY <1>2, <1>3, <1>4 DEF IInv, WaysSound, Ways, Elements
  <1>13. WaySound' /\ (way' = 0 => vertex' = 1)
    BY <1>2 DEF IInv, WaySound
  <1>14. BugOnlyForFirst'
    <2>1. bug => /\ Len(entities) # 0 /\ entities[1].kind \in NodeKinds
      BY <1>3 DEF IInv, BugOnlyForFirst
    <2>2. Len(entities) # 0 => entities'[1] = entities[1]
      BY <1>3, <1>4
    <2>3. entities' # << >>
      BY <1>3, <1>4
    <2> QED BY <1>2, <2>1, <2>2, <2>3 DEF BugOnlyForFirst
  <1> QED BY <1>7, <1>8, <1>10, <1>11, <1>12, <1>13, <1>14 DEF IInv

LEMMA BeginWayStep ==
  ASSUME IInv, NEW e \in 1 .. Len(entities), BeginWay(e)
  PROVE  IInv'
  <1>1. /\ way' = e /\ vertex' = vertex /\ vertex = 1
        /\ entities' = entities /\ entityCount' = entityCount
        /\ points' = points /\ out' = out /\ bug' = bug
    BY DEF BeginWay, IInv
  <1>2. entities[e] \in Entity
    BY DEF IInv, TypeOK
  <1>3. Len(entities[e].at) \in Nat
    BY <1>2 DEF Entity
  <1>4. TypeOK'
    BY <1>1 DEF IInv, TypeOK
  <1>5. WaySound' /\ (way' = 0 => vertex' = 1)
    BY <1>1, <1>3 DEF WaySound
  <1>6. /\ EntitiesNumbered' /\ NodesSound' /\ PointsSound' /\ WaysSound'
        /\ BugOnlyForFirst'
    BY <1>1 DEF IInv, EntitiesNumbered, NodesSound, PointsSound, WaysSound,
                LiesAt, Nodes, Ways, Elements, BugOnlyForFirst
  <1> QED BY <1>4, <1>5, <1>6 DEF IInv

\* The entity whose vertices are being added.
LEMMA WayEntity ==
  ASSUME IInv, way # 0
  PROVE  /\ way \in 1 .. Len(entities) /\ entities[way] \in Entity
         /\ entities[way].at \in Seq(Places) /\ entities[way].num \in Nat
         /\ entities[way].num < entityCount
  <1>1. way \in 1 .. Len(entities) /\ entities \in Seq(Entity)
    BY DEF IInv, TypeOK
  <1>2. entities[way] \in Entity
    BY <1>1
  <1> QED BY <1>1, <1>2 DEF Entity, IInv, EntitiesNumbered

LEMMA NodeTyped ==
  ASSUME NEW id \in Nat, NEW p \in Places
  PROVE  /\ Node(id, p) \in Element /\ Node(id, p).tag = "node"
         /\ Node(id, p).id = id /\ Node(id, p).at = <<p>>
         /\ Node(id, p).refs = << >>
  <1>1. <<p>> \in Seq(Places) /\ << >> \in Seq(Nat)
    OBVIOUS
  <1> QED BY <1>1 DEF Node, Element

\* What registering a place under an id for which a node is printed keeps.
LEMMA RegistrationSound ==
  ASSUME IInv, NEW p \in Places, NEW id \in Nat, NEW x,
         points[p] = 0,
         points' = [points EXCEPT ![p] = id],
         entities' = entities,
         x.tag = "node", x.id = id, LiesAt(x, p),
         out' = out \cup {x}
  PROVE  PointsSound' /\ WaysSound' /\ points' \in [Places -> Nat]
  <1>1. points \in [Places -> Nat] /\ out \subseteq Element
    BY DEF IInv, TypeOK
  <1>2. points' \in [Places -> Nat]
    BY <1>1
  <1>3. Nodes' = Nodes \cup {x} /\ Ways' = Ways
    BY DEF Nodes, Ways, Elements
  <1>4. PointsSound'
    <2> SUFFICES ASSUME NEW q \in Places, points'[q] # 0
                 PROVE  \E y \in Nodes' : y.id = points'[q] /\ LiesAt(y, q)'
      BY DEF PointsSound
    <2>1. CASE q = p
      BY <1>1, <1>3, <2>1 DEF LiesAt
    <2>2. CASE q # p
      BY <1>1, <1>3, <2>2 DEF IInv, PointsSound, LiesAt
    <2> QED BY <2>1, <2>2
  <1>5. WaysSound'
    <2> SUFFICES ASSUME NEW w \in Ways
                 PROVE  /\ \E e \in 1 .. Len(entities) :
                              w.id = entities[e].num /\ w.at = entities[e].at
                        /\ Len(w.refs) = Len(w.at)
                        /\ \A i \in 1 .. Len(w.at) :
                             /\ points'[w.at[i]] # 0
                             /\ w.refs[i] = points'[w.at[i]]
      BY <1>3 DEF WaysSound
    <2>1. w \in Element
      BY <1>1 DEF Ways, Elements
    <2>2. w.at \in Seq(Places)
      BY <2>1 DEF Element
    <2>3. ASSUME NEW i \in 1 .. Len(w.at)
          PROVE  points'[w.at[i]] # 0 /\ w.refs[i] = points'[w.at[i]]
      <3>1. w.at[i] \in Places
        BY <2>2
      <3>2. points[w.at[i]] # 0 /\ w.refs[i] = points[w.at[i]]
        BY DEF IInv, WaysSound
      <3> QED BY <1>1, <3>1, <3>2
    <2> QED BY <2>3 DEF IInv, WaysSound
  <1> QED BY <1>2, <1>4, <1>5

\* A way in progress keeps its vertices when places are only added to the map.
LEMMA VisitedStay ==
  ASSUME IInv, way # 0, NEW p \in Places, NEW id \in Nat,
         points[p] = 0, points' = [points EXCEPT ![p] = id]
  PROVE  \A j \in 1 .. vertex - 1 : points'[entities[way].at[j]] # 0
  <1>1. /\ vertex \in Nat /\ vertex <= Len(entities[way].at) + 1
        /\ \A j \in 1 .. vertex - 1 : points[entities[way].at[j]] # 0
        /\ points \in [Places -> Nat]
    BY DEF IInv, TypeOK, WaySound
  <1>2. entities[way].at \in Seq(Places)
    BY WayEntity
  <1>3. ASSUME NEW j \in 1 .. vertex - 1
        PROVE  entities[way].at[j] \in Places
    BY <1>1, <1>2
  <1> QED BY <1>1, <1>3

LEMMA AddVertexStep ==
  ASSUME IInv, AddVertex PROVE IInv'
  <1> DEFINE at == entities[way].at
             p == at[vertex]
             x == Node(entityCount, p)
  <1>1. /\ way # 0 /\ vertex <= Len(at) /\ vertex' = vertex + 1
        /\ entities' = entities /\ way' = way /\ bug' = bug
    BY DEF AddVertex
  <1>2. /\ way \in 1 .. Len(entities) /\ at \in Seq(Places)
        /\ entities[way].num \in Nat /\ entities[way].num < entityCount
    BY <1>1, WayEntity
  <1>3. vertex \in 1 .. Len(at) /\ entityCount \in Nat /\ entityCount # 0
        /\ points \in [Places -> Nat] /\ out \subseteq Element
    BY <1>1, <1>2 DEF IInv, TypeOK
  <1>4. p \in Places
    BY <1>2, <1>3
  <1>5. \A j \in 1 .. vertex - 1 : points[at[j]] # 0
    BY <1>1 DEF IInv, WaySound
  <1>6. vertex' \in Nat \ {0} /\ vertex' <= Len(at) + 1
        /\ 1 .. vertex' - 1 = (1 .. vertex - 1) \cup {vertex}
    BY <1>1, <1>2, <1>3
  <1>7. CASE points[p] # 0
    <2>1. points' = points /\ out' = out /\ entityCount' = entityCount
      BY <1>7 DEF AddVertex, Lookup
    <2>2. TypeOK'
      BY <1>1, <1>6, <2>1 DEF IInv, TypeOK
    <2>3. WaySound' /\ (way' = 0 => vertex' = 1)
      BY <1>1, <1>5, <1>6, <1>7, <2>1 DEF WaySound
    <2>4. /\ EntitiesNumbered' /\ NodesSound' /\ PointsSound' /\ WaysSound'
          /\ BugOnlyForFirst'
      BY <1>1, <2>1 DEF IInv, EntitiesNumbered, NodesSound, PointsSound,
         WaysSound, LiesAt, Nodes, Ways, Elements, BugOnlyForFirst
    <2> QED BY <2>2, <2>3, <2>4 DEF IInv
  <1>8. CASE points[p] = 0
    <2>1. /\ points' = [points EXCEPT ![p] = entityCount]
          /\ out' = out \cup {x} /\ entityCount' = entityCount + 1
      BY <1>8 DEF AddVertex, Lookup, Add
    <2>2. /\ x \in Element /\ x.tag = "node" /\ x.id = entityCount
          /\ x.at = <<p>> /\ x.refs = << >>
      BY <1>3, <1>4, NodeTyped
    <2> HIDE DEF x
    <2>3. LiesAt(x, p)
      BY <2>2 DEF LiesAt
    <2>4. PointsSound' /\ WaysSound' /\ points' \in [Places -> Nat]
      BY <1>1, <1>3, <1>4, <1>8, <2>1, <2>2, <2>3, RegistrationSound
    <2>5. TypeOK'
      BY <1>1, <1>3, <1>6, <2>1, <2>2, <2>4 DEF IInv, TypeOK
    <2>6. EntitiesNumbered'
      <3>1. ASSUME NEW e \in 1 .. Len(entities)
            PROVE  entities[e].num < entityCount + 1
        <4>1. entities[e] \in Entity
          BY DEF IInv, TypeOK
        <4>2. entities[e].num \in Nat /\ entities[e].num < entityCount
          BY <4>1 DEF Entity, IInv, EntitiesNumbered
        <4> QED BY <1>3, <4>2
      <3> QED BY <1>1, <2>1, <3>1 DEF IInv, EntitiesNumbered
    <2>7. Nodes' = Nodes \cup {x}
      BY <2>1, <2>2 DEF Nodes, Elements
    <2>8. ASSUME NEW y \in Nodes
          PROVE  y.id \in Nat /\ y.id < entityCount
      BY <1>3 DEF IInv, Nodes, Elements, NodesSound, Element
    <2>9. NodesSound'
      <3>1. ASSUME NEW e \in 1 .. Len(entities) PROVE entities[e].num # x.id
        BY <1>3, <2>2 DEF IInv, EntitiesNumbered
      <3>2. ASSUME NEW y \in Nodes
            PROVE  /\ y.id < entityCount + 1
                   /\ Len(y.at) = 1 /\ y.refs = << >>
                   /\ \A e \in 1 .. Len(entities) :
                        entities[e].num = y.id
                          => entities[e].kind \in NodeKinds
                             /\ y.at = entities[e].at
                   /\ \A z \in Nodes : y.id = z.id => y.at = z.at
                   /\ y.id # x.id
        BY <1>3, <2>2, <2>8 DEF IInv, NodesSound
      <3>3. x.id < entityCount + 1 /\ Len(x.at) = 1
        BY <1>3, <2>2
      <3>4. ASSUME NEW y \in Nodes'
            PROVE  /\ y.id < entityCount + 1
                   /\ Len(y.at) = 1 /\ y.refs = << >>
                   /\ \A e \in 1 .. Len(entities) :
                        entities[e].num = y.id
                          => entities[e].kind \in NodeKinds
                             /\ y.at = entities[e].at
        <4>1. CASE y = x
          BY <2>2, <3>1, <3>3, <4>1
        <4>2. CASE y \in Nodes
          BY <3>2, <4>2
        <4> QED BY <2>7, <4>1, <4>2
      <3>5. ASSUME NEW y \in Nodes', NEW z \in Nodes', y.id = z.id
            PROVE  y.at = z.at
        BY <2>7, <3>2, <3>5
      <3> HIDE DEF at, p
      <3> QED BY <1>1, <2>1, <3>4, <3>5 DEF NodesSound
    <2>10. WaySound' /\ (way' = 0 => vertex' = 1)
      <3>1. \A j \in 1 .. vertex - 1 : points'[at[j]] # 0
        BY <1>1, <1>3, <1>4, <1>8, <2>1, VisitedStay
      <3>2. points'[at[vertex]] # 0
        BY <1>3, <1>4, <2>1
      <3> QED BY <1>1, <1>6, <3>1, <3>2 DEF WaySound
    <2>11. BugOnlyForFirst'
      BY <1>1 DEF IInv, BugOnlyForFirst
    <2> QED BY <2>4, <2>5, <2>6, <2>9, <2>10, <2>11 DEF IInv
  <1> QED BY <1>7, <1>8

LEMMA EndWayStep ==
  ASSUME IInv, EndWay PROVE IInv'
  <1> DEFINE at == entities[way].at
             refs == [i \in DOMAIN at |-> Lookup(at[i])]
             w == Way(entities[way].num, at, refs)
  <1>1. /\ way # 0 /\ vertex > Len(at) /\ way' = 0 /\ vertex' = 1
        /\ entities' = entities /\ entityCount' = entityCount
        /\ points' = points
    BY DEF EndWay
  <1>2. /\ way \in 1 .. Len(entities) /\ at \in Seq(Places)
        /\ entities[way].num \in Nat
    BY <1>1, WayEntity
  <1>3. points \in [Places -> Nat] /\ vertex \in Nat
    BY DEF IInv, TypeOK
  <1>4. /\ vertex <= Len(at) + 1
        /\ \A j \in 1 .. vertex - 1 : points[at[j]] # 0
    BY <1>1 DEF IInv, WaySound
  <1>5. vertex - 1 = Len(at) /\ DOMAIN at = 1 .. Len(at)
    BY <1>1, <1>2, <1>3, <1>4
  <1>6. \A i \in DOMAIN at : Lookup(at[i]) # 0
    BY <1>4, <1>5 DEF Lookup
  <1>7. out' = out \cup {w} /\ bug' = bug
    BY <1>6 DEF EndWay
  <1>8. refs \in Seq(Nat) /\ Len(refs) = Len(at)
        /\ \A i \in 1 .. Len(at) : refs[i] = points[at[i]]
    <2>1. \A i \in 1 .. Len(at) : at[i] \in Places
      BY <1>2
    <2>2. refs = [i \in 1 .. Len(at) |-> points[at[i]]]
      BY <1>5 DEF Lookup
    <2>3. Len(at) \in Nat
      BY <1>2
    <2> HIDE DEF refs, at
    <2>4. \A i \in 1 .. Len(at) : points[at[i]] \in Nat
      BY <1>3, <2>1
    <2> QED BY <2>2, <2>3, <2>4
  <1>9. /\ w \in Element /\ w.tag = "way" /\ w.id = entities[way].num
        /\ w.at = at /\ w.refs = refs
    <2> HIDE DEF refs, at
    <2> QED BY <1>2, <1>8 DEF Way, Element
  <1> HIDE DEF w, refs
  <1>10. TypeOK'
    <2>1. way' \in 0 .. Len(entities)'
      BY <1>1, <1>2
    <2> QED BY <1>1, <1>7, <1>9, <2>1 DEF IInv, TypeOK
  <1>11. Nodes' = Nodes /\ Ways' = Ways \cup {w}
    BY <1>7, <1>9 DEF Nodes, Ways, Elements
  <1>12. WaysSound'
    <2>1. \E e \in 1 .. Len(entities) :
            w.id = entities[e].num /\ w.at = entities[e].at
      BY <1>2, <1>9
    <2>2. \A i \in 1 .. Len(w.at) :
            points[w.at[i]] # 0 /\ w.refs[i] = points[w.at[i]]
      BY <1>4, <1>5, <1>8, <1>9
    <2> QED BY <1>1, <1>8, <1>9, <1>11, <2>1, <2>2 DEF IInv, WaysSound
  <1>13. EntitiesNumbered' /\ NodesSound' /\ PointsSound' /\ BugOnlyForFirst'
    BY <1>1, <1>7, <1>11
       DEF IInv, EntitiesNumbered, NodesSound, PointsSound, LiesAt,
           BugOnlyForFirst
  <1>14. WaySound'
    BY <1>1 DEF WaySound
  <1> QED BY <1>1, <1>10, <1>12, <1>13, <1>14 DEF IInv

LEMMA ConvertNodeStep ==
  ASSUME IInv, NEW e \in 1 .. Len(entities), ConvertNode(e)
  PROVE  IInv'
  <1> DEFINE p == entities[e].at[1]
             q == IF entities[e].kind = "MTEXT" THEN Truncated[p] ELSE p
             num == entities[e].num
             x == Node(num, p)
  <1>1. /\ way = 0 /\ entities[e].kind \in NodeKinds /\ Register(q, num)
        /\ out' = out \cup {x}
        /\ entities' = entities /\ entityCount' = entityCount
        /\ way' = way /\ vertex' = vertex
    BY DEF ConvertNode
  <1>2. entities \in Seq(Entity) /\ points \in [Places -> Nat]
        /\ out \subseteq Element /\ entityCount \in Nat
    BY DEF IInv, TypeOK
  <1>3. entities[e] \in Entity
    BY <1>2
  <1>4. num \in Nat /\ entities[e].at \in Seq(Places)
        /\ Len(entities[e].at) = 1 /\ num < entityCount
    BY <1>1, <1>3 DEF Entity, IInv, EntitiesNumbered
  <1>5. p \in Places /\ entities[e].at = <<p>>
    BY <1>4
  <1>6. q \in Places
    BY <1>5, OsmAssumption
  <1>7. /\ x \in Element /\ x.tag = "node" /\ x.id = num
        /\ x.at = <<p>> /\ x.refs = << >>
    BY <1>4, <1>5, NodeTyped
  <1>8. LiesAt(x, q)
    BY <1>7 DEF LiesAt
  <1> HIDE DEF x, q, p
  <1>9. Nodes' = Nodes \cup {x} /\ Ways' = Ways
    BY <1>1, <1>7 DEF Nodes, Ways, Elements
  <1>10. EntitiesNumbered' /\ WaySound' /\ (way' = 0 => vertex' = 1)
    BY <1>1 DEF IInv, EntitiesNumbered, WaySound
  <1>11. NodesSound'
    <2>1. ASSUME NEW f \in 1 .. Len(entities), entities[f].num = num
          PROVE  f = e
      <3>1. entities[f] \in Entity
        BY <1>2
      <3>2. entities[f].num \in Nat
        BY <3>1 DEF Entity
      <3>3. f < e \/ e < f \/ f = e
        BY <1>2
      <3>4. /\ e < f => num < entities[f].num
            /\ f < e => entities[f].num < num
        BY DEF IInv, EntitiesNumbered
      <3> QED BY <1>4, <2>1, <3>2, <3>3, <3>4
    <2>2. ASSUME NEW y \in Nodes, y.id = num
          PROVE  y.at = x.at
      BY <1>5, <1>7, <2>2 DEF IInv, NodesSound
    <2>3. Len(x.at) = 1
      BY <1>7
    <2>4. \A f \in 1 .. Len(entities) :
            entities[f].num = x.id
              => entities[f].kind \in NodeKinds /\ x.at = entities[f].at
      BY <1>1, <1>5, <1>7, <2>1
    <2>5. \A y \in Nodes :
            /\ y.id < entityCount
            /\ Len(y.at) = 1 /\ y.refs = << >>
            /\ \A f \in 1 .. Len(entities) :
                 entities[f].num = y.id
                   => entities[f].kind \in NodeKinds /\ y.at = entities[f].at
            /\ \A z \in Nodes : y.id = z.id => y.at = z.at
      BY DEF IInv, NodesSound
    <2>6. ASSUME NEW y \in Nodes'
          PROVE  /\ y.id < entityCount
                 /\ Len(y.at) = 1 /\ y.refs = << >>
                 /\ \A f \in 1 .. Len(entities) :
                      entities[f].num = y.id
                        => entities[f].kind \in NodeKinds
                           /\ y.at = entities[f].at
      <3>1. CASE y = x
        BY <1>4, <1>7, <2>3, <2>4, <3>1
      <3>2. CASE y \in Nodes
        BY <2>5, <3>2
      <3> QED BY <1>9, <3>1, <3>2
    <2>7. ASSUME NEW y \in Nodes', NEW z \in Nodes', y.id = z.id
          PROVE  y.at = z.at
      BY <1>7, <1>9, <2>2, <2>5, <2>7
    <2> QED BY <1>1, <2>6, <2>7 DEF NodesSound
  <1>12. CASE points[q] # 0
    <2>1. points' = points /\ bug' = bug
      BY <1>1, <1>12 DEF Register, Lookup
    <2>2. TypeOK'
      BY <1>1, <1>7, <2>1 DEF IInv, TypeOK
    <2>3. PointsSound' /\ WaysSound' /\ BugOnlyForFirst'
      BY <1>1, <1>9, <2>1
         DEF IInv, PointsSound, LiesAt, WaysSound, BugOnlyForFirst
    <2> QED BY <1>10, <1>11, <2>2, <2>3 DEF IInv
  <1>13. CASE points[q] = 0
    <2>1. /\ points' = [points EXCEPT ![q] = num]
          /\ bug' = (bug \/ points'[q] = 0)
      BY <1>1, <1>13 DEF Register, Lookup, Add
    <2>2. PointsSound' /\ WaysSound' /\ points' \in [Places -> Nat]
      BY <1>1, <1>4, <1>6, <1>7, <1>8, <1>13, <2>1, RegistrationSound
    <2>3. bug' \in BOOLEAN
      BY <2>1, Zenon
    <2>4. TypeOK'
      BY <1>1, <1>7, <2>2, <2>3 DEF IInv, TypeOK
    <2>5. BugOnlyForFirst'
      <3>1. CASE bug
        BY <1>1, <3>1 DEF IInv, BugOnlyForFirst
      <3>2. CASE ~bug /\ bug'
        <4>1. points'[q] = 0
          BY <2>1, <3>2, Zenon
        <4>2. num = 0
          BY <1>2, <1>6, <2>1, <4>1
        <4>3. e = 1
          <5>1. 1 \in 1 .. Len(entities) /\ e \in Nat
            BY <1>2
          <5>2. entities[1] \in Entity
            BY <1>2, <5>1
          <5>3. entities[1].num \in Nat
            BY <5>2 DEF Entity
          <5>4. 1 < e => entities[1].num < num
            BY <5>1 DEF IInv, EntitiesNumbered
          <5> QED BY <4>2, <5>1, <5>3, <5>4
        <4> QED BY <1>1, <1>2, <4>3 DEF BugOnlyForFirst
      <3>3. CASE ~bug'
        BY <3>3 DEF BugOnlyForFirst
      <3> QED BY <3>1, <3>2, <3>3
    <2> QED BY <1>10, <1>11, <2>2, <2>4, <2>5 DEF IInv
  <1> QED BY <1>12, <1>13

LEMMA NextSound == IInv /\ [Next]_vars => IInv'
  <1> SUFFICES ASSUME IInv, [Next]_vars PROVE IInv'
    OBVIOUS
  <1>0. DOMAIN entities = 1 .. Len(entities)
    BY DEF IInv, TypeOK
  <1>1. ASSUME NEW p \in Places, NEW kind \in {"POINT", "MTEXT", "OTHER"},
               Read(kind, <<p>>)
        PROVE  IInv'
    <2>1. <<p>> \in Seq(Places) /\ Len(<<p>>) = 1
      OBVIOUS
    <2>2. kind \in WayKinds \cup NodeKinds \cup {"OTHER"}
      BY DEF NodeKinds
    <2> QED BY <1>1, <2>1, <2>2, ReadStep
  <1>2. ASSUME NEW at \in Outlines, NEW kind \in WayKinds, Read(kind, at)
        PROVE  IInv'
    <2>1. at \in Seq(Places)
      BY OsmAssumption
    <2>2. kind \in WayKinds \cup NodeKinds \cup {"OTHER"}
          /\ kind \notin NodeKinds
      BY DEF NodeKinds, WayKinds
    <2> QED BY <1>2, <2>1, <2>2, ReadStep
  <1>3. ASSUME NEW e \in DOMAIN entities, BeginWay(e) PROVE IInv'
    BY <1>0, <1>3, BeginWayStep
  <1>4. ASSUME NEW e \in DOMAIN entities, ConvertNode(e) PROVE IInv'
    BY <1>0, <1>4, ConvertNodeStep
  <1>5. CASE AddVertex
    BY <1>5, AddVertexStep
  <1>6. CASE EndWay
    BY <1>6, EndWayStep
  <1>7. CASE UNCHANGED vars
    BY <1>7 DEF vars, IInv, TypeOK, EntitiesNumbered, NodesSound, PointsSound,
                LiesAt, WaysSound, WaySound, Nodes, Ways, Elements,
                BugOnlyForFirst
  <1> QED
    BY <1>1, <1>2, <1>3, <1>4, <1>5, <1>6, <1>7 DEF Next, WayKinds
-----------------------------------------------------------------------------
(* The theorems.                                                           *)

\* In every reachable state of the conversion the invariant holds.
THEOREM OsmInvariant == Spec => []IInv
  BY InitSound, NextSound, PTL DEF Spec

\* Types, for every set of places and outlines.
THEOREM TypeCorrect == Spec => []TypeOK
  <1>1. IInv => TypeOK
    BY DEF IInv
  <1> QED BY OsmInvariant, <1>1, PTL

\* No two different nodes or ways of a document carry the same id, although
\* entities and vertices draw from one counter and are shown repeatedly.
THEOREM IdsUnique == Spec => []UniqueIds
  <1>1. IInv => UniqueIds
    <2> SUFFICES ASSUME IInv, NEW x \in out, NEW y \in out,
                        x.tag = y.tag, x.id = y.id
                 PROVE  x = y
      BY DEF UniqueIds
    <2>1. x \in Element /\ y \in Element
      BY DEF IInv, TypeOK
    <2>2. CASE x.tag = "node"
      <3>1. x.at = y.at /\ x.refs = y.refs
        BY <2>2 DEF IInv, NodesSound, Nodes, Elements
      <3> QED BY <2>1, <3>1 DEF Element
    <2>3. CASE x.tag = "way"
      <3>0. x \in Ways /\ y \in Ways
        BY <2>3 DEF Ways, Elements
      <3>1. PICK e \in 1 .. Len(entities) :
              x.id = entities[e].num /\ x.at = entities[e].at
        BY <3>0 DEF IInv, WaysSound
      <3>2. PICK f \in 1 .. Len(entities) :
              y.id = entities[f].num /\ y.at = entities[f].at
        BY <3>0 DEF IInv, WaysSound
      <3>3. e = f
        <4>1. entities[e] \in Entity /\ entities[f] \in Entity
          BY DEF IInv, TypeOK
        <4>2. entities[e].num \in Nat /\ entities[f].num \in Nat
          BY <4>1 DEF Entity
        <4>3. /\ e < f => entities[e].num < entities[f].num
              /\ f < e => entities[f].num < entities[e].num
          BY DEF IInv, EntitiesNumbered
        <4>4. entities[e].num = entities[f].num
          BY <3>1, <3>2
        <4>5. Len(entities) \in Nat
          BY DEF IInv, TypeOK
        <4>6. e < f \/ f < e \/ e = f
          BY <4>5
        <4> QED BY <4>2, <4>3, <4>4, <4>6
      <3>4. x.at = y.at
        BY <3>1, <3>2, <3>3
      <3>5. x.refs \in Seq(Nat) /\ y.refs \in Seq(Nat)
        BY <2>1 DEF Element
      <3>6. /\ Len(x.refs) = Len(x.at) /\ Len(y.refs) = Len(y.at)
            /\ \A i \in 1 .. Len(x.at) : x.refs[i] = points[x.at[i]]
            /\ \A i \in 1 .. Len(y.at) : y.refs[i] = points[y.at[i]]
        BY <3>0 DEF IInv, WaysSound
      <3>7. x.refs = y.refs
        <4>1. Len(x.refs) = Len(y.refs)
          BY <3>4, <3>6
        <4>2. \A i \in 1 .. Len(x.refs) : x.refs[i] = y.refs[i]
          BY <3>4, <3>6
        <4> QED BY <3>5, <4>1, <4>2, SeqEqual
      <3> QED BY <2>1, <3>4, <3>7 DEF Element
    <2> QED BY <2>1, <2>2, <2>3 DEF Element
  <1> QED BY OsmInvariant, <1>1, PTL

\* A reference of a way is the id of a node that lies at the vertex, or of an
\* MTEXT's that is registered there.
LEMMA ReferenceSound ==
  ASSUME IInv, NEW w \in Ways, NEW i \in DOMAIN w.refs
  PROVE  /\ w.at[i] \in Places /\ w.refs[i] = points[w.at[i]]
         /\ \E x \in Nodes : x.id = w.refs[i] /\ LiesAt(x, w.at[i])
  <1>1. w \in Element
    BY DEF IInv, TypeOK, Ways, Elements
  <1>2. w.at \in Seq(Places) /\ w.refs \in Seq(Nat)
    BY <1>1 DEF Element
  <1>3. i \in 1 .. Len(w.at)
    BY <1>2 DEF IInv, WaysSound
  <1>4. w.at[i] \in Places
    BY <1>2, <1>3
  <1>5. points[w.at[i]] # 0 /\ w.refs[i] = points[w.at[i]]
    BY <1>3 DEF IInv, WaysSound
  <1> QED BY <1>4, <1>5 DEF IInv, PointsSound

\* Every way has one reference per vertex, each to a node of the document.
THEOREM EveryRefResolves == Spec => []WaysResolve
  <1>1. IInv => WaysResolve
    BY ReferenceSound DEF WaysResolve, IInv, WaysSound, Nodes, Ways
  <1> QED BY OsmInvariant, <1>1, PTL

\* Ways that meet in a place refer to the same node there.
THEOREM VerticesShared == Spec => []SharedVertices
  <1>1. IInv => SharedVertices
    BY ReferenceSound DEF SharedVertices, Nodes, Ways
  <1> QED BY OsmInvariant, <1>1, PTL

\* The node referred to lies at the vertex, or is an MTEXT's whose truncated
\* coordinates are the vertex's.
THEOREM RefsLieThere == Spec => []RefsInPlace
  <1>1. IInv => RefsInPlace
    <2> SUFFICES ASSUME IInv PROVE RefsInPlace
      OBVIOUS
    <2>1. DOMAIN entities = 1 .. Len(entities)
      BY DEF IInv, TypeOK
    <2> QED BY <2>1, ReferenceSound DEF RefsInPlace, LiesAt, Nodes, Ways
  <1> QED BY OsmInvariant, <1>1, PTL

\* The BUG branch is reached only through the first entity of the process.
THEOREM BugBranch == Spec => []BugOnlyForFirst
  <1>1. IInv => BugOnlyForFirst
    BY DEF IInv
  <1> QED BY OsmInvariant, <1>1, PTL

\* The references of every way resolve, in the right places.
THEOREM ReferencesHold == Spec => []ReferencesSound
  <1>1. WaysResolve /\ RefsInPlace => ReferencesSound
    BY DEF ReferencesSound
  <1> QED BY <1>1, EveryRefResolves, RefsLieThere, PTL
=============================================================================
