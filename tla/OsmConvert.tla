----------------------------- MODULE OsmConvert -----------------------------
(***************************************************************************)
(* dxf2osm's conversion of entities to OSM nodes and ways                  *)
(* (src/src/convert/convertosm.cpp).  Ids are drawn from one counter: the  *)
(* number every dimeEntity takes when it is constructed, and the number a  *)
(* vertex takes when no node is known at its place.                        *)
(*                                                                         *)
(* A place stands for a cPoint key, the coordinates printed with ten       *)
(* digits; Truncated is what (long) leaves of them.  The traversal may     *)
(* present an entity any number of times (a block shown twice) and in any  *)
(* order, and entities may be created between conversions.  The document's *)
(* elements are kept as a set.  The layer geometry collected on the side   *)
(* (dxfLayerData) and tags are left out.                                   *)
(* A definition with an underscore in its name is not the code's: it is    *)
(* the fault a mutation run plants in the definition of that name.         *)
(***************************************************************************)
EXTENDS Integers, Sequences, FiniteSets

CONSTANTS
  Places,       \* the places entities may lie at
  Truncated,    \* the place an MTEXT is registered at
  Outlines,     \* the vertex lists of the ways
  MaxEntities   \* bound on the entities read

ASSUME OsmAssumption ==
  /\ Truncated \in [Places -> Places]
  /\ Outlines \subseteq Seq(Places)
  /\ MaxEntities \in Nat

VARIABLES
  entities,     \* the entities read: [kind, num, at]
  entityCount,  \* dimeEntity::entityCount
  points,       \* the converter's map: place -> id
  out,          \* the elements printed
  way,          \* the entity whose vertices are being added, 0 for none
  vertex,       \* its next vertex
  bug           \* has "BUG not found id" been printed?

vars == <<entities, entityCount, points, out, way, vertex, bug>>

WayKinds == {"LINE", "POLYLINE", "LWPOLYLINE"}
NodeKinds == {"POINT", "MTEXT"}

\* lookup(): 0 for a place that is not in the map, and for one registered
\* under the id 0; the code tells the two apart no more than this does
Lookup(p) == points[p]

\* add()
Add(p, id) == points' = [points EXCEPT ![p] = id]

Node(id, p) == [tag |-> "node", id |-> id, at |-> <<p>>, refs |-> << >>]
Way(id, at, refs) == [tag |-> "way", id |-> id, at |-> at, refs |-> refs]

Init ==
  /\ entities = << >>
  /\ entityCount = 0
  /\ points = [p \in Places |-> 0]
  /\ out = {}
  /\ way = 0 /\ vertex = 1
  /\ bug = FALSE

\* the dimeEntity constructor; a POLYLINE's VERTEX and SEQEND entities are
\* constructed, and numbered, after it
Consumed(kind, at) ==
  IF kind = "POLYLINE" /\ at # << >> THEN Len(at) + 2 ELSE 1

Read(kind, at) ==
  /\ way = 0 /\ Len(entities) < MaxEntities
  /\ entities' = Append(entities, [kind |-> kind, num |-> entityCount,
                                   at |-> at])
  /\ entityCount' = entityCount + Consumed(kind, at)
  /\ UNCHANGED <<points, out, way, vertex, bug>>

\* convert(dimeLine), convert(dimePolyline), convert(dimeLWPolyline)
BeginWay(e) ==
  /\ way = 0 /\ entities[e].kind \in WayKinds
  /\ way' = e
  /\ UNCHANGED <<entities, entityCount, points, out, vertex, bug>>

AddVertex_Always ==
  LET at == entities[way].at
  IN  /\ way # 0 /\ vertex <= Len(at)
      /\ Add(at[vertex], entityCount)
      /\ out' = out \cup {Node(entityCount, at[vertex])}
      /\ entityCount' = entityCount + 1
      /\ vertex' = vertex + 1
      /\ UNCHANGED <<entities, way, bug>>
AddVertex_SameId ==
  LET at == entities[way].at
  IN  /\ way # 0 /\ vertex <= Len(at)
      /\ IF Lookup(at[vertex]) # 0
         THEN UNCHANGED <<entityCount, points, out>>
         ELSE /\ Add(at[vertex], entityCount)
              /\ out' = out \cup {Node(entityCount, at[vertex])}
              /\ UNCHANGED entityCount
      /\ vertex' = vertex + 1
      /\ UNCHANGED <<entities, way, bug>>

\* one turn of the first loop: a vertex at an unknown place becomes a node
AddVertex ==
  LET at == entities[way].at
  IN  /\ way # 0 /\ vertex <= Len(at)
      /\ IF Lookup(at[vertex]) # 0
         THEN UNCHANGED <<entityCount, points, out>>
         ELSE /\ Add(at[vertex], entityCount)
              /\ out' = out \cup {Node(entityCount, at[vertex])}
              /\ entityCount' = entityCount + 1
      /\ vertex' = vertex + 1
      /\ UNCHANGED <<entities, way, bug>>

EndWay_Early ==
  LET at == entities[way].at
      found == SelectSeq(at, LAMBDA p : Lookup(p) # 0)
  IN  /\ way # 0
      /\ out' = out \cup {Way(entities[way].num, at,
                              [i \in DOMAIN found |-> Lookup(found[i])])}
      /\ way' = 0 /\ vertex' = 1
      /\ UNCHANGED <<entities, entityCount, points, bug>>

\* the second loop: a reference for each vertex found, and the message for
\* each that is not
EndWay ==
  LET at == entities[way].at
      found == SelectSeq(at, LAMBDA p : Lookup(p) # 0)
  IN  /\ way # 0 /\ vertex > Len(at)
      /\ IF \A i \in DOMAIN at : Lookup(at[i]) # 0
         THEN /\ out' = out \cup {Way(entities[way].num, at,
                                      [i \in DOMAIN at |-> Lookup(at[i])])}
              /\ UNCHANGED bug
         ELSE /\ out' = out \cup {Way(entities[way].num, at,
                                 [i \in DOMAIN found |-> Lookup(found[i])])}
              /\ bug' = TRUE
      /\ way' = 0 /\ vertex' = 1
      /\ UNCHANGED <<entities, entityCount, points>>

Register_OldId(p, id) ==
  IF Lookup(p) # 0 THEN UNCHANGED <<points, bug>>
  ELSE /\ Add(p, Lookup(p))
       /\ bug' = (bug \/ points'[p] = 0)

\* what a POINT and an MTEXT do with the place they are registered at
Register(p, id) ==
  IF Lookup(p) # 0 THEN UNCHANGED <<points, bug>>
  ELSE /\ Add(p, id)
       /\ bug' = (bug \/ points'[p] = 0)

\* convert(dimePoint), convert(dimeMText): the node is printed whether the
\* place is known or not
ConvertNode(e) ==
  LET p == entities[e].at[1]
  IN  /\ way = 0 /\ entities[e].kind \in NodeKinds
      /\ Register(IF entities[e].kind = "MTEXT" THEN Truncated[p] ELSE p,
                  entities[e].num)
      /\ out' = out \cup {Node(entities[e].num, p)}
      /\ UNCHANGED <<entities, entityCount, way, vertex>>

Next ==
  \/ \E p \in Places :
       Read("POINT", <<p>>) \/ Read("MTEXT", <<p>>) \/ Read("OTHER", <<p>>)
  \/ \E at \in Outlines :
       \/ \E kind \in WayKinds \ {"LINE"} : Read(kind, at)
       \/ Len(at) = 2 /\ Read("LINE", at)
  \/ \E e \in DOMAIN entities : BeginWay(e) \/ ConvertNode(e)
  \/ AddVertex
  \/ EndWay

Spec == Init /\ [][Next]_vars
-----------------------------------------------------------------------------
Entity == [kind : WayKinds \cup NodeKinds \cup {"OTHER"}, num : Nat,
           at : Seq(Places)]
Element == [tag : {"node", "way"}, id : Nat, at : Seq(Places),
            refs : Seq(Nat)]
Elements(tag) == {x \in out : x.tag = tag}

\* Types; a way being converted is one of the entities.
TypeOK ==
  /\ entities \in Seq(Entity)
  /\ entityCount \in Nat
  /\ points \in [Places -> Nat]
  /\ out \subseteq Element
  /\ way \in 0 .. Len(entities)
  /\ vertex \in Nat \ {0}
  /\ bug \in BOOLEAN

\* No two different nodes, and no two different ways, carry the same id: the
\* numbers of entities and the numbers drawn for vertices never collide, and
\* an entity converted again is printed as it was.
UniqueIds ==
  \A x, y \in out : x.tag = y.tag /\ x.id = y.id => x = y

\* A way has one reference per vertex, each to a node of the document.
WaysResolve ==
  \A w \in Elements("way") :
    /\ Len(w.refs) = Len(w.at)
    /\ \A i \in DOMAIN w.refs : \E x \in Elements("node") : x.id = w.refs[i]

\* Ways that meet in a place share the node there: this is what makes the
\* lines of a drawing a connected map.
SharedVertices ==
  \A v, w \in Elements("way") :
    \A i \in DOMAIN v.refs, j \in DOMAIN w.refs :
      v.at[i] = w.at[j] => v.refs[i] = w.refs[j]

\* The node a reference names lies at the vertex, but for the node of an
\* MTEXT, which is referred to from the place its coordinates truncate to.
RefsInPlace ==
  \A w \in Elements("way") : \A i \in DOMAIN w.refs :
    \E x \in Elements("node") :
      /\ x.id = w.refs[i]
      /\ \/ x.at[1] = w.at[i]
         \/ /\ Truncated[x.at[1]] = w.at[i]
            /\ \E e \in DOMAIN entities : /\ entities[e].kind = "MTEXT"
                                          /\ entities[e].num = x.id

\* The references of a way, all of them, name nodes of the document where the
\* way goes.
ReferencesSound == WaysResolve /\ RefsInPlace

\* The message "BUG not found id" is printed only because of the very first
\* entity of the process, whose number is the id 0 that means "not found".
BugOnlyForFirst ==
  bug => entities # << >> /\ entities[1].kind \in NodeKinds
=============================================================================
