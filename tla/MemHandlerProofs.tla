-------------------------- MODULE MemHandlerProofs --------------------------
(***************************************************************************)
(* Proofs about MemHandler: for every block size, every set of request     *)
(* sizes and alignments, the chunks handed out stay inside allocated       *)
(* blocks, never overlap and are aligned, and NULL means a failed malloc().*)
(***************************************************************************)
EXTENDS MemHandler, Induction

USE DEF NULL, Nodes

\* What the inductive argument adds to the properties: the head is a small
\* node, with no block only while nothing has been carved from it, and its
\* chunks all lie below its fill mark.
HeadOK ==
  /\ heap[memnode].size = MEMBLOCK_SIZE
  /\ heap[memnode].ok \/ heap[memnode].currPos = 0
  /\ \A c \in chunks : c.node = memnode => c.off + c.size <= heap[memnode].currPos

IInv == /\ TypeOK
        /\ HeadOK
        /\ ChunksInBounds
        /\ ChunksDisjoint
        /\ ChunksAligned

-----------------------------------------------------------------------------
LEMMA ModMultiple ==
  ASSUME NEW k \in Nat, NEW a \in Nat \ {0}
  PROVE  (k * a) % a = 0
OBVIOUS

\* Aligning never moves the mark backwards, and lands on a multiple.
LEMMA AlignUpProperties ==
  ASSUME NEW pos \in Nat, NEW a \in Nat \ {0}
  PROVE  /\ AlignUp(pos, a) \in Nat
         /\ AlignUp(pos, a) >= pos
         /\ AlignUp(pos, a) % a = 0
         /\ pos = 0 => AlignUp(pos, a) = 0
<1>1. CASE pos % a = 0
  BY <1>1 DEF AlignUp
<1>2. CASE pos % a # 0
  <2>. DEFINE q == pos \div a
  <2>1. /\ q \in Nat
        /\ pos = a * q + (pos % a) /\ pos % a \in 0 .. (a - 1)
    OBVIOUS
  <2>2. AlignUp(pos, a) = (q + 1) * a
    BY <1>2, <2>1 DEF AlignUp
  <2>3. (q + 1) * a \in Nat /\ (q + 1) * a >= pos
    BY <2>1
  <2>4. ((q + 1) * a) % a = 0
    BY <2>1, ModMultiple
  <2>5. pos # 0
    BY <1>2
  <2>. QED  BY <2>2, <2>3, <2>4, <2>5
<1>. QED  BY <1>1, <1>2

\* A fresh node serves any small request, from its first byte.
LEMMA FreshServes ==
  ASSUME NEW size \in Nat, size <= Half, NEW a \in Nat \ {0},
         NEW id \in Nat, NEW fresh \in Node,
         fresh.currPos = 0, fresh.size = MEMBLOCK_SIZE, fresh.ok
  PROVE  AllocResult(id, fresh, size, a)
           = {[node |-> id, off |-> 0, size |-> size, align |-> a]}
<1>1. AlignUp(fresh.currPos, a) = 0
  BY AlignUpProperties
<1>2. size <= MEMBLOCK_SIZE
  BY MemAssumption DEF Half
<1>3. Fits(fresh, size, a)
  BY <1>1, <1>2 DEF Fits
<1>. QED
  BY <1>1, <1>3 DEF AllocResult

\* What a request to the head does to it, and where its chunk lies.
LEMMA AllocEffect ==
  ASSUME NEW node \in Node, NEW id \in Nat, NEW size \in Nat, NEW a \in Nat \ {0},
         node.ok \/ node.currPos = 0
  PROVE  /\ AllocStep(node, size, a) \in Node
         /\ AllocStep(node, size, a).size = node.size
         /\ AllocStep(node, size, a).ok = node.ok
         /\ AllocStep(node, size, a).currPos >= node.currPos
         /\ \A c \in AllocResult(id, node, size, a) :
              /\ c \in Chunk
              /\ c.node = id /\ node.ok
              /\ c.off >= node.currPos
              /\ c.off + c.size <= node.size
              /\ c.off + c.size <= AllocStep(node, size, a).currPos
              /\ c.off % c.align = 0
         /\ \A c, d \in AllocResult(id, node, size, a) : c = d
<1>. DEFINE pos == AlignUp(node.currPos, a)
<1>1. node.currPos \in Nat /\ node.size \in Nat
  BY DEF Node
<1>2. pos \in Nat /\ pos >= node.currPos /\ pos % a = 0
      /\ (node.currPos = 0 => pos = 0)
  BY <1>1, AlignUpProperties
<1>3. pos + size \in Nat
  BY <1>2
<1>4. AllocStep(node, size, a)
        = [node EXCEPT !.currPos = IF Fits(node, size, a) THEN pos + size
                                   ELSE pos]
  BY DEF AllocStep
<1>5. /\ AllocStep(node, size, a) \in Node
      /\ AllocStep(node, size, a).size = node.size
      /\ AllocStep(node, size, a).ok = node.ok
      /\ AllocStep(node, size, a).currPos
           = IF Fits(node, size, a) THEN pos + size ELSE pos
  BY <1>2, <1>3, <1>4 DEF Node
<1>6. AllocStep(node, size, a).currPos >= node.currPos
  BY <1>1, <1>2, <1>5
<1>7. ASSUME NEW c \in AllocResult(id, node, size, a)
      PROVE  /\ Fits(node, size, a) /\ node.ok
             /\ c = [node |-> id, off |-> pos, size |-> size, align |-> a]
  BY <1>2, <1>7 DEF AllocResult
<1>8. ASSUME NEW c \in AllocResult(id, node, size, a)
      PROVE  /\ c \in Chunk
             /\ c.node = id /\ node.ok
             /\ c.off >= node.currPos
             /\ c.off + c.size <= node.size
             /\ c.off + c.size <= AllocStep(node, size, a).currPos
             /\ c.off % c.align = 0
  BY <1>1, <1>2, <1>3, <1>5, <1>7 DEF Chunk, Fits
<1>9. \A c, d \in AllocResult(id, node, size, a) : c = d
  BY <1>7
<1>. QED  BY <1>5, <1>6, <1>8, <1>9

LEMMA IntervalGrows ==
  ASSUME NEW n \in Nat, NEW S, S \subseteq 1 .. n
  PROVE  S \cup {n + 1} \subseteq 1 .. (n + 1)
<1>. SUFFICES ASSUME NEW x \in S \cup {n + 1} PROVE x \in 1 .. (n + 1)
  OBVIOUS
<1>1. x \in S => x \in 1 .. n
  OBVIOUS
<1>. QED  BY <1>1

LEMMA NewNodeType ==
  ASSUME NEW n \in Nat, NEW next \in Nat, NEW ok \in BOOLEAN
  PROVE  /\ NewNode(n, next, ok) \in Node
         /\ NewNode(n, next, ok).size = n
         /\ NewNode(n, next, ok).ok = ok
         /\ NewNode(n, next, ok).currPos = 0
BY DEF NewNode, Node

-----------------------------------------------------------------------------
LEMMA InitInv == Init => IInv
<1>. SUFFICES ASSUME Init PROVE IInv
  OBVIOUS
<1>1. PICK ok \in BOOLEAN : heap = << NewNode(MEMBLOCK_SIZE, NULL, ok) >>
  BY DEF Init
<1>2. heap \in Seq(Node) /\ Len(heap) = 1 /\ heap[1] = NewNode(MEMBLOCK_SIZE, NULL, ok)
  BY <1>1, NewNodeType, MemAssumption
<1>. QED
  BY <1>2, NewNodeType, MemAssumption
  DEF Init, IInv, TypeOK, HeadOK, ChunksInBounds, ChunksDisjoint, ChunksAligned

\* A big node is new, so its one chunk meets no other; the head is untouched.
LEMMA AllocBigInv ==
  ASSUME IInv, NEW size \in Sizes, NEW a \in Alignments, NEW ok \in BOOLEAN,
         AllocBig(size, a, ok)
  PROVE  IInv'
<1>. DEFINE id == Len(heap) + 1
            node == NewNode(size, bigmemnode, ok)
            r == IF ok THEN {[node |-> id, off |-> 0, size |-> size, align |-> a]}
                 ELSE {}
<1>1. size \in Nat /\ a \in Nat \ {0} /\ MEMBLOCK_SIZE \in Nat
  BY MemAssumption
<1>2. heap \in Seq(Node) /\ memnode \in 1 .. Len(heap) /\ chunks \subseteq Chunk
      /\ Len(heap) \in Nat /\ bigmemnode \in Nat
  BY DEF IInv, TypeOK
<1>3. node \in Node /\ node.size = size /\ node.ok = ok
  BY <1>1, <1>2, NewNodeType
<1>4. heap' = Append(heap, node) /\ memnode' = memnode /\ chunks' = chunks \cup r
      /\ ret' = r /\ bigmemnode' = id /\ live' = live \cup {id} /\ state' = state
  BY DEF AllocBig, HandOut
<1>5. /\ heap' \in Seq(Node) /\ Len(heap') = id /\ heap'[id] = node
      /\ \A i \in 1 .. Len(heap) : heap'[i] = heap[i]
  BY <1>2, <1>3, <1>4
<1>6. \A c \in r : /\ c \in Chunk /\ c.node = id /\ ok
                   /\ c.off = 0 /\ c.size = size /\ c.off % c.align = 0
  BY <1>1, <1>2, ModMultiple DEF Chunk
<1>7. \A c, d \in r : c = d
  OBVIOUS
<1>. HIDE DEF id, node, r
<1>8. id = Len(heap) + 1
  BY DEF id
<1>9. \A c \in chunks : c.node \in 1 .. Len(heap) /\ c.node # id
                        /\ c.off \in Nat /\ c.size \in Nat
  BY <1>2, <1>8 DEF IInv, ChunksInBounds, Chunk
<1>10. TypeOK'
  <2>1. chunks' \subseteq Chunk /\ ret' \subseteq Chunk
    BY <1>2, <1>4, <1>6
  <2>2. live' \subseteq 1 .. Len(heap')
    <3>1. live \subseteq 1 .. Len(heap)
      BY DEF IInv, TypeOK
    <3>. QED  BY <1>2, <1>4, <1>5, <1>8, <3>1, IntervalGrows
  <2>. QED  BY <1>2, <1>4, <1>5, <1>8, <2>1, <2>2 DEF IInv, TypeOK
<1>11. HeadOK'
  BY <1>2, <1>4, <1>5, <1>6, <1>8 DEF IInv, HeadOK
<1>12. ChunksInBounds'
  BY <1>1, <1>2, <1>3, <1>4, <1>5, <1>6, <1>8, <1>9 DEF IInv, ChunksInBounds
<1>13. ChunksDisjoint'
  BY <1>4, <1>6, <1>7, <1>9 DEF IInv, ChunksDisjoint, Disjoint
<1>14. ChunksAligned'
  BY <1>4, <1>6 DEF IInv, ChunksAligned
<1>. QED  BY <1>10, <1>11, <1>12, <1>13, <1>14 DEF IInv

\* The head serves the request: the chunk starts at or above the old mark, and
\* every older chunk of the head ends at or below it.
LEMMA AllocTopInv ==
  ASSUME IInv, NEW size \in Sizes, NEW a \in Alignments, AllocTop(size, a)
  PROVE  IInv'
<1>. DEFINE node == AllocStep(heap[memnode], size, a)
            r == AllocResult(memnode, heap[memnode], size, a)
<1>1. size \in Nat /\ a \in Nat \ {0} /\ MEMBLOCK_SIZE \in Nat
  BY MemAssumption
<1>2. heap \in Seq(Node) /\ memnode \in 1 .. Len(heap) /\ chunks \subseteq Chunk
      /\ Len(heap) \in Nat /\ heap[memnode] \in Node
  BY DEF IInv, TypeOK
<1>3. heap' = [heap EXCEPT ![memnode] = node]
      /\ memnode' = memnode /\ chunks' = chunks \cup r /\ ret' = r
      /\ bigmemnode' = bigmemnode /\ live' = live /\ state' = state
  BY DEF AllocTop, HandOut
<1>4. heap[memnode].ok \/ heap[memnode].currPos = 0
  BY DEF IInv, HeadOK
<1>5. /\ node \in Node /\ node.size = heap[memnode].size
      /\ node.ok = heap[memnode].ok /\ node.currPos >= heap[memnode].currPos
      /\ \A c \in r : /\ c \in Chunk /\ c.node = memnode /\ node.ok
                      /\ c.off >= heap[memnode].currPos
                      /\ c.off + c.size <= node.size
                      /\ c.off + c.size <= node.currPos
                      /\ c.off % c.align = 0
      /\ \A c, d \in r : c = d
  <2>1. memnode \in Nat
    BY <1>2
  <2>. DEFINE h == heap[memnode]
              step == AllocStep(h, size, a)
              res == AllocResult(memnode, h, size, a)
  <2>2. h \in Node /\ (h.ok \/ h.currPos = 0)
    BY <1>2, <1>4
  <2>. HIDE DEF h
  <2>3. /\ step \in Node /\ step.size = h.size /\ step.ok = h.ok
        /\ step.currPos >= h.currPos
    BY <1>1, <2>1, <2>2, AllocEffect
  <2>4. \A c \in res : /\ c \in Chunk /\ c.node = memnode /\ h.ok
                       /\ c.off >= h.currPos
                       /\ c.off + c.size <= h.size
                       /\ c.off + c.size <= step.currPos
                       /\ c.off % c.align = 0
    BY <1>1, <2>1, <2>2, AllocEffect
  <2>5. \A c, d \in res : c = d
    BY <1>1, <2>1, <2>2, AllocEffect
  <2>6. node = step /\ r = res
    BY DEF h
  <2>. HIDE DEF step, res, node, r
  <2>. QED  BY <2>3, <2>4, <2>5, <2>6 DEF h
<1>6. \E c \in r : TRUE
  BY DEF AllocTop
<1>. HIDE DEF node, r
<1>7. /\ heap' \in Seq(Node) /\ Len(heap') = Len(heap) /\ heap'[memnode] = node
      /\ \A i \in 1 .. Len(heap) : i # memnode => heap'[i] = heap[i]
  BY <1>2, <1>3, <1>5
<1>8. \A i \in 1 .. Len(heap) : /\ heap'[i].size = heap[i].size
                                /\ heap'[i].ok = heap[i].ok
  BY <1>2, <1>5, <1>7
<1>9. /\ heap[memnode].currPos \in Nat /\ node.currPos \in Nat
      /\ \A c \in chunks \cup r : c.off \in Nat /\ c.size \in Nat
  BY <1>2, <1>5 DEF Node, Chunk
<1>10. TypeOK'
  BY <1>2, <1>3, <1>5, <1>7 DEF IInv, TypeOK
<1>11. HeadOK'
  <2>1. \A c \in chunks' : c.node = memnode' => c.off + c.size <= node.currPos
    BY <1>3, <1>5, <1>9 DEF IInv, HeadOK
  <2>. QED  BY <1>2, <1>3, <1>5, <1>6, <1>7, <1>8, <2>1 DEF IInv, HeadOK
<1>12. ChunksInBounds'
  BY <1>2, <1>3, <1>5, <1>7, <1>8 DEF IInv, ChunksInBounds
<1>13. ChunksDisjoint'
  <2>1. \A c \in chunks, d \in r : Disjoint(c, d) /\ Disjoint(d, c)
    BY <1>5, <1>9 DEF IInv, HeadOK, Disjoint
  <2>. QED  BY <1>3, <1>5, <2>1 DEF IInv, ChunksDisjoint
<1>14. ChunksAligned'
  BY <1>3, <1>5 DEF IInv, ChunksAligned
<1>. QED  BY <1>10, <1>11, <1>12, <1>13, <1>14 DEF IInv

\* The head is aligned in vain and a new head is pushed, whose chunk, if its
\* malloc() succeeded, is the first there.
LEMMA AllocFreshInv ==
  ASSUME IInv, NEW size \in Sizes, NEW a \in Alignments, NEW ok \in BOOLEAN,
         AllocFresh(size, a, ok)
  PROVE  IInv'
<1>. DEFINE id == Len(heap) + 1
            old == AllocStep(heap[memnode], size, a)
            fresh == NewNode(MEMBLOCK_SIZE, memnode, ok)
            node == IF ok THEN AllocStep(fresh, size, a) ELSE fresh
            tried == [heap EXCEPT ![memnode] = old]
            r == IF ok THEN AllocResult(id, fresh, size, a) ELSE {}
<1>1. size \in Nat /\ a \in Nat \ {0} /\ MEMBLOCK_SIZE \in Nat
  BY MemAssumption
<1>2. heap \in Seq(Node) /\ memnode \in 1 .. Len(heap) /\ chunks \subseteq Chunk
      /\ Len(heap) \in Nat /\ heap[memnode] \in Node /\ memnode \in Nat
  BY DEF IInv, TypeOK
<1>3. heap' = Append(tried, node) /\ memnode' = id /\ chunks' = chunks \cup r
      /\ ret' = r /\ bigmemnode' = bigmemnode /\ live' = live \cup {id}
      /\ state' = state
  BY DEF AllocFresh, HandOut
<1>a. heap[memnode].ok \/ heap[memnode].currPos = 0
  BY DEF IInv, HeadOK
<1>4. old \in Node /\ old.size = heap[memnode].size /\ old.ok = heap[memnode].ok
  <2>. HIDE DEF old
  <2>. QED  BY <1>1, <1>2, <1>a, AllocEffect DEF old
<1>5. /\ fresh \in Node /\ fresh.size = MEMBLOCK_SIZE
      /\ fresh.ok = ok /\ fresh.currPos = 0
  BY <1>1, <1>2, NewNodeType
<1>6. /\ node \in Node /\ node.size = MEMBLOCK_SIZE /\ node.ok = ok
      /\ ok \/ node.currPos = 0
      /\ \A c \in r : /\ c \in Chunk /\ c.node = id /\ ok
                      /\ c.off + c.size <= node.size
                      /\ c.off + c.size <= node.currPos
                      /\ c.off % c.align = 0
      /\ \A c, d \in r : c = d
  <2>1. CASE ok
    <3>1. id \in Nat /\ (fresh.ok \/ fresh.currPos = 0)
      BY <1>2, <1>5
    <3>2. node = AllocStep(fresh, size, a) /\ r = AllocResult(id, fresh, size, a)
      BY <2>1
    <3>3. /\ AllocStep(fresh, size, a) \in Node
          /\ AllocStep(fresh, size, a).size = fresh.size
          /\ AllocStep(fresh, size, a).ok = fresh.ok
          /\ \A c \in AllocResult(id, fresh, size, a) :
               /\ c \in Chunk /\ c.node = id
               /\ c.off + c.size <= fresh.size
               /\ c.off + c.size <= AllocStep(fresh, size, a).currPos
               /\ c.off % c.align = 0
          /\ \A c, d \in AllocResult(id, fresh, size, a) : c = d
      <4>. HIDE DEF id, fresh
      <4>. QED  BY <1>1, <1>5, <3>1, AllocEffect
    <3>. HIDE DEF id, fresh, node, r
    <3>. QED  BY <1>5, <2>1, <3>2, <3>3
  <2>2. CASE ~ok
    BY <1>5, <2>2
  <2>. QED  BY <2>1, <2>2
<1>. HIDE DEF id, old, fresh, node, r
<1>7. tried \in Seq(Node) /\ Len(tried) = Len(heap)
      /\ \A i \in 1 .. Len(heap) : tried[i] = IF i = memnode THEN old ELSE heap[i]
  BY <1>2, <1>4
<1>. HIDE DEF tried
<1>8. id = Len(heap) + 1
  BY DEF id
<1>9. /\ heap' \in Seq(Node) /\ Len(heap') = id /\ heap'[id] = node
      /\ \A i \in 1 .. Len(heap) : heap'[i] = tried[i]
  BY <1>2, <1>3, <1>6, <1>7, <1>8
<1>10. \A i \in 1 .. Len(heap) : /\ heap'[i].size = heap[i].size
                                 /\ heap'[i].ok = heap[i].ok
  BY <1>2, <1>4, <1>7, <1>9
<1>11. \A c \in chunks : c.node \in 1 .. Len(heap) /\ c.node # id
  BY <1>2, <1>8 DEF IInv, ChunksInBounds
<1>12. TypeOK'
  <2>1. chunks' \subseteq Chunk /\ ret' \subseteq Chunk
    BY <1>2, <1>3, <1>6
  <2>2. live' \subseteq 1 .. Len(heap')
    <3>1. live \subseteq 1 .. Len(heap)
      BY DEF IInv, TypeOK
    <3>2. Len(heap') = Len(heap) + 1 /\ live' = live \cup {Len(heap) + 1}
      BY <1>3, <1>8, <1>9
    <3>. QED  BY <1>2, <3>1, <3>2, IntervalGrows
  <2>. QED  BY <1>2, <1>3, <1>8, <1>9, <2>1, <2>2 DEF IInv, TypeOK
<1>13. HeadOK'
  BY <1>3, <1>6, <1>9, <1>11 DEF HeadOK
<1>14. ChunksInBounds'
  <2>1. ASSUME NEW c \in chunks
        PROVE  /\ c.node \in 1 .. Len(heap') /\ heap'[c.node].ok
               /\ c.off + c.size <= heap'[c.node].size
    BY <1>2, <1>8, <1>9, <1>10, <1>11 DEF IInv, ChunksInBounds
  <2>2. ASSUME NEW c \in r
        PROVE  /\ c.node \in 1 .. Len(heap') /\ heap'[c.node].ok
               /\ c.off + c.size <= heap'[c.node].size
    BY <1>2, <1>6, <1>8, <1>9
  <2>. QED  BY <1>3, <2>1, <2>2 DEF ChunksInBounds
<1>15. ChunksDisjoint'
  BY <1>3, <1>6, <1>11 DEF IInv, ChunksDisjoint, Disjoint
<1>16. ChunksAligned'
  BY <1>3, <1>6 DEF IInv, ChunksAligned
<1>. QED  BY <1>12, <1>13, <1>14, <1>15, <1>16 DEF IInv

LEMMA NextInv == IInv /\ [Next]_vars => IInv'
<1>. SUFFICES ASSUME IInv, [Next]_vars PROVE IInv'
  OBVIOUS
<1>1. ASSUME NEW size \in Sizes, NEW a \in Alignments, AllocTop(size, a)
      PROVE  IInv'
  BY <1>1, AllocTopInv
<1>2. ASSUME NEW size \in Sizes, NEW a \in Alignments, NEW ok \in BOOLEAN,
             AllocBig(size, a, ok)
      PROVE  IInv'
  BY <1>2, AllocBigInv
<1>3. ASSUME NEW size \in Sizes, NEW a \in Alignments, NEW ok \in BOOLEAN,
             AllocFresh(size, a, ok)
      PROVE  IInv'
  BY <1>3, AllocFreshInv
<1>4. CASE Destroy
  BY <1>4 DEF Destroy, IInv, TypeOK, HeadOK, ChunksInBounds, ChunksDisjoint,
              ChunksAligned
<1>5. CASE UNCHANGED vars
  BY <1>5 DEF vars, IInv, TypeOK, HeadOK, ChunksInBounds, ChunksDisjoint,
              ChunksAligned, Disjoint
<1>. QED  BY <1>1, <1>2, <1>3, <1>4, <1>5 DEF Next

-----------------------------------------------------------------------------
\* The state of the allocator is always well-formed (TypeOK of MemHandler).
THEOREM TypeCorrect == Spec => []TypeOK
BY InitInv, NextInv, PTL DEF Spec, IInv

\* Every chunk allocMem() hands out lies inside a block whose malloc()
\* succeeded, for every block size, request size and alignment.
THEOREM InBounds == Spec => []ChunksInBounds
BY InitInv, NextInv, PTL DEF Spec, IInv

\* No two chunks allocMem() hands out overlap.
THEOREM NoOverlap == Spec => []ChunksDisjoint
BY InitInv, NextInv, PTL DEF Spec, IInv

\* Every chunk has the alignment it was asked for with.
THEOREM Aligned == Spec => []ChunksAligned
BY InitInv, NextInv, PTL DEF Spec, IInv

\* allocMem() answers NULL only in a call during which a malloc() failed: an
\* earlier failure, which leaves a node without a block at the head, does not
\* make later calls fail.
THEOREM NullMeansFailure == Spec => NullOnlyOnFailure
<1>. DEFINE A == ret' = {} /\ state' = "open" =>
                   Len(heap') = Len(heap) + 1 /\ ~heap'[Len(heap')].ok
<1>1. ASSUME IInv, [Next]_vars PROVE [A]_<<heap, ret>>
  <2>1. ASSUME NEW size \in Sizes, NEW a \in Alignments, AllocTop(size, a)
        PROVE  A
    BY <2>1 DEF AllocTop, HandOut
  <2>2. ASSUME NEW size \in Sizes, NEW a \in Alignments, NEW ok \in BOOLEAN,
               AllocBig(size, a, ok)
        PROVE  A
    <3>. DEFINE node == NewNode(size, bigmemnode, ok)
    <3>1. heap \in Seq(Node) /\ size \in Nat /\ bigmemnode \in Nat
      BY <1>1, MemAssumption DEF IInv, TypeOK
    <3>2. node \in Node /\ node.ok = ok
      BY <3>1, NewNodeType
    <3>3. heap' = Append(heap, node)
      BY <2>2 DEF AllocBig
    <3>4. ok => ret' # {}
      BY <2>2 DEF AllocBig, HandOut
    <3>. HIDE DEF node
    <3>. QED  BY <3>1, <3>2, <3>3, <3>4
  <2>3. ASSUME NEW size \in Sizes, NEW a \in Alignments, NEW ok \in BOOLEAN,
               AllocFresh(size, a, ok)
        PROVE  A
    <3>. DEFINE fresh == NewNode(MEMBLOCK_SIZE, memnode, ok)
                old == AllocStep(heap[memnode], size, a)
                tried == [heap EXCEPT ![memnode] = old]
    <3>1. heap \in Seq(Node) /\ memnode \in 1 .. Len(heap) /\ memnode \in Nat
      BY <1>1 DEF IInv, TypeOK
    <3>2. size \in Nat /\ size <= Half /\ a \in Nat \ {0} /\ MEMBLOCK_SIZE \in Nat
      BY <2>3, MemAssumption DEF AllocFresh
    <3>3. fresh \in Node /\ fresh.size = MEMBLOCK_SIZE /\ fresh.ok = ok
          /\ fresh.currPos = 0
      BY <3>1, <3>2, NewNodeType
    <3>4. old \in Node
      BY <1>1, <3>1, <3>2, AllocEffect DEF IInv, TypeOK, HeadOK
    <3>5. tried \in Seq(Node) /\ Len(tried) = Len(heap)
      BY <3>1, <3>4
    <3>6. heap' = Append(tried, IF ok THEN AllocStep(fresh, size, a) ELSE fresh)
          /\ ret' = IF ok THEN AllocResult(Len(heap) + 1, fresh, size, a) ELSE {}
      BY <2>3 DEF AllocFresh, HandOut
    <3>. HIDE DEF fresh, old, tried
    <3>7. ok => ret' # {}
      <4>1. Len(heap) + 1 \in Nat
        BY <3>1
      <4>2. ASSUME ok
            PROVE  AllocResult(Len(heap) + 1, fresh, size, a)
                     = {[node |-> Len(heap) + 1, off |-> 0, size |-> size,
                         align |-> a]}
        <5>1. fresh.ok
          BY <3>3, <4>2
        <5>. QED  BY <3>2, <3>3, <4>1, <5>1, FreshServes
      <4>. QED  BY <3>6, <4>2
    <3>8. ~ok => heap' = Append(tried, fresh)
      BY <3>6
    <3>. QED  BY <3>1, <3>3, <3>5, <3>7, <3>8
  <2>4. CASE Destroy
    BY <2>4 DEF Destroy
  <2>5. CASE UNCHANGED vars
    BY <2>5 DEF vars
  <2>. QED  BY <1>1, <2>1, <2>2, <2>3, <2>4, <2>5 DEF Next
<1>. QED  BY <1>1, InitInv, NextInv, PTL DEF Spec, NullOnlyOnFailure

\* Every chunk handed out is memory of its own.
THEOREM ChunksAreSound == Spec => []ChunksSound
<1>1. ChunksInBounds /\ ChunksDisjoint /\ ChunksAligned => ChunksSound
  BY DEF ChunksSound
<1>. QED  BY <1>1, InBounds, NoOverlap, Aligned, PTL
-----------------------------------------------------------------------------
(* The lists.  A list is followed through nodes that are ever older, so the  *)
(* recursion of ChainIn ends, and what it says of a node depends on that     *)
(* node and older ones alone.                                                *)

Linked(h) == /\ h \in Seq(Node)
             /\ \A n \in 1 .. Len(h) : h[n].next < n

LEMMA NextOlder ==
  ASSUME NEW h, Linked(h), NEW n \in 1 .. Len(h)
  PROVE  h[n].next \in 0 .. Len(h) /\ h[n].next < n
<1>1. h[n] \in Node /\ h[n].next < n /\ Len(h) \in Nat
  BY DEF Linked
<1>2. h[n].next \in Nat
  BY <1>1 DEF Node
<1>. QED  BY <1>1, <1>2

\* The equation of ChainIn has a solution, built from the oldest node on.
LEMMA ChainExists ==
  ASSUME NEW h, Linked(h)
  PROVE  \E f : f = [id \in 0 .. Len(h) |->
                       IF id = NULL THEN {} ELSE {id} \cup f[h[id].next]]
<1>. DEFINE L == Len(h)
            Body(f, id) == IF id = NULL THEN {} ELSE {id} \cup f[h[id].next]
            Solves(f, k) == \A id \in 0 .. L : id <= k => f[id] = Body(f, id)
            T == {k \in Nat : k <= L => \E f \in [0 .. L -> SUBSET Nat] : Solves(f, k)}
<1>1. L \in Nat
  BY DEF Linked
<1>2. \A n \in 1 .. L : h[n].next \in 0 .. L /\ h[n].next < n
  BY NextOlder
<1>. HIDE DEF L
<1>3. 0 \in T
  <2>. DEFINE f == [id \in 0 .. L |-> {}]
  <2>1. f \in [0 .. L -> SUBSET Nat] /\ Solves(f, 0)
    BY <1>1
  <2>. HIDE DEF f, Solves
  <2>. QED  BY <2>1
<1>4. ASSUME NEW k \in Nat, k \in T PROVE k + 1 \in T
  <2>. SUFFICES ASSUME k + 1 <= L
                PROVE  \E f \in [0 .. L -> SUBSET Nat] : Solves(f, k + 1)
    <3>. HIDE DEF Solves
    <3>. QED  OBVIOUS
  <2>. HIDE DEF Solves
  <2>1. PICK f \in [0 .. L -> SUBSET Nat] : Solves(f, k)
    <3>1. k <= L
      BY <1>1
    <3>. QED  BY <1>4, <3>1
  <2>. DEFINE m == k + 1
              g == [f EXCEPT ![m] = {m} \cup f[h[m].next]]
  <2>2. m \in 1 .. L /\ m \in 0 .. L /\ m \in Nat /\ m # 0
    BY <1>1
  <2>3. h[m].next \in 0 .. L /\ h[m].next # m
    BY <1>2, <2>2
  <2>. HIDE DEF m
  <2>4. g \in [0 .. L -> SUBSET Nat]
    <3>1. {m} \cup f[h[m].next] \in SUBSET Nat
      BY <2>2, <2>3
    <3>. QED  BY <3>1
  <2>5. g[m] = {m} \cup f[h[m].next] /\ \A id \in 0 .. L : id # m => g[id] = f[id]
    BY <2>2
  <2>. HIDE DEF g
  <2>6. g[m] = Body(g, m)
    BY <2>2, <2>3, <2>5
  <2>7. ASSUME NEW id \in 0 .. L, id <= k PROVE g[id] = Body(g, id)
    <3>1. f[id] = Body(f, id)
      BY <2>1, <2>7 DEF Solves
    <3>2. id # m
      BY <2>7 DEF m
    <3>3. id # 0 => h[id].next \in 0 .. L /\ h[id].next # m
      <4>. SUFFICES ASSUME id # 0 PROVE h[id].next \in 0 .. L /\ h[id].next # m
        OBVIOUS
      <4>1. id \in 1 .. L
        BY <1>1
      <4>2. h[id].next \in 0 .. L /\ h[id].next < id
        BY <1>2, <4>1
      <4>. QED  BY <2>7, <4>2 DEF m
    <3>. QED  BY <2>5, <3>1, <3>2, <3>3
  <2>8. \A id \in 0 .. L : id <= k + 1 => id = m \/ id <= k
    BY <1>1 DEF m
  <2>9. Solves(g, k + 1)
    <3>. HIDE DEF Body
    <3>. QED  BY <2>6, <2>7, <2>8 DEF Solves
  <2>. QED  BY <2>4, <2>9
<1>. HIDE DEF T
<1>5. L \in T
  BY <1>1, <1>3, <1>4, SetInduction
<1>6. PICK f \in [0 .. L -> SUBSET Nat] : Solves(f, L)
  <2>. HIDE DEF Solves
  <2>1. L <= L
    BY <1>1
  <2>. QED  BY <1>5, <2>1 DEF T
<1>7. \A id \in 0 .. L : f[id] = Body(f, id)
  BY <1>1, <1>6
<1>8. f = [id \in 0 .. L |-> Body(f, id)]
  <2>. HIDE DEF Body
  <2>. QED  BY <1>7
<1>. QED  BY <1>8 DEF L

LEMMA ChainStep ==
  ASSUME NEW h, Linked(h), NEW id \in 0 .. Len(h)
  PROVE  ChainIn(h)[id] = IF id = NULL THEN {} ELSE {id} \cup ChainIn(h)[h[id].next]
<1>. DEFINE E(f) == f = [i \in 0 .. Len(h) |->
                          IF i = NULL THEN {} ELSE {i} \cup f[h[i].next]]
<1>1. \E f : E(f)
  BY ChainExists
<1>2. ChainIn(h) = CHOOSE f : E(f)
  BY DEF ChainIn
<1>. HIDE DEF E
<1>3. E(ChainIn(h))
  BY <1>1, <1>2
<1>. QED  BY <1>3 DEF E

\* A list holds nodes that are no younger than its head.
LEMMA ChainBelow ==
  ASSUME NEW h, Linked(h)
  PROVE  \A id \in 0 .. Len(h) : \A n \in ChainIn(h)[id] : n \in 1 .. Len(h) /\ n <= id
<1>. DEFINE L == Len(h)
            Good(id) == \A n \in ChainIn(h)[id] : n \in 1 .. L /\ n <= id
            T == {k \in Nat : \A id \in 0 .. L : id <= k => Good(id)}
<1>1. L \in Nat
  BY DEF Linked
<1>2. \A n \in 1 .. L : h[n].next \in 0 .. L /\ h[n].next < n
  BY NextOlder
<1>3. \A id \in 0 .. L : ChainIn(h)[id] = IF id = 0 THEN {}
                                          ELSE {id} \cup ChainIn(h)[h[id].next]
  BY ChainStep
<1>. HIDE DEF L
<1>4. 0 \in T
  <2>1. \A id \in 0 .. L : id <= 0 => id = 0
    BY <1>1
  <2>2. 0 \in 0 .. L
    BY <1>1
  <2>3. ChainIn(h)[0] = {}
    BY <1>3, <2>2
  <2>. QED  BY <2>1, <2>3
<1>5. ASSUME NEW k \in Nat, k \in T PROVE k + 1 \in T
  <2>. SUFFICES ASSUME NEW id \in 0 .. L, id <= k + 1, NEW n \in ChainIn(h)[id]
                PROVE  n \in 1 .. L /\ n <= id
    BY DEF T
  <2>1. id # 0 /\ id \in 1 .. L /\ n \in {id} \cup ChainIn(h)[h[id].next]
    <3>1. id # 0
      BY <1>3
    <3>2. id \in 1 .. L
      BY <1>1, <3>1
    <3>. QED  BY <1>3, <3>1, <3>2
  <2>2. h[id].next \in 0 .. L /\ h[id].next < id
    BY <1>2, <2>1
  <2>3. h[id].next <= k
    BY <1>1, <2>1, <2>2
  <2>4. Good(h[id].next)
    BY <1>5, <2>2, <2>3
  <2>5. n \in ChainIn(h)[h[id].next] => n \in 1 .. L /\ n <= h[id].next
    BY <2>4
  <2>. QED  BY <1>1, <2>1, <2>2, <2>5
<1>. HIDE DEF T
<1>6. L \in T
  BY <1>1, <1>4, <1>5, SetInduction
<1>7. \A id \in 0 .. L : id <= L
  BY <1>1
<1>. QED  BY <1>6, <1>7 DEF T, L

\* Nodes that keep their successors keep their lists, whatever is added.
LEMMA ChainSame ==
  ASSUME NEW h, Linked(h), NEW g, Linked(g), Len(h) <= Len(g),
         \A n \in 1 .. Len(h) : g[n].next = h[n].next
  PROVE  \A id \in 0 .. Len(h) : ChainIn(g)[id] = ChainIn(h)[id]
<1>. DEFINE L == Len(h)
            Same(id) == ChainIn(g)[id] = ChainIn(h)[id]
            T == {k \in Nat : \A id \in 0 .. L : id <= k => Same(id)}
<1>1. L \in Nat /\ Len(g) \in Nat /\ L <= Len(g)
  BY DEF Linked
<1>2. \A n \in 1 .. L : h[n].next \in 0 .. L /\ h[n].next < n /\ g[n].next = h[n].next
  BY NextOlder
<1>3. \A id \in 0 .. L : ChainIn(h)[id] = IF id = 0 THEN {}
                                          ELSE {id} \cup ChainIn(h)[h[id].next]
  BY ChainStep
<1>4. \A id \in 0 .. L : ChainIn(g)[id] = IF id = 0 THEN {}
                                          ELSE {id} \cup ChainIn(g)[g[id].next]
  <2>1. \A id \in 0 .. L : id \in 0 .. Len(g)
    BY <1>1
  <2>. QED  BY <2>1, ChainStep
<1>. HIDE DEF L
<1>5. 0 \in T
  <2>1. \A id \in 0 .. L : id <= 0 => id = 0
    BY <1>1
  <2>2. 0 \in 0 .. L
    BY <1>1
  <2>3. ChainIn(h)[0] = {} /\ ChainIn(g)[0] = {}
    BY <1>3, <1>4, <2>2
  <2>. QED  BY <2>1, <2>3
<1>6. ASSUME NEW k \in Nat, k \in T PROVE k + 1 \in T
  <2>. SUFFICES ASSUME NEW id \in 0 .. L, id <= k + 1 PROVE Same(id)
    BY DEF T
  <2>1. CASE id = 0
    BY <1>3, <1>4, <2>1
  <2>2. CASE id # 0
    <3>1. id \in 1 .. L
      BY <1>1, <2>2
    <3>2. h[id].next \in 0 .. L /\ h[id].next <= k /\ g[id].next = h[id].next
      BY <1>1, <1>2, <3>1
    <3>3. Same(h[id].next)
      BY <1>6, <3>2
    <3>4. ChainIn(h)[id] = {id} \cup ChainIn(h)[h[id].next]
      BY <1>3, <2>2
    <3>5. ChainIn(g)[id] = {id} \cup ChainIn(g)[h[id].next]
      BY <1>4, <2>2, <3>2
    <3>. QED  BY <3>3, <3>4, <3>5
  <2>. QED  BY <2>1, <2>2
<1>. HIDE DEF T
<1>7. L \in T
  BY <1>1, <1>5, <1>6, SetInduction
<1>8. \A id \in 0 .. L : id <= L
  BY <1>1
<1>. QED  BY <1>7, <1>8 DEF T, L

-----------------------------------------------------------------------------
(* Nothing is wasted.                                                        *)

\* Every node is on one of the two lists.
Reached == Nodes \subseteq Chain[memnode] \cup Chain[bigmemnode]

WInv == IInv /\ Linked(heap) /\ Reached /\ RetiredHalfFull /\ NothingLeaks

LEMMA InitWasted == Init => WInv
<1>. SUFFICES ASSUME Init PROVE WInv
  OBVIOUS
<1>1. IInv
  BY InitInv
<1>2. PICK ok \in BOOLEAN : heap = << NewNode(MEMBLOCK_SIZE, NULL, ok) >>
  BY DEF Init
<1>3. Len(heap) = 1 /\ heap[1].next = 0 /\ heap \in Seq(Node)
  BY <1>1, <1>2 DEF NewNode, IInv, TypeOK
<1>4. Linked(heap)
  BY <1>3 DEF Linked
<1>5. Chain[0] = {} /\ Chain[1] = {1}
  <2>1. 0 \in 0 .. Len(heap) /\ 1 \in 0 .. Len(heap)
    BY <1>3
  <2>2. Chain[0] = {}
    BY <1>4, <2>1, ChainStep DEF Chain
  <2>3. Chain[1] = {1} \cup Chain[heap[1].next]
    <3>1. ChainIn(heap)[1] = IF 1 = NULL THEN {}
                             ELSE {1} \cup ChainIn(heap)[heap[1].next]
      <4>. HIDE DEF NULL
      <4>. QED  BY <1>4, <2>1, ChainStep
    <3>. QED  BY <3>1 DEF Chain
  <2>. QED  BY <1>3, <2>2, <2>3
<1>. QED  BY <1>1, <1>3, <1>4, <1>5 DEF WInv, Reached, RetiredHalfFull, NothingLeaks, Init

LEMMA AllocBigWasted ==
  ASSUME WInv, NEW size \in Sizes, NEW a \in Alignments, NEW ok \in BOOLEAN,
         AllocBig(size, a, ok), IInv'
  PROVE  WInv'
<1>. DEFINE id == Len(heap) + 1
            node == NewNode(size, bigmemnode, ok)
<1>1. /\ heap \in Seq(Node) /\ Len(heap) \in Nat /\ memnode \in 1 .. Len(heap)
      /\ bigmemnode \in 0 .. Len(heap) /\ heap' \in Seq(Node)
  BY DEF WInv, IInv, TypeOK
<1>2. heap' = Append(heap, node) /\ memnode' = memnode /\ bigmemnode' = id
      /\ state = "open" /\ state' = state
  BY DEF AllocBig
<1>3. node.next = bigmemnode
  BY DEF NewNode
<1>. HIDE DEF node
<1>4. Len(heap') = id /\ heap'[id] = node /\ \A n \in 1 .. Len(heap) : heap'[n] = heap[n]
  BY <1>1, <1>2
<1>5. Linked(heap')
  BY <1>1, <1>3, <1>4 DEF WInv, Linked
<1>6. \A n \in 0 .. Len(heap) : Chain'[n] = Chain[n]
  <2>1. \A n \in 1 .. Len(heap) : heap'[n].next = heap[n].next
    BY <1>4
  <2>2. Len(heap) <= Len(heap') /\ Linked(heap)
    BY <1>1, <1>4 DEF WInv
  <2>. QED  BY <1>5, <2>1, <2>2, ChainSame DEF Chain
<1>7. Chain'[id] = {id} \cup Chain'[bigmemnode]
  <2>1. id \in 0 .. Len(heap') /\ id # 0 /\ heap'[id].next = bigmemnode
    BY <1>1, <1>3, <1>4
  <2>. QED  BY <1>5, <2>1, ChainStep DEF Chain
<1>8. Reached'
  <2>1. \A n \in 1 .. Len(heap') : n \in 1 .. Len(heap) \/ n = id
    BY <1>1, <1>4
  <2>. QED  BY <1>1, <1>2, <1>6, <1>7, <2>1 DEF WInv, Reached
<1>9. RetiredHalfFull'
  <2>1. \A n \in Chain[memnode] : n \in 1 .. Len(heap)
    BY <1>1, ChainBelow DEF Chain, WInv
  <2>. QED  BY <1>1, <1>2, <1>4, <1>6, <2>1 DEF WInv, RetiredHalfFull
<1>. QED  BY <1>2, <1>5, <1>8, <1>9 DEF WInv, NothingLeaks

LEMMA AllocTopWasted ==
  ASSUME WInv, NEW size \in Sizes, NEW a \in Alignments, AllocTop(size, a), IInv'
  PROVE  WInv'
<1>. DEFINE node == AllocStep(heap[memnode], size, a)
<1>1. /\ heap \in Seq(Node) /\ Len(heap) \in Nat /\ memnode \in 1 .. Len(heap)
      /\ bigmemnode \in 0 .. Len(heap) /\ heap' \in Seq(Node)
  BY DEF WInv, IInv, TypeOK
<1>2. heap' = [heap EXCEPT ![memnode] = node] /\ memnode' = memnode
      /\ bigmemnode' = bigmemnode /\ state = "open" /\ state' = state
  BY DEF AllocTop
<1>3. node.next = heap[memnode].next
  BY <1>1 DEF AllocStep, Node
<1>. HIDE DEF node
<1>4. /\ Len(heap') = Len(heap) /\ heap'[memnode] = node
      /\ \A n \in 1 .. Len(heap) : n # memnode => heap'[n] = heap[n]
  BY <1>1, <1>2
<1>5. \A n \in 1 .. Len(heap) : heap'[n].next = heap[n].next
  BY <1>3, <1>4
<1>6. Linked(heap) /\ Linked(heap')
  BY <1>1, <1>4, <1>5 DEF WInv, Linked
<1>7. \A n \in 0 .. Len(heap) : Chain'[n] = Chain[n]
  <2>1. Len(heap) <= Len(heap')
    BY <1>1, <1>4
  <2>. QED  BY <1>5, <1>6, <2>1, ChainSame DEF Chain
<1>8. Reached'
  BY <1>1, <1>2, <1>4, <1>7 DEF WInv, Reached
<1>9. RetiredHalfFull'
  <2>1. \A n \in Chain[memnode] : n \in 1 .. Len(heap)
    BY <1>1, <1>6, ChainBelow DEF Chain
  <2>. QED  BY <1>1, <1>2, <1>4, <1>7, <2>1 DEF WInv, RetiredHalfFull
<1>. QED  BY <1>2, <1>6, <1>8, <1>9 DEF WInv, NothingLeaks

\* The head that is given up did not fit a request of at most half a node, so
\* more than half of it is filled or lost to alignment.
LEMMA GivenUpHalfFull ==
  ASSUME NEW node \in Node, NEW id, NEW size \in Nat, NEW a \in Nat \ {0},
         node.size = MEMBLOCK_SIZE, size <= Half, node.ok,
         AllocResult(id, node, size, a) = {}
  PROVE  2 * AllocStep(node, size, a).currPos >= MEMBLOCK_SIZE
<1>. DEFINE pos == AlignUp(node.currPos, a)
<1>1. node.currPos \in Nat
  BY DEF Node
<1>2. pos \in Nat
  BY <1>1, AlignUpProperties
<1>3. ~Fits(node, size, a)
  BY DEF AllocResult
<1>4. AllocStep(node, size, a).currPos = pos
  BY <1>3 DEF AllocStep, Node
<1>5. pos + size > MEMBLOCK_SIZE
  BY <1>2, <1>3, MemAssumption DEF Fits
<1>6. 2 * size <= MEMBLOCK_SIZE
  BY MemAssumption DEF Half
<1>. HIDE DEF pos
<1>7. 2 * pos >= MEMBLOCK_SIZE
  BY <1>2, <1>5, <1>6, MemAssumption
<1>. QED  BY <1>4, <1>7

LEMMA AllocFreshWasted ==
  ASSUME WInv, NEW size \in Sizes, NEW a \in Alignments, NEW ok \in BOOLEAN,
         AllocFresh(size, a, ok), IInv'
  PROVE  WInv'
<1>. DEFINE id == Len(heap) + 1
            old == AllocStep(heap[memnode], size, a)
            fresh == NewNode(MEMBLOCK_SIZE, memnode, ok)
            node == IF ok THEN AllocStep(fresh, size, a) ELSE fresh
            tried == [heap EXCEPT ![memnode] = old]
<1>1. /\ heap \in Seq(Node) /\ Len(heap) \in Nat /\ memnode \in 1 .. Len(heap)
      /\ bigmemnode \in 0 .. Len(heap) /\ heap' \in Seq(Node) /\ heap[memnode] \in Node
  BY DEF WInv, IInv, TypeOK
<1>2. heap' = Append(tried, node) /\ memnode' = id
      /\ bigmemnode' = bigmemnode /\ state = "open" /\ state' = state
  BY DEF AllocFresh
<1>3. old.next = heap[memnode].next
  BY <1>1 DEF AllocStep, Node
<1>4. node.next = memnode
  BY DEF AllocStep, NewNode
<1>5. heap[memnode].ok => 2 * old.currPos >= MEMBLOCK_SIZE
  <2>1. size \in Nat /\ a \in Nat \ {0} /\ size <= Half
    BY MemAssumption DEF AllocFresh
  <2>2. heap[memnode].size = MEMBLOCK_SIZE
        /\ AllocResult(memnode, heap[memnode], size, a) = {}
    BY DEF AllocFresh, WInv, IInv, HeadOK
  <2>. QED  BY <1>1, <2>1, <2>2, GivenUpHalfFull
<1>6. old.ok = heap[memnode].ok
  BY <1>1 DEF AllocStep, Node
<1>. HIDE DEF old, fresh, node
<1>7. Len(tried) = Len(heap) /\ tried[memnode] = old
      /\ \A n \in 1 .. Len(heap) : n # memnode => tried[n] = heap[n]
  BY <1>1
<1>8. /\ Len(heap') = id /\ heap'[id] = node
      /\ \A n \in 1 .. Len(heap) : heap'[n] = tried[n]
  <2>1. tried \in Seq(Node \cup {old})
    BY <1>1
  <2>. HIDE DEF tried
  <2>2. Append(tried, node) \in Seq(Node \cup {old, node})
        /\ Len(Append(tried, node)) = Len(tried) + 1
        /\ Append(tried, node)[Len(tried) + 1] = node
        /\ \A n \in 1 .. Len(tried) : Append(tried, node)[n] = tried[n]
    BY <2>1
  <2>. QED  BY <1>2, <1>7, <2>2
<1>. HIDE DEF tried
<1>9. \A n \in 1 .. Len(heap) : heap'[n].next = heap[n].next
  BY <1>1, <1>3, <1>7, <1>8
<1>10. Linked(heap) /\ Linked(heap')
  <2>1. \A n \in 1 .. Len(heap') : n \in 1 .. Len(heap) \/ n = id
    BY <1>1, <1>8
  <2>. QED  BY <1>1, <1>4, <1>8, <1>9, <2>1 DEF WInv, Linked
<1>11. \A n \in 0 .. Len(heap) : Chain'[n] = Chain[n]
  <2>1. Len(heap) <= Len(heap')
    BY <1>1, <1>8
  <2>. QED  BY <1>9, <1>10, <2>1, ChainSame DEF Chain
<1>12. Chain'[id] = {id} \cup Chain'[memnode]
  <2>1. id \in 0 .. Len(heap') /\ id # 0 /\ heap'[id].next = memnode
    BY <1>1, <1>4, <1>8
  <2>. QED  BY <1>10, <2>1, ChainStep DEF Chain
<1>13. Reached'
  <2>1. \A n \in 1 .. Len(heap') : n \in 1 .. Len(heap) \/ n = id
    BY <1>1, <1>8
  <2>. QED  BY <1>1, <1>2, <1>11, <1>12, <2>1 DEF WInv, Reached
<1>14. RetiredHalfFull'
  <2>. SUFFICES ASSUME NEW n \in Chain'[id], n # id, heap'[n].ok
                PROVE  2 * heap'[n].currPos >= MEMBLOCK_SIZE
    BY <1>2 DEF RetiredHalfFull
  <2>1. n \in Chain[memnode]
    BY <1>1, <1>11, <1>12
  <2>2. n \in 1 .. Len(heap)
    BY <1>1, <1>10, <2>1, ChainBelow DEF Chain
  <2>3. CASE n = memnode
    BY <1>5, <1>6, <1>7, <1>8, <2>2, <2>3
  <2>4. CASE n # memnode
    BY <1>7, <1>8, <2>1, <2>2, <2>4 DEF WInv, RetiredHalfFull
  <2>. QED  BY <2>3, <2>4
<1>. QED  BY <1>2, <1>10, <1>13, <1>14 DEF WInv, NothingLeaks

LEMMA NextWasted == WInv /\ [Next]_vars => WInv'
<1>. SUFFICES ASSUME WInv, [Next]_vars PROVE WInv'
  OBVIOUS
<1>0. IInv'
  BY NextInv DEF WInv
<1>1. ASSUME NEW size \in Sizes, NEW a \in Alignments, AllocTop(size, a)
      PROVE  WInv'
  BY <1>0, <1>1, AllocTopWasted
<1>2. ASSUME NEW size \in Sizes, NEW a \in Alignments, NEW ok \in BOOLEAN,
             AllocBig(size, a, ok)
      PROVE  WInv'
  BY <1>0, <1>2, AllocBigWasted
<1>3. ASSUME NEW size \in Sizes, NEW a \in Alignments, NEW ok \in BOOLEAN,
             AllocFresh(size, a, ok)
      PROVE  WInv'
  BY <1>0, <1>3, AllocFreshWasted
<1>4. CASE Destroy
  <2>1. live \subseteq Chain[memnode] \cup Chain[bigmemnode]
    BY DEF WInv, Reached, IInv, TypeOK
  <2>2. live' = {} /\ heap' = heap /\ memnode' = memnode /\ bigmemnode' = bigmemnode
    BY <1>4, <2>1 DEF Destroy
  <2>. QED  BY <1>0, <2>2 DEF WInv, Reached, RetiredHalfFull, NothingLeaks, Chain
<1>5. CASE UNCHANGED vars
  BY <1>0, <1>5 DEF vars, WInv, Reached, RetiredHalfFull, NothingLeaks, Chain
<1>. QED  BY <1>1, <1>2, <1>3, <1>4, <1>5 DEF Next

\* No small node is given up before half of it is used, and the destructor
\* meets every node there is, those without a block included.
THEOREM WastesNothing == Spec => []NothingWasted
<1>1. WInv => NothingWasted
  BY DEF WInv, NothingWasted
<1>. QED  BY <1>1, InitWasted, NextWasted, PTL DEF Spec
=============================================================================
