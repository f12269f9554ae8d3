----------------------------- MODULE MemHandler -----------------------------
(***************************************************************************)
(* dimeMemHandler (src/src/util/MemHandler.cpp), the region allocator of a *)
(* dimeModel: small requests are carved from the node at the head of the   *)
(* list "memnode", requests above half a node get a node of their own on   *)
(* the list "bigmemnode", and nothing is given back before the destructor  *)
(* walks both lists.  malloc() may fail at any call.                       *)
(*                                                                         *)
(* A node is named by its position in "heap", the sequence of every        *)
(* dimeMemNode ever constructed; a list is the name of its head, NULL = 0. *)
(* "chunks" remembers what allocMem() has handed out.  A pointer result is *)
(* a set: {} for NULL, {c} for the chunk c.                                *)
(* A definition with an underscore in its name is not the code's: it is    *)
(* the fault a mutation run plants in the definition of that name.         *)
(***************************************************************************)
EXTENDS Integers, Sequences

CONSTANTS
  MEMBLOCK_SIZE,  \* bytes in a small node
  Sizes,          \* the sizes clients ask for
  Alignments,     \* the alignments they ask for
  MaxNodes        \* bound: no allocation begins once this many nodes exist

ASSUME MemAssumption ==
  /\ MEMBLOCK_SIZE \in Nat \ {0}
  /\ Sizes \subseteq Nat
  /\ Alignments \subseteq Nat \ {0}
  /\ MaxNodes \in Nat

VARIABLES
  heap,        \* every node constructed: [next, size, ok, currPos]
  memnode,     \* head of the list of small nodes
  bigmemnode,  \* head of the list of big nodes
  live,        \* nodes not yet deleted
  chunks,      \* [node, off, size, align] handed out so far
  ret,         \* what the last call returned
  state        \* "open", or "closed" once the destructor has run

vars == <<heap, memnode, bigmemnode, live, chunks, ret, state>>

NULL == 0
Nodes == 1 .. Len(heap)
Half_Whole == MEMBLOCK_SIZE
Half == MEMBLOCK_SIZE \div 2

NewNode_PosUnset(numbytes, next_node, ok) ==
  [next |-> next_node, size |-> numbytes, ok |-> ok, currPos |-> -1]

\* dimeMemNode(numbytes, next_node): ok records whether malloc() succeeded
NewNode(numbytes, next_node, ok) ==
  [next |-> next_node, size |-> numbytes, ok |-> ok, currPos |-> 0]

\* the bit trick of dimeMemNode::alloc, for alignments that are powers of two
AlignUp(pos, alignment) ==
  IF pos % alignment = 0 THEN pos
  ELSE (pos \div alignment) * alignment + alignment

Fits_Unpadded(node, numbytes, alignment) ==
  node.currPos + numbytes <= node.size
Fits(node, numbytes, alignment) ==
  AlignUp(node.currPos, alignment) + numbytes <= node.size

\* the node after dimeMemNode::alloc: currPos is aligned even when the
\* request does not fit
AllocStep(node, numbytes, alignment) ==
  LET pos == AlignUp(node.currPos, alignment)
  IN  [node EXCEPT !.currPos = IF Fits(node, numbytes, alignment)
                               THEN pos + numbytes ELSE pos]

\* what it returns: &block[currPos].  A node whose malloc() failed has a NULL
\* block, and &NULL[pos] is the null pointer exactly when pos is 0; at any
\* other position it is a wild pointer, which a chunk on such a node stands for
AllocResult(id, node, numbytes, alignment) ==
  LET pos == AlignUp(node.currPos, alignment)
  IN  IF ~Fits(node, numbytes, alignment) \/ (~node.ok /\ pos = 0)
      THEN {}
      ELSE {[node |-> id, off |-> pos, size |-> numbytes,
             align |-> alignment]}

HandOut(r) == /\ ret' = r
              /\ chunks' = chunks \cup r

Init ==
  /\ \E ok \in BOOLEAN : heap = << NewNode(MEMBLOCK_SIZE, NULL, ok) >>
  /\ memnode = 1
  /\ bigmemnode = NULL
  /\ live = {1}
  /\ chunks = {}
  /\ ret = {}
  /\ state = "open"

\* allocMem with size > MEMBLOCK_SIZE/2
AllocBig(size, alignment, ok) ==
  LET id == Len(heap) + 1
  IN  /\ state = "open" /\ Len(heap) < MaxNodes
      /\ size > Half
      /\ heap' = Append(heap, NewNode(size, bigmemnode, ok))
      /\ bigmemnode' = id
      /\ live' = live \cup {id}
      /\ HandOut(IF ok THEN {[node |-> id, off |-> 0, size |-> size,
                              align |-> alignment]}
                 ELSE {})
      /\ UNCHANGED <<memnode, state>>

\* allocMem, small request, served by the node at the head
AllocTop(size, alignment) ==
  LET r == AllocResult(memnode, heap[memnode], size, alignment)
  IN  /\ state = "open" /\ Len(heap) < MaxNodes
      /\ size <= Half
      /\ r # {}
      /\ heap' = [heap EXCEPT ![memnode] = AllocStep(@, size, alignment)]
      /\ HandOut(r)
      /\ UNCHANGED <<memnode, bigmemnode, live, state>>

AllocFresh_NoRetry(size, alignment, ok) ==
  LET id == Len(heap) + 1
      tried == [heap EXCEPT ![memnode] = AllocStep(@, size, alignment)]
  IN  /\ state = "open" /\ Len(heap) < MaxNodes
      /\ size <= Half
      /\ AllocResult(memnode, heap[memnode], size, alignment) = {}
      /\ heap' = Append(tried, NewNode(MEMBLOCK_SIZE, memnode, ok))
      /\ memnode' = id
      /\ live' = live \cup {id}
      /\ HandOut({})
      /\ UNCHANGED <<bigmemnode, state>>

\* allocMem, small request, the head answers NULL: a new head is pushed and
\* asked again
AllocFresh(size, alignment, ok) ==
  LET id == Len(heap) + 1
      fresh == NewNode(MEMBLOCK_SIZE, memnode, ok)
      tried == [heap EXCEPT ![memnode] = AllocStep(@, size, alignment)]
  IN  /\ state = "open" /\ Len(heap) < MaxNodes
      /\ size <= Half
      /\ AllocResult(memnode, heap[memnode], size, alignment) = {}
      /\ heap' = Append(tried, IF ok THEN AllocStep(fresh, size, alignment)
                               ELSE fresh)
      /\ memnode' = id
      /\ live' = live \cup {id}
      /\ HandOut(IF ok THEN AllocResult(id, fresh, size, alignment) ELSE {})
      /\ UNCHANGED <<bigmemnode, state>>

\* the nodes the destructor's loop meets from a head; a node's next is older
ChainIn(h) ==
  LET chain[id \in 0 .. Len(h)] ==
        IF id = NULL THEN {} ELSE {id} \cup chain[h[id].next]
  IN  chain
Chain == ChainIn(heap)

\* ~dimeMemHandler
Destroy ==
  /\ state = "open"
  /\ state' = "closed"
  /\ live' = live \ (Chain[memnode] \cup Chain[bigmemnode])
  /\ chunks' = {}
  /\ UNCHANGED <<heap, memnode, bigmemnode, ret>>

Next ==
  \/ \E size \in Sizes, alignment \in Alignments :
       \/ AllocTop(size, alignment)
       \/ \E ok \in BOOLEAN : \/ AllocBig(size, alignment, ok)
                              \/ AllocFresh(size, alignment, ok)
  \/ Destroy

Spec == Init /\ [][Next]_vars
-----------------------------------------------------------------------------
Node == [next : Nat, size : Nat, ok : BOOLEAN, currPos : Nat]
Chunk == [node : Nat, off : Nat, size : Nat, align : Nat]

\* Types, and the heads name nodes that exist (MemHandler.h's two list heads).
TypeOK ==
  /\ heap \in Seq(Node)
  /\ memnode \in Nodes
  /\ bigmemnode \in Nodes \cup {NULL}
  /\ live \subseteq Nodes
  /\ chunks \subseteq Chunk
  /\ ret \subseteq Chunk
  /\ state \in {"open", "closed"}

\* allocMem() never hands out memory it does not have: every chunk lies inside
\* a block whose malloc() succeeded, below the fill mark of a small node, even
\* after a failed malloc() has left a node with a NULL block at the head.
ChunksInBounds ==
  \A c \in chunks :
    /\ c.node \in Nodes /\ heap[c.node].ok
    /\ c.off + c.size <= heap[c.node].size

\* Two results of allocMem() never share a byte, whatever alignments and node
\* changes lie between the calls.
Disjoint(c, d) ==
  c.node # d.node \/ c.off + c.size <= d.off \/ d.off + d.size <= c.off
ChunksDisjoint == \A c, d \in chunks : c = d \/ Disjoint(c, d)

\* Every chunk starts at a multiple of the alignment asked for.
ChunksAligned == \A c \in chunks : c.off % c.align = 0

\* Every result of allocMem() is memory of its own: in a block, aligned, and
\* apart from the others.
ChunksSound == ChunksInBounds /\ ChunksDisjoint /\ ChunksAligned

\* The memory overhead is bounded: a small node is given up for a new one only
\* when more than half of it is filled, which is what the MEMBLOCK_SIZE/2
\* threshold of allocMem() is for.
RetiredHalfFull ==
  \A n \in Chain[memnode] \ {memnode} :
    heap[n].ok => 2 * heap[n].currPos >= MEMBLOCK_SIZE

\* The destructor reaches every node: the two lists lose none, including the
\* nodes whose malloc() failed.
NothingLeaks == state = "closed" => live = {}

\* No memory is given up early and none is lost.
NothingWasted == RetiredHalfFull /\ NothingLeaks

\* allocMem() answers NULL only when a malloc() failed during that very call,
\* also for the calls that follow a failure.
NullOnlyOnFailure ==
  [][ ret' = {} /\ state' = "open" =>
        Len(heap') = Len(heap) + 1 /\ ~heap'[Len(heap')].ok ]_<<heap, ret>>
=============================================================================
