-------------------------- MODULE DrawingTraversal --------------------------
(***************************************************************************)
(* dimeModel::traverseEntities() over a drawing that has been read, edited *)
(* and marked (DrawingCopy).  Traversing changes nothing in the drawing,   *)
(* so it is an operator on its state, and what it returns is compared with *)
(* counts that do not follow its order.                                    *)
(***************************************************************************)
EXTENDS DrawingCopy, Eager

(* dimeModel::traverseEntities.  "seen" is what the callback was called    *)
(* with, an ENDBLK as the negated block; the callback answers TRUE but to  *)
(* "no".  Blocks show blocks: "shows" is how those of a block are shown.   *)

Traces == [seen : Seq(Int), status : {"going", "stopped", "endless"}]

Call(r, e, no) ==
  [r EXCEPT !.seen = Append(@, e), !.status = IF e = no THEN "stopped" ELSE @]

Times(e) == IF e \in DOMAIN grid THEN grid[e] ELSE 1

\* a loop that ends where what it calls answers FALSE
OneByOne(show, r, xs) ==
  Fold(LAMBDA s, x : IF s.status = "going" THEN show[x][s] ELSE s, r, xs)

Show_AlwaysExploded(shows, r, e, explode, no) ==
  IF IsInsert(e) /\ obj[e].block # NULL
  THEN shows[obj[e].block][r]
  ELSE IF e \in deleted THEN r ELSE Call(r, e, no)

Exploded(e, explode) == explode /\ IsInsert(e) /\ obj[e].block # NULL

\* dimeInsert::traverse for an INSERT, dimeEntity::traverse for the others;
\* an INSERT that is exploded is shown although it is marked
Show(shows, r, e, explode, no) ==
  IF Exploded(e, explode)
  THEN OneByOne(shows, r, [i \in 1 .. Times(e) |-> obj[e].block])
  ELSE IF e \in deleted THEN r ELSE Call(r, e, no)

ShowAll(shows, r, ids, explode, no) ==
  OneByOne([e \in Ids |-> [s \in Traces |-> Show(shows, s, e, explode, no)]], r, ids)

\* dimeBlock::traverse: a callback that answers FALSE to the BLOCK only
\* skips what is in it
ShowBlock(shows, r, b, explode, no) ==
  LET opened == [r EXCEPT !.seen = Append(@, b)]
      in == IF b = no THEN opened
            ELSE ShowAll(shows, opened, obj[b].members, explode, no)
  IN  IF in.status # "going" \/ b \in built THEN in ELSE Call(in, -b, no)

\* blocks nested deeper than there are blocks contain themselves
Nested(explode, no) ==
  LET to[depth \in 0 .. Len(obj) + 1] ==
        [b \in Ids |-> [r \in Traces |->
           IF depth = 0 THEN [r EXCEPT !.status = "endless"]
           ELSE ShowBlock(to[depth - 1], r, b, explode, no)]]
  IN  to[Len(obj) + 1]

Traverse(blocks, explode, no) ==
  LET start == [seen |-> << >>, status |-> "going"]
      shows == Nested(explode, no)
      first == OneByOne(shows, start, IF blocks THEN ItemsOf(sections, "BLOCKS") ELSE << >>)
  IN  IF first.status = "going"
      THEN ShowAll(shows, first, ItemsOf(sections, "ENTITIES"), explode, no)
      ELSE first
-----------------------------------------------------------------------------
Occurs(x, ids) == Cardinality({i \in DOMAIN ids : ids[i] = x})

Sum(numbers) == Fold(LAMBDA n, m : n + m, 0, numbers)

\* the blocks that those of a list show through INSERTs with a row and a
\* column; and the blocks reached from some: those of every set that has the
\* first and all that its blocks show
ShownBy(ids) == {obj[e].block : e \in {i \in Range(ids) :
                   IsInsert(i) /\ obj[i].block # NULL /\ Times(i) > 0}}
Closed(bs) == \A b \in bs : ShownBy(obj[b].members) \subseteq bs
Reached(from) ==
  {b \in Ids : \A bs \in SUBSET Ids : from \subseteq bs /\ Closed(bs) => b \in bs}

\* the blocks a traversal enters
Entered(blocks) ==
  Reached(ShownBy(ItemsOf(sections, "ENTITIES"))
            \cup IF blocks THEN Range(ItemsOf(sections, "BLOCKS")) ELSE {})
Circular(blocks) ==
  \E b \in Entered(blocks) : b \in Reached(ShownBy(obj[b].members))

\* traverseEntities() ends unless INSERTs are exploded and a block it enters
\* shows itself, directly or through others; then it recurses without end.
TraversalEnds ==
  phase = "ready" =>
    \A blocks, explode \in BOOLEAN :
      Traverse(blocks, explode, 0).status
        = IF explode /\ Circular(blocks) THEN "endless" ELSE "going"

\* What a traversal that ends shows, counted without following its order: an
\* entity once for each time the list it is in is gone through, a block once
\* for each cell of each INSERT that is exploded, marked as deleted or not, and
\* a deleted entity never.
TraversalCounts ==
  phase = "ready" =>
    \A blocks, explode \in BOOLEAN :
      LET r == Traverse(blocks, explode, 0)
          seen == [x \in Ids \cup {-b : b \in Ids} |-> Occurs(x, r.seen)]
          visits == [e \in Ids |->
                       Occurs(e, ItemsOf(sections, "ENTITIES"))
                         + Sum([b \in Ids |-> IF e \in Range(obj[b].members) THEN seen[b] ELSE 0])]
          Cells(b) == [i \in Ids |-> IF Exploded(i, explode) /\ obj[i].block = b
                                     THEN visits[i] * Times(i) ELSE 0]
      IN  r.status = "going" =>
            \A e \in Ids :
              IF obj[e].kind = "BLOCK"
              THEN /\ seen[e] = (IF blocks THEN Occurs(e, ItemsOf(sections, "BLOCKS")) ELSE 0)
                                  + Sum(Cells(e))
                   /\ seen[-e] = IF e \in built THEN 0 ELSE seen[e]
              ELSE seen[e] = IF e \in deleted \/ Exploded(e, explode) THEN 0 ELSE visits[e]

\* A callback that answers FALSE to anything but a BLOCK ends the traversal there
\* and then, however deep in nested blocks; what was shown until then is what
\* the whole traversal shows.
StopsAtOnce ==
  phase = "ready" =>
    \A blocks, explode \in BOOLEAN :
      LET whole == Traverse(blocks, explode, 0)
      IN  whole.status = "going" =>
            \A no \in {x \in Range(whole.seen) : x < 0 \/ obj[x].kind # "BLOCK"} :
              LET r == Traverse(blocks, explode, no)
              IN  /\ r.status = "stopped"
                  /\ IsPrefix(r.seen, whole.seen)
                  /\ Occurs(no, r.seen) = 1 /\ Last(r.seen) = no

\* A traversal ends where it can, shows what it should and stops when told.
TraversalSound == TraversalEnds /\ TraversalCounts /\ StopsAtOnce
=============================================================================
