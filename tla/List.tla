-------------------------------- MODULE List --------------------------------
(***************************************************************************)
(* What a dimeArray is to its clients: a list, until the day it stops      *)
(* being usable at all.  Positions count from 0, as in the code.           *)
(***************************************************************************)
EXTENDS Integers, Sequences, SequencesExt

CONSTANTS
  Values,  \* the elements clients store
  Junk,    \* an element nobody stored
  Batches  \* the lists appended in one call

VARIABLES items, usable

Positions == 0 .. Len(items) - 1
Becomes(s) == usable /\ usable' /\ items' = s

Init == items = << >> /\ usable = TRUE

Push == \E v \in Values : Becomes(Append(items, v))
PushAll == \E s \in Batches : Becomes(items \o s)

\* storing beyond the end leaves whatever is there in between
Store == /\ usable /\ usable'
         /\ \E v \in Values \cup {Junk}, i \in 0 .. Len(items') - 1 :
              /\ Len(items') = IF i < Len(items) THEN Len(items) ELSE i + 1
              /\ items'[i + 1] = v
              /\ \A j \in Positions \ {i} : items'[j + 1] = items[j + 1]

Take == \E i \in Positions : Becomes(RemoveAt(items, i + 1))

\* the last element takes the place of the removed one
TakeFast ==
  \E i \in Positions :
    Becomes(Front([items EXCEPT ![i + 1] = Last(items)]))

Flip == Becomes(Reverse(items))
Truncate == \E n \in 0 .. Len(items) : Becomes(SubSeq(items, 1, n))

Break == usable /\ ~usable'

Next == \/ Push \/ PushAll \/ Store \/ Take \/ TakeFast
        \/ Flip \/ Truncate \/ Break
        \/ \E v \in Values, i \in Positions : Becomes(InsertAt(items, i + 1, v))

Spec == Init /\ [][Next]_<<items, usable>>
=============================================================================
