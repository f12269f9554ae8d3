------------------------------ MODULE DynArray ------------------------------
(***************************************************************************)
(* dimeArray<T> (src/include/dime/util/Array.h), the growable array every  *)
(* part of the library keeps its entities, records and points in.          *)
(*                                                                         *)
(* "block" is the allocated memory, "num" the count.  The code's array[i]  *)
(* is block[i + 1].  The code doubles the block when it is full, and zero  *)
(* doubled is zero: a store that finds no memory is outside the block      *)
(* ("wild"), a loop that waits for memory never ends ("hung").  Nothing is *)
(* modelled after either.  prepend() has no caller and is left out.        *)
(* A definition with an underscore in its name is not the code's: it is    *)
(* the fault a mutation run plants in the definition of that name.         *)
(***************************************************************************)
EXTENDS Integers, Sequences, SequencesExt

CONSTANTS
  Values,     \* the elements clients store
  Junk,       \* the content of memory nobody has written
  Batches,    \* the contents of the other array in append(array)
  InitSizes,  \* the sizes given to the constructor and to makeEmpty()
  MaxCount    \* bound on num

ASSUME ArrayAssumption ==
  /\ Junk \notin Values
  /\ InitSizes \subseteq Nat
  /\ Batches \subseteq Seq(Values)
  /\ MaxCount \in Nat

VARIABLES block, num, status
vars == <<block, num, status>>

Elem == Values \cup {Junk}
size == Len(block)

New(n) == [i \in 1 .. n |-> Junk]

Grown_ByHalf(b) ==
  [i \in 1 .. Len(b) + Len(b) \div 2 |-> IF i <= Len(b) THEN b[i] ELSE Junk]

\* growArray(): twice the size, the old elements first
Grown(b) == [i \in 1 .. 2 * Len(b) |-> IF i <= Len(b) THEN b[i] ELSE Junk]

\* while (index >= size) growArray(); sizes[k] is the size after k calls
Fitting(b, index) ==
  LET sizes[k \in 0 .. index + 1] == IF k = 0 THEN Len(b) ELSE 2 * sizes[k - 1]
      k == CHOOSE k \in 0 .. index + 1 :
             /\ index < sizes[k]
             /\ \A j \in 0 .. k - 1 : index >= sizes[j]
  IN  [i \in 1 .. sizes[k] |-> IF i <= Len(b) THEN b[i] ELSE Junk]

Ok == status = "ok"
Stop(how) == status' = how /\ UNCHANGED <<block, num>>

Init == /\ \E n \in InitSizes : block = New(n)
        /\ num = 0
        /\ status = "ok"
-----------------------------------------------------------------------------
\* append(elem): grow once when the block is full, then store
Room == IF num >= size THEN Grown(block) ELSE block
Appended(v) == [Room EXCEPT ![num + 1] = v]

Append1(v) ==
  /\ Ok /\ num < MaxCount
  /\ IF num + 1 \notin DOMAIN Room THEN Stop("wild")
     ELSE /\ block' = Appended(v)
          /\ num' = num + 1
          /\ UNCHANGED status

\* append(array): keeps at least one place free
AppendArray(s) ==
  /\ Ok /\ num + Len(s) <= MaxCount
  /\ IF size = 0 THEN Stop("hung")
     ELSE /\ block' = [i \in DOMAIN Fitting(block, num + Len(s)) |->
                         IF i \in num + 1 .. num + Len(s) THEN s[i - num]
                         ELSE Fitting(block, num + Len(s))[i]]
          /\ num' = num + Len(s)
          /\ UNCHANGED status

InsertElem_KeepsPlace(idx, v) ==
  /\ Ok /\ num < MaxCount
  /\ IF num + 1 \notin DOMAIN Room THEN Stop("wild")
     ELSE /\ block' = [i \in DOMAIN Appended(v) |->
                         IF i \in idx + 2 .. num THEN Appended(v)[i - 1]
                         ELSE IF i = idx + 1 THEN v ELSE Appended(v)[i]]
          /\ num' = num + 1
          /\ UNCHANGED status

\* insertElem: append, then move the elements from idx on one place up
InsertElem(idx, v) ==
  /\ Ok /\ num < MaxCount
  /\ IF num + 1 \notin DOMAIN Room THEN Stop("wild")
     ELSE /\ block' = [i \in DOMAIN Appended(v) |->
                         IF i \in idx + 2 .. num + 1 THEN Appended(v)[i - 1]
                         ELSE IF i = idx + 1 THEN v ELSE Appended(v)[i]]
          /\ num' = num + 1
          /\ UNCHANGED status

\* what setElem() and the non-const operator[] do to reach a place
Reach(index, b) ==
  IF size = 0 THEN Stop("hung")
  ELSE /\ block' = b
       /\ num' = IF num <= index THEN index + 1 ELSE num
       /\ UNCHANGED status

SetElem(index, v) ==
  /\ Ok /\ index < MaxCount
  /\ Reach(index, [Fitting(block, index) EXCEPT ![index + 1] = v])

Index(index) == Ok /\ index < MaxCount /\ Reach(index, Fitting(block, index))

\* removeElem: does nothing past the end
RemoveElem(index) ==
  /\ Ok /\ index < num
  /\ block' = [i \in DOMAIN block |->
                 IF i \in index + 1 .. num - 1 THEN block[i + 1] ELSE block[i]]
  /\ num' = num - 1
  /\ UNCHANGED status

RemoveElemFast(index) ==
  /\ Ok /\ index < num
  /\ block' = [block EXCEPT ![index + 1] = block[num]]
  /\ num' = num - 1
  /\ UNCHANGED status

\* reverse()
Flip ==
  /\ Ok
  /\ block' = [i \in DOMAIN block |->
                 IF i <= num THEN block[num + 1 - i] ELSE block[i]]
  /\ UNCHANGED <<num, status>>

SetCount(count) ==
  /\ Ok
  /\ count < num
  /\ num' = count
  /\ UNCHANGED <<block, status>>

MakeEmpty(initsize) ==
  /\ Ok
  /\ block' = New(initsize)
  /\ num' = 0
  /\ UNCHANGED status

FreeMemory == MakeEmpty(0)

ShrinkToFit ==
  /\ Ok
  /\ block' = SubSeq(block, 1, num)
  /\ UNCHANGED <<num, status>>

Next ==
  \/ ShrinkToFit
  \/ \E v \in Values : Append1(v)
  \/ \E s \in Batches : AppendArray(s)
  \/ \E v \in Values, i \in 0 .. num - 1 : InsertElem(i, v)
  \/ \E v \in Values, i \in 0 .. MaxCount : SetElem(i, v)
  \/ \E i \in 0 .. MaxCount : Index(i)
  \/ \E i \in 0 .. num - 1 : RemoveElem(i) \/ RemoveElemFast(i)
  \/ Flip
  \/ \E n \in 0 .. num : SetCount(n)
  \/ \E n \in InitSizes : MakeEmpty(n)
  \/ FreeMemory

Spec == Init /\ [][Next]_vars
-----------------------------------------------------------------------------
\* To its clients the array is a list: no doubling, shifting or shrinking
\* loses, repeats or moves an element that was stored.
Contents == INSTANCE List WITH items <- SubSeq(block, 1, num),
                               usable <- (status = "ok")
IsList == Contents!Spec

\* An array stops working in one way only: it is asked to grow when
\* shrinkToFit(), freeMemory() or a zero initial size has left it no memory.
BreaksOnlyWhenEmpty ==
  [][ status' # status => size = 0 /\ num = 0 ]_vars

\* "Whenever the allocated space for the array becomes too small, the array is
\* moved to a memory block that is twice as large" (src/src/util/Array.cpp:34):
\* a store is never outside the block.
StoresInBounds == status # "wild"
=============================================================================
