--------------------------- MODULE DynArrayProofs ---------------------------
(***************************************************************************)
(* Proofs about DynArray: for every set of elements, every initial size    *)
(* and any number of elements, the array is a list to its clients, and it  *)
(* stops working only when it is empty and has no memory.                  *)
(***************************************************************************)
EXTENDS DynArray, Induction, SequenceTheorems

-----------------------------------------------------------------------------
(* Sequences.                                                                *)

LEMMA FunctionIsSeq ==
  ASSUME NEW S, NEW n \in Nat, NEW f \in [1 .. n -> S]
  PROVE  f \in Seq(S) /\ Len(f) = n /\ DOMAIN f = 1 .. n
<1>1. f \in Seq(S)
  BY SeqDef
<1>. QED  BY <1>1, LenProperties

\* What clients see of a block.
LEMMA Visible ==
  ASSUME NEW S, NEW b \in Seq(S), NEW n \in 0 .. Len(b)
  PROVE  /\ SubSeq(b, 1, n) \in Seq(S)
         /\ Len(SubSeq(b, 1, n)) = n
         /\ \A i \in 1 .. n : SubSeq(b, 1, n)[i] = b[i]
<1>1. n \in Int /\ Len(b) \in Nat
  BY LenProperties
<1>2. \A i \in 1 .. n : b[i] \in S
  BY <1>1, ElementOfSeq
<1>3. /\ SubSeq(b, 1, n) \in Seq(S)
      /\ Len(SubSeq(b, 1, n)) = IF 1 <= n THEN n - 1 + 1 ELSE 0
      /\ \A i \in 1 .. n - 1 + 1 : SubSeq(b, 1, n)[i] = b[1 + i - 1]
  BY <1>1, <1>2, SubSeqProperties
<1>. QED  BY <1>1, <1>3

-----------------------------------------------------------------------------
(* Growing.                                                                  *)

\* The sizes a block goes through: the equation of Fitting has a solution.
LEMMA SizesExist ==
  ASSUME NEW n \in Nat, NEW m \in Nat
  PROVE  \E f : f = [k \in 0 .. m |-> IF k = 0 THEN n ELSE 2 * f[k - 1]]
<1>. DEFINE Body(f, k) == IF k = 0 THEN n ELSE 2 * f[k - 1]
            Solves(f, K) == \A k \in 0 .. m : k <= K => f[k] = Body(f, k)
            T == {K \in Nat : K <= m => \E f \in [0 .. m -> Nat] : Solves(f, K)}
<1>1. 0 \in T
  <2>. DEFINE f == [k \in 0 .. m |-> n]
  <2>1. \A k \in 0 .. m : k <= 0 => k = 0
    OBVIOUS
  <2>2. f \in [0 .. m -> Nat] /\ Solves(f, 0)
    BY <2>1
  <2>. HIDE DEF f, Solves
  <2>. QED  BY <2>2
<1>2. ASSUME NEW K \in Nat, K \in T PROVE K + 1 \in T
  <2>. HIDE DEF Solves
  <2>. SUFFICES ASSUME K + 1 <= m
                PROVE  \E f \in [0 .. m -> Nat] : Solves(f, K + 1)
    OBVIOUS
  <2>1. PICK f \in [0 .. m -> Nat] : Solves(f, K)
    <3>1. K <= m
      OBVIOUS
    <3>. QED  BY <1>2, <3>1
  <2>. DEFINE g == [f EXCEPT ![K + 1] = 2 * f[K]]
  <2>2. K + 1 \in 0 .. m /\ K \in 0 .. m
    OBVIOUS
  <2>3. f[K] \in Nat
    BY <2>2
  <2>4. g \in [0 .. m -> Nat]
    BY <2>2, <2>3
  <2>5. g[K + 1] = 2 * f[K] /\ \A k \in 0 .. m : k # K + 1 => g[k] = f[k]
    BY <2>2
  <2>. HIDE DEF g
  <2>6. ASSUME NEW k \in 0 .. m, k <= K + 1 PROVE g[k] = Body(g, k)
    <3>1. CASE k = K + 1
      BY <2>2, <2>5, <3>1
    <3>2. CASE k <= K
      <4>1. f[k] = Body(f, k)
        BY <2>1, <3>2 DEF Solves
      <4>2. k # K + 1 /\ (k # 0 => k - 1 \in 0 .. m /\ k - 1 # K + 1)
        BY <3>2
      <4>. QED  BY <2>5, <4>1, <4>2
    <3>3. k = K + 1 \/ k <= K
      BY <2>6
    <3>. QED  BY <3>1, <3>2, <3>3
  <2>7. Solves(g, K + 1)
    BY <2>6 DEF Solves
  <2>. QED  BY <2>4, <2>7
<1>. HIDE DEF T
<1>3. m \in T
  BY <1>1, <1>2, SetInduction
<1>4. PICK f \in [0 .. m -> Nat] : Solves(f, m)
  <2>. HIDE DEF Solves
  <2>1. m <= m
    OBVIOUS
  <2>. QED  BY <1>3, <2>1 DEF T
<1>5. \A k \in 0 .. m : f[k] = Body(f, k)
  BY <1>4
<1>6. f = [k \in 0 .. m |-> Body(f, k)]
  <2>. HIDE DEF Body
  <2>. QED  BY <1>5
<1>. QED  BY <1>6

\* Doubling something k times makes more than k of it.
LEMMA SizesGrow ==
  ASSUME NEW n \in Nat \ {0}, NEW m \in Nat,
         NEW f, f = [k \in 0 .. m |-> IF k = 0 THEN n ELSE 2 * f[k - 1]]
  PROVE  \A k \in 0 .. m : f[k] \in Nat /\ f[k] > k /\ f[k] >= n
<1>. DEFINE Good(k) == f[k] \in Nat /\ f[k] > k /\ f[k] >= n
            T == {K \in Nat : K <= m => Good(K)}
<1>1. \A k \in 0 .. m : f[k] = IF k = 0 THEN n ELSE 2 * f[k - 1]
  <2>. DEFINE h == [k \in 0 .. m |-> IF k = 0 THEN n ELSE 2 * f[k - 1]]
  <2>1. \A k \in 0 .. m : h[k] = IF k = 0 THEN n ELSE 2 * f[k - 1]
    OBVIOUS
  <2>2. f = h
    OBVIOUS
  <2>. HIDE DEF h
  <2>. QED  BY <2>1, <2>2
<1>2. 0 \in T
  BY <1>1
<1>3. ASSUME NEW K \in Nat, K \in T PROVE K + 1 \in T
  <2>. SUFFICES ASSUME K + 1 <= m PROVE Good(K + 1)
    OBVIOUS
  <2>1. Good(K)
    BY <1>3
  <2>2. f[K + 1] = 2 * f[K]
    <3>1. K + 1 \in 0 .. m /\ K + 1 # 0 /\ (K + 1) - 1 = K
      OBVIOUS
    <3>. QED  BY <1>1, <3>1
  <2>. QED  BY <2>1, <2>2
<1>. HIDE DEF T
<1>4. Nat \subseteq T
  BY <1>2, <1>3, SetInduction
<1>. QED  BY <1>4 DEF T

\* The loop ends, with a block that has the place asked for and the old
\* elements where they were.
LEMMA FittingFacts ==
  ASSUME NEW b \in Seq(Elem), Len(b) # 0, NEW index \in Nat
  PROVE  /\ Fitting(b, index) \in Seq(Elem)
         /\ Len(Fitting(b, index)) > index
         /\ Len(Fitting(b, index)) >= Len(b)
         /\ DOMAIN Fitting(b, index) = 1 .. Len(Fitting(b, index))
         /\ \A i \in 1 .. Len(b) : Fitting(b, index)[i] = b[i]
<1>. DEFINE n == Len(b)
            m == index + 1
            E(f) == f = [k \in 0 .. m |-> IF k = 0 THEN n ELSE 2 * f[k - 1]]
            s == CHOOSE f : E(f)
            Ends(k) == index < s[k] /\ \A j \in 0 .. k - 1 : index >= s[j]
            last == CHOOSE k \in 0 .. m : Ends(k)
<1>1. n \in Nat \ {0} /\ m \in Nat
  BY LenProperties
<1>2. Fitting(b, index) = [i \in 1 .. s[last] |-> IF i <= n THEN b[i] ELSE Junk]
  BY DEF Fitting
<1>3. E(s)
  <2>1. \E f : E(f)
    BY <1>1, SizesExist
  <2>. HIDE DEF E
  <2>. QED  BY <2>1
<1>4. \A k \in 0 .. m : s[k] \in Nat /\ s[k] > k /\ s[k] >= n
  <2>. HIDE DEF n, m, s
  <2>. QED  BY <1>1, <1>3, SizesGrow
<1>. HIDE DEF s
<1>5. \E k \in 0 .. m : Ends(k)
  <2>. DEFINE U == {k \in 0 .. m : index < s[k]}
  <2>1. U \subseteq Nat
    OBVIOUS
  <2>2. m \in U
    <3>1. m \in 0 .. m /\ m > index
      OBVIOUS
    <3>2. s[m] \in Nat /\ s[m] > m
      BY <1>4, <3>1
    <3>. QED  BY <3>1, <3>2
  <2>3. PICK k \in U : \A j \in U : k <= j
    <3>. HIDE DEF U
    <3>. QED  BY <2>1, <2>2, NatMin
  <2>4. k \in 0 .. m /\ index < s[k]
    OBVIOUS
  <2>5. ASSUME NEW j \in 0 .. k - 1 PROVE index >= s[j]
    <3>1. j \in 0 .. m /\ ~(k <= j)
      BY <2>4
    <3>2. j \notin U
      BY <2>3, <3>1
    <3>3. s[j] \in Nat
      BY <1>4, <3>1
    <3>. QED  BY <3>1, <3>2, <3>3
  <2>. QED  BY <2>4, <2>5
<1>6. last \in 0 .. m /\ Ends(last)
  <2>. HIDE DEF Ends, m
  <2>. QED  BY <1>5
<1>7. s[last] \in Nat /\ s[last] > index /\ s[last] >= n
  BY <1>4, <1>6
<1>. DEFINE F == [i \in 1 .. s[last] |-> IF i <= n THEN b[i] ELSE Junk]
<1>8. F \in [1 .. s[last] -> Elem]
  <2>. HIDE DEF last
  <2>1. \A i \in 1 .. s[last] : i <= n => i \in 1 .. n
    BY <1>1, <1>7
  <2>2. \A i \in 1 .. n : b[i] \in Elem
    BY ElementOfSeq
  <2>3. Junk \in Elem
    BY DEF Elem
  <2>. QED  BY <2>1, <2>2, <2>3
<1>9. \A i \in 1 .. n : F[i] = b[i]
  <2>1. \A i \in 1 .. n : i \in 1 .. s[last] /\ i <= n
    BY <1>1, <1>7
  <2>. QED  BY <2>1
<1>. HIDE DEF last, F
<1>10. F \in Seq(Elem) /\ Len(F) = s[last] /\ DOMAIN F = 1 .. s[last]
  BY <1>7, <1>8, FunctionIsSeq
<1>11. F = Fitting(b, index)
  BY <1>2 DEF F
<1>. QED  BY <1>7, <1>9, <1>10, <1>11

LEMMA GrownFacts ==
  ASSUME NEW b \in Seq(Elem)
  PROVE  /\ Grown(b) \in Seq(Elem)
         /\ Len(Grown(b)) = 2 * Len(b)
         /\ \A i \in 1 .. Len(b) : Grown(b)[i] = b[i]
<1>. DEFINE n == Len(b)
<1>1. n \in Nat /\ 2 * n \in Nat
  BY LenProperties
<1>2. \A i \in 1 .. n : b[i] \in Elem
  BY ElementOfSeq
<1>3. Grown(b) = [i \in 1 .. 2 * n |-> IF i <= n THEN b[i] ELSE Junk]
  BY DEF Grown
<1>. HIDE DEF n
<1>4. Grown(b) \in [1 .. 2 * n -> Elem]
  <2>1. \A i \in 1 .. 2 * n : i <= n => i \in 1 .. n
    BY <1>1
  <2>2. Junk \in Elem
    BY DEF Elem
  <2>. QED  BY <1>2, <1>3, <2>1, <2>2
<1>5. Grown(b) \in Seq(Elem) /\ Len(Grown(b)) = 2 * n
  BY <1>1, <1>4, FunctionIsSeq
<1>6. \A i \in 1 .. n : Grown(b)[i] = b[i]
  BY <1>1, <1>3
<1>. QED  BY <1>5, <1>6 DEF n

-----------------------------------------------------------------------------
(* The invariant.                                                            *)

\* The elements lie at the front of the block.
ArrayInv ==
  /\ block \in Seq(Elem)
  /\ num \in 0 .. Len(block)
  /\ status \in {"ok", "wild", "hung"}

LEMMA InvFacts ==
  ASSUME ArrayInv
  PROVE  /\ Len(block) \in Nat /\ num \in Nat /\ num <= Len(block)
         /\ DOMAIN block = 1 .. Len(block)
         /\ \A i \in 1 .. Len(block) : block[i] \in Elem
BY LenProperties, ElementOfSeq DEF ArrayInv

\* There is a place for one more, unless there is no memory at all.
LEMMA RoomFacts ==
  ASSUME ArrayInv
  PROVE  /\ Room \in Seq(Elem)
         /\ num + 1 \notin DOMAIN Room => size = 0 /\ num = 0
         /\ num + 1 \in DOMAIN Room => num + 1 <= Len(Room)
         /\ \A i \in 1 .. num : Room[i] = block[i]
<1>1. /\ Len(block) \in Nat /\ num \in Nat /\ num <= Len(block)
      /\ block \in Seq(Elem)
  BY InvFacts DEF ArrayInv
<1>2. CASE num >= size
  <2>1. Room = Grown(block) /\ num = Len(block)
    BY <1>1, <1>2 DEF Room, size
  <2>2. /\ Room \in Seq(Elem) /\ Len(Room) = 2 * num
        /\ \A i \in 1 .. num : Room[i] = block[i]
    BY <1>1, <2>1, GrownFacts
  <2>3. DOMAIN Room = 1 .. 2 * num
    BY <2>2, LenProperties
  <2>. QED  BY <1>1, <2>1, <2>2, <2>3 DEF size
<1>3. CASE ~(num >= size)
  <2>1. Room = block /\ num < Len(block)
    BY <1>1, <1>3 DEF Room, size
  <2>. QED  BY <1>1, <2>1, LenProperties
<1>. QED  BY <1>2, <1>3

LEMMA AppendedFacts ==
  ASSUME ArrayInv, NEW v \in Values, num + 1 \in DOMAIN Room
  PROVE  /\ Appended(v) \in Seq(Elem)
         /\ Len(Appended(v)) = Len(Room) /\ num + 1 <= Len(Appended(v))
         /\ DOMAIN Appended(v) = 1 .. Len(Appended(v))
         /\ \A i \in 1 .. num : Appended(v)[i] = block[i]
         /\ Appended(v)[num + 1] = v
<1>1. num \in Nat
  BY InvFacts
<1>2. Room \in Seq(Elem) /\ num + 1 <= Len(Room)
      /\ \A i \in 1 .. num : Room[i] = block[i]
  BY RoomFacts
<1>3. Len(Room) \in Nat /\ v \in Elem
  BY <1>2, LenProperties DEF Elem
<1>4. num + 1 \in 1 .. Len(Room)
  BY <1>1, <1>2, <1>3
<1>5. /\ Appended(v) \in Seq(Elem) /\ Len(Appended(v)) = Len(Room)
      /\ \A j \in 1 .. Len(Room) : Appended(v)[j] = IF j = num + 1 THEN v ELSE Room[j]
  BY <1>2, <1>3, <1>4, ExceptSeq DEF Appended
<1>6. \A i \in 1 .. num : i \in 1 .. Len(Room) /\ i # num + 1
  BY <1>1, <1>2, <1>3
<1>. QED  BY <1>2, <1>4, <1>5, <1>6, LenProperties

-----------------------------------------------------------------------------
(* What each call makes of what clients see.                                 *)

items == SubSeq(block, 1, num)
usable == status = "ok"

LEMMA ItemsFacts ==
  ASSUME ArrayInv
  PROVE  /\ items \in Seq(Elem) /\ Len(items) = num
         /\ \A i \in 1 .. num : items[i] = block[i]
BY Visible DEF ArrayInv, items

\* The list after a step, from its elements.
LEMMA ItemsBecome ==
  ASSUME ArrayInv', NEW s \in Seq(Elem), Len(s) = num',
         \A i \in 1 .. num' : block'[i] = s[i]
  PROVE  items' = s
<1>1. /\ items' \in Seq(Elem) /\ Len(items') = num'
      /\ \A i \in 1 .. num' : items'[i] = block'[i]
  BY Visible DEF ArrayInv, items
<1>. QED  BY <1>1, SeqEqual

\* A call that finds no memory: the list breaks, empty.
LEMMA StopRefines ==
  ASSUME ArrayInv, Ok, NEW how \in {"wild", "hung"}, Stop(how), size = 0
  PROVE  ArrayInv' /\ Contents!Break /\ num = 0
<1>1. num = 0
  BY InvFacts DEF size
<1>2. ArrayInv'
  BY DEF Stop, ArrayInv
<1>. QED  BY <1>1, <1>2 DEF Stop, Ok, Contents!Break

LEMMA Append1Refines ==
  ASSUME ArrayInv, NEW v \in Values, Append1(v), num + 1 \in DOMAIN Room
  PROVE  ArrayInv' /\ Contents!Push
<1>1. block' = Appended(v) /\ num' = num + 1 /\ status' = status /\ status = "ok"
  BY DEF Append1, Ok
<1>2. /\ Appended(v) \in Seq(Elem) /\ num + 1 <= Len(Appended(v))
      /\ \A i \in 1 .. num : Appended(v)[i] = block[i]
      /\ Appended(v)[num + 1] = v
  BY AppendedFacts
<1>3. num \in Nat
  BY InvFacts
<1>4. ArrayInv'
  BY <1>1, <1>2, <1>3, LenProperties DEF ArrayInv
<1>5. items \in Seq(Elem) /\ Len(items) = num /\ v \in Elem
      /\ \A i \in 1 .. num : items[i] = block[i]
  BY ItemsFacts DEF Elem
<1>6. /\ Append(items, v) \in Seq(Elem) /\ Len(Append(items, v)) = num'
      /\ \A i \in 1 .. num : Append(items, v)[i] = block[i]
      /\ Append(items, v)[num + 1] = v
  BY <1>1, <1>5, AppendProperties
<1>7. \A i \in 1 .. num' : i \in 1 .. num \/ i = num + 1
  BY <1>1, <1>3
<1>8. items' = Append(items, v)
  BY <1>1, <1>2, <1>4, <1>6, <1>7, ItemsBecome
<1>. QED  BY <1>1, <1>4, <1>8 DEF Contents!Push, Contents!Becomes, items

LEMMA AppendArrayRefines ==
  ASSUME ArrayInv, NEW s \in Batches, AppendArray(s), size # 0
  PROVE  ArrayInv' /\ Contents!PushAll
<1>. DEFINE F == Fitting(block, num + Len(s))
            B == [i \in DOMAIN F |-> IF i \in num + 1 .. num + Len(s) THEN s[i - num]
                                     ELSE F[i]]
<1>1. block' = B /\ num' = num + Len(s) /\ status' = status /\ status = "ok"
  BY DEF AppendArray, Ok
<1>2. s \in Seq(Values) /\ s \in Seq(Elem) /\ Len(s) \in Nat
  <2>1. s \in Seq(Values)
    BY ArrayAssumption
  <2>2. s \in Seq(Elem)
    BY <2>1, SeqMonotonic DEF Elem
  <2>. QED  BY <2>1, <2>2, LenProperties
<1>3. num \in Nat /\ num <= Len(block) /\ Len(block) \in Nat /\ block \in Seq(Elem)
  BY InvFacts DEF ArrayInv
<1>4. /\ F \in Seq(Elem) /\ Len(F) > num + Len(s) /\ Len(F) >= Len(block)
      /\ DOMAIN F = 1 .. Len(F) /\ \A i \in 1 .. Len(block) : F[i] = block[i]
  <2>1. num + Len(s) \in Nat /\ Len(block) # 0
    BY <1>2, <1>3 DEF size
  <2>. QED  BY <1>3, <2>1, FittingFacts
<1>. HIDE DEF F
<1>5. Len(F) \in Nat
  BY <1>4, LenProperties
<1>6. B \in [1 .. Len(F) -> Elem]
  <2>1. \A i \in num + 1 .. num + Len(s) : i - num \in 1 .. Len(s)
    BY <1>2, <1>3
  <2>2. \A j \in 1 .. Len(s) : s[j] \in Elem
    BY <1>2, ElementOfSeq
  <2>3. \A i \in 1 .. Len(F) : F[i] \in Elem
    BY <1>4, ElementOfSeq
  <2>. QED  BY <1>4, <2>1, <2>2, <2>3
<1>7. /\ \A i \in 1 .. num : B[i] = block[i]
      /\ \A j \in 1 .. Len(s) : B[num + j] = s[j]
  <2>1. ASSUME NEW i \in 1 .. num PROVE B[i] = block[i]
    <3>1. i \in DOMAIN F /\ i \notin num + 1 .. num + Len(s) /\ i \in 1 .. Len(block)
      BY <1>2, <1>3, <1>4, <1>5
    <3>. QED  BY <1>4, <3>1
  <2>2. ASSUME NEW j \in 1 .. Len(s) PROVE B[num + j] = s[j]
    <3>1. num + j \in DOMAIN F /\ num + j \in num + 1 .. num + Len(s)
          /\ (num + j) - num = j
      BY <1>2, <1>3, <1>4, <1>5
    <3>. QED  BY <3>1
  <2>. QED  BY <2>1, <2>2
<1>. HIDE DEF B
<1>8. B \in Seq(Elem) /\ Len(B) = Len(F)
  BY <1>5, <1>6, FunctionIsSeq
<1>9. ArrayInv'
  BY <1>1, <1>2, <1>3, <1>4, <1>5, <1>8 DEF ArrayInv
<1>10. items \in Seq(Elem) /\ Len(items) = num
       /\ \A i \in 1 .. num : items[i] = block[i]
  BY ItemsFacts
<1>11. /\ items \o s \in Seq(Elem) /\ Len(items \o s) = num + Len(s)
       /\ \A i \in 1 .. num + Len(s) :
            (items \o s)[i] = IF i <= num THEN items[i] ELSE s[i - num]
  BY <1>2, <1>10, ConcatProperties
<1>12. ASSUME NEW i \in 1 .. num' PROVE block'[i] = (items \o s)[i]
  <2>1. CASE i <= num
    <3>1. i \in 1 .. num
      BY <1>3, <2>1
    <3>. QED  BY <1>1, <1>7, <1>10, <1>11, <2>1, <3>1
  <2>2. CASE ~(i <= num)
    <3>1. i - num \in 1 .. Len(s) /\ num + (i - num) = i
      BY <1>1, <1>2, <1>3, <2>2
    <3>2. B[i] = s[i - num]
      BY <1>7, <3>1
    <3>. QED  BY <1>1, <1>11, <2>2, <3>2
  <2>. QED  BY <2>1, <2>2
<1>13. items' = items \o s
  BY <1>1, <1>9, <1>11, <1>12, ItemsBecome
<1>. QED  BY <1>1, <1>9, <1>13 DEF Contents!PushAll, Contents!Becomes, items

LEMMA InsertElemRefines ==
  ASSUME ArrayInv, NEW v \in Values, NEW idx \in 0 .. num - 1,
         InsertElem(idx, v), num + 1 \in DOMAIN Room
  PROVE  ArrayInv' /\ Contents!Next
<1>. DEFINE A == Appended(v)
            B == [i \in DOMAIN A |-> IF i \in idx + 2 .. num + 1 THEN A[i - 1]
                                     ELSE IF i = idx + 1 THEN v ELSE A[i]]
            left == SubSeq(items, 1, idx)
            right == SubSeq(items, idx + 1, num)
<1>1. block' = B /\ num' = num + 1 /\ status' = status /\ status = "ok"
  BY DEF InsertElem, Ok
<1>2. /\ A \in Seq(Elem) /\ num + 1 <= Len(A) /\ DOMAIN A = 1 .. Len(A)
      /\ \A i \in 1 .. num : A[i] = block[i]
      /\ A[num + 1] = v
  BY AppendedFacts
<1>3. num \in Nat /\ Len(A) \in Nat /\ idx \in Nat /\ idx < num /\ v \in Elem
  BY <1>2, InvFacts, LenProperties DEF Elem
<1>. HIDE DEF A
<1>4. B \in [1 .. Len(A) -> Elem]
  <2>1. \A i \in 1 .. Len(A) : A[i] \in Elem
    BY <1>2, ElementOfSeq
  <2>2. \A i \in idx + 2 .. num + 1 : i - 1 \in 1 .. Len(A)
    BY <1>2, <1>3
  <2>. QED  BY <1>2, <1>3, <2>1, <2>2
<1>5. ASSUME NEW i \in 1 .. num + 1
      PROVE  B[i] = IF i <= idx THEN block[i] ELSE IF i = idx + 1 THEN v ELSE block[i - 1]
  <2>1. i \in DOMAIN A
    BY <1>2, <1>3
  <2>2. B[i] = IF i \in idx + 2 .. num + 1 THEN A[i - 1]
               ELSE IF i = idx + 1 THEN v ELSE A[i]
    BY <2>1
  <2>. HIDE DEF B
  <2>3. CASE i <= idx
    <3>1. i \notin idx + 2 .. num + 1 /\ i # idx + 1 /\ i \in 1 .. num
      BY <1>3, <2>3
    <3>. QED  BY <1>2, <2>2, <2>3, <3>1
  <2>4. CASE i = idx + 1
    <3>1. i \notin idx + 2 .. num + 1 /\ ~(i <= idx)
      BY <1>3, <2>4
    <3>. QED  BY <2>2, <2>4, <3>1
  <2>5. CASE i > idx + 1
    <3>1. i \in idx + 2 .. num + 1 /\ ~(i <= idx) /\ i # idx + 1 /\ i - 1 \in 1 .. num
      BY <1>3, <2>5
    <3>. QED  BY <1>2, <2>2, <3>1
  <2>6. i <= idx \/ i = idx + 1 \/ i > idx + 1
    BY <1>3
  <2>. QED  BY <2>3, <2>4, <2>5, <2>6
<1>. HIDE DEF B
<1>6. B \in Seq(Elem) /\ Len(B) = Len(A)
  BY <1>3, <1>4, FunctionIsSeq
<1>7. ArrayInv'
  BY <1>1, <1>2, <1>3, <1>6 DEF ArrayInv
<1>8. items \in Seq(Elem) /\ Len(items) = num
      /\ \A i \in 1 .. num : items[i] = block[i] /\ items[i] \in Elem
  BY ItemsFacts, ElementOfSeq
<1>9. /\ left \in Seq(Elem) /\ Len(left) = idx
      /\ \A i \in 1 .. idx : left[i] = items[i]
  BY <1>3, <1>8, Visible
<1>10. /\ right \in Seq(Elem) /\ Len(right) = num - idx
       /\ \A i \in 1 .. num - idx : right[i] = items[idx + i]
  <2>1. \A i \in idx + 1 .. num : items[i] \in Elem
    BY <1>3, <1>8
  <2>2. idx + 1 \in Int /\ num \in Int
    BY <1>3
  <2>3. /\ right \in Seq(Elem)
        /\ Len(right) = IF idx + 1 <= num THEN num - (idx + 1) + 1 ELSE 0
        /\ \A i \in 1 .. num - (idx + 1) + 1 : right[i] = items[(idx + 1) + i - 1]
    BY <2>1, <2>2, SubSeqProperties
  <2>4. \A i \in Int : (idx + 1) + i - 1 = idx + i
    BY <1>3
  <2>5. num - (idx + 1) + 1 = num - idx /\ idx + 1 <= num
    BY <1>3
  <2>. HIDE DEF right
  <2>. QED  BY <2>3, <2>4, <2>5
<1>11. InsertAt(items, idx + 1, v) = (left \o <<v>>) \o right
  <2>1. (idx + 1) - 1 = idx
    BY <1>3
  <2>. QED  BY <1>8, <2>1 DEF InsertAt
<1>. HIDE DEF left, right
<1>. DEFINE s == left \o <<v>>
            t == s \o right
<1>12. <<v>> \in Seq(Elem) /\ Len(<<v>>) = 1 /\ <<v>>[1] = v
  BY <1>3
<1>13. /\ s \in Seq(Elem) /\ Len(s) = idx + 1
       /\ \A i \in 1 .. idx + 1 : s[i] = IF i <= idx THEN left[i] ELSE <<v>>[i - idx]
  BY <1>9, <1>12, ConcatProperties
<1>. HIDE DEF s
<1>14. /\ t \in Seq(Elem) /\ Len(t) = (idx + 1) + (num - idx)
       /\ \A i \in 1 .. (idx + 1) + (num - idx) :
            t[i] = IF i <= idx + 1 THEN s[i] ELSE right[i - (idx + 1)]
  <2>1. /\ t \in Seq(Elem) /\ Len(t) = Len(s) + Len(right)
        /\ \A i \in 1 .. Len(s) + Len(right) :
             t[i] = IF i <= Len(s) THEN s[i] ELSE right[i - Len(s)]
    BY <1>10, <1>13, ConcatProperties
  <2>2. Len(s) = idx + 1 /\ Len(right) = num - idx
    BY <1>10, <1>13
  <2>. HIDE DEF t
  <2>. QED  BY <2>1, <2>2
<1>15. (idx + 1) + (num - idx) = num + 1
  BY <1>3
<1>. HIDE DEF t
<1>16. ASSUME NEW i \in 1 .. num + 1 PROVE B[i] = t[i]
  <2>1. CASE i <= idx
    <3>1. i \in 1 .. idx + 1 /\ i \in 1 .. idx /\ i \in 1 .. num /\ i <= idx + 1
      BY <1>3, <2>1
    <3>2. t[i] = s[i] /\ s[i] = left[i]
      BY <1>13, <1>14, <1>15, <2>1, <3>1
    <3>. QED  BY <1>5, <1>8, <1>9, <2>1, <3>1, <3>2
  <2>2. CASE i = idx + 1
    <3>1. i \in 1 .. idx + 1 /\ ~(i <= idx) /\ i <= idx + 1 /\ i - idx = 1
      BY <1>3, <2>2
    <3>2. t[i] = s[i] /\ s[i] = <<v>>[1]
      BY <1>13, <1>14, <1>15, <3>1
    <3>. QED  BY <1>5, <1>12, <2>2, <3>1, <3>2
  <2>3. CASE i > idx + 1
    <3>1. /\ ~(i <= idx + 1) /\ i - (idx + 1) \in 1 .. num - idx /\ ~(i <= idx)
          /\ i # idx + 1 /\ idx + (i - (idx + 1)) = i - 1 /\ i - 1 \in 1 .. num
      BY <1>3, <2>3
    <3>2. t[i] = right[i - (idx + 1)]
      BY <1>14, <1>15, <3>1
    <3>3. right[i - (idx + 1)] = items[i - 1]
      BY <1>10, <3>1
    <3>. QED  BY <1>5, <1>8, <3>1, <3>2, <3>3
  <2>4. i <= idx \/ i = idx + 1 \/ i > idx + 1
    BY <1>3
  <2>. QED  BY <2>1, <2>2, <2>3, <2>4
<1>17. items' = t
  BY <1>1, <1>7, <1>14, <1>15, <1>16, ItemsBecome
<1>18. items' = InsertAt(items, idx + 1, v)
  BY <1>11, <1>17 DEF s, t
<1>19. idx \in 0 .. Len(items) - 1
  BY <1>3, <1>8
<1>20. Contents!Becomes(Contents!InsertAt(items, idx + 1, v))
  BY <1>1, <1>18 DEF Contents!Becomes, Contents!InsertAt, InsertAt, items
<1>21. idx \in Contents!Positions
  BY <1>19 DEF Contents!Positions, items
<1>. QED  BY <1>7, <1>20, <1>21 DEF Contents!Next, items

\* setElem() and operator[]: block b has the old elements but for place index.
LEMMA ReachRefines ==
  ASSUME ArrayInv, Ok, NEW index \in Nat, NEW b \in Seq(Elem), size # 0,
         Len(b) > index, Len(b) >= Len(block),
         \A i \in 1 .. Len(block) : i # index + 1 => b[i] = block[i],
         Reach(index, b)
  PROVE  ArrayInv' /\ Contents!Store
<1>1. block' = b /\ num' = (IF num <= index THEN index + 1 ELSE num)
      /\ status' = status /\ status = "ok"
  BY DEF Reach, Ok
<1>2. num \in Nat /\ num <= Len(block) /\ Len(block) \in Nat /\ Len(b) \in Nat
  BY InvFacts, LenProperties
<1>3. num' \in 0 .. Len(b) /\ num' \in Nat /\ index < num' /\ num <= num'
  BY <1>1, <1>2
<1>4. ArrayInv'
  BY <1>1, <1>3 DEF ArrayInv
<1>5. Len(items) = num /\ \A i \in 1 .. num : items[i] = block[i]
  BY ItemsFacts
<1>6. Len(items') = num' /\ \A i \in 1 .. num' : items'[i] = b[i]
  BY <1>1, <1>4, Visible DEF ArrayInv, items
<1>7. index + 1 \in 1 .. num' /\ index + 1 \in 1 .. Len(b)
  BY <1>2, <1>3
<1>8. items'[index + 1] \in Elem
  BY <1>6, <1>7, ElementOfSeq
<1>9. ASSUME NEW j \in (0 .. num - 1) \ {index} PROVE items'[j + 1] = items[j + 1]
  <2>1. j + 1 \in 1 .. num /\ j + 1 \in 1 .. num' /\ j + 1 \in 1 .. Len(block)
        /\ j + 1 # index + 1
    BY <1>2, <1>3
  <2>. QED  BY <1>5, <1>6, <2>1
<1>10. index \in 0 .. Len(items') - 1
       /\ Len(items') = IF index < Len(items) THEN Len(items) ELSE index + 1
  BY <1>1, <1>2, <1>3, <1>5, <1>6
<1>11. \E v \in Values \cup {Junk}, i \in 0 .. Len(items') - 1 :
         /\ Len(items') = IF i < Len(items) THEN Len(items) ELSE i + 1
         /\ items'[i + 1] = v
         /\ \A j \in (0 .. num - 1) \ {i} : items'[j + 1] = items[j + 1]
  BY <1>8, <1>9, <1>10 DEF Elem
<1>12. Contents!Positions = 0 .. num - 1
  BY <1>5 DEF Contents!Positions, items
<1>13. \E v \in Values \cup {Junk}, i \in 0 .. Len(items') - 1 :
         /\ Len(items') = IF i < Len(items) THEN Len(items) ELSE i + 1
         /\ items'[i + 1] = v
         /\ \A j \in Contents!Positions \ {i} : items'[j + 1] = items[j + 1]
  BY <1>11, <1>12
<1>14. (status = "ok") /\ (status = "ok")'
  BY <1>1
<1>15. Contents!Store
  <2>. HIDE DEF Contents!Positions
  <2>. QED  BY <1>13, <1>14 DEF Contents!Store, items
<1>. QED  BY <1>4, <1>15

LEMMA SetElemRefines ==
  ASSUME ArrayInv, NEW index \in Nat, NEW v \in Values, SetElem(index, v), size # 0
  PROVE  ArrayInv' /\ Contents!Store
<1>. DEFINE F == Fitting(block, index)
            b == [F EXCEPT ![index + 1] = v]
<1>1. /\ F \in Seq(Elem) /\ Len(F) > index /\ Len(F) >= Len(block)
      /\ \A i \in 1 .. Len(block) : F[i] = block[i]
  BY FittingFacts DEF ArrayInv, size
<1>2. Ok /\ Reach(index, b)
  BY DEF SetElem
<1>. HIDE DEF F
<1>3. Len(F) \in Nat /\ Len(block) \in Nat /\ v \in Elem
  BY <1>1, InvFacts, LenProperties DEF Elem
<1>4. index + 1 \in 1 .. Len(F)
  BY <1>1, <1>3
<1>5. /\ b \in Seq(Elem) /\ Len(b) = Len(F)
      /\ \A j \in 1 .. Len(F) : b[j] = IF j = index + 1 THEN v ELSE F[j]
  BY <1>1, <1>3, <1>4, ExceptSeq
<1>. HIDE DEF b
<1>6. \A i \in 1 .. Len(block) : i # index + 1 => b[i] = block[i]
  <2>1. \A i \in 1 .. Len(block) : i \in 1 .. Len(F)
    BY <1>1, <1>3
  <2>. QED  BY <1>1, <1>5, <2>1
<1>. QED  BY <1>1, <1>2, <1>5, <1>6, ReachRefines

LEMMA IndexRefines ==
  ASSUME ArrayInv, NEW index \in Nat, Index(index), size # 0
  PROVE  ArrayInv' /\ Contents!Store
<1>. DEFINE F == Fitting(block, index)
<1>1. /\ F \in Seq(Elem) /\ Len(F) > index /\ Len(F) >= Len(block)
      /\ \A i \in 1 .. Len(block) : F[i] = block[i]
  BY FittingFacts DEF ArrayInv, size
<1>2. Ok /\ Reach(index, F)
  BY DEF Index
<1>. HIDE DEF F
<1>. QED  BY <1>1, <1>2, ReachRefines

\* The block after a call that keeps its size, described place by place.
LEMMA SameSize ==
  ASSUME ArrayInv, NEW b, b \in [1 .. Len(block) -> Elem], block' = b,
         num' \in 0 .. num, status' = status
  PROVE  ArrayInv'
<1>1. Len(block) \in Nat /\ num \in Nat /\ num <= Len(block)
  BY InvFacts
<1>2. b \in Seq(Elem) /\ Len(b) = Len(block)
  BY <1>1, FunctionIsSeq
<1>3. num' \in 0 .. Len(b)
  BY <1>1, <1>2
<1>. QED  BY <1>2, <1>3 DEF ArrayInv

LEMMA RemoveElemRefines ==
  ASSUME ArrayInv, NEW index \in 0 .. num - 1, RemoveElem(index)
  PROVE  ArrayInv' /\ Contents!Take
<1>. DEFINE B == [i \in DOMAIN block |->
                   IF i \in index + 1 .. num - 1 THEN block[i + 1] ELSE block[i]]
            left == SubSeq(items, 1, index)
            right == SubSeq(items, index + 2, num)
            t == left \o right
<1>1. block' = B /\ num' = num - 1 /\ status' = status /\ status = "ok"
  BY DEF RemoveElem, Ok
<1>2. /\ num \in Nat /\ Len(block) \in Nat /\ num <= Len(block) /\ index \in Nat
      /\ index < num /\ DOMAIN block = 1 .. Len(block)
      /\ \A i \in 1 .. Len(block) : block[i] \in Elem
  BY InvFacts
<1>3. B \in [1 .. Len(block) -> Elem]
  <2>1. \A i \in index + 1 .. num - 1 : i + 1 \in 1 .. Len(block)
    BY <1>2
  <2>. QED  BY <1>2, <2>1
<1>4. ASSUME NEW i \in 1 .. num - 1
      PROVE  B[i] = IF i <= index THEN block[i] ELSE block[i + 1]
  <2>1. i \in DOMAIN block /\ (i <= index <=> i \notin index + 1 .. num - 1)
    BY <1>2
  <2>. QED  BY <2>1
<1>. HIDE DEF B
<1>5. ArrayInv'
  <2>1. num' \in 0 .. num
    BY <1>1, <1>2
  <2>. QED  BY <1>1, <1>3, <2>1, SameSize
<1>6. items \in Seq(Elem) /\ Len(items) = num
      /\ \A i \in 1 .. num : items[i] = block[i] /\ items[i] \in Elem
  BY ItemsFacts, ElementOfSeq
<1>7. /\ left \in Seq(Elem) /\ Len(left) = index
      /\ \A i \in 1 .. index : left[i] = items[i]
  BY <1>2, <1>6, Visible
<1>8. /\ right \in Seq(Elem) /\ Len(right) = (num - 1) - index
      /\ \A i \in 1 .. (num - 1) - index : right[i] = items[index + 1 + i]
  <2>1. \A i \in index + 2 .. num : items[i] \in Elem
    BY <1>2, <1>6
  <2>2. index + 2 \in Int /\ num \in Int
    BY <1>2
  <2>3. /\ right \in Seq(Elem)
        /\ Len(right) = IF index + 2 <= num THEN num - (index + 2) + 1 ELSE 0
        /\ \A i \in 1 .. num - (index + 2) + 1 : right[i] = items[(index + 2) + i - 1]
    BY <2>1, <2>2, SubSeqProperties
  <2>4. \A i \in Int : (index + 2) + i - 1 = index + 1 + i
    BY <1>2
  <2>5. num - (index + 2) + 1 = (num - 1) - index
        /\ (~(index + 2 <= num) => (num - 1) - index = 0)
    BY <1>2
  <2>. HIDE DEF right
  <2>. QED  BY <2>3, <2>4, <2>5
<1>9. RemoveAt(items, index + 1) = t
  <2>1. (index + 1) - 1 = index /\ (index + 1) + 1 = index + 2
    BY <1>2
  <2>. QED  BY <1>6, <2>1 DEF RemoveAt
<1>. HIDE DEF left, right
<1>10. /\ t \in Seq(Elem) /\ Len(t) = num - 1
       /\ \A i \in 1 .. num - 1 :
            t[i] = IF i <= index THEN left[i] ELSE right[i - index]
  <2>1. /\ t \in Seq(Elem) /\ Len(t) = Len(left) + Len(right)
        /\ \A i \in 1 .. Len(left) + Len(right) :
             t[i] = IF i <= Len(left) THEN left[i] ELSE right[i - Len(left)]
    BY <1>7, <1>8, ConcatProperties
  <2>2. Len(left) + Len(right) = num - 1
    BY <1>2, <1>7, <1>8
  <2>. HIDE DEF t
  <2>. QED  BY <1>7, <2>1, <2>2
<1>. HIDE DEF t
<1>11. ASSUME NEW i \in 1 .. num - 1 PROVE B[i] = t[i]
  <2>1. CASE i <= index
    <3>1. i \in 1 .. index /\ i \in 1 .. num
      BY <1>2, <2>1
    <3>. QED  BY <1>4, <1>6, <1>7, <1>10, <2>1, <3>1
  <2>2. CASE ~(i <= index)
    <3>1. i - index \in 1 .. (num - 1) - index /\ index + 1 + (i - index) = i + 1
          /\ i + 1 \in 1 .. num
      BY <1>2, <2>2
    <3>2. t[i] = right[i - index] /\ right[i - index] = items[i + 1]
      BY <1>8, <1>10, <2>2, <3>1
    <3>. QED  BY <1>4, <1>6, <2>2, <3>1, <3>2
  <2>. QED  BY <2>1, <2>2
<1>12. items' = RemoveAt(items, index + 1)
  BY <1>1, <1>5, <1>9, <1>10, <1>11, ItemsBecome
<1>13. Contents!Becomes(Contents!RemoveAt(items, index + 1))
  BY <1>1, <1>12 DEF Contents!Becomes, Contents!RemoveAt, RemoveAt, items
<1>14. index \in Contents!Positions
  BY <1>2, <1>6 DEF Contents!Positions, items
<1>. QED  BY <1>5, <1>13, <1>14 DEF Contents!Take, items

LEMMA RemoveElemFastRefines ==
  ASSUME ArrayInv, NEW index \in 0 .. num - 1, RemoveElemFast(index)
  PROVE  ArrayInv' /\ Contents!TakeFast
<1>. DEFINE B == [block EXCEPT ![index + 1] = block[num]]
            e == [items EXCEPT ![index + 1] = items[num]]
            t == SubSeq(e, 1, num - 1)
<1>1. block' = B /\ num' = num - 1 /\ status' = status /\ status = "ok"
  BY DEF RemoveElemFast, Ok
<1>2. /\ num \in Nat /\ Len(block) \in Nat /\ num <= Len(block) /\ index \in Nat
      /\ index < num /\ DOMAIN block = 1 .. Len(block)
      /\ \A i \in 1 .. Len(block) : block[i] \in Elem
  BY InvFacts
<1>3. index + 1 \in 1 .. num /\ num \in 1 .. num /\ index + 1 \in 1 .. Len(block)
      /\ num \in 1 .. Len(block) /\ num - 1 \in 0 .. num
  BY <1>2
<1>4. /\ B \in Seq(Elem) /\ Len(B) = Len(block)
      /\ \A j \in 1 .. Len(block) : B[j] = IF j = index + 1 THEN block[num] ELSE block[j]
  BY <1>2, <1>3, ExceptSeq DEF ArrayInv
<1>. HIDE DEF B
<1>5. ArrayInv'
  BY <1>1, <1>2, <1>3, <1>4 DEF ArrayInv
<1>6. items \in Seq(Elem) /\ Len(items) = num
      /\ \A i \in 1 .. num : items[i] = block[i] /\ items[i] \in Elem
  BY ItemsFacts, ElementOfSeq
<1>7. /\ e \in Seq(Elem) /\ Len(e) = num
      /\ \A j \in 1 .. num : e[j] = IF j = index + 1 THEN items[num] ELSE items[j]
  BY <1>3, <1>6, ExceptSeq
<1>8. t = Contents!Front([items EXCEPT ![index + 1] = Contents!Last(items)])
  BY <1>6, <1>7 DEF Contents!Front, Contents!Last
<1>. HIDE DEF e
<1>9. /\ t \in Seq(Elem) /\ Len(t) = num - 1
      /\ \A i \in 1 .. num - 1 : t[i] = e[i]
  BY <1>3, <1>7, Visible
<1>. HIDE DEF t
<1>10. ASSUME NEW i \in 1 .. num - 1 PROVE B[i] = t[i]
  <2>1. i \in 1 .. num /\ i \in 1 .. Len(block)
    BY <1>2
  <2>. QED  BY <1>3, <1>4, <1>6, <1>7, <1>9, <2>1
<1>11. items' = t
  BY <1>1, <1>5, <1>9, <1>10, ItemsBecome
<1>12. Contents!Becomes(Contents!Front([items EXCEPT ![index + 1] = Contents!Last(items)]))
  BY <1>1, <1>8, <1>11 DEF Contents!Becomes, items
<1>13. index \in Contents!Positions
  BY <1>2, <1>6 DEF Contents!Positions, items
<1>. QED  BY <1>5, <1>12, <1>13 DEF Contents!TakeFast, items

LEMMA FlipRefines ==
  ASSUME ArrayInv, Flip
  PROVE  ArrayInv' /\ Contents!Flip
<1>. DEFINE B == [i \in DOMAIN block |->
                   IF i <= num THEN block[num + 1 - i] ELSE block[i]]
            t == [i \in 1 .. num |-> items[(num - i) + 1]]
<1>1. block' = B /\ num' = num /\ status' = status /\ status = "ok"
  BY DEF Flip, Ok
<1>2. /\ num \in Nat /\ Len(block) \in Nat /\ num <= Len(block)
      /\ DOMAIN block = 1 .. Len(block)
      /\ \A i \in 1 .. Len(block) : block[i] \in Elem
  BY InvFacts
<1>3. B \in [1 .. Len(block) -> Elem]
  <2>1. \A i \in 1 .. Len(block) : i <= num => num + 1 - i \in 1 .. Len(block)
    BY <1>2
  <2>. QED  BY <1>2, <2>1
<1>4. \A i \in 1 .. num : B[i] = block[num + 1 - i]
  <2>1. \A i \in 1 .. num : i \in DOMAIN block /\ i <= num
    BY <1>2
  <2>. QED  BY <2>1
<1>. HIDE DEF B
<1>5. ArrayInv'
  <2>1. num' \in 0 .. num
    BY <1>1, <1>2
  <2>. QED  BY <1>1, <1>3, <2>1, SameSize
<1>6. items \in Seq(Elem) /\ Len(items) = num
      /\ \A i \in 1 .. num : items[i] = block[i] /\ items[i] \in Elem
  BY ItemsFacts, ElementOfSeq
<1>7. \A i \in 1 .. num : (num - i) + 1 \in 1 .. num /\ (num - i) + 1 = num + 1 - i
  BY <1>2
<1>8. t = Contents!Reverse(items)
  BY <1>6 DEF Contents!Reverse
<1>9. t \in [1 .. num -> Elem]
  BY <1>6, <1>7
<1>10. \A i \in 1 .. num : t[i] = items[(num - i) + 1]
  OBVIOUS
<1>. HIDE DEF t
<1>11. t \in Seq(Elem) /\ Len(t) = num
  BY <1>2, <1>9, FunctionIsSeq
<1>12. \A i \in 1 .. num : B[i] = t[i]
  BY SMTT(60), <1>4, <1>6, <1>7, <1>10
<1>13. items' = t
  BY <1>1, <1>5, <1>11, <1>12, ItemsBecome
<1>14. Contents!Becomes(Contents!Reverse(items))
  BY <1>1, <1>8, <1>13 DEF Contents!Becomes, items
<1>. QED  BY <1>5, <1>14 DEF Contents!Flip, items

\* Cutting the list off: setCount(), and makeEmpty() with n = 0.
LEMMA CutRefines ==
  ASSUME ArrayInv, Ok, ArrayInv', status' = status, num' \in 0 .. num,
         \A i \in 1 .. num' : block'[i] = block[i]
  PROVE  Contents!Truncate
<1>. DEFINE t == SubSeq(items, 1, num')
<1>1. items \in Seq(Elem) /\ Len(items) = num /\ num \in Nat
      /\ \A i \in 1 .. num : items[i] = block[i]
  BY ItemsFacts, InvFacts
<1>2. t \in Seq(Elem) /\ Len(t) = num' /\ \A i \in 1 .. num' : t[i] = items[i]
  BY <1>1, Visible
<1>. HIDE DEF t
<1>3. \A i \in 1 .. num' : block'[i] = t[i]
  <2>1. \A i \in 1 .. num' : i \in 1 .. num
    BY <1>1
  <2>. QED  BY <1>1, <1>2, <2>1
<1>4. items' = t
  BY <1>2, <1>3, ItemsBecome
<1>5. Contents!Becomes(SubSeq(items, 1, num')) /\ num' \in 0 .. Len(items)
  BY <1>1, <1>4 DEF Contents!Becomes, Ok, items, t
<1>. QED  BY <1>5 DEF Contents!Truncate, items

LEMMA SetCountRefines ==
  ASSUME ArrayInv, NEW count \in 0 .. num, SetCount(count)
  PROVE  ArrayInv' /\ Contents!Truncate
<1>1. Ok /\ num' = count /\ block' = block /\ status' = status
  BY DEF SetCount
<1>2. num \in Nat /\ Len(block) \in Nat /\ num <= Len(block)
  BY InvFacts
<1>3. ArrayInv'
  BY <1>1, <1>2 DEF ArrayInv
<1>. QED  BY <1>1, <1>3, CutRefines

LEMMA MakeEmptyRefines ==
  ASSUME ArrayInv, NEW n \in Nat, MakeEmpty(n)
  PROVE  ArrayInv' /\ Contents!Truncate
<1>1. Ok /\ num' = 0 /\ block' = New(n) /\ status' = status
  BY DEF MakeEmpty
<1>2. New(n) \in Seq(Elem) /\ Len(New(n)) = n
  <2>1. New(n) \in [1 .. n -> Elem]
    BY DEF New, Elem
  <2>. QED  BY <2>1, FunctionIsSeq
<1>3. ArrayInv'
  BY <1>1, <1>2 DEF ArrayInv
<1>4. num' \in 0 .. num /\ 1 .. num' = {}
  BY <1>1, InvFacts
<1>. QED  BY <1>1, <1>3, <1>4, CutRefines

LEMMA ShrinkRefines ==
  ASSUME ArrayInv, ShrinkToFit
  PROVE  ArrayInv' /\ UNCHANGED <<items, usable>>
<1>1. block' = items /\ num' = num /\ status' = status
  BY DEF ShrinkToFit, items
<1>2. items \in Seq(Elem) /\ Len(items) = num /\ num \in Nat
  BY ItemsFacts, InvFacts
<1>3. ArrayInv'
  BY <1>1, <1>2 DEF ArrayInv
<1>4. items' = items
  BY <1>1, <1>2, <1>3, ItemsBecome
<1>. QED  BY <1>1, <1>3, <1>4 DEF usable

-----------------------------------------------------------------------------
LEMMA InitArray == Init => ArrayInv /\ Contents!Init
<1>. SUFFICES ASSUME Init PROVE ArrayInv /\ Contents!Init
  OBVIOUS
<1>1. PICK n \in InitSizes : block = New(n)
  BY DEF Init
<1>2. n \in Nat /\ num = 0 /\ status = "ok"
  BY ArrayAssumption DEF Init
<1>3. block \in Seq(Elem) /\ Len(block) = n
  <2>1. New(n) \in [1 .. n -> Elem]
    BY DEF New, Elem
  <2>. QED  BY <1>1, <1>2, <2>1, FunctionIsSeq
<1>4. ArrayInv
  BY <1>2, <1>3 DEF ArrayInv
<1>5. SubSeq(block, 1, num) = << >>
  BY <1>2, SubSeqEmpty
<1>. QED  BY <1>2, <1>4, <1>5 DEF Contents!Init

\* Every step keeps the invariant, is a step of the list or none, and breaks
\* the list only when it has no memory.
LEMMA StepRefines ==
  ASSUME ArrayInv, [Next]_vars
  PROVE  /\ ArrayInv'
         /\ [Contents!Next]_<<items, usable>>
         /\ status' # status => size = 0 /\ num = 0
<1>. DEFINE Goal == /\ ArrayInv'
                    /\ [Contents!Next]_<<items, usable>>
                    /\ status' # status => size = 0 /\ num = 0
<1>0. ASSUME NEW how \in {"wild", "hung"}, Ok, Stop(how), size = 0 PROVE Goal
  BY <1>0, StopRefines DEF Contents!Next
<1>00. ASSUME ArrayInv', Contents!Next, status' = status PROVE Goal
  BY <1>00
<1>1. ASSUME NEW v \in Values, Append1(v) PROVE Goal
  <2>1. CASE num + 1 \in DOMAIN Room
    <3>1. status' = status
      BY <1>1, <2>1 DEF Append1
    <3>. QED  BY <1>00, <1>1, <2>1, <3>1, Append1Refines DEF Contents!Next
  <2>2. CASE num + 1 \notin DOMAIN Room
    BY <1>0, <1>1, <2>2, RoomFacts DEF Append1
  <2>. QED  BY <2>1, <2>2
<1>2. ASSUME NEW s \in Batches, AppendArray(s) PROVE Goal
  <2>1. CASE size # 0
    <3>1. status' = status
      BY <1>2, <2>1 DEF AppendArray
    <3>. QED  BY <1>00, <1>2, <2>1, <3>1, AppendArrayRefines DEF Contents!Next
  <2>2. CASE size = 0
    BY <1>0, <1>2, <2>2 DEF AppendArray
  <2>. QED  BY <2>1, <2>2
<1>3. ASSUME NEW v \in Values, NEW i \in 0 .. num - 1, InsertElem(i, v) PROVE Goal
  <2>1. CASE num + 1 \in DOMAIN Room
    <3>1. status' = status
      BY <1>3, <2>1 DEF InsertElem
    <3>. QED  BY <1>00, <1>3, <2>1, <3>1, InsertElemRefines
  <2>2. CASE num + 1 \notin DOMAIN Room
    BY <1>0, <1>3, <2>2, RoomFacts DEF InsertElem
  <2>. QED  BY <2>1, <2>2
<1>4. ASSUME NEW v \in Values, NEW i \in 0 .. MaxCount, SetElem(i, v) PROVE Goal
  <2>1. CASE size # 0
    <3>1. status' = status
      BY <1>4, <2>1 DEF SetElem, Reach
    <3>. QED  BY <1>00, <1>4, <2>1, <3>1, SetElemRefines DEF Contents!Next
  <2>2. CASE size = 0
    BY <1>0, <1>4, <2>2 DEF SetElem, Reach
  <2>. QED  BY <2>1, <2>2
<1>5. ASSUME NEW i \in 0 .. MaxCount, Index(i) PROVE Goal
  <2>1. CASE size # 0
    <3>1. status' = status
      BY <1>5, <2>1 DEF Index, Reach
    <3>. QED  BY <1>00, <1>5, <2>1, <3>1, IndexRefines DEF Contents!Next
  <2>2. CASE size = 0
    BY <1>0, <1>5, <2>2 DEF Index, Reach
  <2>. QED  BY <2>1, <2>2
<1>6. ASSUME NEW i \in 0 .. num - 1, RemoveElem(i) PROVE Goal
  <2>1. status' = status
    BY <1>6 DEF RemoveElem
  <2>. QED  BY <1>00, <1>6, <2>1, RemoveElemRefines DEF Contents!Next
<1>7. ASSUME NEW i \in 0 .. num - 1, RemoveElemFast(i) PROVE Goal
  <2>1. status' = status
    BY <1>7 DEF RemoveElemFast
  <2>. QED  BY <1>00, <1>7, <2>1, RemoveElemFastRefines DEF Contents!Next
<1>8. CASE Flip
  <2>1. status' = status
    BY <1>8 DEF Flip
  <2>. QED  BY <1>00, <1>8, <2>1, FlipRefines DEF Contents!Next
<1>9. ASSUME NEW n \in 0 .. num, SetCount(n) PROVE Goal
  <2>1. status' = status
    BY <1>9 DEF SetCount
  <2>. QED  BY <1>00, <1>9, <2>1, SetCountRefines DEF Contents!Next
<1>10. ASSUME NEW n \in Nat, MakeEmpty(n) PROVE Goal
  <2>1. status' = status
    BY <1>10 DEF MakeEmpty
  <2>. QED  BY <1>00, <1>10, <2>1, MakeEmptyRefines DEF Contents!Next
<1>11. CASE ShrinkToFit
  <2>1. status' = status
    BY <1>11 DEF ShrinkToFit
  <2>. QED  BY <1>11, <2>1, ShrinkRefines
<1>12. CASE UNCHANGED vars
  BY <1>12 DEF vars, ArrayInv, items, usable
<1>13. FreeMemory => \E n \in Nat : MakeEmpty(n)
  BY DEF FreeMemory
<1>14. \A n \in InitSizes : n \in Nat
  BY ArrayAssumption
<1>. QED  BY <1>1, <1>2, <1>3, <1>4, <1>5, <1>6, <1>7, <1>8, <1>9, <1>10, <1>11,
             <1>12, <1>13, <1>14 DEF Next

\* The elements always lie at the front of a block of elements and junk.
THEOREM ArrayIsSound == Spec => []ArrayInv
<1>1. ArrayInv /\ [Next]_vars => ArrayInv'
  BY StepRefines
<1>. QED  BY <1>1, InitArray, PTL DEF Spec

\* Growing, shifting, overwriting and shrinking implement a list.
THEOREM ArrayIsList == Spec => IsList
<1>1. ArrayInv /\ [Next]_vars => [Contents!Next]_<<items, usable>>
  BY StepRefines
<1>2. [Contents!Next]_<<items, usable>>
        => [Contents!Next]_<<SubSeq(block, 1, num), status = "ok">>
  BY DEF items, usable
<1>. QED  BY <1>1, <1>2, InitArray, ArrayIsSound, PTL DEF Spec, IsList, Contents!Spec

\* It stops working only when it is empty and without memory.
THEOREM BreaksEmpty == Spec => BreaksOnlyWhenEmpty
<1>1. ArrayInv /\ [Next]_vars => [status' # status => size = 0 /\ num = 0]_vars
  BY StepRefines
<1>. QED  BY <1>1, ArrayIsSound, PTL DEF Spec, BreaksOnlyWhenEmpty
=============================================================================
