----------------------------- MODULE DocumentProofs -----------------------------
(***************************************************************************)
(* The dictionary of dimeDict is a map, for any keys, any number of        *)
(* buckets and any way to number them.  Reading, editing, copying and      *)
(* writing keep the inductive invariant of a model (ModelIn), from which   *)
(* layers are found, handles are unique and setting a variable sets it.    *)
(* At the end, what is written: a file whole or not said to be.            *)
(***************************************************************************)
EXTENDS Document, Induction

\* A dictionary with values in V: every entry hangs on the bucket of its key,
\* and no key is on a chain twice.
DictOK(d, V) ==
  /\ d \in [Buckets -> Seq([key : Keys, value : V])]
  /\ \A b \in Buckets : \A i \in 1 .. Len(d[b]) : Bucket(d[b][i].key) = b
  /\ \A b \in Buckets : \A i, j \in 1 .. Len(d[b]) :
       d[b][i].key = d[b][j].key => i = j

\* the entry of the key is the i-th of its chain
IsAt(d, key, i) == i \in 1 .. Len(Chain(d, key)) /\ Chain(d, key)[i].key = key

\* bucketNr() modulo the size of the table is a bucket
LEMMA BucketInTable == \A key \in Keys : Bucket(key) \in Buckets
<1>1. ASSUME NEW key \in Keys PROVE BucketNr[key] \in Nat
  BY DictAssumption
<1>2. ASSUME NEW a \in Nat, NEW n \in Nat \ {0} PROVE a % n \in 0 .. n - 1
  OBVIOUS
<1>3. TableSize \in Nat \ {0}
  BY DictAssumption
<1> QED BY <1>1, <1>2, <1>3 DEF Bucket, Buckets

\* findEntry() finds the only entry of the key, or the end of the chain
LEMMA FindEntryFinds ==
  ASSUME NEW V, NEW d, DictOK(d, V), NEW key \in Keys
  PROVE  /\ Chain(d, key) \in Seq([key : Keys, value : V])
         /\ FindEntry(d, key) \in 1 .. Len(Chain(d, key)) + 1
         /\ Has(d, key) <=> IsAt(d, key, FindEntry(d, key))
         /\ \A i : IsAt(d, key, i) => i = FindEntry(d, key)
<1> DEFINE c == Chain(d, key)
           P(i) == /\ i <= Len(c) => c[i].key = key
                   /\ \A j \in 1 .. i - 1 : c[j].key # key
           n == FindEntry(d, key)
<1>1. Bucket(key) \in Buckets
  BY BucketInTable
<1>2. /\ c \in Seq([key : Keys, value : V])
      /\ \A i, j \in 1 .. Len(c) : c[i].key = c[j].key => i = j
  BY <1>1 DEF DictOK, Chain
<1>3. Len(c) \in Nat
  BY <1>2
<1>4. n = CHOOSE i \in 1 .. Len(c) + 1 : P(i)
  BY DEF FindEntry
<1> HIDE DEF c, n
<1>5. \E i \in 1 .. Len(c) + 1 : P(i)
  <2>1. CASE \E i \in 1 .. Len(c) : c[i].key = key
    <3>1. PICK i \in 1 .. Len(c) : c[i].key = key
      BY <2>1
    <3>2. ASSUME NEW j \in 1 .. i - 1 PROVE c[j].key # key
      BY <3>1, <1>2, <1>3
    <3>3. i \in 1 .. Len(c) + 1
      BY <1>3
    <3> QED BY <3>1, <3>2, <3>3
  <2>2. CASE ~ \E i \in 1 .. Len(c) : c[i].key = key
    <3>1. Len(c) + 1 \in 1 .. Len(c) + 1 /\ ~ (Len(c) + 1 <= Len(c))
      BY <1>3
    <3>2. ASSUME NEW j \in 1 .. (Len(c) + 1) - 1 PROVE c[j].key # key
      BY <2>2, <1>3
    <3> QED BY <3>1, <3>2
  <2> QED BY <2>1, <2>2
<1>6. n \in 1 .. Len(c) + 1 /\ P(n)
  BY <1>4, <1>5
<1>7. n <= Len(c) <=> n \in 1 .. Len(c) /\ c[n].key = key
  BY <1>6, <1>3
<1>8. ASSUME NEW i, i \in 1 .. Len(c), c[i].key = key PROVE i = n
  <2>1. CASE n <= Len(c)
    BY <2>1, <1>7, <1>8, <1>2
  <2>2. CASE ~ (n <= Len(c))
    BY <2>2, <1>6, <1>3, <1>8
  <2> QED BY <2>1, <2>2
<1> QED BY <1>2, <1>6, <1>7, <1>8 DEF c, n, Has, IsAt

\* A new dictionary is empty.
THEOREM NewDictIsEmpty ==
  ASSUME NEW V
  PROVE  DictOK(EmptyDict, V) /\ \A key \in Keys : ~ Has(EmptyDict, key)
<1>1. DictOK(EmptyDict, V)
  BY DEF DictOK, EmptyDict
<1>2. ASSUME NEW key \in Keys PROVE ~ Has(EmptyDict, key)
  <2>1. Chain(EmptyDict, key) = << >>
    BY BucketInTable DEF Chain, EmptyDict
  <2>2. ~ IsAt(EmptyDict, key, FindEntry(EmptyDict, key))
    BY <2>1 DEF IsAt
  <2> QED BY <2>2, <1>1, FindEntryFinds
<1> QED BY <1>1, <1>2
-----------------------------------------------------------------------------
\* The elements of a sequence, and the sequence that a function is.
LEMMA SeqElements ==
  ASSUME NEW S, NEW s \in Seq(S)
  PROVE  Len(s) \in Nat /\ \A i \in 1 .. Len(s) : s[i] \in S
OBVIOUS

\* a function on 1 .. n is a sequence
LEMMA FunctionIsSeq ==
  ASSUME NEW S, NEW n \in Nat, NEW s \in [1 .. n -> S]
  PROVE  s \in Seq(S) /\ Len(s) = n
OBVIOUS

\* What is on a chain decides what is found there.
LEMMA FindIs ==
  ASSUME NEW V, NEW d, DictOK(d, V), NEW key \in Keys, NEW i, IsAt(d, key, i)
  PROVE  Has(d, key) /\ Find(d, key) = Chain(d, key)[i].value
<1>1. i = FindEntry(d, key) /\ (Has(d, key) <=> IsAt(d, key, FindEntry(d, key)))
  BY FindEntryFinds
<1>2. Has(d, key)
  BY <1>1
<1> QED BY <1>1, <1>2 DEF Find

\* A dictionary whose only changed chain is still in order is a dictionary.
LEMMA OneChain ==
  ASSUME NEW V, NEW d, DictOK(d, V), NEW b \in Buckets,
         NEW c \in Seq([key : Keys, value : V]),
         \A i \in 1 .. Len(c) : Bucket(c[i].key) = b,
         \A i, j \in 1 .. Len(c) : c[i].key = c[j].key => i = j
  PROVE  DictOK([d EXCEPT ![b] = c], V)
<1> DEFINE e == [d EXCEPT ![b] = c]
<1>1. e \in [Buckets -> Seq([key : Keys, value : V])]
  BY DEF DictOK
<1>2. e[b] = c /\ \A a \in Buckets : a # b => e[a] = d[a]
  BY DEF DictOK
<1> HIDE DEF e
<1>3. ASSUME NEW a \in Buckets, NEW i \in 1 .. Len(e[a]) PROVE Bucket(e[a][i].key) = a
  <2>1. CASE a = b
    BY <2>1, <1>2
  <2>2. CASE a # b
    BY <2>2, <1>2 DEF DictOK
  <2> QED BY <2>1, <2>2
<1>4. ASSUME NEW a \in Buckets, NEW i \in 1 .. Len(e[a]), NEW j \in 1 .. Len(e[a]),
             e[a][i].key = e[a][j].key
      PROVE  i = j
  <2>1. CASE a = b
    BY <2>1, <1>2, <1>4
  <2>2. CASE a # b
    BY <2>2, <1>2, <1>4 DEF DictOK
  <2> QED BY <2>1, <2>2
<1>5. DictOK(e, V)
  BY <1>1, <1>3, <1>4 DEF DictOK
<1> QED BY <1>5 DEF e

\* Other chains, and the keys on them, are not disturbed.
LEMMA OtherChain ==
  ASSUME NEW V, NEW d, DictOK(d, V), NEW b \in Buckets, NEW c,
         DictOK([d EXCEPT ![b] = c], V),
         NEW key \in Keys, Bucket(key) # b
  PROVE  /\ Has([d EXCEPT ![b] = c], key) <=> Has(d, key)
         /\ Find([d EXCEPT ![b] = c], key) = Find(d, key)
<1> DEFINE e == [d EXCEPT ![b] = c]
<1>1. Chain(e, key) = Chain(d, key)
  BY BucketInTable DEF DictOK, Chain
<1> HIDE DEF e
<1>2. FindEntry(e, key) = FindEntry(d, key)
  BY <1>1 DEF FindEntry
<1>3. (Has(e, key) <=> Has(d, key)) /\ Find(e, key) = Find(d, key)
  BY <1>1, <1>2 DEF Has, Find
<1> QED BY <1>3 DEF e

\* A key on a chain before and after keeps its value; one on neither stays
\* unknown.
LEMMA SameEntry ==
  ASSUME NEW V, NEW d, DictOK(d, V), NEW e, DictOK(e, V), NEW key \in Keys,
         \A i : IsAt(d, key, i) =>
           \E j : IsAt(e, key, j) /\ Chain(e, key)[j].value = Chain(d, key)[i].value,
         \A j : IsAt(e, key, j) => \E i : IsAt(d, key, i)
  PROVE  /\ Has(e, key) <=> Has(d, key)
         /\ Has(d, key) => Find(e, key) = Find(d, key)
<1>1. CASE Has(d, key)
  <2>1. PICK i : IsAt(d, key, i)
    BY <1>1, FindEntryFinds
  <2>2. PICK j : IsAt(e, key, j) /\ Chain(e, key)[j].value = Chain(d, key)[i].value
    BY <2>1
  <2>3. Find(d, key) = Chain(d, key)[i].value
    BY <2>1, FindIs
  <2>4. Has(e, key) /\ Find(e, key) = Chain(e, key)[j].value
    BY <2>2, FindIs
  <2> QED BY <1>1, <2>2, <2>3, <2>4
<1>2. CASE ~ Has(d, key)
  <2>1. ~ \E i : IsAt(d, key, i)
    BY <1>2, FindIs
  <2>2. ~ Has(e, key)
    BY <2>1, FindEntryFinds
  <2> QED BY <1>2, <2>2
<1> QED BY <1>1, <1>2
-----------------------------------------------------------------------------
\* enter() of a key that is there: its value is replaced
LEMMA Replaces ==
  ASSUME NEW V, NEW d, DictOK(d, V), NEW key \in Keys, NEW value \in V,
         Has(d, key)
  PROVE  /\ DictOK(Enter(d, key, value), V)
         /\ IsAt(Enter(d, key, value), key, FindEntry(d, key))
         /\ Chain(Enter(d, key, value), key)[FindEntry(d, key)].value = value
         /\ Enter(d, key, value) =
              [d EXCEPT ![Bucket(key)] = Chain(Enter(d, key, value), key)]
         /\ \A x \in Keys \ {key} : Bucket(x) = Bucket(key) =>
              \A i : /\ IsAt(d, x, i) <=> IsAt(Enter(d, key, value), x, i)
                     /\ IsAt(d, x, i) => Chain(Enter(d, key, value), x)[i].value
                                         = Chain(d, x)[i].value
<1> DEFINE b == Bucket(key)
           n == FindEntry(d, key)
           c == [d[b] EXCEPT ![n].value = value]
<1>1. b \in Buckets /\ d[b] \in Seq([key : Keys, value : V])
  BY BucketInTable DEF DictOK
<1>2. n \in 1 .. Len(d[b]) /\ d[b][n].key = key
  BY FindEntryFinds DEF IsAt, Chain
<1>3. Enter(d, key, value) = [d EXCEPT ![b] = c]
  BY DEF Enter
<1> HIDE DEF b, n
<1>4. Len(d[b]) \in Nat /\ \A i \in 1 .. Len(d[b]) : d[b][i] \in [key : Keys, value : V]
  BY <1>1, SeqElements
<1>5. DOMAIN d[b] = 1 .. Len(d[b])
  BY <1>1
<1>6. c = [i \in 1 .. Len(d[b]) |->
             IF i = n THEN [d[b][i] EXCEPT !.value = value] ELSE d[b][i]]
  BY <1>1, <1>2, <1>5
<1> HIDE DEF c
<1>7. ASSUME NEW i \in 1 .. Len(d[b])
      PROVE  /\ c[i] \in [key : Keys, value : V] /\ c[i].key = d[b][i].key
             /\ c[i].value = IF i = n THEN value ELSE d[b][i].value
  BY <1>6, <1>4
<1>8. c \in Seq([key : Keys, value : V]) /\ Len(c) = Len(d[b])
  BY <1>6, <1>7, <1>4, FunctionIsSeq
<1>9. DictOK([d EXCEPT ![b] = c], V)
  <2>1. ASSUME NEW i \in 1 .. Len(c) PROVE Bucket(c[i].key) = b
    BY <1>7, <1>8, <1>1 DEF DictOK
  <2>2. ASSUME NEW i \in 1 .. Len(c), NEW j \in 1 .. Len(c), c[i].key = c[j].key
        PROVE  i = j
    BY <2>2, <1>7, <1>8, <1>1 DEF DictOK
  <2> QED BY <2>1, <2>2, <1>1, <1>8, OneChain
<1>10. [d EXCEPT ![b] = c][b] = c
  BY <1>1 DEF DictOK
<1>11. ASSUME NEW x \in Keys, Bucket(x) = b
       PROVE  Chain(Enter(d, key, value), x) = c /\ Chain(d, x) = d[b]
  BY <1>11, <1>3, <1>10 DEF Chain
<1>12. Chain(Enter(d, key, value), key) = c
  BY <1>11 DEF b
<1>13. IsAt(Enter(d, key, value), key, n) /\ c[n].value = value
  BY <1>12, <1>7, <1>8, <1>2 DEF IsAt
<1>14. ASSUME NEW x \in Keys \ {key}, Bucket(x) = b, NEW i
       PROVE  /\ IsAt(d, x, i) <=> IsAt(Enter(d, key, value), x, i)
              /\ IsAt(d, x, i) => c[i].value = d[b][i].value
  <2>1. IsAt(d, x, i) <=> i \in 1 .. Len(d[b]) /\ d[b][i].key = x
    BY <1>11, <1>14 DEF IsAt
  <2>2. IsAt(Enter(d, key, value), x, i) <=> i \in 1 .. Len(c) /\ c[i].key = x
    BY <1>11, <1>14 DEF IsAt
  <2> QED BY <2>1, <2>2, <1>7, <1>8, <1>2
<1> QED BY <1>3, <1>9, <1>11, <1>12, <1>13, <1>14 DEF b, n

\* enter() of a key that is not there: it is put at the end of its chain
LEMMA Appends ==
  ASSUME NEW V, NEW d, DictOK(d, V), NEW key \in Keys, NEW value \in V,
         ~ Has(d, key)
  PROVE  /\ DictOK(Enter(d, key, value), V)
         /\ IsAt(Enter(d, key, value), key, Len(Chain(d, key)) + 1)
         /\ Chain(Enter(d, key, value), key)[Len(Chain(d, key)) + 1].value = value
         /\ Enter(d, key, value) =
              [d EXCEPT ![Bucket(key)] = Chain(Enter(d, key, value), key)]
         /\ \A x \in Keys \ {key} : Bucket(x) = Bucket(key) =>
              \A i : /\ IsAt(d, x, i) <=> IsAt(Enter(d, key, value), x, i)
                     /\ IsAt(d, x, i) => Chain(Enter(d, key, value), x)[i].value
                                         = Chain(d, x)[i].value
<1> DEFINE b == Bucket(key)
           new == [key |-> key, value |-> value]
           c == Append(d[b], new)
<1>1. b \in Buckets /\ d[b] \in Seq([key : Keys, value : V])
  BY BucketInTable DEF DictOK
<1>2. \A i \in 1 .. Len(d[b]) : d[b][i].key # key
  BY FindIs DEF IsAt, Chain
<1>3. Enter(d, key, value) = [d EXCEPT ![b] = c]
  BY DEF Enter
<1>4. new \in [key : Keys, value : V] /\ new.key = key /\ new.value = value
  OBVIOUS
<1> HIDE DEF b, new
<1>5. /\ c \in Seq([key : Keys, value : V]) /\ Len(c) = Len(d[b]) + 1
      /\ Len(d[b]) \in Nat
      /\ \A i \in 1 .. Len(d[b]) : c[i] = d[b][i]
      /\ c[Len(d[b]) + 1] = new
  BY <1>1, <1>4
<1> HIDE DEF c
<1>6. ASSUME NEW i \in 1 .. Len(c) PROVE i \in 1 .. Len(d[b]) \/ i = Len(d[b]) + 1
  BY <1>5
<1>7. DictOK([d EXCEPT ![b] = c], V)
  <2>1. ASSUME NEW i \in 1 .. Len(c) PROVE Bucket(c[i].key) = b
    <3>1. CASE i \in 1 .. Len(d[b])
      BY <3>1, <1>5, <1>1 DEF DictOK
    <3>2. CASE i = Len(d[b]) + 1
      BY <3>2, <1>5, <1>4 DEF b
    <3> QED BY <3>1, <3>2, <1>6
  <2>2. ASSUME NEW i \in 1 .. Len(c), NEW j \in 1 .. Len(c), c[i].key = c[j].key
        PROVE  i = j
    <3>1. CASE i \in 1 .. Len(d[b]) /\ j \in 1 .. Len(d[b])
      BY <3>1, <2>2, <1>5, <1>1 DEF DictOK
    <3>2. CASE i \in 1 .. Len(d[b]) /\ j = Len(d[b]) + 1
      BY <3>2, <2>2, <1>5, <1>4, <1>2
    <3>3. CASE i = Len(d[b]) + 1 /\ j \in 1 .. Len(d[b])
      BY <3>3, <2>2, <1>5, <1>4, <1>2
    <3> QED BY <3>1, <3>2, <3>3, <1>6
  <2> QED BY <2>1, <2>2, <1>1, <1>5, OneChain
<1>8. [d EXCEPT ![b] = c][b] = c
  BY <1>1 DEF DictOK
<1>9. ASSUME NEW x \in Keys, Bucket(x) = b
      PROVE  Chain(Enter(d, key, value), x) = c /\ Chain(d, x) = d[b]
  BY <1>9, <1>3, <1>8 DEF Chain
<1>10. Chain(Enter(d, key, value), key) = c /\ Chain(d, key) = d[b]
  BY <1>9 DEF b
<1>11. /\ IsAt(Enter(d, key, value), key, Len(d[b]) + 1)
       /\ c[Len(d[b]) + 1].value = value
  BY <1>5, <1>10, <1>4 DEF IsAt
<1>12. ASSUME NEW x \in Keys \ {key}, Bucket(x) = b, NEW i
       PROVE  /\ IsAt(d, x, i) <=> IsAt(Enter(d, key, value), x, i)
              /\ IsAt(d, x, i) => c[i].value = d[b][i].value
  <2>1. IsAt(d, x, i) <=> i \in 1 .. Len(d[b]) /\ d[b][i].key = x
    BY <1>9, <1>12 DEF IsAt
  <2>2. IsAt(Enter(d, key, value), x, i) <=> i \in 1 .. Len(c) /\ c[i].key = x
    BY <1>9, <1>12 DEF IsAt
  <2>3. i \in 1 .. Len(d[b]) => i \in 1 .. Len(c)
    BY <1>5
  <2>4. c[Len(d[b]) + 1].key # x
    BY <1>5, <1>4
  <2> QED BY <2>1, <2>2, <2>3, <2>4, <1>5, <1>6
<1> QED BY <1>3, <1>7, <1>9, <1>10, <1>11, <1>12 DEF b

\* enter() stores one key: what was there for the others stays, and an entry
\* of the key is never doubled.
THEOREM EnterStores ==
  ASSUME NEW V, NEW d, DictOK(d, V), NEW key \in Keys, NEW value \in V
  PROVE  /\ DictOK(Enter(d, key, value), V)
         /\ Has(Enter(d, key, value), key)
         /\ Find(Enter(d, key, value), key) = value
         /\ \A x \in Keys \ {key} :
              /\ Has(Enter(d, key, value), x) <=> Has(d, x)
              /\ Has(d, x) => Find(Enter(d, key, value), x) = Find(d, x)
<1> DEFINE e == Enter(d, key, value)
<1>1. /\ DictOK(e, V)
      /\ e = [d EXCEPT ![Bucket(key)] = Chain(e, key)]
      /\ \A x \in Keys \ {key} : Bucket(x) = Bucket(key) =>
           \A i : /\ IsAt(d, x, i) <=> IsAt(e, x, i)
                  /\ IsAt(d, x, i) => Chain(e, x)[i].value = Chain(d, x)[i].value
  BY Replaces, Appends
<1>2. \E i : IsAt(e, key, i) /\ Chain(e, key)[i].value = value
  BY Replaces, Appends
<1> HIDE DEF e
<1>3. Has(e, key) /\ Find(e, key) = value
  BY <1>1, <1>2, FindIs
<1>4. ASSUME NEW x \in Keys \ {key}
      PROVE  (Has(e, x) <=> Has(d, x)) /\ (Has(d, x) => Find(e, x) = Find(d, x))
  <2>1. CASE Bucket(x) = Bucket(key)
    <3>0. \A i : /\ IsAt(d, x, i) <=> IsAt(e, x, i)
                 /\ IsAt(d, x, i) => Chain(e, x)[i].value = Chain(d, x)[i].value
      BY <2>1, <1>1, Zenon
    <3>1. ASSUME NEW i, IsAt(d, x, i)
          PROVE  \E j : IsAt(e, x, j) /\ Chain(e, x)[j].value = Chain(d, x)[i].value
      BY <3>0, <3>1
    <3>2. ASSUME NEW j, IsAt(e, x, j) PROVE \E i : IsAt(d, x, i)
      BY <3>0, <3>2
    <3> QED BY <3>1, <3>2, <1>1, SameEntry
  <2>2. CASE Bucket(x) # Bucket(key)
    <3> DEFINE c == Chain(e, key)
    <3> HIDE DEF c
    <3>1. e = [d EXCEPT ![Bucket(key)] = c] /\ DictOK([d EXCEPT ![Bucket(key)] = c], V)
      BY <1>1 DEF c
    <3>2. Bucket(key) \in Buckets
      BY BucketInTable
    <3> QED BY ZenonT(60), <2>2, <3>1, <3>2, OtherChain
  <2> QED BY <2>1, <2>2
<1> QED BY <1>1, <1>3, <1>4 DEF e
-----------------------------------------------------------------------------
\* remove() deletes one key: it is not found again, and the others are found
\* with their values, wherever their entries hang.
THEOREM RemoveDeletes ==
  ASSUME NEW V, NEW d, DictOK(d, V), NEW key \in Keys
  PROVE  /\ DictOK(Removed(d, key), V)
         /\ ~ Has(Removed(d, key), key)
         /\ \A x \in Keys \ {key} :
              /\ Has(Removed(d, key), x) <=> Has(d, x)
              /\ Has(d, x) => Find(Removed(d, key), x) = Find(d, x)
<1>1. CASE ~ Has(d, key)
  BY <1>1 DEF Removed
<1>2. CASE Has(d, key)
  <2> DEFINE b == Bucket(key)
             n == FindEntry(d, key)
             Old(i) == IF i < n THEN i ELSE i + 1
             c == [i \in 1 .. Len(d[b]) - 1 |-> d[b][Old(i)]]
             e == Removed(d, key)
  <2>1. b \in Buckets /\ d[b] \in Seq([key : Keys, value : V])
    BY BucketInTable DEF DictOK
  <2>2. n \in 1 .. Len(d[b]) /\ d[b][n].key = key
    BY <1>2, FindEntryFinds DEF IsAt, Chain
  <2>3. e = [d EXCEPT ![b] = c]
    BY <1>2 DEF Removed
  <2> HIDE DEF b, n, e
  <2>4. /\ Len(d[b]) \in Nat
        /\ \A i \in 1 .. Len(d[b]) : d[b][i] \in [key : Keys, value : V]
    BY <2>1, SeqElements
  <2>5. ASSUME NEW i \in 1 .. Len(d[b]) - 1
        PROVE  Old(i) \in 1 .. Len(d[b]) /\ Old(i) # n
    BY <2>2, <2>4
  <2>6. c \in Seq([key : Keys, value : V]) /\ Len(c) = Len(d[b]) - 1
    <3>1. c \in [1 .. Len(d[b]) - 1 -> [key : Keys, value : V]]
      BY <2>4, <2>5
    <3>2. Len(d[b]) - 1 \in Nat
      BY <2>2, <2>4
    <3> HIDE DEF c
    <3> QED BY ZenonT(60), <3>1, <3>2, FunctionIsSeq
  <2>7. \A i \in 1 .. Len(c) : c[i] = d[b][Old(i)] /\ Old(i) \in 1 .. Len(d[b]) \ {n}
    BY <2>5, <2>6
  <2>8. \A i, j \in 1 .. Len(c) : Old(i) = Old(j) => i = j
    BY <2>2, <2>4, <2>6
  <2>9. \A k \in 1 .. Len(d[b]) \ {n} : \E i \in 1 .. Len(c) : Old(i) = k
    <3>1. ASSUME NEW k \in 1 .. Len(d[b]) \ {n} PROVE \E i \in 1 .. Len(c) : Old(i) = k
      <4>1. CASE k < n
        BY <4>1, <2>2, <2>4, <2>6
      <4>2. CASE k > n
        <5>1. k - 1 \in 1 .. Len(c) /\ Old(k - 1) = k
          BY <4>2, <2>2, <2>4, <2>6
        <5> QED BY <5>1
      <4> QED BY <4>1, <4>2, <2>2, <2>4
    <3> QED BY <3>1
  <2> HIDE DEF c, Old
  <2>10. DictOK(e, V)
    <3>1. ASSUME NEW i \in 1 .. Len(c) PROVE Bucket(c[i].key) = b
      BY <2>7, <2>1 DEF DictOK
    <3>2. ASSUME NEW i \in 1 .. Len(c), NEW j \in 1 .. Len(c), c[i].key = c[j].key
          PROVE  i = j
      <4>1. d[b][Old(i)].key = d[b][Old(j)].key
        BY <3>2, <2>7
      <4>2. Old(i) \in 1 .. Len(d[b]) /\ Old(j) \in 1 .. Len(d[b])
        BY <2>7
      <4>3. Old(i) = Old(j)
        BY <4>1, <4>2, <2>1 DEF DictOK
      <4> QED BY <4>3, <2>8
    <3> QED BY <3>1, <3>2, <2>1, <2>3, <2>6, OneChain
  <2>11. e[b] = c
    BY <2>1, <2>3 DEF DictOK
  <2>12. ASSUME NEW x \in Keys, Bucket(x) = b
         PROVE  Chain(e, x) = c /\ Chain(d, x) = d[b]
    BY <2>11, <2>12 DEF Chain
  <2>13. ~ Has(e, key)
    <3>1. \A i : ~ IsAt(e, key, i)
      <4>1. Chain(e, key) = c
        BY <2>12 DEF b
      <4>2. ASSUME NEW i \in 1 .. Len(c) PROVE c[i].key # key
        BY <2>7, <2>1, <2>2 DEF DictOK
      <4> QED BY <4>1, <4>2 DEF IsAt
    <3> QED BY <3>1, <2>10, FindEntryFinds
  <2>14. ASSUME NEW x \in Keys \ {key}
         PROVE  (Has(e, x) <=> Has(d, x)) /\ (Has(d, x) => Find(e, x) = Find(d, x))
    <3>1. CASE Bucket(x) = b
      <4>1. Chain(e, x) = c /\ Chain(d, x) = d[b]
        BY <3>1, <2>12
      <4>2. ASSUME NEW i, IsAt(d, x, i)
            PROVE  \E j : IsAt(e, x, j) /\ Chain(e, x)[j].value = Chain(d, x)[i].value
        <5>1. i \in 1 .. Len(d[b]) \ {n} /\ d[b][i].key = x
          BY <4>1, <4>2, <2>2 DEF IsAt
        <5>2. PICK j \in 1 .. Len(c) : Old(j) = i
          BY <5>1, <2>9
        <5>3. c[j] = d[b][i]
          BY <5>2, <2>7
        <5>4. IsAt(e, x, j) /\ Chain(e, x)[j].value = Chain(d, x)[i].value
          BY <5>1, <5>2, <5>3, <4>1 DEF IsAt
        <5> QED BY <5>4
      <4>3. ASSUME NEW j, IsAt(e, x, j) PROVE \E i : IsAt(d, x, i)
        <5>1. j \in 1 .. Len(c) /\ c[j].key = x
          BY <4>1, <4>3 DEF IsAt
        <5>2. IsAt(d, x, Old(j))
          BY <5>1, <4>1, <2>7 DEF IsAt
        <5> QED BY <5>2
      <4> QED BY <4>2, <4>3, <2>10, SameEntry
    <3>2. CASE Bucket(x) # b
      BY ZenonT(60), <3>2, <2>1, <2>3, <2>10, OtherChain
    <3> QED BY <3>1, <3>2
  <2> QED BY <2>10, <2>13, <2>14 DEF e
<1> QED BY <1>1, <1>2

-----------------------------------------------------------------------------
(* Header variables.                                                        *)

\* The least of a set of naturals, and what else it could be.
LEMMA MinIs ==
  ASSUME NEW S, S \subseteq Nat, S # {}
  PROVE  Min(S) \in S /\ \A y \in S : Min(S) <= y
<1>1. \E x \in S : \A y \in S : x <= y
  BY NatMin
<1> QED BY <1>1 DEF Min

\* The least is the only element that no other is below.
LEMMA OnlyMin ==
  ASSUME NEW S, S \subseteq Nat, NEW x \in S, \A y \in S : x <= y
  PROVE  Min(S) = x
<1>1. Min(S) \in S /\ \A y \in S : Min(S) <= y
  BY MinIs
<1>2. Min(S) <= x /\ x <= Min(S) /\ x \in Nat /\ Min(S) \in Nat
  BY <1>1
<1> QED BY <1>2

\* A variable ends before the next record of group code 9.
EndsAt(recs, i, e) ==
  /\ e \in i .. Len(recs) + 1
  /\ \A j \in i .. e - 1 : recs[j].code # 9
  /\ e <= Len(recs) => recs[e].code = 9

\* endOfVariable(): the records of a variable end at the next name, or where the records
\* end.
LEMMA EndOfVariableIs ==
  ASSUME NEW recs \in RecordSeq, NEW i \in 1 .. Len(recs) + 1
  PROVE  /\ EndsAt(recs, i, EndOfVariable(recs, i))
         /\ \A e : EndsAt(recs, i, e) => e = EndOfVariable(recs, i)
<1> DEFINE n == Len(recs)
           S == {j \in i .. n : recs[j].code = 9} \cup {n + 1}
           m == EndOfVariable(recs, i)
<1>1. n \in Nat
  BY DEF RecordSeq
<1> HIDE DEF n
<1>2. i \in 1 .. n + 1
  BY DEF n
<1>3. S \subseteq Nat /\ n + 1 \in S
  BY <1>1, <1>2
<1>4. m = Min(S)
  BY DEF EndOfVariable, n
<1> HIDE DEF m
<1>5. m \in S /\ \A y \in S : m <= y
  BY <1>3, <1>4, MinIs
<1>6. m \in i .. n + 1
  BY <1>1, <1>2, <1>5
<1>7. ASSUME NEW j \in i .. m - 1 PROVE recs[j].code # 9
  BY <1>1, <1>2, <1>6, <1>5
<1>8. m <= n => recs[m].code = 9
  BY <1>1, <1>5
<1>9. EndsAt(recs, i, m)
  BY <1>6, <1>7, <1>8 DEF EndsAt, n
<1>10. ASSUME NEW e, EndsAt(recs, i, e) PROVE e = m
  <2>1. /\ e \in i .. n + 1
        /\ \A j \in i .. e - 1 : recs[j].code # 9
        /\ e <= n => recs[e].code = 9
    BY <1>10 DEF EndsAt, n
  <2>2. CASE e < m
    BY <2>1, <2>2, <1>1, <1>2, <1>6, <1>7
  <2>3. CASE m < e
    BY <2>1, <2>3, <1>1, <1>2, <1>6, <1>8
  <2> QED BY <2>1, <2>2, <2>3, <1>1, <1>2, <1>6
<1> QED BY <1>9, <1>10 DEF m

\* findVariable() finds the first record that names the variable, if any.
FoundAt(recs, name, i) ==
  \/ /\ i = 0
     /\ \A j \in 1 .. Len(recs) : recs[j] # Str(9, name)
  \/ /\ i \in 1 .. Len(recs) /\ recs[i] = Str(9, name)
     /\ \A j \in 1 .. i - 1 : recs[j] # Str(9, name)

\* findVariable() is 0, or the first place that has the name.
LEMMA FindVariableIs ==
  ASSUME NEW recs \in RecordSeq, NEW name
  PROVE  /\ FoundAt(recs, name, FindVariable(recs, name))
         /\ \A i : FoundAt(recs, name, i) => i = FindVariable(recs, name)
<1> DEFINE n == Len(recs)
           S == {j \in 1 .. n : recs[j] = Str(9, name)}
           m == FindVariable(recs, name)
<1>1. n \in Nat /\ DOMAIN recs = 1 .. n
  BY DEF RecordSeq
<1>2. m = IF S = {} THEN 0 ELSE Min(S)
  BY <1>1 DEF FindVariable
<1> HIDE DEF n, m
<1>3. S \subseteq Nat
  BY <1>1
<1>4. CASE S = {}
  <2>1. FoundAt(recs, name, m)
    BY <1>2, <1>4 DEF FoundAt, n
  <2>2. \A i : FoundAt(recs, name, i) => i = m
    BY <1>2, <1>4 DEF FoundAt, n
  <2> QED BY <2>1, <2>2 DEF m
<1>5. CASE S # {}
  <2>1. m \in S /\ \A y \in S : m <= y
    BY <1>2, <1>3, <1>5, MinIs
  <2>2. ASSUME NEW j \in 1 .. m - 1 PROVE recs[j] # Str(9, name)
    BY <1>1, <2>1
  <2>3. FoundAt(recs, name, m)
    BY <2>1, <2>2 DEF FoundAt, n
  <2>4. ASSUME NEW i, FoundAt(recs, name, i) PROVE i = m
    <3>1. /\ i \in 1 .. n /\ recs[i] = Str(9, name)
          /\ \A j \in 1 .. i - 1 : recs[j] # Str(9, name)
      BY <2>4, <2>1 DEF FoundAt, n
    <3>2. m <= i
      BY <3>1, <2>1
    <3>3. ~ (m < i)
      <4>1. SUFFICES ASSUME m < i PROVE FALSE
        OBVIOUS
      <4>2. m \in 1 .. i - 1
        BY <4>1, <2>1, <3>1, <1>1
      <4> QED BY <4>2, <3>1, <2>1
    <3> QED BY <3>1, <3>2, <3>3, <2>1, <1>1
  <2> QED BY <2>3, <2>4 DEF m
<1> QED BY <1>4, <1>5

\* What findVariable() returns is 0 or an index of the records.
LEMMA FoundRange ==
  ASSUME NEW recs \in RecordSeq, NEW name
  PROVE  Len(recs) \in Nat /\ FindVariable(recs, name) \in 0 .. Len(recs)
         /\ FindVariable(recs, name) + 1 \in 1 .. Len(recs) + 1
<1> DEFINE i == FindVariable(recs, name)
           n == Len(recs)
<1>1. n \in Nat
  BY DEF RecordSeq
<1>2. FoundAt(recs, name, i)
  BY FindVariableIs
<1> HIDE DEF i
<1>3. i = 0 \/ i \in 1 .. n
  BY <1>2 DEF FoundAt
<1> HIDE DEF n
<1>4. i \in 0 .. n /\ i + 1 \in 1 .. n + 1
  BY <1>1, <1>3
<1> QED BY <1>1, <1>4 DEF i, n

-----------------------------------------------------------------------------
\* Two headers of the same group codes, which differ only from record "from"
\* on and before its variable ends.
Alike(recs, set, from) ==
  /\ recs \in RecordSeq /\ set \in RecordSeq /\ Len(set) = Len(recs)
  /\ \A j \in 1 .. Len(recs) :
       /\ set[j].code = recs[j].code
       /\ set[j] # recs[j] => j \in from .. EndOfVariable(recs, from) - 1

\* Where a variable ends depends on the group codes only.
LEMMA SameEnd ==
  ASSUME NEW recs, NEW set, NEW from, Alike(recs, set, from),
         NEW i \in 1 .. Len(recs) + 1
  PROVE  EndOfVariable(set, i) = EndOfVariable(recs, i)
<1> DEFINE e == EndOfVariable(recs, i)
<1>1. EndsAt(recs, i, e)
  BY EndOfVariableIs DEF Alike
<1> HIDE DEF e
<1>2. recs \in RecordSeq /\ Len(recs) \in Nat
  BY DEF Alike, RecordSeq
<1>3. \A j \in i .. e - 1 : j \in 1 .. Len(recs)
  BY <1>1, <1>2 DEF EndsAt
<1>4. e <= Len(recs) => e \in 1 .. Len(recs)
  BY <1>1, <1>2 DEF EndsAt
<1>5. EndsAt(set, i, e)
  BY <1>1, <1>3, <1>4 DEF EndsAt, Alike
<1> QED BY <1>5, EndOfVariableIs DEF Alike, e

\* Records are like themselves.
LEMMA AlikeItself ==
  ASSUME NEW recs \in RecordSeq, NEW from PROVE Alike(recs, recs, from)
BY DEF Alike

\* Being alike from a place on is transitive.
LEMMA AlikeAgain ==
  ASSUME NEW a, NEW b, NEW c, NEW from \in 1 .. Len(a) + 1,
         Alike(a, b, from), Alike(b, c, from)
  PROVE  Alike(a, c, from)
<1>1. EndOfVariable(b, from) = EndOfVariable(a, from)
  BY SameEnd
<1> QED BY <1>1 DEF Alike

\* setVariable() sets a value within the variable, or does nothing.
LEMMA SetValueAlike ==
  ASSUME NEW recs \in RecordSeq, NEW from \in 1 .. Len(recs) + 1, NEW r \in Record
  PROVE  Alike(recs, SetValue(recs, from, r), from)
<1> DEFINE at == {j \in from .. EndOfVariable(recs, from) - 1 : recs[j].code = r.code}
           set == SetValue(recs, from, r)
<1>1. CASE at = {}
  BY <1>1, AlikeItself DEF SetValue
<1>2. CASE at # {}
  <2> DEFINE k == Min(at)
  <2>1. set = [recs EXCEPT ![k] = r]
    BY <1>2 DEF SetValue
  <2>2. EndOfVariable(recs, from) \in from .. Len(recs) + 1 /\ Len(recs) \in Nat
    BY EndOfVariableIs DEF EndsAt, RecordSeq
  <2>3. at \subseteq 1 .. Len(recs)
    BY <2>2
  <2>4. k \in at
    <3>1. at \subseteq Nat
      BY <2>2, <2>3
    <3> HIDE DEF at
    <3> QED BY <3>1, <1>2, MinIs
  <2>5. k \in 1 .. Len(recs) /\ recs[k].code = r.code
        /\ k \in from .. EndOfVariable(recs, from) - 1
    BY <2>3, <2>4
  <2> HIDE DEF at, k, set
  <2>6. set \in RecordSeq /\ Len(set) = Len(recs)
    BY <2>1, <2>5 DEF RecordSeq
  <2>7. \A j \in 1 .. Len(recs) : set[j] = IF j = k THEN r ELSE recs[j]
    BY <2>1, <2>5 DEF RecordSeq
  <2>8. Alike(recs, set, from)
    BY <2>5, <2>6, <2>7 DEF Alike
  <2> QED BY <2>8 DEF set
<1> QED BY <1>1, <1>2
-----------------------------------------------------------------------------
(* Loops over sequences, by the operator that they repeat.                  *)

Begun(o, s) == WriteSection(WriteUnchecked(o, Str(0, "SECTION")), s)
Count1(loop, x) ==
  CASE loop = "CountEntry" -> CountEntry(x) [] loop = "CountTable" -> CountTable(x)
    [] loop = "CountClass" -> CountClass(x) [] loop = "CountObject" -> CountObject(x)
    [] loop = "CountSection" -> 1 + CountSection(x)
    [] loop = "TableOver" -> TableOver(x) [] loop = "SectionOver" -> SectionOver(x)
    [] loop = "Nothing" -> 0
Counts == {"CountEntry", "CountTable", "CountClass", "CountObject", "CountSection",
           "TableOver", "SectionOver", "Nothing"}
\* what one turn makes of the value v that the loop carries; c is the same in all
Turn(loop, c, v, x) ==
  CASE loop = "SetValue" -> SetValue(v, c, x)
    [] loop = "ReadOne" -> ReadOne(v, x, c)
    [] loop = "CopyEntry" -> CopyEntry(c, v, x)
    [] loop = "CopyTable" -> CopyTable(c, v, x)
    [] loop = "CopyItem" -> Append(v, CopyItem(x))
    [] loop = "CopySection" -> CopySection(c, v, x)
    [] loop = "WriteNext" -> WriteNext(v, x)
    [] loop = "WriteUnchecked" -> WriteUnchecked(v, x)
    [] loop = "WriteComment" -> WriteComment(v, x)
    [] loop = "WriteEntry" -> AndThen(v, LAMBDA y : WriteEntry(y, x))
    [] loop = "WriteTable" -> AndThen(v, LAMBDA y : WriteTable(y, x))
    [] loop = "WriteClass" -> AndThen(v, LAMBDA y : WriteClass(y, x))
    [] loop = "WriteObject" -> AndThen(v, LAMBDA y : WriteObject(y, x))
    [] loop = "WriteSection" -> AndThen(v, LAMBDA y : Begun(y, x))
    [] loop \in Counts -> v + Count1(loop, x)
\* the loop over items that begins with o
IsLoop(f, loop, c, o, items) ==
  f = [k \in 0 .. Len(items) |-> IF k = 0 THEN o ELSE Turn(loop, c, f[k - 1], items[k])]

\* Every loop comes to an end.
LEMMA LoopIs ==
  ASSUME NEW loop, NEW c, NEW o, NEW items, Len(items) \in Nat
  PROVE  \E f : IsLoop(f, loop, c, o, items)
<1> DEFINE n == Len(items)
           Body(f, j) == [k \in 0 .. j |-> IF k = 0 THEN o ELSE Turn(loop, c, f[k - 1], items[k])]
           T == {j \in 0 .. n : \E f : f = Body(f, j)}
<1>1. n \in Nat
  OBVIOUS
<1> HIDE DEF n
<1>2. 0 \in T
  <2> DEFINE f == [k \in 0 .. 0 |-> o]
  <2>1. f = Body(f, 0)
    OBVIOUS
  <2> HIDE DEF f
  <2> QED BY <2>1, <1>1
<1>3. ASSUME NEW j \in 1 .. n, j - 1 \in T PROVE j \in T
  <2>1. PICK f : f = Body(f, j - 1)
    BY <1>3
  <2> DEFINE h == [k \in 0 .. j |-> IF k < j THEN f[k] ELSE Turn(loop, c, f[j - 1], items[j])]
  <2>2. ASSUME NEW k \in 0 .. j PROVE h[k] = Body(h, j)[k]
    <3>1. CASE k < j
      <4>1. k \in 0 .. j - 1 /\ (k # 0 => k - 1 \in 0 .. j /\ k - 1 < j)
        BY <3>1, <1>1
      <4>2. h[k] = f[k] /\ (k # 0 => h[k - 1] = f[k - 1])
        BY <3>1, <4>1
      <4>3. f[k] = IF k = 0 THEN o ELSE Turn(loop, c, f[k - 1], items[k])
        BY <2>1, <4>1
      <4> QED BY <4>2, <4>3
    <3>2. CASE k = j
      BY <3>2, <1>1
    <3> QED BY <3>1, <3>2, <1>1
  <2>3. h = Body(h, j)
    BY <2>2
  <2> HIDE DEF h
  <2> QED BY <2>3
<1>4. 0 .. n \subseteq T
  <2> HIDE DEF T
  <2> QED BY <1>1, <1>2, <1>3, UpTo
<1>5. n \in T
  <2> HIDE DEF T
  <2> QED BY <1>4, <1>1
<1> QED BY <1>5 DEF IsLoop, n
-----------------------------------------------------------------------------
\* setVariable() makes room for a new variable, and then sets each value.
MakesRoom(recs, name, values) ==
  IF FindVariable(recs, name) = 0 THEN recs \o <<Str(9, name)>> \o values ELSE recs
\* the first place after the name, once there is room
After(recs, name, values) == FindVariable(MakesRoom(recs, name, values), name) + 1

\* The values stand after the name, and everything else is where it was.
Sets(recs, name, values, f) ==
  /\ f \in [0 .. Len(values) -> RecordSeq]
  /\ f[0] = MakesRoom(recs, name, values)
  /\ \A k \in 1 .. Len(values) :
       f[k] = SetValue(f[k - 1], After(recs, name, values), values[k])
  /\ SetVariable(recs, name, values) = f[Len(values)]

\* setVariable() puts the values after the name, once there is room.
LEMMA SetVariableSets ==
  ASSUME NEW recs \in RecordSeq, NEW name \in STRING, NEW values \in RecordSeq
  PROVE  /\ MakesRoom(recs, name, values) \in RecordSeq
         /\ After(recs, name, values) \in 1 .. Len(MakesRoom(recs, name, values)) + 1
         /\ \E f : Sets(recs, name, values, f)
<1> DEFINE n == Len(values)
           all == MakesRoom(recs, name, values)
           from == After(recs, name, values)
           S == {v \in RecordSeq : from \in 1 .. Len(v) + 1}
           Step(v, k) == SetValue(v, from, values[k])
           Body(f) == [k \in 0 .. n |-> IF k = 0 THEN all ELSE Step(f[k - 1], k)]
           Eq(f) == f = Body(f)
           after == CHOOSE f : Eq(f)
<1>1. n \in Nat /\ \A k \in 1 .. n : values[k] \in Record
  BY DEF RecordSeq
<1>2. SetVariable(recs, name, values) = after[n]
  BY DEF SetVariable, Fold, MakesRoom, After
<1>3. all \in RecordSeq
  <2> DEFINE new == Str(9, name)
  <2>1. new \in Record
    BY DEF Str, Record
  <2> HIDE DEF new
  <2>2. <<new>> \in Seq(Record) /\ recs \in Seq(Record) /\ values \in Seq(Record)
    BY <2>1 DEF RecordSeq
  <2>3. (recs \o <<new>>) \o values \in Seq(Record)
    BY <2>2
  <2> QED BY <2>2, <2>3 DEF MakesRoom, RecordSeq, new
<1>4. from \in 1 .. Len(all) + 1
  <2>0. from = FindVariable(all, name) + 1
    BY DEF After
  <2> HIDE DEF all, from
  <2> QED BY <2>0, <1>3, FoundRange
<1> HIDE DEF n, all, from
<1>5. all \in S
  BY <1>3, <1>4
<1>6. ASSUME NEW v \in S, NEW k \in 1 .. n PROVE Step(v, k) \in S
  BY <1>1, SetValueAlike DEF Alike
<1>7. \A f : Eq(f) <=> IsLoop(f, "SetValue", from, all, values)
  <2>1. \A v, k : Turn("SetValue", from, v, values[k]) = Step(v, k)
    BY DEF Turn, Counts
  <2> HIDE DEF Step, all
  <2> QED BY <2>1 DEF IsLoop, n
<1>11. Eq(after)
  <2> HIDE DEF Eq
  <2>1. Len(values) \in Nat
    BY <1>1 DEF n
  <2> QED BY <2>1, <1>7, LoopIs
<1>12. after \in [0 .. n -> RecordSeq] /\ after[0] = all
       /\ \A k \in 1 .. n : after[k] = Step(after[k - 1], k)
  <2> DEFINE r == after
  <2>1. r = Body(r)
    BY <1>11
  <2> HIDE DEF r, Step
  <2>2. \A k \in 0 .. n : r[k] = IF k = 0 THEN all ELSE Step(r[k - 1], k)
    BY <2>1
  <2>3. DOMAIN r = 0 .. n /\ r = [k \in 0 .. n |-> r[k]]
    BY <2>1
  <2>4. r[0] = all /\ \A k \in 1 .. n : r[k] = Step(r[k - 1], k)
    BY <2>2, <1>1
  <2> DEFINE T == {k \in 0 .. n : r[k] \in S}
  <2>5. 0 \in T
    BY <2>4, <1>5, <1>1
  <2>6. ASSUME NEW k \in 1 .. n, k - 1 \in T PROVE k \in T
    <3>1. r[k] \in S
      <4> USE DEF Step
      <4> QED BY <2>4, <2>6, <1>6
    <3> QED BY <3>1, <1>1
  <2>7. 0 .. n \subseteq T
    <3> HIDE DEF T
    <3> QED BY <2>5, <2>6, <1>1, UpTo
  <2>8. \A k \in 0 .. n : r[k] \in RecordSeq
    BY <2>7
  <2>9. r \in [0 .. n -> RecordSeq]
    BY <2>3, <2>8
  <2> QED BY <2>4, <2>9 DEF r
<1> HIDE DEF after
<1>13. Sets(recs, name, values, after)
  BY <1>2, <1>12 DEF Sets, n, all, from
<1> QED BY <1>3, <1>4, <1>13 DEF all, from
\* However many values are set, the header is alike.
LEMMA SetVariableAlike ==
  ASSUME NEW recs \in RecordSeq, NEW name \in STRING, NEW values \in RecordSeq
  PROVE  Alike(MakesRoom(recs, name, values), SetVariable(recs, name, values),
               After(recs, name, values))
<1> DEFINE n == Len(values)
           all == MakesRoom(recs, name, values)
           from == After(recs, name, values)
<1>1. PICK f : Sets(recs, name, values, f)
  BY SetVariableSets
<1>2. /\ f \in [0 .. n -> RecordSeq] /\ f[0] = all
      /\ \A k \in 1 .. n : f[k] = SetValue(f[k - 1], from, values[k])
      /\ SetVariable(recs, name, values) = f[n]
  BY <1>1 DEF Sets
<1>3. n \in Nat /\ \A k \in 1 .. n : values[k] \in Record
  BY DEF RecordSeq
<1>4. all \in RecordSeq /\ from \in 1 .. Len(all) + 1
  BY SetVariableSets
<1> HIDE DEF n, all, from
<1> DEFINE T == {k \in 0 .. n : Alike(all, f[k], from)}
<1>5. 0 \in T
  BY <1>2, <1>3, <1>4, AlikeItself
<1>6. ASSUME NEW k \in 1 .. n, k - 1 \in T PROVE k \in T
  <2>1. Alike(all, f[k - 1], from)
    BY <1>6
  <2>2. f[k - 1] \in RecordSeq /\ from \in 1 .. Len(f[k - 1]) + 1
    BY <2>1, <1>4 DEF Alike
  <2>3. Alike(f[k - 1], SetValue(f[k - 1], from, values[k]), from)
    BY <2>2, <1>3, SetValueAlike
  <2>4. Alike(all, f[k], from)
    BY <2>1, <2>3, <1>2, <1>4, AlikeAgain
  <2> QED BY <2>4, <1>3
<1>7. 0 .. n \subseteq T
  <2> HIDE DEF T
  <2> QED BY <1>3, <1>5, <1>6, UpTo
<1>8. Alike(all, f[n], from)
  BY <1>3, <1>7
<1> QED BY <1>2, <1>8 DEF all, from
-----------------------------------------------------------------------------
\* Equal parts of records at different places are the same sequence.
LEMMA SamePart ==
  ASSUME NEW S, NEW s \in Seq(S), NEW t \in Seq(S), NEW a \in Nat, NEW b \in Nat,
         1 <= a, a <= b + 1, b <= Len(s), b <= Len(t), \A j \in a .. b : s[j] = t[j]
  PROVE  SubSeq(s, a, b) = SubSeq(t, a, b)
<1>1. /\ SubSeq(s, a, b) \in Seq(S) /\ SubSeq(t, a, b) \in Seq(S)
      /\ Len(SubSeq(s, a, b)) = b + 1 - a /\ Len(SubSeq(t, a, b)) = b + 1 - a
      /\ \A i \in 1 .. b + 1 - a : SubSeq(s, a, b)[i] = s[a + i - 1]
      /\ \A i \in 1 .. b + 1 - a : SubSeq(t, a, b)[i] = t[a + i - 1]
  OBVIOUS
<1>2. \A i \in 1 .. b + 1 - a : a + i - 1 \in a .. b
  OBVIOUS
<1>3. \A i \in 1 .. b + 1 - a : SubSeq(s, a, b)[i] = SubSeq(t, a, b)[i]
  BY <1>1, <1>2
<1> QED BY <1>1, <1>3

\* The names in records are those of their records with group code 9.
LEMMA VariableNames ==
  ASSUME NEW a, NEW b PROVE (Str(9, a) = Str(9, b) => a = b) /\ Str(9, a).code = 9
                            /\ Str(9, a).str = a
BY DEF Str

\* getVariable() returns no more than the client asks for
FirstOf(part, most) == SubSeq(part, 1, IF Len(part) < most THEN Len(part) ELSE most)

\* Setting a variable that is there leaves the others as they are.
LEMMA OthersKept ==
  ASSUME NEW recs \in RecordSeq, NEW set, NEW name, NEW other, other # name, NEW most,
         FindVariable(recs, name) # 0, Alike(recs, set, FindVariable(recs, name) + 1)
  PROVE  GetVariable(set, other, most) = GetVariable(recs, other, most)
<1> DEFINE h == FindVariable(recs, name)
           i == FindVariable(recs, other)
           n == Len(recs)
           e == EndOfVariable(recs, h + 1)
           d == EndOfVariable(recs, i + 1)
<1>1. n \in Nat /\ h \in 0 .. n /\ i \in 0 .. n /\ h + 1 \in 1 .. n + 1 /\ i + 1 \in 1 .. n + 1
  BY FoundRange
<1>2. FoundAt(recs, name, h) /\ FoundAt(recs, other, i)
  BY FindVariableIs
<1>3. EndsAt(recs, h + 1, e) /\ EndsAt(recs, i + 1, d)
  BY <1>1, EndOfVariableIs
<1>4. /\ set \in RecordSeq /\ Len(set) = n
      /\ \A j \in 1 .. n :
           /\ set[j].code = recs[j].code
           /\ set[j] # recs[j] => j \in h + 1 .. e - 1
  BY DEF Alike
<1>5. h # 0
  OBVIOUS
<1>6. EndOfVariable(set, i + 1) = d
  BY <1>1, SameEnd
<1>7. h \in 1 .. n /\ recs[h] = Str(9, name)
  BY <1>2, <1>5 DEF FoundAt
<1> DEFINE part == SubSeq(recs, i + 1, d - 1)
           part2 == SubSeq(set, i + 1, d - 1)
<1>0. /\ GetVariable(recs, other, most) =
            IF i = 0 THEN << >>
            ELSE FirstOf(part, most)
      /\ FindVariable(set, other) = i => GetVariable(set, other, most) =
            IF i = 0 THEN << >>
            ELSE FirstOf(part2, most)
  BY <1>6 DEF GetVariable, FirstOf
<1> HIDE DEF h, i, n, e, d
<1>8. /\ e \in h + 1 .. n + 1 /\ \A j \in h + 1 .. e - 1 : recs[j].code # 9
      /\ d \in i + 1 .. n + 1 /\ \A j \in i + 1 .. d - 1 : recs[j].code # 9
  BY <1>3 DEF EndsAt, n
<1>9. ASSUME NEW j \in 1 .. n PROVE set[j] = Str(9, other) <=> recs[j] = Str(9, other)
  <2>1. CASE recs[j].code = 9
    BY <2>1, <1>4, <1>8
  <2>2. CASE recs[j].code # 9
    BY <2>2, <1>4, VariableNames
  <2> QED BY <2>1, <2>2
<1>10. FindVariable(set, other) = i
  <2>1. FoundAt(set, other, i)
    <3>1. CASE i = 0
      BY <3>1, <1>2, <1>4, <1>9, <1>1 DEF FoundAt, n
    <3>2. CASE i # 0
      <4>1. i \in 1 .. n /\ recs[i] = Str(9, other)
            /\ \A j \in 1 .. i - 1 : recs[j] # Str(9, other)
        BY <3>2, <1>2 DEF FoundAt, n
      <4>2. \A j \in 1 .. i - 1 : j \in 1 .. n
        BY <4>1, <1>1
      <4> QED BY <4>1, <4>2, <1>4, <1>9 DEF FoundAt
    <3> QED BY <3>1, <3>2
  <2> QED BY <2>1, <1>4, FindVariableIs
<1>11. CASE i = 0
  BY <1>0, <1>10, <1>11
<1>12. CASE i # 0
  <2>1. i \in 1 .. n /\ recs[i] = Str(9, other)
    BY <1>12, <1>2 DEF FoundAt, n
  <2>2. i # h /\ recs[i].code = 9 /\ recs[h].code = 9
    BY <2>1, <1>7, VariableNames
  <2>3. ASSUME NEW j \in i + 1 .. d - 1 PROVE set[j] = recs[j]
    <3>1. j \in 1 .. n
      BY <2>1, <1>1, <1>8
    <3>2. SUFFICES ASSUME j \in h + 1 .. e - 1 PROVE FALSE
      BY <3>1, <1>4
    <3>3. CASE i < h
      BY <3>2, <3>3, <1>1, <1>8, <2>2
    <3>4. CASE h < i
      BY <3>2, <3>4, <1>1, <1>8, <2>2
    <3> QED BY <3>3, <3>4, <2>1, <2>2, <1>7, <1>1
  <2>4. part = part2
    <3>1. i + 1 \in Nat /\ d - 1 \in Nat /\ 1 <= i + 1 /\ i + 1 <= (d - 1) + 1 /\ d - 1 <= n
      BY <1>1, <1>8
    <3>2. recs \in Seq(Record) /\ set \in Seq(Record) /\ Len(recs) = n
      BY <1>4 DEF RecordSeq, n
    <3> QED BY <2>3, <3>1, <3>2, <1>4, SamePart
  <2> HIDE DEF part, part2
  <2>5. GetVariable(set, other, most) =
          IF i = 0 THEN << >>
          ELSE FirstOf(part2, most)
    BY <1>0, <1>10
  <2> QED BY <2>4, <2>5, <1>0
<1> QED BY <1>11, <1>12
\* A variable that is not there goes to the end, with all its values.
RoomFor(recs, name, values, all) ==
  /\ all \in RecordSeq /\ Len(all) = Len(recs) + 1 + Len(values)
  /\ \A j \in 1 .. Len(recs) : all[j] = recs[j]
  /\ all[Len(recs) + 1] = Str(9, name)
  /\ \A k \in 1 .. Len(values) : all[Len(recs) + 1 + k] = values[k]

\* The first half of setVariable() leaves room for the values after the name.
LEMMA RoomIsMade ==
  ASSUME NEW recs \in RecordSeq, NEW name \in STRING, NEW values \in RecordSeq,
         FindVariable(recs, name) = 0
  PROVE  RoomFor(recs, name, values, MakesRoom(recs, name, values))
<1> DEFINE new == Str(9, name)
<1>1. MakesRoom(recs, name, values) = (recs \o <<new>>) \o values
  BY DEF MakesRoom
<1>2. new \in Record
  BY DEF Str, Record
<1> HIDE DEF new
<1>3. recs \in Seq(Record) /\ values \in Seq(Record) /\ <<new>> \in Seq(Record)
      /\ Len(recs) \in Nat /\ Len(values) \in Nat
  BY <1>2 DEF RecordSeq
<1> DEFINE head == recs \o <<new>>
<1>4. /\ head \in Seq(Record) /\ Len(head) = Len(recs) + 1
      /\ \A j \in 1 .. Len(recs) : head[j] = recs[j]
      /\ head[Len(recs) + 1] = new
  BY <1>3
<1> HIDE DEF head
<1> DEFINE all == head \o values
<1>5. /\ all \in Seq(Record) /\ Len(all) = Len(head) + Len(values)
      /\ \A j \in 1 .. Len(head) : all[j] = head[j]
      /\ \A k \in 1 .. Len(values) : all[Len(head) + k] = values[k]
  BY SMTT(60), <1>3, <1>4
<1> HIDE DEF all
<1>6. RoomFor(recs, name, values, all)
  <2>1. \A j \in 1 .. Len(recs) : j \in 1 .. Len(head)
    BY <1>3, <1>4
  <2>2. Len(recs) + 1 \in 1 .. Len(head)
    BY <1>3, <1>4
  <2> QED BY <1>3, <1>4, <1>5, <2>1, <2>2 DEF RoomFor, RecordSeq, new
<1> QED BY <1>1, <1>6 DEF all, head

\* Making room for one variable leaves the values of the others alone.
LEMMA OthersKeptInRoom ==
  ASSUME NEW recs \in RecordSeq, NEW all, NEW name, NEW other, other # name, NEW most,
         NEW values \in RecordSeq, \A k \in 1 .. Len(values) : values[k].code # 9,
         RoomFor(recs, name, values, all)
  PROVE  GetVariable(all, other, most) = GetVariable(recs, other, most)
<1> DEFINE i == FindVariable(recs, other)
           n == Len(recs)
           m == Len(values)
           d == EndOfVariable(recs, i + 1)
           part == SubSeq(recs, i + 1, d - 1)
           part2 == SubSeq(all, i + 1, d - 1)
<1>1. n \in Nat /\ m \in Nat /\ i \in 0 .. n /\ i + 1 \in 1 .. n + 1
  BY FoundRange DEF RecordSeq
<1>2. FoundAt(recs, other, i)
  BY FindVariableIs
<1>3. EndsAt(recs, i + 1, d)
  BY <1>1, EndOfVariableIs
<1>4. /\ all \in RecordSeq /\ Len(all) = n + 1 + m
      /\ \A j \in 1 .. n : all[j] = recs[j]
      /\ all[n + 1] = Str(9, name)
      /\ \A k \in 1 .. m : all[n + 1 + k] = values[k]
  BY DEF RoomFor
<1>0. /\ GetVariable(recs, other, most) =
            IF i = 0 THEN << >>
            ELSE FirstOf(part, most)
      /\ (FindVariable(all, other) = i /\ (i = 0 \/ EndOfVariable(all, i + 1) = d)) =>
            GetVariable(all, other, most) =
              IF i = 0 THEN << >>
              ELSE FirstOf(part2, most)
  BY DEF GetVariable, FirstOf
<1>5. \A k \in 1 .. m : values[k].code # 9
  OBVIOUS
<1> HIDE DEF i, n, m, d
<1>6. /\ d \in i + 1 .. n + 1 /\ \A j \in i + 1 .. d - 1 : recs[j].code # 9
      /\ d <= n => recs[d].code = 9
  BY <1>3 DEF EndsAt, n
<1>7. ASSUME NEW j \in 1 .. n + 1 + m, all[j] = Str(9, other)
      PROVE  j \in 1 .. n /\ recs[j] = Str(9, other)
  <2>1. CASE j \in 1 .. n
    BY <2>1, <1>4, <1>7
  <2>2. CASE j = n + 1
    BY <2>2, <1>4, <1>7, VariableNames
  <2>3. CASE j > n + 1
    <3> DEFINE k == j - (n + 1)
    <3>1. k \in 1 .. m /\ n + 1 + k = j
      BY <2>3, <1>1
    <3>2. all[j] = values[k]
      BY <3>1, <1>4
    <3>3. all[j].code = 9
      BY <1>7, VariableNames
    <3> HIDE DEF k
    <3> QED BY <3>1, <3>2, <3>3, <1>5
  <2>4. j \in 1 .. n \/ j = n + 1 \/ j > n + 1
    BY <1>1
  <2> QED BY <2>1, <2>2, <2>3, <2>4
<1>8. FindVariable(all, other) = i
  <2>1. FoundAt(all, other, i)
    <3>1. CASE i = 0
      BY <3>1, <1>2, <1>7, <1>4 DEF FoundAt, n
    <3>2. CASE i # 0
      <4>1. i \in 1 .. n /\ recs[i] = Str(9, other)
            /\ \A j \in 1 .. i - 1 : recs[j] # Str(9, other)
        BY <3>2, <1>2 DEF FoundAt, n
      <4>2. \A j \in 1 .. i - 1 : j \in 1 .. n
        BY <4>1, <1>1
      <4>3. i \in 1 .. Len(all)
        BY <4>1, <1>1, <1>4
      <4> QED BY <4>1, <4>2, <4>3, <1>4 DEF FoundAt
    <3> QED BY <3>1, <3>2
  <2> QED BY <2>1, <1>4, FindVariableIs
<1>9. CASE i = 0
  BY <1>0, <1>8, <1>9
<1>10. CASE i # 0
  <2>1. i \in 1 .. n
    BY <1>10, <1>1
  <2>2. EndOfVariable(all, i + 1) = d
    <3>1. i + 1 \in 1 .. Len(all) + 1
      BY <2>1, <1>1, <1>4
    <3>2. d \in i + 1 .. Len(all) + 1
      BY <1>1, <1>4, <1>6
    <3>3. \A j \in i + 1 .. d - 1 : all[j].code # 9
      BY <1>1, <1>6, <1>4
    <3>4. all[d].code = 9
      <4>1. CASE d <= n
        BY <4>1, <1>1, <1>6, <1>4
      <4>2. CASE ~ (d <= n)
        BY <4>2, <1>1, <1>6, <1>4, VariableNames
      <4> QED BY <4>1, <4>2
    <3>5. EndsAt(all, i + 1, d)
      BY <3>2, <3>3, <3>4 DEF EndsAt
    <3> QED BY <3>1, <3>5, <1>4, EndOfVariableIs
  <2>3. part = part2
    <3>1. i + 1 \in Nat /\ d - 1 \in Nat /\ 1 <= i + 1 /\ i + 1 <= (d - 1) + 1
          /\ d - 1 <= n /\ d - 1 <= Len(all)
      BY <1>1, <1>4, <1>6
    <3>2. recs \in Seq(Record) /\ all \in Seq(Record) /\ Len(recs) = n
      BY <1>4 DEF RecordSeq, n
    <3>3. \A j \in i + 1 .. d - 1 : recs[j] = all[j]
      BY <1>1, <1>6, <1>4
    <3> QED BY <3>1, <3>2, <3>3, SamePart
  <2> HIDE DEF part, part2
  <2>4. GetVariable(all, other, most) =
          IF i = 0 THEN << >>
          ELSE FirstOf(part2, most)
    BY <1>0, <1>8, <2>2
  <2> QED BY <2>3, <2>4, <1>0
<1> QED BY <1>9, <1>10
\* A new variable has the values it was made with, one of each group code.
LEMMA NewVariable ==
  ASSUME NEW recs \in RecordSeq, NEW name \in STRING, NEW values \in RecordSeq,
         \A k \in 1 .. Len(values) : values[k].code # 9, OneOfEach(values),
         FindVariable(recs, name) = 0
  PROVE  LET set == SetVariable(recs, name, values)
         IN  set = MakesRoom(recs, name, values)
             /\ GetVariable(set, name, Len(set)) = values
<1> DEFINE n == Len(recs)
           m == Len(values)
           all == MakesRoom(recs, name, values)
           from == After(recs, name, values)
<1>1. n \in Nat /\ m \in Nat /\ DOMAIN values = 1 .. m
  BY DEF RecordSeq
<1>2. /\ all \in RecordSeq /\ Len(all) = n + 1 + m
      /\ \A j \in 1 .. n : all[j] = recs[j]
      /\ all[n + 1] = Str(9, name)
      /\ \A k \in 1 .. m : all[n + 1 + k] = values[k]
  BY RoomIsMade DEF RoomFor
<1>3. PICK f : Sets(recs, name, values, f)
  BY SetVariableSets
<1>4. /\ f[0] = all
      /\ \A k \in 1 .. m : f[k] = SetValue(f[k - 1], from, values[k])
      /\ SetVariable(recs, name, values) = f[m]
  BY <1>3 DEF Sets
<1>5. \A j \in 1 .. n : recs[j] # Str(9, name)
  BY FindVariableIs DEF FoundAt
<1>6. \A k \in 1 .. m : values[k].code # 9
  OBVIOUS
<1>7. \A k, l \in 1 .. m : values[k].code = values[l].code => k = l
  BY <1>1 DEF OneOfEach
<1>8. from = FindVariable(all, name) + 1
  BY DEF After
<1>0. \A rs : GetVariable(rs, name, Len(rs)) =
         IF FindVariable(rs, name) = 0 THEN << >>
         ELSE FirstOf(SubSeq(rs, FindVariable(rs, name) + 1,
                             EndOfVariable(rs, FindVariable(rs, name) + 1) - 1), Len(rs))
  BY DEF GetVariable, FirstOf
<1>00. values \in Seq(Record)
  BY DEF RecordSeq
<1> HIDE DEF n, m, all, from
<1>9. FindVariable(all, name) = n + 1
  <2>1. n + 1 \in 1 .. Len(all)
    BY <1>1, <1>2
  <2>2. \A j \in 1 .. (n + 1) - 1 : all[j] # Str(9, name)
    BY <1>1, <1>2, <1>5
  <2>3. FoundAt(all, name, n + 1)
    BY <2>1, <2>2, <1>2 DEF FoundAt
  <2> QED BY <2>3, <1>2, FindVariableIs
<1>10. from = n + 2 /\ from \in 1 .. Len(all) + 1
  BY <1>1, <1>2, <1>8, <1>9
<1>11. ASSUME NEW j \in n + 2 .. n + 1 + m
       PROVE  /\ j - (n + 1) \in 1 .. m /\ n + 1 + (j - (n + 1)) = j
              /\ all[j] = values[j - (n + 1)]
  BY <1>1, <1>2
<1>12. EndOfVariable(all, from) = n + 1 + m + 1
  <2> DEFINE e == n + 1 + m + 1
  <2>1. e \in from .. Len(all) + 1 /\ ~ (e <= Len(all))
    BY <1>1, <1>2, <1>10
  <2>2. \A j \in from .. e - 1 : all[j].code # 9
    BY <1>1, <1>10, <1>6, <1>11
  <2>3. EndsAt(all, from, e)
    BY <2>1, <2>2 DEF EndsAt
  <2> QED BY <2>3, <1>2, <1>10, EndOfVariableIs
<1>13. ASSUME NEW k \in 1 .. m PROVE SetValue(all, from, values[k]) = all
  <2> DEFINE at == {j \in from .. EndOfVariable(all, from) - 1 : all[j].code = values[k].code}
  <2>1. n + 1 + k \in from .. EndOfVariable(all, from) - 1
    BY <1>1, <1>10, <1>12
  <2>2. all[n + 1 + k] = values[k]
    BY <1>2
  <2>3. n + 1 + k \in at
    BY <2>1, <2>2
  <2>4. ASSUME NEW j \in at PROVE j = n + 1 + k
    <3>1. j \in n + 2 .. n + 1 + m
      BY <1>1, <1>10, <1>12
    <3>2. values[j - (n + 1)].code = values[k].code
      BY <3>1, <1>11
    <3>3. j - (n + 1) = k
      BY <3>1, <3>2, <1>11, <1>7
    <3> QED BY <3>1, <3>3, <1>1
  <2>5. SetValue(all, from, values[k]) = IF at = {} THEN all ELSE [all EXCEPT ![Min(at)] = values[k]]
    BY DEF SetValue
  <2> HIDE DEF at
  <2>6. at = {n + 1 + k} /\ at \subseteq Nat
    BY <2>3, <2>4, <1>1
  <2>7. Min(at) = n + 1 + k
    <3>1. \A y \in at : n + 1 + k <= y
      BY <2>6, <1>1
    <3> QED BY <2>3, <2>6, <3>1, OnlyMin
  <2>8. [all EXCEPT ![n + 1 + k] = values[k]] = all
    BY <2>2, <1>2 DEF RecordSeq
  <2> QED BY <2>3, <2>5, <2>7, <2>8
<1> DEFINE T == {k \in 0 .. m : f[k] = all}
<1>14. 0 \in T
  BY <1>1, <1>4
<1>15. ASSUME NEW k \in 1 .. m, k - 1 \in T PROVE k \in T
  BY <1>1, <1>4, <1>13, <1>15
<1>16. 0 .. m \subseteq T
  <2> HIDE DEF T
  <2> QED BY <1>1, <1>14, <1>15, UpTo
<1>17. SetVariable(recs, name, values) = all
  BY <1>1, <1>4, <1>16
<1>18. GetVariable(all, name, Len(all)) = values
  <2> DEFINE part == SubSeq(all, n + 2, n + 1 + m)
  <2>1. GetVariable(all, name, Len(all)) = FirstOf(part, Len(all))
    <3>1. FindVariable(all, name) # 0 /\ FindVariable(all, name) + 1 = n + 2
      BY <1>1, <1>9
    <3>2. EndOfVariable(all, n + 2) - 1 = n + 1 + m
      BY <1>1, <1>10, <1>12
    <3> QED BY <3>1, <3>2, <1>0
  <2>2. part \in Seq(Record) /\ Len(part) = m /\ \A k \in 1 .. m : part[k] = values[k]
    <3>1. all \in Seq(Record)
      BY <1>2 DEF RecordSeq
    <3>2. part \in Seq(Record) /\ Len(part) = m /\ \A k \in 1 .. m : part[k] = all[n + 2 + k - 1]
      BY <3>1, <1>1, <1>2
    <3>3. \A k \in 1 .. m : n + 2 + k - 1 = n + 1 + k
      BY <1>1
    <3> QED BY <3>2, <3>3, <1>2
  <2> HIDE DEF part
  <2>3. part = values
    BY <2>2, <1>00 DEF m
  <2>4. FirstOf(values, Len(all)) = SubSeq(values, 1, m)
    <3>1. (IF m < Len(all) THEN m ELSE Len(all)) = m
      BY <1>1, <1>2
    <3> QED BY <3>1 DEF FirstOf, m
  <2>5. SubSeq(values, 1, m) = values
    BY <1>00, <1>1 DEF m
  <2> QED BY <2>1, <2>3, <2>4, <2>5
<1> QED BY <1>17, <1>18 DEF all
\* setVariable() of any header: what VariableLaws says of one.
SetsOne(recs, name, values) ==
  LET set == SetVariable(recs, name, values)
  IN  /\ \A other \in Names(set) \ {name} :
           GetVariable(set, other, Len(set)) = GetVariable(recs, other, Len(set))
      /\ name \notin Names(recs) /\ OneOfEach(values) =>
           GetVariable(set, name, Len(set)) = values

\* setVariable() sets its variable and leaves the others alone.
THEOREM SetVariableSetsOne ==
  ASSUME NEW recs \in RecordSeq, NEW name \in STRING, NEW values \in RecordSeq,
         \A k \in DOMAIN values : values[k].code # 9
  PROVE  SetsOne(recs, name, values) /\ SetVariable(recs, name, values) \in RecordSeq
<1> DEFINE set == SetVariable(recs, name, values)
           all == MakesRoom(recs, name, values)
           h == FindVariable(recs, name)
<1>1. \A k \in 1 .. Len(values) : values[k].code # 9
  BY DEF RecordSeq
<1>2. Alike(all, set, FindVariable(all, name) + 1)
  BY SetVariableAlike DEF After
<1>3. name \notin Names(recs) => h = 0
  <2>1. SUFFICES ASSUME h # 0 PROVE name \in Names(recs)
    OBVIOUS
  <2>2. h \in 1 .. Len(recs) /\ recs[h] = Str(9, name)
    BY <2>1, FindVariableIs DEF FoundAt
  <2>3. h \in DOMAIN recs /\ recs[h].code = 9 /\ recs[h].str = name
    BY <2>2, VariableNames DEF RecordSeq
  <2> QED BY <2>3 DEF Names
<1>4. all \in RecordSeq
  BY SetVariableSets
<1>5. FindVariable(all, name) # 0
  <2>1. CASE h = 0
    <3> DEFINE n == Len(recs)
    <3>1. n \in Nat /\ Len(values) \in Nat
      BY DEF RecordSeq
    <3>2. Len(all) = n + 1 + Len(values) /\ all[n + 1] = Str(9, name)
      <4>1. RoomFor(recs, name, values, all)
        BY <2>1, RoomIsMade
      <4> HIDE DEF all
      <4> QED BY <4>1 DEF RoomFor
    <3>3. n + 1 \in 1 .. Len(all)
      BY <3>1, <3>2
    <3>4. FoundAt(all, name, FindVariable(all, name))
      BY <1>4, FindVariableIs
    <3> QED BY <3>2, <3>3, <3>4 DEF FoundAt
  <2>2. CASE h # 0
    BY <2>2 DEF MakesRoom
  <2> QED BY <2>1, <2>2
<1>6. ASSUME NEW other, other # name, NEW most
      PROVE  GetVariable(set, other, most) = GetVariable(recs, other, most)
  <2> HIDE DEF set, h
  <2>1. GetVariable(set, other, most) = GetVariable(all, other, most)
    <3> HIDE DEF all
    <3> QED BY <1>2, <1>4, <1>5, <1>6, OthersKept
  <2>2. GetVariable(all, other, most) = GetVariable(recs, other, most)
    <3>1. CASE h = 0
      <4>1. RoomFor(recs, name, values, all)
        BY <3>1, RoomIsMade DEF h
      <4> HIDE DEF all
      <4> QED BY <4>1, <1>1, <1>6, OthersKeptInRoom
    <3>2. CASE h # 0
      BY <3>2 DEF MakesRoom, h
    <3> QED BY <3>1, <3>2
  <2> QED BY <2>1, <2>2
<1>7. name \notin Names(recs) /\ OneOfEach(values) => GetVariable(set, name, Len(set)) = values
  BY <1>1, <1>3, NewVariable
<1>8. set \in RecordSeq
  BY <1>2 DEF Alike
<1>9. \A other \in Names(set) \ {name} :
        GetVariable(set, other, Len(set)) = GetVariable(recs, other, Len(set))
  <2> HIDE DEF set
  <2> QED BY <1>6
<1> HIDE DEF set
<1>10. set = SetVariable(recs, name, values)
  BY DEF set
<1> QED BY <1>7, <1>8, <1>9, <1>10 DEF SetsOne

-----------------------------------------------------------------------------
(* The types of a model, and where its entries are.                         *)

\* A section of any kind; only a header section has the name of one.
AnySection == {x \in UNION {SectionType(kind) : kind \in Kinds} :
                 x.name = "HEADER" => x.kind = "header"}
\* the layers of a model
LayerType == [name : Keys, color : Int]
\* a whole model
ModelType ==
  [comments : RecordSeq, sections : Seq(AnySection), layers : Seq(LayerType),
   layerDict : [Buckets -> Seq([key : Keys, value : Nat])], largest : Nat]

\* The sections are what the assumption on Inserted says of a section.
LEMMA SectionsAre == \A x : x \in AnySection <=> IsSection(x)
<1>1. ASSUME NEW x, NEW kind \in Kinds, x \in SectionType(kind) PROVE x.kind = kind
  BY <1>1 DEF SectionType
<1>2. \A x : (\E kind \in Kinds : x \in SectionType(kind)) <=>
             (x.kind \in Kinds /\ x \in SectionType(x.kind))
  BY <1>1
<1>3. \A x : x \in AnySection <=> /\ \E kind \in Kinds : x \in SectionType(kind)
                                  /\ x.name = "HEADER" => x.kind = "header"
  BY DEF AnySection
<1> QED BY <1>2, <1>3 DEF IsSection

\* what a section of each kind has
LEMMA SectionFields ==
  ASSUME NEW x \in AnySection
  PROVE  /\ x.kind \in Kinds /\ x.name \in STRING /\ x.recs \in RecordSeq
         /\ x.items \in Seq(ItemType(x.kind))
         /\ x.name = "HEADER" => x.kind = "header"
         /\ x = [kind |-> x.kind, name |-> x.name, recs |-> x.recs, items |-> x.items]
BY SectionsAre DEF IsSection, SectionType

\* records of the right fields are sections
LEMMA SectionMade ==
  ASSUME NEW kind \in Kinds, NEW name \in STRING, NEW recs \in RecordSeq,
         NEW items \in Seq(ItemType(kind)), name = "HEADER" => kind = "header"
  PROVE  [kind |-> kind, name |-> name, recs |-> recs, items |-> items] \in AnySection
<1> DEFINE x == [kind |-> kind, name |-> name, recs |-> recs, items |-> items]
<1>1. x \in SectionType(kind) /\ x.kind = kind /\ x.name = name
  BY DEF SectionType
<1> HIDE DEF x
<1>2. x \in AnySection
  BY <1>1, SectionsAre DEF IsSection
<1> QED BY <1>2 DEF x

\* A section stays one when its records or its items change.
LEMMA SectionChanged ==
  ASSUME NEW x \in AnySection
  PROVE  /\ \A recs \in RecordSeq : [x EXCEPT !.recs = recs] \in AnySection
         /\ \A items \in Seq(ItemType(x.kind)) : [x EXCEPT !.items = items] \in AnySection
<1>1. /\ x.kind \in Kinds /\ x.name \in STRING /\ x.recs \in RecordSeq
      /\ x.items \in Seq(ItemType(x.kind))
      /\ x.name = "HEADER" => x.kind = "header"
      /\ x = [kind |-> x.kind, name |-> x.name, recs |-> x.recs, items |-> x.items]
  BY SectionFields
<1>2. ASSUME NEW recs \in RecordSeq PROVE [x EXCEPT !.recs = recs] \in AnySection
  BY <1>1, SectionMade
<1>3. ASSUME NEW items \in Seq(ItemType(x.kind)) PROVE [x EXCEPT !.items = items] \in AnySection
  BY <1>1, SectionMade
<1> QED BY <1>2, <1>3

\* what a model has
LEMMA ModelFields ==
  ASSUME NEW m \in ModelType
  PROVE  /\ m.comments \in RecordSeq /\ m.sections \in Seq(AnySection)
         /\ m.layers \in Seq(LayerType)
         /\ m.layerDict \in [Buckets -> Seq([key : Keys, value : Nat])]
         /\ m.largest \in Nat
         /\ Len(m.sections) \in Nat /\ DOMAIN m.sections = 1 .. Len(m.sections)
         /\ \A s \in DOMAIN m.sections : m.sections[s] \in AnySection
         /\ Len(m.layers) \in Nat /\ DOMAIN m.layers = 1 .. Len(m.layers)
         /\ \A i \in DOMAIN m.layers : m.layers[i] \in LayerType
<1>1. /\ m.comments \in RecordSeq /\ m.sections \in Seq(AnySection)
      /\ m.layers \in Seq(LayerType)
      /\ m.layerDict \in [Buckets -> Seq([key : Keys, value : Nat])]
      /\ m.largest \in Nat
  BY DEF ModelType
<1>2. ASSUME NEW S, NEW s \in Seq(S)
      PROVE  Len(s) \in Nat /\ DOMAIN s = 1 .. Len(s) /\ \A i \in DOMAIN s : s[i] \in S
  OBVIOUS
<1> QED BY <1>1, <1>2

\* a record of the right fields is a model
LEMMA ModelMade ==
  ASSUME NEW m, NEW comments \in RecordSeq, NEW sections \in Seq(AnySection),
         NEW layers \in Seq(LayerType), NEW largest \in Nat,
         NEW dict \in [Buckets -> Seq([key : Keys, value : Nat])],
         m = [comments |-> comments, sections |-> sections, layers |-> layers,
              layerDict |-> dict, largest |-> largest]
  PROVE  m \in ModelType
BY DEF ModelType

\* A model is the record of its fields.
LEMMA ModelIs ==
  ASSUME NEW m \in ModelType
  PROVE  m = [comments |-> m.comments, sections |-> m.sections, layers |-> m.layers,
              layerDict |-> m.layerDict, largest |-> m.largest]
BY DEF ModelType

\* The same model with other sections.
PutSections(m, sections) == [m EXCEPT !.sections = sections]

\* Other sections make another model of the same layers.
LEMMA PutSectionsIs ==
  ASSUME NEW m \in ModelType, NEW sections \in Seq(AnySection)
  PROVE  /\ PutSections(m, sections) \in ModelType
         /\ PutSections(m, sections).sections = sections
         /\ PutSections(m, sections).layers = m.layers
         /\ PutSections(m, sections).layerDict = m.layerDict
         /\ PutSections(m, sections).largest = m.largest
         /\ PutSections(m, sections).comments = m.comments
BY DEF ModelType, PutSections

\* The entries, one by one.
EntryIn(m, s, t, k) ==
  /\ s \in Tables(m) /\ t \in DOMAIN m.sections[s].items
  /\ k \in DOMAIN m.sections[s].items[t].entries

\* The entries are the places that exist.
LEMMA EntriesAre ==
  ASSUME NEW m
  PROVE  /\ \A p \in Entries(m) : /\ EntryIn(m, p[1], p[2], p[3])
                                  /\ p = <<p[1], p[2], p[3]>>
         /\ \A s, t, k : EntryIn(m, s, t, k) <=> <<s, t, k>> \in Entries(m)
<1>1. ASSUME NEW p \in Entries(m)
      PROVE  EntryIn(m, p[1], p[2], p[3]) /\ p = <<p[1], p[2], p[3]>>
  <2>1. PICK s, t, k : EntryIn(m, s, t, k) /\ p = <<s, t, k>>
    BY DEF Entries, EntryIn
  <2> QED BY <2>1
<1>2. ASSUME NEW s, NEW t, NEW k, EntryIn(m, s, t, k) PROVE <<s, t, k>> \in Entries(m)
  BY <1>2 DEF EntryIn, Entries
<1>3. ASSUME NEW s, NEW t, NEW k, <<s, t, k>> \in Entries(m) PROVE EntryIn(m, s, t, k)
  BY <1>1, <1>3
<1> QED BY <1>1, <1>2, <1>3

\* the sections that are passed through
Unknown(m) == {s \in DOMAIN m.sections : m.sections[s].kind = "unknown"}

\* what a section of tables has, down to its entries
LEMMA TableFields ==
  ASSUME NEW m \in ModelType, NEW s \in Tables(m)
  PROVE  /\ s \in DOMAIN m.sections /\ m.sections[s] \in AnySection
         /\ m.sections[s].kind = "tables" /\ m.sections[s].items \in Seq(TableType)
         /\ DOMAIN m.sections[s].items = 1 .. Len(m.sections[s].items)
         /\ \A t \in DOMAIN m.sections[s].items :
              LET table == m.sections[s].items[t]
              IN  /\ table \in TableType /\ table.entries \in Seq(EntryType)
                  /\ DOMAIN table.entries = 1 .. Len(table.entries)
                  /\ \A k \in DOMAIN table.entries : table.entries[k] \in EntryType
<1>1. s \in DOMAIN m.sections /\ m.sections[s] \in AnySection /\ m.sections[s].kind = "tables"
  BY ModelFields DEF Tables
<1>2. ItemType("tables") = TableType
  BY DEF ItemType
<1>3. m.sections[s].items \in Seq(TableType)
  BY <1>1, <1>2, SectionFields
<1> DEFINE items == m.sections[s].items
<1>4. DOMAIN items = 1 .. Len(items) /\ \A t \in DOMAIN items : items[t] \in TableType
  <2> HIDE DEF items
  <2>1. items \in Seq(TableType)
    BY <1>3 DEF items
  <2> HIDE DEF items
  <2> QED BY <2>1
<1>5. \A table \in TableType : /\ table.entries \in Seq(EntryType)
                               /\ DOMAIN table.entries = 1 .. Len(table.entries)
                               /\ \A k \in DOMAIN table.entries : table.entries[k] \in EntryType
  <2> SUFFICES ASSUME NEW table \in TableType
               PROVE  /\ table.entries \in Seq(EntryType)
                      /\ DOMAIN table.entries = 1 .. Len(table.entries)
                      /\ \A k \in DOMAIN table.entries : table.entries[k] \in EntryType
    OBVIOUS
  <2> DEFINE es == table.entries
  <2>1. es \in Seq(EntryType)
    BY DEF TableType
  <2> HIDE DEF es
  <2>2. DOMAIN es = 1 .. Len(es) /\ \A k \in DOMAIN es : es[k] \in EntryType
    BY <2>1
  <2> QED BY <2>1, <2>2 DEF es
<1> QED BY <1>1, <1>3, <1>4, <1>5
\* One section is replaced by another of its kind.
Replaced(m, n, s, x) ==
  /\ n = PutSections(m, [m.sections EXCEPT ![s] = x])
  /\ x.kind = m.sections[s].kind

\* Replacing one section leaves the others.
LEMMA ReplacedIs ==
  ASSUME NEW m \in ModelType, NEW n, NEW s \in DOMAIN m.sections, NEW x \in AnySection,
         Replaced(m, n, s, x)
  PROVE  /\ n \in ModelType /\ n.layers = m.layers /\ n.layerDict = m.layerDict
         /\ n.largest = m.largest
         /\ DOMAIN n.sections = DOMAIN m.sections
         /\ n.sections[s] = x
         /\ \A r \in DOMAIN m.sections : r # s => n.sections[r] = m.sections[r]
         /\ Tables(n) = Tables(m) /\ Unknown(n) = Unknown(m)
<1> DEFINE secs == m.sections
           new == [secs EXCEPT ![s] = x]
<1>1. secs \in Seq(AnySection) /\ DOMAIN secs = 1 .. Len(secs)
  BY ModelFields
<1>2. n = PutSections(m, new) /\ x.kind = secs[s].kind /\ s \in DOMAIN secs
  BY DEF Replaced
<1>3. /\ new \in Seq(AnySection) /\ DOMAIN new = DOMAIN secs /\ new[s] = x
      /\ \A r \in DOMAIN secs : r # s => new[r] = secs[r]
  <2> HIDE DEF secs
  <2> QED BY <1>1, <1>2
<1> HIDE DEF new
<1>4. n \in ModelType /\ n.layers = m.layers /\ n.layerDict = m.layerDict
      /\ n.largest = m.largest /\ n.sections = new
  BY <1>2, <1>3, PutSectionsIs
<1>5. \A r \in DOMAIN secs : new[r].kind = secs[r].kind
  BY <1>2, <1>3
<1>6. Tables(n) = Tables(m) /\ Unknown(n) = Unknown(m)
  BY <1>3, <1>4, <1>5 DEF Tables, Unknown
<1> QED BY <1>3, <1>4, <1>6

\* the same, for the changes of one entry
OneReplaced(m, n, s, x) ==
  /\ DOMAIN n.sections = DOMAIN m.sections /\ n.sections[s] = x
  /\ \A r \in DOMAIN m.sections : r # s => n.sections[r] = m.sections[r]
  /\ Tables(n) = Tables(m)
\* Replacing one section, in one step.
LEMMA ReplacedOne ==
  ASSUME NEW m \in ModelType, NEW n, NEW s \in DOMAIN m.sections, NEW x \in AnySection,
         Replaced(m, n, s, x)
  PROVE  OneReplaced(m, n, s, x)
BY ReplacedIs DEF OneReplaced

\* Replacing a section by one of its kind keeps the sections of tables.
LEMMA ReplacedTables ==
  ASSUME NEW m \in ModelType, NEW s \in Tables(m), NEW n, NEW x, x \in AnySection,
         Replaced(m, n, s, x)
  PROVE  /\ n \in ModelType /\ DOMAIN n.sections = DOMAIN m.sections
         /\ n.sections[s] = x /\ Tables(n) = Tables(m)
<1>1. s \in DOMAIN m.sections
  BY DEF Tables
<1> QED BY <1>1, ReplacedIs

\* Nothing that an entry or an unknown section holds differs.
SameEntries(m, n) ==
  /\ n.layers = m.layers /\ n.layerDict = m.layerDict /\ n.largest = m.largest
  /\ Entries(n) = Entries(m) /\ Unknown(n) = Unknown(m)
  /\ \A p \in Entries(m) : EntryAt(n, p) = EntryAt(m, p)
  /\ \A s \in Unknown(m) : n.sections[s].recs = m.sections[s].recs

\* the change of a section that touches neither
Quiet(old, new) ==
  /\ new.kind = old.kind
  /\ old.kind = "unknown" => new.recs = old.recs
  /\ old.kind = "tables" =>
       /\ DOMAIN new.items = DOMAIN old.items
       /\ \A t \in DOMAIN old.items : new.items[t].entries = old.items[t].entries

\* A change of a section without entries and handles changes neither.
LEMMA QuietSame ==
  ASSUME NEW m \in ModelType, NEW n, NEW s \in DOMAIN m.sections, NEW x \in AnySection,
         Replaced(m, n, s, x), Quiet(m.sections[s], x)
  PROVE  n \in ModelType /\ SameEntries(m, n)
<1>1. /\ n \in ModelType /\ n.layers = m.layers /\ n.layerDict = m.layerDict
      /\ n.largest = m.largest
      /\ DOMAIN n.sections = DOMAIN m.sections
      /\ n.sections[s] = x
      /\ \A r \in DOMAIN m.sections : r # s => n.sections[r] = m.sections[r]
      /\ Tables(n) = Tables(m) /\ Unknown(n) = Unknown(m)
  BY ReplacedIs
<1>2. ASSUME NEW r \in Tables(m)
      PROVE  /\ DOMAIN n.sections[r].items = DOMAIN m.sections[r].items
             /\ \A t \in DOMAIN m.sections[r].items :
                  n.sections[r].items[t].entries = m.sections[r].items[t].entries
  <2>1. r \in DOMAIN m.sections /\ m.sections[r].kind = "tables"
    BY DEF Tables
  <2>2. CASE r = s
    BY <1>1, <2>1, <2>2 DEF Quiet
  <2>3. CASE r # s
    BY <1>1, <2>1, <2>3
  <2> QED BY <2>2, <2>3
<1>3. ASSUME NEW r, NEW t, NEW k PROVE EntryIn(m, r, t, k) <=> EntryIn(n, r, t, k)
  BY <1>1, <1>2 DEF EntryIn
<1>4. Entries(n) = Entries(m)
  <2>1. ASSUME NEW p \in Entries(m) PROVE p \in Entries(n)
    <3>1. EntryIn(m, p[1], p[2], p[3]) /\ p = <<p[1], p[2], p[3]>>
      BY EntriesAre
    <3>2. <<p[1], p[2], p[3]>> \in Entries(n)
      BY <3>1, <1>3, EntriesAre
    <3> QED BY <3>1, <3>2
  <2>2. ASSUME NEW p \in Entries(n) PROVE p \in Entries(m)
    <3>1. EntryIn(n, p[1], p[2], p[3]) /\ p = <<p[1], p[2], p[3]>>
      BY EntriesAre
    <3>2. <<p[1], p[2], p[3]>> \in Entries(m)
      BY <3>1, <1>3, EntriesAre
    <3> QED BY <3>1, <3>2
  <2> QED BY <2>1, <2>2
<1>5. ASSUME NEW p \in Entries(m) PROVE EntryAt(n, p) = EntryAt(m, p)
  <2>1. EntryIn(m, p[1], p[2], p[3])
    BY EntriesAre
  <2>2. n.sections[p[1]].items[p[2]].entries = m.sections[p[1]].items[p[2]].entries
    BY <2>1, <1>2 DEF EntryIn
  <2> QED BY <2>2 DEF EntryAt
<1>6. ASSUME NEW r \in Unknown(m) PROVE n.sections[r].recs = m.sections[r].recs
  <2>1. r \in DOMAIN m.sections /\ m.sections[r].kind = "unknown"
    BY DEF Unknown
  <2>2. CASE r = s
    BY <1>1, <2>1, <2>2 DEF Quiet
  <2>3. CASE r # s
    BY <1>1, <2>1, <2>3
  <2> QED BY <2>2, <2>3
<1> QED BY <1>1, <1>4, <1>5, <1>6 DEF SameEntries

-----------------------------------------------------------------------------
(* What an insertion or a removal moves.                                    *)

\* where the element at j came from when one was inserted, or removed, at i
Back(i, j) == IF j < i THEN j ELSE j - 1
\* where the element at j goes when one is removed at i
Past(i, j) == IF j < i THEN j ELSE j + 1
\* the same of all the places of D
AllBack(i, D) == [j \in D |-> Back(i, j)]
\* the same of all the places of D
AllPast(i, D) == [j \in D |-> Past(i, j)]

\* the elements of a concatenation
LEMMA ConcatIs ==
  ASSUME NEW S, NEW a \in Seq(S), NEW b \in Seq(S)
  PROVE  /\ a \o b \in Seq(S) /\ Len(a \o b) = Len(a) + Len(b)
         /\ \A j \in 1 .. Len(a) : (a \o b)[j] = a[j]
         /\ \A j \in 1 .. Len(b) : (a \o b)[Len(a) + j] = b[j]
OBVIOUS

\* insert() at a place: what is before stays, what is after moves up.
LEMMA InsertAtIs ==
  ASSUME NEW S, NEW s \in Seq(S), NEW i \in 1 .. Len(s) + 1, NEW e \in S
  PROVE  /\ InsertAt(s, i, e) \in Seq(S) /\ Len(InsertAt(s, i, e)) = Len(s) + 1
         /\ DOMAIN InsertAt(s, i, e) = 1 .. Len(s) + 1
         /\ InsertAt(s, i, e)[i] = e
         /\ \A j \in 1 .. Len(s) + 1 : j # i =>
              Back(i, j) \in 1 .. Len(s) /\ InsertAt(s, i, e)[j] = s[Back(i, j)]
<1> DEFINE n == Len(s)
           a == SubSeq(s, 1, i - 1)
           b == SubSeq(s, i, n)
           c == a \o <<e>>
           d == c \o b
<1>1. n \in Nat /\ i \in 1 .. n + 1
  OBVIOUS
<1>2. InsertAt(s, i, e) = d
  BY DEF InsertAt
<1>3. a \in Seq(S) /\ Len(a) = i - 1 /\ \A j \in 1 .. i - 1 : a[j] = s[j]
  BY <1>1
<1>4. /\ b \in Seq(S) /\ Len(b) = n + 1 - i
      /\ \A j \in 1 .. n + 1 - i : b[j] = s[i + j - 1]
  BY <1>1
<1> HIDE DEF a, b, n
<1>5. <<e>> \in Seq(S) /\ Len(<<e>>) = 1 /\ <<e>>[1] = e
  OBVIOUS
<1>6. /\ c \in Seq(S) /\ Len(c) = i /\ c[i] = e
      /\ \A j \in 1 .. i - 1 : c[j] = s[j]
  BY <1>1, <1>3, <1>5
<1> HIDE DEF c
<1>7. /\ d \in Seq(S) /\ Len(d) = n + 1
      /\ \A j \in 1 .. i : d[j] = c[j]
      /\ \A j \in 1 .. n + 1 - i : d[i + j] = b[j]
  BY <1>1, <1>4, <1>6
<1> HIDE DEF d
<1>8. DOMAIN d = 1 .. n + 1
  BY <1>7
<1>9. ASSUME NEW j \in 1 .. n + 1, j # i
      PROVE  Back(i, j) \in 1 .. n /\ d[j] = s[Back(i, j)]
  <2>1. CASE j < i
    BY <2>1, <1>1, <1>6, <1>7 DEF Back
  <2>2. CASE j > i
    <3> DEFINE k == j - i
    <3>1. k \in 1 .. n + 1 - i /\ i + k = j /\ i + k - 1 = j - 1 /\ j - 1 \in 1 .. n
          /\ ~ (j < i)
      BY <2>2, <1>1
    <3>2. d[j] = b[k] /\ b[k] = s[j - 1]
      BY <3>1, <1>4, <1>7
    <3> QED BY <3>1, <3>2 DEF Back
  <2> QED BY <2>1, <2>2, <1>9, <1>1
<1>10. d[i] = e
  BY <1>1, <1>6, <1>7
<1> QED BY <1>2, <1>7, <1>8, <1>9, <1>10 DEF n

\* removeElem() at a place: what is before stays, what is after moves down.
LEMMA RemoveAtIs ==
  ASSUME NEW S, NEW s \in Seq(S), NEW i \in 1 .. Len(s)
  PROVE  /\ RemoveAt(s, i) \in Seq(S) /\ Len(RemoveAt(s, i)) = Len(s) - 1
         /\ DOMAIN RemoveAt(s, i) = 1 .. Len(s) - 1
         /\ \A j \in 1 .. Len(s) - 1 :
              Past(i, j) \in 1 .. Len(s) /\ RemoveAt(s, i)[j] = s[Past(i, j)]
<1> DEFINE n == Len(s)
           a == SubSeq(s, 1, i - 1)
           b == SubSeq(s, i + 1, n)
           d == a \o b
<1>1. n \in Nat /\ i \in 1 .. n
  OBVIOUS
<1>2. RemoveAt(s, i) = d
  BY DEF RemoveAt
<1>3. a \in Seq(S) /\ Len(a) = i - 1 /\ \A j \in 1 .. i - 1 : a[j] = s[j]
  BY <1>1
<1>4. b \in Seq(S) /\ Len(b) = n - i /\ \A j \in 1 .. n - i : b[j] = s[i + j]
  BY <1>1
<1> HIDE DEF a, b, n
<1>5. /\ d \in Seq(S) /\ Len(d) = n - 1
      /\ \A j \in 1 .. i - 1 : d[j] = a[j]
      /\ \A j \in 1 .. n - i : d[i - 1 + j] = b[j]
  <2>1. /\ d \in Seq(S) /\ Len(d) = Len(a) + Len(b)
        /\ \A j \in 1 .. Len(a) : d[j] = a[j]
        /\ \A j \in 1 .. Len(b) : d[Len(a) + j] = b[j]
    <3>1. a \in Seq(S) /\ b \in Seq(S)
      BY <1>3, <1>4
    <3> QED BY <3>1, ConcatIs
  <2> HIDE DEF d
  <2> QED BY <2>1, <1>1, <1>3, <1>4
<1> HIDE DEF d
<1>6. DOMAIN d = 1 .. n - 1
  BY <1>5
<1>7. ASSUME NEW j \in 1 .. n - 1 PROVE Past(i, j) \in 1 .. n /\ d[j] = s[Past(i, j)]
  <2>1. CASE j < i
    BY <2>1, <1>1, <1>3, <1>5 DEF Past
  <2>2. CASE ~ (j < i)
    <3> DEFINE k == j + 1 - i
    <3>1. k \in 1 .. n - i /\ i - 1 + k = j /\ i + k = j + 1 /\ j + 1 \in 1 .. n
      BY <2>2, <1>1
    <3>2. d[j] = b[k] /\ b[k] = s[j + 1]
      BY <3>1, <1>4, <1>5
    <3> QED BY <2>2, <3>1, <3>2 DEF Past
  <2> QED BY <2>1, <2>2
<1> QED BY <1>2, <1>5, <1>6, <1>7 DEF n

\* the places of a sequence before and after
Shifts(old, new, D, f) ==
  /\ D \subseteq DOMAIN new /\ f \in [D -> DOMAIN old]
  /\ \A j \in D : new[j] = old[f[j]]
  /\ \A j, k \in D : f[j] = f[k] => j = k

\* All that was there is somewhere, but for what is removed.
Insertion(s, i, new, D, f) ==
  /\ D = (DOMAIN new) \ {i} /\ f = AllBack(i, D) /\ Shifts(s, new, D, f)
  /\ \A k \in DOMAIN s : \E j \in D : f[j] = k
\* a removal, and where the elements that stay came from
Removal(s, i, new, D, f) ==
  /\ D = DOMAIN new /\ f = AllPast(i, D) /\ Shifts(s, new, D, f)
  /\ \A k \in (DOMAIN s) \ {i} : \E j \in D : f[j] = k

\* An insertion keeps every element and their order.
LEMMA InsertShifts ==
  ASSUME NEW S, NEW s \in Seq(S), NEW i \in 1 .. Len(s) + 1, NEW e \in S
  PROVE  \E D, f : Insertion(s, i, InsertAt(s, i, e), D, f)
<1> DEFINE n == Len(s)
           new == InsertAt(s, i, e)
           D == (DOMAIN new) \ {i}
           f == AllBack(i, D)
<1>1. n \in Nat /\ i \in 1 .. n + 1 /\ DOMAIN s = 1 .. n
  OBVIOUS
<1>2. /\ DOMAIN new = 1 .. n + 1
      /\ \A j \in 1 .. n + 1 : j # i => Back(i, j) \in 1 .. n /\ new[j] = s[Back(i, j)]
  BY InsertAtIs DEF n, new
<1>3. DOMAIN f = D /\ (\A j \in D : f[j] = Back(i, j)) /\ f = [j \in D |-> f[j]]
  BY DEF AllBack
<1>4. D = (1 .. n + 1) \ {i}
  BY <1>2
<1> HIDE DEF n, new, D, f
<1>5. \A j, k \in D : Back(i, j) = Back(i, k) => j = k
  BY <1>1, <1>4 DEF Back
<1>6. ASSUME NEW k \in 1 .. n PROVE \E j \in D : f[j] = k
  <2>1. CASE k < i
    BY <2>1, <1>1, <1>4, <1>3 DEF Back
  <2>2. CASE ~ (k < i)
    <3>1. k + 1 \in D /\ Back(i, k + 1) = k
      BY <2>2, <1>1, <1>4 DEF Back
    <3> QED BY <3>1, <1>3
  <2> QED BY <2>1, <2>2
<1>7. \A j \in D : f[j] \in 1 .. n /\ new[j] = s[f[j]]
  BY <1>2, <1>3, <1>4
<1>8. \A j, k \in D : f[j] = f[k] => j = k
  BY <1>3, <1>5
<1>9. D \subseteq DOMAIN new /\ f \in [D -> DOMAIN s]
  BY <1>1, <1>2, <1>3, <1>4, <1>7
<1>10. D = (DOMAIN new) \ {i} /\ f = AllBack(i, D)
  BY DEF D, f
<1>11. Insertion(s, i, new, D, f)
  BY <1>1, <1>6, <1>7, <1>8, <1>9, <1>10 DEF Shifts, Insertion
<1> QED BY <1>11 DEF new

\* A removal keeps every other element and their order.
LEMMA RemoveShifts ==
  ASSUME NEW S, NEW s \in Seq(S), NEW i \in 1 .. Len(s)
  PROVE  \E D, f : Removal(s, i, RemoveAt(s, i), D, f)
<1> DEFINE n == Len(s)
           new == RemoveAt(s, i)
           D == DOMAIN new
           f == AllPast(i, D)
<1>1. n \in Nat /\ i \in 1 .. n /\ DOMAIN s = 1 .. n
  OBVIOUS
<1>2. /\ DOMAIN new = 1 .. n - 1
      /\ \A j \in 1 .. n - 1 : Past(i, j) \in 1 .. n /\ new[j] = s[Past(i, j)]
  BY RemoveAtIs
<1>3. DOMAIN f = D /\ (\A j \in D : f[j] = Past(i, j)) /\ f = [j \in D |-> f[j]]
  BY DEF AllPast
<1>4. D = 1 .. n - 1
  BY <1>2
<1> HIDE DEF n, new, D, f
<1>5. \A j, k \in D : Past(i, j) = Past(i, k) => j = k
  BY <1>1, <1>4 DEF Past
<1>6. ASSUME NEW k \in (1 .. n) \ {i} PROVE \E j \in D : f[j] = k
  <2>1. CASE k < i
    BY <2>1, <1>1, <1>4, <1>3 DEF Past
  <2>2. CASE ~ (k < i)
    <3>1. k - 1 \in D /\ Past(i, k - 1) = k
      BY <2>2, <1>1, <1>4 DEF Past
    <3> QED BY <3>1, <1>3
  <2> QED BY <2>1, <2>2
<1>7. \A j \in D : f[j] \in 1 .. n /\ new[j] = s[f[j]]
  BY <1>2, <1>3, <1>4
<1>8. \A j, k \in D : f[j] = f[k] => j = k
  BY <1>3, <1>5
<1>9. D \subseteq DOMAIN new /\ f \in [D -> DOMAIN s]
  BY <1>1, <1>3, <1>7 DEF D
<1>10. D = DOMAIN new /\ f = AllPast(i, D)
  BY DEF D, f
<1>11. Removal(s, i, new, D, f)
  BY <1>1, <1>6, <1>7, <1>8, <1>9, <1>10 DEF Shifts, Removal
<1> QED BY <1>11 DEF new
-----------------------------------------------------------------------------
(* What a change to a model keeps.                                          *)

\* F and G say where the entries and the unknown sections that n has of m
\* were in m.
Carried(m, n, F, G) ==
  /\ n.layers = m.layers /\ n.layerDict = m.layerDict /\ n.largest = m.largest
  /\ DOMAIN F \subseteq Entries(n) /\ DOMAIN G \subseteq Unknown(n)
  /\ \A p \in DOMAIN F : F[p] \in Entries(m) /\ EntryAt(n, p) = EntryAt(m, F[p])
  /\ \A s \in DOMAIN G : G[s] \in Unknown(m) /\ n.sections[s].recs = m.sections[G[s]].recs
  /\ \A p, q \in DOMAIN F : F[p] = F[q] => p = q
  /\ \A s, r \in DOMAIN G : G[s] = G[r] => s = r

\* what is new, and what is lost
NewEntries(n, F) == Entries(n) \ DOMAIN F
\* the unknown sections that come from nowhere
NewUnknown(n, G) == Unknown(n) \ DOMAIN G
\* the entries that go nowhere
Lost(m, F) == {q \in Entries(m) : \A p \in DOMAIN F : F[p] # q}

\* Everything is carried when nothing moves.
LEMMA SameCarried ==
  ASSUME NEW m, NEW n, SameEntries(m, n)
  PROVE  \E F, G : /\ Carried(m, n, F, G)
                  /\ NewEntries(n, F) = {} /\ NewUnknown(n, G) = {} /\ Lost(m, F) = {}
<1> DEFINE F == [p \in Entries(m) |-> p]
           G == [s \in Unknown(m) |-> s]
<1>1. DOMAIN F = Entries(m) /\ \A p \in Entries(m) : F[p] = p
  OBVIOUS
<1>2. DOMAIN G = Unknown(m) /\ \A s \in Unknown(m) : G[s] = s
  OBVIOUS
<1> HIDE DEF F, G
<1>3. Carried(m, n, F, G)
  BY <1>1, <1>2 DEF SameEntries, Carried
<1>4. NewEntries(n, F) = {} /\ NewUnknown(n, G) = {} /\ Lost(m, F) = {}
  BY <1>1, <1>2 DEF SameEntries, NewEntries, NewUnknown, Lost
<1> QED BY <1>3, <1>4

\* Sections are put elsewhere.
SectionsElsewhere(m, n, D, f, F, G) ==
  /\ Carried(m, n, F, G)
  /\ \A p \in NewEntries(n, F) : p[1] \notin D
  /\ \A s \in NewUnknown(n, G) : s \notin D
  /\ \A q \in Lost(m, F) : \A j \in D : f[j] # q[1]

\* When sections move, their entries and their records move with them.
LEMMA SectionsCarried ==
  ASSUME NEW m \in ModelType, NEW sections \in Seq(AnySection), NEW D, NEW f,
         Shifts(m.sections, sections, D, f)
  PROVE  \E F, G : SectionsElsewhere(m, PutSections(m, sections), D, f, F, G)
<1> DEFINE n == PutSections(m, sections)
           P == {p \in Entries(n) : p[1] \in D}
           F == [p \in P |-> <<f[p[1]], p[2], p[3]>>]
           G == [s \in Unknown(n) \cap D |-> f[s]]
<1>1. /\ D \subseteq DOMAIN sections /\ f \in [D -> DOMAIN m.sections]
      /\ \A j \in D : sections[j] = m.sections[f[j]]
      /\ \A j, k \in D : f[j] = f[k] => j = k
  BY DEF Shifts
<1>2. /\ n.sections = sections /\ n.layers = m.layers /\ n.layerDict = m.layerDict
      /\ n.largest = m.largest
  BY PutSectionsIs
<1>3. DOMAIN F = P /\ \A p \in P : F[p] = <<f[p[1]], p[2], p[3]>>
  OBVIOUS
<1>4. DOMAIN G = Unknown(n) \cap D /\ \A s \in Unknown(n) \cap D : G[s] = f[s]
  OBVIOUS
<1> HIDE DEF n, F, G
<1>5. ASSUME NEW j \in D, NEW t, NEW k PROVE EntryIn(n, j, t, k) <=> EntryIn(m, f[j], t, k)
  BY <1>1, <1>2 DEF EntryIn, Tables
<1>6. ASSUME NEW p \in P
      PROVE  /\ F[p] \in Entries(m) /\ EntryAt(n, p) = EntryAt(m, F[p])
             /\ F[p][1] = f[p[1]] /\ F[p][2] = p[2] /\ F[p][3] = p[3]
  <2>1. EntryIn(m, f[p[1]], p[2], p[3])
    BY <1>5, EntriesAre
  <2>2. F[p] \in Entries(m)
    BY <2>1, <1>3, EntriesAre
  <2>3. F[p][1] = f[p[1]] /\ F[p][2] = p[2] /\ F[p][3] = p[3]
    BY <1>3
  <2> QED BY <2>2, <2>3, <1>1, <1>2 DEF EntryAt
<1>7. ASSUME NEW p \in P, NEW q \in P, F[p] = F[q] PROVE p = q
  BY <1>1, <1>6, <1>7, EntriesAre
<1>8. ASSUME NEW s \in Unknown(n) \cap D
      PROVE  G[s] \in Unknown(m) /\ n.sections[s].recs = m.sections[G[s]].recs
  BY <1>1, <1>2, <1>4 DEF Unknown
<1>9. \A s, r \in Unknown(n) \cap D : G[s] = G[r] => s = r
  BY <1>1, <1>4
<1>10. Carried(m, n, F, G)
  BY <1>2, <1>3, <1>4, <1>6, <1>7, <1>8, <1>9 DEF Carried
<1>11. \A p \in NewEntries(n, F) : p[1] \notin D
  BY <1>3 DEF NewEntries
<1>12. \A s \in NewUnknown(n, G) : s \notin D
  BY <1>4 DEF NewUnknown
<1>13. ASSUME NEW q \in Lost(m, F), NEW j \in D, f[j] = q[1] PROVE FALSE
  <2> DEFINE p == <<j, q[2], q[3]>>
  <2>1. q \in Entries(m) /\ EntryIn(m, f[j], q[2], q[3]) /\ q = <<q[1], q[2], q[3]>>
    BY <1>13, EntriesAre DEF Lost
  <2>2. EntryIn(n, j, q[2], q[3])
    BY <2>1, <1>5
  <2>3. p \in Entries(n)
    BY <2>2, EntriesAre
  <2>4. p \in P
    BY <2>3
  <2>5. F[p] = q
    BY <2>1, <2>4, <1>3, <1>13
  <2> QED BY <2>4, <2>5, <1>3 DEF Lost
<1> QED BY <1>10, <1>11, <1>12, <1>13 DEF SectionsElsewhere, n

\* Entries are put elsewhere within one section of tables: places <<table,
\* entry>> are moved by f.
PlacesIn(x) == UNION {{<<t, k>> : k \in DOMAIN x.items[t].entries} : t \in DOMAIN x.items}
\* a table moves with its entries, an entry within its table
Moves(old, new, D, f) ==
  /\ D \subseteq PlacesIn(new) /\ f \in [D -> PlacesIn(old)]
  /\ \A c \in D : new.items[c[1]].entries[c[2]] = old.items[f[c][1]].entries[f[c][2]]
  /\ \A c, d \in D : f[c] = f[d] => c = d

\* the places in a table
LEMMA PlacesAre ==
  ASSUME NEW x
  PROVE  /\ \A c \in PlacesIn(x) : /\ c = <<c[1], c[2]>> /\ c[1] \in DOMAIN x.items
                                   /\ c[2] \in DOMAIN x.items[c[1]].entries
         /\ \A t, k : t \in DOMAIN x.items /\ k \in DOMAIN x.items[t].entries <=>
                      <<t, k>> \in PlacesIn(x)
<1>1. ASSUME NEW c \in PlacesIn(x)
      PROVE  /\ c = <<c[1], c[2]>> /\ c[1] \in DOMAIN x.items
             /\ c[2] \in DOMAIN x.items[c[1]].entries
  <2>1. PICK t, k : t \in DOMAIN x.items /\ k \in DOMAIN x.items[t].entries /\ c = <<t, k>>
    BY DEF PlacesIn
  <2> QED BY <2>1
<1>2. ASSUME NEW t, NEW k, t \in DOMAIN x.items, k \in DOMAIN x.items[t].entries
      PROVE  <<t, k>> \in PlacesIn(x)
  BY <1>2 DEF PlacesIn
<1>3. ASSUME NEW t, NEW k, <<t, k>> \in PlacesIn(x)
      PROVE  t \in DOMAIN x.items /\ k \in DOMAIN x.items[t].entries
  BY <1>1, <1>3
<1> QED BY <1>1, <1>2, <1>3

\* Some places of one section move, and nothing else does.
Elsewhere(m, n, s, D, f, F, G) ==
  /\ Carried(m, n, F, G)
  /\ \A p \in NewEntries(n, F) : p[1] = s /\ <<p[2], p[3]>> \notin D
  /\ NewUnknown(n, G) = {}
  /\ \A q \in Lost(m, F) : q[1] = s /\ \A c \in D : f[c] # <<q[2], q[3]>>

\* When places of one section move, what is there moves with them.
LEMMA PlacesCarried ==
  ASSUME NEW m \in ModelType, NEW n, NEW s \in Tables(m), NEW x \in AnySection,
         Replaced(m, n, s, x), NEW D, NEW f, Moves(m.sections[s], x, D, f)
  PROVE  \E F, G : Elsewhere(m, n, s, D, f, F, G)
<1> DEFINE P == {p \in Entries(n) : p[1] = s => <<p[2], p[3]>> \in D}
           F == [p \in P |-> IF p[1] = s THEN <<s, f[<<p[2], p[3]>>][1], f[<<p[2], p[3]>>][2]>>
                             ELSE p]
           G == [r \in Unknown(n) |-> r]
           old == m.sections[s]
<1>1. /\ D \subseteq PlacesIn(x) /\ f \in [D -> PlacesIn(old)]
      /\ \A c \in D : x.items[c[1]].entries[c[2]] = old.items[f[c][1]].entries[f[c][2]]
      /\ \A c, d \in D : f[c] = f[d] => c = d
  BY DEF Moves
<1>2. s \in DOMAIN m.sections /\ old.kind = "tables"
  BY DEF Tables
<1>3. /\ n.layers = m.layers /\ n.layerDict = m.layerDict /\ n.largest = m.largest
      /\ DOMAIN n.sections = DOMAIN m.sections /\ n.sections[s] = x
      /\ \A r \in DOMAIN m.sections : r # s => n.sections[r] = m.sections[r]
      /\ Tables(n) = Tables(m) /\ Unknown(n) = Unknown(m)
  <2> HIDE DEF P, F, G, old
  <2>1. s \in DOMAIN m.sections
    BY DEF Tables
  <2> QED BY <2>1, ReplacedIs
<1>4. /\ DOMAIN F = P
      /\ \A p \in P : p[1] = s => F[p] = <<s, f[<<p[2], p[3]>>][1], f[<<p[2], p[3]>>][2]>>
      /\ \A p \in P : p[1] # s => F[p] = p
  OBVIOUS
<1>5. DOMAIN G = Unknown(n) /\ \A r \in Unknown(n) : G[r] = r
  OBVIOUS
<1> HIDE DEF F, G
<1>6. ASSUME NEW r, NEW t, NEW k, r # s PROVE EntryIn(n, r, t, k) <=> EntryIn(m, r, t, k)
  BY <1>3, <1>6 DEF Tables, EntryIn
<1>7. ASSUME NEW t, NEW k
      PROVE  /\ EntryIn(n, s, t, k) <=> <<t, k>> \in PlacesIn(x)
             /\ EntryIn(m, s, t, k) <=> <<t, k>> \in PlacesIn(old)
  BY <1>3, PlacesAre DEF EntryIn
<1>8. ASSUME NEW p \in P, p[1] = s
      PROVE  /\ F[p] \in Entries(m) /\ EntryAt(n, p) = EntryAt(m, F[p])
             /\ F[p][1] = s /\ <<F[p][2], F[p][3]>> = f[<<p[2], p[3]>>]
             /\ <<p[2], p[3]>> \in D
  <2> DEFINE c == <<p[2], p[3]>>
             d == f[c]
  <2>1. c \in D
    BY <1>8
  <2>2. d \in PlacesIn(old)
    BY <2>1, <1>1
  <2>3. c[1] = p[2] /\ c[2] = p[3] /\ F[p] = <<s, d[1], d[2]>>
    BY <1>4, <1>8
  <2> HIDE DEF c, d
  <2>4. d = <<d[1], d[2]>>
    BY <2>2, PlacesAre
  <2>5. EntryIn(m, s, d[1], d[2])
    BY <2>2, <2>4, <1>7
  <2>6. F[p] \in Entries(m)
    BY <2>3, <2>5, EntriesAre
  <2>7. F[p][1] = s /\ F[p][2] = d[1] /\ F[p][3] = d[2]
    BY <2>3
  <2>8. EntryAt(n, p) = x.items[c[1]].entries[c[2]]
    BY <2>3, <1>3, <1>8 DEF EntryAt
  <2>9. EntryAt(m, F[p]) = old.items[d[1]].entries[d[2]]
    BY <2>7 DEF EntryAt
  <2>10. EntryAt(n, p) = EntryAt(m, F[p])
    BY <2>1, <2>8, <2>9, <1>1 DEF d
  <2>11. <<F[p][2], F[p][3]>> = d
    BY <2>4, <2>7
  <2> QED BY <2>1, <2>6, <2>7, <2>10, <2>11 DEF c, d
<1>9. ASSUME NEW p \in P, p[1] # s
      PROVE  F[p] \in Entries(m) /\ EntryAt(n, p) = EntryAt(m, F[p]) /\ F[p] = p
  <2>1. F[p] = p
    BY <1>4, <1>9
  <2>2. EntryIn(n, p[1], p[2], p[3]) /\ p = <<p[1], p[2], p[3]>>
    BY EntriesAre
  <2>3. EntryIn(m, p[1], p[2], p[3])
    BY <2>2, <1>6, <1>9
  <2>4. p \in Entries(m)
    BY <2>2, <2>3, EntriesAre
  <2>5. n.sections[p[1]] = m.sections[p[1]]
    BY <2>3, <1>3, <1>9 DEF EntryIn, Tables
  <2> QED BY <2>1, <2>4, <2>5 DEF EntryAt
<1>10. ASSUME NEW p \in P, NEW q \in P, F[p] = F[q] PROVE p = q
  <2>1. CASE p[1] = s /\ q[1] = s
    <3>0. /\ <<p[2], p[3]>> \in D /\ <<q[2], q[3]>> \in D
          /\ f[<<p[2], p[3]>>] = f[<<q[2], q[3]>>]
      <4>1. <<F[p][2], F[p][3]>> = f[<<p[2], p[3]>>] /\ <<p[2], p[3]>> \in D
        BY <2>1, <1>8
      <4>2. <<F[q][2], F[q][3]>> = f[<<q[2], q[3]>>] /\ <<q[2], q[3]>> \in D
        BY <2>1, <1>8
      <4> QED BY <4>1, <4>2, <1>10
    <3>1. <<p[2], p[3]>> = <<q[2], q[3]>>
      BY <3>0, <1>1
    <3>2. p[2] = q[2] /\ p[3] = q[3]
      BY <3>1
    <3> QED BY <2>1, <3>2, EntriesAre
  <2>2. CASE p[1] # s /\ q[1] # s
    BY <2>2, <1>9, <1>10
  <2>3. CASE p[1] = s /\ q[1] # s
    BY <2>3, <1>8, <1>9, <1>10
  <2>4. CASE p[1] # s /\ q[1] = s
    BY <2>4, <1>8, <1>9, <1>10
  <2> QED BY <2>1, <2>2, <2>3, <2>4
<1>11. ASSUME NEW r \in Unknown(n)
       PROVE  G[r] \in Unknown(m) /\ n.sections[r].recs = m.sections[G[r]].recs
  BY <1>2, <1>3, <1>5 DEF Unknown
<1>12. Carried(m, n, F, G)
  <2>1. \A p \in DOMAIN F : F[p] \in Entries(m) /\ EntryAt(n, p) = EntryAt(m, F[p])
    BY <1>4, <1>8, <1>9
  <2>2. \A p, q \in DOMAIN F : F[p] = F[q] => p = q
    BY <1>4, <1>10
  <2>3. \A a, r \in DOMAIN G : G[a] = G[r] => a = r
    BY <1>5
  <2>4. DOMAIN F \subseteq Entries(n)
    BY <1>4
  <2> QED BY <2>1, <2>2, <2>3, <2>4, <1>3, <1>5, <1>11 DEF Carried
<1>13. \A p \in NewEntries(n, F) : p[1] = s /\ <<p[2], p[3]>> \notin D
  BY <1>4 DEF NewEntries
<1>14. NewUnknown(n, G) = {}
  BY <1>5 DEF NewUnknown
<1>15. ASSUME NEW q \in Lost(m, F) PROVE q[1] = s /\ \A c \in D : f[c] # <<q[2], q[3]>>
  <2>1. q \in Entries(m) /\ EntryIn(m, q[1], q[2], q[3]) /\ q = <<q[1], q[2], q[3]>>
        /\ \A p \in P : F[p] # q
    BY <1>4, <1>15, EntriesAre DEF Lost
  <2>2. q[1] = s
    <3>1. SUFFICES ASSUME q[1] # s PROVE FALSE
      OBVIOUS
    <3>2. q \in Entries(n)
      BY <2>1, <3>1, <1>6, EntriesAre
    <3>3. q \in P
      BY <3>1, <3>2
    <3> QED BY <2>1, <3>1, <3>3, <1>4
  <2>3. ASSUME NEW c \in D, f[c] = <<q[2], q[3]>> PROVE FALSE
    <3> DEFINE p == <<s, c[1], c[2]>>
    <3>1. c \in PlacesIn(x) /\ c = <<c[1], c[2]>>
      BY <1>1, PlacesAre
    <3>2. p \in Entries(n)
      BY <3>1, <1>7, EntriesAre
    <3>3. p[1] = s /\ <<p[2], p[3]>> = c
      BY <3>1
    <3>4. p \in P
      BY <3>2, <3>3
    <3> HIDE DEF p
    <3>5. F[p] = <<s, q[2], q[3]>>
      <4>1. F[p] = <<s, f[c][1], f[c][2]>>
        BY <3>3, <3>4, <1>4
      <4>2. f[c][1] = q[2] /\ f[c][2] = q[3]
        BY <2>3
      <4> QED BY <4>1, <4>2
    <3> QED BY <2>1, <2>2, <3>4, <3>5
  <2> QED BY <2>2, <2>3
<1> QED BY <1>12, <1>13, <1>14, <1>15 DEF Elsewhere

-----------------------------------------------------------------------------
(* One table, or one entry, is inserted, removed or changed.                *)

\* a section with other tables or classes, with another table, with other entries in a
\* table
PutItems(m, s, items) == [m EXCEPT !.sections[s].items = items]
\* the same for one table
PutTable(m, s, t, table) == [m EXCEPT !.sections[s].items[t] = table]
\* the same for the entries of one table
PutEntries(m, s, t, entries) == [m EXCEPT !.sections[s].items[t].entries = entries]

\* the items of a section of tables are others
LEMMA ItemsChanged ==
  ASSUME NEW m \in ModelType, NEW s \in Tables(m), NEW items \in Seq(TableType)
  PROVE  \E x \in AnySection :
           /\ Replaced(m, PutItems(m, s, items), s, x)
           /\ x.items = items /\ x.kind = "tables"
<1> DEFINE old == m.sections[s]
           x == [old EXCEPT !.items = items]
<1>1. s \in DOMAIN m.sections /\ old \in AnySection /\ old.kind = "tables"
  BY TableFields
<1>2. ItemType("tables") = TableType
  BY DEF ItemType
<1>3. x \in AnySection
  BY <1>1, <1>2, SectionChanged
<1>4. x.items = items /\ x.kind = old.kind
  BY <1>1, SectionFields
<1>5. PutItems(m, s, items) =
        PutSections(m, [m.sections EXCEPT ![s] = x])
  BY DEF PutSections, PutItems
<1> QED BY <1>1, <1>3, <1>4, <1>5 DEF Replaced

\* A section of tables stays one when one of its tables changes.
LEMMA TableChanged ==
  ASSUME NEW m \in ModelType, NEW s \in Tables(m), NEW t \in DOMAIN m.sections[s].items,
         NEW table \in TableType
  PROVE  \E x \in AnySection :
           /\ Replaced(m, PutTable(m, s, t, table), s, x)
           /\ x.kind = "tables" /\ DOMAIN x.items = DOMAIN m.sections[s].items
           /\ x.items[t] = table
           /\ \A u \in DOMAIN x.items : u # t => x.items[u] = m.sections[s].items[u]
<1> DEFINE old == m.sections[s].items
           items == [old EXCEPT ![t] = table]
<1>1. old \in Seq(TableType) /\ t \in DOMAIN old
  BY TableFields
<1>2. /\ items \in Seq(TableType) /\ DOMAIN items = DOMAIN old /\ items[t] = table
      /\ \A u \in DOMAIN old : u # t => items[u] = old[u]
  <2> HIDE DEF old
  <2> QED BY <1>1
<1>3. PutTable(m, s, t, table) = PutItems(m, s, items)
  BY DEF PutTable, PutItems
<1> HIDE DEF items
<1>4. PICK x \in AnySection :
        /\ Replaced(m, PutItems(m, s, items), s, x)
        /\ x.items = items /\ x.kind = "tables"
  BY <1>2, ItemsChanged
<1> QED BY <1>2, <1>3, <1>4

\* A table stays one when its entries change.
LEMMA EntriesChanged ==
  ASSUME NEW m \in ModelType, NEW s \in Tables(m), NEW t \in DOMAIN m.sections[s].items,
         NEW entries \in Seq(EntryType)
  PROVE  \E x \in AnySection :
           /\ Replaced(m, PutEntries(m, s, t, entries), s, x)
           /\ x.kind = "tables" /\ DOMAIN x.items = DOMAIN m.sections[s].items
           /\ x.items[t].entries = entries
           /\ \A u \in DOMAIN x.items : u # t => x.items[u] = m.sections[s].items[u]
<1> DEFINE old == m.sections[s].items[t]
           table == [old EXCEPT !.entries = entries]
<1>1. old \in TableType
  BY TableFields
<1>2. table \in TableType /\ table.entries = entries
  <2> HIDE DEF old
  <2> QED BY <1>1 DEF TableType
<1>3. PutEntries(m, s, t, entries) =
        PutTable(m, s, t, table)
  BY DEF PutTable, PutEntries
<1> HIDE DEF table
<1>4. PICK x \in AnySection :
        /\ Replaced(m, PutTable(m, s, t, table), s, x)
        /\ x.kind = "tables" /\ DOMAIN x.items = DOMAIN m.sections[s].items
        /\ x.items[t] = table
        /\ \A u \in DOMAIN x.items : u # t => x.items[u] = m.sections[s].items[u]
  BY <1>2, TableChanged
<1> QED BY <1>2, <1>3, <1>4

\* Entries of one table are put elsewhere.
EntriesElsewhere(m, n, s, t, D, f, F, G) ==
  /\ Carried(m, n, F, G) /\ NewUnknown(n, G) = {}
  /\ \A p \in NewEntries(n, F) : p[1] = s /\ p[2] = t /\ p[3] \notin D
  /\ \A q \in Lost(m, F) : q[1] = s /\ q[2] = t /\ \A j \in D : f[j] # q[3]

\* the entries of one table move as the function f says
ShiftsEntries(m, n, s, t, entries, D, f) ==
  /\ n \in ModelType /\ Tables(n) = Tables(m)
  /\ DOMAIN n.sections = DOMAIN m.sections
  /\ DOMAIN n.sections[s].items = DOMAIN m.sections[s].items
  /\ n.sections[s].items[t].entries = entries
  /\ \E F, G : EntriesElsewhere(m, n, s, t, D, f, F, G)

\* When the entries of one table move, what they are moves with them.
LEMMA EntriesShifted ==
  ASSUME NEW m \in ModelType, NEW s \in Tables(m), NEW t \in DOMAIN m.sections[s].items,
         NEW entries \in Seq(EntryType), NEW D, NEW f,
         Shifts(m.sections[s].items[t].entries, entries, D, f)
  PROVE  ShiftsEntries(m, PutEntries(m, s, t, entries), s, t, entries, D, f)
<1> DEFINE old == m.sections[s]
           n == PutEntries(m, s, t, entries)
<1>1. PICK x \in AnySection :
        /\ Replaced(m, n, s, x)
        /\ x.kind = "tables" /\ DOMAIN x.items = DOMAIN old.items
        /\ x.items[t].entries = entries
        /\ \A u \in DOMAIN x.items : u # t => x.items[u] = old.items[u]
  <2>1. n = PutEntries(m, s, t, entries) /\ old = m.sections[s]
    OBVIOUS
  <2> HIDE DEF n, old
  <2>2. \E x \in AnySection :
          /\ Replaced(m, n, s, x)
          /\ x.kind = "tables" /\ DOMAIN x.items = DOMAIN m.sections[s].items
          /\ x.items[t].entries = entries
          /\ \A u \in DOMAIN x.items : u # t => x.items[u] = m.sections[s].items[u]
    BY EntriesChanged, <2>1
  <2> QED BY <2>1, <2>2
<1> HIDE DEF n, old
<1>2. /\ n \in ModelType /\ DOMAIN n.sections = DOMAIN m.sections
      /\ n.sections[s] = x /\ Tables(n) = Tables(m)
  BY <1>1, ReplacedTables
<1>3. /\ D \subseteq DOMAIN entries /\ f \in [D -> DOMAIN old.items[t].entries]
      /\ \A j \in D : entries[j] = old.items[t].entries[f[j]]
      /\ \A j, k \in D : f[j] = f[k] => j = k
  BY DEF Shifts, old
<1> DEFINE E == {c \in PlacesIn(x) : c[1] = t => c[2] \in D}
           h == [c \in E |-> IF c[1] = t THEN <<t, f[c[2]]>> ELSE c]
<1>4. /\ DOMAIN h = E /\ \A c \in E : c[1] = t => h[c] = <<t, f[c[2]]>>
      /\ \A c \in E : c[1] # t => h[c] = c
      /\ h = [c \in E |-> h[c]]
  OBVIOUS
<1> HIDE DEF h
<1>5. ASSUME NEW c \in E, c[1] = t
      PROVE  /\ h[c] \in PlacesIn(old) /\ h[c][1] = t /\ h[c][2] = f[c[2]] /\ c[2] \in D
             /\ x.items[c[1]].entries[c[2]] = old.items[h[c][1]].entries[h[c][2]]
  <2>1. c[2] \in D /\ h[c] = <<t, f[c[2]]>>
    BY <1>4, <1>5
  <2>2. f[c[2]] \in DOMAIN old.items[t].entries /\ t \in DOMAIN old.items
    BY <2>1, <1>3 DEF old
  <2>3. <<t, f[c[2]]>> \in PlacesIn(old)
    BY <2>2, PlacesAre
  <2>4. h[c][1] = t /\ h[c][2] = f[c[2]]
    BY <2>1
  <2>5. x.items[c[1]].entries[c[2]] = old.items[t].entries[f[c[2]]]
    BY <2>1, <1>1, <1>3, <1>5
  <2> QED BY <2>1, <2>3, <2>4, <2>5
<1>6. ASSUME NEW c \in E, c[1] # t
      PROVE  /\ h[c] \in PlacesIn(old) /\ h[c] = c
             /\ x.items[c[1]].entries[c[2]] = old.items[h[c][1]].entries[h[c][2]]
  <2>1. h[c] = c /\ c = <<c[1], c[2]>> /\ c[1] \in DOMAIN x.items
        /\ c[2] \in DOMAIN x.items[c[1]].entries
    BY <1>4, <1>6, PlacesAre
  <2>2. x.items[c[1]] = old.items[c[1]] /\ c[1] \in DOMAIN old.items
    BY <2>1, <1>1, <1>6
  <2>3. <<c[1], c[2]>> \in PlacesIn(old)
    BY <2>1, <2>2, PlacesAre
  <2> QED BY <2>1, <2>2, <2>3
<1>7. ASSUME NEW c \in E, NEW d \in E, h[c] = h[d] PROVE c = d
  <2>0. c = <<c[1], c[2]>> /\ d = <<d[1], d[2]>>
    BY PlacesAre
  <2>1. CASE c[1] = t /\ d[1] = t
    <3>1. f[c[2]] = f[d[2]] /\ c[2] \in D /\ d[2] \in D
      BY <2>1, <1>5, <1>7
    <3>2. c[2] = d[2]
      BY <3>1, <1>3
    <3> QED BY <2>0, <2>1, <3>2
  <2>2. CASE c[1] = t /\ d[1] # t
    BY <2>2, <1>5, <1>6, <1>7
  <2>3. CASE c[1] # t /\ d[1] = t
    BY <2>3, <1>5, <1>6, <1>7
  <2>4. CASE c[1] # t /\ d[1] # t
    BY <2>4, <1>6, <1>7
  <2> QED BY <2>1, <2>2, <2>3, <2>4
<1>8. Moves(old, x, E, h)
  <2>1. h \in [E -> PlacesIn(old)]
    BY <1>4, <1>5, <1>6
  <2>2. \A c \in E : x.items[c[1]].entries[c[2]] = old.items[h[c][1]].entries[h[c][2]]
    BY <1>5, <1>6
  <2> QED BY <2>1, <2>2, <1>7 DEF Moves
<1>9. PICK F, G : /\ Carried(m, n, F, G)
                  /\ \A p \in NewEntries(n, F) : p[1] = s /\ <<p[2], p[3]>> \notin E
                  /\ NewUnknown(n, G) = {}
                  /\ \A q \in Lost(m, F) : q[1] = s /\ \A c \in E : h[c] # <<q[2], q[3]>>
  <2> HIDE DEF E
  <2>1. Moves(m.sections[s], x, E, h) /\ Replaced(m, n, s, x)
    BY <1>1, <1>8 DEF old
  <2>2. \E F, G : Elsewhere(m, n, s, E, h, F, G)
    BY <2>1, PlacesCarried
  <2> QED BY <2>2 DEF Elsewhere
<1>10. ASSUME NEW p \in NewEntries(n, F) PROVE p[1] = s /\ p[2] = t /\ p[3] \notin D
  <2> DEFINE c == <<p[2], p[3]>>
  <2>1. p[1] = s /\ c \notin E
    BY <1>9
  <2>2. EntryIn(n, p[1], p[2], p[3])
    BY EntriesAre DEF NewEntries
  <2>3. c \in PlacesIn(x)
    BY <2>1, <2>2, <1>2, PlacesAre DEF EntryIn
  <2>4. c[1] = p[2] /\ c[2] = p[3]
    OBVIOUS
  <2> HIDE DEF c
  <2> QED BY <2>1, <2>3, <2>4
<1>11. ASSUME NEW q \in Lost(m, F)
       PROVE  q[1] = s /\ q[2] = t /\ \A j \in D : f[j] # q[3]
  <2>1. q[1] = s /\ \A c \in E : h[c] # <<q[2], q[3]>>
    BY <1>9
  <2>2. EntryIn(m, q[1], q[2], q[3])
    BY EntriesAre DEF Lost
  <2>3. q[2] \in DOMAIN old.items /\ q[3] \in DOMAIN old.items[q[2]].entries
    BY <2>1, <2>2 DEF EntryIn, old
  <2>4. q[2] = t
    <3>1. SUFFICES ASSUME q[2] # t PROVE FALSE
      OBVIOUS
    <3> DEFINE c == <<q[2], q[3]>>
    <3>2. c[1] = q[2] /\ c[2] = q[3]
      OBVIOUS
    <3>3. c \in PlacesIn(x)
      BY <2>3, <3>1, <1>1, PlacesAre
    <3> HIDE DEF c
    <3>4. c \in E
      BY <3>1, <3>2, <3>3
    <3>5. h[c] = c
      BY <3>1, <3>2, <3>4, <1>4
    <3> QED BY <2>1, <3>4, <3>5 DEF c
  <2>5. ASSUME NEW j \in D, f[j] = q[3] PROVE FALSE
    <3> DEFINE c == <<t, j>>
    <3>1. c[1] = t /\ c[2] = j
      OBVIOUS
    <3>2. c \in PlacesIn(x)
      BY <1>1, <1>3, PlacesAre DEF old
    <3> HIDE DEF c
    <3>3. c \in E
      BY <3>1, <3>2
    <3>4. h[c] = <<q[2], q[3]>>
      BY <3>1, <3>3, <1>4, <2>4, <2>5
    <3> QED BY <2>1, <3>3, <3>4
  <2> QED BY <2>1, <2>4, <2>5
<1> QED BY <1>1, <1>2, <1>9, <1>10, <1>11 DEF EntriesElsewhere, ShiftsEntries, old, n

\* Tables of one section are put elsewhere.
TablesElsewhere(m, n, s, D, f, F, G) ==
  /\ Carried(m, n, F, G) /\ NewUnknown(n, G) = {}
  /\ \A p \in NewEntries(n, F) : p[1] = s /\ p[2] \notin D
  /\ \A q \in Lost(m, F) : q[1] = s /\ \A j \in D : f[j] # q[2]

\* the tables of one section move as the function f says
ShiftsItems(m, n, s, items, D, f) ==
  /\ n \in ModelType /\ Tables(n) = Tables(m)
  /\ DOMAIN n.sections = DOMAIN m.sections
  /\ n.sections[s].items = items
  /\ \E F, G : TablesElsewhere(m, n, s, D, f, F, G)

\* When the tables of one section move, their entries move with them.
LEMMA ItemsShifted ==
  ASSUME NEW m \in ModelType, NEW s \in Tables(m), NEW items \in Seq(TableType), NEW D, NEW f,
         Shifts(m.sections[s].items, items, D, f)
  PROVE  ShiftsItems(m, PutItems(m, s, items), s, items, D, f)
<1> DEFINE n == PutItems(m, s, items)
           old == m.sections[s]
<1>1. PICK x \in AnySection : Replaced(m, n, s, x) /\ x.items = items /\ x.kind = "tables"
  BY ItemsChanged
<1> HIDE DEF n, old
<1>2. /\ n \in ModelType /\ DOMAIN n.sections = DOMAIN m.sections
      /\ n.sections[s] = x /\ Tables(n) = Tables(m)
  BY <1>1, ReplacedTables
<1>3. /\ D \subseteq DOMAIN items /\ f \in [D -> DOMAIN old.items]
      /\ \A j \in D : items[j] = old.items[f[j]]
      /\ \A j, k \in D : f[j] = f[k] => j = k
  BY DEF Shifts, old
<1> DEFINE E == {c \in PlacesIn(x) : c[1] \in D}
           h == [c \in E |-> <<f[c[1]], c[2]>>]
<1>4. DOMAIN h = E /\ (\A c \in E : h[c] = <<f[c[1]], c[2]>>) /\ h = [c \in E |-> h[c]]
  OBVIOUS
<1> HIDE DEF h
<1>5. ASSUME NEW c \in E
      PROVE  /\ h[c] \in PlacesIn(old) /\ h[c][1] = f[c[1]] /\ h[c][2] = c[2] /\ c[1] \in D
             /\ x.items[c[1]].entries[c[2]] = old.items[h[c][1]].entries[h[c][2]]
  <2>1. c[1] \in D /\ h[c] = <<f[c[1]], c[2]>> /\ c[2] \in DOMAIN x.items[c[1]].entries
    BY <1>4, PlacesAre
  <2>2. f[c[1]] \in DOMAIN old.items /\ x.items[c[1]] = old.items[f[c[1]]]
    BY <2>1, <1>1, <1>3
  <2>3. <<f[c[1]], c[2]>> \in PlacesIn(old)
    BY <2>1, <2>2, PlacesAre
  <2>4. h[c][1] = f[c[1]] /\ h[c][2] = c[2]
    BY <2>1
  <2> QED BY <2>1, <2>2, <2>3, <2>4
<1>6. ASSUME NEW c \in E, NEW d \in E, h[c] = h[d] PROVE c = d
  <2>1. c = <<c[1], c[2]>> /\ d = <<d[1], d[2]>>
    BY PlacesAre
  <2>2. f[c[1]] = f[d[1]] /\ c[1] \in D /\ d[1] \in D /\ c[2] = d[2]
    BY <1>5, <1>6
  <2>3. c[1] = d[1]
    BY <2>2, <1>3
  <2> QED BY <2>1, <2>2, <2>3
<1>7. Moves(old, x, E, h)
  <2>1. h \in [E -> PlacesIn(old)]
    BY <1>4, <1>5
  <2>2. \A c \in E : x.items[c[1]].entries[c[2]] = old.items[h[c][1]].entries[h[c][2]]
    BY <1>5
  <2> QED BY <2>1, <2>2, <1>6 DEF Moves
<1>8. PICK F, G : /\ Carried(m, n, F, G)
                  /\ \A p \in NewEntries(n, F) : p[1] = s /\ <<p[2], p[3]>> \notin E
                  /\ NewUnknown(n, G) = {}
                  /\ \A q \in Lost(m, F) : q[1] = s /\ \A c \in E : h[c] # <<q[2], q[3]>>
  <2> HIDE DEF E
  <2>1. Moves(m.sections[s], x, E, h) /\ Replaced(m, n, s, x)
    BY <1>1, <1>7 DEF old
  <2>2. \E F, G : Elsewhere(m, n, s, E, h, F, G)
    BY <2>1, PlacesCarried
  <2> QED BY <2>2 DEF Elsewhere
<1>9. ASSUME NEW p \in NewEntries(n, F) PROVE p[1] = s /\ p[2] \notin D
  <2> DEFINE c == <<p[2], p[3]>>
  <2>1. p[1] = s /\ c \notin E
    BY <1>8
  <2>2. EntryIn(n, p[1], p[2], p[3])
    BY EntriesAre DEF NewEntries
  <2>3. c \in PlacesIn(x)
    BY <2>1, <2>2, <1>2, PlacesAre DEF EntryIn
  <2>4. c[1] = p[2] /\ c[2] = p[3]
    OBVIOUS
  <2> HIDE DEF c
  <2> QED BY <2>1, <2>3, <2>4
<1>10. ASSUME NEW q \in Lost(m, F) PROVE q[1] = s /\ \A j \in D : f[j] # q[2]
  <2>1. q[1] = s /\ \A c \in E : h[c] # <<q[2], q[3]>>
    BY <1>8
  <2>2. EntryIn(m, q[1], q[2], q[3])
    BY EntriesAre DEF Lost
  <2>3. q[3] \in DOMAIN old.items[q[2]].entries
    BY <2>1, <2>2 DEF EntryIn, old
  <2>4. ASSUME NEW j \in D, f[j] = q[2] PROVE FALSE
    <3> DEFINE c == <<j, q[3]>>
    <3>1. c[1] = j /\ c[2] = q[3]
      OBVIOUS
    <3>2. c \in PlacesIn(x)
      BY <1>1, <1>3, <2>4, <2>3, PlacesAre
    <3> HIDE DEF c
    <3>3. c \in E
      BY <3>1, <3>2
    <3>4. h[c] = <<q[2], q[3]>>
      BY <3>1, <3>3, <1>4, <2>4
    <3> QED BY <2>1, <3>3, <3>4
  <2> QED BY <2>1, <2>4
<1> QED BY <1>1, <1>2, <1>8, <1>9, <1>10 DEF TablesElsewhere, ShiftsItems, n, old

\* What is new in n, entries and unknown sections, and what is gone.
Kept(m, n, New, Unk, Gone) ==
  \E F, G : /\ Carried(m, n, F, G)
            /\ NewEntries(n, F) \subseteq New /\ NewUnknown(n, G) \subseteq Unk
            /\ Lost(m, F) \subseteq Gone

\* Nothing is new or gone when nothing moves.
LEMMA SameKept ==
  ASSUME NEW m, NEW n, SameEntries(m, n)
  PROVE  Kept(m, n, {}, {}, {})
<1>1. PICK F, G : /\ Carried(m, n, F, G)
                  /\ NewEntries(n, F) = {} /\ NewUnknown(n, G) = {} /\ Lost(m, F) = {}
  BY SameCarried
<1> QED BY <1>1 DEF Kept

\* An element that is appended is one that is inserted at the end.
LEMMA AppendInserts ==
  ASSUME NEW S, NEW s \in Seq(S), NEW e \in S
  PROVE  Append(s, e) = InsertAt(s, Len(s) + 1, e) /\ Len(s) + 1 \in 1 .. Len(s) + 1
<1>1. SubSeq(s, 1, Len(s) + 1 - 1) = s /\ SubSeq(s, Len(s) + 1, Len(s)) = << >>
  OBVIOUS
<1>2. InsertAt(s, Len(s) + 1, e) = (s \o <<e>>) \o << >>
  <2> DEFINE a == SubSeq(s, 1, Len(s) + 1 - 1)
             b == SubSeq(s, Len(s) + 1, Len(s))
  <2>1. InsertAt(s, Len(s) + 1, e) = a \o <<e>> \o b
    BY DEF InsertAt
  <2>2. a = s /\ b = << >>
    BY <1>1
  <2> HIDE DEF a, b
  <2> QED BY <2>1, <2>2
<1>3. s \o <<e>> \in Seq(S) /\ Append(s, e) = s \o <<e>>
  OBVIOUS
<1>4. \A x \in Seq(S) : x \o << >> = x
  OBVIOUS
<1> QED BY <1>2, <1>3, <1>4

\* an entry is inserted at k, and everything else is kept
GetsEntry(m, n, s, t, k, e) ==
  /\ n \in ModelType /\ DOMAIN n.sections = DOMAIN m.sections
  /\ Tables(n) = Tables(m)
  /\ DOMAIN n.sections[s].items = DOMAIN m.sections[s].items
  /\ n.sections[s].items[t].entries = InsertAt(m.sections[s].items[t].entries, k, e)
  /\ Len(n.sections[s].items[t].entries) = Len(m.sections[s].items[t].entries) + 1
  /\ EntryIn(n, s, t, k) /\ EntryAt(n, <<s, t, k>>) = e
  /\ Kept(m, n, {<<s, t, k>>}, {}, {})

\* dimeTable::insertTableEntry() keeps every other entry.
LEMMA EntryInserted ==
  ASSUME NEW m \in ModelType, NEW s \in Tables(m), NEW t \in DOMAIN m.sections[s].items,
         NEW k \in 1 .. Len(m.sections[s].items[t].entries) + 1, NEW e \in EntryType
  PROVE  GetsEntry(m, PutEntries(m, s, t, InsertAt(m.sections[s].items[t].entries, k, e)), s, t, k, e)
<1> SUFFICES ASSUME NEW n, n = PutEntries(m, s, t, InsertAt(m.sections[s].items[t].entries, k, e))
             PROVE  GetsEntry(m, n, s, t, k, e)
  OBVIOUS
<1> DEFINE old == m.sections[s].items[t].entries
           new == InsertAt(old, k, e)
<1>1. old \in Seq(EntryType) /\ DOMAIN old = 1 .. Len(old)
  BY TableFields
<1>2. /\ new \in Seq(EntryType) /\ k \in DOMAIN new /\ new[k] = e
      /\ Len(new) = Len(old) + 1 /\ \E D, f : Insertion(old, k, new, D, f)
  <2>0. k \in 1 .. Len(old) + 1
    OBVIOUS
  <2> HIDE DEF old
  <2>1. \E D, f : Insertion(old, k, new, D, f)
    BY <1>1, <2>0, InsertShifts
  <2>2. /\ new \in Seq(EntryType) /\ DOMAIN new = 1 .. Len(old) + 1 /\ new[k] = e
        /\ Len(new) = Len(old) + 1
    BY <1>1, <2>0, InsertAtIs
  <2> HIDE DEF new
  <2> QED BY <2>0, <2>1, <2>2
<1> HIDE DEF new
<1>20. PICK D, f : Insertion(old, k, new, D, f)
  BY <1>2
<1>21. /\ D = (DOMAIN new) \ {k} /\ Shifts(old, new, D, f)
       /\ \A j \in DOMAIN old : \E i \in D : f[i] = j
  BY <1>20 DEF Insertion
<1>3. n = PutEntries(m, s, t, new)
  BY DEF new
<1>4. /\ n \in ModelType /\ Tables(n) = Tables(m)
      /\ DOMAIN n.sections = DOMAIN m.sections
      /\ DOMAIN n.sections[s].items = DOMAIN m.sections[s].items
      /\ n.sections[s].items[t].entries = new
      /\ \E F, G : EntriesElsewhere(m, n, s, t, D, f, F, G)
  <2>1. ShiftsEntries(m, PutEntries(m, s, t, new), s, t, new, D, f)
    BY <1>2, <1>21, EntriesShifted
  <2> QED BY <2>1, <1>3 DEF ShiftsEntries
<1>5. PICK F, G : /\ Carried(m, n, F, G) /\ NewUnknown(n, G) = {}
                  /\ \A p \in NewEntries(n, F) : p[1] = s /\ p[2] = t /\ p[3] \notin D
                  /\ \A q \in Lost(m, F) : q[1] = s /\ q[2] = t /\ \A j \in D : f[j] # q[3]
  BY <1>4 DEF EntriesElsewhere
<1>6. ASSUME NEW p \in NewEntries(n, F) PROVE p = <<s, t, k>>
  <2>1. p[1] = s /\ p[2] = t /\ p[3] \notin D
    BY <1>5
  <2>2. EntryIn(n, p[1], p[2], p[3]) /\ p = <<p[1], p[2], p[3]>>
    BY EntriesAre DEF NewEntries
  <2>3. p[3] \in DOMAIN new
    BY <2>1, <2>2, <1>4 DEF EntryIn
  <2> QED BY <2>1, <2>2, <2>3, <1>21
<1>7. Lost(m, F) = {}
  <2>1. SUFFICES ASSUME NEW q \in Lost(m, F) PROVE FALSE
    OBVIOUS
  <2>2. q[1] = s /\ q[2] = t /\ \A j \in D : f[j] # q[3]
    BY <1>5
  <2>3. EntryIn(m, q[1], q[2], q[3])
    BY EntriesAre DEF Lost
  <2>4. q[3] \in DOMAIN old
    BY <2>2, <2>3 DEF EntryIn
  <2> QED BY <2>2, <2>4, <1>21
<1>8. EntryIn(n, s, t, k)
  BY <1>2, <1>4 DEF EntryIn
<1>9. EntryAt(n, <<s, t, k>>) = e
  BY <1>2, <1>4 DEF EntryAt
<1>10. Kept(m, n, {<<s, t, k>>}, {}, {})
  BY <1>5, <1>6, <1>7 DEF Kept
<1> QED BY <1>2, <1>4, <1>8, <1>9, <1>10 DEF new, old, GetsEntry

\* the entry at k is removed, and everything else is kept
LosesEntry(m, n, s, t, k) ==
  n \in ModelType /\ Kept(m, n, {}, {}, {<<s, t, k>>})

\* dimeTable::removeTableEntry() keeps every other entry.
LEMMA EntryRemoved ==
  ASSUME NEW m \in ModelType, NEW s, NEW t, NEW k, EntryIn(m, s, t, k)
  PROVE  LosesEntry(m, PutEntries(m, s, t, RemoveAt(m.sections[s].items[t].entries, k)), s, t, k)
<1> SUFFICES ASSUME NEW n, n = PutEntries(m, s, t, RemoveAt(m.sections[s].items[t].entries, k))
             PROVE  LosesEntry(m, n, s, t, k)
  OBVIOUS
<1> DEFINE old == m.sections[s].items[t].entries
           new == RemoveAt(old, k)
<1>0. s \in Tables(m) /\ t \in DOMAIN m.sections[s].items
  BY DEF EntryIn
<1>1. old \in Seq(EntryType) /\ DOMAIN old = 1 .. Len(old)
  BY <1>0, TableFields
<1>2. new \in Seq(EntryType) /\ \E D, f : Removal(old, k, new, D, f)
  <2>0. k \in 1 .. Len(old)
    BY <1>1 DEF EntryIn
  <2> HIDE DEF old
  <2> QED BY <1>1, <2>0, RemoveShifts, RemoveAtIs
<1> HIDE DEF new
<1>20. PICK D, f : Removal(old, k, new, D, f)
  BY <1>2
<1>21. /\ D = DOMAIN new /\ Shifts(old, new, D, f)
       /\ \A j \in (DOMAIN old) \ {k} : \E i \in D : f[i] = j
  BY <1>20 DEF Removal
<1>3. n = PutEntries(m, s, t, new)
  BY DEF new
<1>4. /\ n \in ModelType
      /\ \E F, G : EntriesElsewhere(m, n, s, t, D, f, F, G)
      /\ n.sections[s].items[t].entries = new
  <2>1. ShiftsEntries(m, PutEntries(m, s, t, new), s, t, new, D, f)
    BY <1>0, <1>2, <1>21, EntriesShifted
  <2> QED BY <2>1, <1>3 DEF ShiftsEntries
<1>5. PICK F, G : /\ Carried(m, n, F, G) /\ NewUnknown(n, G) = {}
                  /\ \A p \in NewEntries(n, F) : p[1] = s /\ p[2] = t /\ p[3] \notin D
                  /\ \A q \in Lost(m, F) : q[1] = s /\ q[2] = t /\ \A j \in D : f[j] # q[3]
  BY <1>4 DEF EntriesElsewhere
<1>6. ASSUME NEW p \in NewEntries(n, F) PROVE FALSE
  <2>1. p[1] = s /\ p[2] = t /\ p[3] \notin D
    BY <1>5
  <2>2. EntryIn(n, p[1], p[2], p[3])
    BY EntriesAre DEF NewEntries
  <2>3. p[3] \in DOMAIN new
    BY <2>1, <2>2, <1>4 DEF EntryIn
  <2> QED BY <2>1, <2>3, <1>21
<1>7. ASSUME NEW q \in Lost(m, F) PROVE q = <<s, t, k>>
  <2>2. q[1] = s /\ q[2] = t /\ \A j \in D : f[j] # q[3]
    BY <1>5
  <2>3. EntryIn(m, q[1], q[2], q[3]) /\ q = <<q[1], q[2], q[3]>>
    BY EntriesAre DEF Lost
  <2>4. q[3] \in DOMAIN old
    BY <2>2, <2>3 DEF EntryIn
  <2>5. q[3] = k
    BY <2>2, <2>4, <1>21
  <2> QED BY <2>2, <2>3, <2>5
<1> QED BY <1>4, <1>5, <1>6, <1>7 DEF Kept, LosesEntry

\* One entry becomes another.
PutEntry(m, s, t, k, e) == [m EXCEPT !.sections[s].items[t].entries[k] = e]

\* the entry at k is e, and every other is what it was
BecomesEntry(m, n, s, t, k, e) ==
  /\ n \in ModelType /\ DOMAIN n.sections = DOMAIN m.sections
  /\ Tables(n) = Tables(m)
  /\ DOMAIN n.sections[s].items = DOMAIN m.sections[s].items
  /\ DOMAIN n.sections[s].items[t].entries = DOMAIN m.sections[s].items[t].entries
  /\ Len(n.sections[s].items[t].entries) = Len(m.sections[s].items[t].entries)
  /\ EntryIn(n, s, t, k) /\ EntryAt(n, <<s, t, k>>) = e
  /\ Kept(m, n, {<<s, t, k>>}, {}, {<<s, t, k>>})

\* Changing one entry leaves the others alone.
LEMMA EntryChanged ==
  ASSUME NEW m \in ModelType, NEW s, NEW t, NEW k, EntryIn(m, s, t, k), NEW e \in EntryType
  PROVE  BecomesEntry(m, PutEntry(m, s, t, k, e), s, t, k, e)
<1> DEFINE old == m.sections[s].items[t].entries
           new == [old EXCEPT ![k] = e]
           n == PutEntry(m, s, t, k, e)
           D == (DOMAIN old) \ {k}
           f == [j \in D |-> j]
<1>0. s \in Tables(m) /\ t \in DOMAIN m.sections[s].items /\ k \in DOMAIN old
  BY DEF EntryIn
<1>1. old \in Seq(EntryType) /\ DOMAIN old = 1 .. Len(old)
  BY <1>0, TableFields
<1>2. /\ new \in Seq(EntryType) /\ DOMAIN new = DOMAIN old /\ new[k] = e
      /\ Len(new) = Len(old) /\ \A j \in D : new[j] = old[j]
  <2> HIDE DEF old
  <2> QED BY <1>0, <1>1
<1>3. n = PutEntries(m, s, t, new)
  BY DEF PutEntries, PutEntry
<1>4. (\A j \in D : f[j] = j) /\ f = [j \in D |-> f[j]]
  OBVIOUS
<1> HIDE DEF new, f, n
<1>5. Shifts(old, new, D, f)
  <2> HIDE DEF old
  <2>1. D \subseteq DOMAIN new /\ f \in [D -> DOMAIN old]
    BY <1>2, <1>4
  <2> QED BY <1>2, <1>4, <2>1 DEF Shifts
<1>6. ShiftsEntries(m, n, s, t, new, D, f)
  <2> HIDE DEF D
  <2> QED BY <1>0, <1>2, <1>3, <1>5, EntriesShifted
<1>7. /\ n \in ModelType /\ Tables(n) = Tables(m)
      /\ DOMAIN n.sections = DOMAIN m.sections
      /\ DOMAIN n.sections[s].items = DOMAIN m.sections[s].items
      /\ n.sections[s].items[t].entries = new
  BY <1>6 DEF ShiftsEntries
<1>8. PICK F, G : /\ Carried(m, n, F, G) /\ NewUnknown(n, G) = {}
                  /\ \A p \in NewEntries(n, F) : p[1] = s /\ p[2] = t /\ p[3] \notin D
                  /\ \A q \in Lost(m, F) : q[1] = s /\ q[2] = t /\ \A j \in D : f[j] # q[3]
  BY <1>6 DEF ShiftsEntries, EntriesElsewhere
<1>9. ASSUME NEW p \in NewEntries(n, F) PROVE p = <<s, t, k>>
  <2>1. p[1] = s /\ p[2] = t /\ p[3] \notin D
    BY <1>8
  <2>2. EntryIn(n, p[1], p[2], p[3]) /\ p = <<p[1], p[2], p[3]>>
    BY EntriesAre DEF NewEntries
  <2>3. p[3] \in DOMAIN old
    BY <2>1, <2>2, <1>2, <1>7 DEF EntryIn
  <2>4. p[3] = k
    BY <2>1, <2>3
  <2> QED BY <2>1, <2>2, <2>4
<1>10. ASSUME NEW q \in Lost(m, F) PROVE q = <<s, t, k>>
  <2>1. q[1] = s /\ q[2] = t /\ \A j \in D : f[j] # q[3]
    BY <1>8
  <2>2. EntryIn(m, q[1], q[2], q[3]) /\ q = <<q[1], q[2], q[3]>>
    BY EntriesAre DEF Lost
  <2>3. q[3] \in DOMAIN old
    BY <2>1, <2>2 DEF EntryIn
  <2>4. q[3] = k
    BY <2>1, <2>3, <1>4
  <2> QED BY <2>1, <2>2, <2>4
<1>11. EntryIn(n, s, t, k)
  BY <1>0, <1>2, <1>7 DEF EntryIn
<1>12. EntryAt(n, <<s, t, k>>) = e
  BY <1>2, <1>7 DEF EntryAt
<1>13. Kept(m, n, {<<s, t, k>>}, {}, {<<s, t, k>>})
  BY <1>8, <1>9, <1>10 DEF Kept
<1> QED BY <1>2, <1>7, <1>11, <1>12, <1>13 DEF BecomesEntry, n

\* a table without entries is inserted at t, and everything else is kept
GetsNewTable(m, n, s, t, table) ==
  /\ n \in ModelType /\ Tables(n) = Tables(m)
  /\ DOMAIN n.sections = DOMAIN m.sections
  /\ n.sections[s].items = InsertAt(m.sections[s].items, t, table)
  /\ Len(n.sections[s].items) = Len(m.sections[s].items) + 1
  /\ t \in DOMAIN n.sections[s].items /\ n.sections[s].items[t] = table
  /\ Kept(m, n, {}, {}, {})

\* dimeTablesSection::insertTable() keeps every entry.
LEMMA TableInserted ==
  ASSUME NEW m \in ModelType, NEW s \in Tables(m),
         NEW t \in 1 .. Len(m.sections[s].items) + 1,
         NEW table \in TableType, table.entries = << >>
  PROVE  GetsNewTable(m, PutItems(m, s, InsertAt(m.sections[s].items, t, table)), s, t, table)
<1> SUFFICES ASSUME NEW n, n = PutItems(m, s, InsertAt(m.sections[s].items, t, table))
             PROVE  GetsNewTable(m, n, s, t, table)
  OBVIOUS
<1> DEFINE old == m.sections[s].items
           new == InsertAt(old, t, table)
<1>1. old \in Seq(TableType) /\ DOMAIN old = 1 .. Len(old)
  BY TableFields
<1>2. /\ new \in Seq(TableType) /\ t \in DOMAIN new /\ new[t] = table
      /\ Len(new) = Len(old) + 1 /\ \E D, f : Insertion(old, t, new, D, f)
  <2>0. t \in 1 .. Len(old) + 1
    OBVIOUS
  <2> HIDE DEF old
  <2>1. \E D, f : Insertion(old, t, new, D, f)
    BY <1>1, <2>0, InsertShifts
  <2>2. /\ new \in Seq(TableType) /\ DOMAIN new = 1 .. Len(old) + 1 /\ new[t] = table
        /\ Len(new) = Len(old) + 1
    BY <1>1, <2>0, InsertAtIs
  <2> HIDE DEF new
  <2> QED BY <2>0, <2>1, <2>2
<1> HIDE DEF new
<1>20. PICK D, f : Insertion(old, t, new, D, f)
  BY <1>2
<1>21. /\ D = (DOMAIN new) \ {t} /\ Shifts(old, new, D, f)
       /\ \A j \in DOMAIN old : \E i \in D : f[i] = j
  BY <1>20 DEF Insertion
<1>3. n = PutItems(m, s, new)
  BY DEF new
<1>4. ShiftsItems(m, n, s, new, D, f)
  BY <1>2, <1>21, ItemsShifted, <1>3
<1>5. /\ n \in ModelType /\ Tables(n) = Tables(m)
      /\ DOMAIN n.sections = DOMAIN m.sections
      /\ n.sections[s].items = new
  BY <1>4 DEF ShiftsItems
<1>6. PICK F, G : /\ Carried(m, n, F, G) /\ NewUnknown(n, G) = {}
                  /\ \A p \in NewEntries(n, F) : p[1] = s /\ p[2] \notin D
                  /\ \A q \in Lost(m, F) : q[1] = s /\ \A j \in D : f[j] # q[2]
  BY <1>4 DEF ShiftsItems, TablesElsewhere
<1>7. ASSUME NEW p \in NewEntries(n, F) PROVE FALSE
  <2>1. p[1] = s /\ p[2] \notin D
    BY <1>6
  <2>2. EntryIn(n, p[1], p[2], p[3])
    BY EntriesAre DEF NewEntries
  <2>3. p[2] \in DOMAIN new /\ p[3] \in DOMAIN new[p[2]].entries
    BY <2>1, <2>2, <1>5 DEF EntryIn
  <2>4. p[2] = t
    BY <2>1, <2>3, <1>21
  <2>5. DOMAIN table.entries = {}
    OBVIOUS
  <2> QED BY <2>3, <2>4, <2>5, <1>2
<1>8. ASSUME NEW q \in Lost(m, F) PROVE FALSE
  <2>1. q[1] = s /\ \A j \in D : f[j] # q[2]
    BY <1>6
  <2>2. EntryIn(m, q[1], q[2], q[3])
    BY EntriesAre DEF Lost
  <2>3. q[2] \in DOMAIN old
    BY <2>1, <2>2 DEF EntryIn
  <2> QED BY <2>1, <2>3, <1>21
<1>9. Kept(m, n, {}, {}, {})
  BY <1>6, <1>7, <1>8 DEF Kept
<1> QED BY <1>2, <1>5, <1>9 DEF new, GetsNewTable

\* the table at t is removed with its entries, and everything else is kept
LosesTable(m, n, s, t) ==
  n \in ModelType /\ Kept(m, n, {}, {}, {q \in Entries(m) : q[1] = s /\ q[2] = t})

\* dimeTablesSection::removeTable() keeps the entries of the other tables.
LEMMA TableRemoved ==
  ASSUME NEW m \in ModelType, NEW s \in Tables(m), NEW t \in DOMAIN m.sections[s].items
  PROVE  LosesTable(m, PutItems(m, s, RemoveAt(m.sections[s].items, t)), s, t)
<1> SUFFICES ASSUME NEW n, n = PutItems(m, s, RemoveAt(m.sections[s].items, t))
             PROVE  LosesTable(m, n, s, t)
  OBVIOUS
<1> DEFINE old == m.sections[s].items
           new == RemoveAt(old, t)
<1>1. old \in Seq(TableType) /\ DOMAIN old = 1 .. Len(old)
  BY TableFields
<1>2. new \in Seq(TableType) /\ \E D, f : Removal(old, t, new, D, f)
  <2>0. t \in 1 .. Len(old)
    BY <1>1
  <2> HIDE DEF old
  <2> QED BY <1>1, <2>0, RemoveShifts, RemoveAtIs
<1> HIDE DEF new
<1>20. PICK D, f : Removal(old, t, new, D, f)
  BY <1>2
<1>21. /\ D = DOMAIN new /\ Shifts(old, new, D, f)
       /\ \A j \in (DOMAIN old) \ {t} : \E i \in D : f[i] = j
  BY <1>20 DEF Removal
<1>3. n = PutItems(m, s, new)
  BY DEF new
<1>4. ShiftsItems(m, n, s, new, D, f)
  BY <1>2, <1>21, ItemsShifted, <1>3
<1>5. n \in ModelType /\ n.sections[s].items = new
  BY <1>4 DEF ShiftsItems
<1>6. PICK F, G : /\ Carried(m, n, F, G) /\ NewUnknown(n, G) = {}
                  /\ \A p \in NewEntries(n, F) : p[1] = s /\ p[2] \notin D
                  /\ \A q \in Lost(m, F) : q[1] = s /\ \A j \in D : f[j] # q[2]
  BY <1>4 DEF ShiftsItems, TablesElsewhere
<1>7. ASSUME NEW p \in NewEntries(n, F) PROVE FALSE
  <2>1. p[1] = s /\ p[2] \notin D
    BY <1>6
  <2>2. EntryIn(n, p[1], p[2], p[3])
    BY EntriesAre DEF NewEntries
  <2>3. p[2] \in DOMAIN new
    BY <2>1, <2>2, <1>5 DEF EntryIn
  <2> QED BY <2>1, <2>3, <1>21
<1>8. ASSUME NEW q \in Lost(m, F) PROVE q \in Entries(m) /\ q[1] = s /\ q[2] = t
  <2>1. q[1] = s /\ \A j \in D : f[j] # q[2]
    BY <1>6
  <2>2. q \in Entries(m) /\ EntryIn(m, q[1], q[2], q[3])
    BY EntriesAre DEF Lost
  <2>3. q[2] \in DOMAIN old
    BY <2>1, <2>2 DEF EntryIn
  <2>4. q[2] = t
    BY <2>1, <2>3, <1>21
  <2> QED BY <2>1, <2>2, <2>4
<1> QED BY <1>5, <1>6, <1>7, <1>8 DEF Kept, LosesTable

\* a section without entries, layers and handles is inserted, and everything else is kept
GetsSection(m, n, s, x) ==
  /\ n \in ModelType /\ Len(n.sections) = Len(m.sections) + 1
  /\ s \in DOMAIN n.sections /\ n.sections[s] = x
  /\ Kept(m, n, {p \in Entries(n) : p[1] = s}, {s}, {})

\* dimeModel::insertSection() keeps what the other sections have.
LEMMA SectionInserted ==
  ASSUME NEW m \in ModelType, NEW s \in 1 .. Len(m.sections) + 1, NEW x \in AnySection
  PROVE  GetsSection(m, PutSections(m, InsertAt(m.sections, s, x)), s, x)
<1> SUFFICES ASSUME NEW n, n = PutSections(m, InsertAt(m.sections, s, x))
             PROVE  GetsSection(m, n, s, x)
  OBVIOUS
<1> DEFINE old == m.sections
           new == InsertAt(old, s, x)
<1>1. old \in Seq(AnySection) /\ DOMAIN old = 1 .. Len(old)
  BY ModelFields
<1>2. /\ new \in Seq(AnySection) /\ s \in DOMAIN new /\ new[s] = x
      /\ Len(new) = Len(old) + 1 /\ \E D, f : Insertion(old, s, new, D, f)
  <2>0. s \in 1 .. Len(old) + 1
    OBVIOUS
  <2> HIDE DEF old
  <2>1. \E D, f : Insertion(old, s, new, D, f)
    BY <1>1, <2>0, InsertShifts
  <2>2. /\ new \in Seq(AnySection) /\ DOMAIN new = 1 .. Len(old) + 1 /\ new[s] = x
        /\ Len(new) = Len(old) + 1
    BY <1>1, <2>0, InsertAtIs
  <2> HIDE DEF new
  <2> QED BY <2>0, <2>1, <2>2
<1> HIDE DEF new
<1>20. PICK D, f : Insertion(old, s, new, D, f)
  BY <1>2
<1>21. /\ D = (DOMAIN new) \ {s} /\ Shifts(old, new, D, f)
       /\ \A j \in DOMAIN old : \E i \in D : f[i] = j
  BY <1>20 DEF Insertion
<1>3. n = PutSections(m, new)
  BY DEF new
<1>4. n \in ModelType /\ n.sections = new
  BY <1>2, <1>3, PutSectionsIs
<1>5. PICK F, G : /\ Carried(m, n, F, G)
                  /\ \A p \in NewEntries(n, F) : p[1] \notin D
                  /\ \A r \in NewUnknown(n, G) : r \notin D
                  /\ \A q \in Lost(m, F) : \A j \in D : f[j] # q[1]
  <2>1. \E F, G : SectionsElsewhere(m, PutSections(m, new), D, f, F, G)
    BY <1>2, <1>21, SectionsCarried
  <2> QED BY <2>1, <1>3 DEF SectionsElsewhere
<1>6. ASSUME NEW p \in NewEntries(n, F) PROVE p \in Entries(n) /\ p[1] = s
  <2>1. p \in Entries(n) /\ EntryIn(n, p[1], p[2], p[3])
    BY EntriesAre DEF NewEntries
  <2>2. p[1] \in DOMAIN new
    BY <2>1, <1>4 DEF EntryIn, Tables
  <2> QED BY <2>1, <2>2, <1>5, <1>21
<1>7. ASSUME NEW r \in NewUnknown(n, G) PROVE r = s
  BY <1>4, <1>5, <1>21 DEF NewUnknown, Unknown
<1>8. ASSUME NEW q \in Lost(m, F) PROVE FALSE
  <2>1. EntryIn(m, q[1], q[2], q[3])
    BY EntriesAre DEF Lost
  <2>2. q[1] \in DOMAIN old
    BY <2>1 DEF EntryIn, Tables
  <2> QED BY <2>2, <1>5, <1>21
<1>9. Kept(m, n, {p \in Entries(n) : p[1] = s}, {s}, {})
  BY <1>5, <1>6, <1>7, <1>8 DEF Kept
<1> QED BY <1>2, <1>4, <1>9 DEF GetsSection

\* a section is removed, and everything else is kept
LosesSection(m, n, s) ==
  n \in ModelType /\ Kept(m, n, {}, {}, {q \in Entries(m) : q[1] = s})

\* dimeModel::removeSection() keeps what the other sections have.
LEMMA SectionRemoved ==
  ASSUME NEW m \in ModelType, NEW s \in DOMAIN m.sections
  PROVE  LosesSection(m, PutSections(m, RemoveAt(m.sections, s)), s)
<1> SUFFICES ASSUME NEW n, n = PutSections(m, RemoveAt(m.sections, s))
             PROVE  LosesSection(m, n, s)
  OBVIOUS
<1> DEFINE old == m.sections
           new == RemoveAt(old, s)
<1>1. old \in Seq(AnySection) /\ DOMAIN old = 1 .. Len(old)
  BY ModelFields
<1>2. new \in Seq(AnySection) /\ \E D, f : Removal(old, s, new, D, f)
  <2>0. s \in 1 .. Len(old)
    BY <1>1
  <2> HIDE DEF old
  <2> QED BY <1>1, <2>0, RemoveShifts, RemoveAtIs
<1> HIDE DEF new
<1>20. PICK D, f : Removal(old, s, new, D, f)
  BY <1>2
<1>21. /\ D = DOMAIN new /\ Shifts(old, new, D, f)
       /\ \A j \in (DOMAIN old) \ {s} : \E i \in D : f[i] = j
  BY <1>20 DEF Removal
<1>3. n = PutSections(m, new)
  BY DEF new
<1>4. n \in ModelType /\ n.sections = new
  BY <1>2, <1>3, PutSectionsIs
<1>5. PICK F, G : /\ Carried(m, n, F, G)
                  /\ \A p \in NewEntries(n, F) : p[1] \notin D
                  /\ \A r \in NewUnknown(n, G) : r \notin D
                  /\ \A q \in Lost(m, F) : \A j \in D : f[j] # q[1]
  <2>1. \E F, G : SectionsElsewhere(m, PutSections(m, new), D, f, F, G)
    BY <1>2, <1>21, SectionsCarried
  <2> QED BY <2>1, <1>3 DEF SectionsElsewhere
<1>6. ASSUME NEW p \in NewEntries(n, F) PROVE FALSE
  <2>1. EntryIn(n, p[1], p[2], p[3])
    BY EntriesAre DEF NewEntries
  <2>2. p[1] \in DOMAIN new
    BY <2>1, <1>4 DEF EntryIn, Tables
  <2> QED BY <2>2, <1>5, <1>21
<1>7. ASSUME NEW r \in NewUnknown(n, G) PROVE FALSE
  BY <1>4, <1>5, <1>21 DEF NewUnknown, Unknown
<1>8. ASSUME NEW q \in Lost(m, F) PROVE q \in Entries(m) /\ q[1] = s
  <2>1. q \in Entries(m) /\ EntryIn(m, q[1], q[2], q[3])
    BY EntriesAre DEF Lost
  <2>2. q[1] \in DOMAIN old
    BY <2>1 DEF EntryIn, Tables
  <2> QED BY <2>1, <2>2, <1>5, <1>21
<1> QED BY <1>4, <1>5, <1>6, <1>7, <1>8 DEF Kept, LosesSection

-----------------------------------------------------------------------------
(* Layers.                                                                  *)

\* The dictionary knows the layers, each by its name, and nothing else.
LayersKnown(m) ==
  /\ DictOK(m.layerDict, Nat)
  /\ \A i \in DOMAIN m.layers :
       Has(m.layerDict, m.layers[i].name) /\ Find(m.layerDict, m.layers[i].name) = i
  /\ \A key \in Keys : Has(m.layerDict, key) =>
       /\ Find(m.layerDict, key) \in DOMAIN m.layers
       /\ m.layers[Find(m.layerDict, key)].name = key

\* An entry that is registered has the name of its layer; one that is alone in
\* that has its color; and a layer nobody has touched has such an entry.
EntryKnown(m, p) ==
  EntryAt(m, p).info # 0 =>
    /\ EntryAt(m, p).table = "LAYER" /\ EntryAt(m, p).info \in DOMAIN m.layers
    /\ m.layers[EntryAt(m, p).info].name = EntryAt(m, p).name
\* no other entry has registered the layer of p
Alone(m, p) == \A q \in Entries(m) : EntryAt(m, q).info = EntryAt(m, p).info => q = p
\* a layer has the color of its entry, unless the two were touched
Colored(m, p, names) ==
  EntryAt(m, p).info # 0 /\ EntryAt(m, p).name \notin names /\ Alone(m, p) =>
    m.layers[EntryAt(m, p).info].color = Abs(EntryAt(m, p).color)
\* layer i may differ from what its entry says
Claimed(m, i, names) ==
  m.layers[i].name \in names \/ \E p \in Entries(m) : EntryAt(m, p).info = i

\* What is said of layers, for all of them and all the entries.
LayersIn(m, names) ==
  /\ LayersKnown(m)
  /\ \A p \in Entries(m) : EntryKnown(m, p) /\ Colored(m, p, names)
  /\ \A i \in DOMAIN m.layers : Claimed(m, i, names)

\* a layer's entry that is new is not registered, and one that is gone was not
\* or has touched its layer
LEMMA LayersCarried ==
  ASSUME NEW m \in ModelType, NEW n, NEW names, NEW more, LayersIn(m, names),
         NEW New, NEW Unk, NEW Gone, Kept(m, n, New, Unk, Gone), names \subseteq more,
         \A p \in New : p \in Entries(n) => EntryAt(n, p).info = 0,
         \A q \in Gone : EntryAt(m, q).info # 0 => EntryAt(m, q).name \in more
  PROVE  LayersIn(n, more)
<1>1. PICK F, G : /\ Carried(m, n, F, G) /\ NewEntries(n, F) \subseteq New
                  /\ Lost(m, F) \subseteq Gone
  BY DEF Kept
<1>2. /\ n.layers = m.layers /\ n.layerDict = m.layerDict
      /\ DOMAIN F \subseteq Entries(n)
      /\ \A p \in DOMAIN F : F[p] \in Entries(m) /\ EntryAt(n, p) = EntryAt(m, F[p])
      /\ \A p, q \in DOMAIN F : F[p] = F[q] => p = q
  BY <1>1 DEF Carried
<1>3. \A p \in Entries(n) : p \notin DOMAIN F => EntryAt(n, p).info = 0
  BY <1>1 DEF NewEntries
<1>4. \A q \in Entries(m) :
        \/ \E r \in DOMAIN F : F[r] = q
        \/ EntryAt(m, q).info = 0 \/ EntryAt(m, q).name \in more
  BY <1>1 DEF Lost
<1>5. \A p \in Entries(m) : EntryKnown(m, p) /\ Colored(m, p, names)
  BY DEF LayersIn
<1>6. LayersKnown(n)
  BY <1>2 DEF LayersIn, LayersKnown
<1>7. ASSUME NEW p \in Entries(n) PROVE EntryKnown(n, p)
  BY <1>2, <1>3, <1>5 DEF EntryKnown
<1>8. ASSUME NEW p \in Entries(n) PROVE Colored(n, p, more)
  <2>1. SUFFICES ASSUME EntryAt(n, p).info # 0, EntryAt(n, p).name \notin more, Alone(n, p)
                 PROVE  n.layers[EntryAt(n, p).info].color = Abs(EntryAt(n, p).color)
    BY DEF Colored
  <2>2. p \in DOMAIN F
    BY <2>1, <1>3
  <2>3. F[p] \in Entries(m) /\ EntryAt(m, F[p]) = EntryAt(n, p)
    BY <2>2, <1>2
  <2>4. ASSUME NEW q \in Entries(m), EntryAt(m, q).info = EntryAt(m, F[p]).info
        PROVE  q = F[p]
    <3>1. EntryAt(m, q).name = EntryAt(m, F[p]).name
      BY <2>1, <2>3, <2>4, <1>5 DEF EntryKnown
    <3>2. PICK r \in DOMAIN F : F[r] = q
      BY <3>1, <2>1, <2>3, <2>4, <1>4
    <3>3. r \in Entries(n) /\ EntryAt(n, r).info = EntryAt(n, p).info
      BY <3>2, <2>3, <2>4, <1>2
    <3>4. r = p
      BY <3>3, <2>1 DEF Alone
    <3> QED BY <3>2, <3>4
  <2>5. Alone(m, F[p])
    BY <2>4 DEF Alone
  <2>6. m.layers[EntryAt(m, F[p]).info].color = Abs(EntryAt(m, F[p]).color)
    BY <2>1, <2>3, <2>5, <1>5 DEF Colored
  <2> QED BY <2>3, <2>6, <1>2
<1>9. ASSUME NEW i \in DOMAIN n.layers PROVE Claimed(n, i, more)
  <2>1. i \in DOMAIN m.layers /\ i # 0
    BY <1>2, ModelFields
  <2>2. Claimed(m, i, names)
    BY <2>1 DEF LayersIn
  <2>3. CASE m.layers[i].name \in names
    BY <2>3, <1>2 DEF Claimed
  <2>4. CASE \E q \in Entries(m) : EntryAt(m, q).info = i
    <3>1. PICK q \in Entries(m) : EntryAt(m, q).info = i
      BY <2>4
    <3>2. EntryAt(m, q).name = m.layers[i].name
      BY <3>1, <2>1, <1>5 DEF EntryKnown
    <3>3. CASE EntryAt(m, q).name \in more
      BY <3>2, <3>3, <1>2 DEF Claimed
    <3>4. CASE \E r \in DOMAIN F : F[r] = q
      <4>1. PICK r \in DOMAIN F : F[r] = q
        BY <3>4
      <4>2. r \in Entries(n) /\ EntryAt(n, r).info = i
        BY <4>1, <3>1, <1>2
      <4> QED BY <4>2 DEF Claimed
    <3> QED BY <3>1, <3>3, <3>4, <2>1, <1>4
  <2> QED BY <2>2, <2>3, <2>4 DEF Claimed
<1> QED BY <1>6, <1>7, <1>8, <1>9 DEF LayersIn

\* addLayer() of a new name, and of one that is known
LEMMA LayerAdded ==
  ASSUME NEW m \in ModelType, LayersKnown(m), NEW name \in Keys, NEW color \in Int,
         NEW x, x = AddLayer(m, name, color)
  PROVE  /\ x \in ModelType /\ LayersKnown(x) /\ x.sections = m.sections
         /\ x.largest = m.largest
         /\ LayerNum(x, name) \in DOMAIN x.layers /\ LayerNum(x, name) # 0
         /\ x.layers[LayerNum(x, name)].name = name
         /\ Has(m.layerDict, name) => x = m
         /\ ~ Has(m.layerDict, name) =>
              /\ LayerNum(x, name) = Len(m.layers) + 1
              /\ x.layers[LayerNum(x, name)].color = color
              /\ DOMAIN x.layers = 1 .. Len(m.layers) + 1
         /\ \A i \in DOMAIN m.layers : i \in DOMAIN x.layers /\ x.layers[i] = m.layers[i]
<1>0. /\ m.layers \in Seq(LayerType) /\ Len(m.layers) \in Nat
      /\ DOMAIN m.layers = 1 .. Len(m.layers)
      /\ m.layerDict \in [Buckets -> Seq([key : Keys, value : Nat])]
      /\ \A i \in DOMAIN m.layers : m.layers[i] \in LayerType
  BY ModelFields
<1>1. CASE Has(m.layerDict, name)
  <2>1. x = m
    BY <1>1 DEF AddLayer
  <2>2. /\ LayerNum(m, name) = Find(m.layerDict, name)
        /\ LayerNum(m, name) \in DOMAIN m.layers
        /\ m.layers[LayerNum(m, name)].name = name
    BY <1>1 DEF LayersKnown, LayerNum
  <2>3. LayerNum(m, name) # 0
    BY <2>2, <1>0
  <2> QED BY <1>1, <2>1, <2>2, <2>3
<1>2. CASE ~ Has(m.layerDict, name)
  <2> DEFINE l == [name |-> name, color |-> color]
             n == Len(m.layers)
             layers == Append(m.layers, l)
             dict == Enter(m.layerDict, name, n + 1)
  <2>1. x = [m EXCEPT !.layers = layers, !.layerDict = dict]
    BY <1>2 DEF AddLayer
  <2>2. l \in LayerType /\ l.name = name /\ l.color = color
    BY DEF LayerType
  <2> HIDE DEF l
  <2>3. /\ layers \in Seq(LayerType) /\ DOMAIN layers = 1 .. n + 1 /\ layers[n + 1] = l
        /\ \A i \in 1 .. n : layers[i] = m.layers[i]
    <3> DEFINE old == m.layers
    <3>1. old \in Seq(LayerType)
      BY <1>0
    <3> HIDE DEF old
    <3>2. /\ Append(old, l) \in Seq(LayerType)
          /\ DOMAIN Append(old, l) = 1 .. Len(old) + 1
          /\ Append(old, l)[Len(old) + 1] = l
          /\ \A i \in 1 .. Len(old) : Append(old, l)[i] = old[i]
      BY <3>1, <2>2
    <3> QED BY <3>2 DEF old
  <2>4. n \in Nat /\ n + 1 \in Nat
    BY <1>0
  <2>5. DictOK(m.layerDict, Nat)
    BY DEF LayersKnown
  <2>6. /\ DictOK(dict, Nat) /\ Has(dict, name) /\ Find(dict, name) = n + 1
        /\ \A y \in Keys \ {name} :
             /\ Has(dict, y) <=> Has(m.layerDict, y)
             /\ Has(m.layerDict, y) => Find(dict, y) = Find(m.layerDict, y)
    <3> HIDE DEF n
    <3> QED BY <2>4, <2>5, EnterStores
  <2> HIDE DEF layers, dict
  <2>7. dict \in [Buckets -> Seq([key : Keys, value : Nat])]
    BY <2>6 DEF DictOK
  <2>8. /\ x \in ModelType /\ x.layers = layers /\ x.layerDict = dict
        /\ x.sections = m.sections /\ x.largest = m.largest
    BY <2>1, <2>3, <2>7 DEF ModelType
  <2>9. \A i \in 1 .. n : m.layers[i].name \in Keys \ {name}
    <3>1. \A i \in 1 .. n : m.layers[i].name \in Keys
      BY <1>0 DEF LayerType
    <3>2. \A i \in 1 .. n : Has(m.layerDict, m.layers[i].name)
      BY <1>0 DEF LayersKnown
    <3> QED BY <3>1, <3>2, <1>2
  <2>10. ASSUME NEW i \in 1 .. n + 1
         PROVE  Has(dict, layers[i].name) /\ Find(dict, layers[i].name) = i
    <3>1. CASE i = n + 1
      BY <3>1, <2>2, <2>3, <2>6
    <3>2. CASE i # n + 1
      <4>1. i \in 1 .. n
        BY <3>2, <2>4
      <4>2. layers[i] = m.layers[i] /\ m.layers[i].name \in Keys \ {name}
        BY <4>1, <2>3, <2>9
      <4>3. Has(m.layerDict, m.layers[i].name) /\ Find(m.layerDict, m.layers[i].name) = i
        BY <4>1, <1>0 DEF LayersKnown
      <4> QED BY <4>2, <4>3, <2>6
    <3> QED BY <3>1, <3>2
  <2>11. ASSUME NEW key \in Keys, Has(dict, key)
         PROVE  Find(dict, key) \in 1 .. n + 1 /\ layers[Find(dict, key)].name = key
    <3>1. CASE key = name
      BY <3>1, <2>4, <2>6, <2>2, <2>3
    <3>2. CASE key # name
      <4>1. Has(m.layerDict, key) /\ Find(dict, key) = Find(m.layerDict, key)
        BY <3>2, <2>6, <2>11
      <4>2. /\ Find(m.layerDict, key) \in 1 .. n
            /\ m.layers[Find(m.layerDict, key)].name = key
        BY <4>1, <1>0 DEF LayersKnown
      <4> QED BY <4>1, <4>2, <2>3, <2>4
    <3> QED BY <3>1, <3>2
  <2>12. LayersKnown(x)
    BY <2>3, <2>6, <2>8, <2>10, <2>11 DEF LayersKnown
  <2>13. LayerNum(x, name) = n + 1
    BY <2>6, <2>8 DEF LayerNum
  <2>14. n + 1 \in 1 .. n + 1 /\ n + 1 # 0 /\ \A i \in 1 .. n : i \in 1 .. n + 1
    BY <2>4
  <2> QED BY <1>0, <1>2, <2>2, <2>3, <2>8, <2>12, <2>13, <2>14
<1> QED BY <1>1, <1>2

\* Sections are all that the entries and the handles depend on.
LEMMA SameSections ==
  ASSUME NEW m, NEW x, x.sections = m.sections
  PROVE  /\ Entries(x) = Entries(m) /\ Tables(x) = Tables(m) /\ Unknown(x) = Unknown(m)
         /\ \A p : EntryAt(x, p) = EntryAt(m, p)
<1>1. Tables(x) = Tables(m) /\ Unknown(x) = Unknown(m) /\ \A p : EntryAt(x, p) = EntryAt(m, p)
  BY DEF Tables, Unknown, EntryAt
<1>2. Entries(x) = Entries(m)
  BY <1>1 DEF Entries
<1> QED BY <1>1, <1>2

\* the entry at p has registered its layer
LEMMA LayersRegistered ==
  ASSUME NEW m \in ModelType, NEW names, LayersIn(m, names), NEW name \in Keys,
         NEW color \in Int, NEW x, x = AddLayer(m, name, Abs(color)),
         NEW n, NEW p, NEW Unk, NEW Gone, Kept(x, n, {p}, Unk, Gone),
         p \in Entries(n), EntryAt(n, p).table = "LAYER", EntryAt(n, p).name = name,
         EntryAt(n, p).color = color, EntryAt(n, p).info = LayerNum(x, name),
         \A q \in Gone : EntryAt(m, q).info # 0 => EntryAt(m, q).name \in names
  PROVE  LayersIn(n, names)
<1> DEFINE i == LayerNum(x, name)
<1>1. /\ x \in ModelType /\ LayersKnown(x) /\ x.sections = m.sections
      /\ i \in DOMAIN x.layers /\ i # 0
      /\ x.layers[i].name = name
      /\ Has(m.layerDict, name) => x = m
      /\ ~ Has(m.layerDict, name) =>
           /\ i = Len(m.layers) + 1 /\ x.layers[i].color = Abs(color)
           /\ DOMAIN x.layers = 1 .. Len(m.layers) + 1
      /\ \A j \in DOMAIN m.layers : j \in DOMAIN x.layers /\ x.layers[j] = m.layers[j]
  <2>1. LayersKnown(m)
    BY DEF LayersIn
  <2>2. Abs(color) \in Int
    BY DEF Abs
  <2> QED BY <2>1, <2>2, LayerAdded
<1>2. Entries(x) = Entries(m) /\ \A q : EntryAt(x, q) = EntryAt(m, q)
  BY <1>1, SameSections
<1> HIDE DEF i
<1>3. EntryAt(n, p).info = i
  BY DEF i
<1>4. PICK F, G : /\ Carried(x, n, F, G) /\ NewEntries(n, F) \subseteq {p}
                  /\ Lost(x, F) \subseteq Gone
  BY DEF Kept
<1>5. /\ n.layers = x.layers /\ n.layerDict = x.layerDict
      /\ DOMAIN F \subseteq Entries(n)
      /\ \A q \in DOMAIN F : F[q] \in Entries(m) /\ EntryAt(n, q) = EntryAt(m, F[q])
      /\ \A q, r \in DOMAIN F : F[q] = F[r] => q = r
  BY <1>2, <1>4 DEF Carried
<1>6. \A q \in Entries(n) : q \in DOMAIN F \/ q = p
  BY <1>4 DEF NewEntries
<1>7. \A q \in Entries(m) :
        \/ \E r \in DOMAIN F : F[r] = q
        \/ EntryAt(m, q).info = 0 \/ EntryAt(m, q).name \in names
  BY <1>2, <1>4 DEF Lost
<1>8. \A q \in Entries(m) : EntryKnown(m, q) /\ Colored(m, q, names)
  BY DEF LayersIn
<1>9. LayersKnown(n)
  BY <1>1, <1>5 DEF LayersKnown
<1>10. EntryKnown(n, p)
  BY <1>1, <1>3, <1>5 DEF EntryKnown
<1>11. ASSUME NEW q \in DOMAIN F PROVE EntryKnown(n, q)
  BY <1>5, <1>8, <1>1 DEF EntryKnown
<1>12. ASSUME NEW q \in DOMAIN F PROVE Colored(n, q, names)
  <2>1. SUFFICES ASSUME EntryAt(n, q).info # 0, EntryAt(n, q).name \notin names, Alone(n, q)
                 PROVE  n.layers[EntryAt(n, q).info].color = Abs(EntryAt(n, q).color)
    BY DEF Colored
  <2>2. F[q] \in Entries(m) /\ EntryAt(m, F[q]) = EntryAt(n, q)
    BY <1>5
  <2>3. ASSUME NEW r \in Entries(m), EntryAt(m, r).info = EntryAt(m, F[q]).info
        PROVE  r = F[q]
    <3>1. EntryAt(m, r).name = EntryAt(m, F[q]).name
      BY <2>1, <2>2, <2>3, <1>8 DEF EntryKnown
    <3>2. PICK u \in DOMAIN F : F[u] = r
      BY <3>1, <2>1, <2>2, <2>3, <1>7
    <3>3. u \in Entries(n) /\ EntryAt(n, u).info = EntryAt(n, q).info
      BY <3>2, <2>2, <2>3, <1>5
    <3>4. u = q
      BY <3>3, <2>1 DEF Alone
    <3> QED BY <3>2, <3>4
  <2>4. Alone(m, F[q])
    BY <2>3 DEF Alone
  <2>5. m.layers[EntryAt(m, F[q]).info].color = Abs(EntryAt(m, F[q]).color)
    BY <2>1, <2>2, <2>4, <1>8 DEF Colored
  <2>6. EntryAt(m, F[q]).info \in DOMAIN m.layers
    BY <2>1, <2>2, <1>8 DEF EntryKnown
  <2> QED BY <2>2, <2>5, <2>6, <1>1, <1>5
\* a layer that was there has an entry, or was touched
<1>13. ASSUME NEW j \in DOMAIN m.layers
       PROVE  \/ m.layers[j].name \in names
              \/ \E r \in DOMAIN F : EntryAt(n, r).info = j
  <2>1. Claimed(m, j, names) /\ j # 0
    BY ModelFields DEF LayersIn
  <2>2. SUFFICES ASSUME NEW q \in Entries(m), EntryAt(m, q).info = j
                 PROVE  \/ m.layers[j].name \in names
                        \/ \E r \in DOMAIN F : EntryAt(n, r).info = j
    BY <2>1 DEF Claimed
  <2>3. EntryAt(m, q).name = m.layers[j].name
    BY <2>1, <2>2, <1>8 DEF EntryKnown
  <2>4. CASE EntryAt(m, q).name \in names
    BY <2>3, <2>4
  <2>5. CASE \E r \in DOMAIN F : F[r] = q
    BY <2>2, <2>5, <1>5
  <2> QED BY <2>1, <2>2, <2>4, <2>5, <1>7
<1>14. Colored(n, p, names)
  <2>1. CASE p \in DOMAIN F
    BY <2>1, <1>12
  <2>2. CASE p \notin DOMAIN F /\ ~ Has(m.layerDict, name)
    BY <2>2, <1>1, <1>3, <1>5 DEF Colored
  <2>3. CASE p \notin DOMAIN F /\ Has(m.layerDict, name)
    <3>1. SUFFICES ASSUME name \notin names, Alone(n, p) PROVE FALSE
      BY DEF Colored
    <3>2. i \in DOMAIN m.layers /\ m.layers[i].name = name
      BY <2>3, <1>1
    <3>3. PICK r \in DOMAIN F : EntryAt(n, r).info = i
      BY <3>1, <3>2, <1>13
    <3>4. r \in Entries(n)
      BY <1>5
    <3>5. r = p
      BY <3>1, <3>3, <3>4, <1>3 DEF Alone
    <3> QED BY <3>5, <2>3
  <2> QED BY <2>1, <2>2, <2>3
<1>15. ASSUME NEW j \in DOMAIN n.layers PROVE Claimed(n, j, names)
  <2>1. CASE j = i
    BY <2>1, <1>3 DEF Claimed
  <2>2. CASE j # i
    <3>1. j \in DOMAIN m.layers
      <4>1. CASE Has(m.layerDict, name)
        BY <4>1, <1>1, <1>5
      <4>2. CASE ~ Has(m.layerDict, name)
        <5>1. j \in 1 .. Len(m.layers) + 1 /\ j # Len(m.layers) + 1
          BY <4>2, <2>2, <1>1, <1>5
        <5>2. DOMAIN m.layers = 1 .. Len(m.layers) /\ Len(m.layers) \in Nat
          BY ModelFields
        <5> QED BY <5>1, <5>2
      <4> QED BY <4>1, <4>2
    <3>2. n.layers[j] = m.layers[j]
      BY <3>1, <1>1, <1>5
    <3>3. CASE m.layers[j].name \in names
      BY <3>2, <3>3 DEF Claimed
    <3>4. CASE \E r \in DOMAIN F : EntryAt(n, r).info = j
      BY <3>4, <1>5 DEF Claimed
    <3> QED BY <3>1, <3>3, <3>4, <1>13
  <2> QED BY <2>1, <2>2
<1>16. \A q \in Entries(n) : EntryKnown(n, q) /\ Colored(n, q, names)
  BY <1>6, <1>10, <1>11, <1>12, <1>14
<1> QED BY <1>9, <1>15, <1>16 DEF LayersIn

\* a layer that an entity uses
LEMMA LayersUsed ==
  ASSUME NEW m \in ModelType, NEW names, LayersIn(m, names), NEW name \in Keys,
         NEW color \in Int, NEW x, x = AddLayer(m, name, color),
         NEW more, more = IF Has(m.layerDict, name) THEN names ELSE names \cup {name}
  PROVE  x \in ModelType /\ LayersIn(x, more)
<1>1. LayersKnown(m)
  BY DEF LayersIn
<1>2. /\ x \in ModelType /\ LayersKnown(x) /\ x.sections = m.sections
      /\ x.layers[LayerNum(x, name)].name = name
      /\ Has(m.layerDict, name) => x = m
      /\ ~ Has(m.layerDict, name) =>
           /\ LayerNum(x, name) = Len(m.layers) + 1
           /\ DOMAIN x.layers = 1 .. Len(m.layers) + 1
      /\ \A j \in DOMAIN m.layers : j \in DOMAIN x.layers /\ x.layers[j] = m.layers[j]
  BY <1>1, LayerAdded
<1>3. CASE Has(m.layerDict, name)
  BY <1>2, <1>3
<1>4. CASE ~ Has(m.layerDict, name)
  <2>1. Entries(x) = Entries(m) /\ \A q : EntryAt(x, q) = EntryAt(m, q)
    BY <1>2, SameSections
  <2>2. ASSUME NEW p \in Entries(x) PROVE EntryKnown(x, p) /\ Colored(x, p, more)
    <3>1. EntryKnown(m, p) /\ Colored(m, p, names)
      BY <2>1 DEF LayersIn
    <3>2. EntryKnown(x, p)
      BY <3>1, <2>1, <1>2 DEF EntryKnown
    <3>3. Alone(x, p) => Alone(m, p)
      BY <2>1 DEF Alone
    <3>4. Colored(x, p, more)
      BY <3>1, <3>3, <2>1, <1>2, <1>4 DEF EntryKnown, Colored
    <3> QED BY <3>2, <3>4
  <2>3. ASSUME NEW j \in DOMAIN x.layers PROVE Claimed(x, j, more)
    <3>1. DOMAIN m.layers = 1 .. Len(m.layers) /\ Len(m.layers) \in Nat
      BY ModelFields
    <3>2. CASE j = Len(m.layers) + 1
      BY <3>2, <1>2, <1>4 DEF Claimed
    <3>3. CASE j # Len(m.layers) + 1
      <4>1. j \in DOMAIN m.layers
        BY <3>1, <3>3, <1>2, <1>4
      <4>2. Claimed(m, j, names)
        BY <4>1 DEF LayersIn
      <4> QED BY <4>1, <4>2, <2>1, <1>2, <1>4 DEF Claimed
    <3> QED BY <3>2, <3>3
  <2> QED BY <2>2, <2>3, <1>2 DEF LayersIn
<1> QED BY <1>3, <1>4

-----------------------------------------------------------------------------
(* Handles.                                                                 *)

\* record i of an entry, or of an unknown section, has the handle h
EntryHandle(m, p, i, h) ==
  /\ p \in Entries(m) /\ i \in DOMAIN EntryAt(m, p).recs
  /\ EntryAt(m, p).recs[i].code = 5 /\ EntryAt(m, p).recs[i].num = h
\* the same for the records of an unknown section
SectionHandle(m, s, i, h) ==
  /\ s \in Unknown(m) /\ i \in DOMAIN m.sections[s].recs
  /\ m.sections[s].recs[i].code = 5 /\ m.sections[s].recs[i].num = h

\* No handle is above the largest, and those that were given are in one place only.
HandlesIn(m, ids) ==
  /\ ids \subseteq 1 .. m.largest
  /\ \A p, i, h : EntryHandle(m, p, i, h) => h \in Int /\ h <= m.largest
  /\ \A s, i, h : SectionHandle(m, s, i, h) => h \in Int /\ h <= m.largest
  /\ \A p, q, i, j, h :
       h \in ids /\ EntryHandle(m, p, i, h) /\ EntryHandle(m, q, j, h) => p = q /\ i = j
  /\ \A s, r, i, j, h :
       h \in ids /\ SectionHandle(m, s, i, h) /\ SectionHandle(m, r, j, h) => s = r /\ i = j
  /\ \A p, s, i, j, h :
       h \in ids => ~ (EntryHandle(m, p, i, h) /\ SectionHandle(m, s, j, h))

\* Handles stay unique when the entries and the unknown sections move.
LEMMA HandlesCarried ==
  ASSUME NEW m, NEW n, NEW ids, HandlesIn(m, ids),
         NEW New, NEW Unk, NEW Gone, Kept(m, n, New, Unk, Gone),
         \A p \in New : \A i, h : ~ EntryHandle(n, p, i, h),
         \A s \in Unk : \A i, h : ~ SectionHandle(n, s, i, h)
  PROVE  HandlesIn(n, ids)
<1>1. PICK F, G : /\ Carried(m, n, F, G) /\ NewEntries(n, F) \subseteq New
                  /\ NewUnknown(n, G) \subseteq Unk
  BY DEF Kept
<1>2. /\ n.largest = m.largest
      /\ \A p \in DOMAIN F : F[p] \in Entries(m) /\ EntryAt(n, p) = EntryAt(m, F[p])
      /\ \A s \in DOMAIN G : G[s] \in Unknown(m) /\ n.sections[s].recs = m.sections[G[s]].recs
      /\ \A p, q \in DOMAIN F : F[p] = F[q] => p = q
      /\ \A s, r \in DOMAIN G : G[s] = G[r] => s = r
  BY <1>1 DEF Carried
<1>3. ASSUME NEW p, NEW i, NEW h, EntryHandle(n, p, i, h)
      PROVE  p \in DOMAIN F /\ EntryHandle(m, F[p], i, h)
  <2>1. p \in Entries(n) /\ p \notin New
    BY <1>3 DEF EntryHandle
  <2>2. p \in DOMAIN F
    BY <2>1, <1>1 DEF NewEntries
  <2> QED BY <2>2, <1>2, <1>3 DEF EntryHandle
<1>4. ASSUME NEW s, NEW i, NEW h, SectionHandle(n, s, i, h)
      PROVE  s \in DOMAIN G /\ SectionHandle(m, G[s], i, h)
  <2>1. s \in Unknown(n) /\ s \notin Unk
    BY <1>4 DEF SectionHandle
  <2>2. s \in DOMAIN G
    BY <2>1, <1>1 DEF NewUnknown
  <2> QED BY <2>2, <1>2, <1>4 DEF SectionHandle
<1>5. ids \subseteq 1 .. n.largest
  BY <1>2 DEF HandlesIn
<1>6. \A p, i, h : EntryHandle(n, p, i, h) => h \in Int /\ h <= n.largest
  BY <1>2, <1>3 DEF HandlesIn
<1>7. \A s, i, h : SectionHandle(n, s, i, h) => h \in Int /\ h <= n.largest
  BY <1>2, <1>4 DEF HandlesIn
<1>8. ASSUME NEW p, NEW q, NEW i, NEW j, NEW h \in ids,
             EntryHandle(n, p, i, h), EntryHandle(n, q, j, h)
      PROVE  p = q /\ i = j
  <2>1. /\ p \in DOMAIN F /\ EntryHandle(m, F[p], i, h)
        /\ q \in DOMAIN F /\ EntryHandle(m, F[q], j, h)
    BY <1>3, <1>8
  <2>2. F[p] = F[q] /\ i = j
    BY <2>1 DEF HandlesIn
  <2> QED BY <2>1, <2>2, <1>2
<1>9. ASSUME NEW s, NEW r, NEW i, NEW j, NEW h \in ids,
             SectionHandle(n, s, i, h), SectionHandle(n, r, j, h)
      PROVE  s = r /\ i = j
  <2>1. /\ s \in DOMAIN G /\ SectionHandle(m, G[s], i, h)
        /\ r \in DOMAIN G /\ SectionHandle(m, G[r], j, h)
    BY <1>4, <1>9
  <2>2. G[s] = G[r] /\ i = j
    BY <2>1 DEF HandlesIn
  <2> QED BY <2>1, <2>2, <1>2
<1>10. ASSUME NEW p, NEW s, NEW i, NEW j, NEW h \in ids,
              EntryHandle(n, p, i, h), SectionHandle(n, s, j, h)
       PROVE  FALSE
  BY <1>3, <1>4, <1>10 DEF HandlesIn
<1> QED BY <1>5, <1>6, <1>7, <1>8, <1>9, <1>10 DEF HandlesIn

\* Nothing that holds records differs in them.
SameHolders(m, n) ==
  /\ n.largest = m.largest /\ Entries(n) = Entries(m) /\ Unknown(n) = Unknown(m)
  /\ \A p \in Entries(m) : EntryAt(n, p).recs = EntryAt(m, p).recs
  /\ \A s \in Unknown(m) : n.sections[s].recs = m.sections[s].recs

\* Handles stay unique when the records stay.
LEMMA HandlesSame ==
  ASSUME NEW m, NEW n, NEW ids, HandlesIn(m, ids), SameHolders(m, n)
  PROVE  HandlesIn(n, ids)
<1>1. \A p, i, h : EntryHandle(n, p, i, h) <=> EntryHandle(m, p, i, h)
  BY DEF EntryHandle, SameHolders
<1>2. \A s, i, h : SectionHandle(n, s, i, h) <=> SectionHandle(m, s, i, h)
  BY DEF SectionHandle, SameHolders
<1>3. n.largest = m.largest
  BY DEF SameHolders
<1> QED BY <1>1, <1>2, <1>3 DEF HandlesIn

\* the entry at p is made with the next handle
LEMMA HandleGiven ==
  ASSUME NEW m, NEW n, NEW ids, HandlesIn(m, ids), m.largest \in Nat,
         NEW c, c.sections = m.sections, c.largest = m.largest + 1,
         NEW p, Kept(c, n, {p}, {}, {}),
         EntryAt(n, p).recs = <<Num(5, m.largest + 1)>>
  PROVE  HandlesIn(n, ids \cup {m.largest + 1})
<1> DEFINE new == m.largest + 1
<1>0. m.largest \in Nat
  OBVIOUS
<1>1. PICK F, G : /\ Carried(c, n, F, G) /\ NewEntries(n, F) \subseteq {p}
                  /\ NewUnknown(n, G) = {}
  BY DEF Kept
<1>2. Entries(c) = Entries(m) /\ Unknown(c) = Unknown(m) /\ \A q : EntryAt(c, q) = EntryAt(m, q)
  BY SameSections
<1>3. /\ n.largest = new
      /\ \A q \in DOMAIN F : F[q] \in Entries(m) /\ EntryAt(n, q) = EntryAt(m, F[q])
      /\ \A s \in DOMAIN G : G[s] \in Unknown(m) /\ n.sections[s].recs = m.sections[G[s]].recs
      /\ \A q, r \in DOMAIN F : F[q] = F[r] => q = r
      /\ \A s, r \in DOMAIN G : G[s] = G[r] => s = r
  BY <1>1, <1>2 DEF Carried
<1>4. /\ DOMAIN EntryAt(n, p).recs = {1} /\ EntryAt(n, p).recs[1].code = 5
      /\ EntryAt(n, p).recs[1].num = new
  <2> DEFINE r == Num(5, m.largest + 1)
  <2>1. r.code = 5 /\ r.num = m.largest + 1
    BY DEF Num
  <2>2. EntryAt(n, p).recs = <<r>>
    OBVIOUS
  <2> HIDE DEF r
  <2>3. DOMAIN <<r>> = {1} /\ <<r>>[1] = r
    OBVIOUS
  <2> QED BY <2>1, <2>2, <2>3
<1>5. ASSUME NEW q, NEW i, NEW h, EntryHandle(n, q, i, h)
      PROVE  \/ q = p /\ i = 1 /\ h = new
             \/ q \in DOMAIN F /\ EntryHandle(m, F[q], i, h) /\ h \in Int /\ h <= m.largest /\ h # new
  <2>1. CASE q \in DOMAIN F
    <3>1. EntryHandle(m, F[q], i, h)
      BY <2>1, <1>3, <1>5 DEF EntryHandle
    <3>2. h \in Int /\ h <= m.largest
      BY <3>1 DEF HandlesIn
    <3>3. h # m.largest + 1
      <4>1. SUFFICES ASSUME h = m.largest + 1 PROVE FALSE
        OBVIOUS
      <4> QED BY <3>2, <4>1
    <3> QED BY <2>1, <3>1, <3>2, <3>3
  <2>2. CASE q \notin DOMAIN F
    BY <2>2, <1>1, <1>5, <1>4 DEF EntryHandle, NewEntries
  <2> QED BY <2>1, <2>2
<1>6. ASSUME NEW s, NEW i, NEW h, SectionHandle(n, s, i, h)
      PROVE  s \in DOMAIN G /\ SectionHandle(m, G[s], i, h) /\ h \in Int /\ h <= m.largest /\ h # new
  <2>1. s \in DOMAIN G
    BY <1>1, <1>6 DEF SectionHandle, NewUnknown
  <2>2. SectionHandle(m, G[s], i, h)
    BY <2>1, <1>3, <1>6 DEF SectionHandle
  <2>3. h \in Int /\ h <= m.largest
    BY <2>2 DEF HandlesIn
  <2>4. h # m.largest + 1
    <4>1. SUFFICES ASSUME h = m.largest + 1 PROVE FALSE
      OBVIOUS
    <4> QED BY <2>3, <4>1
  <2> QED BY <2>1, <2>2, <2>3, <2>4
<1>7. ids \cup {new} \subseteq 1 .. n.largest
  <2>1. ids \subseteq 1 .. m.largest
    BY DEF HandlesIn
  <2>2. n.largest = m.largest + 1
    BY <1>3
  <2> HIDE DEF new
  <2>3. new = m.largest + 1
    BY DEF new
  <2>4. \A h \in ids : h \in 1 .. n.largest
    BY <1>0, <2>1, <2>2
  <2>5. new \in 1 .. n.largest
    BY <2>2, <2>3, <1>0
  <2> QED BY <2>4, <2>5
<1>8. \A q, i, h : EntryHandle(n, q, i, h) => h \in Int /\ h <= n.largest
  <2>1. SUFFICES ASSUME NEW q, NEW i, NEW h, EntryHandle(n, q, i, h) PROVE h \in Int /\ h <= n.largest
    OBVIOUS
  <2>2. CASE h = new
    BY <2>2, <1>3
  <2>3. CASE h # new
    <3>1. EntryHandle(m, F[q], i, h)
      BY <2>1, <2>3, <1>5
    <3> QED BY <2>1, <1>3, <1>5
  <2> QED BY <2>2, <2>3
<1>9. \A s, i, h : SectionHandle(n, s, i, h) => h \in Int /\ h <= n.largest
  BY <1>3, <1>6
<1> HIDE DEF new
<1>10. ASSUME NEW q, NEW r, NEW i, NEW j, NEW h \in ids \cup {new},
              EntryHandle(n, q, i, h), EntryHandle(n, r, j, h)
       PROVE  q = r /\ i = j
  <2>1. CASE h = new
    BY <2>1, <1>5, <1>10
  <2>2. CASE h # new
    <3>1. /\ q \in DOMAIN F /\ EntryHandle(m, F[q], i, h)
          /\ r \in DOMAIN F /\ EntryHandle(m, F[r], j, h) /\ h \in ids
      BY <2>2, <1>5, <1>10
    <3>2. F[q] = F[r] /\ i = j
      BY <3>1 DEF HandlesIn
    <3> QED BY <3>1, <3>2, <1>3
  <2> QED BY <2>1, <2>2
<1>11. ASSUME NEW s, NEW r, NEW i, NEW j, NEW h \in ids \cup {new},
              SectionHandle(n, s, i, h), SectionHandle(n, r, j, h)
       PROVE  s = r /\ i = j
  <2>1. /\ s \in DOMAIN G /\ SectionHandle(m, G[s], i, h)
        /\ r \in DOMAIN G /\ SectionHandle(m, G[r], j, h) /\ h \in ids
    BY <1>6, <1>11
  <2>2. G[s] = G[r] /\ i = j
    BY <2>1 DEF HandlesIn
  <2> QED BY <2>1, <2>2, <1>3
<1>12. ASSUME NEW q, NEW s, NEW i, NEW j, NEW h \in ids \cup {new},
              EntryHandle(n, q, i, h), SectionHandle(n, s, j, h)
       PROVE  FALSE
  <2>1. SectionHandle(m, G[s], j, h) /\ h # new /\ h \in ids
    BY <1>6, <1>12
  <2>2. EntryHandle(m, F[q], i, h)
    BY <2>1, <1>5, <1>12
  <2> QED BY <2>1, <2>2 DEF HandlesIn
<1>13. HandlesIn(n, ids \cup {new})
  BY <1>7, <1>8, <1>9, <1>10, <1>11, <1>12 DEF HandlesIn
<1> QED BY <1>13 DEF new

-----------------------------------------------------------------------------
(* An entry registers its layer, or gets another color.                     *)

\* Changing one entry keeps the shape of the model and every other entry.
LEMMA OnlyEntry ==
  ASSUME NEW m \in ModelType, NEW s, NEW t, NEW k, EntryIn(m, s, t, k), NEW e \in EntryType,
         NEW n, n = PutEntry(m, s, t, k, e)
  PROVE  /\ Entries(n) = Entries(m) /\ Unknown(n) = Unknown(m)
         /\ n.layers = m.layers /\ n.layerDict = m.layerDict /\ n.largest = m.largest
         /\ \A q \in Entries(m) : q # <<s, t, k>> => EntryAt(n, q) = EntryAt(m, q)
         /\ \A r \in Unknown(m) : n.sections[r].recs = m.sections[r].recs
<1> DEFINE old == m.sections[s].items[t].entries
           new == [old EXCEPT ![k] = e]
<1>0. /\ s \in Tables(m) /\ t \in DOMAIN m.sections[s].items /\ k \in DOMAIN old
      /\ s \in DOMAIN m.sections /\ m.sections[s].kind = "tables"
  BY DEF EntryIn, Tables
<1>1. old \in Seq(EntryType)
  BY <1>0, TableFields
<1>2. /\ new \in Seq(EntryType) /\ DOMAIN new = DOMAIN old
      /\ \A j \in DOMAIN old : j # k => new[j] = old[j]
  <2> HIDE DEF old
  <2> QED BY <1>0, <1>1
<1>3. n = PutEntries(m, s, t, new)
  BY DEF PutEntries, PutEntry
<1> HIDE DEF new
<1>4. PICK x \in AnySection :
        /\ Replaced(m, PutEntries(m, s, t, new), s, x)
        /\ x.kind = "tables" /\ DOMAIN x.items = DOMAIN m.sections[s].items
        /\ x.items[t].entries = new
        /\ \A u \in DOMAIN x.items : u # t => x.items[u] = m.sections[s].items[u]
  BY <1>0, <1>2, EntriesChanged
<1>5. Replaced(m, n, s, x)
  BY <1>3, <1>4
<1>6. /\ n.layers = m.layers /\ n.layerDict = m.layerDict
      /\ n.largest = m.largest
      /\ DOMAIN n.sections = DOMAIN m.sections
      /\ n.sections[s] = x
      /\ \A r \in DOMAIN m.sections : r # s => n.sections[r] = m.sections[r]
      /\ Tables(n) = Tables(m) /\ Unknown(n) = Unknown(m)
  <2>1. s \in DOMAIN m.sections
    BY <1>0
  <2>2. /\ n.layers = m.layers /\ n.layerDict = m.layerDict /\ n.largest = m.largest
        /\ Tables(n) = Tables(m) /\ Unknown(n) = Unknown(m)
    BY <1>5, <2>1, ReplacedIs
  <2>3. /\ DOMAIN n.sections = DOMAIN m.sections /\ n.sections[s] = x
        /\ \A r \in DOMAIN m.sections : r # s => n.sections[r] = m.sections[r]
    BY SMTT(60), <1>5, <2>1, ReplacedIs
  <2> QED BY <2>2, <2>3
<1>7. ASSUME NEW q1, NEW q2, NEW q3 PROVE EntryIn(n, q1, q2, q3) <=> EntryIn(m, q1, q2, q3)
  <2>1. CASE q1 = s /\ q2 = t
    BY <2>1, <1>0, <1>2, <1>4, <1>6 DEF EntryIn
  <2>2. CASE q1 = s /\ q2 # t
    BY <2>2, <1>0, <1>4, <1>6 DEF EntryIn
  <2>3. CASE q1 # s
    BY <2>3, <1>6 DEF Tables, EntryIn
  <2> QED BY <2>1, <2>2, <2>3
<1>8. Entries(n) = Entries(m)
  <2>1. ASSUME NEW q \in Entries(n) PROVE q \in Entries(m)
    <3>1. EntryIn(n, q[1], q[2], q[3]) /\ q = <<q[1], q[2], q[3]>>
      BY EntriesAre
    <3>2. <<q[1], q[2], q[3]>> \in Entries(m)
      BY <3>1, <1>7, EntriesAre
    <3> QED BY <3>1, <3>2
  <2>2. ASSUME NEW q \in Entries(m) PROVE q \in Entries(n)
    <3>1. EntryIn(m, q[1], q[2], q[3]) /\ q = <<q[1], q[2], q[3]>>
      BY EntriesAre
    <3>2. <<q[1], q[2], q[3]>> \in Entries(n)
      BY <3>1, <1>7, EntriesAre
    <3> QED BY <3>1, <3>2
  <2> QED BY <2>1, <2>2
<1>9. ASSUME NEW q \in Entries(m), q # <<s, t, k>> PROVE EntryAt(n, q) = EntryAt(m, q)
  <2>1. EntryIn(m, q[1], q[2], q[3]) /\ q = <<q[1], q[2], q[3]>>
    BY EntriesAre
  <2>2. CASE q[1] = s /\ q[2] = t
    <3>1. q[3] # k
      BY <2>1, <2>2, <1>9
    <3>2. q[3] \in DOMAIN old
      BY <2>1, <2>2 DEF EntryIn
    <3> QED BY <2>2, <3>1, <3>2, <1>2, <1>4, <1>6 DEF EntryAt
  <2>3. CASE q[1] = s /\ q[2] # t
    BY <2>1, <2>3, <1>4, <1>6 DEF EntryAt, EntryIn
  <2>4. CASE q[1] # s
    BY <2>1, <2>4, <1>6 DEF EntryAt, EntryIn, Tables
  <2> QED BY <2>2, <2>3, <2>4
<1>10. \A r \in Unknown(m) : n.sections[r].recs = m.sections[r].recs
  BY <1>0, <1>6 DEF Unknown
<1> QED BY <1>6, <1>8, <1>9, <1>10

\* how many sections, tables and entries there are
SameShape(m, n) ==
  /\ DOMAIN n.sections = DOMAIN m.sections /\ Tables(n) = Tables(m)
  /\ \A s \in Tables(m) : DOMAIN n.sections[s].items = DOMAIN m.sections[s].items

\* an entry of a model has the type of one
LEMMA EntryTyped ==
  ASSUME NEW e \in EntryType
  PROVE  /\ e.info \in Nat /\ e.color \in Int /\ e.name \in Keys \cup {NoName}
         /\ e.recs \in RecordSeq /\ e.table \in STRING
         /\ \A i \in Nat : [e EXCEPT !.info = i] \in EntryType
         /\ \A c \in Int : [e EXCEPT !.color = c] \in EntryType
         /\ \A name \in Keys \cup {NoName} : [e EXCEPT !.name = name] \in EntryType
         /\ \A recs \in RecordSeq : [e EXCEPT !.recs = recs] \in EntryType
BY DEF EntryType

\* an entry with another name, color or layer is an entry
LEMMA EntryTypes ==
  ASSUME NEW m \in ModelType, NEW s, NEW t, NEW k, EntryIn(m, s, t, k)
  PROVE  /\ EntryAt(m, <<s, t, k>>) = m.sections[s].items[t].entries[k]
         /\ EntryAt(m, <<s, t, k>>) \in EntryType
         /\ <<s, t, k>> \in Entries(m)
<1>1. EntryAt(m, <<s, t, k>>) = m.sections[s].items[t].entries[k]
  BY DEF EntryAt
<1>2. <<s, t, k>> \in Entries(m)
  BY EntriesAre
<1>3. s \in Tables(m) /\ t \in DOMAIN m.sections[s].items
      /\ k \in DOMAIN m.sections[s].items[t].entries
  BY DEF EntryIn
<1> QED BY <1>1, <1>2, <1>3, TableFields

\* The shape of a model is the shape of its sections.
LEMMA ShapeKept ==
  ASSUME NEW m \in ModelType, NEW s, NEW t, NEW k, EntryIn(m, s, t, k), NEW e \in EntryType,
         NEW n, n = PutEntry(m, s, t, k, e)
  PROVE  SameShape(m, n)
<1> DEFINE old == m.sections[s].items[t].entries
           new == [old EXCEPT ![k] = e]
<1>0. /\ s \in Tables(m) /\ t \in DOMAIN m.sections[s].items /\ k \in DOMAIN old
      /\ s \in DOMAIN m.sections
  BY DEF EntryIn, Tables
<1>1. old \in Seq(EntryType)
  BY <1>0, TableFields
<1>2. new \in Seq(EntryType)
  <2> HIDE DEF old
  <2> QED BY <1>0, <1>1
<1>3. n = PutEntries(m, s, t, new)
  BY DEF PutEntries, PutEntry
<1> HIDE DEF new
<1>4. PICK x \in AnySection :
        /\ Replaced(m, PutEntries(m, s, t, new), s, x)
        /\ x.kind = "tables" /\ DOMAIN x.items = DOMAIN m.sections[s].items
        /\ x.items[t].entries = new
        /\ \A u \in DOMAIN x.items : u # t => x.items[u] = m.sections[s].items[u]
  BY <1>0, <1>2, EntriesChanged
<1>5. Replaced(m, n, s, x)
  BY <1>3, <1>4
<1>6. /\ DOMAIN n.sections = DOMAIN m.sections /\ n.sections[s] = x
      /\ \A r \in DOMAIN m.sections : r # s => n.sections[r] = m.sections[r]
      /\ Tables(n) = Tables(m)
  <2>1. s \in DOMAIN m.sections
    BY <1>0
  <2>2. OneReplaced(m, n, s, x)
    BY <1>5, <2>1, ReplacedOne
  <2> QED BY <2>2 DEF OneReplaced
<1> QED BY <1>4, <1>6 DEF SameShape, Tables

\* the last entry has registered its layer, or had none to register
Registers(m, n, names) ==
  /\ n \in ModelType /\ LayersIn(n, names)
  /\ SameHolders(m, n) /\ SameShape(m, n)

\* dimeLayerTable registers its layer with the model, once by name.
LEMMA LayerRegisters ==
  ASSUME NEW m \in ModelType, NEW names, LayersIn(m, names),
         NEW s, NEW t, NEW k, EntryIn(m, s, t, k)
  PROVE  Registers(m, RegisterLayer(m, s, t, k), names)
<1> SUFFICES ASSUME NEW n, n = RegisterLayer(m, s, t, k)
             PROVE  Registers(m, n, names)
  OBVIOUS
<1> DEFINE p == <<s, t, k>>
           e == EntryAt(m, p)
<1>1. /\ e = m.sections[s].items[t].entries[k] /\ e \in EntryType /\ p \in Entries(m)
  BY EntryTypes
<1>2. CASE e.info # 0 \/ e.name = NoName \/ e.table # "LAYER"
  BY <1>1, <1>2 DEF RegisterLayer, SameHolders, SameShape, Registers
<1>3. CASE ~ (e.info # 0 \/ e.name = NoName \/ e.table # "LAYER")
  <2> DEFINE x == AddLayer(m, e.name, Abs(e.color))
             i == LayerNum(x, e.name)
             f == [e EXCEPT !.info = i]
  <2>1. e.name \in Keys /\ e.color \in Int /\ Abs(e.color) \in Int
    BY <1>1, <1>3, EntryTyped DEF Abs
  <2>2. LayersKnown(m)
    BY DEF LayersIn
  <2>3. /\ x \in ModelType /\ x.sections = m.sections
        /\ x.largest = m.largest
        /\ i \in DOMAIN x.layers /\ i # 0
    <3> HIDE DEF e
    <3> QED BY <2>1, <2>2, LayerAdded
  <2>4. n = [x EXCEPT !.sections[s].items[t].entries[k].info = i]
    BY <1>1, <1>3 DEF RegisterLayer
  <2> HIDE DEF i
  <2>5. n = PutEntry(x, s, t, k, f)
    <3>1. x.sections[s].items[t].entries[k] = e
      BY <2>3, <1>1
    <3> HIDE DEF x, e
    <3>2. [x EXCEPT !.sections[s].items[t].entries[k].info = i] =
            [x EXCEPT !.sections[s].items[t].entries[k] = 
                [x.sections[s].items[t].entries[k] EXCEPT !.info = i]]
      OBVIOUS
    <3> QED BY <2>4, <3>1, <3>2 DEF PutEntry
  <2>6. i \in Nat
    BY <2>3, ModelFields
  <2>7. f \in EntryType
    <3> HIDE DEF e
    <3> QED BY <1>1, <2>6, EntryTyped
  <2>8. f.table = "LAYER" /\ f.name = e.name /\ f.color = e.color /\ f.info = i
        /\ f.recs = e.recs
    <3> HIDE DEF e
    <3> QED BY <1>1, <1>3 DEF EntryType
  <2> HIDE DEF f
  <2>9. EntryIn(x, s, t, k)
    BY <2>3 DEF EntryIn, Tables
  <2> HIDE DEF x
  <2>10. /\ n \in ModelType /\ EntryIn(n, s, t, k) /\ EntryAt(n, p) = f
         /\ Kept(x, n, {p}, {}, {p})
    BY <2>3, <2>7, <2>9, EntryChanged, <2>5 DEF BecomesEntry
  <2>11. LayersIn(n, names)
    <3>1. p \in Entries(n)
      BY <2>10, EntriesAre
    <3>2. \A q \in {p} : EntryAt(m, q).info # 0 => EntryAt(m, q).name \in names
      BY <1>3
    <3>3. /\ EntryAt(n, p).table = "LAYER" /\ EntryAt(n, p).name = e.name
          /\ EntryAt(n, p).color = e.color /\ EntryAt(n, p).info = LayerNum(x, e.name)
      BY <2>8, <2>10 DEF i
    <3>4. x = AddLayer(m, e.name, Abs(e.color)) /\ Kept(x, n, {p}, {}, {p})
      BY <2>10 DEF x
    <3> HIDE DEF p, e
    <3> QED BY <2>1, <3>1, <3>2, <3>3, <3>4, LayersRegistered
  <2>12. /\ Entries(n) = Entries(x) /\ Unknown(n) = Unknown(x)
         /\ n.largest = x.largest
         /\ \A q \in Entries(x) : q # <<s, t, k>> => EntryAt(n, q) = EntryAt(x, q)
         /\ \A r \in Unknown(x) : n.sections[r].recs = x.sections[r].recs
    BY <2>3, <2>5, <2>7, <2>9, OnlyEntry
  <2>13. Entries(x) = Entries(m) /\ Tables(x) = Tables(m) /\ Unknown(x) = Unknown(m)
         /\ \A q : EntryAt(x, q) = EntryAt(m, q)
    BY <2>3, SameSections
  <2>14. SameHolders(m, n)
    BY <2>3, <2>8, <2>10, <2>12, <2>13 DEF SameHolders
  <2>15. SameShape(x, n)
    BY <2>3, <2>5, <2>7, <2>9, ShapeKept
  <2>16. SameShape(m, n)
    BY <2>3, <2>13, <2>15 DEF SameShape
  <2> QED BY <2>10, <2>11, <2>14, <2>16 DEF Registers
<1> QED BY <1>2, <1>3

\* An entry that has registered no layer becomes another that has not.
EditsEntry(m, n, names, s, t, k, e) ==
  /\ n \in ModelType /\ LayersIn(n, names) /\ SameShape(m, n)
  /\ EntryIn(n, s, t, k) /\ EntryAt(n, <<s, t, k>>) = e
  /\ Len(n.sections[s].items[t].entries) = Len(m.sections[s].items[t].entries)

\* An entry without a layer that gets another color or more records keeps the layers
\* sound.
LEMMA EntryEdited ==
  ASSUME NEW m \in ModelType, NEW names, LayersIn(m, names),
         NEW s, NEW t, NEW k, EntryIn(m, s, t, k), NEW e \in EntryType,
         EntryAt(m, <<s, t, k>>).info = 0, e.info = 0
  PROVE  EditsEntry(m, PutEntry(m, s, t, k, e), names, s, t, k, e)
<1> SUFFICES ASSUME NEW n, n = PutEntry(m, s, t, k, e)
             PROVE  EditsEntry(m, n, names, s, t, k, e)
  OBVIOUS
<1> DEFINE p == <<s, t, k>>
<1>1. /\ n \in ModelType /\ EntryIn(n, s, t, k) /\ EntryAt(n, p) = e
      /\ Len(n.sections[s].items[t].entries) = Len(m.sections[s].items[t].entries)
      /\ Kept(m, n, {p}, {}, {p})
  BY EntryChanged DEF BecomesEntry
<1>2. SameShape(m, n)
  BY ShapeKept
<1>3. EntryAt(m, p).info = 0 /\ EntryAt(n, p).info = 0
  BY <1>1
<1> HIDE DEF p
<1>4. LayersIn(n, names)
  BY <1>1, <1>3, LayersCarried
<1> QED BY <1>1, <1>2, <1>4 DEF p, EditsEntry

\* an entry and its layer have another color
ColorsEntry(m, n, names, s, t, k) ==
  /\ n \in ModelType /\ LayersIn(n, names)
  /\ SameHolders(m, n) /\ SameShape(m, n)
  /\ EntryIn(n, s, t, k) /\ EntryAt(n, <<s, t, k>>).info = EntryAt(m, <<s, t, k>>).info
  /\ Len(n.sections[s].items[t].entries) = Len(m.sections[s].items[t].entries)

\* dimeLayerTable::setColorNumber() colors the entry and its layer.
LEMMA ColorSet ==
  ASSUME NEW m \in ModelType, NEW names, LayersIn(m, names),
         NEW s, NEW t, NEW k, EntryIn(m, s, t, k), NEW color \in Int
  PROVE  ColorsEntry(m, SetColorNumber(m, s, t, k, color), names, s, t, k)
<1> SUFFICES ASSUME NEW n, n = SetColorNumber(m, s, t, k, color)
             PROVE  ColorsEntry(m, n, names, s, t, k)
  OBVIOUS
<1> DEFINE p == <<s, t, k>>
           e == EntryAt(m, p)
           f == [e EXCEPT !.color = color]
           x == PutEntry(m, s, t, k, f)
           i == e.info
<1>1. e = m.sections[s].items[t].entries[k] /\ e \in EntryType /\ p \in Entries(m)
  BY EntryTypes
<1>2. /\ f \in EntryType /\ f.info = i /\ f.name = e.name /\ f.table = e.table
      /\ f.color = color /\ f.recs = e.recs /\ i \in Nat
  <2> HIDE DEF e
  <2> QED BY <1>1 DEF EntryType
<1>3. [m EXCEPT !.sections[s].items[t].entries[k].color = color] = x
  <2>1. [m EXCEPT !.sections[s].items[t].entries[k].color = color] =
          PutEntry(m, s, t, k, [m.sections[s].items[t].entries[k] EXCEPT !.color = color])
    BY DEF PutEntry
  <2> HIDE DEF e
  <2> QED BY <1>1, <2>1
<1>4. n = IF i = 0 THEN x ELSE [x EXCEPT !.layers[i].color = Abs(color)]
  <2>1. i = m.sections[s].items[t].entries[k].info
    BY <1>1
  <2> HIDE DEF x, i
  <2> QED BY <2>1, <1>3 DEF SetColorNumber
<1> HIDE DEF f, x, i
<1>5. x = PutEntry(m, s, t, k, f)
  BY DEF x
<1>6. /\ x \in ModelType /\ EntryIn(x, s, t, k) /\ EntryAt(x, p) = f
      /\ Len(x.sections[s].items[t].entries) = Len(m.sections[s].items[t].entries)
  <2>1. f \in EntryType
    BY <1>2
  <2>2. BecomesEntry(m, PutEntry(m, s, t, k, f), s, t, k, f)
    BY <2>1, EntryChanged
  <2> QED BY <2>2, <1>5 DEF BecomesEntry
<1>7. /\ Entries(x) = Entries(m) /\ Unknown(x) = Unknown(m)
      /\ x.layers = m.layers /\ x.layerDict = m.layerDict /\ x.largest = m.largest
      /\ \A q \in Entries(m) : q # p => EntryAt(x, q) = EntryAt(m, q)
      /\ \A r \in Unknown(m) : x.sections[r].recs = m.sections[r].recs
  BY <1>2, <1>5, OnlyEntry
<1>8. SameShape(m, x)
  BY <1>2, <1>5, ShapeKept
<1>9. SameHolders(m, x)
  BY <1>2, <1>6, <1>7 DEF SameHolders
<1>10. CASE i = 0
  <2>1. n = x
    BY <1>4, <1>10
  <2>2. LayersIn(x, names)
    <3>1. EntryAt(m, <<s, t, k>>).info = 0 /\ f.info = 0
      BY <1>2, <1>10 DEF i
    <3>2. EditsEntry(m, PutEntry(m, s, t, k, f), names, s, t, k, f)
      BY <1>2, <3>1, EntryEdited
    <3> QED BY <1>5, <3>2 DEF EditsEntry
  <2>3. EntryAt(n, p).info = EntryAt(m, p).info
    BY <2>1, <1>2, <1>6 DEF i
  <2> QED BY <2>1, <2>2, <2>3, <1>6, <1>8, <1>9 DEF ColorsEntry
<1>11. CASE i # 0
  <2> DEFINE l == [m.layers[i] EXCEPT !.color = Abs(color)]
             layers == [m.layers EXCEPT ![i] = l]
  <2>1. n = [x EXCEPT !.layers = layers]
    BY <1>4, <1>7, <1>11
  <2>2. EntryKnown(m, p)
    BY <1>1 DEF LayersIn
  <2>3. i \in DOMAIN m.layers /\ m.layers[i].name = e.name /\ e.table = "LAYER"
    BY <2>2, <1>11 DEF EntryKnown, i
  <2>4. m.layers \in Seq(LayerType) /\ m.layers[i] \in LayerType
    BY <2>3, ModelFields
  <2>5. l \in LayerType /\ l.name = m.layers[i].name /\ l.color = Abs(color)
    BY <2>4 DEF Abs, LayerType
  <2> HIDE DEF l
  <2>6. /\ layers \in Seq(LayerType) /\ DOMAIN layers = DOMAIN m.layers /\ layers[i] = l
        /\ \A j \in DOMAIN m.layers : j # i => layers[j] = m.layers[j]
    <3> DEFINE old == m.layers
    <3>1. old \in Seq(LayerType) /\ i \in DOMAIN old
      BY <2>3, <2>4
    <3> HIDE DEF old
    <3>2. /\ [old EXCEPT ![i] = l] \in Seq(LayerType)
          /\ DOMAIN [old EXCEPT ![i] = l] = DOMAIN old /\ [old EXCEPT ![i] = l][i] = l
          /\ \A j \in DOMAIN old : j # i => [old EXCEPT ![i] = l][j] = old[j]
      BY <3>1, <2>5
    <3> QED BY <3>2 DEF old
  <2> HIDE DEF layers
  <2>7. /\ n \in ModelType /\ n.layers = layers /\ n.layerDict = m.layerDict
        /\ n.sections = x.sections /\ n.largest = m.largest
    BY <2>1, <2>6, <1>6, <1>7 DEF ModelType
  <2>8. /\ Entries(n) = Entries(m) /\ Tables(n) = Tables(x) /\ Unknown(n) = Unknown(m)
        /\ \A q : EntryAt(n, q) = EntryAt(x, q)
    BY <2>7, <1>7, SameSections
  <2>9. \A j \in DOMAIN m.layers : layers[j].name = m.layers[j].name
    BY <2>5, <2>6
  <2>10. LayersKnown(m)
    BY DEF LayersIn
  <2>11. LayersKnown(n)
    BY <2>6, <2>7, <2>9, <2>10 DEF LayersKnown
  <2>12. \A q \in Entries(m) : /\ EntryAt(n, q).info = EntryAt(m, q).info
                               /\ EntryAt(n, q).name = EntryAt(m, q).name
                               /\ EntryAt(n, q).table = EntryAt(m, q).table
                               /\ q # p => EntryAt(n, q).color = EntryAt(m, q).color
    <3>1. EntryAt(n, p) = f
      BY <2>8, <1>6
    <3>2. \A q \in Entries(m) : q # p => EntryAt(n, q) = EntryAt(m, q)
      BY <2>8, <1>7
    <3> HIDE DEF p
    <3> QED BY <3>1, <3>2, <1>2 DEF i
  <2>13. ASSUME NEW q \in Entries(n) PROVE EntryKnown(n, q)
    BY <2>8, <2>6, <2>7, <2>9, <2>12 DEF LayersIn, EntryKnown
  <2>14. ASSUME NEW q \in Entries(n) PROVE Colored(n, q, names)
    <3>1. SUFFICES ASSUME EntryAt(n, q).info # 0, EntryAt(n, q).name \notin names,
                          Alone(n, q)
                   PROVE  n.layers[EntryAt(n, q).info].color = Abs(EntryAt(n, q).color)
      BY DEF Colored
    <3>2. q \in Entries(m) /\ p \in Entries(m)
      BY <2>8, <1>1
    <3>3. CASE EntryAt(m, q).info = i
      <4>1. EntryAt(n, p).info = EntryAt(n, q).info
        BY <3>2, <3>3, <2>12 DEF i
      <4>2. q = p
        BY <4>1, <3>1, <3>2, <2>8 DEF Alone
      <4>3. EntryAt(n, q).color = color /\ EntryAt(n, q).info = i
        BY <4>2, <2>8, <1>2, <1>6
      <4> QED BY <4>3, <2>5, <2>6, <2>7
    <3>4. CASE EntryAt(m, q).info # i
      <4>1. q # p
        BY <3>4 DEF i
      <4>2. Alone(m, q)
        BY <3>1, <3>2, <2>8, <2>12 DEF Alone
      <4>3. Colored(m, q, names) /\ EntryKnown(m, q)
        BY <3>2 DEF LayersIn
      <4>4. m.layers[EntryAt(m, q).info].color = Abs(EntryAt(m, q).color)
        BY <4>2, <4>3, <3>1, <3>2, <2>12 DEF Colored
      <4>5. EntryAt(m, q).info \in DOMAIN m.layers
        BY <4>3, <3>1, <3>2, <2>12 DEF EntryKnown
      <4>6. n.layers[EntryAt(m, q).info] = m.layers[EntryAt(m, q).info]
        BY <4>5, <3>4, <2>6, <2>7
      <4> QED BY <4>1, <4>4, <4>6, <3>2, <2>12
    <3> QED BY <3>3, <3>4
  <2>15. ASSUME NEW j \in DOMAIN n.layers PROVE Claimed(n, j, names)
    BY <2>6, <2>7, <2>8, <2>9, <2>12 DEF LayersIn, Claimed
  <2>16. LayersIn(n, names)
    BY <2>11, <2>13, <2>14, <2>15 DEF LayersIn
  <2>17. SameHolders(m, n)
    BY <2>7, <2>8, <1>7, <1>9 DEF SameHolders
  <2>18. SameShape(m, n)
    BY <2>7, <2>8, <1>8 DEF SameShape
  <2>19. EntryIn(n, s, t, k) /\ EntryAt(n, p).info = EntryAt(m, p).info
    BY <2>7, <2>8, <2>12, <1>1, <1>6 DEF EntryIn
  <2> QED BY <2>7, <2>16, <2>17, <2>18, <2>19, <1>6 DEF ColorsEntry
<1> QED BY <1>10, <1>11

-----------------------------------------------------------------------------
(* Reading a record.                                                        *)

\* a handle that is not above the largest, or that of the record r
Under(h, most, r) == h \in Int /\ (h <= most \/ (r.code = 5 /\ h = r.num))
\* the handles of a model are under its largest, or that of r
Bounded(m, r) ==
  /\ \A p, i, h : EntryHandle(m, p, i, h) => Under(h, m.largest, r)
  /\ \A s, i, h : SectionHandle(m, s, i, h) => Under(h, m.largest, r)

\* Handles stay bounded when the entries and the unknown sections move.
LEMMA BoundedKept ==
  ASSUME NEW m, NEW n, HandlesIn(m, {}), NEW r,
         NEW New, NEW Unk, NEW Gone, Kept(m, n, New, Unk, Gone),
         \A p \in New : \A i, h : EntryHandle(n, p, i, h) => Under(h, m.largest, r),
         \A s \in Unk : \A i, h : SectionHandle(n, s, i, h) => Under(h, m.largest, r)
  PROVE  n.largest = m.largest /\ Bounded(n, r)
<1>1. PICK F, G : /\ Carried(m, n, F, G) /\ NewEntries(n, F) \subseteq New
                  /\ NewUnknown(n, G) \subseteq Unk
  BY DEF Kept
<1>2. /\ n.largest = m.largest
      /\ \A p \in DOMAIN F : F[p] \in Entries(m) /\ EntryAt(n, p) = EntryAt(m, F[p])
      /\ \A s \in DOMAIN G : G[s] \in Unknown(m) /\ n.sections[s].recs = m.sections[G[s]].recs
  BY <1>1 DEF Carried
<1>3. ASSUME NEW p, NEW i, NEW h, EntryHandle(n, p, i, h) PROVE Under(h, n.largest, r)
  <2>1. CASE p \in New
    BY <2>1, <1>2, <1>3
  <2>2. CASE p \notin New
    <3>1. p \in DOMAIN F
      BY <2>2, <1>1, <1>3 DEF NewEntries, EntryHandle
    <3>2. EntryHandle(m, F[p], i, h)
      BY <3>1, <1>2, <1>3 DEF EntryHandle
    <3>3. h \in Int /\ h <= m.largest
      BY <3>2 DEF HandlesIn
    <3> QED BY <3>3, <1>2 DEF Under
  <2> QED BY <2>1, <2>2
<1>4. ASSUME NEW s, NEW i, NEW h, SectionHandle(n, s, i, h) PROVE Under(h, n.largest, r)
  <2>1. CASE s \in Unk
    BY <2>1, <1>2, <1>4
  <2>2. CASE s \notin Unk
    <3>1. s \in DOMAIN G
      BY <2>2, <1>1, <1>4 DEF NewUnknown, SectionHandle
    <3>2. SectionHandle(m, G[s], i, h)
      BY <3>1, <1>2, <1>4 DEF SectionHandle
    <3>3. h \in Int /\ h <= m.largest
      BY <3>2 DEF HandlesIn
    <3> QED BY <3>3, <1>2 DEF Under
  <2> QED BY <2>1, <2>2
<1> QED BY <1>2, <1>3, <1>4 DEF Bounded

\* Handles stay bounded when the records stay.
LEMMA BoundedSame ==
  ASSUME NEW m, NEW n, HandlesIn(m, {}), NEW r, SameHolders(m, n)
  PROVE  n.largest = m.largest /\ Bounded(n, r)
<1>1. HandlesIn(n, {})
  BY HandlesSame
<1>2. n.largest = m.largest
  BY DEF SameHolders
<1>3. ASSUME NEW p, NEW i, NEW h, EntryHandle(n, p, i, h) PROVE Under(h, n.largest, r)
  BY <1>1, <1>3 DEF HandlesIn, Under
<1>4. ASSUME NEW s, NEW i, NEW h, SectionHandle(n, s, i, h) PROVE Under(h, n.largest, r)
  BY <1>1, <1>4 DEF HandlesIn, Under
<1> QED BY <1>2, <1>3, <1>4 DEF Bounded

\* A section that is not one of tables gets other records.
PutRecs(m, s, recs) == [m EXCEPT !.sections[s].recs = recs]
\* a section has other records, and everything else is kept
GetsRecs(m, n, s, recs) ==
  /\ n \in ModelType /\ DOMAIN n.sections = DOMAIN m.sections
  /\ n.sections[s].kind = m.sections[s].kind /\ n.sections[s].recs = recs
  /\ Tables(n) = Tables(m) /\ Unknown(n) = Unknown(m)
  /\ Kept(m, n, {}, {s}, {})

\* Changing the records of a section leaves the other sections alone.
LEMMA RecsChanged ==
  ASSUME NEW m \in ModelType, NEW s \in DOMAIN m.sections, m.sections[s].kind # "tables",
         NEW recs \in RecordSeq
  PROVE  GetsRecs(m, PutRecs(m, s, recs), s, recs)
<1> DEFINE n == PutRecs(m, s, recs)
           old == m.sections[s]
           x == [old EXCEPT !.recs = recs]
           F == [p \in Entries(m) |-> p]
           G == [r \in Unknown(m) \ {s} |-> r]
<1>1. old \in AnySection
  BY ModelFields
<1>2. x \in AnySection /\ x.kind = old.kind /\ x.recs = recs
  <2> HIDE DEF old
  <2>1. old = [kind |-> old.kind, name |-> old.name, recs |-> old.recs, items |-> old.items]
    BY <1>1, SectionFields
  <2> QED BY <1>1, <2>1, SectionChanged
<1>3. n = PutSections(m, [m.sections EXCEPT ![s] = x])
  BY DEF PutRecs, PutSections
<1> HIDE DEF n, x
<1>4. Replaced(m, n, s, x)
  BY <1>2, <1>3 DEF Replaced
<1>5. /\ n \in ModelType /\ n.layers = m.layers /\ n.layerDict = m.layerDict
      /\ n.largest = m.largest
      /\ Tables(n) = Tables(m) /\ Unknown(n) = Unknown(m)
  BY ZenonT(60), <1>2, <1>4, ReplacedIs
<1>6. /\ DOMAIN n.sections = DOMAIN m.sections /\ n.sections[s] = x
      /\ \A r \in DOMAIN m.sections : r # s => n.sections[r] = m.sections[r]
  BY <1>2, <1>4, ReplacedIs
<1>7. s \notin Tables(m)
  BY DEF Tables
<1>8. \A r \in Tables(m) : n.sections[r] = m.sections[r]
  BY <1>6, <1>7 DEF Tables
<1>9. \A q1, q2, q3 : EntryIn(n, q1, q2, q3) <=> EntryIn(m, q1, q2, q3)
  BY <1>5, <1>8 DEF EntryIn
<1>10. Entries(n) = Entries(m)
  <2>1. ASSUME NEW q \in Entries(n) PROVE q \in Entries(m)
    <3>1. EntryIn(n, q[1], q[2], q[3]) /\ q = <<q[1], q[2], q[3]>>
      BY EntriesAre
    <3>2. <<q[1], q[2], q[3]>> \in Entries(m)
      BY <3>1, <1>9, EntriesAre
    <3> QED BY <3>1, <3>2
  <2>2. ASSUME NEW q \in Entries(m) PROVE q \in Entries(n)
    <3>1. EntryIn(m, q[1], q[2], q[3]) /\ q = <<q[1], q[2], q[3]>>
      BY EntriesAre
    <3>2. <<q[1], q[2], q[3]>> \in Entries(n)
      BY <3>1, <1>9, EntriesAre
    <3> QED BY <3>1, <3>2
  <2> QED BY <2>1, <2>2
<1>11. \A q \in Entries(m) : EntryAt(n, q) = EntryAt(m, q)
  <2>1. ASSUME NEW q \in Entries(m) PROVE EntryAt(n, q) = EntryAt(m, q)
    BY EntriesAre, <1>8 DEF EntryIn, EntryAt
  <2> QED BY <2>1
<1>12. /\ DOMAIN F = Entries(m) /\ (\A p \in Entries(m) : F[p] = p)
       /\ DOMAIN G = Unknown(m) \ {s} /\ \A r \in Unknown(m) \ {s} : G[r] = r
  OBVIOUS
<1> HIDE DEF F, G
<1>13. \A r \in Unknown(m) \ {s} : n.sections[r].recs = m.sections[r].recs
  BY <1>6 DEF Unknown
<1>14. Carried(m, n, F, G)
  BY <1>5, <1>10, <1>11, <1>12, <1>13 DEF Carried
<1>15. NewEntries(n, F) \subseteq {} /\ NewUnknown(n, G) \subseteq {s} /\ Lost(m, F) \subseteq {}
  BY <1>5, <1>10, <1>12 DEF NewEntries, NewUnknown, Lost
<1>16. Kept(m, n, {}, {s}, {})
  BY <1>14, <1>15 DEF Kept
<1> QED BY <1>2, <1>5, <1>6, <1>16 DEF GetsRecs, n

\* A table changes, and its entries do not.
GetsTable(m, n, s, t, table) ==
  n \in ModelType /\ SameEntries(m, n) /\ SameShape(m, n) /\ n.sections[s].items[t] = table

\* Changing a table without its entries leaves the entries alone.
LEMMA TableEdited ==
  ASSUME NEW m \in ModelType, NEW s \in Tables(m), NEW t \in DOMAIN m.sections[s].items,
         NEW table \in TableType, table.entries = m.sections[s].items[t].entries
  PROVE  GetsTable(m, PutTable(m, s, t, table), s, t, table)
<1> DEFINE n == PutTable(m, s, t, table)
<1>1. PICK x \in AnySection :
           /\ Replaced(m, n, s, x)
           /\ x.kind = "tables" /\ DOMAIN x.items = DOMAIN m.sections[s].items
           /\ x.items[t] = table
           /\ \A u \in DOMAIN x.items : u # t => x.items[u] = m.sections[s].items[u]
  BY TableChanged
<1> HIDE DEF n
<1>2. s \in DOMAIN m.sections /\ m.sections[s].kind = "tables"
  BY DEF Tables
<1>3. Quiet(m.sections[s], x)
  BY <1>1, <1>2 DEF Quiet
<1>4. n \in ModelType /\ SameEntries(m, n)
  BY <1>1, <1>2, <1>3, QuietSame
<1>5. /\ DOMAIN n.sections = DOMAIN m.sections /\ n.sections[s] = x /\ Tables(n) = Tables(m)
      /\ \A r \in DOMAIN m.sections : r # s => n.sections[r] = m.sections[r]
  BY <1>1, <1>2, ReplacedIs
<1>6. SameShape(m, n)
  BY <1>1, <1>5 DEF SameShape, Tables
<1> QED BY <1>1, <1>4, <1>5, <1>6 DEF GetsTable, n

\* what the loop that is open needs of the model
Loops == {"model", "name", "records", "tables", "table", "entry", "end"}
\* the section, table and entry that the loop is in are the last ones
Open(p) ==
  /\ p.at = "records" => Here(p) \in DOMAIN p.m.sections /\ p.m.sections[Here(p)].kind # "tables"
  /\ p.at \in {"tables", "table", "entry"} => Here(p) \in Tables(p.m)
  /\ p.at \in {"table", "entry"} => ThisTable(p) \in DOMAIN Items(p)
  /\ p.at = "entry" =>
       /\ EntryIn(p.m, Here(p), ThisTable(p), ThisEntry(p))
       /\ EntryAt(p.m, <<Here(p), ThisTable(p), ThisEntry(p)>>).info = 0
\* a reader whose model is sound
Reading(p) ==
  /\ p \in [at : Loops, m : ModelType] /\ Open(p)
  /\ LayersIn(p.m, {}) /\ HandlesIn(p.m, {})
\* the records a file may have: its names are those the dictionary takes
Readable == {r \in Record : r.code = 2 => r.str \in Keys \cup {NoName}}

\* the model of q, but for the handle of r, which is registered after it
ReadTo(p, q, r) ==
  /\ q \in [at : Loops, m : ModelType] /\ Open(q)
  /\ LayersIn(q.m, {}) /\ q.m.largest = p.m.largest /\ Bounded(q.m, r)

\* what a step of the reader changes
LEMMA PutIs ==
  ASSUME NEW p, NEW at \in Loops, NEW n \in ModelType
  PROVE  /\ Put(p, at, n) \in [at : Loops, m : ModelType]
         /\ Put(p, at, n).at = at /\ Put(p, at, n).m = n
BY DEF Put

\* Before the first section nothing is open.
LEMMA OpenEarly ==
  ASSUME NEW p, NEW at \in {"model", "name", "end"}, NEW n \in ModelType
  PROVE  Open(Put(p, at, n))
<1>1. at \in Loops
  BY DEF Loops
<1>2. Put(p, at, n).at = at
  BY <1>1, PutIs
<1> QED BY <1>2 DEF Open

\* what was kept, and what the record r brings
Brings(m, n, r, New, Unk, Gone) ==
  /\ Kept(m, n, New, Unk, Gone)
  /\ \A q \in New : \A i, h : EntryHandle(n, q, i, h) => Under(h, m.largest, r)
  /\ \A s \in Unk : \A i, h : SectionHandle(n, s, i, h) => Under(h, m.largest, r)

\* A step that keeps what was read keeps it sound.
LEMMA ReadKept ==
  ASSUME NEW p, Reading(p), NEW r, NEW at \in Loops, NEW n \in ModelType,
         LayersIn(n, {}), Open(Put(p, at, n)),
         NEW New, NEW Unk, NEW Gone, Brings(p.m, n, r, New, Unk, Gone)
  PROVE  ReadTo(p, Put(p, at, n), r)
<1>1. HandlesIn(p.m, {})
  BY DEF Reading
<1>2. n.largest = p.m.largest /\ Bounded(n, r)
  <2> DEFINE m == p.m
  <2>1. /\ HandlesIn(m, {}) /\ Kept(m, n, New, Unk, Gone)
        /\ \A q \in New : \A i, h : EntryHandle(n, q, i, h) => Under(h, m.largest, r)
        /\ \A s \in Unk : \A i, h : SectionHandle(n, s, i, h) => Under(h, m.largest, r)
    BY <1>1 DEF Brings
  <2>2. n.largest = m.largest /\ Bounded(n, r)
    <3> HIDE DEF m
    <3> QED BY <2>1, BoundedKept
  <2> QED BY <2>2
<1>3. /\ Put(p, at, n) \in [at : Loops, m : ModelType]
      /\ Put(p, at, n).m = n
  BY PutIs
<1> HIDE DEF Reading
<1> QED BY <1>2, <1>3 DEF ReadTo

\* A step that leaves the records alone keeps the model sound.
LEMMA ReadSame ==
  ASSUME NEW p, Reading(p), NEW r, NEW at \in Loops, NEW n \in ModelType,
         LayersIn(n, {}), Open(Put(p, at, n)), SameHolders(p.m, n)
  PROVE  ReadTo(p, Put(p, at, n), r)
<1>1. HandlesIn(p.m, {})
  BY DEF Reading
<1>2. n.largest = p.m.largest /\ Bounded(n, r)
  BY <1>1, BoundedSame
<1>3. /\ Put(p, at, n) \in [at : Loops, m : ModelType]
      /\ Put(p, at, n).m = n
  BY PutIs
<1> QED BY <1>2, <1>3 DEF ReadTo

\* A step that brings no entry and no handle keeps the model sound.
LEMMA ReadQuiet ==
  ASSUME NEW p, Reading(p), NEW r, NEW at \in Loops, NEW n \in ModelType,
         SameEntries(p.m, n), Open(Put(p, at, n))
  PROVE  ReadTo(p, Put(p, at, n), r)
<1>1. p.m \in ModelType /\ LayersIn(p.m, {})
  BY DEF Reading
<1>2. Kept(p.m, n, {}, {}, {})
  BY SameKept
<1>3. LayersIn(n, {})
  BY <1>1, <1>2, LayersCarried
<1>4. SameHolders(p.m, n)
  BY DEF SameEntries, SameHolders
<1> QED BY <1>3, <1>4, ReadSame

\* A step that leaves the model alone keeps it sound.
LEMMA ReadNothing ==
  ASSUME NEW p, Reading(p), NEW r, NEW at \in Loops, Open(Put(p, at, p.m))
  PROVE  ReadTo(p, Put(p, at, p.m), r)
<1>1. p.m \in ModelType
  BY DEF Reading
<1>2. SameEntries(p.m, p.m)
  BY DEF SameEntries
<1> QED BY <1>1, <1>2, ReadQuiet

\* one more record
LEMMA OneMore ==
  ASSUME NEW recs \in RecordSeq, NEW r \in Record
  PROVE  /\ Append(recs, r) \in RecordSeq
         /\ \A i \in DOMAIN Append(recs, r) :
              \/ i \in DOMAIN recs /\ Append(recs, r)[i] = recs[i]
              \/ Append(recs, r)[i] = r
<1>1. recs \in Seq(Record) /\ Append(recs, r) \in Seq(Record)
  BY DEF RecordSeq
<1>2. Len(recs) \in Nat /\ DOMAIN recs = 1 .. Len(recs)
      /\ DOMAIN Append(recs, r) = 1 .. Len(recs) + 1
  BY <1>1
<1>3. ASSUME NEW i \in DOMAIN Append(recs, r)
      PROVE  \/ i \in DOMAIN recs /\ Append(recs, r)[i] = recs[i]
             \/ Append(recs, r)[i] = r
  BY <1>2, <1>1
<1> QED BY <1>1, <1>3 DEF RecordSeq

\* header comments
LEMMA ReadComment ==
  ASSUME NEW p, Reading(p), NEW r \in Record
  PROVE  ReadTo(p, Put(p, "model", [p.m EXCEPT !.comments = Append(@, r)]), r)
<1> DEFINE m == p.m
           n == [m EXCEPT !.comments = Append(@, r)]
<1>1. m \in ModelType
  BY DEF Reading
<1>2. m.comments \in RecordSeq
  BY <1>1, ModelFields
<1>3. Append(m.comments, r) \in RecordSeq
  BY <1>2, OneMore
<1> HIDE DEF m
<1>4. /\ n \in ModelType /\ n.sections = m.sections /\ n.layers = m.layers
      /\ n.layerDict = m.layerDict /\ n.largest = m.largest
  BY <1>1, <1>3 DEF ModelType
<1> HIDE DEF n
<1>5. SameEntries(m, n)
  BY <1>4, SameSections DEF SameEntries
<1>6. "model" \in Loops /\ Open(Put(p, "model", n))
  BY <1>4, OpenEarly DEF Loops
<1>7. SameEntries(p.m, n)
  BY <1>5 DEF m
<1>8. ReadTo(p, Put(p, "model", n), r)
  BY <1>4, <1>6, <1>7, ReadQuiet
<1> QED BY <1>8 DEF n, m

\* the name of a section
LEMMA ReadName ==
  ASSUME NEW p, Reading(p), NEW r \in Record,
         NEW at, at = IF KindOf(r.str) = "tables" THEN "tables" ELSE "records"
  PROVE  ReadTo(p, Put(p, at, [p.m EXCEPT !.sections = Append(@, Section(KindOf(r.str), r.str))]), r)
<1> DEFINE m == p.m
           x == Section(KindOf(r.str), r.str)
           k == Len(m.sections) + 1
           n == [m EXCEPT !.sections = Append(@, x)]
<1>1. m \in ModelType /\ LayersIn(m, {}) /\ r.str \in STRING
  BY DEF Reading, Record
<1>2. x \in AnySection /\ x.kind = KindOf(r.str) /\ x.recs = << >> /\ x.items = << >>
  <2>1. KindOf(r.str) \in {"header", "tables", "unknown"}
    BY DEF KindOf
  <2>2. r.str = "HEADER" => KindOf(r.str) = "header"
    BY DEF KindOf
  <2>3. << >> \in RecordSeq /\ << >> \in Seq(ItemType(KindOf(r.str)))
    BY DEF RecordSeq
  <2>4. KindOf(r.str) \in Kinds
    BY <2>1 DEF Kinds
  <2>5. [kind |-> KindOf(r.str), name |-> r.str, recs |-> << >>, items |-> << >>] \in AnySection
    BY <1>1, <2>2, <2>3, <2>4, SectionMade
  <2> QED BY <2>5 DEF Section
<1> HIDE DEF x, m
<1>3. m.sections \in Seq(AnySection) /\ Len(m.sections) \in Nat
  BY <1>1, ModelFields
<1>4. Append(m.sections, x) = InsertAt(m.sections, k, x) /\ k \in 1 .. Len(m.sections) + 1
  BY <1>2, <1>3, AppendInserts
<1>5. n = PutSections(m, InsertAt(m.sections, k, x))
  BY <1>4 DEF PutSections
<1>k. k = Len(m.sections) + 1
  OBVIOUS
<1> HIDE DEF n, k
<1>6. /\ n \in ModelType /\ Len(n.sections) = k
      /\ k \in DOMAIN n.sections /\ n.sections[k] = x
      /\ Kept(m, n, {q \in Entries(n) : q[1] = k}, {k}, {})
  <2>1. k \in 1 .. Len(m.sections) + 1
    BY <1>4
  <2>2. GetsSection(m, PutSections(m, InsertAt(m.sections, k, x)), k, x)
    BY <1>1, <1>2, <2>1, SectionInserted
  <2> QED BY <2>2, <1>5, <1>k DEF GetsSection
<1>7. {q \in Entries(n) : q[1] = k} = {}
  <2>1. ASSUME NEW q \in Entries(n), q[1] = k PROVE FALSE
    <3>1. EntryIn(n, k, q[2], q[3])
      BY <2>1, EntriesAre
    <3>2. q[2] \in DOMAIN x.items
      BY <3>1, <1>6 DEF EntryIn
    <3> QED BY <3>2, <1>2
  <2> QED BY <2>1
<1>8. Kept(m, n, {}, {k}, {})
  BY <1>6, <1>7
<1>9. LayersIn(n, {})
  BY <1>1, <1>8, LayersCarried
<1>10. \A i, h : ~ SectionHandle(n, k, i, h)
  BY <1>2, <1>6 DEF SectionHandle
<1>11. at \in Loops
  BY DEF Loops
<1>12. Open(Put(p, at, n))
  <2>1. Put(p, at, n).at = at /\ Put(p, at, n).m = n /\ Here(Put(p, at, n)) = k
    BY <1>6, <1>11, PutIs DEF Here
  <2>2. at \in {"tables", "records"} /\ (at = "tables" <=> KindOf(r.str) = "tables")
    OBVIOUS
  <2>3. k \in DOMAIN n.sections /\ n.sections[k].kind = KindOf(r.str)
    BY <1>2, <1>6
  <2>4. at = "tables" => k \in Tables(n)
    BY <2>2, <2>3 DEF Tables
  <2> QED BY <2>1, <2>2, <2>3, <2>4 DEF Open
<1>13. Kept(p.m, n, {}, {k}, {})
  BY <1>8 DEF m
<1>14. ReadTo(p, Put(p, at, n), r)
  <2>1. Brings(p.m, n, r, {}, {k}, {})
    BY <1>10, <1>13 DEF Brings
  <2>2. n \in ModelType
    BY <1>6
  <2> QED BY <2>1, <2>2, <1>9, <1>11, <1>12, ReadKept
<1> QED BY <1>14 DEF n, x, m

\* sequences of one domain have one length
LEMMA SameLength ==
  ASSUME NEW S, NEW T, NEW a \in Seq(S), NEW b \in Seq(T), DOMAIN a = DOMAIN b
  PROVE  Len(a) = Len(b)
OBVIOUS

\* The section that is read is the same while their number is.
LEMMA SameHere ==
  ASSUME NEW m \in ModelType, NEW n \in ModelType, DOMAIN n.sections = DOMAIN m.sections
  PROVE  Len(n.sections) = Len(m.sections)
<1>1. m.sections \in Seq(AnySection) /\ n.sections \in Seq(AnySection)
  BY ModelFields
<1> QED BY <1>1, SameLength

\* The table that is read is the same while their number is.
LEMMA SameItems ==
  ASSUME NEW m \in ModelType, NEW n \in ModelType, NEW s \in Tables(m), s \in Tables(n),
         DOMAIN n.sections[s].items = DOMAIN m.sections[s].items
  PROVE  Len(n.sections[s].items) = Len(m.sections[s].items)
<1>1. m.sections[s].items \in Seq(TableType) /\ n.sections[s].items \in Seq(TableType)
  BY TableFields
<1> QED BY <1>1, SameLength

\* the records of a header or of an unknown section
LEMMA ReadRecords ==
  ASSUME NEW p, Reading(p), p.at = "records", NEW r \in Record
  PROVE  ReadTo(p, ReadIntoSection(p, r), r)
<1> DEFINE m == p.m
           s == Here(p)
           recs == Append(m.sections[s].recs, r)
           n == PutRecs(m, s, recs)
<1>1. m \in ModelType /\ LayersIn(m, {}) /\ HandlesIn(m, {})
  BY DEF Reading
<1>2. s \in DOMAIN m.sections /\ m.sections[s].kind # "tables" /\ s = Len(m.sections)
  BY DEF Reading, Open, Here
<1>3. m.sections[s].recs \in RecordSeq
  BY <1>1, <1>2, ModelFields, SectionFields
<1>4. recs \in RecordSeq
      /\ \A i \in DOMAIN recs : \/ i \in DOMAIN m.sections[s].recs /\ recs[i] = m.sections[s].recs[i]
                                \/ recs[i] = r
  BY <1>3, OneMore
<1>5. ReadIntoSection(p, r) =
        IF r # Str(0, "ENDSEC") THEN Put(p, "records", n)
        ELSE Put(p, "model", IF m.sections[s].kind = "header" THEN m ELSE n)
  BY DEF ReadIntoSection, PutRecs
<1> HIDE DEF m, s, recs
<1>6. GetsRecs(m, n, s, recs)
  BY <1>1, <1>2, <1>4, RecsChanged
<1> HIDE DEF n
<1>7. /\ n \in ModelType /\ DOMAIN n.sections = DOMAIN m.sections
      /\ n.sections[s].kind = m.sections[s].kind /\ n.sections[s].recs = recs
      /\ Unknown(n) = Unknown(m) /\ Kept(m, n, {}, {s}, {})
  BY <1>6 DEF GetsRecs
<1>8. LayersIn(n, {})
  BY <1>1, <1>7, LayersCarried
<1>9. ASSUME NEW i, NEW h, SectionHandle(n, s, i, h) PROVE Under(h, m.largest, r)
  <2>1. s \in Unknown(m) /\ i \in DOMAIN recs /\ recs[i].code = 5 /\ recs[i].num = h
    BY <1>7, <1>9 DEF SectionHandle
  <2>2. CASE i \in DOMAIN m.sections[s].recs /\ recs[i] = m.sections[s].recs[i]
    <3>1. SectionHandle(m, s, i, h)
      BY <2>1, <2>2 DEF SectionHandle
    <3>2. h \in Int /\ h <= m.largest
      BY <1>1, <3>1 DEF HandlesIn
    <3> QED BY <3>2 DEF Under
  <2>3. CASE recs[i] = r
    BY <2>1, <2>3 DEF Record, Under
  <2> QED BY <1>4, <2>1, <2>2, <2>3
<1>10. ASSUME NEW at \in {"records", "model"} PROVE ReadTo(p, Put(p, at, n), r)
  <2>1. at \in Loops
    BY DEF Loops
  <2>2. Open(Put(p, at, n))
    <3>1. Put(p, at, n).at = at /\ Put(p, at, n).m = n
      BY <2>1, <1>7, PutIs
    <3>2. Here(Put(p, at, n)) = s
      BY <1>1, <1>2, <1>7, <3>1, SameHere DEF Here
    <3> QED BY <3>1, <3>2, <1>2, <1>7 DEF Open
  <2>3. Brings(m, n, r, {}, {s}, {})
    BY <1>7, <1>9 DEF Brings
  <2>4. Brings(p.m, n, r, {}, {s}, {}) /\ n \in ModelType
    BY <1>7, <2>3 DEF m
  <2> QED BY <2>1, <2>2, <2>4, <1>8, ReadKept
<1>11. ReadTo(p, Put(p, "model", m), r)
  BY <1>1, OpenEarly, ReadNothing DEF Loops, m
<1>12. ReadTo(p, Put(p, "records", n), r) /\ ReadTo(p, Put(p, "model", n), r)
  BY <1>10
<1> QED BY <1>5, <1>11, <1>12

\* the table that is read is the last of the last section
LEMMA OpenTable ==
  ASSUME NEW p, NEW at \in {"tables", "table"}, NEW n \in ModelType,
         NEW s, s = Len(n.sections), s \in Tables(n),
         at = "table" => Len(n.sections[s].items) \in DOMAIN n.sections[s].items
  PROVE  Open(Put(p, at, n)) /\ at \in Loops
<1>1. at \in Loops
  BY DEF Loops
<1>2. Put(p, at, n).at = at /\ Put(p, at, n).m = n
  BY <1>1, PutIs
<1>3. Here(Put(p, at, n)) = s
  BY <1>2 DEF Here
<1> QED BY <1>1, <1>2, <1>3 DEF Open, Items, ThisTable

\* what a table has before its entries
LEMMA TableType0 ==
  ASSUME NEW table \in TableType
  PROVE  /\ table.entries \in Seq(EntryType) /\ table.recs \in RecordSeq
         /\ \A name \in STRING : /\ [table EXCEPT !.name = name] \in TableType
                                 /\ [table EXCEPT !.name = name].entries = table.entries
         /\ \A recs \in RecordSeq : /\ [table EXCEPT !.recs = recs] \in TableType
                                    /\ [table EXCEPT !.recs = recs].entries = table.entries
BY DEF TableType

\* a new table has no entries
LEMMA TableMade == Table \in TableType /\ Table.entries = << >>
<1>1. << >> \in RecordSeq /\ << >> \in Seq(EntryType)
  BY DEF RecordSeq
<1>2. NoName \in STRING
  BY StringAssumption
<1> QED BY <1>1, <1>2 DEF Table, TableType

\* a new entry has the type of one
LEMMA EntryMade ==
  ASSUME NEW table \in STRING
  PROVE  /\ Entry(table) \in EntryType /\ Entry(table).info = 0 /\ Entry(table).recs = << >>
         /\ Entry(table).table = table
<1>1. << >> \in RecordSeq
  BY DEF RecordSeq
<1> QED BY <1>1 DEF Entry, EntryType

\* the tables of a section of tables
LEMMA ReadTables ==
  ASSUME NEW p, Reading(p), p.at = "tables", NEW r
  PROVE  /\ ReadTo(p, Put(p, "model", p.m), r)
         /\ ReadTo(p, Put(p, "table", [p.m EXCEPT !.sections[Here(p)].items = Append(@, Table)]), r)
<1> DEFINE m == p.m
           s == Here(p)
           items == m.sections[s].items
           t == Len(items) + 1
           n == PutItems(m, s, InsertAt(items, t, Table))
<1>1. m \in ModelType /\ LayersIn(m, {})
  BY DEF Reading
<1>2. s \in Tables(m) /\ s = Len(m.sections)
  BY DEF Reading, Open, Here
<1>3. items \in Seq(TableType)
  BY <1>1, <1>2, TableFields
<1>4. Append(items, Table) = InsertAt(items, t, Table) /\ t \in 1 .. Len(items) + 1
  <2> HIDE DEF items
  <2> QED BY <1>3, TableMade, AppendInserts
<1>5. [m EXCEPT !.sections[s].items = Append(@, Table)] = n
  BY <1>4 DEF PutItems
<1>6. GetsNewTable(m, n, s, t, Table)
  <2> HIDE DEF m, s
  <2>1. t \in 1 .. Len(m.sections[s].items) + 1
    BY <1>4
  <2> HIDE DEF t
  <2> QED BY <1>1, <1>2, <2>1, TableMade, TableInserted
<1>t. t = Len(m.sections[s].items) + 1
  OBVIOUS
<1> HIDE DEF n, t, s, m
<1>7. /\ n \in ModelType /\ Tables(n) = Tables(m) /\ DOMAIN n.sections = DOMAIN m.sections
      /\ Len(n.sections[s].items) = t
      /\ t \in DOMAIN n.sections[s].items
      /\ Kept(m, n, {}, {}, {})
  BY <1>6, <1>t DEF GetsNewTable
<1>8. LayersIn(n, {})
  BY <1>1, <1>7, LayersCarried
<1>9. s = Len(n.sections)
  BY <1>1, <1>2, <1>7, SameHere
<1>10. Open(Put(p, "table", n)) /\ "table" \in Loops
  BY <1>2, <1>7, <1>9, OpenTable
<1>11. ReadTo(p, Put(p, "table", n), r)
  <2>1. Brings(m, n, r, {}, {}, {})
    BY <1>7 DEF Brings
  <2>2. Brings(p.m, n, r, {}, {}, {}) /\ n \in ModelType
    BY <1>7, <2>1 DEF m
  <2> QED BY <1>8, <1>10, <2>2, ReadKept
<1>12. ReadTo(p, Put(p, "model", m), r)
  BY <1>1, OpenEarly, ReadNothing DEF Loops, m
<1> QED BY <1>5, <1>11, <1>12 DEF m, s

\* an entry of a table begins
LEMMA ReadEntry ==
  ASSUME NEW p, Reading(p), p.at = "table", NEW r \in Record,
         NEW s, s = Here(p), NEW t, t = ThisTable(p)
  PROVE  ReadTo(p, Put(p, "entry",
                   [p.m EXCEPT !.sections[s].items[t].entries = Append(@, Entry(r.str))]), r)
<1> DEFINE m == p.m
           entries == m.sections[s].items[t].entries
           k == Len(entries) + 1
           e == Entry(r.str)
           n == PutEntries(m, s, t, InsertAt(entries, k, e))
<1>1. m \in ModelType /\ LayersIn(m, {})
  BY DEF Reading
<1>2. s \in Tables(m) /\ s = Len(m.sections)
  BY DEF Reading, Open, Here
<1>3. t \in DOMAIN m.sections[s].items /\ t = Len(m.sections[s].items)
  BY DEF Reading, Open, ThisTable, Items
<1>4. entries \in Seq(EntryType)
  BY <1>1, <1>2, <1>3, TableFields
<1>5. e \in EntryType /\ e.info = 0 /\ e.recs = << >>
  BY EntryMade DEF Record
<1>6. Append(entries, e) = InsertAt(entries, k, e) /\ k \in 1 .. Len(entries) + 1
  <2> HIDE DEF entries, e
  <2> QED BY <1>4, <1>5, AppendInserts
<1>7. [m EXCEPT !.sections[s].items[t].entries = Append(@, e)] = n
  BY <1>6 DEF PutEntries
<1>8. GetsEntry(m, n, s, t, k, e)
  <2> HIDE DEF m, e
  <2>1. k \in 1 .. Len(m.sections[s].items[t].entries) + 1
    BY <1>6
  <2> HIDE DEF k
  <2> QED BY <1>1, <1>2, <1>3, <1>5, <2>1, EntryInserted
<1>k. k = Len(m.sections[s].items[t].entries) + 1
  OBVIOUS
<1> HIDE DEF n, k, m, e
<1>9. /\ n \in ModelType /\ Tables(n) = Tables(m) /\ DOMAIN n.sections = DOMAIN m.sections
      /\ DOMAIN n.sections[s].items = DOMAIN m.sections[s].items
      /\ Len(n.sections[s].items[t].entries) = k
      /\ EntryIn(n, s, t, k) /\ EntryAt(n, <<s, t, k>>) = e
      /\ Kept(m, n, {<<s, t, k>>}, {}, {})
  BY <1>8, <1>k DEF GetsEntry
<1>10. LayersIn(n, {})
  BY <1>1, <1>5, <1>9, LayersCarried
<1>11. Len(n.sections) = s /\ Len(n.sections[s].items) = t
  <2>1. Len(n.sections) = s
    BY <1>1, <1>2, <1>9, SameHere
  <2>2. n \in ModelType /\ s \in Tables(n)
    BY <1>2, <1>9
  <2> QED BY <1>1, <1>2, <1>3, <1>9, <2>1, <2>2, SameItems
<1>12. Open(Put(p, "entry", n)) /\ "entry" \in Loops
  <2>1. "entry" \in Loops
    BY DEF Loops
  <2>2. Put(p, "entry", n).at = "entry" /\ Put(p, "entry", n).m = n
    BY <2>1, <1>9, PutIs
  <2>3. /\ Here(Put(p, "entry", n)) = s /\ ThisTable(Put(p, "entry", n)) = t
        /\ ThisEntry(Put(p, "entry", n)) = k
    BY <2>2, <1>9, <1>11 DEF Here, ThisTable, ThisEntry, Items
  <2>4. t \in DOMAIN Items(Put(p, "entry", n))
    BY <2>2, <1>3, <1>9, <1>11 DEF Items, Here
  <2> HIDE DEF k
  <2> QED BY <2>1, <2>2, <2>3, <2>4, <1>2, <1>5, <1>9 DEF Open
<1>13. \A i, h : ~ EntryHandle(n, <<s, t, k>>, i, h)
  BY <1>5, <1>9 DEF EntryHandle
<1>14. ReadTo(p, Put(p, "entry", n), r)
  <2>1. Brings(m, n, r, {<<s, t, k>>}, {}, {})
    BY <1>9, <1>13 DEF Brings
  <2>2. Brings(p.m, n, r, {<<s, t, k>>}, {}, {}) /\ n \in ModelType
    BY <1>9, <2>1 DEF m
  <2> QED BY <2>2, <1>10, <1>12, ReadKept
<1> QED BY <1>7, <1>14 DEF m, e

\* the name of a table, or another of its records
LEMMA ReadTableRecord ==
  ASSUME NEW p, Reading(p), p.at = "table", NEW r,
         NEW s, s = Here(p), NEW t, t = ThisTable(p),
         NEW table \in TableType, table.entries = p.m.sections[s].items[t].entries
  PROVE  ReadTo(p, Put(p, "table", PutTable(p.m, s, t, table)), r)
<1> DEFINE m == p.m
           n == PutTable(m, s, t, table)
<1>1. m \in ModelType /\ LayersIn(m, {})
  BY DEF Reading
<1>2. s \in Tables(m) /\ s = Len(m.sections)
  BY DEF Reading, Open, Here
<1>3. t \in DOMAIN m.sections[s].items /\ t = Len(m.sections[s].items)
  BY DEF Reading, Open, ThisTable, Items
<1>4. GetsTable(m, n, s, t, table)
  BY <1>1, <1>2, <1>3, TableEdited
<1> HIDE DEF n
<1>5. n \in ModelType /\ SameEntries(m, n) /\ SameShape(m, n)
  BY <1>4 DEF GetsTable
<1>6. /\ DOMAIN n.sections = DOMAIN m.sections /\ Tables(n) = Tables(m)
      /\ DOMAIN n.sections[s].items = DOMAIN m.sections[s].items
  BY <1>2, <1>5 DEF SameShape
<1>7. Len(n.sections) = s /\ Len(n.sections[s].items) = t
  <2>1. Len(n.sections) = s
    BY <1>1, <1>2, <1>5, <1>6, SameHere
  <2>2. n \in ModelType /\ s \in Tables(n)
    BY <1>2, <1>5, <1>6
  <2> QED BY <1>1, <1>2, <1>3, <1>6, <2>1, <2>2, SameItems
<1>8. Open(Put(p, "table", n)) /\ "table" \in Loops
  BY <1>2, <1>3, <1>5, <1>6, <1>7, OpenTable
<1> QED BY <1>5, <1>8, ReadQuiet DEF n

\* dimeTable::read(): an entry begins, or the table ends.
LEMMA ReadTable ==
  ASSUME NEW p, Reading(p), p.at = "table", NEW r \in Readable
  PROVE  ReadTo(p, ReadIntoTable(p, r), r)
<1> DEFINE s == Here(p)
           t == ThisTable(p)
           old == p.m.sections[s].items[t]
<1>1. r \in Record
  BY DEF Readable
<1>2. p.m \in ModelType /\ s \in Tables(p.m) /\ t \in DOMAIN p.m.sections[s].items
  BY DEF Reading, Open, Items
<1>3. old \in TableType
  BY <1>2, TableFields
<1>4. CASE r = Str(0, "ENDTAB")
  <2>1. ReadIntoTable(p, r) = Put(p, "tables", p.m)
    BY <1>4 DEF ReadIntoTable, Str
  <2>2. s = Len(p.m.sections)
    BY DEF Here
  <2>3. Open(Put(p, "tables", p.m)) /\ "tables" \in Loops
    BY <1>2, <2>2, OpenTable
  <2> QED BY <2>1, <2>3, ReadNothing
<1>5. CASE r.code = 0 /\ r.str # "ENDTAB" /\ r # Str(0, "ENDTAB")
  <2>1. ReadIntoTable(p, r) =
          Put(p, "entry", [p.m EXCEPT !.sections[s].items[t].entries = Append(@, Entry(r.str))])
    BY <1>5 DEF ReadIntoTable
  <2>2. s = Here(p) /\ t = ThisTable(p)
    OBVIOUS
  <2> HIDE DEF s, t
  <2>3. ReadTo(p, Put(p, "entry",
                 [p.m EXCEPT !.sections[s].items[t].entries = Append(@, Entry(r.str))]), r)
    BY <1>1, <2>2, ReadEntry
  <2> QED BY <2>1, <2>3
<1>6. CASE r.code = 2
  <2>1. r # Str(0, "ENDTAB")
    BY <1>6 DEF Str
  <2>2. ReadIntoTable(p, r) = Put(p, "table", PutTable(p.m, s, t, [old EXCEPT !.name = r.str]))
    <3>1. ReadIntoTable(p, r) = Put(p, "table", [p.m EXCEPT !.sections[s].items[t].name = r.str])
      BY <1>6, <2>1 DEF ReadIntoTable
    <3>2. [p.m EXCEPT !.sections[s].items[t].name = r.str] =
            PutTable(p.m, s, t, [old EXCEPT !.name = r.str])
      BY DEF PutTable
    <3> QED BY <3>1, <3>2
  <2>3. r.str \in STRING
    BY <1>1 DEF Record
  <2>4. /\ [old EXCEPT !.name = r.str] \in TableType
        /\ [old EXCEPT !.name = r.str].entries = old.entries
    <3> HIDE DEF old
    <3> QED BY <1>3, <2>3, TableType0
  <2> QED BY <2>2, <2>4, ReadTableRecord
<1>7. CASE r.code = 70
  <2>1. r # Str(0, "ENDTAB")
    BY <1>7 DEF Str
  <2>2. ReadIntoTable(p, r) = p
    BY <1>7, <2>1 DEF ReadIntoTable
  <2>3. p = Put(p, "table", p.m)
    BY DEF Reading, Put
  <2>4. s = Len(p.m.sections) /\ t = Len(p.m.sections[s].items)
    BY DEF Here, ThisTable, Items
  <2>5. Open(Put(p, "table", p.m)) /\ "table" \in Loops
    BY <1>2, <2>4, OpenTable
  <2>6. ReadTo(p, Put(p, "table", p.m), r)
    BY <2>5, ReadNothing
  <2> QED BY <2>2, <2>3, <2>6
<1>8. CASE /\ r # Str(0, "ENDTAB") /\ r.code \notin {2, 70}
           /\ ~ (r.code = 0 /\ r.str # "ENDTAB")
  <2> DEFINE recs == Append(old.recs, r)
  <2>2. ReadIntoTable(p, r) = Put(p, "table", PutTable(p.m, s, t, [old EXCEPT !.recs = recs]))
    <3>1. ReadIntoTable(p, r) = Put(p, "table", [p.m EXCEPT !.sections[s].items[t].recs = Append(@, r)])
      BY <1>8 DEF ReadIntoTable
    <3>2. [p.m EXCEPT !.sections[s].items[t].recs = Append(@, r)] =
            PutTable(p.m, s, t, [old EXCEPT !.recs = recs])
      BY DEF PutTable
    <3> QED BY <3>1, <3>2
  <2>3. recs \in RecordSeq
    <3> HIDE DEF old
    <3>1. old.recs \in RecordSeq
      BY <1>3, TableType0
    <3> QED BY <1>1, <3>1, OneMore
  <2>4. /\ [old EXCEPT !.recs = recs] \in TableType
        /\ [old EXCEPT !.recs = recs].entries = old.entries
    <3> HIDE DEF old, recs
    <3> QED BY <1>3, <2>3, TableType0
  <2> HIDE DEF recs
  <2> QED BY <2>2, <2>4, ReadTableRecord
<1>9. \/ r = Str(0, "ENDTAB") \/ r.code = 2 \/ r.code = 70
      \/ (r # Str(0, "ENDTAB") /\ r.code \notin {2, 70} /\ ~ (r.code = 0 /\ r.str # "ENDTAB"))
      \/ (r.code = 0 /\ r.str # "ENDTAB" /\ r # Str(0, "ENDTAB"))
  OBVIOUS
<1> QED BY <1>4, <1>5, <1>6, <1>7, <1>8, <1>9

\* the entry that is read is the last of its table
LEMMA EntryOpen ==
  ASSUME NEW p, Reading(p), p.at = "entry",
         NEW s, s = Here(p), NEW t, t = ThisTable(p), NEW k, k = ThisEntry(p)
  PROVE  /\ p.m \in ModelType /\ LayersIn(p.m, {}) /\ HandlesIn(p.m, {})
         /\ s \in Tables(p.m) /\ s = Len(p.m.sections)
         /\ t \in DOMAIN p.m.sections[s].items /\ t = Len(p.m.sections[s].items)
         /\ k = Len(p.m.sections[s].items[t].entries)
         /\ EntryIn(p.m, s, t, k) /\ EntryAt(p.m, <<s, t, k>>).info = 0
         /\ EntryAt(p.m, <<s, t, k>>) = p.m.sections[s].items[t].entries[k]
         /\ EntryAt(p.m, <<s, t, k>>) \in EntryType
<1>1. p.m \in ModelType /\ LayersIn(p.m, {}) /\ HandlesIn(p.m, {})
  BY DEF Reading
<1>2. /\ s \in Tables(p.m) /\ t \in DOMAIN p.m.sections[s].items
      /\ EntryIn(p.m, s, t, k) /\ EntryAt(p.m, <<s, t, k>>).info = 0
  BY DEF Reading, Open, Items
<1>3. /\ s = Len(p.m.sections) /\ t = Len(p.m.sections[s].items)
      /\ k = Len(p.m.sections[s].items[t].entries)
  BY DEF Here, ThisTable, ThisEntry, Items
<1>4. /\ EntryAt(p.m, <<s, t, k>>) = p.m.sections[s].items[t].entries[k]
      /\ EntryAt(p.m, <<s, t, k>>) \in EntryType
  BY <1>1, <1>2, EntryTypes
<1> QED BY <1>1, <1>2, <1>3, <1>4

\* the end of a model, where it is read into
EndsAlike(m, n) ==
  /\ Len(n.sections) = Len(m.sections) /\ Tables(n) = Tables(m)
  /\ \A s \in Tables(m) : Len(n.sections[s].items) = Len(m.sections[s].items)

\* The same shape has the same ends.
LEMMA ShapeEnd ==
  ASSUME NEW m \in ModelType, NEW n \in ModelType, SameShape(m, n)
  PROVE  EndsAlike(m, n)
<1>1. /\ DOMAIN n.sections = DOMAIN m.sections /\ Tables(n) = Tables(m)
      /\ \A s \in Tables(m) : DOMAIN n.sections[s].items = DOMAIN m.sections[s].items
  BY DEF SameShape
<1>2. Len(n.sections) = Len(m.sections)
  BY <1>1, SameHere
<1>3. ASSUME NEW s \in Tables(m) PROVE Len(n.sections[s].items) = Len(m.sections[s].items)
  BY <1>1, SameItems
<1> QED BY <1>1, <1>2, <1>3 DEF EndsAlike

\* The loop stays open while the ends of the model stay.
LEMMA StillOpen ==
  ASSUME NEW p, Reading(p), p.at = "entry",
         NEW s, s = Here(p), NEW t, t = ThisTable(p), NEW k, k = ThisEntry(p),
         NEW n \in ModelType, SameShape(p.m, n), EntryIn(n, s, t, k),
         EntryAt(n, <<s, t, k>>).info = 0,
         Len(n.sections[s].items[t].entries) = Len(p.m.sections[s].items[t].entries)
  PROVE  Open(Put(p, "entry", n)) /\ "entry" \in Loops
<1>1. /\ p.m \in ModelType /\ s \in Tables(p.m) /\ s = Len(p.m.sections)
      /\ t = Len(p.m.sections[s].items)
      /\ k = Len(p.m.sections[s].items[t].entries)
  BY ZenonT(60), EntryOpen
<1>2. s \in Tables(n) /\ s = Len(n.sections) /\ t = Len(n.sections[s].items)
  BY <1>1, ShapeEnd DEF EndsAlike
<1>3. "entry" \in Loops
  BY DEF Loops
<1>4. Put(p, "entry", n).at = "entry" /\ Put(p, "entry", n).m = n
  BY <1>3, PutIs
<1>5. /\ Here(Put(p, "entry", n)) = s /\ ThisTable(Put(p, "entry", n)) = t
      /\ ThisEntry(Put(p, "entry", n)) = k
  BY <1>1, <1>2, <1>4 DEF Here, ThisTable, ThisEntry, Items
<1>6. t \in DOMAIN Items(Put(p, "entry", n))
  BY <1>2, <1>4, <1>5 DEF Items, EntryIn
<1> QED BY <1>2, <1>3, <1>4, <1>5, <1>6 DEF Open

\* the name or another record of an entry
LEMMA ReadEntryRecord ==
  ASSUME NEW p, Reading(p), p.at = "entry", NEW r \in Record,
         NEW s, s = Here(p), NEW t, t = ThisTable(p), NEW k, k = ThisEntry(p),
         NEW e \in EntryType, e.info = 0,
         \A i \in DOMAIN e.recs :
           \/ i \in DOMAIN EntryAt(p.m, <<s, t, k>>).recs
              /\ e.recs[i] = EntryAt(p.m, <<s, t, k>>).recs[i]
           \/ e.recs[i] = r
  PROVE  ReadTo(p, Put(p, "entry", PutEntry(p.m, s, t, k, e)), r)
<1> DEFINE m == p.m
           n == PutEntry(m, s, t, k, e)
           New == {<<s, t, k>>}
<1>1. /\ m \in ModelType /\ LayersIn(m, {}) /\ HandlesIn(m, {})
      /\ EntryIn(m, s, t, k) /\ EntryAt(m, <<s, t, k>>).info = 0
  BY EntryOpen
<1>2. BecomesEntry(m, n, s, t, k, e)
  BY <1>1, EntryChanged
<1>3. /\ n \in ModelType /\ LayersIn(n, {}) /\ SameShape(m, n)
      /\ EntryIn(n, s, t, k) /\ EntryAt(n, <<s, t, k>>) = e
      /\ Len(n.sections[s].items[t].entries) = Len(m.sections[s].items[t].entries)
  <2>1. EditsEntry(m, n, {}, s, t, k, e)
    BY <1>1, EntryEdited
  <2> QED BY <2>1 DEF EditsEntry
<1> HIDE DEF n
<1>4. Kept(m, n, New, {}, New)
  BY <1>2 DEF BecomesEntry
<1>5. ASSUME NEW i, NEW h, EntryHandle(n, <<s, t, k>>, i, h) PROVE Under(h, m.largest, r)
  <2>1. i \in DOMAIN e.recs /\ e.recs[i].code = 5 /\ e.recs[i].num = h
    BY <1>3, <1>5 DEF EntryHandle
  <2>2. CASE i \in DOMAIN EntryAt(m, <<s, t, k>>).recs
             /\ e.recs[i] = EntryAt(m, <<s, t, k>>).recs[i]
    <3>0. <<s, t, k>> \in Entries(m)
      BY <1>1, EntryTypes
    <3>1. EntryHandle(m, <<s, t, k>>, i, h)
      BY <2>1, <2>2, <3>0 DEF EntryHandle
    <3>2. h \in Int /\ h <= m.largest
      BY <1>1, <3>1 DEF HandlesIn
    <3> QED BY <3>2 DEF Under
  <2>3. CASE e.recs[i] = r
    BY <2>1, <2>3 DEF Record, Under
  <2> QED BY <2>1, <2>2, <2>3
<1>6. Open(Put(p, "entry", n)) /\ "entry" \in Loops
  BY <1>1, <1>3, StillOpen
<1>7. ReadTo(p, Put(p, "entry", n), r)
  <2>1. Brings(m, n, r, New, {}, New)
    BY <1>4, <1>5 DEF Brings
  <2>2. Brings(p.m, n, r, New, {}, New) /\ n \in ModelType
    BY <1>3, <2>1 DEF m
  <2>3. LayersIn(n, {})
    BY <1>3
  <2> QED BY <2>2, <2>3, <1>6, ReadKept
<1> QED BY <1>7 DEF n, m

\* the layer's color
LEMMA ReadEntryColor ==
  ASSUME NEW p, Reading(p), p.at = "entry", NEW r \in Record,
         NEW s, s = Here(p), NEW t, t = ThisTable(p), NEW k, k = ThisEntry(p),
         NEW color \in Int
  PROVE  ReadTo(p, Put(p, "entry", SetColorNumber(p.m, s, t, k, color)), r)
<1> DEFINE m == p.m
           n == SetColorNumber(m, s, t, k, color)
<1>1. /\ m \in ModelType /\ LayersIn(m, {}) /\ HandlesIn(m, {})
      /\ EntryIn(m, s, t, k) /\ EntryAt(m, <<s, t, k>>).info = 0
  BY EntryOpen
<1>2. /\ n \in ModelType /\ LayersIn(n, {}) /\ SameHolders(m, n) /\ SameShape(m, n)
      /\ EntryIn(n, s, t, k) /\ EntryAt(n, <<s, t, k>>).info = EntryAt(m, <<s, t, k>>).info
      /\ Len(n.sections[s].items[t].entries) = Len(m.sections[s].items[t].entries)
  <2>1. ColorsEntry(m, n, {}, s, t, k)
    BY <1>1, ColorSet
  <2> QED BY <2>1 DEF ColorsEntry
<1> HIDE DEF n
<1>3. Open(Put(p, "entry", n)) /\ "entry" \in Loops
  BY <1>1, <1>2, StillOpen
<1> QED BY <1>2, <1>3, ReadSame DEF n

\* the end of an entry, which registers its layer
LEMMA ReadEntryEnd ==
  ASSUME NEW p, Reading(p), p.at = "entry", NEW r \in Readable,
         NEW s, s = Here(p), NEW t, t = ThisTable(p), NEW k, k = ThisEntry(p)
  PROVE  ReadTo(p, ReadIntoTable(Put(p, "table", RegisterLayer(p.m, s, t, k)), r), r)
<1> DEFINE m == p.m
           n == RegisterLayer(m, s, t, k)
           q == Put(p, "table", n)
<1>1. /\ m \in ModelType /\ LayersIn(m, {}) /\ HandlesIn(m, {})
      /\ EntryIn(m, s, t, k) /\ s \in Tables(m) /\ s = Len(m.sections)
      /\ t \in DOMAIN m.sections[s].items /\ t = Len(m.sections[s].items)
  BY EntryOpen
<1>2. n \in ModelType /\ LayersIn(n, {}) /\ SameHolders(m, n) /\ SameShape(m, n)
  BY <1>1, LayerRegisters DEF Registers
<1> HIDE DEF n
<1>3. s \in Tables(n) /\ s = Len(n.sections) /\ t = Len(n.sections[s].items)
  BY <1>1, <1>2, ShapeEnd DEF EndsAlike
<1>4. t \in DOMAIN n.sections[s].items
  BY <1>1, <1>2 DEF SameShape
<1>5. Open(q) /\ "table" \in Loops
  BY <1>2, <1>3, <1>4, OpenTable
<1>6. q \in [at : Loops, m : ModelType] /\ q.at = "table" /\ q.m = n
  BY <1>2, <1>5, PutIs
<1> HIDE DEF q
<1>7. HandlesIn(n, {})
  BY <1>1, <1>2, HandlesSame
<1>8. Reading(q)
  BY <1>2, <1>5, <1>6, <1>7 DEF Reading
<1>9. ReadTo(q, ReadIntoTable(q, r), r)
  BY <1>6, <1>8, ReadTable
<1>10. q.m.largest = p.m.largest
  BY <1>2, <1>6 DEF SameHolders
<1>11. ReadTo(p, ReadIntoTable(q, r), r)
  BY <1>9, <1>10 DEF ReadTo
<1> QED BY <1>11 DEF q, n, m

\* dimeTableEntry::read(): one record of an entry, or its end.
LEMMA ReadEntries ==
  ASSUME NEW p, Reading(p), p.at = "entry", NEW r \in Readable
  PROVE  ReadTo(p, ReadIntoEntry(p, r), r)
<1> DEFINE s == Here(p)
           t == ThisTable(p)
           k == ThisEntry(p)
           old == p.m.sections[s].items[t].entries[k]
           layer == Items(p)[t].entries[k].table = "LAYER"
<1>0. s = Here(p) /\ t = ThisTable(p) /\ k = ThisEntry(p)
  OBVIOUS
<1>1. r \in Record /\ r.num \in Int
  BY DEF Readable, Record
<1>2. /\ p.m \in ModelType /\ EntryIn(p.m, s, t, k)
      /\ old.info = 0 /\ EntryAt(p.m, <<s, t, k>>) = old /\ old \in EntryType
  BY ZenonT(60), EntryOpen
<1>3. CASE r.code = 0
  <2>1. ReadIntoEntry(p, r) = ReadIntoTable(Put(p, "table", RegisterLayer(p.m, s, t, k)), r)
    BY <1>3 DEF ReadIntoEntry
  <2> HIDE DEF s, t, k
  <2> QED BY <1>0, <2>1, ReadEntryEnd
<1>4. CASE r.code = 2 /\ layer
  <2> DEFINE e == [old EXCEPT !.name = r.str]
  <2>1. ReadIntoEntry(p, r) = Put(p, "entry", PutEntry(p.m, s, t, k, e))
    <3>1. ReadIntoEntry(p, r) =
            Put(p, "entry", [p.m EXCEPT !.sections[s].items[t].entries[k].name = r.str])
      BY <1>4 DEF ReadIntoEntry
    <3>2. [p.m EXCEPT !.sections[s].items[t].entries[k].name = r.str] =
            PutEntry(p.m, s, t, k, e)
      BY DEF PutEntry
    <3> QED BY <3>1, <3>2
  <2>2. r.str \in Keys \cup {NoName}
    BY <1>4 DEF Readable
  <2>3. e \in EntryType /\ e.info = 0 /\ e.recs = old.recs
    <3> HIDE DEF old
    <3>1. e \in EntryType
      BY <1>2, <2>2, EntryTyped
    <3> QED BY <1>2, <3>1 DEF EntryType
  <2> HIDE DEF e, s, t, k, old
  <2>4. \A i \in DOMAIN e.recs :
          \/ i \in DOMAIN EntryAt(p.m, <<s, t, k>>).recs
             /\ e.recs[i] = EntryAt(p.m, <<s, t, k>>).recs[i]
          \/ e.recs[i] = r
    BY <1>2, <2>3
  <2>5. ReadTo(p, Put(p, "entry", PutEntry(p.m, s, t, k, e)), r)
    BY <1>0, <1>1, <2>3, <2>4, ReadEntryRecord
  <2> QED BY <2>1, <2>5
<1>5. CASE r.code = 62 /\ layer
  <2>1. ReadIntoEntry(p, r) = Put(p, "entry", SetColorNumber(p.m, s, t, k, r.num))
    BY <1>5 DEF ReadIntoEntry
  <2> HIDE DEF s, t, k
  <2> QED BY <1>0, <1>1, <2>1, ReadEntryColor
<1>6. CASE r.code # 0 /\ ~ (r.code = 2 /\ layer) /\ ~ (r.code = 62 /\ layer)
  <2> DEFINE recs == Append(old.recs, r)
             e == [old EXCEPT !.recs = recs]
  <2>1. ReadIntoEntry(p, r) = Put(p, "entry", PutEntry(p.m, s, t, k, e))
    <3>1. ReadIntoEntry(p, r) =
            Put(p, "entry", [p.m EXCEPT !.sections[s].items[t].entries[k].recs = Append(@, r)])
      BY <1>6 DEF ReadIntoEntry
    <3>2. [p.m EXCEPT !.sections[s].items[t].entries[k].recs = Append(@, r)] =
            PutEntry(p.m, s, t, k, e)
      BY DEF PutEntry
    <3> QED BY <3>1, <3>2
  <2>2. /\ recs \in RecordSeq
        /\ \A i \in DOMAIN recs : \/ i \in DOMAIN old.recs /\ recs[i] = old.recs[i]
                                  \/ recs[i] = r
    <3> HIDE DEF old
    <3>1. old.recs \in RecordSeq
      BY <1>2, EntryTyped
    <3> QED BY <1>1, <3>1, OneMore
  <2>3. e \in EntryType /\ e.info = 0 /\ e.recs = recs
    <3> HIDE DEF old, recs
    <3>1. e \in EntryType
      BY <1>2, <2>2, EntryTyped
    <3> QED BY <1>2, <3>1 DEF EntryType
  <2> HIDE DEF e, s, t, k, old, recs
  <2>4. \A i \in DOMAIN e.recs :
          \/ i \in DOMAIN EntryAt(p.m, <<s, t, k>>).recs
             /\ e.recs[i] = EntryAt(p.m, <<s, t, k>>).recs[i]
          \/ e.recs[i] = r
    BY <1>2, <2>2, <2>3
  <2>5. ReadTo(p, Put(p, "entry", PutEntry(p.m, s, t, k, e)), r)
    BY <1>0, <1>1, <2>3, <2>4, ReadEntryRecord
  <2> QED BY <2>1, <2>5
<1> QED BY <1>3, <1>4, <1>5, <1>6

\* Every loop of the reader takes its record and keeps the model sound.
LEMMA ReadsRecord ==
  ASSUME NEW p, Reading(p), NEW r \in Readable
  PROVE  ReadTo(p, ReadRecord(p, r), r)
<1>1. r \in Record /\ p.m \in ModelType /\ p.at \in Loops
  BY DEF Readable, Reading
<1>2. ReadTo(p, p, r)
  <2>1. p = Put(p, p.at, p.m) /\ Open(p)
    BY DEF Put, Reading
  <2>2. Open(Put(p, p.at, p.m))
    BY <2>1
  <2>3. ReadTo(p, Put(p, p.at, p.m), r)
    BY <1>1, <2>2, ReadNothing
  <2> QED BY <2>1, <2>3
<1>3. CASE p.at = "model"
  <2>1. CASE r.code = 999
    BY <1>3, <2>1, <1>1, ReadComment DEF ReadRecord
  <2>2. CASE r.code = 0
    <3> DEFINE at == IF r.str = "EOF" THEN "end" ELSE "name"
    <3>1. ReadRecord(p, r) = Put(p, at, p.m)
      BY <1>3, <2>2 DEF ReadRecord
    <3>2. at \in {"model", "name", "end"} /\ at \in Loops
      BY DEF Loops
    <3> HIDE DEF at
    <3>3. Open(Put(p, at, p.m))
      BY <1>1, <3>2, OpenEarly
    <3> QED BY <3>1, <3>2, <3>3, ReadNothing
  <2>3. CASE r.code \notin {0, 999}
    BY <1>3, <2>3, <1>2 DEF ReadRecord
  <2> QED BY <2>1, <2>2, <2>3
<1>4. CASE p.at = "name"
  <2> DEFINE at == IF KindOf(r.str) = "tables" THEN "tables" ELSE "records"
  <2>1. ReadRecord(p, r) = Put(p, at, [p.m EXCEPT !.sections = Append(@, Section(KindOf(r.str), r.str))])
    BY <1>4 DEF ReadRecord
  <2>2. at = IF KindOf(r.str) = "tables" THEN "tables" ELSE "records"
    OBVIOUS
  <2> HIDE DEF at
  <2> QED BY <1>1, <2>1, <2>2, ReadName
<1>5. CASE p.at = "records"
  BY <1>5, <1>1, ReadRecords DEF ReadRecord
<1>6. CASE p.at = "tables"
  <2>1. ReadRecord(p, r) =
          IF r = Str(0, "ENDSEC") THEN Put(p, "model", p.m)
          ELSE Put(p, "table", [p.m EXCEPT !.sections[Here(p)].items = Append(@, Table)])
    BY <1>6 DEF ReadRecord
  <2>2. /\ ReadTo(p, Put(p, "model", p.m), r)
        /\ ReadTo(p, Put(p, "table", [p.m EXCEPT !.sections[Here(p)].items = Append(@, Table)]), r)
    BY <1>6, ReadTables
  <2> QED BY <2>1, <2>2
<1>7. CASE p.at = "table"
  BY <1>7, ReadTable DEF ReadRecord
<1>8. CASE p.at = "entry"
  BY <1>8, ReadEntries DEF ReadRecord
<1>9. CASE p.at = "end"
  BY <1>9, <1>2 DEF ReadRecord
<1> QED BY <1>1, <1>3, <1>4, <1>5, <1>6, <1>7, <1>8, <1>9 DEF Loops

\* The layers of a model do not depend on its largest handle.
LEMMA LayersSame ==
  ASSUME NEW m, NEW names, LayersIn(m, names), NEW n,
         n.sections = m.sections, n.layers = m.layers, n.layerDict = m.layerDict
  PROVE  LayersIn(n, names)
<1>1. Entries(n) = Entries(m) /\ \A p : EntryAt(n, p) = EntryAt(m, p)
  BY SameSections
<1>2. LayersKnown(n)
  BY DEF LayersIn, LayersKnown
<1>3. ASSUME NEW p \in Entries(n) PROVE EntryKnown(n, p) /\ Colored(n, p, names)
  BY <1>1 DEF LayersIn, EntryKnown, Colored, Alone
<1>4. ASSUME NEW i \in DOMAIN n.layers PROVE Claimed(n, i, names)
  BY <1>1 DEF LayersIn, Claimed
<1> QED BY <1>2, <1>3, <1>4 DEF LayersIn

\* One record is read, and the largest handle is that of the model or of the record.
LEMMA ReadsOne ==
  ASSUME NEW p, Reading(p), NEW r \in Readable, NEW junk \in Int
  PROVE  Reading(ReadOne(p, r, junk))
<1> DEFINE q == ReadRecord(p, r)
           n == q.m
           h == IF r.num = NoHandle THEN junk ELSE r.num
           x == RegisterHandle(n, r.num, junk)
<1>1. ReadTo(p, q, r)
  BY ReadsRecord
<1> HIDE DEF q
<1>2. /\ q \in [at : Loops, m : ModelType] /\ Open(q) /\ n \in ModelType /\ q.at \in Loops
      /\ LayersIn(n, {}) /\ Bounded(n, r)
  BY <1>1 DEF ReadTo
<1>3. n.largest \in Nat
  BY <1>2, ModelFields
<1>4. r.num \in Int /\ h \in Int
  BY DEF Readable, Record
<1> HIDE DEF n
<1>5. CASE r.code # 5
  <2>1. ReadOne(p, r, junk) = q
    BY <1>5 DEF ReadOne, q
  <2>2. ASSUME NEW y, NEW i, NEW g, EntryHandle(n, y, i, g) PROVE g \in Int /\ g <= n.largest
    BY <1>2, <1>5, <2>2 DEF Bounded, Under
  <2>3. ASSUME NEW s, NEW i, NEW g, SectionHandle(n, s, i, g) PROVE g \in Int /\ g <= n.largest
    BY <1>2, <1>5, <2>3 DEF Bounded, Under
  <2>4. HandlesIn(n, {})
    BY <2>2, <2>3 DEF HandlesIn
  <2> QED BY <2>1, <2>4, <1>2 DEF Reading, n
<1>6. CASE r.code = 5
  <2>1. x = RegisterNumber(n, h)
    BY DEF RegisterHandle
  <2> HIDE DEF h
  <2>2. x = IF h >= n.largest THEN [n EXCEPT !.largest = h] ELSE n
    BY <2>1 DEF RegisterNumber
  <2> HIDE DEF x
  <2>3. /\ x \in ModelType /\ x.sections = n.sections /\ x.layers = n.layers
        /\ x.layerDict = n.layerDict
        /\ x.largest = IF h >= n.largest THEN h ELSE n.largest
    <3>1. CASE h >= n.largest
      <4>1. h \in Nat
        BY <3>1, <1>3, <1>4
      <4> QED BY <3>1, <4>1, <2>2, <1>2 DEF ModelType
    <3>2. CASE ~ (h >= n.largest)
      BY <3>2, <2>2, <1>2
    <3> QED BY <3>1, <3>2
  <2>4. x.largest \in Nat /\ n.largest <= x.largest /\ r.num <= x.largest
    <3>1. x.largest \in Nat /\ n.largest <= x.largest /\ h <= x.largest
      BY <2>3, <1>3, <1>4
    <3>2. CASE r.num = NoHandle
      BY <3>2, <3>1 DEF NoHandle
    <3>3. CASE r.num # NoHandle
      BY <3>1, <3>3 DEF h
    <3> QED BY <3>1, <3>2, <3>3
  <2>5. ASSUME NEW g, Under(g, n.largest, r) PROVE g \in Int /\ g <= x.largest
    <3>1. g \in Int
      BY <2>5 DEF Under
    <3>2. CASE g <= n.largest
      BY <3>1, <3>2, <2>4, <1>3
    <3>3. CASE g = r.num
      BY <3>3, <2>4, <1>4
    <3> QED BY <3>1, <3>2, <3>3, <2>5 DEF Under
  <2>6. /\ Entries(x) = Entries(n) /\ Unknown(x) = Unknown(n) /\ Tables(x) = Tables(n)
        /\ \A y : EntryAt(x, y) = EntryAt(n, y)
    BY <2>3, SameSections
  <2>7. ASSUME NEW y, NEW i, NEW g, EntryHandle(x, y, i, g) PROVE g \in Int /\ g <= x.largest
    <3>1. EntryHandle(n, y, i, g)
      BY <2>6, <2>7 DEF EntryHandle
    <3>2. Under(g, n.largest, r)
      BY <3>1, <1>2 DEF Bounded
    <3> QED BY <3>2, <2>5
  <2>8. ASSUME NEW s, NEW i, NEW g, SectionHandle(x, s, i, g) PROVE g \in Int /\ g <= x.largest
    <3>1. SectionHandle(n, s, i, g)
      BY <2>3, <2>6, <2>8 DEF SectionHandle
    <3>2. Under(g, n.largest, r)
      BY <3>1, <1>2 DEF Bounded
    <3> QED BY <3>2, <2>5
  <2>9. HandlesIn(x, {})
    BY <2>7, <2>8 DEF HandlesIn
  <2>10. LayersIn(x, {})
    BY <1>2, <2>3, LayersSame
  <2> DEFINE y == [q EXCEPT !.m = x]
  <2>11. y \in [at : Loops, m : ModelType] /\ y.at = q.at /\ y.m = x
    BY <1>2, <2>3
  <2>12. ReadOne(p, r, junk) = y
    BY <1>6 DEF ReadOne, q, x, n
  <2> HIDE DEF y
  <2>13. Open(y)
    <3>1. /\ Here(y) = Here(q) /\ Items(y) = Items(q) /\ ThisTable(y) = ThisTable(q)
          /\ ThisEntry(y) = ThisEntry(q)
      BY <2>3, <2>11 DEF Here, Items, ThisTable, ThisEntry, n
    <3>2. EntryIn(x, Here(q), ThisTable(q), ThisEntry(q)) <=>
            EntryIn(n, Here(q), ThisTable(q), ThisEntry(q))
      BY <2>3, <2>6 DEF EntryIn
    <3> QED BY <3>1, <3>2, <2>3, <2>6, <2>11, <1>2 DEF Open, n
  <2> QED BY <2>9, <2>10, <2>11, <2>12, <2>13 DEF Reading
<1> QED BY <1>5, <1>6

\* What is read into a model whose sections and layers are gone.
FileType == {file \in RecordSeq : \A i \in DOMAIN file : file[i] \in Readable}

\* dimeModel::read(): a whole file makes a sound model.
LEMMA Loads ==
  ASSUME NEW m \in ModelType, LayersIn(m, {}), HandlesIn(m, {}),
         NEW recs \in FileType, NEW junk \in Int
  PROVE  /\ Load(m, recs, junk) \in ModelType
         /\ LayersIn(Load(m, recs, junk), {}) /\ HandlesIn(Load(m, recs, junk), {})
<1> DEFINE n == Len(recs)
           base == [at |-> "model", m |-> m]
           S == {p \in [at : Loops, m : ModelType] : Reading(p)}
           Step(v, k) == ReadOne(v, recs[k], junk)
           Body(f) == [k \in 0 .. n |-> IF k = 0 THEN base ELSE Step(f[k - 1], k)]
           Eq(f) == f = Body(f)
           after == CHOOSE f : Eq(f)
<1>1. n \in Nat /\ \A k \in 1 .. n : recs[k] \in Readable
  BY DEF FileType, RecordSeq
<1>2. Load(m, recs, junk) = after[n].m
  BY DEF Load, Fold
<1>3. base \in S
  <2>1. base \in [at : Loops, m : ModelType] /\ base.at = "model" /\ base.m = m
    BY DEF Loops
  <2>2. base = Put(base, "model", m)
    BY DEF Put
  <2> HIDE DEF base
  <2>3. Open(base)
    BY <2>2, OpenEarly
  <2> QED BY <2>1, <2>3 DEF Reading
<1> HIDE DEF n, base
<1>6. ASSUME NEW v \in S, NEW k \in 1 .. n PROVE Step(v, k) \in S
  BY <1>1, ReadsOne DEF Reading
<1>7. \A f : Eq(f) <=> IsLoop(f, "ReadOne", junk, base, recs)
  <2>1. \A v, k : Turn("ReadOne", junk, v, recs[k]) = Step(v, k)
    BY DEF Turn, Counts
  <2> HIDE DEF Step, base
  <2> QED BY <2>1 DEF IsLoop, n
<1>11. Eq(after)
  <2> HIDE DEF Eq
  <2>1. Len(recs) \in Nat
    BY <1>1 DEF n
  <2> QED BY <2>1, <1>7, LoopIs
<1>12. after[n] \in S
  <2> DEFINE r == after
  <2>1. r = Body(r)
    BY <1>11
  <2> HIDE DEF r, Step
  <2>2. \A k \in 0 .. n : r[k] = IF k = 0 THEN base ELSE Step(r[k - 1], k)
    BY <2>1
  <2>4. r[0] = base /\ \A k \in 1 .. n : r[k] = Step(r[k - 1], k)
    BY <2>2, <1>1
  <2> DEFINE T == {k \in 0 .. n : r[k] \in S}
  <2>5. 0 \in T
    BY <2>4, <1>3, <1>1
  <2>6. ASSUME NEW k \in 1 .. n, k - 1 \in T PROVE k \in T
    <3>1. r[k] \in S
      <4> USE DEF Step
      <4> QED BY <2>4, <2>6, <1>6
    <3> QED BY <3>1, <1>1
  <2>7. 0 .. n \subseteq T
    <3> HIDE DEF T
    <3> QED BY <2>5, <2>6, <1>1, UpTo
  <2> QED BY <2>7, <1>1 DEF r
<1> HIDE DEF after
<1> QED BY <1>2, <1>12 DEF Reading

-----------------------------------------------------------------------------
(* Copying.                                                                 *)

\* an entry is the last one of the last table of the last section
AddsEntry(v, w, e) ==
  LET s == Len(v.sections)
      t == Len(v.sections[s].items)
      entries == v.sections[s].items[t].entries
  IN  /\ w \in ModelType /\ Len(w.sections) = s /\ s \in Tables(w)
      /\ \A r \in DOMAIN v.sections : r # s => w.sections[r] = v.sections[r]
      /\ Len(w.sections[s].items) = t /\ t \in DOMAIN w.sections[s].items
      /\ \A u \in DOMAIN v.sections[s].items :
           u # t => w.sections[s].items[u] = v.sections[s].items[u]
      /\ w.sections[s].items[t].entries = Append(entries, e)
      /\ EntryAt(w, <<s, t, Len(entries) + 1>>) = e
      /\ EntryIn(w, s, t, Len(entries) + 1)
      /\ Kept(v, w, {<<s, t, Len(entries) + 1>>}, {}, {})

\* the table that is copied to is the last one of the last section
LastTable(v) ==
  LET s == Len(v.sections)
  IN  s \in Tables(v) /\ Len(v.sections[s].items) \in DOMAIN v.sections[s].items

\* the model with another entry at its end
AddEntry(v, e) ==
  LET s == Len(v.sections)
      t == Len(v.sections[s].items)
  IN  PutEntries(v, s, t, Append(v.sections[s].items[t].entries, e))

\* Adding an entry at the end keeps the others.
LEMMA EntryAdded ==
  ASSUME NEW v \in ModelType, LastTable(v), NEW e \in EntryType
  PROVE  AddsEntry(v, AddEntry(v, e), e)
<1> DEFINE s == Len(v.sections)
           t == Len(v.sections[s].items)
           entries == v.sections[s].items[t].entries
           k == Len(entries) + 1
           new == Append(entries, e)
           w == PutEntries(v, s, t, new)
<1>1. s \in Tables(v) /\ t \in DOMAIN v.sections[s].items
  BY DEF LastTable
<1>2. entries \in Seq(EntryType)
  BY <1>1, TableFields
<1>3. new = InsertAt(entries, k, e) /\ k \in 1 .. Len(entries) + 1 /\ new \in Seq(EntryType)
  <2> HIDE DEF entries
  <2> QED BY <1>2, AppendInserts
<1>4. w = AddEntry(v, e)
  BY DEF AddEntry
<1>s. s = Len(v.sections) /\ s \in DOMAIN v.sections
  BY <1>1 DEF Tables
<1>t. t = Len(v.sections[s].items)
  OBVIOUS
<1> HIDE DEF s, t
<1>e. entries = v.sections[s].items[t].entries /\ k = Len(v.sections[s].items[t].entries) + 1
  OBVIOUS
<1> HIDE DEF new
<1>5. GetsEntry(v, w, s, t, k, e)
  <2>1. w = PutEntries(v, s, t, InsertAt(v.sections[s].items[t].entries, k, e))
    BY <1>3
  <2>2. k \in 1 .. Len(v.sections[s].items[t].entries) + 1
    BY <1>3
  <2> HIDE DEF k, w
  <2> QED BY <1>1, <2>1, <2>2, EntryInserted
<1>6. PICK x \in AnySection :
           /\ Replaced(v, w, s, x)
           /\ x.kind = "tables" /\ DOMAIN x.items = DOMAIN v.sections[s].items
           /\ x.items[t].entries = new
           /\ \A u \in DOMAIN x.items : u # t => x.items[u] = v.sections[s].items[u]
  BY SMTT(60), <1>1, <1>3, EntriesChanged
<1> HIDE DEF w, k, entries
<1>7. /\ w.sections[s] = x /\ DOMAIN w.sections = DOMAIN v.sections
      /\ \A r \in DOMAIN v.sections : r # s => w.sections[r] = v.sections[r]
  BY SMTT(60), <1>6, <1>s, ReplacedIs
<1>8. /\ w \in ModelType /\ Tables(w) = Tables(v)
      /\ EntryIn(w, s, t, k) /\ EntryAt(w, <<s, t, k>>) = e
      /\ Kept(v, w, {<<s, t, k>>}, {}, {})
  BY <1>5 DEF GetsEntry
<1>9. Len(w.sections) = s
  BY <1>7, <1>8, <1>s, SameHere
<1>10. Len(w.sections[s].items) = t
  BY <1>1, <1>6, <1>7, <1>8, <1>t, SameItems
<1>11. t \in DOMAIN w.sections[s].items
  BY <1>1, <1>6, <1>7
<1>12. w.sections[s].items[t].entries = Append(entries, e)
  BY <1>6, <1>7 DEF new
<1>13. \A u \in DOMAIN v.sections[s].items :
         u # t => w.sections[s].items[u] = v.sections[s].items[u]
  BY <1>6, <1>7
<1>14. AddsEntry(v, w, e)
  BY <1>1, <1>7, <1>8, <1>9, <1>10, <1>11, <1>12, <1>13 DEF AddsEntry, k, entries, s, t
<1> QED BY <1>4, <1>14

\* the model that is copied knows the layer of the entry
Known(m, e) ==
  e \in EntryType /\
  (e.info # 0 => e.table = "LAYER" /\ e.info \in DOMAIN m.layers /\ m.layers[e.info].name = e.name)

\* what holds of the copy while it is made
Copying(m, v) == v \in ModelType /\ LayersIn(v, {}) /\ v.largest = m.largest

\* what the copy of an entry adds: another entry with its records
AddsCopy(m, v, w, e) ==
  Copying(m, w) /\ \E f \in EntryType : f.recs = e.recs /\
    \E x \in ModelType : x.sections = v.sections /\ AddsEntry(x, w, f)

\* dimeTableEntry::copy() and registering the layer of the copy keep the copy sound.
LEMMA EntryCopied ==
  ASSUME NEW m \in ModelType, NEW v, Copying(m, v), LastTable(v), NEW e, Known(m, e)
  PROVE  AddsCopy(m, v, CopyEntry(m, v, e), e)
<1> DEFINE w == CopyEntry(m, v, e)
           name == m.layers[e.info].name
           s == Len(v.sections)
           t == Len(v.sections[s].items)
           p == <<s, t, Len(v.sections[s].items[t].entries) + 1>>
<1>1. v \in ModelType /\ LayersIn(v, {}) /\ e \in EntryType
  BY DEF Copying, Known
<1>2. CASE e.info = 0
  <2>1. w = AddEntry(v, e)
    BY <1>2 DEF CopyEntry, AddEntry, PutEntries
  <2>2. AddsEntry(v, w, e)
    BY <1>1, <2>1, EntryAdded
  <2> HIDE DEF w
  <2>3. w \in ModelType /\ EntryAt(w, p) = e /\ Kept(v, w, {p}, {}, {})
    BY <2>2 DEF AddsEntry
  <2> HIDE DEF p
  <2>4. LayersIn(w, {})
    BY <1>1, <1>2, <2>3, LayersCarried
  <2>5. w.largest = v.largest
    BY <2>3 DEF Kept, Carried
  <2>6. Copying(m, w)
    BY <2>3, <2>4, <2>5 DEF Copying
  <2>7. AddsCopy(m, v, w, e)
    BY <1>1, <2>2, <2>6 DEF AddsCopy
  <2> QED BY <2>7 DEF w
<1>3. CASE e.info # 0
  <2> DEFINE x == AddLayer(v, name, Abs(e.color))
             i == LayerNum(x, name)
             f == [e EXCEPT !.info = i]
  <2>1. /\ name = e.name /\ name \in Keys /\ e.table = "LAYER"
        /\ e.color \in Int /\ Abs(e.color) \in Int
    <3>1. name = e.name /\ e.table = "LAYER" /\ e.info \in DOMAIN m.layers
      BY <1>3 DEF Known
    <3>2. m.layers[e.info] \in LayerType
      BY <3>1, ModelFields
    <3>3. name \in Keys
      BY <3>2 DEF LayerType
    <3> QED BY <3>1, <3>3, <1>1, EntryTyped DEF Abs
  <2>2. LayersKnown(v)
    BY <1>1 DEF LayersIn
  <2> HIDE DEF name
  <2>3. /\ x \in ModelType /\ x.sections = v.sections /\ x.largest = v.largest
        /\ i \in DOMAIN x.layers /\ i # 0
    BY <1>1, <2>1, <2>2, LayerAdded
  <2>4. i \in Nat
    <3>1. DOMAIN x.layers = 1 .. Len(x.layers)
      BY <2>3, ModelFields
    <3> HIDE DEF i
    <3> QED BY <2>3, <3>1
  <2>x. x = AddLayer(v, name, Abs(e.color)) /\ i = LayerNum(x, name)
    OBVIOUS
  <2> HIDE DEF x
  <2>y. i = LayerNum(x, name)
    OBVIOUS
  <2> HIDE DEF i
  <2>5. f \in EntryType /\ f.info = i /\ f.table = e.table /\ f.name = e.name
        /\ f.color = e.color /\ f.recs = e.recs
    BY <1>1, <2>4, EntryTyped DEF EntryType
  <2>6. w = AddEntry(x, f)
    <3>1. w = [x EXCEPT !.sections[s].items[t].entries = Append(@, f)]
      BY <1>3, <2>x DEF CopyEntry, name
    <3> HIDE DEF f
    <3>2. Len(x.sections) = s /\ Len(x.sections[s].items) = t
      BY <2>3
    <3> HIDE DEF s, t
    <3> QED BY <3>1, <3>2 DEF AddEntry, PutEntries
  <2> HIDE DEF f
  <2>7. LastTable(x)
    BY <2>3 DEF LastTable, Tables
  <2>8. AddsEntry(x, w, f)
    BY <2>3, <2>5, <2>6, <2>7, EntryAdded
  <2> HIDE DEF w
  <2>9. w \in ModelType /\ EntryAt(w, p) = f /\ p \in Entries(w) /\ Kept(x, w, {p}, {}, {})
    BY <2>3, <2>8, EntriesAre DEF AddsEntry
  <2> HIDE DEF p
  <2>10. LayersIn(w, {})
    <3>1. /\ EntryAt(w, p).table = "LAYER" /\ EntryAt(w, p).name = name
          /\ EntryAt(w, p).color = e.color /\ EntryAt(w, p).info = LayerNum(x, name)
      BY <2>1, <2>5, <2>9, <2>y
    <3>2. x = AddLayer(v, name, Abs(e.color))
      BY <2>x
    <3>3. \A q \in {} : EntryAt(v, q).info # 0 => EntryAt(v, q).name \in {}
      OBVIOUS
    <3> QED BY <1>1, <2>1, <2>9, <3>1, <3>2, <3>3, LayersRegistered
  <2>11. w.largest = v.largest
    BY <2>3, <2>9 DEF Kept, Carried
  <2>12. Copying(m, w)
    BY <2>9, <2>10, <2>11 DEF Copying
  <2>13. AddsCopy(m, v, w, e)
    BY <2>3, <2>5, <2>8, <2>12 DEF AddsCopy
  <2> QED BY <2>13 DEF w
<1> QED BY <1>2, <1>3

\* a table without entries is the last one of the last section
AddTable(n, table) == PutItems(n, Len(n.sections), Append(n.sections[Len(n.sections)].items, table))
\* a table without entries is added at the end, and everything else is kept
AddsTable(n, v, table) ==
  LET s == Len(n.sections)
      items == n.sections[s].items
  IN  /\ v \in ModelType /\ Len(v.sections) = s /\ s \in Tables(v)
      /\ \A r \in DOMAIN n.sections : r # s => v.sections[r] = n.sections[r]
      /\ v.sections[s].items = Append(items, table)
      /\ Len(v.sections[s].items) = Len(items) + 1
      /\ Len(items) + 1 \in DOMAIN v.sections[s].items
      /\ v.sections[s].items[Len(items) + 1] = table
      /\ \A u \in DOMAIN items : u # Len(items) + 1 /\ v.sections[s].items[u] = items[u]
      /\ Kept(n, v, {}, {}, {})

\* Adding a table at the end keeps the entries.
LEMMA TableAdded ==
  ASSUME NEW n \in ModelType, Len(n.sections) \in Tables(n),
         NEW table \in TableType, table.entries = << >>
  PROVE  AddsTable(n, AddTable(n, table), table)
<1> DEFINE s == Len(n.sections)
           items == n.sections[s].items
           t == Len(items) + 1
           new == Append(items, table)
           v == PutItems(n, s, new)
<1>1. s \in Tables(n) /\ s \in DOMAIN n.sections
  BY DEF Tables
<1>2. items \in Seq(TableType)
  BY <1>1, TableFields
<1>3. new = InsertAt(items, t, table) /\ t \in 1 .. Len(items) + 1 /\ new \in Seq(TableType)
      /\ DOMAIN items = 1 .. Len(items) /\ Len(items) \in Nat
      /\ DOMAIN new = 1 .. t /\ Len(new) = t /\ new[t] = table
      /\ \A u \in 1 .. Len(items) : new[u] = items[u]
  <2> HIDE DEF items
  <2>1. new = InsertAt(items, t, table) /\ t \in 1 .. Len(items) + 1 /\ new \in Seq(TableType)
    BY <1>2, AppendInserts
  <2>2. DOMAIN items = 1 .. Len(items) /\ Len(items) \in Nat
      /\ DOMAIN new = 1 .. t /\ Len(new) = t /\ new[t] = table
      /\ \A u \in 1 .. Len(items) : new[u] = items[u]
    BY <1>2
  <2> QED BY <2>1, <2>2
<1>4. v = AddTable(n, table)
  BY DEF AddTable
<1>s. s = Len(n.sections)
  OBVIOUS
<1> HIDE DEF s
<1>5. GetsNewTable(n, v, s, t, table)
  <2>1. v = PutItems(n, s, InsertAt(n.sections[s].items, t, table))
    BY <1>3
  <2>2. t \in 1 .. Len(n.sections[s].items) + 1
    BY <1>3
  <2> HIDE DEF t, v
  <2> QED BY <1>1, <2>1, <2>2, TableInserted
<1> HIDE DEF new
<1>6. PICK x \in AnySection :
           Replaced(n, v, s, x) /\ x.items = new /\ x.kind = "tables"
  BY <1>1, <1>3, ItemsChanged
<1> HIDE DEF v
<1>7. /\ v.sections[s] = x /\ DOMAIN v.sections = DOMAIN n.sections
      /\ \A r \in DOMAIN n.sections : r # s => v.sections[r] = n.sections[r]
  BY <1>1, <1>6, ReplacedIs
<1>8. v \in ModelType /\ Tables(v) = Tables(n) /\ Kept(n, v, {}, {}, {})
  BY <1>5 DEF GetsNewTable
<1>9. Len(v.sections) = s
  BY <1>7, <1>8, <1>s, SameHere
<1>10. v.sections[s].items = new
  BY <1>6, <1>7
<1>11. \A u \in DOMAIN items : u # t /\ new[u] = items[u]
  <2> HIDE DEF items
  <2> QED BY <1>3
<1>12. t \in DOMAIN new
  <2> HIDE DEF items
  <2> QED BY <1>3
<1> HIDE DEF items
<1>13. AddsTable(n, v, table)
  BY <1>1, <1>3, <1>7, <1>8, <1>9, <1>10, <1>11, <1>12 DEF AddsTable, s, items, new
<1> QED BY <1>4, <1>13

\* the records of the first k entries
EntriesLike(a, b, k) == Len(a) = k /\ \A i \in 1 .. k : a[i].recs = b[i].recs
\* the entries of a table of the model have the names its dictionary takes
KnownTable(m, table) ==
  table \in TableType /\ \A k \in DOMAIN table.entries : Known(m, table.entries[k])

\* the last table has been made after n, and has k of the entries
CopiesTable(m, n, w, table, k) ==
  LET s == Len(n.sections)
      items == n.sections[s].items
      t == Len(items) + 1
  IN  /\ Copying(m, w) /\ Len(w.sections) = s /\ s \in Tables(w)
      /\ \A r \in DOMAIN n.sections : r # s => w.sections[r] = n.sections[r]
      /\ Len(w.sections[s].items) = t /\ t \in DOMAIN w.sections[s].items
      /\ \A u \in DOMAIN items : w.sections[s].items[u] = items[u]
      /\ EntriesLike(w.sections[s].items[t].entries, table.entries, k)

\* The copy of a table after k of its entries has k entries like them.
LEMMA CopyingTable ==
  ASSUME NEW m \in ModelType, NEW n \in ModelType, Len(n.sections) \in Tables(n),
         NEW items, items = n.sections[Len(n.sections)].items, items \in Seq(TableType),
         NEW table, NEW k \in Nat, NEW v, CopiesTable(m, n, v, table, k),
         NEW e, e.recs = table.entries[k + 1].recs,
         NEW w, AddsCopy(m, v, w, e)
  PROVE  CopiesTable(m, n, w, table, k + 1)
<1> DEFINE s == Len(n.sections)
           t == Len(items) + 1
           old == v.sections[s].items[t].entries
           new == w.sections[s].items[t].entries
<1>1. /\ Copying(m, v) /\ Len(v.sections) = s /\ s \in Tables(v)
      /\ \A r \in DOMAIN n.sections : r # s => v.sections[r] = n.sections[r]
      /\ Len(v.sections[s].items) = t /\ t \in DOMAIN v.sections[s].items
      /\ \A u \in DOMAIN items : v.sections[s].items[u] = items[u]
      /\ EntriesLike(old, table.entries, k)
  BY DEF CopiesTable
<1>2. PICK f, x : /\ Copying(m, w) /\ f \in EntryType /\ f.recs = e.recs
                  /\ x \in ModelType /\ x.sections = v.sections /\ AddsEntry(x, w, f)
  BY DEF AddsCopy
<1>3. /\ Len(w.sections) = s /\ s \in Tables(w)
      /\ \A r \in DOMAIN v.sections : r # s => w.sections[r] = v.sections[r]
      /\ Len(w.sections[s].items) = t /\ t \in DOMAIN w.sections[s].items
      /\ \A u \in DOMAIN v.sections[s].items :
           u # t => w.sections[s].items[u] = v.sections[s].items[u]
      /\ new = Append(old, f)
  BY ZenonT(60), <1>1, <1>2 DEF AddsEntry
<1>4. v \in ModelType /\ w \in ModelType
  BY <1>1, <1>2 DEF Copying
<1>s. v \in ModelType /\ Len(v.sections) = s /\ s \in Tables(v)
      /\ Len(v.sections[s].items) = t /\ t \in DOMAIN v.sections[s].items
  BY <1>1, <1>4
<1>o. old = v.sections[s].items[t].entries
  OBVIOUS
<1>5. DOMAIN v.sections = 1 .. s /\ old \in Seq(EntryType)
      /\ DOMAIN v.sections[s].items = 1 .. t
  <2> HIDE DEF s, t, old
  <2>1. DOMAIN v.sections = 1 .. s
    BY <1>s, ModelFields
  <2>2. old \in Seq(EntryType) /\ DOMAIN v.sections[s].items = 1 .. t
    BY <1>s, <1>o, TableFields
  <2> QED BY <2>1, <2>2
<1>6. DOMAIN items = 1 .. Len(items) /\ Len(items) \in Nat
  OBVIOUS
<1>7. \A u \in DOMAIN items : u # t /\ u \in 1 .. t
  BY <1>6
<1>8. \A u \in DOMAIN items : w.sections[s].items[u] = items[u]
  BY <1>1, <1>3, <1>5, <1>7
<1>9. EntriesLike(new, table.entries, k + 1)
  <2>1. Len(old) = k /\ \A i \in 1 .. k : old[i].recs = table.entries[i].recs
    BY <1>1 DEF EntriesLike
  <2> HIDE DEF old, new
  <2>2. Len(new) = k + 1 /\ new[k + 1] = f /\ \A i \in 1 .. k : new[i] = old[i]
    BY <1>2, <1>3, <1>5, <2>1
  <2>3. \A i \in 1 .. k + 1 : i \in 1 .. k \/ i = k + 1
    OBVIOUS
  <2> QED BY <1>2, <2>1, <2>2, <2>3 DEF EntriesLike
<1>10. \A r \in DOMAIN n.sections : r # s => w.sections[r] = n.sections[r]
  <2>1. ASSUME NEW r \in DOMAIN n.sections, r # s PROVE w.sections[r] = n.sections[r]
    BY <1>5, ModelFields, <1>1, <1>3, <2>1
  <2> QED BY <2>1
<1> QED BY <1>2, <1>3, <1>8, <1>9, <1>10 DEF CopiesTable

\* dimeTable::copy() copies every entry with its records.
LEMMA TableCopied ==
  ASSUME NEW m \in ModelType, NEW n, Copying(m, n), Len(n.sections) \in Tables(n),
         NEW table, KnownTable(m, table)
  PROVE  CopiesTable(m, n, CopyTable(m, n, table), table, Len(table.entries))
<1> DEFINE recs == table.entries
           N == Len(recs)
           bare == [table EXCEPT !.entries = << >>]
           base == [n EXCEPT !.sections[Len(n.sections)].items = Append(@, bare)]
           S == {v \in ModelType : Copying(m, v) /\ LastTable(v)}
           Step(v, k) == CopyEntry(m, v, recs[k])
           Body(f) == [k \in 0 .. N |-> IF k = 0 THEN base ELSE Step(f[k - 1], k)]
           Eq(f) == f = Body(f)
           after == CHOOSE f : Eq(f)
<1>1. N \in Nat /\ DOMAIN recs = 1 .. N /\ \A k \in 1 .. N : Known(m, recs[k])
  <2>1. recs \in Seq(EntryType) /\ \A k \in DOMAIN recs : Known(m, recs[k])
    BY DEF KnownTable, TableType
  <2> HIDE DEF recs
  <2> QED BY <2>1
<1>2. CopyTable(m, n, table) = after[N]
  BY DEF CopyTable, Fold
<1>m. n \in ModelType /\ LayersIn(n, {}) /\ n.largest = m.largest
  BY DEF Copying
<1>3. CopiesTable(m, n, base, table, 0) /\ base \in S
  <2>1. base = AddTable(n, bare)
    BY DEF AddTable, PutItems
  <2>2. bare \in TableType /\ bare.entries = << >>
    <3>1. table \in TableType
      BY DEF KnownTable
    <3> DEFINE none == << >>
    <3>2. none \in Seq(EntryType)
      OBVIOUS
    <3>3. bare = [table EXCEPT !.entries = none]
      OBVIOUS
    <3> HIDE DEF none, bare
    <3>4. bare \in TableType /\ bare.entries = none
      BY <3>1, <3>2, <3>3 DEF TableType
    <3> QED BY <3>4 DEF none
  <2>b. bare.entries = << >>
    BY <2>2
  <2> HIDE DEF bare, base
  <2>3. AddsTable(n, base, bare)
    BY <1>m, <2>1, <2>2, TableAdded
  <2> DEFINE s == Len(n.sections)
             items == n.sections[s].items
             t == Len(items) + 1
  <2>4. /\ base \in ModelType /\ Len(base.sections) = s /\ s \in Tables(base)
        /\ \A r \in DOMAIN n.sections : r # s => base.sections[r] = n.sections[r]
        /\ Len(base.sections[s].items) = t
        /\ t \in DOMAIN base.sections[s].items
        /\ base.sections[s].items[t] = bare
        /\ \A u \in DOMAIN items : u # t /\ base.sections[s].items[u] = items[u]
        /\ Kept(n, base, {}, {}, {})
    BY <2>3 DEF AddsTable
  <2>5. LayersIn(base, {})
    BY <1>m, <2>4, LayersCarried
  <2>6. base.largest = n.largest
    BY <2>4 DEF Kept, Carried
  <2>7. Copying(m, base)
    BY <1>m, <2>4, <2>5, <2>6 DEF Copying
  <2>8. EntriesLike(base.sections[s].items[t].entries, recs, 0)
    BY <2>b, <2>4 DEF EntriesLike
  <2>9. CopiesTable(m, n, base, table, 0)
    BY <2>4, <2>7, <2>8 DEF CopiesTable
  <2>10. LastTable(base)
    BY <2>4 DEF LastTable
  <2> QED BY <2>4, <2>7, <2>9, <2>10
<1> HIDE DEF base, N
<1>6. ASSUME NEW v \in S, NEW k \in 1 .. N PROVE AddsCopy(m, v, Step(v, k), recs[k]) /\ Step(v, k) \in S
  <2>1. AddsCopy(m, v, Step(v, k), recs[k])
    BY <1>1, EntryCopied
  <2> HIDE DEF Step
  <2>2. PICK f, x : /\ Copying(m, Step(v, k)) /\ x.sections = v.sections
                    /\ AddsEntry(x, Step(v, k), f)
    BY <2>1 DEF AddsCopy
  <2>3. LastTable(Step(v, k))
    BY <2>2 DEF AddsEntry, LastTable
  <2> QED BY <2>1, <2>2, <2>3 DEF Copying
<1>7. \A f : Eq(f) <=> IsLoop(f, "CopyEntry", m, base, recs)
  <2>1. \A v, k : Turn("CopyEntry", m, v, recs[k]) = Step(v, k)
    BY DEF Turn, Counts
  <2> HIDE DEF Step, base
  <2> QED BY <2>1 DEF IsLoop, N
<1>11. Eq(after)
  <2> HIDE DEF Eq
  <2>1. Len(recs) \in Nat
    BY <1>1 DEF N
  <2> QED BY <2>1, <1>7, LoopIs
<1>12. CopiesTable(m, n, after[N], table, N)
  <2> DEFINE r == after
  <2>1. r = Body(r)
    BY <1>11
  <2> HIDE DEF r, Step
  <2>2. \A k \in 0 .. N : r[k] = IF k = 0 THEN base ELSE Step(r[k - 1], k)
    BY <2>1
  <2>4. r[0] = base /\ \A k \in 1 .. N : r[k] = Step(r[k - 1], k)
    BY <2>2, <1>1
  <2> DEFINE T == {k \in 0 .. N : r[k] \in S /\ CopiesTable(m, n, r[k], table, k)}
  <2>5. 0 \in T
    BY <2>4, <1>3, <1>1
  <2>6. ASSUME NEW k \in 1 .. N, k - 1 \in T PROVE k \in T
    <3> DEFINE v == r[k - 1]
               w == r[k]
               items == n.sections[Len(n.sections)].items
               j == k - 1
    <3>1. v \in S /\ CopiesTable(m, n, v, table, j)
      BY <2>6
    <3>2. w = Step(v, k)
      BY <2>4
    <3> HIDE DEF v, w
    <3>3. w \in S /\ AddsCopy(m, v, w, recs[k])
      BY <3>1, <3>2, <1>6
    <3>4. items \in Seq(TableType)
      BY <1>m, TableFields
    <3>5. j \in Nat /\ j + 1 = k
      BY <1>1
    <3>i. items = n.sections[Len(n.sections)].items
      OBVIOUS
    <3> HIDE DEF j, items
    <3>6. recs[k].recs = table.entries[j + 1].recs
      BY <3>5
    <3>7. CopiesTable(m, n, w, table, j + 1)
      BY <1>m, <3>1, <3>3, <3>4, <3>5, <3>6, <3>i, CopyingTable
    <3> QED BY <3>3, <3>5, <3>7, <1>1 DEF w
  <2>7. 0 .. N \subseteq T
    <3> HIDE DEF T
    <3> QED BY <2>5, <2>6, <1>1, UpTo
  <2> QED BY <2>7, <1>1 DEF r
<1> HIDE DEF after
<1> QED BY <1>2, <1>12 DEF N

\* a section is the last one
AddSection(n, x) == PutSections(n, Append(n.sections, x))
\* a section is added at the end, and everything else is kept
AddsSection(n, w, x) ==
  LET s == Len(n.sections) + 1
  IN  /\ w \in ModelType /\ Len(w.sections) = s /\ s \in DOMAIN w.sections
      /\ w.sections[s] = x
      /\ \A r \in DOMAIN n.sections : r # s /\ w.sections[r] = n.sections[r]
      /\ Kept(n, w, {p \in Entries(w) : p[1] = s}, {s}, {})

\* Adding a section without entries keeps the model sound.
LEMMA SectionAdded ==
  ASSUME NEW n \in ModelType, NEW x \in AnySection
  PROVE  AddsSection(n, AddSection(n, x), x)
<1> DEFINE old == n.sections
           s == Len(old) + 1
           new == Append(old, x)
           w == PutSections(n, new)
<1>1. old \in Seq(AnySection)
  BY ModelFields
<1>o. old = n.sections
  OBVIOUS
<1> HIDE DEF old
<1>2. new = InsertAt(old, s, x) /\ s \in 1 .. Len(old) + 1
  BY <1>1, AppendInserts
<1>3. /\ Len(new) = s /\ s \in DOMAIN new /\ new[s] = x
      /\ \A r \in DOMAIN old : r # s /\ new[r] = old[r]
  BY <1>1
<1>4. new \in Seq(AnySection)
  BY <1>1
<1>5. w.sections = new
  BY <1>4, PutSectionsIs
<1>6. GetsSection(n, w, s, x)
  BY <1>2, <1>o, SectionInserted
<1>7. w = AddSection(n, x)
  BY <1>o DEF AddSection
<1> HIDE DEF new, w
<1>8. w \in ModelType /\ Kept(n, w, {p \in Entries(w) : p[1] = s}, {s}, {})
  BY <1>6 DEF GetsSection
<1>9. s = Len(n.sections) + 1
  BY <1>o
<1> HIDE DEF s
<1>10. AddsSection(n, w, x)
  BY <1>3, <1>5, <1>8, <1>9, <1>o DEF AddsSection
<1> QED BY <1>7, <1>10

\* the first k tables
TablesLike(a, b, k) ==
  Len(a) = k /\ \A t \in 1 .. k : EntriesLike(a[t].entries, b[t].entries, Len(b[t].entries))

\* The last section, of tables, has been made after n and has k of the tables.
CopiesTables(m, n, w, section, k) ==
  LET s == Len(n.sections) + 1
  IN  /\ Copying(m, w) /\ Len(w.sections) = s /\ s \in Tables(w)
      /\ \A r \in DOMAIN n.sections : w.sections[r] = n.sections[r]
      /\ TablesLike(w.sections[s].items, section.items, k)

\* The copy of a section after k of its tables has k tables like them.
LEMMA CopyingTables ==
  ASSUME NEW m, NEW n, n \in ModelType, NEW section, NEW k \in Nat,
         NEW v, CopiesTables(m, n, v, section, k),
         NEW table, table = section.items[k + 1],
         NEW w, CopiesTable(m, v, w, table, Len(table.entries))
  PROVE  CopiesTables(m, n, w, section, k + 1)
<1> DEFINE s == Len(n.sections) + 1
           old == v.sections[s].items
           new == w.sections[s].items
<1>1. /\ Copying(m, v) /\ Len(v.sections) = s /\ s \in Tables(v)
      /\ \A r \in DOMAIN n.sections : v.sections[r] = n.sections[r]
      /\ TablesLike(old, section.items, k)
  BY DEF CopiesTables
<1>2. Len(old) = k /\ \A t \in 1 .. k : EntriesLike(old[t].entries, section.items[t].entries,
                                                    Len(section.items[t].entries))
  BY <1>1 DEF TablesLike
<1>3. /\ Copying(m, w) /\ Len(w.sections) = s /\ s \in Tables(w)
      /\ \A r \in DOMAIN v.sections : r # s => w.sections[r] = v.sections[r]
      /\ Len(new) = k + 1
      /\ \A u \in DOMAIN old : new[u] = old[u]
      /\ EntriesLike(new[k + 1].entries, table.entries, Len(table.entries))
  BY <1>1, <1>2 DEF CopiesTable
<1>4. DOMAIN old = 1 .. k
  <2>1. v \in ModelType
    BY <1>1 DEF Copying
  <2> HIDE DEF s
  <2> QED BY <1>1, <1>2, <2>1, TableFields
<1>5. DOMAIN v.sections = 1 .. s /\ DOMAIN n.sections = 1 .. Len(n.sections)
      /\ Len(n.sections) \in Nat
  BY <1>1, ModelFields DEF Copying
<1>6. \A r \in DOMAIN n.sections : w.sections[r] = n.sections[r]
  BY <1>5, <1>1, <1>3
<1>7. TablesLike(new, section.items, k + 1)
  <2>1. ASSUME NEW t \in 1 .. k + 1
        PROVE  EntriesLike(new[t].entries, section.items[t].entries, Len(section.items[t].entries))
    <3>1. CASE t = k + 1
      BY <1>3, <3>1
    <3>2. CASE t # k + 1
      <4>1. t \in 1 .. k
        BY <3>2
      <4> QED BY <1>2, <1>3, <1>4, <4>1
    <3> QED BY <3>1, <3>2
  <2> QED BY <1>3, <2>1 DEF TablesLike
<1> QED BY <1>3, <1>6, <1>7 DEF CopiesTables

\* the same of all the tables of a section
KnownSection(m, x) ==
  x \in AnySection /\ (x.kind = "tables" => \A t \in DOMAIN x.items : KnownTable(m, x.items[t]))

\* The copy of a section of tables begins with none.
LEMMA TablesBegun ==
  ASSUME NEW m, NEW n, Copying(m, n), NEW section \in AnySection, section.kind = "tables",
         NEW bare, bare = [section EXCEPT !.items = << >>]
  PROVE  CopiesTables(m, n, AddSection(n, bare), section, 0)
<1> SUFFICES ASSUME NEW w, w = AddSection(n, bare) PROVE CopiesTables(m, n, w, section, 0)
  OBVIOUS
<1> DEFINE s == Len(n.sections) + 1
<1>1. bare \in AnySection /\ bare.kind = "tables" /\ bare.items = << >>
  <2> DEFINE none == << >>
  <2>1. none \in Seq(ItemType(section.kind))
    OBVIOUS
  <2>2. bare = [section EXCEPT !.items = none]
    OBVIOUS
  <2>3. section = [kind |-> section.kind, name |-> section.name, recs |-> section.recs,
                   items |-> section.items]
    BY SectionFields
  <2> HIDE DEF none
  <2>4. bare \in AnySection
    BY <2>1, <2>2, SectionChanged
  <2>5. bare.kind = section.kind /\ bare.items = none
    BY <2>2, <2>3
  <2> QED BY <2>4, <2>5 DEF none
<1>2. n \in ModelType /\ LayersIn(n, {}) /\ n.largest = m.largest
  BY DEF Copying
<1>3. /\ w \in ModelType /\ Len(w.sections) = s /\ s \in DOMAIN w.sections
      /\ w.sections[s] = bare
      /\ \A r \in DOMAIN n.sections : w.sections[r] = n.sections[r]
      /\ Kept(n, w, {p \in Entries(w) : p[1] = s}, {s}, {})
  <2>1. AddsSection(n, w, bare)
    BY <1>1, <1>2, SectionAdded
  <2> QED BY <2>1 DEF AddsSection
<1>4. s \in Tables(w)
  BY <1>1, <1>3 DEF Tables
<1>5. {p \in Entries(w) : p[1] = s} = {}
  <2>1. ASSUME NEW p \in Entries(w), p[1] = s PROVE FALSE
    <3>1. EntryIn(w, p[1], p[2], p[3])
      BY EntriesAre
    <3>2. p[2] \in DOMAIN bare.items
      BY <3>1, <1>3, <2>1 DEF EntryIn
    <3> QED BY <3>2, <1>1
  <2> QED BY <2>1
<1>6. LayersIn(w, {})
  <2> DEFINE New == {p \in Entries(w) : p[1] = s}
  <2>1. New = {} /\ Kept(n, w, New, {s}, {})
    BY <1>3, <1>5
  <2> HIDE DEF New
  <2> QED BY <1>2, <2>1, LayersCarried
<1>7. w.largest = n.largest
  BY <1>3 DEF Kept, Carried
<1>8. Copying(m, w)
  BY <1>2, <1>3, <1>6, <1>7 DEF Copying
<1>9. TablesLike(w.sections[s].items, section.items, 0)
  <2>1. w.sections[s].items = << >>
    BY <1>1, <1>3
  <2>2. \A t \in 1 .. 0 : FALSE
    OBVIOUS
  <2> QED BY <2>1, <2>2 DEF TablesLike
<1> QED BY <1>3, <1>4, <1>8, <1>9 DEF CopiesTables

\* dimeTablesSection::copy() copies every table.
LEMMA TablesCopied ==
  ASSUME NEW m \in ModelType, NEW n, Copying(m, n), NEW section, KnownSection(m, section),
         section.kind = "tables"
  PROVE  CopiesTables(m, n, CopyTables(m, n, section), section, Len(section.items))
<1> DEFINE recs == section.items
           N == Len(recs)
           bare == [section EXCEPT !.items = << >>]
           base == [n EXCEPT !.sections = Append(@, bare)]
           S == {v \in ModelType : Copying(m, v) /\ Len(v.sections) \in Tables(v)}
           Step(v, k) == CopyTable(m, v, recs[k])
           Body(f) == [k \in 0 .. N |-> IF k = 0 THEN base ELSE Step(f[k - 1], k)]
           Eq(f) == f = Body(f)
           after == CHOOSE f : Eq(f)
<1>1. N \in Nat /\ DOMAIN recs = 1 .. N /\ \A k \in 1 .. N : KnownTable(m, recs[k])
  <2>1. recs \in Seq(ItemType(section.kind)) /\ \A k \in DOMAIN recs : KnownTable(m, recs[k])
    BY SectionFields DEF KnownSection
  <2> HIDE DEF recs
  <2> QED BY <2>1
<1>2. CopyTables(m, n, section) = after[N]
  BY DEF CopyTables, Fold
<1>m. n \in ModelType /\ section \in AnySection
  BY DEF Copying, KnownSection
<1>3. CopiesTables(m, n, base, section, 0) /\ base \in S
  <2>1. base = AddSection(n, bare)
    BY DEF AddSection, PutSections
  <2>2. bare = [section EXCEPT !.items = << >>]
    OBVIOUS
  <2> HIDE DEF base, bare
  <2>3. CopiesTables(m, n, base, section, 0)
    BY <1>m, <2>1, <2>2, TablesBegun
  <2> QED BY <2>3 DEF CopiesTables, Copying
<1> HIDE DEF base, N
<1>6. ASSUME NEW v \in S, NEW k \in 1 .. N
      PROVE  CopiesTable(m, v, Step(v, k), recs[k], Len(recs[k].entries)) /\ Step(v, k) \in S
  <2>1. CopiesTable(m, v, Step(v, k), recs[k], Len(recs[k].entries))
    BY <1>1, TableCopied
  <2> HIDE DEF Step
  <2> QED BY <2>1 DEF Copying, CopiesTable
<1>7. \A f : Eq(f) <=> IsLoop(f, "CopyTable", m, base, recs)
  <2>1. \A v, k : Turn("CopyTable", m, v, recs[k]) = Step(v, k)
    BY DEF Turn, Counts
  <2> HIDE DEF Step, base
  <2> QED BY <2>1 DEF IsLoop, N
<1>11. Eq(after)
  <2> HIDE DEF Eq
  <2>1. Len(recs) \in Nat
    BY <1>1 DEF N
  <2> QED BY <2>1, <1>7, LoopIs
<1>12. CopiesTables(m, n, after[N], section, N)
  <2> DEFINE r == after
  <2>1. r = Body(r)
    BY <1>11
  <2> HIDE DEF r, Step
  <2>2. \A k \in 0 .. N : r[k] = IF k = 0 THEN base ELSE Step(r[k - 1], k)
    BY <2>1
  <2>4. r[0] = base /\ \A k \in 1 .. N : r[k] = Step(r[k - 1], k)
    BY <2>2, <1>1
  <2> DEFINE T == {k \in 0 .. N : r[k] \in S /\ CopiesTables(m, n, r[k], section, k)}
  <2>5. 0 \in T
    BY <2>4, <1>3, <1>1
  <2>6. ASSUME NEW k \in 1 .. N, k - 1 \in T PROVE k \in T
    <3> DEFINE v == r[k - 1]
               w == r[k]
               j == k - 1
               table == recs[k]
    <3>1. v \in S /\ CopiesTables(m, n, v, section, j)
      BY <2>6
    <3>2. w = Step(v, k)
      BY <2>4
    <3> HIDE DEF v, w
    <3>3. w \in S /\ CopiesTable(m, v, w, table, Len(table.entries))
      BY <3>1, <3>2, <1>6
    <3>5. j \in Nat /\ j + 1 = k
      BY <1>1
    <3> HIDE DEF j
    <3>6. table = section.items[j + 1]
      BY <3>5
    <3> HIDE DEF table
    <3>7. CopiesTables(m, n, w, section, j + 1)
      BY <1>m, <3>1, <3>3, <3>5, <3>6, CopyingTables
    <3> QED BY <3>3, <3>5, <3>7, <1>1 DEF w
  <2>7. 0 .. N \subseteq T
    <3> HIDE DEF T
    <3> QED BY <2>5, <2>6, <1>1, UpTo
  <2> QED BY <2>7, <1>1 DEF r
<1> HIDE DEF after
<1> QED BY <1>2, <1>12 DEF N

\* a copy has the handles of its original, at the same places
SectionLike(x, y) ==
  /\ x.kind = y.kind
  /\ y.kind = "unknown" => x.recs = y.recs
  /\ y.kind = "tables" => TablesLike(x.items, y.items, Len(y.items))

\* a section like another has been added after n
CopiesSection(m, n, w, section) ==
  LET s == Len(n.sections) + 1
  IN  /\ Copying(m, w) /\ Len(w.sections) = s
      /\ \A r \in DOMAIN n.sections : w.sections[r] = n.sections[r]
      /\ SectionLike(w.sections[s], section)

\* a section without tables is copied with what it has
LEMMA PlainCopied ==
  ASSUME NEW m, NEW n, Copying(m, n), NEW section, NEW x \in AnySection, x.kind # "tables",
         SectionLike(x, section)
  PROVE  CopiesSection(m, n, AddSection(n, x), section)
<1> SUFFICES ASSUME NEW w, w = AddSection(n, x) PROVE CopiesSection(m, n, w, section)
  OBVIOUS
<1> DEFINE s == Len(n.sections) + 1
<1>2. n \in ModelType /\ LayersIn(n, {}) /\ n.largest = m.largest
  BY DEF Copying
<1>3. /\ w \in ModelType /\ Len(w.sections) = s /\ s \in DOMAIN w.sections
      /\ w.sections[s] = x
      /\ \A r \in DOMAIN n.sections : w.sections[r] = n.sections[r]
      /\ Kept(n, w, {p \in Entries(w) : p[1] = s}, {s}, {})
  <2>1. AddsSection(n, w, x)
    BY <1>2, SectionAdded
  <2> QED BY <2>1 DEF AddsSection
<1>5. {p \in Entries(w) : p[1] = s} = {}
  <2>1. ASSUME NEW p \in Entries(w), p[1] = s PROVE FALSE
    <3>1. EntryIn(w, p[1], p[2], p[3])
      BY EntriesAre
    <3>2. p[1] \in Tables(w)
      BY <3>1 DEF EntryIn
    <3> QED BY <3>2, <2>1, <1>3 DEF Tables
  <2> QED BY <2>1
<1>6. LayersIn(w, {})
  <2> DEFINE New == {p \in Entries(w) : p[1] = s}
  <2>1. New = {} /\ Kept(n, w, New, {s}, {})
    BY <1>3, <1>5
  <2> HIDE DEF New
  <2> QED BY <1>2, <2>1, LayersCarried
<1>7. w.largest = n.largest
  BY <1>3 DEF Kept, Carried
<1>8. Copying(m, w)
  BY <1>2, <1>3, <1>6, <1>7 DEF Copying
<1> QED BY <1>3, <1>8 DEF CopiesSection

\* dimeClass::copy() and dimeObject::copy() make what they copy
LEMMA CopyItemTyped ==
  ASSUME NEW kind \in {"classes", "objects"}, NEW i \in ItemType(kind)
  PROVE  CopyItem(i) \in ItemType(kind)
<1>1. CASE kind = "classes"
  <2>1. ItemType(kind) = ClassType
    BY <1>1 DEF ItemType
  <2>2. i \in ClassType
    BY <2>1
  <2>3. i.is = "class"
    BY <2>2 DEF ClassType
  <2>4. CopyItem(i) = [Class(i.dxf) EXCEPT !.recs = i.recs, !.name = i.name, !.app = i.app,
                       !.version = i.version, !.flag1 = i.flag1, !.flag2 = i.flag2]
    BY <2>3 DEF CopyItem
  <2>5. CopyItem(i) = [is |-> "class", dxf |-> i.dxf, name |-> i.name, app |-> i.app,
                       version |-> i.version, flag1 |-> i.flag1, flag2 |-> i.flag2,
                       recs |-> i.recs]
    BY <2>4 DEF Class
  <2>6. CopyItem(i) \in ClassType
    BY <2>2, <2>5 DEF ClassType
  <2> QED BY <2>1, <2>6
<1>2. CASE kind = "objects"
  <2>1. ItemType(kind) = ObjectType
    BY <1>2 DEF ItemType
  <2>2. i \in ObjectType
    BY <2>1
  <2>3. i.is = "object"
    BY <2>2 DEF ObjectType
  <2>5. CopyItem(i) = [is |-> "object", dxf |-> i.dxf, recs |-> i.recs]
    BY <2>3 DEF CopyItem, Object
  <2>6. CopyItem(i) \in ObjectType
    BY <2>2, <2>5 DEF ObjectType
  <2> QED BY <2>1, <2>6
<1> QED BY <1>1, <1>2

\* the classes or objects of the copy
CopiedItems(section) == Fold(LAMBDA done, i : Append(done, CopyItem(i)), << >>, section.items)

\* The copies of classes and objects are classes and objects.
LEMMA ItemsCopied ==
  ASSUME NEW section \in AnySection, section.kind \in {"classes", "objects"}
  PROVE  CopiedItems(section) \in Seq(ItemType(section.kind))
<1> DEFINE recs == section.items
           I == ItemType(section.kind)
           S == Seq(I)
           N == Len(recs)
           base == << >>
           Step(v, k) == Append(v, CopyItem(recs[k]))
           Body(f) == [k \in 0 .. N |-> IF k = 0 THEN base ELSE Step(f[k - 1], k)]
           Eq(f) == f = Body(f)
           after == CHOOSE f : Eq(f)
<1>1. N \in Nat /\ \A k \in 1 .. N : recs[k] \in I
  <2>1. recs \in Seq(I)
    BY SectionFields
  <2> HIDE DEF recs, I
  <2> QED BY <2>1
<1>2. CopiedItems(section) = after[N]
  BY DEF CopiedItems, Fold
<1>3. base \in S
  <2> HIDE DEF I
  <2> QED OBVIOUS
<1>6. ASSUME NEW v \in S, NEW k \in 1 .. N PROVE Step(v, k) \in S
  <2> DEFINE c == CopyItem(recs[k])
  <2>1. c \in I
    BY <1>1, CopyItemTyped
  <2> HIDE DEF c, I
  <2>2. Append(v, c) \in S
    BY <2>1
  <2> QED BY <2>2 DEF c
<1> HIDE DEF N, base, S
<1>7. \A f : Eq(f) <=> IsLoop(f, "CopyItem", 0, base, recs)
  <2>1. \A v, k : Turn("CopyItem", 0, v, recs[k]) = Step(v, k)
    BY DEF Turn, Counts
  <2> HIDE DEF Step, base
  <2> QED BY <2>1 DEF IsLoop, N
<1>11. Eq(after)
  <2> HIDE DEF Eq
  <2>1. Len(recs) \in Nat
    BY <1>1 DEF N
  <2> QED BY <2>1, <1>7, LoopIs
<1>12. after[N] \in S
  <2> DEFINE r == after
  <2>1. r = Body(r)
    BY <1>11
  <2> HIDE DEF r, Step
  <2>2. \A k \in 0 .. N : r[k] = IF k = 0 THEN base ELSE Step(r[k - 1], k)
    BY <2>1
  <2>4. r[0] = base /\ \A k \in 1 .. N : r[k] = Step(r[k - 1], k)
    BY <2>2, <1>1
  <2> DEFINE T == {k \in 0 .. N : r[k] \in S}
  <2>5. 0 \in T
    BY <2>4, <1>3, <1>1
  <2>6. ASSUME NEW k \in 1 .. N, k - 1 \in T PROVE k \in T
    <3>1. r[k] \in S
      <4>1. r[k] = Step(r[k - 1], k) /\ r[k - 1] \in S
        BY <2>4, <2>6
      <4>2. Step(r[k - 1], k) \in S
        BY <4>1, <1>6 DEF Step
      <4> QED BY <4>1, <4>2
    <3> QED BY <3>1, <1>1
  <2>7. 0 .. N \subseteq T
    <3> HIDE DEF T
    <3> QED BY <2>5, <2>6, <1>1, UpTo
  <2> QED BY <2>7, <1>1 DEF r
<1> HIDE DEF after
<1> QED BY <1>2, <1>12 DEF S

\* copy() of every kind of section keeps the copy sound.
LEMMA SectionCopied ==
  ASSUME NEW m \in ModelType, NEW n, Copying(m, n), NEW section, KnownSection(m, section)
  PROVE  CopiesSection(m, n, CopySection(m, n, section), section)
<1> DEFINE w == CopySection(m, n, section)
<1>1. section \in AnySection /\ section.kind \in Kinds
  BY SectionFields DEF KnownSection
<1>2. CASE section.kind = "tables"
  <2>1. w = CopyTables(m, n, section)
    BY <1>2 DEF CopySection
  <2> HIDE DEF w
  <2>2. CopiesTables(m, n, w, section, Len(section.items))
    BY <1>2, <2>1, TablesCopied
  <2> DEFINE s == Len(n.sections) + 1
  <2>3. /\ Copying(m, w) /\ Len(w.sections) = s /\ s \in Tables(w)
        /\ \A r \in DOMAIN n.sections : w.sections[r] = n.sections[r]
        /\ TablesLike(w.sections[s].items, section.items, Len(section.items))
    BY <2>2 DEF CopiesTables
  <2>4. SectionLike(w.sections[s], section)
    BY <1>2, <2>3 DEF SectionLike, Tables
  <2>5. CopiesSection(m, n, w, section)
    BY <2>3, <2>4 DEF CopiesSection
  <2> QED BY <2>5 DEF w
<1>3. CASE section.kind \in {"classes", "objects"}
  <2> DEFINE items == CopiedItems(section)
             x == [kind |-> section.kind, name |-> section.name, recs |-> << >>, items |-> items]
  <2>1. w = CopyItems(n, section)
    BY <1>3 DEF CopySection
  <2>2. w = AddSection(n, x)
    <3>1. CopyItems(n, section) =
            [n EXCEPT !.sections = Append(@, [Section(section.kind, section.name)
                                                EXCEPT !.items = items])]
      BY DEF CopyItems, CopiedItems
    <3> HIDE DEF w
    <3>2. [Section(section.kind, section.name) EXCEPT !.items = items] = x
      <4> HIDE DEF items
      <4> QED BY DEF Section
    <3> HIDE DEF x, items
    <3> QED BY <2>1, <3>1, <3>2 DEF AddSection, PutSections
  <2>3. items \in Seq(ItemType(section.kind))
    BY <1>1, <1>3, ItemsCopied
  <2> HIDE DEF items, w
  <2>4. x \in AnySection
    <3> DEFINE none == << >>
    <3>1. none \in RecordSeq
      BY DEF RecordSeq
    <3>2. x = [kind |-> section.kind, name |-> section.name, recs |-> none, items |-> items]
      OBVIOUS
    <3> HIDE DEF none, x
    <3>3. section.name \in STRING /\ (section.name = "HEADER" => section.kind = "header")
      BY <1>1, SectionFields
    <3> QED BY <1>1, <2>3, <3>1, <3>2, <3>3, SectionMade
  <2>5. x.kind = section.kind
    OBVIOUS
  <2> HIDE DEF x
  <2>6. SectionLike(x, section) /\ x.kind # "tables"
    BY <1>3, <2>5 DEF SectionLike
  <2>7. CopiesSection(m, n, w, section)
    BY <2>2, <2>4, <2>6, PlainCopied
  <2> QED BY <2>7 DEF w
<1>4. CASE section.kind \in {"header", "unknown"}
  <2> DEFINE x == [kind |-> section.kind, name |-> section.name, recs |-> section.recs,
                   items |-> << >>]
  <2>1. w = CopyRecords(n, section)
    BY <1>4 DEF CopySection
  <2>2. w = AddSection(n, x)
    BY <2>1 DEF CopyRecords, Section, AddSection, PutSections
  <2> HIDE DEF w
  <2>4. x \in AnySection
    <3> DEFINE none == << >>
    <3>1. none \in Seq(ItemType(section.kind))
      OBVIOUS
    <3>2. x = [kind |-> section.kind, name |-> section.name, recs |-> section.recs, items |-> none]
      OBVIOUS
    <3> HIDE DEF none, x
    <3>3. section.name \in STRING /\ (section.name = "HEADER" => section.kind = "header")
          /\ section.recs \in RecordSeq
      BY <1>1, SectionFields
    <3> QED BY <1>1, <3>1, <3>2, <3>3, SectionMade
  <2>5. x.kind = section.kind /\ x.recs = section.recs
    OBVIOUS
  <2> HIDE DEF x
  <2>6. SectionLike(x, section) /\ x.kind # "tables"
    BY <1>4, <2>5 DEF SectionLike
  <2>7. CopiesSection(m, n, w, section)
    BY <2>2, <2>4, <2>6, PlainCopied
  <2> QED BY <2>7 DEF w
<1> QED BY <1>1, <1>2, <1>3, <1>4 DEF Kinds

\* a model without sections and layers
LEMMA Emptied ==
  ASSUME NEW m, m.comments \in RecordSeq, m.largest \in Nat,
         m = [comments |-> m.comments, sections |-> << >>, layers |-> << >>,
              layerDict |-> EmptyDict, largest |-> m.largest]
  PROVE  m \in ModelType /\ LayersIn(m, {}) /\ HandlesIn(m, {})
<1> DEFINE sections == << >>
           layers == << >>
<1>1. sections \in Seq(AnySection) /\ layers \in Seq(LayerType)
  OBVIOUS
<1>2. DictOK(EmptyDict, Nat) /\ \A key \in Keys : ~ Has(EmptyDict, key)
  BY NewDictIsEmpty
<1>3. EmptyDict \in [Buckets -> Seq([key : Keys, value : Nat])]
  BY <1>2 DEF DictOK
<1>4. m = [comments |-> m.comments, sections |-> sections, layers |-> layers,
           layerDict |-> EmptyDict, largest |-> m.largest]
  OBVIOUS
<1>5. m.sections = << >> /\ m.layers = << >> /\ m.layerDict = EmptyDict
  OBVIOUS
<1> HIDE DEF sections, layers
<1>6. m \in ModelType
  BY <1>1, <1>3, <1>4, ModelMade
<1>7. DOMAIN m.sections = {} /\ DOMAIN m.layers = {}
  BY <1>5
<1>8. Tables(m) = {} /\ Unknown(m) = {}
  BY <1>7 DEF Tables, Unknown
<1>9. Entries(m) = {}
  BY <1>8 DEF Entries
<1>10. LayersKnown(m)
  BY <1>2, <1>5, <1>7 DEF LayersKnown
<1>11. LayersIn(m, {})
  BY <1>7, <1>9, <1>10 DEF LayersIn
<1>12. HandlesIn(m, {})
  BY <1>8, <1>9 DEF HandlesIn, EntryHandle, SectionHandle
<1> QED BY <1>6, <1>11, <1>12

\* A model each of whose handles another has, at the same place.
LEMMA HandlesFewer ==
  ASSUME NEW m, NEW n, NEW ids, HandlesIn(m, ids), n.largest = m.largest,
         \A p, i, h : EntryHandle(n, p, i, h) => EntryHandle(m, p, i, h),
         \A s, i, h : SectionHandle(n, s, i, h) => SectionHandle(m, s, i, h)
  PROVE  HandlesIn(n, ids)
BY DEF HandlesIn

\* the first k sections are copied
SectionsLike(m, w, k) ==
  Len(w.sections) = k /\ \A s \in 1 .. k : SectionLike(w.sections[s], m.sections[s])

\* A copy has the handles of its original.
LEMMA HandlesLike ==
  ASSUME NEW m \in ModelType, NEW w \in ModelType, SectionsLike(m, w, Len(m.sections)),
         w.largest = m.largest, NEW ids, HandlesIn(m, ids)
  PROVE  HandlesIn(w, ids)
<1>1. /\ DOMAIN w.sections = DOMAIN m.sections
      /\ \A s \in DOMAIN w.sections : SectionLike(w.sections[s], m.sections[s])
  BY ModelFields DEF SectionsLike
<1>2. ASSUME NEW p, NEW i, NEW h, EntryHandle(w, p, i, h) PROVE EntryHandle(m, p, i, h)
  <2> DEFINE s == p[1]
             t == p[2]
             k == p[3]
             a == w.sections[s].items
             b == m.sections[s].items
  <2>1. p \in Entries(w) /\ i \in DOMAIN EntryAt(w, p).recs
        /\ EntryAt(w, p).recs[i].code = 5 /\ EntryAt(w, p).recs[i].num = h
    BY <1>2 DEF EntryHandle
  <2>2. EntryIn(w, s, t, k) /\ p = <<s, t, k>>
    BY <2>1, EntriesAre
  <2>3. s \in Tables(w) /\ t \in DOMAIN a /\ k \in DOMAIN a[t].entries
    BY <2>2 DEF EntryIn
  <2>4. s \in DOMAIN m.sections /\ SectionLike(w.sections[s], m.sections[s])
        /\ w.sections[s].kind = "tables"
    BY <1>1, <2>3 DEF Tables
  <2>5. s \in Tables(m) /\ TablesLike(a, b, Len(b))
    BY <2>4 DEF SectionLike, Tables
  <2> HIDE DEF s, t, k
  <2>6. DOMAIN a = 1 .. Len(a) /\ DOMAIN b = 1 .. Len(b)
    BY <2>3, <2>5, TableFields
  <2>7. t \in DOMAIN b /\ EntriesLike(a[t].entries, b[t].entries, Len(b[t].entries))
    BY <2>3, <2>5, <2>6 DEF TablesLike
  <2>8. DOMAIN a[t].entries = 1 .. Len(a[t].entries)
        /\ DOMAIN b[t].entries = 1 .. Len(b[t].entries)
    BY <2>3, <2>5, <2>7, TableFields
  <2>9. k \in DOMAIN b[t].entries /\ a[t].entries[k].recs = b[t].entries[k].recs
    BY <2>3, <2>7, <2>8 DEF EntriesLike
  <2>10. EntryIn(m, s, t, k)
    BY <2>5, <2>7, <2>9 DEF EntryIn
  <2>11. p \in Entries(m)
    BY <2>2, <2>10, EntriesAre
  <2>12. EntryAt(m, p).recs = EntryAt(w, p).recs
    BY <2>9 DEF EntryAt, s, t, k
  <2> QED BY <2>1, <2>11, <2>12 DEF EntryHandle
<1>3. ASSUME NEW s, NEW i, NEW h, SectionHandle(w, s, i, h) PROVE SectionHandle(m, s, i, h)
  <2>1. s \in DOMAIN w.sections /\ w.sections[s].kind = "unknown"
    BY <1>3 DEF SectionHandle, Unknown
  <2>2. m.sections[s].kind = "unknown" /\ w.sections[s].recs = m.sections[s].recs
    BY <1>1, <2>1 DEF SectionLike
  <2> QED BY <1>1, <1>3, <2>1, <2>2 DEF SectionHandle, Unknown
<1> QED BY <1>2, <1>3, HandlesFewer

\* The sections of a sound model have names the dictionary takes.
LEMMA SectionsKnown ==
  ASSUME NEW m \in ModelType, NEW names, LayersIn(m, names), NEW s \in DOMAIN m.sections
  PROVE  KnownSection(m, m.sections[s])
<1>1. m.sections[s] \in AnySection
  BY ModelFields
<1>2. ASSUME m.sections[s].kind = "tables", NEW t \in DOMAIN m.sections[s].items
      PROVE  KnownTable(m, m.sections[s].items[t])
  <2>1. s \in Tables(m)
    BY <1>2 DEF Tables
  <2>2. m.sections[s].items[t] \in TableType
    BY <1>2, <2>1, TableFields
  <2>3. ASSUME NEW k \in DOMAIN m.sections[s].items[t].entries
        PROVE  Known(m, m.sections[s].items[t].entries[k])
    <3> DEFINE p == <<s, t, k>>
               e == m.sections[s].items[t].entries[k]
    <3>1. EntryIn(m, s, t, k)
      BY <1>2, <2>1 DEF EntryIn
    <3>2. p \in Entries(m)
      BY <3>1, EntriesAre
    <3>3. EntryAt(m, p) = e
      BY DEF EntryAt
    <3>4. e \in EntryType
      BY <1>2, <2>1, TableFields
    <3>5. EntryKnown(m, p)
      BY <3>2 DEF LayersIn
    <3> QED BY <3>3, <3>4, <3>5 DEF EntryKnown, Known
  <2> QED BY <2>2, <2>3 DEF KnownTable
<1> QED BY <1>1, <1>2 DEF KnownSection

\* the sections so far
CopiesModel(m, w, k) == Copying(m, w) /\ SectionsLike(m, w, k)

\* The copy after k of the sections is sound.
LEMMA CopyingModel ==
  ASSUME NEW m, NEW k \in Nat, NEW v, CopiesModel(m, v, k),
         NEW section, section = m.sections[k + 1], NEW w, CopiesSection(m, v, w, section)
  PROVE  CopiesModel(m, w, k + 1)
<1>1. Copying(m, v) /\ Len(v.sections) = k
      /\ \A s \in 1 .. k : SectionLike(v.sections[s], m.sections[s])
  BY DEF CopiesModel, SectionsLike
<1>2. /\ Copying(m, w) /\ Len(w.sections) = k + 1
      /\ \A r \in DOMAIN v.sections : w.sections[r] = v.sections[r]
      /\ SectionLike(w.sections[k + 1], section)
  BY <1>1 DEF CopiesSection
<1>3. DOMAIN v.sections = 1 .. k
  BY <1>1, ModelFields DEF Copying
<1>4. ASSUME NEW s \in 1 .. k + 1 PROVE SectionLike(w.sections[s], m.sections[s])
  <2>1. CASE s = k + 1
    BY <1>2, <2>1
  <2>2. CASE s # k + 1
    BY <2>2, <1>1, <1>2, <1>3
  <2> QED BY <2>1, <2>2
<1> QED BY <1>2, <1>4 DEF CopiesModel, SectionsLike

\* The copy after all of the sections is sound and like its original.
LEMMA ModelCopied ==
  ASSUME NEW m \in ModelType, NEW names, LayersIn(m, names)
  PROVE  CopiesModel(m, CopyModel(m), Len(m.sections))
<1> DEFINE recs == m.sections
           N == Len(recs)
           base == [NewModel EXCEPT !.largest = m.largest]
           S == {v \in ModelType : Copying(m, v)}
           Step(v, k) == CopySection(m, v, recs[k])
           Body(f) == [k \in 0 .. N |-> IF k = 0 THEN base ELSE Step(f[k - 1], k)]
           Eq(f) == f = Body(f)
           after == CHOOSE f : Eq(f)
<1>1. N \in Nat /\ \A k \in 1 .. N : KnownSection(m, recs[k])
  BY ModelFields, SectionsKnown
<1>2. CopyModel(m) = after[N]
  BY DEF CopyModel, CopyFrom, Fold
<1>3. CopiesModel(m, base, 0) /\ base \in S
  <2> DEFINE comments == << >>
  <2>1. comments \in RecordSeq /\ m.largest \in Nat
    BY ModelFields DEF RecordSeq
  <2>2. base = [comments |-> comments, sections |-> << >>, layers |-> << >>,
                layerDict |-> EmptyDict, largest |-> m.largest]
    BY DEF NewModel
  <2> HIDE DEF comments, base
  <2>3. base.comments = comments /\ base.largest = m.largest /\ base.sections = << >>
    BY <2>2
  <2>4. base \in ModelType /\ LayersIn(base, {})
    BY <2>1, <2>2, <2>3, Emptied
  <2>5. Len(base.sections) = 0 /\ \A s \in 1 .. 0 : FALSE
    BY <2>3
  <2> QED BY <2>3, <2>4, <2>5 DEF CopiesModel, Copying, SectionsLike
<1> HIDE DEF base, N
<1>6. ASSUME NEW v \in S, NEW k \in 1 .. N
      PROVE  CopiesSection(m, v, Step(v, k), recs[k]) /\ Step(v, k) \in S
  <2>1. CopiesSection(m, v, Step(v, k), recs[k])
    BY <1>1, SectionCopied
  <2> HIDE DEF Step
  <2> QED BY <2>1 DEF Copying, CopiesSection
<1>7. \A f : Eq(f) <=> IsLoop(f, "CopySection", m, base, recs)
  <2>1. \A v, k : Turn("CopySection", m, v, recs[k]) = Step(v, k)
    BY DEF Turn, Counts
  <2> HIDE DEF Step, base
  <2> QED BY <2>1 DEF IsLoop, N
<1>11. Eq(after)
  <2> HIDE DEF Eq
  <2>1. Len(recs) \in Nat
    BY <1>1 DEF N
  <2> QED BY <2>1, <1>7, LoopIs
<1>12. CopiesModel(m, after[N], N)
  <2> DEFINE r == after
  <2>1. r = Body(r)
    BY <1>11
  <2> HIDE DEF r, Step
  <2>2. \A k \in 0 .. N : r[k] = IF k = 0 THEN base ELSE Step(r[k - 1], k)
    BY <2>1
  <2>4. r[0] = base /\ \A k \in 1 .. N : r[k] = Step(r[k - 1], k)
    BY <2>2, <1>1
  <2> DEFINE T == {k \in 0 .. N : r[k] \in S /\ CopiesModel(m, r[k], k)}
  <2>5. 0 \in T
    BY <2>4, <1>3, <1>1
  <2>6. ASSUME NEW k \in 1 .. N, k - 1 \in T PROVE k \in T
    <3> DEFINE v == r[k - 1]
               w == r[k]
               j == k - 1
               section == recs[k]
    <3>1. v \in S /\ CopiesModel(m, v, j)
      BY <2>6
    <3>2. w = Step(v, k)
      BY <2>4
    <3> HIDE DEF v, w
    <3>3. w \in S /\ CopiesSection(m, v, w, section)
      BY <3>1, <3>2, <1>6
    <3>5. j \in Nat /\ j + 1 = k
      BY <1>1
    <3> HIDE DEF j
    <3>6. section = m.sections[j + 1]
      BY <3>5
    <3> HIDE DEF section
    <3>7. CopiesModel(m, w, j + 1)
      BY <3>1, <3>3, <3>5, <3>6, CopyingModel
    <3> QED BY <3>3, <3>5, <3>7, <1>1 DEF w
  <2>7. 0 .. N \subseteq T
    <3> HIDE DEF T
    <3> QED BY <2>5, <2>6, <1>1, UpTo
  <2> QED BY <2>7, <1>1 DEF r
<1> HIDE DEF after
<1> QED BY <1>2, <1>12 DEF N

\* dimeModel::copy() makes a sound model with the handles of its original.
LEMMA Copies ==
  ASSUME NEW m \in ModelType, NEW names, LayersIn(m, names), NEW ids, HandlesIn(m, ids)
  PROVE  /\ CopyModel(m) \in ModelType
         /\ LayersIn(CopyModel(m), {}) /\ HandlesIn(CopyModel(m), ids)
<1> DEFINE w == CopyModel(m)
<1>1. CopiesModel(m, w, Len(m.sections))
  BY ModelCopied
<1> HIDE DEF w
<1>2. w \in ModelType /\ LayersIn(w, {}) /\ w.largest = m.largest
      /\ SectionsLike(m, w, Len(m.sections))
  BY <1>1 DEF CopiesModel, Copying
<1>3. HandlesIn(w, ids)
  BY <1>2, HandlesLike
<1> QED BY <1>2, <1>3 DEF w

-----------------------------------------------------------------------------
(* The steps of the clients.                                                *)

\* What holds of a model, of the handles that were given, and of the layers
\* that were touched.
ModelIn(m, ids, names) ==
  m \in ModelType /\ LayersIn(m, names) /\ HandlesIn(m, ids)

\* What is new brings no handle and is not registered; what is gone has
\* touched its layer.
LEMMA KeptIn ==
  ASSUME NEW m, NEW ids, NEW names, ModelIn(m, ids, names),
         NEW more, names \subseteq more, NEW n \in ModelType,
         NEW New, NEW Unk, NEW Gone, Kept(m, n, New, Unk, Gone),
         \A p \in New : p \in Entries(n) =>
           /\ EntryAt(n, p).info = 0
           /\ \A i \in DOMAIN EntryAt(n, p).recs : EntryAt(n, p).recs[i].code # 5,
         \A s \in Unk : s \in Unknown(n) =>
           \A i \in DOMAIN n.sections[s].recs : n.sections[s].recs[i].code # 5,
         \A q \in Gone : q \in Entries(m) => EntryAt(m, q).name \in more
  PROVE  ModelIn(n, ids, more)
<1>1. m \in ModelType /\ LayersIn(m, names) /\ HandlesIn(m, ids)
  BY DEF ModelIn
<1> DEFINE Lose == Gone \cap Entries(m)
<1>2. Kept(m, n, New, Unk, Lose)
  <2>1. \A F : Lost(m, F) \subseteq Gone => Lost(m, F) \subseteq Lose
    BY DEF Lost
  <2> HIDE DEF Lose
  <2> QED BY <2>1 DEF Kept
<1>3. LayersIn(n, more)
  <2>1. \A q \in Lose : EntryAt(m, q).info # 0 => EntryAt(m, q).name \in more
    OBVIOUS
  <2> HIDE DEF Lose
  <2> QED BY <1>1, <1>2, <2>1, LayersCarried
<1>4. HandlesIn(n, ids)
  <2>1. \A p \in New : \A i, h : ~ EntryHandle(n, p, i, h)
    BY DEF EntryHandle
  <2>2. \A s \in Unk : \A i, h : ~ SectionHandle(n, s, i, h)
    BY DEF SectionHandle
  <2> QED BY <1>1, <2>1, <2>2, HandlesCarried
<1> QED BY <1>3, <1>4 DEF ModelIn

\* what no entry and no unknown section shows
LEMMA SameIn ==
  ASSUME NEW m, NEW ids, NEW names, ModelIn(m, ids, names), NEW n \in ModelType,
         SameEntries(m, n)
  PROVE  ModelIn(n, ids, names)
<1>1. Kept(m, n, {}, {}, {})
  BY SameKept
<1> QED BY <1>1, KeptIn

\* A step that changes no entry, layer and handle keeps the invariant.
LEMMA QuietIn ==
  ASSUME NEW m, NEW ids, NEW names, ModelIn(m, ids, names), NEW s \in DOMAIN m.sections,
         NEW x \in AnySection, NEW n, Replaced(m, n, s, x), Quiet(m.sections[s], x)
  PROVE  ModelIn(n, ids, names)
<1>1. m \in ModelType
  BY DEF ModelIn
<1>2. n \in ModelType /\ SameEntries(m, n)
  BY <1>1, QuietSame
<1> QED BY <1>2, SameIn

\* a layer that is touched besides
LEMMA TouchedIn ==
  ASSUME NEW m, NEW ids, NEW names, ModelIn(m, ids, names), NEW more, names \subseteq more
  PROVE  ModelIn(m, ids, more)
<1>1. m \in ModelType
  BY DEF ModelIn
<1>2. SameEntries(m, m)
  BY DEF SameEntries
<1>3. Kept(m, m, {}, {}, {})
  BY <1>2, SameKept
<1> QED BY <1>1, <1>3, KeptIn

\* files can be read
LEMMA ContentsTyped == Contents \subseteq FileType /\ Junk \subseteq Int
<1>1. ASSUME NEW file \in Contents PROVE file \in FileType
  <2>1. /\ file \in RecordSeq
        /\ \A i \in DOMAIN file : file[i].code = 2 => file[i].str \in Keys \cup {NoName}
    BY DocumentAssumption
  <2>2. \A i \in DOMAIN file : file[i] \in Record
    BY <2>1 DEF RecordSeq
  <2> QED BY <2>1, <2>2 DEF FileType, Readable
<1> QED BY <1>1, DocumentAssumption

\* dimeModel::read() of a file into an empty model makes a sound one.
LEMMA LoadedIn ==
  ASSUME NEW m, m.comments \in RecordSeq, m.largest \in Nat,
         m = [comments |-> m.comments, sections |-> << >>, layers |-> << >>,
              layerDict |-> EmptyDict, largest |-> m.largest],
         NEW file \in Contents, NEW junk \in Junk
  PROVE  ModelIn(Load(m, file, junk), {}, {})
<1>1. m \in ModelType /\ LayersIn(m, {}) /\ HandlesIn(m, {})
  BY Emptied
<1>2. file \in FileType /\ junk \in Int
  BY ContentsTyped
<1> QED BY <1>1, <1>2, Loads DEF ModelIn

\* A new model is sound.
LEMMA InitIn == Init => ModelIn(model, given, touched)
<1> SUFFICES ASSUME Init PROVE ModelIn(model, given, touched)
  OBVIOUS
<1>1. PICK file \in Contents, junk \in Junk : model = Load(NewModel, file, junk)
  BY DEF Init
<1>2. given = {} /\ touched = {}
  BY DEF Init
<1> DEFINE m == NewModel
<1>3. m.comments \in RecordSeq /\ m.largest \in Nat
  <2> DEFINE none == << >>
  <2>1. none \in RecordSeq
    BY DEF RecordSeq
  <2>2. m.comments = none /\ m.largest = 0
    BY DEF NewModel
  <2> HIDE DEF none, m
  <2> QED BY <2>1, <2>2
<1>4. m = [comments |-> m.comments, sections |-> << >>, layers |-> << >>,
           layerDict |-> EmptyDict, largest |-> m.largest]
  BY DEF NewModel
<1>5. model = Load(m, file, junk)
  BY <1>1
<1> HIDE DEF m
<1>6. ModelIn(Load(m, file, junk), {}, {})
  BY <1>3, <1>4, LoadedIn
<1> QED BY <1>2, <1>5, <1>6

\* dimeModel::read() into the model that was there keeps the invariant.
LEMMA ReadIn ==
  ASSUME ModelIn(model, given, touched), Read PROVE ModelIn(model', given', touched')
<1>1. PICK file \in Contents, junk \in Junk : model' = Load(InitModel(model), file, junk)
  BY DEF Read, Edit
<1>2. given' = {} /\ touched' = {}
  BY DEF Read
<1> DEFINE m == InitModel(model)
<1>3. model \in ModelType
  BY DEF ModelIn
<1>4. /\ m.comments = model.comments /\ m.largest = model.largest
      /\ m = [comments |-> m.comments, sections |-> << >>, layers |-> << >>,
              layerDict |-> EmptyDict, largest |-> m.largest]
  <2> DEFINE comments == model.comments
             sections == model.sections
             layers == model.layers
             dict == model.layerDict
             largest == model.largest
             none == << >>
  <2>1. model = [comments |-> comments, sections |-> sections, layers |-> layers,
                 layerDict |-> dict, largest |-> largest]
    BY <1>3, ModelIs
  <2>i. m = [model EXCEPT !.sections = none, !.layers = none, !.layerDict = EmptyDict]
    BY DEF InitModel
  <2> HIDE DEF comments, sections, layers, dict, largest, none, m
  <2>r. m = [comments |-> comments, sections |-> none, layers |-> none,
             layerDict |-> EmptyDict, largest |-> largest]
    BY <2>1, <2>i
  <2>2. m = [comments |-> model.comments, sections |-> << >>, layers |-> << >>,
             layerDict |-> EmptyDict, largest |-> model.largest]
    BY <2>r DEF comments, largest, none
  <2> HIDE DEF m
  <2>3. m.comments = model.comments /\ m.largest = model.largest
    BY <2>2
  <2> QED BY <2>2, <2>3
<1>5. m.comments \in RecordSeq /\ m.largest \in Nat
  BY <1>3, <1>4, ModelFields
<1>6. model' = Load(m, file, junk)
  BY <1>1
<1> HIDE DEF m
<1>7. ModelIn(Load(m, file, junk), {}, {})
  BY <1>4, <1>5, LoadedIn
<1> QED BY <1>2, <1>6, <1>7

\* a header gets other records
LEMMA HeaderIn ==
  ASSUME NEW m, NEW ids, NEW names, ModelIn(m, ids, names), NEW s \in DOMAIN m.sections,
         m.sections[s].kind = "header", NEW recs \in RecordSeq
  PROVE  ModelIn(PutRecs(m, s, recs), ids, names)
<1> SUFFICES ASSUME NEW n, n = PutRecs(m, s, recs) PROVE ModelIn(n, ids, names)
  OBVIOUS
<1>1. m \in ModelType /\ m.sections[s].kind # "tables"
  BY DEF ModelIn
<1>2. GetsRecs(m, n, s, recs)
  BY <1>1, RecsChanged
<1>3. n \in ModelType /\ Unknown(n) = Unknown(m) /\ Kept(m, n, {}, {s}, {})
  BY <1>2 DEF GetsRecs
<1>4. s \notin Unknown(n)
  BY <1>3 DEF Unknown
<1> QED BY <1>3, <1>4, KeptIn

\* dimeHeaderSection::setVariable() keeps the invariant.
LEMMA SetsVariableIn ==
  ASSUME ModelIn(model, given, touched), ClientSetsVariable
  PROVE  ModelIn(model', given', touched')
<1>1. PICK s \in DOMAIN model.sections, name \in Variables, values \in Values :
        /\ model.sections[s].kind = "header"
        /\ Edit([model EXCEPT !.sections[s].recs = SetVariable(@, name, values)])
  BY DEF ClientSetsVariable
<1>2. given' = given /\ touched' = touched
  BY DEF ClientSetsVariable
<1> DEFINE old == model.sections[s].recs
           new == SetVariable(old, name, values)
<1>3. model' = PutRecs(model, s, new)
  BY <1>1 DEF Edit, PutRecs
<1>4. old \in RecordSeq
  BY ModelFields, SectionFields DEF ModelIn
<1>5. name \in STRING /\ values \in RecordSeq /\ \A k \in DOMAIN values : values[k].code # 9
  BY DocumentAssumption
<1> HIDE DEF old
<1>6. new \in RecordSeq
  BY <1>4, <1>5, SetVariableSetsOne
<1> HIDE DEF new
<1> QED BY <1>1, <1>2, <1>3, <1>6, HeaderIn

\* the constants of the clients
LEMMA ClientsTyped ==
  /\ Colors \subseteq Int /\ LayerNames \subseteq Keys
  /\ TableNames \subseteq STRING /\ ItemRecords \subseteq Record
  /\ \A section \in Inserted : section \in AnySection /\ Fresh(section)
<1>1. \A section \in Inserted : IsSection(section) /\ Fresh(section)
  BY DocumentAssumption
<1> QED BY <1>1, DocumentAssumption, SectionsAre

\* LAYER entries that clients make
LayerEntry(name, color, h) ==
  [Entry("LAYER") EXCEPT !.name = name, !.color = color, !.recs = <<Num(5, h)>>]
\* an entry that has registered nothing, with a handle of its own
MadeWith(e, h) == e \in EntryType /\ e.info = 0 /\ e.recs = <<Num(5, h)>>

\* the entry a client makes
LEMMA EntryIsMade ==
  ASSUME NEW name \in LayerNames, NEW color \in Colors, NEW h \in Int
  PROVE  MadeWith(LayerEntry(name, color, h), h)
<1> DEFINE recs == <<Num(5, h)>>
           a == Entry("LAYER")
           b == [a EXCEPT !.name = name]
           c == [b EXCEPT !.color = color]
           e == [c EXCEPT !.recs = recs]
<1>1. name \in Keys \cup {NoName} /\ color \in Int /\ "LAYER" \in STRING /\ NoName \in STRING
  BY ClientsTyped, StringAssumption
<1>2. Num(5, h) \in Record
  <2>1. Num(5, h) = [code |-> 5, str |-> NoName, num |-> h]
    BY DEF Num, NoName
  <2> QED BY <1>1, <2>1 DEF Record
<1>3. recs \in RecordSeq
  BY <1>2 DEF RecordSeq
<1>4. e = LayerEntry(name, color, h)
  BY DEF LayerEntry
<1>5. a \in EntryType /\ a.info = 0
  BY <1>1, EntryMade
<1> HIDE DEF a, recs
<1>6. b \in EntryType /\ b.info = 0
  BY <1>1, <1>5, EntryTyped DEF EntryType
<1> HIDE DEF b
<1>7. c \in EntryType /\ c.info = 0
  BY <1>1, <1>6, EntryTyped DEF EntryType
<1> HIDE DEF c
<1>8. e \in EntryType /\ e.info = 0 /\ e.recs = recs
  BY <1>3, <1>7, EntryTyped DEF EntryType
<1> HIDE DEF e
<1>9. MadeWith(e, h)
  BY <1>8 DEF MadeWith, recs
<1> QED BY <1>4, <1>9

\* Inserting an entry with a new handle keeps the invariant.
LEMMA InsertEntryIn ==
  ASSUME ModelIn(model, given, touched), InsertEntry
  PROVE  ModelIn(model', given', touched')
<1> DEFINE c == Counted(model)
           h == UniqueHandle(model)
<1>0. /\ model \in ModelType /\ LayersIn(model, touched) /\ HandlesIn(model, given)
      /\ model.largest \in Nat
  BY ModelFields DEF ModelIn
<1>1. /\ c \in ModelType /\ c.sections = model.sections /\ c.largest = model.largest + 1
      /\ c.layers = model.layers /\ c.layerDict = model.layerDict
  <2> DEFINE most == model.largest + 1
  <2>1. c = [model EXCEPT !.largest = most] /\ most \in Nat
    BY <1>0 DEF Counted
  <2>2. most = model.largest + 1
    OBVIOUS
  <2> HIDE DEF most, c
  <2> QED BY <1>0, <2>1, <2>2 DEF ModelType
<1>2. h = model.largest + 1 /\ h \in Int
  BY <1>0 DEF UniqueHandle
<1>3. PICK s \in Tables(model), name \in LayerNames, color \in Colors, registers \in BOOLEAN :
        \E t \in DOMAIN model.sections[s].items :
          \E k \in 1 .. Len(model.sections[s].items[t].entries) + 1 :
            LET entry == [Entry("LAYER") EXCEPT !.name = name, !.color = color,
                                                !.recs = <<Num(5, UniqueHandle(model))>>]
                m == [Counted(model) EXCEPT !.sections[s].items[t].entries =
                                              InsertAt(@, k, entry)]
            IN  /\ Edit(IF registers THEN RegisterLayer(m, s, t, k) ELSE m)
                /\ given' = given \cup {UniqueHandle(model)}
                /\ touched' = IF Has(model.layerDict, name) THEN touched \cup {name}
                              ELSE touched
  BY DEF InsertEntry
<1>4. PICK t \in DOMAIN model.sections[s].items :
          \E k \in 1 .. Len(model.sections[s].items[t].entries) + 1 :
            LET entry == [Entry("LAYER") EXCEPT !.name = name, !.color = color,
                                                !.recs = <<Num(5, UniqueHandle(model))>>]
                m == [Counted(model) EXCEPT !.sections[s].items[t].entries =
                                              InsertAt(@, k, entry)]
            IN  /\ Edit(IF registers THEN RegisterLayer(m, s, t, k) ELSE m)
                /\ given' = given \cup {UniqueHandle(model)}
                /\ touched' = IF Has(model.layerDict, name) THEN touched \cup {name}
                              ELSE touched
  BY <1>3
<1>5. PICK k \in 1 .. Len(model.sections[s].items[t].entries) + 1 :
            LET entry == [Entry("LAYER") EXCEPT !.name = name, !.color = color,
                                                !.recs = <<Num(5, UniqueHandle(model))>>]
                m == [Counted(model) EXCEPT !.sections[s].items[t].entries =
                                              InsertAt(@, k, entry)]
            IN  /\ Edit(IF registers THEN RegisterLayer(m, s, t, k) ELSE m)
                /\ given' = given \cup {UniqueHandle(model)}
                /\ touched' = IF Has(model.layerDict, name) THEN touched \cup {name}
                              ELSE touched
  BY <1>4
<1> DEFINE e == LayerEntry(name, color, h)
           m == PutEntries(c, s, t, InsertAt(c.sections[s].items[t].entries, k, e))
           p == <<s, t, k>>
<1>6. e \in EntryType /\ e.info = 0 /\ e.recs = <<Num(5, h)>>
  <2>1. MadeWith(e, h)
    BY <1>2, EntryIsMade
  <2> HIDE DEF e
  <2> QED BY <2>1 DEF MadeWith
<1>7. /\ model' = (IF registers THEN RegisterLayer(m, s, t, k) ELSE m)
      /\ given' = given \cup {h} /\ touched \subseteq touched'
  <2>1. given' = given \cup {h} /\ touched \subseteq touched'
    BY <1>5
  <2>2. model' = (IF registers THEN RegisterLayer(m, s, t, k) ELSE m)
    BY <1>5 DEF Edit, PutEntries, LayerEntry
  <2> QED BY <2>1, <2>2
<1> HIDE DEF c, h
<1> HIDE DEF e
<1>8. GetsEntry(c, m, s, t, k, e)
  BY <1>1, <1>6, EntryInserted DEF Tables
<1> HIDE DEF m
<1>9. /\ m \in ModelType /\ EntryIn(m, s, t, k) /\ EntryAt(m, p) = e
      /\ Kept(c, m, {p}, {}, {})
  BY <1>8 DEF GetsEntry
<1> HIDE DEF p
<1>10. LayersIn(c, touched)
  BY <1>0, <1>1, LayersSame
<1>11. LayersIn(m, touched)
  BY <1>1, <1>6, <1>9, <1>10, LayersCarried
<1>12. HandlesIn(m, given \cup {h})
  <2>1. EntryAt(m, p).recs = <<Num(5, model.largest + 1)>>
    BY <1>2, <1>6, <1>9
  <2>2. HandlesIn(m, given \cup {model.largest + 1})
    BY <1>0, <1>1, <1>9, <2>1, HandleGiven
  <2> QED BY <1>2, <2>2
<1>13. CASE registers
  <2> DEFINE n == RegisterLayer(m, s, t, k)
  <2>1. Registers(m, n, touched)
    BY <1>9, <1>11, LayerRegisters
  <2>2. model' = n
    BY <1>7, <1>13
  <2> HIDE DEF n
  <2>3. n \in ModelType /\ LayersIn(n, touched) /\ SameHolders(m, n)
    BY <2>1 DEF Registers
  <2>4. HandlesIn(n, given \cup {h})
    BY <1>12, <2>3, HandlesSame
  <2>5. ModelIn(model', given', touched)
    BY <1>7, <2>2, <2>3, <2>4 DEF ModelIn
  <2> QED BY <1>7, <2>5, TouchedIn
<1>14. CASE ~ registers
  BY <1>7, <1>9, <1>11, <1>12, <1>14, TouchedIn DEF ModelIn
<1> QED BY <1>13, <1>14

\* dimeLayerTable::setColorNumber() by a client keeps the invariant.
LEMMA SetsColorIn ==
  ASSUME ModelIn(model, given, touched), ClientSetsColor
  PROVE  ModelIn(model', given', touched')
<1>0. model \in ModelType /\ LayersIn(model, touched) /\ HandlesIn(model, given)
  BY DEF ModelIn
<1>1. PICK p \in Entries(model), color \in Colors :
        model' = SetColorNumber(model, p[1], p[2], p[3], color)
  BY DEF ClientSetsColor, Edit
<1>2. given' = given /\ touched' = touched
  BY DEF ClientSetsColor
<1>3. color \in Int
  BY ClientsTyped
<1>4. EntryIn(model, p[1], p[2], p[3])
  BY EntriesAre
<1> DEFINE n == SetColorNumber(model, p[1], p[2], p[3], color)
<1>5. ColorsEntry(model, n, touched, p[1], p[2], p[3])
  BY <1>0, <1>3, <1>4, ColorSet
<1>6. model' = n
  BY <1>1
<1> HIDE DEF n
<1>7. n \in ModelType /\ LayersIn(n, touched) /\ SameHolders(model, n)
  BY <1>5 DEF ColorsEntry
<1>8. HandlesIn(n, given)
  BY <1>0, <1>7, HandlesSame
<1> QED BY <1>2, <1>6, <1>7, <1>8 DEF ModelIn

\* Removing an entry keeps the invariant.
LEMMA RemoveEntryIn ==
  ASSUME ModelIn(model, given, touched), RemoveEntry
  PROVE  ModelIn(model', given', touched')
<1>0. model \in ModelType
  BY DEF ModelIn
<1>1. PICK p \in Entries(model) :
        /\ Edit([model EXCEPT !.sections[p[1]].items[p[2]].entries = RemoveAt(@, p[3])])
        /\ touched' = touched \cup {EntryAt(model, p).name} /\ given' = given
  BY DEF RemoveEntry
<1> DEFINE s == p[1]
           t == p[2]
           k == p[3]
           n == PutEntries(model, s, t, RemoveAt(model.sections[s].items[t].entries, k))
<1>2. model' = n
  BY <1>1 DEF Edit, PutEntries
<1>3. EntryIn(model, s, t, k) /\ p = <<s, t, k>>
  BY EntriesAre
<1> HIDE DEF s, t, k
<1>4. LosesEntry(model, n, s, t, k)
  BY <1>0, <1>3, EntryRemoved
<1> HIDE DEF n
<1>5. n \in ModelType /\ Kept(model, n, {}, {}, {p})
  BY <1>3, <1>4 DEF LosesEntry
<1>6. touched \subseteq touched' /\ \A q \in {p} : EntryAt(model, q).name \in touched'
  BY <1>1
<1>7. ModelIn(n, given, touched')
  <2> DEFINE Gone == {p}
             more == touched'
  <2>1. n \in ModelType /\ Kept(model, n, {}, {}, Gone) /\ touched \subseteq more
        /\ \A q \in Gone : EntryAt(model, q).name \in more
    BY <1>5, <1>6
  <2> HIDE DEF Gone, more
  <2>2. ModelIn(n, given, more)
    BY <2>1, KeptIn
  <2> QED BY <2>2 DEF more
<1> QED BY <1>1, <1>2, <1>7

\* dimeModel::addLayer() by a client keeps the invariant.
LEMMA UseLayerIn ==
  ASSUME ModelIn(model, given, touched), UseLayer
  PROVE  ModelIn(model', given', touched')
<1>0. model \in ModelType /\ LayersIn(model, touched) /\ HandlesIn(model, given)
  BY DEF ModelIn
<1>1. PICK name \in LayerNames :
        /\ model' = AddLayer(model, name, 7)
        /\ touched' = IF Has(model.layerDict, name) THEN touched ELSE touched \cup {name}
  BY DEF UseLayer, Edit
<1>2. given' = given
  BY DEF UseLayer
<1>3. name \in Keys /\ 7 \in Int
  BY ClientsTyped
<1>4. model' \in ModelType /\ LayersIn(model', touched')
  BY <1>0, <1>1, <1>3, LayersUsed
<1>5. LayersKnown(model)
  BY <1>0 DEF LayersIn
<1>6. model'.sections = model.sections /\ model'.largest = model.largest
  BY <1>0, <1>1, <1>3, <1>5, LayerAdded
<1> DEFINE x == model'
<1>7. SameHolders(model, x)
  <2>1. x.sections = model.sections /\ x.largest = model.largest
    BY <1>6
  <2> HIDE DEF x
  <2> QED BY <2>1, SameSections DEF SameHolders
<1>8. HandlesIn(x, given)
  <2> HIDE DEF x
  <2> QED BY <1>0, <1>7, HandlesSame
<1> QED BY <1>2, <1>4, <1>8 DEF ModelIn

\* Inserting a table keeps the invariant.
LEMMA InsertTableIn ==
  ASSUME ModelIn(model, given, touched), InsertTable
  PROVE  ModelIn(model', given', touched')
<1>0. model \in ModelType
  BY DEF ModelIn
<1>1. PICK s \in Tables(model), name \in TableNames :
        \E t \in 1 .. Len(model.sections[s].items) + 1 :
          Edit([model EXCEPT !.sections[s].items =
                  InsertAt(@, t, [Table EXCEPT !.name = name])])
  BY DEF InsertTable
<1>2. PICK t \in 1 .. Len(model.sections[s].items) + 1 :
          Edit([model EXCEPT !.sections[s].items =
                  InsertAt(@, t, [Table EXCEPT !.name = name])])
  BY <1>1
<1>3. given' = given /\ touched' = touched
  BY DEF InsertTable
<1> DEFINE table == [Table EXCEPT !.name = name]
           n == PutItems(model, s, InsertAt(model.sections[s].items, t, table))
<1>4. model' = n
  BY <1>2 DEF Edit, PutItems
<1>5. table \in TableType /\ table.entries = << >>
  <2> DEFINE old == Table
  <2>1. old \in TableType /\ old.entries = << >> /\ name \in STRING
    BY TableMade, ClientsTyped
  <2> HIDE DEF old
  <2>2. [old EXCEPT !.name = name] \in TableType
        /\ [old EXCEPT !.name = name].entries = << >>
    BY <2>1 DEF TableType
  <2> QED BY <2>2 DEF old
<1> HIDE DEF table
<1>6. GetsNewTable(model, n, s, t, table)
  BY <1>0, <1>5, TableInserted
<1> HIDE DEF n
<1>7. n \in ModelType /\ Kept(model, n, {}, {}, {})
  BY <1>6 DEF GetsNewTable
<1>8. ModelIn(n, given, touched)
  BY <1>7, KeptIn
<1> QED BY <1>3, <1>4, <1>8

\* Removing a table keeps the invariant.
LEMMA RemoveTableIn ==
  ASSUME ModelIn(model, given, touched), RemoveTable
  PROVE  ModelIn(model', given', touched')
<1>0. model \in ModelType
  BY DEF ModelIn
<1>1. PICK s \in Tables(model) : \E t \in DOMAIN model.sections[s].items :
        /\ Edit([model EXCEPT !.sections[s].items = RemoveAt(@, t)])
        /\ touched' = touched \cup
             {EntryAt(model, p).name :
                p \in {q \in Entries(model) : q[1] = s /\ q[2] = t}}
        /\ UNCHANGED given
  BY DEF RemoveTable
<1>2. PICK t \in DOMAIN model.sections[s].items :
        /\ Edit([model EXCEPT !.sections[s].items = RemoveAt(@, t)])
        /\ touched' = touched \cup
             {EntryAt(model, p).name :
                p \in {q \in Entries(model) : q[1] = s /\ q[2] = t}}
        /\ UNCHANGED given
  BY <1>1
<1> DEFINE n == PutItems(model, s, RemoveAt(model.sections[s].items, t))
           Gone == {q \in Entries(model) : q[1] = s /\ q[2] = t}
<1>3. model' = n
  BY <1>2 DEF Edit, PutItems
<1>4. LosesTable(model, n, s, t)
  BY <1>0, TableRemoved
<1> HIDE DEF n
<1>5. n \in ModelType /\ Kept(model, n, {}, {}, Gone)
  BY <1>4 DEF LosesTable
<1>6. touched \subseteq touched' /\ \A q \in Gone : EntryAt(model, q).name \in touched'
  BY <1>2
<1> HIDE DEF Gone
<1>7. ModelIn(n, given, touched')
  BY <1>5, <1>6, KeptIn
<1> QED BY <1>2, <1>3, <1>7

\* a table whose entries stay
LEMMA EditTableIn ==
  ASSUME ModelIn(model, given, touched), given' = given, touched' = touched,
         NEW s \in Tables(model), NEW t \in DOMAIN model.sections[s].items,
         NEW table \in TableType, table.entries = model.sections[s].items[t].entries,
         EditTable(s, t, table)
  PROVE  ModelIn(model', given', touched')
<1>0. model \in ModelType
  BY DEF ModelIn
<1> DEFINE n == PutTable(model, s, t, table)
<1>1. model' = n
  BY DEF EditTable, Edit, PutTable
<1>2. GetsTable(model, n, s, t, table)
  BY <1>0, TableEdited
<1> HIDE DEF n
<1>3. n \in ModelType /\ SameEntries(model, n)
  BY <1>2 DEF GetsTable
<1>4. ModelIn(n, given, touched)
  BY <1>3, SameIn
<1> QED BY <1>1, <1>4

\* a table with another record or maximum
LEMMA TableWith ==
  ASSUME NEW x \in TableType
  PROVE  /\ x.recs \in RecordSeq
         /\ \A name \in STRING : [x EXCEPT !.name = name] \in TableType
                                 /\ [x EXCEPT !.name = name].entries = x.entries
         /\ \A recs \in RecordSeq : [x EXCEPT !.recs = recs] \in TableType
                                    /\ [x EXCEPT !.recs = recs].entries = x.entries
BY DEF TableType

\* dimeTable's setters keep the invariant.
LEMMA EditsTableIn ==
  ASSUME ModelIn(model, given, touched), ClientEditsTable
  PROVE  ModelIn(model', given', touched')
<1>0. model \in ModelType
  BY DEF ModelIn
<1>1. PICK s \in Tables(model) : \E t \in DOMAIN model.sections[s].items :
        \/ \E name \in TableNames : SetTableName(s, t, name)
        \/ \E r \in ItemRecords : InsertTableRecord(s, t, r)
        \/ RemoveTableRecord(s, t)
  BY DEF ClientEditsTable
<1>2. PICK t \in DOMAIN model.sections[s].items :
        \/ \E name \in TableNames : SetTableName(s, t, name)
        \/ \E r \in ItemRecords : InsertTableRecord(s, t, r)
        \/ RemoveTableRecord(s, t)
  BY <1>1
<1>3. given' = given /\ touched' = touched
  BY DEF ClientEditsTable
<1> DEFINE x == model.sections[s].items[t]
           recs == x.recs
<1>4. x \in TableType
  BY <1>0, TableFields
<1>x. x = model.sections[s].items[t]
  OBVIOUS
<1> HIDE DEF x
<1>5. recs \in Seq(Record)
  BY <1>4, TableWith DEF RecordSeq
<1>r. recs = x.recs
  OBVIOUS
<1> HIDE DEF recs
<1>6. CASE \E name \in TableNames : SetTableName(s, t, name)
  <2>1. PICK name \in TableNames : EditTable(s, t, [x EXCEPT !.name = name])
    BY <1>6, <1>x DEF SetTableName
  <2> DEFINE table == [x EXCEPT !.name = name]
  <2>2. name \in STRING
    BY ClientsTyped
  <2>3. table \in TableType /\ table.entries = x.entries
    BY <1>4, <2>2, TableWith
  <2>4. EditTable(s, t, table)
    BY <2>1
  <2> HIDE DEF table
  <2> QED BY <1>3, <1>x, <2>3, <2>4, EditTableIn
<1>7. CASE \E r \in ItemRecords : InsertTableRecord(s, t, r)
  <2>1. PICK r \in ItemRecords : InsertTableRecord(s, t, r)
    BY <1>7
  <2>2. PICK i \in 1 .. Len(recs) + 1 :
          EditTable(s, t, [model.sections[s].items[t] EXCEPT !.recs = InsertAt(@, i, r)])
    BY <2>1, <1>x, <1>r DEF InsertTableRecord
  <2> DEFINE new == InsertAt(recs, i, r)
             table == [x EXCEPT !.recs = new]
  <2>3. r \in Record
    BY ClientsTyped
  <2>4. new \in RecordSeq
    BY <1>5, <2>2, <2>3, InsertAtIs DEF RecordSeq
  <2>5. EditTable(s, t, table)
    BY <2>2, <1>x, <1>r
  <2> HIDE DEF new
  <2>6. table \in TableType /\ table.entries = x.entries
    BY <1>4, <2>4, TableWith
  <2> HIDE DEF table
  <2> QED BY <1>3, <1>x, <2>5, <2>6, EditTableIn
<1>8. CASE RemoveTableRecord(s, t)
  <2>2. PICK i \in DOMAIN recs :
          EditTable(s, t, [model.sections[s].items[t] EXCEPT !.recs = RemoveAt(@, i)])
    BY <1>8, <1>x, <1>r DEF RemoveTableRecord
  <2> DEFINE new == RemoveAt(recs, i)
             table == [x EXCEPT !.recs = new]
  <2>3. i \in 1 .. Len(recs)
    BY <1>5
  <2>4. new \in RecordSeq
    BY <1>5, <2>3, RemoveAtIs DEF RecordSeq
  <2>5. EditTable(s, t, table)
    BY <2>2, <1>x, <1>r
  <2> HIDE DEF new
  <2>6. table \in TableType /\ table.entries = x.entries
    BY <1>4, <2>4, TableWith
  <2> HIDE DEF table
  <2> QED BY <1>3, <1>x, <2>5, <2>6, EditTableIn
<1> QED BY <1>2, <1>6, <1>7, <1>8

\* a section of classes or objects
LEMMA HolderIn ==
  ASSUME NEW m, NEW ids, NEW names, ModelIn(m, ids, names), NEW s \in DOMAIN m.sections,
         m.sections[s].kind \in {"classes", "objects"},
         NEW items \in Seq(ItemType(m.sections[s].kind))
  PROVE  ModelIn(PutItems(m, s, items), ids, names)
<1> DEFINE old == m.sections[s]
           x == [old EXCEPT !.items = items]
           n == PutItems(m, s, items)
<1>1. old \in AnySection
  BY ModelFields DEF ModelIn
<1>2. x \in AnySection
  BY <1>1, SectionChanged
<1>3. x.kind = old.kind
  <2> HIDE DEF old
  <2> QED BY <1>1, SectionFields
<1>4. n = PutSections(m, [m.sections EXCEPT ![s] = x])
  BY DEF PutItems, PutSections
<1> HIDE DEF x
<1>5. Replaced(m, n, s, x)
  BY <1>3, <1>4 DEF Replaced
<1>6. Quiet(old, x)
  BY <1>3 DEF Quiet
<1>7. ModelIn(n, ids, names)
  BY <1>2, <1>5, <1>6, QuietIn
<1> QED BY <1>7

\* a section whose items are classes or objects
LEMMA HolderItems ==
  ASSUME ModelIn(model, given, touched), NEW s \in Holders
  PROVE  /\ s \in DOMAIN model.sections /\ model.sections[s].kind \in {"classes", "objects"}
         /\ model.sections[s].items \in Seq(ItemType(model.sections[s].kind))
<1>1. s \in DOMAIN model.sections /\ model.sections[s].kind \in {"classes", "objects"}
  BY DEF Holders
<1>2. model.sections[s] \in AnySection
  BY <1>1, ModelFields DEF ModelIn
<1> QED BY <1>1, <1>2, SectionFields

\* a new class or object has the type of one
LEMMA NewItemTyped ==
  ASSUME NEW s, model.sections[s].kind \in {"classes", "objects"}, NEW name \in STRING
  PROVE  NewItem(s, name) \in ItemType(model.sections[s].kind)
<1>1. << >> \in RecordSeq /\ NoName \in STRING
  BY StringAssumption DEF RecordSeq
<1>2. Class(name) \in ClassType /\ Object(name) \in ObjectType
  <2>1. Class(name) \in ClassType
    BY <1>1 DEF Class, ClassType
  <2>2. Object(name) \in ObjectType
    BY <1>1 DEF Object, ObjectType
  <2> QED BY <2>1, <2>2
<1> QED BY <1>2 DEF NewItem, ItemType

\* Inserting a class or an object keeps the invariant.
LEMMA InsertItemIn ==
  ASSUME ModelIn(model, given, touched), InsertItem
  PROVE  ModelIn(model', given', touched')
<1>1. PICK s \in Holders, name \in TableNames :
        \E i \in 1 .. Len(model.sections[s].items) + 1 :
          Edit([model EXCEPT !.sections[s].items = InsertAt(@, i, NewItem(s, name))])
  BY DEF InsertItem
<1>2. PICK i \in 1 .. Len(model.sections[s].items) + 1 :
          Edit([model EXCEPT !.sections[s].items = InsertAt(@, i, NewItem(s, name))])
  BY <1>1
<1>3. given' = given /\ touched' = touched
  BY DEF InsertItem
<1> DEFINE item == NewItem(s, name)
           I == ItemType(model.sections[s].kind)
           old == model.sections[s].items
           new == InsertAt(old, i, item)
<1>4. /\ s \in DOMAIN model.sections /\ model.sections[s].kind \in {"classes", "objects"}
      /\ old \in Seq(I)
  BY HolderItems
<1>5. item \in I
  BY <1>4, NewItemTyped, ClientsTyped
<1>6. model' = PutItems(model, s, new)
  BY <1>2 DEF Edit, PutItems
<1>7. i \in 1 .. Len(old) + 1
  BY <1>2
<1>8. new \in Seq(I)
  <2> HIDE DEF old, item, I
  <2> QED BY <1>4, <1>5, <1>7, InsertAtIs
<1> HIDE DEF new
<1> QED BY <1>3, <1>4, <1>6, <1>8, HolderIn

\* Removing a class or an object keeps the invariant.
LEMMA RemoveItemIn ==
  ASSUME ModelIn(model, given, touched), RemoveItem
  PROVE  ModelIn(model', given', touched')
<1>1. PICK s \in Holders : \E i \in DOMAIN model.sections[s].items :
          Edit([model EXCEPT !.sections[s].items = RemoveAt(@, i)])
  BY DEF RemoveItem
<1>2. PICK i \in DOMAIN model.sections[s].items :
          Edit([model EXCEPT !.sections[s].items = RemoveAt(@, i)])
  BY <1>1
<1>3. given' = given /\ touched' = touched
  BY DEF RemoveItem
<1> DEFINE I == ItemType(model.sections[s].kind)
           old == model.sections[s].items
           new == RemoveAt(old, i)
<1>4. /\ s \in DOMAIN model.sections /\ model.sections[s].kind \in {"classes", "objects"}
      /\ old \in Seq(I)
  BY HolderItems
<1>6. model' = PutItems(model, s, new)
  BY <1>2 DEF Edit, PutItems
<1>7. i \in DOMAIN old
  BY <1>2
<1>8. new \in Seq(I)
  <2> HIDE DEF old, I
  <2>1. i \in 1 .. Len(old)
    BY <1>4, <1>7
  <2> QED BY <1>4, <2>1, RemoveAtIs
<1> HIDE DEF new
<1> QED BY <1>3, <1>4, <1>6, <1>8, HolderIn

\* records with one appended or replaced
LEMMA RecsSet ==
  ASSUME NEW recs \in RecordSeq, NEW r \in Record
  PROVE  /\ Append(recs, r) \in RecordSeq
         /\ \A j \in DOMAIN recs : [recs EXCEPT ![j] = r] \in RecordSeq
BY DEF RecordSeq

\* a class or object with other records
LEMMA ItemWith ==
  ASSUME NEW kind \in {"classes", "objects"}, NEW i \in ItemType(kind)
  PROVE  /\ i.recs \in RecordSeq
         /\ \A recs \in RecordSeq : [i EXCEPT !.recs = recs] \in ItemType(kind)
<1>1. CASE kind = "classes"
  BY <1>1 DEF ItemType, ClassType
<1>2. CASE kind = "objects"
  BY <1>2 DEF ItemType, ObjectType
<1> QED BY <1>1, <1>2

\* what a setter of a class or an object makes of it
LEMMA SetItemTyped ==
  ASSUME NEW kind \in {"classes", "objects"}, NEW i \in ItemType(kind), NEW r \in Record
  PROVE  SetItem(i, r) \in ItemType(kind)
<1> DEFINE at == {j \in DOMAIN i.recs : i.recs[j].code = r.code}
<1>1. CASE i.is = "class" /\ r.code \in {1, 2, 90, 280, 281}
  <2>1. kind = "classes" /\ i \in ClassType
    BY <1>1 DEF ItemType, ObjectType
  <2>2. SetItem(i, r) = ClassHandles(i, r)
    BY <1>1 DEF SetItem
  <2>3. r.str \in STRING /\ r.num \in Int
    BY DEF Record
  <2>4. CASE r.code = 1
    BY <2>4, <2>1, <2>2, <2>3 DEF ClassHandles, ItemType, ClassType
  <2>5. CASE r.code = 2
    BY <2>5, <2>1, <2>2, <2>3 DEF ClassHandles, ItemType, ClassType
  <2>6. CASE r.code = 90
    BY <2>6, <2>1, <2>2, <2>3 DEF ClassHandles, ItemType, ClassType
  <2>7. CASE r.code = 280
    BY <2>7, <2>1, <2>2, <2>3 DEF ClassHandles, ItemType, ClassType
  <2>8. CASE r.code = 281
    BY <2>8, <2>1, <2>2, <2>3 DEF ClassHandles, ItemType, ClassType
  <2> QED BY <1>1, <2>4, <2>5, <2>6, <2>7, <2>8
<1>2. CASE ~ (i.is = "class" /\ r.code \in {1, 2, 90, 280, 281})
  <2>1. i.recs \in RecordSeq
    BY ItemWith
  <2>2. CASE at = {}
    <3>1. SetItem(i, r) = [i EXCEPT !.recs = Append(i.recs, r)]
      BY <1>2, <2>2 DEF SetItem
    <3> DEFINE recs == Append(i.recs, r)
    <3>2. recs \in RecordSeq
      BY <2>1, RecsSet
    <3> HIDE DEF recs
    <3> QED BY <3>1, <3>2, ItemWith DEF recs
  <2>3. CASE at # {}
    <3> DEFINE k == Min(at)
               recs == [i.recs EXCEPT ![k] = r]
    <3>1. SetItem(i, r) = [i EXCEPT !.recs[k] = r]
      BY <1>2, <2>3 DEF SetItem
    <3>2. [i EXCEPT !.recs[k] = r] = [i EXCEPT !.recs = recs]
      OBVIOUS
    <3>3. at \subseteq Nat
      BY <2>1 DEF RecordSeq
    <3>4. k \in at
      <4> HIDE DEF at
      <4> QED BY <2>3, <3>3, MinIs
    <3>5. recs \in RecordSeq
      <4>1. k \in DOMAIN i.recs
        BY <3>4
      <4> HIDE DEF k
      <4> QED BY <2>1, <4>1, RecsSet
    <3> HIDE DEF recs
    <3>6. [i EXCEPT !.recs = recs] \in ItemType(kind)
      BY <3>5, ItemWith
    <3> QED BY <3>1, <3>2, <3>6 DEF recs
  <2> QED BY <2>2, <2>3
<1> QED BY <1>1, <1>2

\* The setters of a class or an object keep the invariant.
LEMMA SetsItemIn ==
  ASSUME ModelIn(model, given, touched), ClientSetsItem
  PROVE  ModelIn(model', given', touched')
<1>1. PICK s \in Holders, r \in ItemRecords : \E i \in DOMAIN model.sections[s].items :
          Edit([model EXCEPT !.sections[s].items[i] = SetItem(@, r)])
  BY DEF ClientSetsItem
<1>2. PICK i \in DOMAIN model.sections[s].items :
          Edit([model EXCEPT !.sections[s].items[i] = SetItem(@, r)])
  BY <1>1
<1>3. given' = given /\ touched' = touched
  BY DEF ClientSetsItem
<1> DEFINE I == ItemType(model.sections[s].kind)
           old == model.sections[s].items
           item == SetItem(old[i], r)
           new == [old EXCEPT ![i] = item]
<1>4. /\ s \in DOMAIN model.sections /\ model.sections[s].kind \in {"classes", "objects"}
      /\ old \in Seq(I)
  BY HolderItems
<1>5. old[i] \in I
  <2>1. i \in DOMAIN old
    BY <1>2
  <2> HIDE DEF I, old
  <2> QED BY <1>4, <2>1
<1>6. model' = PutItems(model, s, new)
  BY <1>2 DEF Edit, PutItems
<1>7. item \in I
  BY <1>4, <1>5, SetItemTyped, ClientsTyped
<1>8. new \in Seq(I)
  <2>1. i \in DOMAIN old
    BY <1>2
  <2> HIDE DEF old, I, item
  <2> QED BY <1>4, <1>7, <2>1
<1> HIDE DEF new
<1> QED BY <1>3, <1>4, <1>6, <1>8, HolderIn

\* Inserting a section that has no handle keeps the invariant.
LEMMA InsertSectionIn ==
  ASSUME ModelIn(model, given, touched), InsertSection
  PROVE  ModelIn(model', given', touched')
<1>0. model \in ModelType
  BY DEF ModelIn
<1>1. PICK section \in Inserted, s \in 1 .. Len(model.sections) + 1 :
        Edit([model EXCEPT !.sections = InsertAt(@, s, section)])
  BY DEF InsertSection
<1>2. given' = given /\ touched' = touched
  BY DEF InsertSection
<1> DEFINE n == PutSections(model, InsertAt(model.sections, s, section))
<1>3. model' = n
  BY <1>1 DEF Edit, PutSections
<1>4. section \in AnySection /\ Fresh(section)
  BY ClientsTyped
<1>5. GetsSection(model, n, s, section)
  BY <1>0, <1>4, SectionInserted
<1> HIDE DEF n
<1>6. /\ n \in ModelType /\ s \in DOMAIN n.sections /\ n.sections[s] = section
      /\ Kept(model, n, {p \in Entries(n) : p[1] = s}, {s}, {})
  BY <1>5 DEF GetsSection
<1> DEFINE New == {p \in Entries(n) : p[1] = s}
<1>7. ASSUME NEW p \in New
      PROVE  /\ EntryAt(n, p).info = 0
             /\ \A i \in DOMAIN EntryAt(n, p).recs : EntryAt(n, p).recs[i].code # 5
  <2>1. EntryIn(n, p[1], p[2], p[3]) /\ p[1] = s
    BY EntriesAre
  <2>2. /\ section.kind = "tables" /\ p[2] \in DOMAIN section.items
        /\ p[3] \in DOMAIN section.items[p[2]].entries
        /\ EntryAt(n, p) = section.items[p[2]].entries[p[3]]
    BY <2>1, <1>6 DEF EntryIn, Tables, EntryAt
  <2> QED BY <2>2, <1>4 DEF Fresh
<1>8. ASSUME s \in Unknown(n)
      PROVE  \A i \in DOMAIN n.sections[s].recs : n.sections[s].recs[i].code # 5
  BY <1>4, <1>6, <1>8 DEF Fresh, Unknown
<1>9. Kept(model, n, New, {s}, {})
  BY <1>6
<1> HIDE DEF New
<1>10. ModelIn(n, given, touched)
  BY <1>6, <1>7, <1>8, <1>9, KeptIn
<1> QED BY <1>2, <1>3, <1>10

\* Removing a section keeps the invariant.
LEMMA RemoveSectionIn ==
  ASSUME ModelIn(model, given, touched), RemoveSection
  PROVE  ModelIn(model', given', touched')
<1>0. model \in ModelType
  BY DEF ModelIn
<1>1. PICK s \in DOMAIN model.sections :
        /\ Edit([model EXCEPT !.sections = RemoveAt(@, s)])
        /\ touched' = touched \cup
             {EntryAt(model, p).name : p \in {q \in Entries(model) : q[1] = s}}
  BY DEF RemoveSection
<1>2. given' = given
  BY DEF RemoveSection
<1> DEFINE n == PutSections(model, RemoveAt(model.sections, s))
           Gone == {q \in Entries(model) : q[1] = s}
<1>3. model' = n
  BY <1>1 DEF Edit, PutSections
<1>4. LosesSection(model, n, s)
  BY <1>0, SectionRemoved
<1> HIDE DEF n
<1>5. n \in ModelType /\ Kept(model, n, {}, {}, Gone)
  BY <1>4 DEF LosesSection
<1>6. touched \subseteq touched' /\ \A q \in Gone : EntryAt(model, q).name \in touched'
  BY <1>1
<1> HIDE DEF Gone
<1>7. ModelIn(n, given, touched')
  BY <1>5, <1>6, KeptIn
<1> QED BY <1>2, <1>3, <1>7

\* Putting the copy in place of the model keeps the invariant.
LEMMA CopyIn ==
  ASSUME ModelIn(model, given, touched), Copy PROVE ModelIn(model', given', touched')
<1>1. model' = CopyModel(model) /\ touched' = {} /\ given' = given
  BY DEF Copy, Edit
<1>2. model \in ModelType /\ LayersIn(model, touched) /\ HandlesIn(model, given)
  BY DEF ModelIn
<1> QED BY <1>1, <1>2, Copies DEF ModelIn

-----------------------------------------------------------------------------
(* The header that is written.                                              *)

\* findSection("HEADER") finds a header section, if anything.
LEMMA HeaderFound ==
  ASSUME NEW m \in ModelType, FindSection(m, "HEADER") # 0
  PROVE  /\ FindSection(m, "HEADER") \in DOMAIN m.sections
         /\ m.sections[FindSection(m, "HEADER")].kind = "header"
         /\ m.sections[FindSection(m, "HEADER")].recs \in RecordSeq
<1> DEFINE at == {i \in DOMAIN m.sections : m.sections[i].name = "HEADER"}
           h == FindSection(m, "HEADER")
<1>1. h = IF at = {} THEN 0 ELSE Min(at)
  BY DEF FindSection
<1> HIDE DEF h
<1>2. at # {} /\ h = Min(at)
  BY <1>1 DEF h
<1>3. at \subseteq Nat
  BY ModelFields
<1>4. h \in at
  <2> HIDE DEF at
  <2> QED BY <1>2, <1>3, MinIs
<1>5. h \in DOMAIN m.sections /\ m.sections[h].name = "HEADER"
  BY <1>4
<1>6. m.sections[h] \in AnySection
  BY <1>5, ModelFields
<1>7. m.sections[h].kind = "header" /\ m.sections[h].recs \in RecordSeq
  BY <1>5, <1>6, SectionFields
<1> QED BY <1>5, <1>7 DEF h

\* a variable that has a value: the record after its name
LEMMA HasValue ==
  ASSUME NEW recs \in RecordSeq, NEW name, GetVariable(recs, name, 1) # << >>
  PROVE  LET i == FindVariable(recs, name)
         IN  /\ i \in 1 .. Len(recs) /\ i + 1 \in 1 .. Len(recs)
             /\ recs[i] = Str(9, name) /\ recs[i + 1].code # 9 /\ recs[i + 1] \in Record
             /\ EndOfVariable(recs, i + 1) \in i + 2 .. Len(recs) + 1
             /\ GetVariable(recs, name, 1)[1] = recs[i + 1]
<1> DEFINE i == FindVariable(recs, name)
           n == Len(recs)
           e == EndOfVariable(recs, i + 1)
           values == SubSeq(recs, i + 1, e - 1)
<1>1. n \in Nat /\ i \in 0 .. n /\ i + 1 \in 1 .. n + 1 /\ FoundAt(recs, name, i)
  BY FoundRange, FindVariableIs
<1>2. i # 0
  BY DEF GetVariable
<1>3. GetVariable(recs, name, 1) = SubSeq(values, 1, IF Len(values) < 1 THEN Len(values) ELSE 1)
  BY <1>2 DEF GetVariable
<1>4. EndsAt(recs, i + 1, e)
  BY <1>1, EndOfVariableIs
<1> HIDE DEF i, e, n
<1>5. e \in i + 1 .. n + 1 /\ \A j \in i + 1 .. e - 1 : recs[j].code # 9
  BY <1>4 DEF EndsAt, n
<1>r. recs \in Seq(Record) /\ Len(recs) = n
  BY DEF RecordSeq, n
<1>6. /\ values \in Seq(Record) /\ Len(values) = e - 1 - i
      /\ (e > i + 1 => values[1] = recs[i + 1])
  <2>1. i + 1 \in 1 .. n + 1 /\ e - 1 \in i .. n /\ i \in Nat /\ e \in Nat
    BY <1>1, <1>5
  <2>2. CASE e > i + 1
    BY <2>1, <2>2, <1>r
  <2>3. CASE ~ (e > i + 1)
    BY <2>1, <2>3, <1>r
  <2> QED BY <2>2, <2>3
<1> HIDE DEF values
<1>7. Len(values) # 0
  <2>1. SUFFICES ASSUME Len(values) = 0 PROVE FALSE
    OBVIOUS
  <2>2. SubSeq(values, 1, 0) = << >>
    BY <1>6
  <2> QED BY <1>3, <2>1, <2>2
<1>8. Len(values) \in Nat
  BY <1>6
<1>9. e > i + 1 /\ e \in i + 2 .. n + 1 /\ i + 1 \in 1 .. n
  BY <1>1, <1>5, <1>6, <1>7, <1>8
<1>10. GetVariable(recs, name, 1) = SubSeq(values, 1, 1)
  <2>1. (IF Len(values) < 1 THEN Len(values) ELSE 1) = 1
    BY <1>7, <1>8
  <2> QED BY <1>3, <2>1
<1>11. SubSeq(values, 1, 1)[1] = values[1]
  BY <1>6, <1>7, <1>8
<1>12. i + 1 \in i + 1 .. e - 1
  BY <1>1, <1>9
<1>13. recs[i + 1].code # 9 /\ recs[i + 1] \in Record
  BY <1>5, <1>9, <1>12, <1>r
<1>14. i \in 1 .. n /\ recs[i] = Str(9, name)
  BY <1>1, <1>2 DEF FoundAt, n
<1> QED BY <1>6, <1>9, <1>10, <1>11, <1>13, <1>14 DEF i, e, n

\* one value of the variable's group code takes the place of the old one
LEMMA OneValueSet ==
  ASSUME NEW recs \in RecordSeq, NEW name \in STRING, GetVariable(recs, name, 1) # << >>,
         NEW r \in Record, r.code = GetVariable(recs, name, 1)[1].code
  PROVE  GetVariable(SetVariable(recs, name, <<r>>), name, 1)[1] = r
<1> DEFINE i == FindVariable(recs, name)
           n == Len(recs)
           e == EndOfVariable(recs, i + 1)
           values == <<r>>
           set == SetVariable(recs, name, values)
<1>1. /\ i \in 1 .. n /\ i + 1 \in 1 .. n
      /\ recs[i] = Str(9, name) /\ recs[i + 1].code # 9
      /\ e \in i + 2 .. n + 1 /\ GetVariable(recs, name, 1)[1] = recs[i + 1]
      /\ r.code = recs[i + 1].code /\ n \in Nat
  BY HasValue DEF RecordSeq
<1>2. values \in RecordSeq /\ Len(values) = 1 /\ values[1] = r
  BY DEF RecordSeq
<1>3. MakesRoom(recs, name, values) = recs /\ After(recs, name, values) = i + 1
  BY <1>1 DEF MakesRoom, After
<1>v. set = SetVariable(recs, name, values)
  OBVIOUS
<1> HIDE DEF values, set
<1>4. set = SetValue(recs, i + 1, r)
  <2>1. PICK f : Sets(recs, name, values, f)
    BY <1>2, SetVariableSets
  <2>2. /\ f[0] = recs /\ set = f[Len(values)]
        /\ \A k \in 1 .. Len(values) : f[k] = SetValue(f[k - 1], i + 1, values[k])
    BY <1>3, <1>v, <2>1 DEF Sets
  <2>3. 1 \in 1 .. Len(values) /\ 1 - 1 = 0
    BY <1>2
  <2> HIDE DEF i
  <2>4. f[1] = SetValue(f[1 - 1], i + 1, values[1])
    BY <2>2, <2>3
  <2> QED BY <1>2, <2>2, <2>3, <2>4
<1>i. i = FindVariable(recs, name) /\ e = EndOfVariable(recs, i + 1)
  OBVIOUS
<1> HIDE DEF i, e
<1> DEFINE at == {j \in i + 1 .. e - 1 : recs[j].code = r.code}
<1>5. at \subseteq Nat /\ i + 1 \in at /\ \A y \in at : i + 1 <= y
  BY <1>1
<1>6. Min(at) = i + 1 /\ at # {}
  <2> DEFINE x == i + 1
  <2>1. x \in at /\ \A y \in at : x <= y
    BY <1>5
  <2> HIDE DEF at, x
  <2>2. Min(at) = x
    BY <1>5, <2>1, OnlyMin
  <2> QED BY <2>1, <2>2 DEF x
<1>7. set = [recs EXCEPT ![i + 1] = r]
  BY <1>4, <1>6, <1>i DEF SetValue
<1> HIDE DEF at, n
<1>r. recs \in Seq(Record) /\ n = Len(recs)
  BY DEF RecordSeq, n
<1>8. /\ set \in RecordSeq /\ Len(set) = n /\ set[i + 1] = r
      /\ \A j \in 1 .. n : j # i + 1 => set[j] = recs[j]
  BY <1>1, <1>7, <1>r DEF RecordSeq
<1>9. FindVariable(set, name) = i
  <2>1. FoundAt(recs, name, i)
    BY <1>i, FindVariableIs
  <2>2. \A j \in 1 .. i - 1 : recs[j] # Str(9, name)
    BY <1>1, <2>1 DEF FoundAt
  <2>3. \A j \in 1 .. i - 1 : j \in 1 .. n /\ j # i + 1
    BY <1>1
  <2>4. i # i + 1
    BY <1>1
  <2>5. FoundAt(set, name, i)
    BY <1>1, <1>8, <2>2, <2>3, <2>4 DEF FoundAt
  <2> QED BY <1>8, <2>5, FindVariableIs
<1>10. r.code # 9
  BY <1>1
<1>11. GetVariable(set, name, 1) # << >>
  <2> DEFINE k == FindVariable(set, name)
             f == EndOfVariable(set, k + 1)
             vals == SubSeq(set, k + 1, f - 1)
  <2>0. k # 0
    BY <1>1, <1>9
  <2>1. EndsAt(set, i + 1, f)
    BY <1>1, <1>8, <1>9, EndOfVariableIs
  <2>2. GetVariable(set, name, 1) =
          SubSeq(vals, 1, IF Len(vals) < 1 THEN Len(vals) ELSE 1)
    BY <2>0 DEF GetVariable
  <2>k. k = i
    BY <1>9
  <2> HIDE DEF k, f
  <2>3. f \in i + 1 .. n + 1 /\ (f <= n => set[f].code = 9)
    BY <1>8, <2>1 DEF EndsAt
  <2>4. f # i + 1
    BY <1>1, <1>8, <1>10, <2>3
  <2>5. f - 1 \in i + 1 .. n
    BY <1>1, <2>3, <2>4
  <2>6. vals \in Seq(Record) /\ Len(vals) = f - 1 - i
    <3>1. set \in Seq(Record)
      BY <1>8 DEF RecordSeq
    <3>2. \A j \in i + 1 .. f - 1 : j \in 1 .. n
      BY <1>1, <2>5
    <3> QED BY <1>1, <1>8, <2>k, <2>5, <3>1, <3>2
  <2> HIDE DEF vals
  <2>7. (IF Len(vals) < 1 THEN Len(vals) ELSE 1) = 1 /\ 1 <= Len(vals)
    BY <1>1, <2>5, <2>6
  <2>8. GetVariable(set, name, 1) = SubSeq(vals, 1, 1)
    BY <2>2, <2>7
  <2>9. Len(SubSeq(vals, 1, 1)) = 1
    BY <2>6, <2>7
  <2>10. Len(<< >>) = 0
    OBVIOUS
  <2> QED BY <2>8, <2>9, <2>10
<1>12. GetVariable(set, name, 1)[1] = set[FindVariable(set, name) + 1]
  BY <1>8, <1>11, HasValue
<1>13. GetVariable(set, name, 1)[1] = r
  BY <1>8, <1>9, <1>12
<1> QED BY <1>13, <1>v DEF values

\* what is written as $HANDSEED, if that is written
LEMMA SeededIs ==
  ASSUME NEW m \in ModelType
  PROVE  LET h == FindSection(m, "HEADER")
             old == m.sections[h].recs
             seed == GetVariable(old, "$HANDSEED", 1)
             r == Num(seed[1].code, m.largest + 1)
             new == SetVariable(old, "$HANDSEED", <<r>>)
         IN  \/ Seeded(m) = m /\ (h = 0 \/ m.largest <= 0 \/ seed = << >>)
             \/ /\ Seeded(m) = PutRecs(m, h, new)
                /\ h # 0 /\ seed # << >> /\ new \in RecordSeq
                /\ GetVariable(new, "$HANDSEED", 1)[1] = r
<1> DEFINE h == FindSection(m, "HEADER")
           old == m.sections[h].recs
           seed == GetVariable(old, "$HANDSEED", 1)
           r == Num(seed[1].code, m.largest + 1)
           values == <<r>>
           new == SetVariable(old, "$HANDSEED", values)
           none == m.largest <= 0 \/ h = 0 \/ seed = << >>
<1>1. CASE none
  BY <1>1 DEF Seeded, SeedWith, UniqueHandle
<1>2. CASE ~ none
  <2>1. h # 0 /\ seed # << >>
    BY <1>2
  <2>2. Seeded(m) = PutRecs(m, h, new)
    BY <1>2 DEF Seeded, SeedWith, UniqueHandle, PutRecs
  <2>3. old \in RecordSeq
    BY <2>1, HeaderFound
  <2> HIDE DEF old
  <2>4. /\ seed[1] \in Record /\ seed[1].code # 9
    BY <2>1, <2>3, HasValue
  <2> HIDE DEF seed
  <2>5. r \in Record /\ r.code = seed[1].code
    <3>1. m.largest + 1 \in Int
      BY ModelFields
    <3>2. seed[1].code \in Int
      BY <2>4 DEF Record
    <3>3. r = [code |-> seed[1].code, str |-> NoName, num |-> m.largest + 1]
      BY DEF Num, NoName
    <3> HIDE DEF r
    <3> QED BY <3>1, <3>2, <3>3, StringAssumption DEF Record
  <2>s. seed = GetVariable(old, "$HANDSEED", 1)
    BY DEF seed
  <2>n. "$HANDSEED" \in STRING
    BY StringAssumption
  <2> HIDE DEF r
  <2>6. values \in RecordSeq /\ \A k \in DOMAIN values : values[k].code # 9
    BY <2>4, <2>5 DEF RecordSeq
  <2>7. new \in RecordSeq
    <3> HIDE DEF values
    <3> QED BY <2>3, <2>6, <2>n, SetVariableSetsOne
  <2>8. GetVariable(new, "$HANDSEED", 1)[1] = r
    BY <2>1, <2>3, <2>5, <2>s, <2>n, OneValueSet
  <2> QED BY <2>1, <2>2, <2>7, <2>8 DEF r, seed, old
<1> QED BY <1>1, <1>2

\* dimeModel::write() seeds the header and keeps the invariant.
LEMMA WriteIn ==
  ASSUME ModelIn(model, given, touched), Write PROVE ModelIn(model', given', touched')
<1>0. model \in ModelType
  BY DEF ModelIn
<1>1. model' = Seeded(model) /\ given' = given /\ touched' = touched
  BY DEF Write, Edit
<1> DEFINE h == FindSection(model, "HEADER")
<1>2. CASE Seeded(model) = model
  BY <1>1, <1>2
<1>3. CASE Seeded(model) # model
  <2>1. PICK new \in RecordSeq : Seeded(model) = PutRecs(model, h, new) /\ h # 0
    BY <1>0, <1>3, SeededIs
  <2>2. h \in DOMAIN model.sections /\ model.sections[h].kind = "header"
    BY <1>0, <2>1, HeaderFound
  <2> HIDE DEF h
  <2> QED BY <1>1, <2>1, <2>2, HeaderIn
<1> QED BY <1>2, <1>3

\* The model keeps its type, its layers and its handles whatever is read, edited,
\* copied and written: the dictionary of layers knows each layer by its name, an
\* entry that has registered one is a LAYER entry of its name, no handle is above
\* the largest, and one that getUniqueHandle() gave is in one place only.
THEOREM ModelStays == Spec => []ModelIn(model, given, touched)
<1>1. Init => ModelIn(model, given, touched)
  BY InitIn
<1>2. ModelIn(model, given, touched) /\ [Next]_vars => ModelIn(model, given, touched)'
  <2> SUFFICES ASSUME ModelIn(model, given, touched), [Next]_vars
               PROVE  ModelIn(model', given', touched')
    OBVIOUS
  <2>1. CASE Read
    BY <2>1, ReadIn
  <2>2. CASE ClientSetsVariable
    BY <2>2, SetsVariableIn
  <2>3. CASE InsertEntry
    BY <2>3, InsertEntryIn
  <2>4. CASE ClientSetsColor
    BY <2>4, SetsColorIn
  <2>5. CASE RemoveEntry
    BY <2>5, RemoveEntryIn
  <2>6. CASE UseLayer
    BY <2>6, UseLayerIn
  <2>7. CASE InsertTable
    BY <2>7, InsertTableIn
  <2>8. CASE RemoveTable
    BY <2>8, RemoveTableIn
  <2>9. CASE ClientEditsTable
    BY <2>9, EditsTableIn
  <2>10. CASE InsertItem
    BY <2>10, InsertItemIn
  <2>11. CASE RemoveItem
    BY <2>11, RemoveItemIn
  <2>12. CASE ClientSetsItem
    BY <2>12, SetsItemIn
  <2>13. CASE InsertSection
    BY <2>13, InsertSectionIn
  <2>14. CASE RemoveSection
    BY <2>14, RemoveSectionIn
  <2>15. CASE Copy
    BY <2>15, CopyIn
  <2>16. CASE Write
    BY <2>16, WriteIn
  <2>17. CASE UNCHANGED vars
    BY <2>17 DEF vars
  <2> QED BY <2>1, <2>2, <2>3, <2>4, <2>5, <2>6, <2>7, <2>8, <2>9, <2>10, <2>11, <2>12,
             <2>13, <2>14, <2>15, <2>16, <2>17 DEF Next
<1> QED BY <1>1, <1>2, PTL DEF Spec

\* In every sound model the variables are kept apart.
LEMMA HeadersLawful == model \in ModelType => VariableLaws
<1> SUFFICES ASSUME model \in ModelType, NEW s \in DOMAIN model.sections,
                    model.sections[s].kind = "header",
                    NEW name \in Variables, NEW values \in Values
             PROVE  LET recs == model.sections[s].recs
                        set == SetVariable(recs, name, values)
                    IN  /\ \A other \in Names(set) \ {name} :
                             GetVariable(set, other, Len(set)) = GetVariable(recs, other, Len(set))
                        /\ name \notin Names(recs) /\ OneOfEach(values) =>
                             GetVariable(set, name, Len(set)) = values
  BY DEF VariableLaws
<1>1. model.sections[s].recs \in RecordSeq
  BY ModelFields, SectionFields
<1>2. name \in STRING /\ values \in RecordSeq /\ \A k \in DOMAIN values : values[k].code # 9
  BY DocumentAssumption
<1>3. SetsOne(model.sections[s].recs, name, values)
  BY <1>1, <1>2, SetVariableSetsOne
<1> QED BY <1>3 DEF SetsOne

\* dimeHeaderSection::setVariable() sets the variable it names, and leaves every
\* other one as it was, in every model the program can have.
THEOREM VariablesAreSet == Spec => []VariableLaws
<1>1. ModelIn(model, given, touched) => VariableLaws
  BY HeadersLawful DEF ModelIn
<1> QED BY <1>1, ModelStays, PTL

\* In every sound model the layers are sound.
LEMMA LayersLawful == ModelIn(model, given, touched) => LayersSound
<1> SUFFICES ASSUME ModelIn(model, given, touched) PROVE LayersSound
  OBVIOUS
<1>1. model \in ModelType /\ LayersIn(model, touched)
  BY DEF ModelIn
<1>2. ASSUME NEW i \in DOMAIN model.layers PROVE LayerNum(model, model.layers[i].name) = i
  BY <1>1 DEF LayersIn, LayersKnown, LayerNum
<1>3. ASSUME NEW p \in Registered(model)
      PROVE  LET e == EntryAt(model, p)
             IN  /\ model.layers[e.info].name = e.name
                 /\ e.name \notin touched => model.layers[e.info].color = Abs(e.color)
  <2>1. p \in Entries(model) /\ EntryAt(model, p).info # 0
    BY DEF Registered
  <2>2. EntryKnown(model, p) /\ Colored(model, p, touched)
    BY <1>1, <2>1 DEF LayersIn
  <2>3. ASSUME NEW q \in Entries(model), EntryAt(model, q).info = EntryAt(model, p).info
        PROVE  q = p
    <3>1. EntryKnown(model, q)
      BY <1>1 DEF LayersIn
    <3>2. EntryAt(model, q).table = "LAYER" /\ EntryAt(model, q).name = EntryAt(model, p).name
      BY <2>1, <2>2, <2>3, <3>1 DEF EntryKnown
    <3> QED BY <3>2 DEF Registered, IsLayer
  <2>4. Alone(model, p)
    BY <2>3 DEF Alone
  <2> QED BY <2>1, <2>2, <2>4 DEF EntryKnown, Colored
<1> QED BY <1>2, <1>3 DEF LayersSound

\* dimeModel::addLayer() and dimeLayerTable: a layer is found by its name under its
\* own number, and the layer an entry has registered has the name and the color of
\* the entry, whatever was read, removed, renamed, colored and copied since.
THEOREM LayersAreSound == Spec => []LayersSound
  BY LayersLawful, ModelStays, PTL

\* where a handle is
LEMMA HandlesAre ==
  ASSUME NEW m, NEW x \in HandlesAt(m)
  PROVE  \/ \E p, i : EntryHandle(m, p, i, x[1]) /\ x = <<x[1], <<p, i>>>>
         \/ \E s, i : SectionHandle(m, s, i, x[1]) /\ x = <<x[1], <<<<s>>, i>>>>
<1>1. CASE \E p \in Entries(m) :
             x \in {<<EntryAt(m, p).recs[q[2]].num, q>> : q \in Places(EntryAt(m, p).recs, p)}
  <2>0. PICK p \in Entries(m) :
          x \in {<<EntryAt(m, p).recs[q[2]].num, q>> : q \in Places(EntryAt(m, p).recs, p)}
    BY <1>1
  <2>1. PICK q \in Places(EntryAt(m, p).recs, p) : x = <<EntryAt(m, p).recs[q[2]].num, q>>
    BY <2>0
  <2>2. PICK i \in DOMAIN EntryAt(m, p).recs : EntryAt(m, p).recs[i].code = 5 /\ q = <<p, i>>
    BY DEF Places
  <2>3. q[2] = i
    BY <2>2
  <2> QED BY <2>1, <2>2, <2>3 DEF EntryHandle
<1>2. CASE \E s \in Unknown(m) :
             x \in {<<m.sections[s].recs[q[2]].num, q>> : q \in Places(m.sections[s].recs, <<s>>)}
  <2>0. PICK s \in Unknown(m) :
          x \in {<<m.sections[s].recs[q[2]].num, q>> : q \in Places(m.sections[s].recs, <<s>>)}
    BY <1>2
  <2>1. PICK q \in Places(m.sections[s].recs, <<s>>) : x = <<m.sections[s].recs[q[2]].num, q>>
    BY <2>0
  <2>2. PICK i \in DOMAIN m.sections[s].recs : m.sections[s].recs[i].code = 5 /\ q = <<<<s>>, i>>
    BY DEF Places
  <2>3. q[2] = i
    BY <2>2
  <2> QED BY <2>1, <2>2, <2>3 DEF SectionHandle
<1>3. \/ x \in UNION {{<<EntryAt(m, p).recs[q[2]].num, q>> : q \in Places(EntryAt(m, p).recs, p)} :
                       p \in Entries(m)}
      \/ x \in UNION {{<<m.sections[s].recs[q[2]].num, q>> :
                          q \in Places(m.sections[s].recs, <<s>>)} : s \in Unknown(m)}
  BY DEF HandlesAt, Unknown
<1> QED BY <1>1, <1>2, <1>3

\* In every sound model the handles are unique.
LEMMA HandlesLawful == ModelIn(model, given, touched) => HandlesUnique
<1> SUFFICES ASSUME ModelIn(model, given, touched) PROVE HandlesUnique
  OBVIOUS
<1>1. model \in ModelType /\ HandlesIn(model, given) /\ model.largest \in Nat
  BY ModelFields DEF ModelIn
<1>2. ASSUME NEW x \in HandlesAt(model), NEW y \in HandlesAt(model), x[1] = y[1], x[1] \in given
      PROVE  x = y
  <2>1. /\ \A p, q, i, j, h : h \in given /\ EntryHandle(model, p, i, h)
             /\ EntryHandle(model, q, j, h) => p = q /\ i = j
        /\ \A s, r, i, j, h : h \in given /\ SectionHandle(model, s, i, h)
             /\ SectionHandle(model, r, j, h) => s = r /\ i = j
        /\ \A p, s, i, j, h :
             h \in given => ~ (EntryHandle(model, p, i, h) /\ SectionHandle(model, s, j, h))
    BY <1>1 DEF HandlesIn
  <2>2. CASE \E p, i : EntryHandle(model, p, i, x[1]) /\ x = <<x[1], <<p, i>>>>
    <3>1. PICK p, i : EntryHandle(model, p, i, x[1]) /\ x = <<x[1], <<p, i>>>>
      BY <2>2
    <3>2. PICK q, j : EntryHandle(model, q, j, x[1]) /\ y = <<x[1], <<q, j>>>>
      BY <1>2, <2>1, <3>1, HandlesAre
    <3>3. p = q /\ i = j
      BY <1>2, <2>1, <3>1, <3>2
    <3> QED BY <3>1, <3>2, <3>3
  <2>3. CASE \E s, i : SectionHandle(model, s, i, x[1]) /\ x = <<x[1], <<<<s>>, i>>>>
    <3>1. PICK s, i : SectionHandle(model, s, i, x[1]) /\ x = <<x[1], <<<<s>>, i>>>>
      BY <2>3
    <3>2. PICK r, j : SectionHandle(model, r, j, x[1]) /\ y = <<x[1], <<<<r>>, j>>>>
      BY <1>2, <2>1, <3>1, HandlesAre
    <3>3. s = r /\ i = j
      BY <1>2, <2>1, <3>1, <3>2
    <3> QED BY <3>1, <3>2, <3>3
  <2> QED BY <2>2, <2>3, HandlesAre
<1> DEFINE h == FindSection(model, "HEADER")
           seed == GetVariable(Seeded(model).sections[h].recs, "$HANDSEED", 1)
<1>3. ASSUME h # 0, model.largest > 0, seed # << >>, NEW x \in HandlesAt(model)
      PROVE  x[1] < seed[1].num
  <2>1. x[1] \in Int /\ x[1] <= model.largest
    <3>1. CASE \E p, i : EntryHandle(model, p, i, x[1])
      BY <1>1, <3>1 DEF HandlesIn
    <3>2. CASE \E s, i : SectionHandle(model, s, i, x[1])
      BY <1>1, <3>2 DEF HandlesIn
    <3> QED BY <3>1, <3>2, HandlesAre
  <2> DEFINE old == model.sections[h].recs
             was == GetVariable(old, "$HANDSEED", 1)
             r == Num(was[1].code, model.largest + 1)
             new == SetVariable(old, "$HANDSEED", <<r>>)
  <2>2. \/ Seeded(model) = model /\ (h = 0 \/ model.largest <= 0 \/ was = << >>)
        \/ /\ Seeded(model) = PutRecs(model, h, new) /\ new \in RecordSeq
           /\ GetVariable(new, "$HANDSEED", 1)[1] = r
    BY <1>1, SeededIs
  <2>3. ~ (model.largest <= 0)
    BY <1>1, <1>3
  <2>4. ASSUME Seeded(model) = model PROVE seed = was
    BY <2>4
  <2> HIDE DEF r, new, seed, was
  <2>5. Seeded(model) = PutRecs(model, h, new) /\ new \in RecordSeq
        /\ GetVariable(new, "$HANDSEED", 1)[1] = r
    BY <1>3, <2>2, <2>3, <2>4
  <2>6. h \in DOMAIN model.sections /\ model.sections[h].kind = "header"
    BY <1>1, <1>3, HeaderFound
  <2> HIDE DEF h
  <2>7. GetsRecs(model, PutRecs(model, h, new), h, new)
    BY <1>1, <2>5, <2>6, RecsChanged
  <2>8. Seeded(model).sections[h].recs = new
    BY <2>5, <2>7 DEF GetsRecs
  <2>9. seed[1].num = model.largest + 1
    <3>1. seed[1] = r
      BY <2>5, <2>8 DEF seed
    <3>2. r.num = model.largest + 1
      BY DEF r, Num
    <3> QED BY <3>1, <3>2
  <2> QED BY <1>1, <2>1, <2>9
<1> QED BY <1>2, <1>3 DEF HandlesUnique

\* A handle that dimeModel::getUniqueHandle() gave is in one place only, and the
\* $HANDSEED that write() puts in the header is above all that HandlesAt finds.
THEOREM HandlesAreUnique == Spec => []HandlesUnique
  BY HandlesLawful, ModelStays, PTL
-----------------------------------------------------------------------------
(* Writing: what a callback that refuses leaves of it, and how much it is.  *)
\* what is written as a record, and an output that is written to
Texts == STRING \cup {"TABLE", "ENDTAB", "SECTION", "ENDSEC", "EOF", "(null)", "LAYER",
                      "Default class name", "Default app name", NoName}
Line == [code : Int, str : Texts, num : Int]
Outputs ==
  [lines : Seq(Line), ok : BOOLEAN, aborted : BOOLEAN, numwrites : Nat, refusal : Int]
\* b is written to without a refusal; a has the same, unless it was refused:
\* then it stays so
Plain(b) == b \in Outputs /\ b.ok = TRUE /\ b.aborted = FALSE /\ b.refusal = Never
Paired(a, b) ==
  /\ a \in Outputs /\ Plain(b)
  /\ a.aborted = TRUE \/ (a.ok = TRUE /\ a.lines = b.lines /\ a.numwrites = b.numwrites)
\* both have been written to, n group codes
Advances(b, v, w, n) == Paired(v, w) /\ w.numwrites = b.numwrites + n
\* One writing after another writes the sum of both.
LEMMA AdvancesTwice ==
  ASSUME NEW b, NEW c, NEW v, NEW w, NEW x, NEW n \in Int, NEW k \in Int, NEW a,
         Paired(a, b), Advances(b, c, v, n), Advances(v, w, x, k)
  PROVE  Advances(b, w, x, n + k)
<1>1. b.numwrites \in Nat
  BY DEF Paired, Plain, Outputs
<1> QED BY <1>1 DEF Advances
\* What is not written advances nothing.
LEMMA AdvancesNot ==
  ASSUME NEW a, NEW b, Paired(a, b) PROVE Advances(b, a, b, 0)
<1>1. b.numwrites \in Nat
  BY DEF Paired, Plain, Outputs
<1> QED BY <1>1 DEF Advances
\* A && b: what failed is not written further
LEMMA AdvancesOrNot ==
  ASSUME NEW a, NEW b, Paired(a, b), NEW v, NEW w, NEW n, Advances(b, v, w, n),
         NEW x, x = IF a.ok THEN v ELSE a
  PROVE  Advances(b, x, w, n)
<1>1. a.ok \in BOOLEAN
  BY DEF Paired, Outputs
<1>2. CASE a.ok = TRUE
  BY <1>2
<1>3. CASE a.ok = FALSE
  BY <1>3 DEF Paired, Advances
<1> QED BY <1>1, <1>2, <1>3
\* An output without a refusal is its own pair.
LEMMA PlainPaired == ASSUME NEW b, Plain(b) PROVE Paired(b, b)
  BY DEF Paired, Plain
\* dimeOutput::writeGroupCode
LEMMA GroupCodeTyped ==
  ASSUME NEW o \in Outputs, NEW code \in Int
  PROVE  LET v == WriteGroupCode(o, code)
         IN  /\ v \in Outputs /\ v.refusal = o.refusal
             /\ o.aborted = TRUE => v.aborted = TRUE /\ v.ok = FALSE
             /\ o.aborted = FALSE =>
                  /\ v.ok = TRUE /\ v.lines = Append(o.lines, Num(code, 0))
                  /\ v.numwrites = o.numwrites + 1
                  /\ o.refusal = Never => v.aborted = FALSE
<1> DEFINE v == WriteGroupCode(o, code)
           line == Num(code, 0)
           asks == o.numwrites % AskEvery = 0
           now == asks /\ o.numwrites = o.refusal
<1>1. line \in Line
  BY DEF Line, Num, Texts, NoName
<1>2. CASE o.aborted = TRUE
  BY <1>2 DEF WriteGroupCode, Outputs
<1>3. CASE o.aborted = FALSE
  <2>1. v = [o EXCEPT !.ok = TRUE, !.lines = Append(o.lines, line), !.aborted = now,
                      !.numwrites = o.numwrites + 1]
    BY <1>3 DEF WriteGroupCode
  <2>2. now \in BOOLEAN
    OBVIOUS
  <2>3. o.refusal = Never => ~ now
    BY DEF Outputs, Never
  <2>4. Append(o.lines, line) \in Seq(Line) /\ o.numwrites + 1 \in Nat
    BY <1>1 DEF Outputs
  <2> HIDE DEF now, line, v
  <2>5. v \in Outputs /\ v.refusal = o.refusal /\ v.ok = TRUE
        /\ v.lines = Append(o.lines, line) /\ v.numwrites = o.numwrites + 1
        /\ v.aborted = now
    BY <2>1, <2>2, <2>4 DEF Outputs
  <2> QED BY <1>3, <2>3, <2>5 DEF line, v
<1>4. o.aborted \in BOOLEAN
  BY DEF Outputs
<1> QED BY <1>2, <1>3, <1>4
\* Both outputs get a group code, or the refused one stays so.
LEMMA GroupCodeAdvances ==
  ASSUME NEW a, NEW b, Paired(a, b), NEW code \in Int
  PROVE  Advances(b, WriteGroupCode(a, code), WriteGroupCode(b, code), 1)
<1> DEFINE v == WriteGroupCode(a, code)
           w == WriteGroupCode(b, code)
<1>1. a \in Outputs /\ b \in Outputs /\ b.aborted = FALSE /\ b.refusal = Never
  BY DEF Paired, Plain
<1>2. /\ w \in Outputs /\ w.refusal = Never /\ w.ok = TRUE /\ w.aborted = FALSE
      /\ w.lines = Append(b.lines, Num(code, 0)) /\ w.numwrites = b.numwrites + 1
  BY <1>1, GroupCodeTyped
<1>3. /\ v \in Outputs
      /\ a.aborted = TRUE => v.aborted = TRUE
      /\ a.aborted = FALSE =>
           /\ v.ok = TRUE /\ v.lines = Append(a.lines, Num(code, 0))
           /\ v.numwrites = a.numwrites + 1
  BY <1>1, GroupCodeTyped
<1> HIDE DEF v, w
<1>4. Plain(w)
  BY <1>2 DEF Plain
<1>5. a.aborted = FALSE \/ a.aborted = TRUE
  BY <1>1 DEF Outputs
<1>6. v.aborted = TRUE \/ (v.ok = TRUE /\ v.lines = w.lines /\ v.numwrites = w.numwrites)
  BY <1>2, <1>3, <1>5 DEF Paired
<1> QED BY <1>2, <1>3, <1>4, <1>6 DEF Advances, Paired, v, w
\* The value after a group code
LEMMA ValueTyped ==
  ASSUME NEW o \in Outputs, NEW r \in Line
  PROVE  LET v == WriteValue(o, r)
             line == [code |-> 0 - 1, str |-> r.str, num |-> r.num]
         IN  /\ v \in Outputs /\ v.refusal = o.refusal /\ v.aborted = o.aborted
             /\ v.ok = TRUE /\ v.lines = Append(o.lines, line) /\ v.numwrites = o.numwrites
<1> DEFINE line == [code |-> 0 - 1, str |-> r.str, num |-> r.num]
<1>1. line \in Line
  BY DEF Line
<1>2. Append(o.lines, line) \in Seq(Line)
  <2> HIDE DEF line
  <2> QED BY <1>1 DEF Outputs
<1>3. WriteValue(o, r) = [o EXCEPT !.ok = TRUE, !.lines = Append(o.lines, line)]
  BY DEF WriteValue
<1> HIDE DEF line
<1> QED BY <1>2, <1>3 DEF Outputs, line
\* A value is no group code, and stops nothing.
LEMMA ValueAdvances ==
  ASSUME NEW a, NEW b, Paired(a, b), NEW r \in Line
  PROVE  Advances(b, WriteValue(a, r), WriteValue(b, r), 0)
<1> DEFINE v == WriteValue(a, r)
           w == WriteValue(b, r)
           line == [code |-> 0 - 1, str |-> r.str, num |-> r.num]
<1>1. a \in Outputs /\ b \in Outputs /\ b.aborted = FALSE /\ b.refusal = Never
      /\ b.numwrites \in Nat
  BY DEF Paired, Plain, Outputs
<1>2. /\ w \in Outputs /\ w.refusal = b.refusal /\ w.aborted = b.aborted
      /\ w.ok = TRUE /\ w.lines = Append(b.lines, line) /\ w.numwrites = b.numwrites
  BY <1>1, ValueTyped
<1>3. /\ v \in Outputs /\ v.aborted = a.aborted
      /\ v.ok = TRUE /\ v.lines = Append(a.lines, line) /\ v.numwrites = a.numwrites
  BY <1>1, ValueTyped
<1> HIDE DEF v, w, line
<1>4. Plain(w) /\ w.numwrites = b.numwrites + 0
  BY <1>1, <1>2 DEF Plain
<1>6. v.aborted = TRUE \/ (v.ok = TRUE /\ v.lines = w.lines /\ v.numwrites = w.numwrites)
  BY <1>2, <1>3 DEF Paired
<1> QED BY <1>3, <1>4, <1>6 DEF Advances, Paired, v, w
\* A record, and one of which nobody looks at the results
LEMMA RecordAdvances ==
  ASSUME NEW a, NEW b, Paired(a, b), NEW r \in Line
  PROVE  /\ Advances(b, WriteRecord(a, r), WriteRecord(b, r), 1)
         /\ Advances(b, WriteUnchecked(a, r), WriteUnchecked(b, r), 1)
<1> DEFINE v == WriteGroupCode(a, r.code)
           w == WriteGroupCode(b, r.code)
           x == WriteValue(v, r)
           y == WriteValue(w, r)
<1>0. r.code \in Int
  BY DEF Line
<1>1. Advances(b, v, w, 1)
  BY <1>0, GroupCodeAdvances
<1>2. Paired(v, w) /\ w.ok = TRUE
  BY <1>1 DEF Advances, Paired, Plain
<1>3. Advances(w, x, y, 0)
  BY <1>2, ValueAdvances
<1> HIDE DEF v, w
<1>4. Advances(b, x, y, 1)
  <2> HIDE DEF x, y
  <2>1. Advances(b, x, y, 1 + 0)
    BY <1>1, <1>3, AdvancesTwice
  <2> QED BY <2>1
<1>5. WriteRecord(a, r) = (IF v.ok THEN x ELSE v) /\ WriteRecord(b, r) = y
  BY <1>2 DEF WriteRecord, AndThen, v, w
<1>6. WriteUnchecked(a, r) = x /\ WriteUnchecked(b, r) = y
  BY DEF WriteUnchecked, v, w
<1> DEFINE z == IF v.ok THEN x ELSE v
<1>7. Advances(w, z, y, 0)
  <2> HIDE DEF x, y
  <2> QED BY <1>2, <1>3, AdvancesOrNot
<1>8. Advances(b, z, y, 1)
  <2> HIDE DEF y, z
  <2>1. Advances(b, z, y, 1 + 0)
    BY <1>1, <1>7, AdvancesTwice
  <2> QED BY <2>1
<1> HIDE DEF x, y, z
<1> QED BY <1>4, <1>5, <1>6, <1>8 DEF z
\* The same if all that was written before went well
LEMMA NextAdvances ==
  ASSUME NEW a, NEW b, Paired(a, b), NEW r \in Line
  PROVE  Advances(b, WriteNext(a, r), WriteNext(b, r), 1)
<1> DEFINE v == WriteRecord(a, r)
           w == WriteRecord(b, r)
<1>1. Advances(b, v, w, 1)
  BY RecordAdvances
<1>2. WriteNext(a, r) = (IF a.ok THEN v ELSE a) /\ WriteNext(b, r) = w
  BY DEF WriteNext, AndThen, Paired, Plain
<1> HIDE DEF v, w
<1> QED BY <1>1, <1>2, AdvancesOrNot
\* A result that nobody looks at
LEMMA IgnoredAdvances ==
  ASSUME NEW a, NEW b, Paired(a, b)
  PROVE  Advances(b, Ignored(a), Ignored(b), 0)
<1> DEFINE v == Ignored(a)
           w == Ignored(b)
<1>1. /\ v \in Outputs /\ v.aborted = a.aborted /\ v.ok = TRUE
      /\ v.lines = a.lines /\ v.numwrites = a.numwrites
      /\ w \in Outputs /\ w.aborted = b.aborted /\ w.ok = TRUE /\ w.refusal = b.refusal
      /\ w.lines = b.lines /\ w.numwrites = b.numwrites /\ b.numwrites \in Nat
  BY DEF Ignored, Paired, Plain, Outputs
<1> HIDE DEF v, w
<1>2. Plain(w)
  BY <1>1 DEF Plain, Paired
<1> QED BY <1>1, <1>2 DEF Advances, Paired, v, w
\* A header comment
LEMMA CommentAdvances ==
  ASSUME NEW a, NEW b, Paired(a, b), NEW r \in Line
  PROVE  Advances(b, WriteComment(a, r), WriteComment(b, r), 1)
<1> DEFINE v == WriteRecord(a, r)
           w == WriteRecord(b, r)
           x == Ignored(v)
           y == Ignored(w)
<1>1. Advances(b, v, w, 1)
  BY RecordAdvances
<1> HIDE DEF v, w
<1>2. Paired(v, w)
  BY <1>1 DEF Advances
<1>3. Advances(w, x, y, 0)
  BY <1>2, IgnoredAdvances
<1> HIDE DEF x, y
<1>4. Advances(b, x, y, 1 + 0)
  BY <1>1, <1>3, AdvancesTwice
<1> QED BY <1>4 DEF WriteComment, v, w, x, y
\* the values r of a loop: the first is o and the last is w
Turns(r, loop, o, items) ==
  r[0] = o /\ \A k \in 1 .. Len(items) : r[k] = Turn(loop, 0, r[k - 1], items[k])
Loop(loop, o, items, w) == \E r : Turns(r, loop, o, items) /\ r[Len(items)] = w
\* A turn of a loop that counts adds.
LEMMA TurnCounts ==
  ASSUME NEW loop \in Counts
  PROVE  \A v, x : Turn(loop, 0, v, x) = v + Count1(loop, x)
  BY DEF Turn, Counts
\* The last value of a loop is what it makes.
LEMMA LoopEnds ==
  ASSUME NEW loop, NEW o, NEW S, NEW items \in Seq(S), NEW f, IsLoop(f, loop, 0, o, items)
  PROVE  Loop(loop, o, items, f[Len(items)])
<1> DEFINE n == Len(items)
<1>1. n \in Nat
  OBVIOUS
<1>2. \A k \in 0 .. n : f[k] = IF k = 0 THEN o ELSE Turn(loop, 0, f[k - 1], items[k])
  BY DEF IsLoop
<1> HIDE DEF n
<1>3. Turns(f, loop, o, items)
  BY <1>1, <1>2 DEF Turns, n
<1> QED BY <1>3 DEF Loop
\* WriteRecords() is the loop of WriteNext.
LEMMA RecordsLoop ==
  ASSUME NEW o, NEW S, NEW items \in Seq(S)
  PROVE  Loop("WriteNext", o, items, WriteRecords(o, items))
<1> DEFINE Eq(f) == f = [k \in 0 .. Len(items) |->
                           IF k = 0 THEN o ELSE WriteNext(f[k - 1], items[k])]
           after == CHOOSE f : Eq(f)
<1>1. \A v, x : Turn("WriteNext", 0, v, x) = WriteNext(v, x)
  BY DEF Turn, Counts
<1>2. \A f : Eq(f) <=> IsLoop(f, "WriteNext", 0, o, items)
  BY <1>1 DEF IsLoop
<1>3. WriteRecords(o, items) = after[Len(items)]
  BY DEF WriteRecords, Fold
<1> HIDE DEF Eq
<1>4. Eq(after)
  BY <1>2, LoopIs
<1> QED BY <1>2, <1>3, <1>4, LoopEnds
\* So is the loop over the header comments,
LEMMA CommentsLoop ==
  ASSUME NEW o, NEW S, NEW items \in Seq(S)
  PROVE  Loop("WriteComment", o, items, Fold(WriteComment, o, items))
<1> DEFINE Eq(f) == f = [k \in 0 .. Len(items) |->
                           IF k = 0 THEN o ELSE WriteComment(f[k - 1], items[k])]
           after == CHOOSE f : Eq(f)
<1>1. \A v, x : Turn("WriteComment", 0, v, x) = WriteComment(v, x)
  BY DEF Turn, Counts
<1>2. \A f : Eq(f) <=> IsLoop(f, "WriteComment", 0, o, items)
  BY <1>1 DEF IsLoop
<1>3. Fold(WriteComment, o, items) = after[Len(items)]
  BY DEF Fold
<1> HIDE DEF Eq
<1>4. Eq(after)
  BY <1>2, LoopIs
<1> QED BY <1>2, <1>3, <1>4, LoopEnds
\* the loops whose results nobody looks at,
LEMMA UncheckedLoop ==
  ASSUME NEW o, NEW S, NEW items \in Seq(S)
  PROVE  Loop("WriteUnchecked", o, items, Fold(WriteUnchecked, o, items))
<1> DEFINE Eq(f) == f = [k \in 0 .. Len(items) |->
                           IF k = 0 THEN o ELSE WriteUnchecked(f[k - 1], items[k])]
           after == CHOOSE f : Eq(f)
<1>1. \A v, x : Turn("WriteUnchecked", 0, v, x) = WriteUnchecked(v, x)
  BY DEF Turn, Counts
<1>2. \A f : Eq(f) <=> IsLoop(f, "WriteUnchecked", 0, o, items)
  BY <1>1 DEF IsLoop
<1>3. Fold(WriteUnchecked, o, items) = after[Len(items)]
  BY DEF Fold
<1> HIDE DEF Eq
<1>4. Eq(after)
  BY <1>2, LoopIs
<1> QED BY <1>2, <1>3, <1>4, LoopEnds
\* The loop over the entries of a table,
LEMMA EntriesLoop ==
  ASSUME NEW o, NEW S, NEW items \in Seq(S)
  PROVE  Loop("WriteEntry", o, items, WriteEach(o, WriteEntry, items))
<1> DEFINE Eq(f) == f = [k \in 0 .. Len(items) |->
                           IF k = 0 THEN o ELSE AndThen(f[k - 1], LAMBDA z : WriteEntry(z, items[k]))]
           after == CHOOSE f : Eq(f)
<1>1. \A v, x : Turn("WriteEntry", 0, v, x) = AndThen(v, LAMBDA z : WriteEntry(z, x))
  BY DEF Turn, Counts
<1>2. \A f : Eq(f) <=> IsLoop(f, "WriteEntry", 0, o, items)
  BY <1>1 DEF IsLoop, AndThen
<1>3. WriteEach(o, WriteEntry, items) = after[Len(items)]
  BY DEF WriteEach, Fold
<1> HIDE DEF Eq
<1>4. Eq(after)
  BY <1>2, LoopIs
<1> QED BY <1>2, <1>3, <1>4, LoopEnds
\* Over the tables,
LEMMA TablesLoop ==
  ASSUME NEW o, NEW S, NEW items \in Seq(S)
  PROVE  Loop("WriteTable", o, items, WriteEach(o, WriteTable, items))
<1> DEFINE Eq(f) == f = [k \in 0 .. Len(items) |->
                           IF k = 0 THEN o ELSE AndThen(f[k - 1], LAMBDA z : WriteTable(z, items[k]))]
           after == CHOOSE f : Eq(f)
<1>1. \A v, x : Turn("WriteTable", 0, v, x) = AndThen(v, LAMBDA z : WriteTable(z, x))
  BY DEF Turn, Counts
<1>2. \A f : Eq(f) <=> IsLoop(f, "WriteTable", 0, o, items)
  BY <1>1 DEF IsLoop, AndThen
<1>3. WriteEach(o, WriteTable, items) = after[Len(items)]
  BY DEF WriteEach, Fold
<1> HIDE DEF Eq
<1>4. Eq(after)
  BY <1>2, LoopIs
<1> QED BY <1>2, <1>3, <1>4, LoopEnds
\* The classes
LEMMA ClassesLoop ==
  ASSUME NEW o, NEW S, NEW items \in Seq(S)
  PROVE  Loop("WriteClass", o, items, WriteEach(o, WriteClass, items))
<1> DEFINE Eq(f) == f = [k \in 0 .. Len(items) |->
                           IF k = 0 THEN o ELSE AndThen(f[k - 1], LAMBDA z : WriteClass(z, items[k]))]
           after == CHOOSE f : Eq(f)
<1>1. \A v, x : Turn("WriteClass", 0, v, x) = AndThen(v, LAMBDA z : WriteClass(z, x))
  BY DEF Turn, Counts
<1>2. \A f : Eq(f) <=> IsLoop(f, "WriteClass", 0, o, items)
  BY <1>1 DEF IsLoop, AndThen
<1>3. WriteEach(o, WriteClass, items) = after[Len(items)]
  BY DEF WriteEach, Fold
<1> HIDE DEF Eq
<1>4. Eq(after)
  BY <1>2, LoopIs
<1> QED BY <1>2, <1>3, <1>4, LoopEnds
\* And the objects of a section,
LEMMA ObjectsLoop ==
  ASSUME NEW o, NEW S, NEW items \in Seq(S)
  PROVE  Loop("WriteObject", o, items, WriteEach(o, WriteObject, items))
<1> DEFINE Eq(f) == f = [k \in 0 .. Len(items) |->
                           IF k = 0 THEN o ELSE AndThen(f[k - 1], LAMBDA z : WriteObject(z, items[k]))]
           after == CHOOSE f : Eq(f)
<1>1. \A v, x : Turn("WriteObject", 0, v, x) = AndThen(v, LAMBDA z : WriteObject(z, x))
  BY DEF Turn, Counts
<1>2. \A f : Eq(f) <=> IsLoop(f, "WriteObject", 0, o, items)
  BY <1>1 DEF IsLoop, AndThen
<1>3. WriteEach(o, WriteObject, items) = after[Len(items)]
  BY DEF WriteEach, Fold
<1> HIDE DEF Eq
<1>4. Eq(after)
  BY <1>2, LoopIs
<1> QED BY <1>2, <1>3, <1>4, LoopEnds
\* And over the sections.
LEMMA SectionsLoop ==
  ASSUME NEW o, NEW S, NEW items \in Seq(S)
  PROVE  Loop("WriteSection", o, items, WriteEach(o, Begun, items))
<1> DEFINE Eq(f) == f = [k \in 0 .. Len(items) |->
                           IF k = 0 THEN o ELSE AndThen(f[k - 1], LAMBDA z : Begun(z, items[k]))]
           after == CHOOSE f : Eq(f)
<1>1. \A v, x : Turn("WriteSection", 0, v, x) = AndThen(v, LAMBDA z : Begun(z, x))
  BY DEF Turn, Counts
<1>2. \A f : Eq(f) <=> IsLoop(f, "WriteSection", 0, o, items)
  BY <1>1 DEF IsLoop, AndThen
<1>3. WriteEach(o, Begun, items) = after[Len(items)]
  BY DEF WriteEach, Fold
<1> HIDE DEF Eq
<1>4. Eq(after)
  BY <1>2, LoopIs
<1> QED BY <1>2, <1>3, <1>4, LoopEnds
\* The loop that counts entries,
LEMMA EntriesCounted ==
  ASSUME NEW S, NEW items \in Seq(S)
  PROVE  Loop("CountEntry", 0, items, CountEach(CountEntry, items))
<1> DEFINE Eq(f) == f = [k \in 0 .. Len(items) |->
                           IF k = 0 THEN 0 ELSE f[k - 1] + CountEntry(items[k])]
           after == CHOOSE f : Eq(f)
<1>1. \A v, x : Turn("CountEntry", 0, v, x) = v + CountEntry(x)
  BY DEF Turn, Counts, Count1
<1>2. \A f : Eq(f) <=> IsLoop(f, "CountEntry", 0, 0, items)
  BY <1>1 DEF IsLoop
<1>3. CountEach(CountEntry, items) = after[Len(items)]
  BY DEF CountEach, Fold
<1> HIDE DEF Eq
<1>4. Eq(after)
  BY <1>2, LoopIs
<1> QED BY <1>2, <1>3, <1>4, LoopEnds
\* That of tables,
LEMMA TablesCounted ==
  ASSUME NEW S, NEW items \in Seq(S)
  PROVE  Loop("CountTable", 0, items, CountEach(CountTable, items))
<1> DEFINE Eq(f) == f = [k \in 0 .. Len(items) |->
                           IF k = 0 THEN 0 ELSE f[k - 1] + CountTable(items[k])]
           after == CHOOSE f : Eq(f)
<1>1. \A v, x : Turn("CountTable", 0, v, x) = v + CountTable(x)
  BY DEF Turn, Counts, Count1
<1>2. \A f : Eq(f) <=> IsLoop(f, "CountTable", 0, 0, items)
  BY <1>1 DEF IsLoop
<1>3. CountEach(CountTable, items) = after[Len(items)]
  BY DEF CountEach, Fold
<1> HIDE DEF Eq
<1>4. Eq(after)
  BY <1>2, LoopIs
<1> QED BY <1>2, <1>3, <1>4, LoopEnds
\* Of classes,
LEMMA ClassesCounted ==
  ASSUME NEW S, NEW items \in Seq(S)
  PROVE  Loop("CountClass", 0, items, CountEach(CountClass, items))
<1> DEFINE Eq(f) == f = [k \in 0 .. Len(items) |->
                           IF k = 0 THEN 0 ELSE f[k - 1] + CountClass(items[k])]
           after == CHOOSE f : Eq(f)
<1>1. \A v, x : Turn("CountClass", 0, v, x) = v + CountClass(x)
  BY DEF Turn, Counts, Count1
<1>2. \A f : Eq(f) <=> IsLoop(f, "CountClass", 0, 0, items)
  BY <1>1 DEF IsLoop
<1>3. CountEach(CountClass, items) = after[Len(items)]
  BY DEF CountEach, Fold
<1> HIDE DEF Eq
<1>4. Eq(after)
  BY <1>2, LoopIs
<1> QED BY <1>2, <1>3, <1>4, LoopEnds
\* Of objects
LEMMA ObjectsCounted ==
  ASSUME NEW S, NEW items \in Seq(S)
  PROVE  Loop("CountObject", 0, items, CountEach(CountObject, items))
<1> DEFINE Eq(f) == f = [k \in 0 .. Len(items) |->
                           IF k = 0 THEN 0 ELSE f[k - 1] + CountObject(items[k])]
           after == CHOOSE f : Eq(f)
<1>1. \A v, x : Turn("CountObject", 0, v, x) = v + CountObject(x)
  BY DEF Turn, Counts, Count1
<1>2. \A f : Eq(f) <=> IsLoop(f, "CountObject", 0, 0, items)
  BY <1>1 DEF IsLoop
<1>3. CountEach(CountObject, items) = after[Len(items)]
  BY DEF CountEach, Fold
<1> HIDE DEF Eq
<1>4. Eq(after)
  BY <1>2, LoopIs
<1> QED BY <1>2, <1>3, <1>4, LoopEnds
\* And of sections.
LEMMA SectionsCounted ==
  ASSUME NEW S, NEW items \in Seq(S)
  PROVE  Loop("CountSection", 0, items, CountEach(LAMBDA s : 1 + CountSection(s), items))
<1> DEFINE Eq(f) == f = [k \in 0 .. Len(items) |->
                           IF k = 0 THEN 0 ELSE f[k - 1] + (1 + CountSection(items[k]))]
           after == CHOOSE f : Eq(f)
<1>1. \A v, x : Turn("CountSection", 0, v, x) = v + (1 + CountSection(x))
  BY DEF Turn, Counts, Count1
<1>2. \A f : Eq(f) <=> IsLoop(f, "CountSection", 0, 0, items)
  BY <1>1 DEF IsLoop
<1>3. CountEach(LAMBDA s : 1 + CountSection(s), items) = after[Len(items)]
  BY DEF CountEach, Fold
<1> HIDE DEF Eq
<1>4. Eq(after)
  BY <1>2, LoopIs
<1> QED BY <1>2, <1>3, <1>4, LoopEnds
\* The loop that counts what tables have over
LEMMA TablesOver ==
  ASSUME NEW S, NEW items \in Seq(S)
  PROVE  Loop("TableOver", 0, items, CountEach(TableOver, items))
<1> DEFINE Eq(f) == f = [k \in 0 .. Len(items) |->
                           IF k = 0 THEN 0 ELSE f[k - 1] + TableOver(items[k])]
           after == CHOOSE f : Eq(f)
<1>1. \A v, x : Turn("TableOver", 0, v, x) = v + TableOver(x)
  BY DEF Turn, Counts, Count1
<1>2. \A f : Eq(f) <=> IsLoop(f, "TableOver", 0, 0, items)
  BY <1>1 DEF IsLoop
<1>3. CountEach(TableOver, items) = after[Len(items)]
  BY DEF CountEach, Fold
<1> HIDE DEF Eq
<1>4. Eq(after)
  BY <1>2, LoopIs
<1> QED BY <1>2, <1>3, <1>4, LoopEnds
\* And what sections have.
LEMMA SectionsOver ==
  ASSUME NEW S, NEW items \in Seq(S)
  PROVE  Loop("SectionOver", 0, items, CountEach(SectionOver, items))
<1> DEFINE Eq(f) == f = [k \in 0 .. Len(items) |->
                           IF k = 0 THEN 0 ELSE f[k - 1] + SectionOver(items[k])]
           after == CHOOSE f : Eq(f)
<1>1. \A v, x : Turn("SectionOver", 0, v, x) = v + SectionOver(x)
  BY DEF Turn, Counts, Count1
<1>2. \A f : Eq(f) <=> IsLoop(f, "SectionOver", 0, 0, items)
  BY <1>1 DEF IsLoop
<1>3. CountEach(SectionOver, items) = after[Len(items)]
  BY DEF CountEach, Fold
<1> HIDE DEF Eq
<1>4. Eq(after)
  BY <1>2, LoopIs
<1> QED BY <1>2, <1>3, <1>4, LoopEnds
\* one turn of the loop writes d group codes
Paces(loop, x, d) ==
  \A p, q : Paired(p, q) => Advances(q, Turn(loop, 0, p, x), Turn(loop, 0, q, x), d)
Pace(loop, items, c) ==
  c[0] = 0 /\ \A k \in 1 .. Len(items) : c[k] \in Int /\ Paces(loop, items[k], c[k] - c[k - 1])
\* A loop writes the sum of what its turns write, whether it is refused or not.
LEMMA LoopAdvances ==
  ASSUME NEW loop, NEW S, NEW items \in Seq(S), NEW a, NEW b, Paired(a, b), NEW v, NEW w,
         Loop(loop, a, items, v), Loop(loop, b, items, w),
         NEW c, Pace(loop, items, c)
  PROVE  Advances(b, v, w, c[Len(items)])
<1> DEFINE n == Len(items)
<1>1. n \in Nat
  OBVIOUS
<1>2. PICK r : Turns(r, loop, a, items) /\ r[n] = v
  BY DEF Loop
<1>3. PICK s : Turns(s, loop, b, items) /\ s[n] = w
  BY DEF Loop
<1>4. c[0] = 0 /\ \A k \in 1 .. n : c[k] \in Int /\ Paces(loop, items[k], c[k] - c[k - 1])
  BY DEF Pace
<1>5. r[0] = a /\ s[0] = b
  BY <1>2, <1>3 DEF Turns
<1>6. \A k \in 1 .. n : r[k] = Turn(loop, 0, r[k - 1], items[k])
                        /\ s[k] = Turn(loop, 0, s[k - 1], items[k])
  BY <1>2, <1>3 DEF Turns
<1> HIDE DEF n
<1> DEFINE T == {k \in 0 .. n : Advances(b, r[k], s[k], c[k])}
<1>7. 0 \in T
  BY <1>1, <1>4, <1>5, AdvancesNot
<1>8. ASSUME NEW k \in 1 .. n, k - 1 \in T PROVE k \in T
  <2> DEFINE d == c[k] - c[k - 1]
             x == r[k - 1]
             y == s[k - 1]
             m == c[k - 1]
  <2>1. Advances(b, x, y, m)
    BY <1>8
  <2>2. Paired(x, y)
    BY <2>1 DEF Advances
  <2>3. m \in Int /\ c[k] \in Int
    BY <1>1, <1>4
  <2>4. d \in Int /\ m + d = c[k]
    BY <2>3
  <2>5. Advances(y, r[k], s[k], d)
    BY <1>4, <1>6, <2>2 DEF Paces
  <2> HIDE DEF d, x, y, m
  <2>6. Advances(b, r[k], s[k], m + d)
    BY <2>1, <2>3, <2>4, <2>5, AdvancesTwice
  <2> QED BY <1>1, <2>4, <2>6
<1>9. 0 .. n \subseteq T
  <2> HIDE DEF T
  <2> QED BY <1>1, <1>7, <1>8, UpTo
<1>10. n \in T
  <2> HIDE DEF T
  <2> QED BY <1>9, <1>1
<1> QED BY <1>2, <1>3, <1>10 DEF n
\* Records that are written in turn
LEMMA RecordsAdvance ==
  ASSUME NEW a, NEW b, Paired(a, b), NEW recs \in Seq(Line)
  PROVE  /\ Advances(b, WriteRecords(a, recs), WriteRecords(b, recs), Len(recs))
         /\ Advances(b, Fold(WriteUnchecked, a, recs), Fold(WriteUnchecked, b, recs), Len(recs))
         /\ Advances(b, Fold(WriteComment, a, recs), Fold(WriteComment, b, recs), Len(recs))
<1> DEFINE c == [k \in Int |-> k]
           n == Len(recs)
<1>1. n \in Nat
  OBVIOUS
<1>2. ASSUME NEW k \in 1 .. n
      PROVE  Paces("WriteNext", recs[k], 1) /\ Paces("WriteUnchecked", recs[k], 1)
             /\ Paces("WriteComment", recs[k], 1)
  <2>1. recs[k] \in Line
    OBVIOUS
  <2>2. ASSUME NEW p, NEW q, Paired(p, q)
        PROVE  /\ Advances(q, Turn("WriteNext", 0, p, recs[k]), Turn("WriteNext", 0, q, recs[k]), 1)
               /\ Advances(q, Turn("WriteUnchecked", 0, p, recs[k]), Turn("WriteUnchecked", 0, q, recs[k]), 1)
    BY <2>1, <2>2, RecordAdvances, NextAdvances DEF Turn, Counts
  <2>3. ASSUME NEW p, NEW q, Paired(p, q)
        PROVE  Advances(q, Turn("WriteComment", 0, p, recs[k]), Turn("WriteComment", 0, q, recs[k]), 1)
    <3>1. Advances(q, WriteComment(p, recs[k]), WriteComment(q, recs[k]), 1)
      BY <2>1, <2>3, CommentAdvances
    <3> QED BY <3>1 DEF Turn, Counts
  <2> QED BY <2>2, <2>3 DEF Paces
<1> HIDE DEF n
<1>3. c[0] = 0 /\ c[n] = n /\ \A k \in 1 .. n : c[k] \in Int /\ c[k] - c[k - 1] = 1
  BY <1>1
<1> HIDE DEF c
<1>4. Pace("WriteNext", recs, c) /\ Pace("WriteUnchecked", recs, c) /\ Pace("WriteComment", recs, c)
  BY <1>2, <1>3 DEF Pace, n
<1>5. /\ Loop("WriteNext", a, recs, WriteRecords(a, recs))
      /\ Loop("WriteNext", b, recs, WriteRecords(b, recs))
  BY RecordsLoop
<1>6. /\ Loop("WriteUnchecked", a, recs, Fold(WriteUnchecked, a, recs))
      /\ Loop("WriteUnchecked", b, recs, Fold(WriteUnchecked, b, recs))
  BY UncheckedLoop
<1> DEFINE v == WriteRecords(a, recs)
           w == WriteRecords(b, recs)
           x == Fold(WriteUnchecked, a, recs)
           y == Fold(WriteUnchecked, b, recs)
           s == Fold(WriteComment, a, recs)
           t == Fold(WriteComment, b, recs)
<1>c. Loop("WriteComment", a, recs, s) /\ Loop("WriteComment", b, recs, t)
  BY CommentsLoop
<1> HIDE DEF v, w, x, y, s, t
<1>7. Advances(b, v, w, c[n])
  BY <1>4, <1>5, LoopAdvances DEF n, v, w
<1>8. Advances(b, x, y, c[n])
  BY <1>4, <1>6, LoopAdvances DEF n, x, y
<1>9. Advances(b, s, t, c[n])
  BY <1>4, <1>c, LoopAdvances DEF n
<1> QED BY <1>3, <1>7, <1>8, <1>9 DEF n, v, w, x, y, s, t
\* What is counted is a number
LEMMA CountsInt ==
  ASSUME NEW loop, NEW S, NEW items \in Seq(S), NEW r, loop \in Counts, Turns(r, loop, 0, items),
         \A k \in 1 .. Len(items) : Count1(loop, items[k]) \in Int
  PROVE  \A k \in 0 .. Len(items) : r[k] \in Int
<1> DEFINE n == Len(items)
           T == {k \in 0 .. n : r[k] \in Int}
<1>1. n \in Nat
  OBVIOUS
<1>2. r[0] = 0 /\ \A k \in 1 .. n : r[k] = r[k - 1] + Count1(loop, items[k])
  BY TurnCounts DEF Turns
<1>3. \A k \in 1 .. n : Count1(loop, items[k]) \in Int
  OBVIOUS
<1> HIDE DEF n
<1>4. 0 \in T
  BY <1>1, <1>2
<1>5. ASSUME NEW k \in 1 .. n, k - 1 \in T PROVE k \in T
  BY <1>1, <1>2, <1>3, <1>5
<1>6. 0 .. n \subseteq T
  <2> HIDE DEF T
  <2> QED BY <1>1, <1>4, <1>5, UpTo
<1> QED BY <1>6 DEF n
\* What is written are lines.
LEMMA LinesAre ==
  /\ \A code \in Int, s \in Texts : Str(code, s) \in Line
  /\ \A code \in Int, n \in Int : Num(code, n) \in Line
  /\ \A recs \in RecordSeq : recs \in Seq(Line) /\ Len(recs) \in Nat
<1>1. STRING \subseteq Texts /\ "" \in Texts
  BY DEF Texts, NoName
<1>2. Record \subseteq Line
  BY <1>1 DEF Record, Line
<1>3. \A recs \in RecordSeq : recs \in Seq(Line) /\ Len(recs) \in Nat
  BY <1>2 DEF RecordSeq
<1>4. \A code \in Int, s \in Texts : Str(code, s) \in Line
  BY DEF Str, Line
<1>5. \A code \in Int, n \in Int : Num(code, n) \in Line
  BY <1>1 DEF Num, Line
<1> QED BY <1>3, <1>4, <1>5
\* dimeTableEntry::preWrite
LEMMA PreWriteAdvances ==
  ASSUME NEW a, NEW b, Paired(a, b), NEW e \in EntryType
  PROVE  Advances(b, PreWrite(a, e), PreWrite(b, e), 1 + Len(e.recs))
<1> DEFINE r == Str(0, e.table)
           v == WriteRecord(a, r)
           w == WriteRecord(b, r)
<1>1. r \in Line
  <2>1. e.table \in Texts
    BY DEF EntryType, Texts
  <2> QED BY <2>1, LinesAre
<1>2. Advances(b, v, w, 1)
  BY <1>1, RecordAdvances
<1>3. e.recs \in Seq(Line) /\ Len(e.recs) \in Int
  BY LinesAre DEF EntryType
<1>4. Paired(v, w)
  BY <1>2 DEF Advances
<1> HIDE DEF v, w
<1>5. Advances(w, WriteRecords(v, e.recs), WriteRecords(w, e.recs), Len(e.recs))
  BY <1>3, <1>4, RecordsAdvance
<1>6. Advances(b, WriteRecords(v, e.recs), WriteRecords(w, e.recs), 1 + Len(e.recs))
  BY <1>2, <1>3, <1>5, AdvancesTwice
<1> QED BY <1>6 DEF PreWrite, v, w
\* an entry that has registered a layer is a layer with a name
Proper(e) == e.info # 0 => e.table = "LAYER" /\ e.name # NoName
\* dimeLayerTable::write: one more than counted for a layer that has a name
\* And is not registered
LEMMA LayerAdvances ==
  ASSUME NEW a, NEW b, Paired(a, b), NEW e \in EntryType, e.table = "LAYER", Proper(e)
  PROVE  Advances(b, WriteLayer(a, e), WriteLayer(b, e),
                  CountLayer(e) + (IF Unregistered(e) THEN 1 ELSE 0))
<1> DEFINE v == PreWrite(a, e)
           w == PreWrite(b, e)
           Name(o) == IF e.name = NoName THEN o ELSE WriteUnchecked(o, Str(2, e.name))
           named == IF e.name = NoName THEN 0 ELSE 1
           x == Name(v)
           y == Name(w)
           x1 == WriteUnchecked(x, Num(62, e.color))
           y1 == WriteUnchecked(y, Num(62, e.color))
           n == Len(e.recs)
<1>1. n \in Nat
  BY LinesAre DEF EntryType
<1>2. Str(2, e.name) \in Line /\ Num(62, e.color) \in Line
  <2>1. e.name \in Texts
    BY DocumentAssumption DEF EntryType, Texts
  <2>2. e.color \in Int
    BY DEF EntryType
  <2> QED BY <2>1, <2>2, LinesAre
<1>3. Advances(b, v, w, 1 + n)
  BY PreWriteAdvances
<1>4. Paired(v, w)
  BY <1>3 DEF Advances
<1> HIDE DEF v, w, n
<1>5. Advances(w, x, y, named)
  <2>1. CASE e.name = NoName
    BY <2>1, <1>4, AdvancesNot
  <2>2. CASE e.name # NoName
    BY <2>2, <1>2, <1>4, RecordAdvances
  <2> QED BY <2>1, <2>2
<1>6. Paired(x, y)
  BY <1>5 DEF Advances
<1> HIDE DEF x, y
<1>7. Advances(y, x1, y1, 1)
  BY <1>2, <1>6, RecordAdvances
<1>8. Paired(x1, y1)
  BY <1>7 DEF Advances
<1> HIDE DEF x1, y1
<1>9. Advances(y1, Ignored(x1), Ignored(y1), 0)
  BY <1>8, IgnoredAdvances
<1> DEFINE x2 == Ignored(x1)
           y2 == Ignored(y1)
<1> HIDE DEF x2, y2
<1>10. named \in Int /\ 1 + n \in Int
  BY <1>1
<1> HIDE DEF named
<1>11. Advances(b, x, y, (1 + n) + named)
  BY <1>3, <1>5, <1>10, AdvancesTwice
<1>12. Advances(b, x1, y1, ((1 + n) + named) + 1)
  BY <1>10, <1>7, <1>11, AdvancesTwice
<1>13. Advances(b, x2, y2, (((1 + n) + named) + 1) + 0)
  BY <1>10, <1>9, <1>12, AdvancesTwice DEF x2, y2
<1>14. WriteLayer(a, e) = x2 /\ WriteLayer(b, e) = y2
  BY DEF WriteLayer, v, w, x, y, x1, y1, x2, y2
<1>15. (((1 + n) + named) + 1) + 0 = CountLayer(e) + (IF Unregistered(e) THEN 1 ELSE 0)
  <2>1. CountLayer(e) + (IF Unregistered(e) THEN 1 ELSE 0)
        = (2 + (IF e.info # 0 THEN 1 ELSE 0) + n)
          + (IF e.name # NoName /\ e.info = 0 THEN 1 ELSE 0)
    BY DEF CountLayer, Unregistered, IsLayer, n
  <2>2. e.info # 0 => e.name # NoName
    BY DEF Proper
  <2> QED BY <2>1, <2>2, <1>1 DEF named
<1> QED BY <1>13, <1>14, <1>15
\* what is written of an entry
EntrySize(e) == CountEntry(e) + (IF Unregistered(e) THEN 1 ELSE 0)
\* A turn of the loop over entries writes an entry.
LEMMA EntryAdvances ==
  ASSUME NEW e \in EntryType, Proper(e)
  PROVE  Paces("WriteEntry", e, EntrySize(e)) /\ CountEntry(e) \in Nat
<1>1. Len(e.recs) \in Nat
  BY LinesAre DEF EntryType
<1>2. CountEntry(e) \in Nat
  <2> DEFINE n == Len(e.recs)
             m == IF e.info # 0 THEN 1 ELSE 0
  <2>1. CountEntry(e) = IF e.table = "LAYER" THEN (2 + m) + n ELSE 1 + n
    BY DEF CountEntry, CountLayer
  <2>2. n \in Nat /\ m \in Nat
    BY <1>1
  <2> HIDE DEF n, m
  <2> QED BY <2>1, <2>2
<1>3. ASSUME NEW p, NEW q, Paired(p, q)
      PROVE  Advances(q, Turn("WriteEntry", 0, p, e), Turn("WriteEntry", 0, q, e), EntrySize(e))
  <2> DEFINE v == WriteEntry(p, e)
             w == WriteEntry(q, e)
             n == EntrySize(e)
             x == IF p.ok THEN v ELSE p
  <2>1. Advances(q, v, w, n)
    <3>1. CASE e.table = "LAYER"
      BY <3>1, <1>3, LayerAdvances DEF WriteEntry, CountEntry, EntrySize
    <3>2. CASE e.table # "LAYER"
      <4>1. n = 1 + Len(e.recs)
        BY <3>2, <1>1 DEF EntrySize, CountEntry, Unregistered, IsLayer
      <4>2. v = PreWrite(p, e) /\ w = PreWrite(q, e)
        BY <3>2 DEF WriteEntry
      <4> QED BY <1>3, <4>1, <4>2, PreWriteAdvances
    <3> QED BY <3>1, <3>2
  <2>2. Turn("WriteEntry", 0, p, e) = x /\ Turn("WriteEntry", 0, q, e) = w
    BY <1>3 DEF Turn, Counts, AndThen, Paired, Plain
  <2> HIDE DEF v, w, n
  <2>3. Advances(q, x, w, n)
    BY <1>3, <2>1, AdvancesOrNot
  <2> QED BY <2>2, <2>3 DEF n
<1> QED BY <1>2, <1>3 DEF Paces
\* dimeClass, dimeObject
LEMMA ObjectAdvances ==
  ASSUME NEW i \in ObjectType
  PROVE  Paces("WriteObject", i, CountObject(i)) /\ CountObject(i) \in Nat
<1> DEFINE n == Len(i.recs)
           r == Str(0, i.dxf)
<1>1. n \in Nat /\ i.recs \in Seq(Line) /\ r \in Line
  <2>1. i.dxf \in Texts /\ i.recs \in RecordSeq
    BY DEF ObjectType, Texts
  <2> QED BY <2>1, LinesAre
<1> HIDE DEF r
<1>2. CountObject(i) = 1 + n
  BY DEF CountObject
<1> HIDE DEF n
<1>3. ASSUME NEW p, NEW q, Paired(p, q)
      PROVE  Advances(q, Turn("WriteObject", 0, p, i), Turn("WriteObject", 0, q, i), 1 + n)
  <2> DEFINE v == WriteRecord(p, r)
             w == WriteRecord(q, r)
             x == WriteRecords(v, i.recs)
             y == WriteRecords(w, i.recs)
             x1 == IF v.ok THEN x ELSE v
             x2 == IF p.ok THEN x1 ELSE p
  <2>1. Advances(q, v, w, 1)
    BY <1>1, <1>3, RecordAdvances
  <2>2. Paired(v, w)
    BY <2>1 DEF Advances
  <2>3. Turn("WriteObject", 0, p, i) = x2 /\ Turn("WriteObject", 0, q, i) = y
    BY <1>3, <2>2 DEF Turn, Counts, AndThen, WriteObject, Paired, Plain, r
  <2> HIDE DEF v, w
  <2>4. Advances(w, x, y, n)
    BY <1>1, <2>2, RecordsAdvance DEF n
  <2> HIDE DEF x, y
  <2>5. Advances(w, x1, y, n)
    BY <2>2, <2>4, AdvancesOrNot
  <2> HIDE DEF x1
  <2>6. Advances(q, x1, y, 1 + n)
    BY <1>1, <1>3, <2>1, <2>5, AdvancesTwice
  <2>7. Advances(q, x2, y, 1 + n)
    BY <1>3, <2>6, AdvancesOrNot
  <2> QED BY <2>3, <2>7
<1> QED BY <1>1, <1>2, <1>3 DEF Paces
\* dimeUnknownClass::write: a class has five records of its own.
LEMMA ClassAdvances ==
  ASSUME NEW i \in ClassType
  PROVE  Paces("WriteClass", i, CountClass(i)) /\ CountClass(i) \in Nat
<1> DEFINE n == Len(i.recs)
           r == Str(9, i.dxf)
           name == IF i.name = NoName THEN "Default class name" ELSE i.name
           app == IF i.app = NoName THEN "Default app name" ELSE i.app
           own == <<Str(1, name), Str(2, app), Num(90, i.version), Num(280, i.flag1),
                    Num(281, i.flag2)>>
<1>1. n \in Nat /\ i.recs \in Seq(Line)
  BY LinesAre DEF ClassType
<1>2. name \in Texts /\ app \in Texts /\ i.dxf \in Texts
  BY DEF ClassType, Texts
<1> HIDE DEF name, app
<1>3. own \in Seq(Line) /\ Len(own) = 5 /\ r \in Line
  <2>1. Str(1, name) \in Line /\ Str(2, app) \in Line /\ r \in Line
    BY <1>2, LinesAre
  <2>2. Num(90, i.version) \in Line /\ Num(280, i.flag1) \in Line /\ Num(281, i.flag2) \in Line
    BY LinesAre DEF ClassType
  <2> QED BY <2>1, <2>2
<1>4. CountClass(i) = 1 + 5 + n
  BY DEF CountClass
<1> HIDE DEF n, r, own
<1>5. ASSUME NEW p, NEW q, Paired(p, q)
      PROVE  Advances(q, Turn("WriteClass", 0, p, i), Turn("WriteClass", 0, q, i), 1 + (5 + n))
  <2> DEFINE v == WriteRecord(p, r)
             w == WriteRecord(q, r)
             v1 == Fold(WriteUnchecked, v, own)
             w1 == Fold(WriteUnchecked, w, own)
             x == WriteRecords(v1, i.recs)
             y == WriteRecords(w1, i.recs)
             x1 == IF v.ok THEN x ELSE v
             x2 == IF p.ok THEN x1 ELSE p
  <2>1. Advances(q, v, w, 1)
    BY <1>3, <1>5, RecordAdvances
  <2>2. Paired(v, w)
    BY <2>1 DEF Advances
  <2>3. Turn("WriteClass", 0, p, i) = x2 /\ Turn("WriteClass", 0, q, i) = y
    BY <1>5, <2>2 DEF Turn, Counts, AndThen, WriteClass, Paired, Plain, r, own, name, app
  <2> HIDE DEF v, w
  <2>4. Advances(w, v1, w1, 5)
    BY <1>3, <2>2, RecordsAdvance
  <2>5. Paired(v1, w1)
    BY <2>4 DEF Advances
  <2> HIDE DEF v1, w1
  <2>6. Advances(w1, x, y, n)
    BY <1>1, <2>5, RecordsAdvance DEF n
  <2> HIDE DEF x, y
  <2>7. Advances(w, x, y, 5 + n)
    BY <1>1, <2>2, <2>4, <2>6, AdvancesTwice
  <2>8. Advances(w, x1, y, 5 + n)
    BY <2>2, <2>7, AdvancesOrNot
  <2> HIDE DEF x1
  <2>9. 5 + n \in Int
    BY <1>1
  <2>10. Advances(q, x1, y, 1 + (5 + n))
    BY <1>5, <2>1, <2>8, <2>9, AdvancesTwice
  <2>11. Advances(q, x2, y, 1 + (5 + n))
    BY <1>5, <2>10, AdvancesOrNot
  <2> QED BY <2>3, <2>11
<1>6. CountClass(i) = 1 + (5 + n)
  BY <1>1, <1>4
<1> QED BY <1>1, <1>5, <1>6 DEF Paces
\* The entries of a table
LEMMA EntriesAdvance ==
  ASSUME NEW entries \in Seq(EntryType), \A k \in DOMAIN entries : Proper(entries[k]),
         NEW a, NEW b, Paired(a, b), NEW n, n = CountEach(CountEntry, entries),
         NEW u, u = Cardinality({k \in DOMAIN entries : Unregistered(entries[k])})
  PROVE  /\ n \in Int /\ u \in Int
         /\ Advances(b, WriteEach(a, WriteEntry, entries), WriteEach(b, WriteEntry, entries), n + u)
<1> DEFINE l == Len(entries)
           U(k) == {j \in 1 .. k : Unregistered(entries[j])}
<1>1. l \in Nat /\ DOMAIN entries = 1 .. l
      /\ \A k \in 1 .. l : entries[k] \in EntryType /\ Proper(entries[k])
  OBVIOUS
<1>2. PICK r : Turns(r, "CountEntry", 0, entries) /\ r[l] = n
  BY EntriesCounted DEF Loop
<1>3. \A k \in 1 .. l : Count1("CountEntry", entries[k]) = CountEntry(entries[k])
                        /\ CountEntry(entries[k]) \in Nat
  BY <1>1, EntryAdvances DEF Count1
<1>4. \A k \in 0 .. l : r[k] \in Int
  <2>1. \A k \in 1 .. Len(entries) : Count1("CountEntry", entries[k]) \in Int
    BY <1>3
  <2> HIDE DEF l
  <2>2. Turns(r, "CountEntry", 0, entries)
    BY <1>2
  <2>3. "CountEntry" \in Counts
    BY DEF Counts
  <2> QED BY <2>1, <2>2, <2>3, CountsInt DEF l
<1>5. r[0] = 0 /\ \A k \in 1 .. l : r[k] = r[k - 1] + CountEntry(entries[k])
  BY <1>2, <1>3 DEF Turns, Turn, Counts
<1> HIDE DEF l
<1>6. ASSUME NEW k \in 0 .. l PROVE IsFiniteSet(U(k)) /\ Cardinality(U(k)) \in Nat
  <2>1. IsFiniteSet(1 .. k) /\ U(k) \subseteq 1 .. k
    BY <1>1, FS_Interval
  <2> QED BY <2>1, FS_Subset, FS_CardinalityType
<1>7. ASSUME NEW k \in 1 .. l
      PROVE  Cardinality(U(k)) - Cardinality(U(k - 1))
             = IF Unregistered(entries[k]) THEN 1 ELSE 0
  <2>1. k - 1 \in 0 .. l /\ k \in 0 .. l
    BY <1>1
  <2>2. IsFiniteSet(U(k - 1)) /\ Cardinality(U(k - 1)) \in Nat
    BY <2>1, <1>6
  <2>3. CASE Unregistered(entries[k])
    <3>1. U(k) = U(k - 1) \cup {k} /\ k \notin U(k - 1)
      BY <2>3, <1>1
    <3>2. Cardinality(U(k)) = Cardinality(U(k - 1)) + 1
      <4> DEFINE V == U(k - 1)
      <4> HIDE DEF V
      <4>1. IsFiniteSet(V) /\ k \notin V
        BY <2>2, <3>1 DEF V
      <4>2. Cardinality(V \cup {k}) = Cardinality(V) + 1
        BY <4>1, FS_AddElement
      <4> QED BY <4>2, <3>1 DEF V
    <3> DEFINE p == Cardinality(U(k))
               q == Cardinality(U(k - 1))
    <3>3. p = q + 1 /\ q \in Nat
      BY <2>2, <3>2
    <3> HIDE DEF p, q
    <3>4. p - q = 1
      BY <3>3
    <3> QED BY <2>3, <3>4 DEF p, q
  <2>4. CASE ~ Unregistered(entries[k])
    <3>1. U(k) = U(k - 1)
      BY <2>4, <1>1
    <3>2. Cardinality(U(k)) - Cardinality(U(k - 1)) = 0
      <4> DEFINE q == Cardinality(U(k - 1))
      <4>1. q \in Nat /\ Cardinality(U(k)) = q
        BY <2>2, <3>1
      <4> HIDE DEF q
      <4> QED BY <4>1 DEF q
    <3> QED BY <2>4, <3>2
  <2> QED BY <2>3, <2>4
<1>8. U(0) = {} /\ Cardinality(U(0)) = 0 /\ u = Cardinality(U(l))
  BY <1>1, FS_EmptySet
<1> DEFINE c == [k \in 0 .. l |-> r[k] + Cardinality(U(k))]
<1>9. \A k \in 0 .. l : c[k] = r[k] + Cardinality(U(k))
  OBVIOUS
<1> HIDE DEF U, c
<1>10. c[0] = 0 /\ n \in Int /\ u \in Int /\ c[l] = n + u
  BY <1>1, <1>2, <1>4, <1>5, <1>6, <1>8, <1>9
<1>11. ASSUME NEW k \in 1 .. l
       PROVE  c[k] \in Int /\ Paces("WriteEntry", entries[k], c[k] - c[k - 1])
  <2>1. k \in 0 .. l /\ k - 1 \in 0 .. l
    BY <1>1
  <2>2. c[k] - c[k - 1] = EntrySize(entries[k])
    <3> DEFINE p == Cardinality(U(k))
               q == Cardinality(U(k - 1))
               d == IF Unregistered(entries[k]) THEN 1 ELSE 0
               m == CountEntry(entries[k])
    <3>1. p \in Int /\ q \in Int /\ p - q = d
      BY <2>1, <1>6, <1>7
    <3>2. m \in Int /\ r[k] = r[k - 1] + m /\ r[k - 1] \in Int
      BY <2>1, <1>3, <1>4, <1>5
    <3>3. c[k] = r[k] + p /\ c[k - 1] = r[k - 1] + q
      BY <2>1, <1>9
    <3>4. d \in Int /\ EntrySize(entries[k]) = m + d
      BY DEF EntrySize
    <3> HIDE DEF p, q, d, m
    <3> QED BY <3>1, <3>2, <3>3, <3>4
  <2>3. Paces("WriteEntry", entries[k], EntrySize(entries[k]))
    BY <1>1, EntryAdvances
  <2>4. c[k] \in Int
    BY <2>1, <1>4, <1>6, <1>9
  <2> QED BY <2>2, <2>3, <2>4
<1>12. Pace("WriteEntry", entries, c)
  BY <1>10, <1>11 DEF Pace, l
<1> DEFINE v == WriteEach(a, WriteEntry, entries)
           w == WriteEach(b, WriteEntry, entries)
<1>13. Loop("WriteEntry", a, entries, v) /\ Loop("WriteEntry", b, entries, w)
  BY EntriesLoop
<1> HIDE DEF v, w
<1>14. Advances(b, v, w, c[l])
  BY <1>12, <1>13, LoopAdvances DEF l
<1> QED BY <1>10, <1>14 DEF v, w
\* Written next
LEMMA AdvancesOn ==
  ASSUME NEW a, NEW b, Paired(a, b), NEW v, NEW w, NEW n, n \in Int, Advances(b, v, w, n),
         NEW x, NEW y, NEW k, k \in Int, Advances(w, x, y, k)
  PROVE  Advances(b, x, y, n + k) /\ Paired(x, y) /\ n + k \in Int
<1>1. Advances(b, x, y, n + k)
  BY AdvancesTwice
<1> QED BY <1>1 DEF Advances
\* A table has a name that can be written.
LEMMA NamesAre ==
  ASSUME NEW t \in TableType
  PROVE  TableName(t) \in Texts /\ t.recs \in Seq(Line) /\ Len(t.recs) \in Nat
         /\ t.entries \in Seq(EntryType) /\ Len(t.entries) \in Nat
<1>1. t.name \in Texts /\ t.recs \in RecordSeq /\ t.entries \in Seq(EntryType)
  BY DEF TableType, Texts
<1>2. ASSUME t.entries # << >> PROVE t.entries[1].table \in Texts
  <2>1. t.entries[1] \in EntryType
    BY <1>1, <1>2
  <2> QED BY <2>1 DEF EntryType, Texts
<1>3. "(null)" \in Texts
  BY DEF Texts
<1>4. TableName(t) \in Texts
  BY <1>1, <1>2, <1>3 DEF TableName
<1> QED BY <1>1, <1>4, LinesAre
\* dimeTable::write
LEMMA TableAdvances ==
  ASSUME NEW t \in TableType, \A k \in DOMAIN t.entries : Proper(t.entries[k])
  PROVE  /\ Paces("WriteTable", t, CountTable(t) + TableOver(t))
         /\ CountTable(t) \in Int /\ TableOver(t) \in Int
<1> DEFINE l == Len(t.recs)
           e == CountEach(CountEntry, t.entries)
           u == Cardinality({k \in DOMAIN t.entries : Unregistered(t.entries[k])})
           r1 == Str(0, "TABLE")
           r2 == Str(2, TableName(t))
           r3 == Num(70, Len(t.entries))
           r4 == Str(0, "ENDTAB")
<1>1. l \in Int /\ t.recs \in Seq(Line) /\ t.entries \in Seq(EntryType)
  BY NamesAre
<1>2. r1 \in Line /\ r2 \in Line /\ r3 \in Line /\ r4 \in Line
  <2>1. "TABLE" \in Texts /\ "ENDTAB" \in Texts
    BY DEF Texts
  <2> QED BY <2>1, NamesAre, LinesAre
<1>3. CountTable(t) = 2 + l + e + 1 /\ TableOver(t) = 1 + u
  BY DEF CountTable, TableOver
<1> HIDE DEF l, e, u, r1, r2, r3, r4
<1>4. ASSUME NEW p, NEW q, Paired(p, q)
      PROVE  /\ e \in Int /\ u \in Int
             /\ Advances(q, Turn("WriteTable", 0, p, t), Turn("WriteTable", 0, q, t),
                         ((((1 + 1) + l) + 1) + (e + u)) + 1)
  <2> DEFINE v1 == WriteUnchecked(p, r1)
             w1 == WriteUnchecked(q, r1)
             v2 == WriteUnchecked(v1, r2)
             w2 == WriteUnchecked(w1, r2)
             v3 == WriteRecords(v2, t.recs)
             w3 == WriteRecords(w2, t.recs)
             x4 == WriteUnchecked(v3, r3)
             v4 == IF v3.ok THEN x4 ELSE v3
             w4 == WriteUnchecked(w3, r3)
             v5 == WriteEach(v4, WriteEntry, t.entries)
             w5 == WriteEach(w4, WriteEntry, t.entries)
             x6 == WriteUnchecked(v5, r4)
             v6 == IF v5.ok THEN x6 ELSE v5
             w6 == WriteUnchecked(w5, r4)
             v7 == IF p.ok THEN v6 ELSE p
  <2>1. Advances(q, v1, w1, 1)
    BY <1>2, <1>4, RecordAdvances
  <2>2. Paired(v1, w1)
    BY <2>1 DEF Advances
  <2> HIDE DEF v1, w1
  <2>3. Advances(w1, v2, w2, 1)
    BY <1>2, <2>2, RecordAdvances
  <2> HIDE DEF v2, w2
  <2>4. Advances(q, v2, w2, 1 + 1) /\ Paired(v2, w2) /\ 1 + 1 \in Int
    BY <1>4, <2>1, <2>3, AdvancesOn
  <2>5. Advances(w2, v3, w3, l)
    BY <1>1, <2>4, RecordsAdvance DEF l
  <2> HIDE DEF v3, w3
  <2>6. Advances(q, v3, w3, (1 + 1) + l) /\ Paired(v3, w3) /\ (1 + 1) + l \in Int
    BY <1>1, <1>4, <2>4, <2>5, AdvancesOn
  <2>7. Advances(w3, x4, w4, 1)
    BY <1>2, <2>6, RecordAdvances
  <2> HIDE DEF x4, w4
  <2>8. Advances(w3, v4, w4, 1)
    BY <2>6, <2>7, AdvancesOrNot
  <2> HIDE DEF v4
  <2>9. Advances(q, v4, w4, ((1 + 1) + l) + 1) /\ Paired(v4, w4)
        /\ ((1 + 1) + l) + 1 \in Int
    BY <1>4, <2>6, <2>8, AdvancesOn
  <2>10. e \in Int /\ u \in Int /\ Advances(w4, v5, w5, e + u)
    BY <1>1, <2>9, EntriesAdvance DEF e, u
  <2> HIDE DEF v5, w5
  <2>11. e + u \in Int
    BY <2>10
  <2>12. Advances(q, v5, w5, (((1 + 1) + l) + 1) + (e + u)) /\ Paired(v5, w5)
         /\ (((1 + 1) + l) + 1) + (e + u) \in Int
    BY <1>4, <2>9, <2>10, <2>11, AdvancesOn
  <2>13. Advances(w5, x6, w6, 1)
    BY <1>2, <2>12, RecordAdvances
  <2> HIDE DEF x6, w6
  <2>14. Advances(w5, v6, w6, 1)
    BY <2>12, <2>13, AdvancesOrNot
  <2> HIDE DEF v6
  <2>15. Advances(q, v6, w6, ((((1 + 1) + l) + 1) + (e + u)) + 1)
    BY <1>4, <2>12, <2>14, AdvancesOn
  <2>16. Advances(q, v7, w6, ((((1 + 1) + l) + 1) + (e + u)) + 1)
    BY <1>4, <2>15, AdvancesOrNot
  <2>17. q.ok = TRUE /\ w3.ok = TRUE /\ w5.ok = TRUE
    BY <1>4, <2>6, <2>12 DEF Paired, Plain
  <2>18. Turn("WriteTable", 0, p, t) = v7 /\ Turn("WriteTable", 0, q, t) = w6
    BY <2>17 DEF Turn, Counts, AndThen, WriteTable, r1, r2, r3, r4, v1, w1, v2, w2, v3, w3,
                 x4, v4, w4, v5, w5, x6, v6, w6
  <2> QED BY <2>10, <2>16, <2>18
<1>5. \E p, q : Paired(p, q)
  <2> DEFINE o == NewOutput(Never)
  <2>1. o \in Outputs /\ o.ok = TRUE /\ o.aborted = FALSE /\ o.refusal = Never
    BY DEF NewOutput, Outputs, Never
  <2> HIDE DEF o
  <2>2. Paired(o, o)
    BY <2>1, PlainPaired DEF Plain
  <2> QED BY <2>2
<1>6. e \in Int /\ u \in Int
  BY <1>4, <1>5
<1>7. CountTable(t) + TableOver(t) = ((((1 + 1) + l) + 1) + (e + u)) + 1
  BY <1>1, <1>3, <1>6
<1>8. CountTable(t) \in Int /\ TableOver(t) \in Int
  BY <1>1, <1>3, <1>6
<1> QED BY <1>4, <1>7, <1>8 DEF Paces
\* A loop over what has been counted by one or by two other loops
LEMMA LoopsCounted ==
  ASSUME NEW loop, NEW count \in Counts, NEW over \in Counts, NEW S, NEW items \in Seq(S), NEW a, NEW b, Paired(a, b),
         NEW v, NEW w, Loop(loop, a, items, v), Loop(loop, b, items, w),
         NEW n, Loop(count, 0, items, n), NEW u, Loop(over, 0, items, u),
         \A k \in 1 .. Len(items) :
           /\ Count1(count, items[k]) \in Int /\ Count1(over, items[k]) \in Int
           /\ Paces(loop, items[k], Count1(count, items[k]) + Count1(over, items[k]))
  PROVE  n \in Int /\ u \in Int /\ Advances(b, v, w, n + u)
<1> DEFINE l == Len(items)
<1>1. l \in Nat
  OBVIOUS
<1>2. PICK r : Turns(r, count, 0, items) /\ r[l] = n
  BY DEF Loop
<1>3. PICK s : Turns(s, over, 0, items) /\ s[l] = u
  BY DEF Loop
<1>4. \A k \in 0 .. l : r[k] \in Int
  BY <1>2, CountsInt
<1>5. \A k \in 0 .. l : s[k] \in Int
  BY <1>3, CountsInt
<1>6. \A k \in 1 .. l :
        /\ Count1(count, items[k]) \in Int /\ Count1(over, items[k]) \in Int
        /\ Paces(loop, items[k], Count1(count, items[k]) + Count1(over, items[k]))
  OBVIOUS
<1>7. /\ r[0] = 0 /\ \A k \in 1 .. l : r[k] = r[k - 1] + Count1(count, items[k])
      /\ s[0] = 0 /\ \A k \in 1 .. l : s[k] = s[k - 1] + Count1(over, items[k])
  BY <1>2, <1>3, TurnCounts DEF Turns
<1> HIDE DEF l
<1> DEFINE c == [k \in 0 .. l |-> r[k] + s[k]]
<1>8. \A k \in 0 .. l : c[k] = r[k] + s[k]
  OBVIOUS
<1> HIDE DEF c
<1>9. ASSUME NEW k \in 1 .. l
      PROVE  c[k] \in Int /\ Paces(loop, items[k], c[k] - c[k - 1])
  <2> DEFINE d == Count1(count, items[k])
             e == Count1(over, items[k])
  <2>1. k \in 0 .. l /\ k - 1 \in 0 .. l
    BY <1>1
  <2>2. /\ r[k] \in Int /\ r[k - 1] \in Int /\ r[k] = r[k - 1] + d /\ d \in Int
        /\ s[k] \in Int /\ s[k - 1] \in Int /\ s[k] = s[k - 1] + e /\ e \in Int
    BY <2>1, <1>4, <1>5, <1>6, <1>7
  <2>3. Paces(loop, items[k], d + e)
    BY <1>6
  <2>4. c[k] = r[k] + s[k] /\ c[k - 1] = r[k - 1] + s[k - 1]
    BY <2>1, <1>8
  <2> DEFINE x == r[k - 1]
             y == s[k - 1]
  <2> HIDE DEF d, e, x, y
  <2>5. c[k] = (x + d) + (y + e) /\ c[k - 1] = x + y
        /\ x \in Int /\ y \in Int /\ d \in Int /\ e \in Int
    BY <2>2, <2>4 DEF x, y
  <2>6. c[k] - c[k - 1] = d + e /\ c[k] \in Int
    BY <2>5
  <2> QED BY <2>3, <2>6
<1>10. c[0] = 0 /\ c[l] = n + u /\ n \in Int /\ u \in Int
  BY <1>1, <1>2, <1>3, <1>4, <1>5, <1>7, <1>8 DEF l
<1>11. Pace(loop, items, c)
  BY <1>9, <1>10 DEF Pace, l
<1>12. Advances(b, v, w, c[l])
  BY <1>11, LoopAdvances DEF l
<1> QED BY <1>10, <1>12
\* So does a loop over what one other loop has counted.
LEMMA LoopCounted ==
  ASSUME NEW loop, NEW count \in Counts, NEW S, NEW items \in Seq(S), NEW a, NEW b,
         Paired(a, b), NEW v, NEW w, Loop(loop, a, items, v), Loop(loop, b, items, w),
         NEW n, Loop(count, 0, items, n),
         \A k \in 1 .. Len(items) : Count1(count, items[k]) \in Int
                                    /\ Paces(loop, items[k], Count1(count, items[k]))
  PROVE  n \in Int /\ Advances(b, v, w, n)
<1> DEFINE r == [k \in 0 .. Len(items) |-> 0]
<1>1. \A x : Count1("Nothing", x) = 0
  BY DEF Count1
<1>2. "Nothing" \in Counts
  BY DEF Counts
<1>3. Loop("Nothing", 0, items, 0)
  <2>1. r[0] = 0 /\ r[Len(items)] = 0
        /\ \A k \in 1 .. Len(items) : r[k] = 0 /\ r[k - 1] = 0
    OBVIOUS
  <2> HIDE DEF r
  <2>2. \A x : Turn("Nothing", 0, 0, x) = 0
    BY <1>1, <1>2, TurnCounts
  <2>3. Turns(r, "Nothing", 0, items)
    BY <2>1, <2>2 DEF Turns
  <2> QED BY <2>1, <2>3 DEF Loop
<1>4. ASSUME NEW k \in 1 .. Len(items)
      PROVE  /\ Count1(count, items[k]) \in Int /\ Count1("Nothing", items[k]) \in Int
             /\ Paces(loop, items[k], Count1(count, items[k]) + Count1("Nothing", items[k]))
  <2> DEFINE d == Count1(count, items[k])
  <2>1. d \in Int /\ Paces(loop, items[k], d)
    OBVIOUS
  <2> HIDE DEF d
  <2>2. d + 0 = d
    BY <2>1
  <2> QED BY <1>1, <2>1, <2>2 DEF d
<1>5. n \in Int /\ Advances(b, v, w, n + 0)
  BY <1>2, <1>3, <1>4, LoopsCounted
<1>6. n + 0 = n
  BY <1>5
<1> QED BY <1>5, <1>6
\* What sections hold
LEMMA ItemsAdvance ==
  ASSUME NEW a, NEW b, Paired(a, b)
  PROVE  /\ \A items \in Seq(ClassType) : CountEach(CountClass, items) \in Int
              /\ Advances(b, WriteEach(a, WriteClass, items), WriteEach(b, WriteClass, items),
                          CountEach(CountClass, items))
         /\ \A items \in Seq(ObjectType) : CountEach(CountObject, items) \in Int
              /\ Advances(b, WriteEach(a, WriteObject, items), WriteEach(b, WriteObject, items),
                          CountEach(CountObject, items))
<1>1. ASSUME NEW items \in Seq(ClassType)
      PROVE  CountEach(CountClass, items) \in Int
              /\ Advances(b, WriteEach(a, WriteClass, items), WriteEach(b, WriteClass, items),
                          CountEach(CountClass, items))
  <2> DEFINE v == WriteEach(a, WriteClass, items)
             w == WriteEach(b, WriteClass, items)
             n == CountEach(CountClass, items)
  <2>1. Loop("WriteClass", a, items, v) /\ Loop("WriteClass", b, items, w)
    BY ClassesLoop
  <2>2. Loop("CountClass", 0, items, n)
    BY ClassesCounted
  <2> HIDE DEF v, w, n
  <2>3. ASSUME NEW k \in 1 .. Len(items)
        PROVE  Count1("CountClass", items[k]) \in Int
               /\ Paces("WriteClass", items[k], Count1("CountClass", items[k]))
    <3>1. items[k] \in ClassType
      OBVIOUS
    <3>2. Count1("CountClass", items[k]) = CountClass(items[k])
      BY DEF Count1
    <3> QED BY <3>1, <3>2, ClassAdvances
  <2>4. n \in Int /\ Advances(b, v, w, n)
    BY <2>1, <2>2, <2>3, LoopCounted DEF Counts
  <2> QED BY <2>4 DEF v, w, n
<1>2. ASSUME NEW items \in Seq(ObjectType)
      PROVE  CountEach(CountObject, items) \in Int
              /\ Advances(b, WriteEach(a, WriteObject, items), WriteEach(b, WriteObject, items),
                          CountEach(CountObject, items))
  <2> DEFINE v == WriteEach(a, WriteObject, items)
             w == WriteEach(b, WriteObject, items)
             n == CountEach(CountObject, items)
  <2>1. Loop("WriteObject", a, items, v) /\ Loop("WriteObject", b, items, w)
    BY ObjectsLoop
  <2>2. Loop("CountObject", 0, items, n)
    BY ObjectsCounted
  <2> HIDE DEF v, w, n
  <2>3. ASSUME NEW k \in 1 .. Len(items)
        PROVE  Count1("CountObject", items[k]) \in Int
               /\ Paces("WriteObject", items[k], Count1("CountObject", items[k]))
    <3>1. items[k] \in ObjectType
      OBVIOUS
    <3>2. Count1("CountObject", items[k]) = CountObject(items[k])
      BY DEF Count1
    <3> QED BY <3>1, <3>2, ObjectAdvances
  <2>4. n \in Int /\ Advances(b, v, w, n)
    BY <2>1, <2>2, <2>3, LoopCounted DEF Counts
  <2> QED BY <2>4 DEF v, w, n
<1> QED BY <1>1, <1>2
\* Each table writes one record more than is counted, and its unregistered layers.
LEMMA TablesAdvance ==
  ASSUME NEW a, NEW b, Paired(a, b), NEW items \in Seq(TableType),
         \A t \in DOMAIN items : \A k \in DOMAIN items[t].entries : Proper(items[t].entries[k]),
         NEW n, n = CountEach(CountTable, items), NEW u, u = CountEach(TableOver, items)
  PROVE  n \in Int /\ u \in Int
         /\ Advances(b, WriteEach(a, WriteTable, items), WriteEach(b, WriteTable, items), n + u)
<1> DEFINE v == WriteEach(a, WriteTable, items)
           w == WriteEach(b, WriteTable, items)
<1>1. Loop("WriteTable", a, items, v) /\ Loop("WriteTable", b, items, w)
  BY TablesLoop
<1>2. Loop("CountTable", 0, items, n) /\ Loop("TableOver", 0, items, u)
  BY TablesCounted, TablesOver
<1> HIDE DEF v, w
<1>3. ASSUME NEW k \in 1 .. Len(items)
      PROVE  /\ Count1("CountTable", items[k]) \in Int /\ Count1("TableOver", items[k]) \in Int
             /\ Paces("WriteTable", items[k],
                      Count1("CountTable", items[k]) + Count1("TableOver", items[k]))
  <2>1. items[k] \in TableType /\ \A j \in DOMAIN items[k].entries : Proper(items[k].entries[j])
    OBVIOUS
  <2>2. Count1("CountTable", items[k]) = CountTable(items[k])
        /\ Count1("TableOver", items[k]) = TableOver(items[k])
    BY DEF Count1
  <2> QED BY <2>1, <2>2, TableAdvances
<1>5. "CountTable" \in Counts /\ "TableOver" \in Counts
  BY DEF Counts
<1>4. n \in Int /\ u \in Int /\ Advances(b, v, w, n + u)
  BY <1>1, <1>2, <1>3, <1>5, LoopsCounted
<1> QED BY <1>4 DEF v, w
\* Writing begins with nothing, whatever will be refused.
LEMMA NewPaired ==
  ASSUME NEW refusal \in Int
  PROVE  Paired(NewOutput(refusal), NewOutput(Never)) /\ NewOutput(Never).numwrites = 0
<1> DEFINE v == NewOutput(refusal)
           w == NewOutput(Never)
<1>1. /\ v \in Outputs /\ v.ok = TRUE /\ v.lines = << >> /\ v.numwrites = 0
      /\ w \in Outputs /\ w.ok = TRUE /\ w.aborted = FALSE /\ w.refusal = Never
      /\ w.lines = << >> /\ w.numwrites = 0
  <2> DEFINE none == << >>
  <2>1. none \in Seq(Line)
    OBVIOUS
  <2> HIDE DEF none
  <2>2. /\ v = [lines |-> none, ok |-> TRUE, aborted |-> FALSE, numwrites |-> 0,
                refusal |-> refusal]
        /\ w = [lines |-> none, ok |-> TRUE, aborted |-> FALSE, numwrites |-> 0,
                refusal |-> Never]
    BY DEF NewOutput, none
  <2>3. Never \in Int
    BY DEF Never
  <2> HIDE DEF v, w
  <2> QED BY <2>1, <2>2, <2>3 DEF Outputs, none
<1> HIDE DEF v, w
<1> QED BY <1>1 DEF Paired, Plain, v, w
\* A section ends with one record, unless it was refused.
LEMMA EndSecAdvances ==
  ASSUME NEW a, NEW b, Paired(a, b)
  PROVE  Advances(b, EndSec(a), EndSec(b), 1)
<1> DEFINE r == Str(0, "ENDSEC")
           v == WriteUnchecked(a, r)
           w == WriteUnchecked(b, r)
           x == IF a.ok THEN v ELSE a
<1>1. r \in Line
  <2>1. "ENDSEC" \in Texts
    BY DEF Texts
  <2> QED BY <2>1, LinesAre
<1>2. EndSec(a) = x /\ EndSec(b) = w
  BY DEF EndSec, AndThen, Paired, Plain
<1> HIDE DEF r
<1>3. Advances(b, v, w, 1)
  BY <1>1, RecordAdvances
<1> HIDE DEF v, w
<1>4. Advances(b, x, w, 1)
  BY <1>3, AdvancesOrNot
<1> QED BY <1>2, <1>4
\* a section with its tables in order
Orderly(x) ==
  /\ IsSection(x)
  /\ x.kind = "tables" =>
       \A t \in DOMAIN x.items : \A k \in DOMAIN x.items[t].entries :
         Proper(x.items[t].entries[k])
\* The sections without items
LEMMA RecordsSection ==
  ASSUME NEW x, Orderly(x), x.kind \in {"header", "unknown"}, NEW a, NEW b, Paired(a, b)
  PROVE  Advances(b, WriteSection(a, x), WriteSection(b, x), CountSection(x))
         /\ CountSection(x) \in Int
<1> DEFINE r == Str(2, x.name)
           l == Len(x.recs)
           v1 == WriteRecord(a, r)
           w1 == WriteRecord(b, r)
           v2 == WriteRecords(v1, x.recs)
           w2 == WriteRecords(w1, x.recs)
<1>1. x.name \in Texts /\ x.recs \in RecordSeq
  BY DEF Orderly, IsSection, SectionType, Texts
<1>2. r \in Line /\ x.recs \in Seq(Line) /\ l \in Int
  BY <1>1, LinesAre
<1>3. /\ x.kind = "header" =>
           /\ WriteSection(a, x) = EndSec(v2) /\ WriteSection(b, x) = EndSec(w2)
           /\ CountSection(x) = l + 2
      /\ x.kind = "unknown" =>
           /\ WriteSection(a, x) = v2 /\ WriteSection(b, x) = w2
           /\ CountSection(x) = l + 1
  BY DEF WriteSection, WriteHeader, WriteUnknown, CountSection, CountHeader, CountUnknown
<1> HIDE DEF r, l
<1>4. Advances(b, v1, w1, 1)
  BY <1>2, RecordAdvances
<1>5. Paired(v1, w1)
  BY <1>4 DEF Advances
<1> HIDE DEF v1, w1
<1>6. Advances(w1, v2, w2, l)
  BY <1>2, <1>5, RecordsAdvance DEF l
<1> HIDE DEF v2, w2
<1>7. 1 \in Int
  OBVIOUS
<1>8. Advances(b, v2, w2, 1 + l) /\ Paired(v2, w2) /\ 1 + l \in Int
  BY <1>2, <1>4, <1>6, <1>7, AdvancesOn
<1>9. CASE x.kind = "header"
  <2>1. Advances(w2, EndSec(v2), EndSec(w2), 1)
    BY <1>8, EndSecAdvances
  <2> DEFINE v3 == EndSec(v2)
             w3 == EndSec(w2)
  <2> HIDE DEF v3, w3
  <2>2. Advances(b, v3, w3, (1 + l) + 1)
    BY <1>7, <1>8, <2>1, AdvancesOn DEF v3, w3
  <2>3. (1 + l) + 1 = l + 2 /\ l + 2 \in Int
    BY <1>2
  <2> QED BY <1>3, <1>9, <2>2, <2>3 DEF v3, w3
<1>10. CASE x.kind = "unknown"
  BY <1>2, <1>3, <1>8, <1>10
<1> QED BY <1>9, <1>10
\* Classes and objects
LEMMA ItemsSection ==
  ASSUME NEW x, Orderly(x), x.kind \in {"classes", "objects"}, NEW a, NEW b, Paired(a, b)
  PROVE  Advances(b, WriteSection(a, x), WriteSection(b, x), CountSection(x))
         /\ CountSection(x) \in Int
<1> DEFINE r == Str(2, x.name)
           v1 == WriteUnchecked(a, r)
           w1 == WriteUnchecked(b, r)
<1>1. x.name \in Texts
  BY DEF Orderly, IsSection, SectionType, Texts
<1>2. r \in Line
  BY <1>1, LinesAre
<1> HIDE DEF r
<1>3. Advances(b, v1, w1, 1)
  BY <1>2, RecordAdvances
<1>4. Paired(v1, w1)
  BY <1>3 DEF Advances
<1> HIDE DEF v1, w1
<1>5. PICK v2, w2, n : /\ n \in Int /\ Advances(w1, v2, w2, n) /\ CountSection(x) = n + 2
                       /\ WriteSection(a, x) = EndSec(v2) /\ WriteSection(b, x) = EndSec(w2)
  <2>1. CASE x.kind = "classes"
    <3> DEFINE v2 == WriteEach(v1, WriteClass, x.items)
               w2 == WriteEach(w1, WriteClass, x.items)
               n == CountEach(CountClass, x.items)
    <3>1. x.items \in Seq(ClassType)
      BY <2>1 DEF Orderly, IsSection, SectionType, ItemType
    <3>2. n \in Int /\ Advances(w1, v2, w2, n)
      BY <1>4, <3>1, ItemsAdvance
    <3>3. /\ CountSection(x) = n + 2
          /\ WriteSection(a, x) = EndSec(v2) /\ WriteSection(b, x) = EndSec(w2)
      BY <2>1 DEF WriteSection, WriteClasses, CountSection, CountClasses, v1, w1, r
    <3> HIDE DEF v2, w2, n
    <3> QED BY <3>2, <3>3
  <2>2. CASE x.kind = "objects"
    <3> DEFINE v2 == WriteEach(v1, WriteObject, x.items)
               w2 == WriteEach(w1, WriteObject, x.items)
               n == CountEach(CountObject, x.items)
    <3>1. x.items \in Seq(ObjectType)
      BY <2>2 DEF Orderly, IsSection, SectionType, ItemType
    <3>2. n \in Int /\ Advances(w1, v2, w2, n)
      BY <1>4, <3>1, ItemsAdvance
    <3>3. /\ CountSection(x) = n + 2
          /\ WriteSection(a, x) = EndSec(v2) /\ WriteSection(b, x) = EndSec(w2)
      BY <2>2 DEF WriteSection, WriteObjects, CountSection, CountObjects, v1, w1, r
    <3> HIDE DEF v2, w2, n
    <3> QED BY <3>2, <3>3
  <2> QED BY <2>1, <2>2
<1>6. 1 \in Int
  OBVIOUS
<1>7. Advances(b, v2, w2, 1 + n) /\ Paired(v2, w2) /\ 1 + n \in Int
  BY <1>3, <1>5, <1>6, AdvancesOn
<1>8. Advances(w2, EndSec(v2), EndSec(w2), 1)
  BY <1>7, EndSecAdvances
<1> DEFINE v3 == EndSec(v2)
           w3 == EndSec(w2)
<1> HIDE DEF v3, w3
<1>9. Advances(b, v3, w3, (1 + n) + 1)
  BY <1>6, <1>7, <1>8, AdvancesOn DEF v3, w3
<1>10. (1 + n) + 1 = n + 2 /\ n + 2 \in Int
  BY <1>5
<1> QED BY <1>5, <1>9, <1>10 DEF v3, w3
\* A section of tables writes what is counted and what its tables have over.
LEMMA TablesSection ==
  ASSUME NEW x, Orderly(x), x.kind = "tables", NEW a, NEW b, Paired(a, b)
  PROVE  /\ Advances(b, WriteSection(a, x), WriteSection(b, x),
                     CountSection(x) + SectionOver(x))
         /\ CountSection(x) \in Int /\ SectionOver(x) \in Int
<1> DEFINE r == Str(2, x.name)
           end == Str(0, "ENDSEC")
           v1 == WriteRecord(a, r)
           w1 == WriteRecord(b, r)
           v2 == WriteEach(v1, WriteTable, x.items)
           w2 == WriteEach(w1, WriteTable, x.items)
           v3 == WriteNext(v2, end)
           w3 == WriteNext(w2, end)
           n == CountEach(CountTable, x.items)
           u == CountEach(TableOver, x.items)
<1>1. x.name \in Texts /\ "ENDSEC" \in Texts
  BY DEF Orderly, IsSection, SectionType, Texts
<1>2. r \in Line /\ end \in Line
  BY <1>1, LinesAre
<1>3. /\ WriteSection(a, x) = v3 /\ WriteSection(b, x) = w3
      /\ CountSection(x) = n + 2 /\ SectionOver(x) = u
  BY DEF WriteSection, WriteTables, CountSection, CountTables, SectionOver
<1> HIDE DEF r, end, n, u
<1>4. Advances(b, v1, w1, 1)
  BY <1>2, RecordAdvances
<1>5. Paired(v1, w1)
  BY <1>4 DEF Advances
<1> HIDE DEF v1, w1
<1>6. x.items \in Seq(TableType)
  BY DEF Orderly, IsSection, SectionType, ItemType
<1>7. \A t \in DOMAIN x.items : \A k \in DOMAIN x.items[t].entries :
        Proper(x.items[t].entries[k])
  BY DEF Orderly
<1>8. n \in Int /\ u \in Int /\ Advances(w1, v2, w2, n + u)
  BY <1>5, <1>6, <1>7, TablesAdvance DEF n, u
<1> HIDE DEF v2, w2
<1>9. 1 \in Int /\ n + u \in Int
  BY <1>8
<1>10. Advances(b, v2, w2, 1 + (n + u)) /\ Paired(v2, w2) /\ 1 + (n + u) \in Int
  BY <1>4, <1>8, <1>9, AdvancesOn
<1>11. Advances(w2, v3, w3, 1)
  BY <1>2, <1>10, NextAdvances
<1> HIDE DEF v3, w3
<1>12. Advances(b, v3, w3, (1 + (n + u)) + 1)
  BY <1>9, <1>10, <1>11, AdvancesOn
<1>13. (1 + (n + u)) + 1 = (n + 2) + u /\ n + 2 \in Int
  BY <1>8
<1> QED BY <1>3, <1>8, <1>12, <1>13
\* dimeModel::write, for one section
LEMMA SectionAdvances ==
  ASSUME NEW x, Orderly(x)
  PROVE  /\ Count1("CountSection", x) \in Int /\ Count1("SectionOver", x) \in Int
         /\ Paces("WriteSection", x, Count1("CountSection", x) + Count1("SectionOver", x))
<1> DEFINE n == CountSection(x)
           u == SectionOver(x)
           r == Str(0, "SECTION")
<1>1. r \in Line
  <2>1. "SECTION" \in Texts
    BY DEF Texts
  <2> QED BY <2>1, LinesAre
<1> HIDE DEF r
<1>2. Count1("CountSection", x) = 1 + n /\ Count1("SectionOver", x) = u
  BY DEF Count1
<1>3. x.kind \in Kinds
  BY DEF Orderly, IsSection
<1>4. ASSUME NEW a, NEW b, Paired(a, b)
      PROVE  n \in Int /\ u \in Int
             /\ Advances(b, WriteSection(a, x), WriteSection(b, x), n + u)
  <2>1. CASE x.kind = "tables"
    BY <1>4, <2>1, TablesSection
  <2>2. CASE x.kind # "tables"
    <3>1. u = 0
      BY <2>2 DEF SectionOver
    <3>2. n \in Int /\ Advances(b, WriteSection(a, x), WriteSection(b, x), n)
      BY <1>3, <1>4, <2>2, RecordsSection, ItemsSection DEF Kinds
    <3>3. n + u = n
      BY <3>1, <3>2
    <3> QED BY <3>1, <3>2, <3>3
  <2> QED BY <2>1, <2>2
<1> HIDE DEF n, u
<1>5. n \in Int /\ u \in Int
  BY NewPaired, <1>4
<1>6. ASSUME NEW p, NEW q, Paired(p, q)
      PROVE  Advances(q, Turn("WriteSection", 0, p, x), Turn("WriteSection", 0, q, x), (1 + n) + u)
  <2> DEFINE v == WriteUnchecked(p, r)
             w == WriteUnchecked(q, r)
             y == WriteSection(v, x)
             z == WriteSection(w, x)
             y1 == IF p.ok THEN y ELSE p
  <2>1. Turn("WriteSection", 0, p, x) = y1 /\ Turn("WriteSection", 0, q, x) = z
    BY <1>6 DEF Turn, Counts, AndThen, Begun, Paired, Plain, r
  <2>2. Advances(q, v, w, 1)
    BY <1>1, <1>6, RecordAdvances
  <2>3. Paired(v, w)
    BY <2>2 DEF Advances
  <2> HIDE DEF v, w
  <2>4. Advances(w, y, z, n + u)
    BY <1>4, <2>3
  <2> HIDE DEF y, z
  <2>5. 1 \in Int /\ n + u \in Int
    BY <1>5
  <2>6. Advances(q, y, z, 1 + (n + u))
    BY <1>6, <2>2, <2>4, <2>5, AdvancesOn
  <2>7. Advances(q, y1, z, 1 + (n + u))
    BY <1>6, <2>6, AdvancesOrNot
  <2>8. 1 + (n + u) = (1 + n) + u
    BY <1>5
  <2> QED BY <2>1, <2>7, <2>8
<1>7. 1 + n \in Int
  BY <1>5
<1> QED BY <1>2, <1>5, <1>6, <1>7 DEF Paces
\* a file that is said to be written is whole
Concludes(v, w) == w.ok = TRUE /\ (v.ok => v.lines = w.lines)
\* The last record is not written after a refusal, and is written otherwise.
LEMMA LastRecord ==
  ASSUME NEW a, NEW b, Paired(a, b), NEW r \in Line
  PROVE  Concludes(WriteNext(a, r), WriteNext(b, r))
<1> DEFINE v == WriteGroupCode(a, r.code)
           w == WriteGroupCode(b, r.code)
           x == WriteValue(v, r)
           y == WriteValue(w, r)
           line == [code |-> 0 - 1, str |-> r.str, num |-> r.num]
<1>1. a \in Outputs /\ b \in Outputs /\ b.ok = TRUE /\ b.aborted = FALSE
  BY DEF Paired, Plain
<1>2. r.code \in Int
  BY DEF Line
<1>3. /\ w \in Outputs /\ w.ok = TRUE /\ w.lines = Append(b.lines, Num(r.code, 0))
  BY <1>1, <1>2, GroupCodeTyped
<1>4. /\ v \in Outputs
      /\ a.aborted = TRUE => v.ok = FALSE
      /\ a.aborted = FALSE => v.ok = TRUE /\ v.lines = Append(a.lines, Num(r.code, 0))
  BY <1>1, <1>2, GroupCodeTyped
<1>5. /\ WriteNext(b, r) = y
      /\ WriteNext(a, r) = IF a.ok THEN (IF v.ok THEN x ELSE v) ELSE a
  BY <1>1, <1>3 DEF WriteNext, WriteRecord, AndThen
<1> HIDE DEF v, w
<1>6. /\ x.ok = TRUE /\ x.lines = Append(v.lines, line)
      /\ y.ok = TRUE /\ y.lines = Append(w.lines, line)
  BY <1>3, <1>4, ValueTyped
<1> HIDE DEF x, y, line
<1>7. a.aborted \in BOOLEAN
  BY <1>1 DEF Outputs
<1> DEFINE z == IF a.ok THEN (IF v.ok THEN x ELSE v) ELSE a
<1>8. Concludes(z, y)
  <2>1. CASE a.aborted = TRUE
    <3>1. z.ok = FALSE
      BY <1>1, <1>4, <2>1 DEF Outputs
    <3> QED BY <3>1, <1>6 DEF Concludes
  <2>2. CASE a.aborted = FALSE
    <3>1. a.ok = TRUE /\ a.lines = b.lines
      BY <2>2 DEF Paired
    <3>2. z = x
      BY <1>4, <2>2, <3>1
    <3>3. x.lines = y.lines
      BY <1>3, <1>4, <1>6, <2>2, <3>1
    <3> QED BY <1>6, <3>2, <3>3 DEF Concludes
  <2> QED BY <1>7, <2>1, <2>2
<1> HIDE DEF z
<1> QED BY <1>5, <1>8 DEF z
\* dimeModel::write
LEMMA ModelWritten ==
  ASSUME NEW m, NEW S, m.sections \in Seq(S), m.comments \in RecordSeq,
         \A s \in DOMAIN m.sections : Orderly(m.sections[s]), NEW refusal \in Int
  PROVE  /\ Concludes(WriteModel(m, refusal), Whole(m))
         /\ Whole(m).numwrites = CountModel(m) + Len(m.comments)
                                 + CountEach(SectionOver, m.sections)
<1> DEFINE v0 == NewOutput(refusal)
           w0 == NewOutput(Never)
           v1 == Fold(WriteComment, v0, m.comments)
           w1 == Fold(WriteComment, w0, m.comments)
           v2 == WriteEach(v1, Begun, m.sections)
           w2 == WriteEach(w1, Begun, m.sections)
           r == Str(0, "EOF")
           v3 == WriteNext(v2, r)
           w3 == WriteNext(w2, r)
           l == Len(m.comments)
           n == CountEach(LAMBDA s : 1 + CountSection(s), m.sections)
           u == CountEach(SectionOver, m.sections)
<1>1. r \in Line
  <2>1. "EOF" \in Texts
    BY DEF Texts
  <2> QED BY <2>1, LinesAre
<1>2. WriteModel(m, refusal) = v3 /\ Whole(m) = w3
  BY DEF WriteModel, Whole, Begun, WriteEach
<1>3. CountModel(m) = n + 1
  BY DEF CountModel
<1>4. m.comments \in Seq(Line) /\ l \in Int
  BY LinesAre
<1> HIDE DEF r, l, n, u
<1>5. Paired(v0, w0) /\ w0.numwrites = 0
  BY NewPaired
<1> HIDE DEF v0, w0
<1>6. Advances(w0, v1, w1, l)
  BY <1>4, <1>5, RecordsAdvance DEF l
<1>7. Paired(v1, w1)
  BY <1>6 DEF Advances
<1> HIDE DEF v1, w1
<1>8. n \in Int /\ u \in Int /\ Advances(w1, v2, w2, n + u)
  <2>1. Loop("WriteSection", v1, m.sections, v2) /\ Loop("WriteSection", w1, m.sections, w2)
    BY SectionsLoop
  <2>2. Loop("CountSection", 0, m.sections, n) /\ Loop("SectionOver", 0, m.sections, u)
    BY SectionsCounted, SectionsOver DEF n, u
  <2> HIDE DEF v2, w2
  <2>3. ASSUME NEW k \in 1 .. Len(m.sections)
        PROVE  /\ Count1("CountSection", m.sections[k]) \in Int
               /\ Count1("SectionOver", m.sections[k]) \in Int
               /\ Paces("WriteSection", m.sections[k],
                        Count1("CountSection", m.sections[k])
                        + Count1("SectionOver", m.sections[k]))
    BY SectionAdvances
  <2> QED BY <1>7, <2>1, <2>2, <2>3, LoopsCounted DEF Counts
<1> HIDE DEF v2, w2
<1>9. n + u \in Int
  BY <1>8
<1>10. Advances(w0, v2, w2, l + (n + u)) /\ Paired(v2, w2) /\ l + (n + u) \in Int
  BY <1>4, <1>5, <1>6, <1>8, <1>9, AdvancesOn
<1>11. Advances(w2, v3, w3, 1)
  BY <1>1, <1>10, NextAdvances
<1>12. Concludes(v3, w3)
  BY <1>1, <1>10, LastRecord
<1> HIDE DEF v3, w3
<1>13. Advances(w0, v3, w3, (l + (n + u)) + 1)
  BY <1>5, <1>10, <1>11, AdvancesOn
<1>14. w3.numwrites = 0 + ((l + (n + u)) + 1)
  BY <1>5, <1>13 DEF Advances
<1>15. w3.numwrites = ((n + 1) + l) + u
  BY <1>4, <1>8, <1>14
<1> QED BY <1>2, <1>3, <1>12, <1>15 DEF l, u
\* In every sound model the writing is sound.
LEMMA WritingLawful == ModelIn(model, given, touched) => WritingSound
<1> SUFFICES ASSUME ModelIn(model, given, touched) PROVE WritingSound
  OBVIOUS
<1>1. model \in ModelType /\ LayersIn(model, touched)
  BY DEF ModelIn
<1>2. model.comments \in RecordSeq /\ model.sections \in Seq(AnySection)
      /\ model.layers \in Seq(LayerType)
  BY <1>1 DEF ModelType
<1>3. ASSUME NEW s \in DOMAIN model.sections PROVE Orderly(model.sections[s])
  <2>1. IsSection(model.sections[s])
    BY <1>2, SectionsAre
  <2>2. ASSUME model.sections[s].kind = "tables",
               NEW t \in DOMAIN model.sections[s].items,
               NEW k \in DOMAIN model.sections[s].items[t].entries
        PROVE  Proper(model.sections[s].items[t].entries[k])
    <3> DEFINE p == <<s, t, k>>
               e == model.sections[s].items[t].entries[k]
    <3>1. EntryIn(model, s, t, k)
      BY <2>2 DEF EntryIn, Tables
    <3>2. p \in Entries(model)
      BY <3>1, EntriesAre
    <3>3. EntryAt(model, p) = e
      BY DEF EntryAt
    <3> HIDE DEF p, e
    <3>4. e.info # 0 =>
            e.table = "LAYER" /\ e.info \in DOMAIN model.layers
            /\ model.layers[e.info].name = e.name
      BY <1>1, <3>2, <3>3 DEF LayersIn, EntryKnown
    <3>5. \A i \in DOMAIN model.layers : model.layers[i].name \in Keys
      <4>1. \A i \in DOMAIN model.layers : model.layers[i] \in LayerType
        BY <1>2
      <4> QED BY <4>1 DEF LayerType
    <3>6. NoName \notin Keys
      BY DocumentAssumption
    <3> QED BY <3>4, <3>5, <3>6 DEF Proper, e
  <2> QED BY <2>1, <2>2 DEF Orderly
<1>4. ASSUME NEW refusal \in Int
      PROVE  /\ Concludes(WriteModel(model, refusal), Whole(model))
             /\ Whole(model).numwrites = CountModel(model) + Len(model.comments)
                                         + CountEach(SectionOver, model.sections)
  BY <1>2, <1>3, ModelWritten
<1>5. WriteTrueMeansWhole
  <2>1. Whole(model).ok
    <3>1. Concludes(WriteModel(model, 0), Whole(model))
      BY <1>4
    <3> QED BY <3>1 DEF Concludes
  <2>2. ASSUME NEW call \in 0 .. Whole(model).numwrites
        PROVE  WriteModel(model, call).ok => WriteModel(model, call).lines = Whole(model).lines
    <3>1. Concludes(WriteModel(model, call), Whole(model))
      BY <1>4
    <3> QED BY <3>1 DEF Concludes
  <2> QED BY <2>1, <2>2 DEF WriteTrueMeansWhole
<1>6. CountAnnounced
  BY <1>4 DEF CountAnnounced
<1> QED BY <1>5, <1>6 DEF WritingSound
\* dimeModel::write() answers TRUE only for a whole file, whenever the progress
\* callback refuses, and writes what countRecords() says but for what is named.
THEOREM WritingIsSound == Spec => []WritingSound
  BY WritingLawful, ModelStays, PTL
=============================================================================
