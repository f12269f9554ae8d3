-------------------------------- MODULE Dict --------------------------------
(***************************************************************************)
(* dimeDict: the dictionary of strings behind a model's references and     *)
(* layers.  A dictionary is the sequence of entries that hang on each of   *)
(* its buckets, in the order of their links.                               *)
(***************************************************************************)
EXTENDS Integers, Sequences

CONSTANTS
  Keys,
  TableSize,   \* the buckets: 101 for layers, 17989 for references
  BucketNr     \* what bucketNr() computes from the letters of a key

ASSUME DictAssumption ==
  /\ TableSize \in Nat \ {0}
  /\ BucketNr \in [Keys -> Nat]

Buckets == 0 .. TableSize - 1

\* dimeDict::dimeDict and clear()
EmptyDict == [b \in Buckets |-> << >>]

Bucket(key) == BucketNr[key] % TableSize
Chain(d, key) == d[Bucket(key)]

FindEntry_NoCompare(d, key) == 1

\* dimeDict::findEntry: the first entry of the key, or the link that ends
\* the chain
FindEntry(d, key) ==
  CHOOSE i \in 1 .. Len(Chain(d, key)) + 1 :
    /\ i <= Len(Chain(d, key)) => Chain(d, key)[i].key = key
    /\ \A j \in 1 .. i - 1 : Chain(d, key)[j].key # key

\* dimeDict::find
Has(d, key) == FindEntry(d, key) <= Len(Chain(d, key))
Find(d, key) == Chain(d, key)[FindEntry(d, key)].value

\* dimeDict::enter: an entry that is there keeps its place
Enter(d, key, value) ==
  [d EXCEPT ![Bucket(key)] =
     IF Has(d, key) THEN [@ EXCEPT ![FindEntry(d, key)].value = value]
     ELSE Append(@, [key |-> key, value |-> value])]

\* dimeDict::remove: the link to the entry becomes the link after it
Removed(d, key) ==
  LET at == FindEntry(d, key)
  IN  IF ~ Has(d, key) THEN d
      ELSE [d EXCEPT ![Bucket(key)] =
              [i \in 1 .. Len(@) - 1 |-> @[IF i < at THEN i ELSE i + 1]]]
=============================================================================
