-------------------------- MODULE VrmlConvertProofs -------------------------
(***************************************************************************)
(* Proofs about VrmlConvert: for every set of entities and any number of   *)
(* conversions, the layers show exactly what was added to them, and the    *)
(* colours of an entity do not depend on what was converted before it; for *)
(* meshes of every size, the faces use each vertex and no other.           *)
(***************************************************************************)
EXTENDS VrmlConvert, Induction, SequenceTheorems

-----------------------------------------------------------------------------
(* Sequences.                                                                *)

LEMMA FunctionIsSeq ==
  ASSUME NEW S, NEW n \in Nat, NEW f \in [1 .. n -> S]
  PROVE  f \in Seq(S) /\ Len(f) = n /\ DOMAIN f = 1 .. n
<1>1. \A i \in 1 .. n : f[i] \in S
  OBVIOUS
<1>2. f = [i \in 1 .. n |-> f[i]]
  OBVIOUS
<1>. QED  BY <1>1, <1>2, SMT

\* The sequence that FlattenSeq() builds, one part after the other.
Flattening(ss, f) ==
  /\ DOMAIN f = 0 .. Len(ss)
  /\ f[0] = << >>
  /\ \A k \in 1 .. Len(ss) : f[k] = f[k - 1] \o ss[k]

LEMMA FlattenExists ==
  ASSUME NEW S, NEW ss \in Seq(Seq(S))
  PROVE  \E f \in [0 .. Len(ss) -> Seq(S)] :
           Flattening(ss, f) /\ FlattenSeq(ss) = f[Len(ss)]
<1>. DEFINE n == Len(ss)
            g == [k \in 1 .. n |-> [v \in Seq(S) |-> v \o ss[k]]]
<1>1. n \in Nat /\ << >> \in Seq(S) /\ \A k \in 1 .. n : ss[k] \in Seq(S)
  BY LenProperties, ElementOfSeq, EmptySeq
<1>2. g \in [1 .. n -> [Seq(S) -> Seq(S)]]
  <2>1. \A k \in 1 .. n : \A v \in Seq(S) : v \o ss[k] \in Seq(S)
    BY <1>1, ConcatProperties
  <2>. QED  BY <2>1
<1>3. PICK f \in [0 .. n -> Seq(S)] :
        f[0] = << >> /\ \A k \in 1 .. n : f[k] = g[k][f[k - 1]]
  <2>. DEFINE B == << >>
              Q == Seq(S)
  <2>1. n \in Nat /\ B \in Q /\ g \in [1 .. n -> [Q -> Q]]
    BY <1>1, <1>2
  <2>. HIDE DEF n, g, B, Q
  <2>2. \E f \in [0 .. n -> Q] : Follows(f, n, B, g)
    BY <2>1, Recursion
  <2>. QED  BY <2>2 DEF B, Q, Follows
<1>4. \A k \in 1 .. n : k - 1 \in 0 .. n
  BY <1>1
<1>5. \A k \in 1 .. n : f[k - 1] \in Seq(S)
  BY <1>4
<1>6. \A k \in 1 .. n : f[k] = f[k - 1] \o ss[k]
  BY <1>3, <1>5
<1>. HIDE DEF g
<1>7. Flattening(ss, f)
  BY <1>3, <1>6 DEF Flattening
<1>8. CASE n = 0
  BY <1>3, <1>7, <1>8, <1>1 DEF FlattenSeq
<1>9. CASE n # 0
  <2>. DEFINE Eq(h) == h = [i \in 1 .. n |-> IF i = 1 THEN ss[i] ELSE h[i - 1] \o ss[i]]
              h0 == [i \in 1 .. n |-> f[i]]
              h1 == CHOOSE h : Eq(h)
  <2>1. Eq(h0)
    <3>1. ASSUME NEW i \in 1 .. n
          PROVE  f[i] = IF i = 1 THEN ss[i] ELSE h0[i - 1] \o ss[i]
      <4>1. CASE i = 1
        <5>1. 1 \in 1 .. n /\ 1 - 1 = 0
          BY <4>1
        <5>2. f[1] = << >> \o ss[1]
          BY <1>3, <1>6, <5>1 DEF Follows
        <5>. QED  BY <5>1, <5>2, <4>1, <1>1, ConcatEmptySeq
      <4>2. CASE i # 1
        <5>1. i - 1 \in 1 .. n
          BY <1>1, <4>2
        <5>. QED  BY <5>1, <4>2, <1>6
      <4>. QED  BY <4>1, <4>2
    <3>. QED  BY <3>1
  <2>2. Eq(h1)
    <3>. HIDE DEF Eq, h0
    <3>. QED  BY <2>1
  <2>3. FlattenSeq(ss) = h1[n]
    BY <1>1, <1>9 DEF FlattenSeq
  <2>. HIDE DEF h0, h1
  <2>4. \A i \in 1 .. n : h1[i] = IF i = 1 THEN ss[i] ELSE h1[i - 1] \o ss[i]
    <3>. DEFINE r == [i \in 1 .. n |-> IF i = 1 THEN ss[i] ELSE h1[i - 1] \o ss[i]]
    <3>1. h1 = r
      BY <2>2
    <3>2. \A i \in 1 .. n : r[i] = IF i = 1 THEN ss[i] ELSE h1[i - 1] \o ss[i]
      OBVIOUS
    <3>. HIDE DEF r
    <3>. QED  BY <3>1, <3>2
  <2>. DEFINE T == {k \in 0 .. n : k = 0 \/ h1[k] = f[k]}
  <2>5. 0 \in T
    BY <1>1
  <2>6. ASSUME NEW k \in 1 .. n, k - 1 \in T PROVE k \in T
    <3>1. CASE k = 1
      <4>1. 1 \in 1 .. n /\ 1 - 1 = 0 /\ 1 \in 0 .. n
        BY <3>1
      <4>2. f[1] = << >> \o ss[1]
        BY <1>3, <1>6, <4>1
      <4>3. f[1] = h1[1]
        BY <2>4, <4>1, <4>2, <1>1, ConcatEmptySeq
      <4>. QED  BY <4>1, <4>3, <3>1
    <3>2. CASE k # 1
      <4>1. h1[k - 1] = f[k - 1] /\ k \in 0 .. n
        BY <2>6, <3>2
      <4>2. h1[k] = f[k]
        BY <4>1, <3>2, <2>4, <1>6
      <4>. QED  BY <4>1, <4>2
    <3>. QED  BY <3>1, <3>2
  <2>7. 0 .. n \subseteq T
    <3>. HIDE DEF T, n
    <3>. QED  BY <1>1, <2>5, <2>6, UpTo
  <2>8. h1[n] = f[n]
    BY <1>1, <1>9, <2>7
  <2>. QED  BY <2>3, <2>8, <1>7
<1>. QED  BY <1>8, <1>9

LEMMA FlattenType ==
  ASSUME NEW S, NEW ss \in Seq(Seq(S))
  PROVE  FlattenSeq(ss) \in Seq(S)
<1>1. PICK f \in [0 .. Len(ss) -> Seq(S)] :
           Flattening(ss, f) /\ FlattenSeq(ss) = f[Len(ss)]
  BY FlattenExists
<1>2. Len(ss) \in 0 .. Len(ss)
  BY LenProperties
<1>. QED  BY <1>1, <1>2

LEMMA FlattenEmpty == FlattenSeq(<< >>) = << >>
BY DEF FlattenSeq

\* One part more.
LEMMA FlattenAppend ==
  ASSUME NEW S, NEW ss \in Seq(Seq(S)), NEW s \in Seq(S)
  PROVE  FlattenSeq(Append(ss, s)) = FlattenSeq(ss) \o s
<1>. DEFINE tt == Append(ss, s)
            n == Len(ss)
<1>1. /\ tt \in Seq(Seq(S)) /\ Len(tt) = n + 1 /\ n \in Nat
      /\ tt[n + 1] = s /\ \A i \in 1 .. n : tt[i] = ss[i]
  BY AppendProperties, LenProperties
<1>. HIDE DEF tt
<1>2. PICK f \in [0 .. n -> Seq(S)] : Flattening(ss, f) /\ FlattenSeq(ss) = f[n]
  BY FlattenExists
<1>3. PICK h \in [0 .. Len(tt) -> Seq(S)] :
        Flattening(tt, h) /\ FlattenSeq(tt) = h[Len(tt)]
  BY <1>1, FlattenExists
<1>4. f[0] = h[0]
  BY <1>2, <1>3 DEF Flattening
<1>5. \A k \in 1 .. n : f[k - 1] = h[k - 1] => f[k] = h[k]
  <2>1. \A k \in 1 .. n : k \in 1 .. Len(tt)
    BY <1>1
  <2>. QED  BY <1>1, <1>2, <1>3, <2>1 DEF Flattening
<1>6. \A k \in 0 .. n : f[k] = h[k]
  <2>. DEFINE T == {k \in 0 .. n : f[k] = h[k]}
  <2>1. n \in Nat /\ 0 \in T
    BY <1>1, <1>4
  <2>2. \A k \in 1 .. n : k - 1 \in T => k \in T
    BY <1>5
  <2>. HIDE DEF n, T
  <2>3. 0 .. n \subseteq T
    BY <2>1, <2>2, UpTo
  <2>. QED  BY <2>3 DEF T
<1>7. h[n + 1] = h[(n + 1) - 1] \o tt[n + 1]
  <2>1. n + 1 \in 1 .. Len(tt)
    BY <1>1
  <2>. QED  BY <1>3, <2>1 DEF Flattening
<1>8. (n + 1) - 1 = n /\ n \in 0 .. n
  BY <1>1
<1>. QED  BY <1>1, <1>2, <1>3, <1>6, <1>7, <1>8 DEF tt

-----------------------------------------------------------------------------
(* The places of a layer.                                                    *)

NoRepeat(s) == \A i, j \in DOMAIN s : s[i] = s[j] => i = j
Extends(q, p) == Len(p) <= Len(q) /\ \A i \in 1 .. Len(p) : q[i] = p[i]
Listed(p, q) == \E i \in 1 .. Len(q) : q[i] = p

\* q is what places have become
Grown(P, q, places) == q \in Seq(P) /\ NoRepeat(q) /\ Extends(q, places)

LEMMA EnterOne ==
  ASSUME NEW P, NEW places \in Seq(P), NoRepeat(places), NEW p \in P
  PROVE  Grown(P, Entered(places, p), places) /\ Listed(p, Entered(places, p))
<1>1. Len(places) \in Nat /\ DOMAIN places = 1 .. Len(places)
  BY LenProperties
<1>2. CASE Contains(places, p)
  BY <1>1, <1>2 DEF Entered, Grown, Extends, Listed, Contains
<1>3. CASE ~Contains(places, p)
  <2>. DEFINE q == Append(places, p)
              n == Len(places)
  <2>1. /\ q \in Seq(P) /\ Len(q) = n + 1 /\ q[n + 1] = p
        /\ \A i \in 1 .. n : q[i] = places[i]
    BY AppendProperties
  <2>2. DOMAIN q = 1 .. n + 1
    BY <2>1, LenProperties
  <2>3. Entered(places, p) = q
    BY <1>3 DEF Entered
  <2>. HIDE DEF q
  <2>4. \A i \in 1 .. n : q[i] # p
    BY <1>3, <2>1 DEF Contains
  <2>5. NoRepeat(q)
    <3>. SUFFICES ASSUME NEW i \in 1 .. n + 1, NEW j \in 1 .. n + 1, q[i] = q[j]
                  PROVE  i = j
      BY <2>2 DEF NoRepeat
    <3>1. CASE i \in 1 .. n /\ j \in 1 .. n
      BY <1>1, <2>1, <3>1 DEF NoRepeat
    <3>2. CASE i \notin 1 .. n \/ j \notin 1 .. n
      <4>1. \A k \in 1 .. n + 1 : k \in 1 .. n \/ k = n + 1
        BY <1>1
      <4>. QED  BY <4>1, <3>2, <2>1, <2>4
    <3>. QED  BY <3>1, <3>2
  <2>6. n + 1 \in 1 .. n + 1 /\ n <= n + 1
    BY <1>1
  <2>7. Extends(q, places) /\ Listed(p, q)
    BY <2>1, <2>6 DEF Extends, Listed
  <2>. QED  BY <2>1, <2>3, <2>5, <2>7 DEF Grown
<1>. QED  BY <1>2, <1>3

LEMMA GrownTwice ==
  ASSUME NEW P, NEW r, NEW q, NEW places, places \in Seq(P),
         Grown(P, q, places), Grown(P, r, q)
  PROVE  Grown(P, r, places) /\ \A p : Listed(p, q) => Listed(p, r)
<1>1. Len(places) \in Nat /\ Len(q) \in Nat /\ Len(r) \in Nat
  BY LenProperties DEF Grown
<1>. QED  BY <1>1 DEF Grown, Extends, Listed

\* In a list without repetition a place has one number.
LEMMA NumberFound ==
  ASSUME NEW P, NEW places \in Seq(P), NoRepeat(places), NEW i \in 1 .. Len(places)
  PROVE  NumberOf(places, places[i]) = i
<1>. DEFINE I == {j \in 1 .. Len(places) : places[j] = places[i]}
<1>1. I = {i}
  BY LenProperties DEF NoRepeat
<1>2. NumberOf(places, places[i]) = IF I # {} THEN Min(I) ELSE 0
  BY DEF NumberOf, SelectInSeq
<1>3. Min({i}) = i
  BY DEF Min
<1>. QED  BY <1>1, <1>2, <1>3

LEMMA NumberListed ==
  ASSUME NEW P, NEW places \in Seq(P), NoRepeat(places), NEW p, Listed(p, places)
  PROVE  NumberOf(places, p) \in 1 .. Len(places) /\ places[NumberOf(places, p)] = p
<1>1. PICK i \in 1 .. Len(places) : places[i] = p
  BY DEF Listed
<1>. QED  BY <1>1, NumberFound

\* Entering a sequence of places one by one.
LEMMA EnterAll ==
  ASSUME NEW P, NEW places \in Seq(P), NoRepeat(places), NEW pts \in Seq(P)
  PROVE  /\ Grown(P, EnteredAll(places, pts), places)
         /\ \A k \in 1 .. Len(pts) : Listed(pts[k], EnteredAll(places, pts))
<1>. DEFINE n == Len(pts)
            Body(f, k) == IF k = 0 THEN places ELSE Entered(f[k - 1], pts[k])
            Eq(f) == f = [k \in 0 .. n |-> Body(f, k)]
            Q == Seq(P)
            g == [k \in 1 .. n |-> [v \in Q |-> Entered(v, pts[k])]]
            after == CHOOSE f : Eq(f)
<1>1. n \in Nat /\ \A k \in 1 .. n : pts[k] \in P
  BY LenProperties, ElementOfSeq
<1>2. g \in [1 .. n -> [Q -> Q]]
  <2>1. \A k \in 1 .. n, v \in Q : Entered(v, pts[k]) \in Q
    BY <1>1, AppendProperties DEF Entered
  <2>. HIDE DEF n, Q
  <2>. QED  BY <2>1
<1>3. PICK f \in [0 .. n -> Q] : Follows(f, n, places, g)
  <2>. HIDE DEF n, Q, g
  <2>1. n \in Nat /\ places \in Q
    BY <1>1 DEF Q
  <2>. QED  BY <1>2, <2>1, Recursion
<1>4. Eq(f)
  <2>1. ASSUME NEW k \in 0 .. n PROVE f[k] = Body(f, k)
    <3>1. CASE k = 0
      BY <1>3, <3>1 DEF Follows
    <3>2. CASE k # 0
      <4>1. k \in 1 .. n /\ k - 1 \in 0 .. n
        BY <1>1, <3>2
      <4>2. f[k - 1] \in Q
        BY <4>1
      <4>. HIDE DEF Q
      <4>. QED  BY <1>3, <3>2, <4>1, <4>2 DEF Follows
    <3>. QED  BY <3>1, <3>2
  <2>. HIDE DEF Body, Q, n
  <2>. QED  BY <2>1
<1>5. Eq(after)
  <2>. HIDE DEF Eq
  <2>. QED  BY <1>4
<1>6. EnteredAll(places, pts) = after[n]
  BY DEF EnteredAll
<1>. HIDE DEF after
<1>7. \A k \in 0 .. n : after[k] = Body(after, k)
  <2>. HIDE DEF Body, n
  <2>. DEFINE r == [k \in 0 .. n |-> Body(after, k)]
  <2>1. after = r
    BY <1>5
  <2>2. \A k \in 0 .. n : r[k] = Body(after, k)
    OBVIOUS
  <2>. HIDE DEF r
  <2>. QED  BY <2>1, <2>2
<1>. DEFINE T == {k \in 0 .. n : /\ Grown(P, after[k], places)
                                /\ \A i \in 1 .. k : Listed(pts[i], after[k])}
<1>8. 0 \in T
  <2>1. after[0] = places /\ 0 \in 0 .. n
    BY <1>1, <1>7
  <2>2. Grown(P, places, places)
    BY LenProperties DEF Grown, Extends
  <2>. QED  BY <2>1, <2>2
<1>9. ASSUME NEW k \in 1 .. n, k - 1 \in T PROVE k \in T
  <2>1. after[k] = Entered(after[k - 1], pts[k]) /\ k \in 0 .. n
    BY <1>1, <1>7
  <2>2. Grown(P, after[k - 1], places) /\ \A i \in 1 .. k - 1 : Listed(pts[i], after[k - 1])
    BY <1>9
  <2>3. Grown(P, after[k], after[k - 1]) /\ Listed(pts[k], after[k])
    BY <1>1, <2>1, <2>2, EnterOne DEF Grown
  <2>4. Grown(P, after[k], places) /\ \A p : Listed(p, after[k - 1]) => Listed(p, after[k])
    BY <2>2, <2>3, GrownTwice
  <2>5. \A i \in 1 .. k : i \in 1 .. k - 1 \/ i = k
    OBVIOUS
  <2>. QED  BY <2>1, <2>2, <2>3, <2>4, <2>5
<1>10. n \in T
  <2>1. n \in Nat
    BY <1>1
  <2>. HIDE DEF T, n
  <2>2. 0 .. n \subseteq T
    BY <2>1, <1>8, <1>9, UpTo
  <2>. QED  BY <2>1, <2>2
<1>. QED  BY <1>6, <1>10

-----------------------------------------------------------------------------
(* The strips of a layer.                                                    *)

\* strips of numbers of places, the last one not ended
Strips(places, lines) ==
  /\ lines \in Seq(0 .. Len(places))
  /\ lines # << >> => lines[Len(lines)] # End

LEMMA StrokeType ==
  ASSUME NEW P, NEW places \in Seq(P), NEW lines \in Seq(0 .. Len(places)),
         NEW k \in 1 .. Len(lines)
  PROVE  Stroke(places, lines, k) \in Seq(Seq(P))
<1>1. CASE k = 1 \/ lines[k] = End \/ lines[k - 1] = End
  <2>1. << >> \in Seq(Seq(P))
    BY EmptySeq
  <2>. QED  BY <1>1, <2>1 DEF Stroke
<1>2. CASE ~(k = 1 \/ lines[k] = End \/ lines[k - 1] = End)
  <2>1. Len(lines) \in Nat /\ Len(places) \in Nat
    BY LenProperties
  <2>2. k - 1 \in 1 .. Len(lines)
    BY <1>2, <2>1
  <2>3. lines[k] \in 1 .. Len(places) /\ lines[k - 1] \in 1 .. Len(places)
    BY <1>2, <2>1, <2>2, ElementOfSeq DEF End
  <2>4. places[lines[k]] \in P /\ places[lines[k - 1]] \in P
    BY <2>3, ElementOfSeq
  <2>5. <<places[lines[k - 1]], places[lines[k]]>> \in Seq(P)
    BY <2>4
  <2>. DEFINE line == <<places[lines[k - 1]], places[lines[k]]>>
              Q == Seq(P)
  <2>6. line \in Q
    BY <2>5
  <2>7. Stroke(places, lines, k) = <<line>>
    BY <1>2 DEF Stroke
  <2>. HIDE DEF line, Q
  <2>8. <<line>> \in Seq(Q)
    BY <2>6
  <2>. QED  BY <2>7, <2>8 DEF Q
<1>. QED  BY <1>1, <1>2

LEMMA DrawnType ==
  ASSUME NEW P, NEW places \in Seq(P), NEW lines \in Seq(0 .. Len(places))
  PROVE  /\ [k \in DOMAIN lines |-> Stroke(places, lines, k)] \in Seq(Seq(Seq(P)))
         /\ Len([k \in DOMAIN lines |-> Stroke(places, lines, k)]) = Len(lines)
         /\ DrawnLines(places, lines) \in Seq(Seq(P))
<1>. DEFINE f == [k \in DOMAIN lines |-> Stroke(places, lines, k)]
            Q == Seq(Seq(P))
<1>1. Len(lines) \in Nat /\ DOMAIN lines = 1 .. Len(lines)
  BY LenProperties
<1>2. \A k \in 1 .. Len(lines) : Stroke(places, lines, k) \in Q
  BY StrokeType
<1>3. f \in [1 .. Len(lines) -> Q]
  BY <1>1, <1>2
<1>. HIDE DEF f, Q
<1>4. f \in Seq(Q) /\ Len(f) = Len(lines)
  BY <1>1, <1>3, FunctionIsSeq
<1>5. FlattenSeq(f) \in Seq(Seq(P))
  BY <1>4, FlattenType DEF Q
<1>. QED  BY <1>4, <1>5 DEF f, Q, DrawnLines

\* New places do not change what is drawn.
LEMMA DrawnExtends ==
  ASSUME NEW P, NEW places \in Seq(P), NEW q \in Seq(P), Extends(q, places),
         NEW lines \in Seq(0 .. Len(places))
  PROVE  lines \in Seq(0 .. Len(q)) /\ DrawnLines(q, lines) = DrawnLines(places, lines)
<1>1. /\ Len(lines) \in Nat /\ DOMAIN lines = 1 .. Len(lines)
      /\ Len(places) \in Nat /\ Len(q) \in Nat /\ Len(places) <= Len(q)
  BY LenProperties DEF Extends
<1>2. \A k \in 1 .. Len(lines) : lines[k] \in 0 .. Len(places)
  BY ElementOfSeq
<1>3. ASSUME NEW k \in 1 .. Len(lines) PROVE Stroke(q, lines, k) = Stroke(places, lines, k)
  <2>1. CASE k = 1 \/ lines[k] = End \/ lines[k - 1] = End
    BY <2>1 DEF Stroke
  <2>2. CASE ~(k = 1 \/ lines[k] = End \/ lines[k - 1] = End)
    <3>1. k - 1 \in 1 .. Len(lines)
      BY <1>1, <2>2
    <3>2. lines[k] \in 1 .. Len(places) /\ lines[k - 1] \in 1 .. Len(places)
      BY <1>1, <1>2, <2>2, <3>1 DEF End
    <3>. QED  BY <3>2 DEF Stroke, Extends
  <2>. QED  BY <2>1, <2>2
<1>4. [k \in DOMAIN lines |-> Stroke(q, lines, k)] = [k \in DOMAIN lines |-> Stroke(places, lines, k)]
  BY <1>1, <1>3
<1>5. 0 .. Len(places) \subseteq 0 .. Len(q)
  BY <1>1
<1>. QED  BY <1>4, <1>5, SeqMonotonic DEF DrawnLines

\* One number more.
LEMMA DrawnAppend ==
  ASSUME NEW P, NEW places \in Seq(P), NEW lines \in Seq(0 .. Len(places)),
         NEW j \in 0 .. Len(places)
  PROVE  /\ Append(lines, j) \in Seq(0 .. Len(places))
         /\ DrawnLines(places, Append(lines, j))
              = DrawnLines(places, lines) \o Stroke(places, Append(lines, j), Len(lines) + 1)
<1>. DEFINE all == Append(lines, j)
            n == Len(lines)
            f == [k \in DOMAIN lines |-> Stroke(places, lines, k)]
            h == [k \in DOMAIN all |-> Stroke(places, all, k)]
            s == Stroke(places, all, n + 1)
            Q == Seq(Seq(P))
<1>1. n \in Nat /\ DOMAIN lines = 1 .. n
  BY LenProperties
<1>2. /\ all \in Seq(0 .. Len(places)) /\ Len(all) = n + 1
      /\ all[n + 1] = j /\ \A i \in 1 .. n : all[i] = lines[i]
  BY AppendProperties
<1>3. DOMAIN all = 1 .. n + 1
  BY <1>2, LenProperties
<1>. HIDE DEF all
<1>4. \A k \in 1 .. n : Stroke(places, all, k) = Stroke(places, lines, k)
  <2>1. ASSUME NEW k \in 1 .. n PROVE Stroke(places, all, k) = Stroke(places, lines, k)
    <3>1. k = 1 \/ k - 1 \in 1 .. n
      BY <1>1
    <3>. QED  BY <1>2, <3>1 DEF Stroke
  <2>. QED  BY <2>1
<1>5. f \in Seq(Q) /\ Len(f) = n /\ \A k \in 1 .. n : f[k] = Stroke(places, lines, k)
  BY <1>1, DrawnType
<1>6. h \in Seq(Q) /\ Len(h) = n + 1
        /\ \A k \in 1 .. n + 1 : h[k] = Stroke(places, all, k)
  BY <1>2, <1>3, DrawnType
<1>7. s \in Q
  <2>1. n + 1 \in 1 .. Len(all)
    BY <1>1, <1>2
  <2>. QED  BY <1>2, <2>1, StrokeType
<1>8. h = Append(f, s)
  <2>. DEFINE t == Append(f, s)
  <2>. HIDE DEF f, h, s, Q
  <2>1. /\ t \in Seq(Q) /\ Len(t) = n + 1 /\ t[n + 1] = s
        /\ \A i \in 1 .. n : t[i] = f[i]
    BY <1>5, <1>7, AppendProperties
  <2>2. \A i \in 1 .. n + 1 : i \in 1 .. n \/ i = n + 1
    BY <1>1
  <2>3. \A i \in 1 .. n + 1 : h[i] = t[i]
    BY <1>4, <1>5, <1>6, <2>1, <2>2 DEF s
  <2>. HIDE DEF t
  <2>4. h = t
    BY <1>6, <2>1, <2>3, SeqEqual
  <2>. QED  BY <2>4 DEF t
<1>9. FlattenSeq(h) = FlattenSeq(f) \o s
  <2>1. f \in Seq(Seq(Seq(P))) /\ s \in Seq(Seq(P))
    BY <1>5, <1>7
  <2>. HIDE DEF f, h, s, Q
  <2>. QED  BY <1>8, <2>1, FlattenAppend
<1>. QED  BY <1>2, <1>9 DEF all, DrawnLines

LEMMA AppendTwo ==
  ASSUME NEW S, NEW s \in Seq(S), NEW a \in S, NEW b \in S
  PROVE  s \o <<a, b>> = Append(Append(s, a), b)
<1>1. <<a, b>> \in Seq(S) /\ Len(<<a, b>>) = 2
  OBVIOUS
<1>2. /\ s \o <<a, b>> \in Seq(S) /\ Len(s \o <<a, b>>) = Len(s) + 2
      /\ \A i \in 1 .. Len(s) + 2 :
           (s \o <<a, b>>)[i] = IF i <= Len(s) THEN s[i] ELSE <<a, b>>[i - Len(s)]
  BY <1>1, ConcatProperties
<1>. DEFINE t == Append(s, a)
            u == Append(t, b)
<1>3. t \in Seq(S) /\ Len(t) = Len(s) + 1 /\ t[Len(s) + 1] = a
        /\ \A i \in 1 .. Len(s) : t[i] = s[i]
  BY AppendProperties
<1>. HIDE DEF t
<1>4. u \in Seq(S) /\ Len(u) = Len(t) + 1 /\ u[Len(t) + 1] = b
        /\ \A i \in 1 .. Len(t) : u[i] = t[i]
  BY <1>3, AppendProperties
<1>. HIDE DEF u
<1>5. Len(s) \in Nat
  BY LenProperties
<1>6. \A i \in 1 .. Len(s) + 2 : (s \o <<a, b>>)[i] = u[i]
  <2>. SUFFICES ASSUME NEW i \in 1 .. Len(s) + 2 PROVE (s \o <<a, b>>)[i] = u[i]
    OBVIOUS
  <2>1. CASE i <= Len(s)
    BY <1>2, <1>3, <1>4, <1>5, <2>1
  <2>2. CASE i = Len(s) + 1
    <3>1. i - Len(s) = 1 /\ i \in 1 .. Len(t)
      BY <1>3, <1>5, <2>2
    <3>. QED  BY <1>2, <1>3, <1>4, <1>5, <2>2, <3>1
  <2>3. CASE i = Len(s) + 2
    <3>1. i - Len(s) = 2 /\ i = Len(t) + 1
      BY <1>3, <1>5, <2>3
    <3>. QED  BY <1>2, <1>4, <1>5, <2>3, <3>1
  <2>. QED  BY <1>5, <2>1, <2>2, <2>3
<1>7. s \o <<a, b>> = u
  <2>1. Len(s) + 2 = Len(u)
    BY <1>3, <1>4, <1>5
  <2>. QED  BY <1>2, <1>4, <1>6, <2>1, SeqEqual
<1>. QED  BY <1>7 DEF t, u

\* addLine() draws one line more, whether it continues a strip or begins one.
LEMMA LineJoins ==
  ASSUME NEW P, NEW places \in Seq(P), NEW lines, Strips(places, lines),
         NEW i \in 1 .. Len(places), NEW j \in 1 .. Len(places)
  PROVE  /\ Strips(places, Joined(lines, i, j))
         /\ DrawnLines(places, Joined(lines, i, j))
              = DrawnLines(places, lines) \o <<<<places[i], places[j]>>>>
<1>. DEFINE N == 0 .. Len(places)
            line == <<<<places[i], places[j]>>>>
            n == Len(lines)
            D(s) == DrawnLines(places, s)
<1>1. /\ Len(places) \in Nat /\ n \in Nat /\ lines \in Seq(N)
      /\ i \in N /\ j \in N /\ 0 \in N /\ i # 0 /\ j # 0
  BY LenProperties DEF Strips
<1>. HIDE DEF N
<1>2. D(lines) \in Seq(Seq(P))
  BY <1>1, DrawnType DEF N
<1>3. ASSUME NEW s \in Seq(N), s # << >>, s[Len(s)] = i
      PROVE  /\ Strips(places, Append(s, j))
             /\ D(Append(s, j)) = D(s) \o line
  <2>1. D(Append(s, j)) = D(s) \o Stroke(places, Append(s, j), Len(s) + 1)
    BY <1>1, DrawnAppend DEF N
  <2>2. /\ Append(s, j) \in Seq(N) /\ Len(Append(s, j)) = Len(s) + 1
        /\ Append(s, j)[Len(s) + 1] = j /\ Append(s, j)[Len(s)] = i
        /\ Len(s) \in Nat \ {0}
    <3>1. Len(s) \in Nat \ {0}
      BY <1>3, EmptySeq
    <3>2. Len(s) \in 1 .. Len(s)
      BY <3>1
    <3>. QED  BY <1>1, <1>3, <3>1, <3>2, AppendProperties
  <2>3. (Len(s) + 1) - 1 = Len(s) /\ Len(s) + 1 # 1
    BY <2>2
  <2>4. Stroke(places, Append(s, j), Len(s) + 1) = line
    BY <1>1, <2>2, <2>3 DEF Stroke, End
  <2>. QED  BY <1>1, <2>1, <2>2, <2>4 DEF Strips, N, End
<1>4. ASSUME NEW s \in Seq(N), s = << >> \/ s[Len(s)] = End
      PROVE  Append(s, i) \in Seq(N) /\ D(Append(s, i)) = D(s)
  <2>1. D(Append(s, i)) = D(s) \o Stroke(places, Append(s, i), Len(s) + 1)
          /\ Append(s, i) \in Seq(N) /\ D(s) \in Seq(Seq(P))
    BY <1>1, DrawnAppend, DrawnType DEF N
  <2>2. Stroke(places, Append(s, i), Len(s) + 1) = << >>
    <3>1. CASE s = << >>
      BY <3>1 DEF Stroke
    <3>2. CASE s # << >>
      <4>1. Len(s) \in Nat \ {0}
        BY <3>2, EmptySeq
      <4>2. Len(s) \in 1 .. Len(s) /\ (Len(s) + 1) - 1 = Len(s)
        BY <4>1
      <4>3. Append(s, i)[Len(s)] = End
        BY <1>1, <1>4, <3>2, <4>2, AppendProperties
      <4>. QED  BY <4>2, <4>3 DEF Stroke
    <3>. QED  BY <3>1, <3>2
  <2>. QED  BY <2>1, <2>2, ConcatEmptySeq
<1>5. ASSUME NEW s \in Seq(N), s = << >> \/ s[Len(s)] = End
      PROVE  /\ Strips(places, s \o <<i, j>>)
             /\ D(s \o <<i, j>>) = D(s) \o line
  <2>. DEFINE t == Append(s, i)
  <2>1. s \o <<i, j>> = Append(t, j)
    BY <1>1, AppendTwo
  <2>2. t \in Seq(N) /\ t # << >> /\ t[Len(t)] = i /\ D(t) = D(s)
    BY <1>1, <1>4, <1>5, AppendProperties
  <2>. HIDE DEF t, D
  <2>. QED  BY <1>3, <2>1, <2>2
<1>6. CASE lines # << >> /\ Last(lines) = i
  <2>1. Joined(lines, i, j) = Append(lines, j)
    BY <1>6 DEF Joined
  <2>. HIDE DEF D
  <2>2. Strips(places, Append(lines, j)) /\ D(Append(lines, j)) = D(lines) \o line
    BY <1>1, <1>3, <1>6 DEF Last
  <2>. QED  BY <2>1, <2>2 DEF D
<1>7. CASE lines = << >>
  <2>1. Joined(lines, i, j) = << >> \o <<i, j>>
    BY <1>7 DEF Joined
  <2>. HIDE DEF D
  <2>2. Strips(places, << >> \o <<i, j>>) /\ D(<< >> \o <<i, j>>) = D(lines) \o line
    BY <1>1, <1>5, <1>7
  <2>. QED  BY <2>1, <2>2 DEF D
<1>8. CASE lines # << >> /\ Last(lines) # i
  <2>. DEFINE s == Append(lines, End)
  <2>1. Joined(lines, i, j) = s \o <<i, j>>
    BY <1>8 DEF Joined
  <2>2. s \in Seq(N) /\ Len(s) = n + 1 /\ s[Len(s)] = End
    BY <1>1, AppendProperties DEF End
  <2>3. D(s) = D(lines)
    <3>1. D(s) = D(lines) \o Stroke(places, s, n + 1)
      BY <1>1, DrawnAppend DEF N, End
    <3>2. Stroke(places, s, n + 1) = << >>
      BY <2>2 DEF Stroke
    <3>. QED  BY <1>2, <3>1, <3>2, ConcatEmptySeq
  <2>. HIDE DEF D, s
  <2>4. Strips(places, s \o <<i, j>>) /\ D(s \o <<i, j>>) = D(s) \o line
    BY <1>5, <2>2
  <2>. QED  BY <2>1, <2>3, <2>4 DEF D
<1>. QED  BY <1>6, <1>7, <1>8

-----------------------------------------------------------------------------
(* The faces of a layer.                                                     *)

SeenSet(P) == [ended : Seq(Seq(P)), corners : Seq(P)]

LEMMA SeeType ==
  ASSUME NEW P, NEW places \in Seq(P), NEW before \in SeenSet(P),
         NEW number \in 0 .. Len(places)
  PROVE  See(places, before, number) \in SeenSet(P)
<1>. DEFINE Q == Seq(P)
<1>1. before \in [ended : Seq(Q), corners : Q]
  BY DEF SeenSet
<1>2. << >> \in Q
  BY EmptySeq
<1>3. number # End => Append(before.corners, places[number]) \in Q
  <2>1. ASSUME number # End PROVE places[number] \in P
    <3>1. number \in 1 .. Len(places)
      BY <2>1, LenProperties DEF End
    <3>. QED  BY <3>1, ElementOfSeq
  <2>. QED  BY <1>1, <2>1, AppendProperties
<1>. HIDE DEF Q
<1>4. Append(before.ended, before.corners) \in Seq(Q)
  BY <1>1, AppendProperties
<1>5. See(places, before, number) \in [ended : Seq(Q), corners : Q]
  BY <1>1, <1>2, <1>3, <1>4 DEF See
<1>. QED  BY <1>5 DEF SeenSet, Q

\* What is seen after each number.
Seeing(places, faces, f) ==
  /\ f[0] = NothingSeen
  /\ \A k \in 1 .. Len(faces) : f[k] = See(places, f[k - 1], faces[k])

LEMMA SeenExists ==
  ASSUME NEW P, NEW places \in Seq(P), NEW faces \in Seq(0 .. Len(places))
  PROVE  \E f \in [0 .. Len(faces) -> SeenSet(P)] :
           Seeing(places, faces, f) /\ Seen(places, faces) = f[Len(faces)]
<1>. DEFINE n == Len(faces)
            Q == SeenSet(P)
            Body(f, k) == IF k = 0 THEN NothingSeen ELSE See(places, f[k - 1], faces[k])
            Eq(f) == f = [k \in 0 .. n |-> Body(f, k)]
            g == [k \in 1 .. n |-> [v \in Q |-> See(places, v, faces[k])]]
            seen == CHOOSE f : Eq(f)
<1>1. n \in Nat /\ \A k \in 1 .. n : faces[k] \in 0 .. Len(places)
  BY LenProperties, ElementOfSeq
<1>2. NothingSeen \in Q
  BY EmptySeq DEF NothingSeen, SeenSet
<1>3. g \in [1 .. n -> [Q -> Q]]
  <2>1. \A k \in 1 .. n, v \in Q : See(places, v, faces[k]) \in Q
    BY <1>1, SeeType
  <2>. HIDE DEF n, Q
  <2>. QED  BY <2>1
<1>. HIDE DEF Q
<1>4. PICK f \in [0 .. n -> Q] : Follows(f, n, NothingSeen, g)
  <2>1. n \in Nat
    BY <1>1
  <2>. HIDE DEF n, g
  <2>. QED  BY <1>2, <1>3, <2>1, Recursion
<1>5. Eq(f)
  <2>1. ASSUME NEW k \in 0 .. n PROVE f[k] = Body(f, k)
    <3>1. CASE k = 0
      BY <1>4, <3>1 DEF Follows
    <3>2. CASE k # 0
      <4>1. k \in 1 .. n /\ k - 1 \in 0 .. n
        BY <1>1, <3>2
      <4>2. f[k - 1] \in Q
        BY <4>1
      <4>. QED  BY <1>4, <3>2, <4>1, <4>2 DEF Follows
    <3>. QED  BY <3>1, <3>2
  <2>. HIDE DEF Body, n
  <2>. QED  BY <2>1
<1>6. Eq(seen)
  <2>. HIDE DEF Eq
  <2>. QED  BY <1>5
<1>7. Seen(places, faces) = seen[n]
  BY DEF Seen
<1>. HIDE DEF seen
<1>8. \A k \in 0 .. n : seen[k] = Body(seen, k)
  <2>. HIDE DEF Body, n
  <2>. DEFINE r == [k \in 0 .. n |-> Body(seen, k)]
  <2>1. seen = r
    BY <1>6
  <2>2. \A k \in 0 .. n : r[k] = Body(seen, k)
    OBVIOUS
  <2>. HIDE DEF r
  <2>. QED  BY <2>1, <2>2
<1>9. Seeing(places, faces, seen)
  BY <1>1, <1>8 DEF Seeing
<1>. DEFINE T == {k \in 0 .. n : seen[k] \in Q}
<1>10. 0 \in T
  BY <1>1, <1>2, <1>8
<1>11. ASSUME NEW k \in 1 .. n, k - 1 \in T PROVE k \in T
  <2>1. seen[k] = See(places, seen[k - 1], faces[k]) /\ k \in 0 .. n
    BY <1>1, <1>8
  <2>2. seen[k - 1] \in SeenSet(P)
    BY <1>11 DEF Q
  <2>3. seen[k] \in SeenSet(P)
    BY <1>1, <2>1, <2>2, SeeType
  <2>. QED  BY <2>1, <2>3 DEF Q
<1>12. 0 .. n \subseteq T
  <2>1. n \in Nat
    BY <1>1
  <2>. HIDE DEF n, T
  <2>. QED  BY <2>1, <1>10, <1>11, UpTo
<1>13. seen \in [0 .. n -> Q]
  <2>1. seen = [k \in 0 .. n |-> seen[k]]
    <3>. HIDE DEF Body, n
    <3>. QED  BY <1>6, <1>8
  <2>2. \A k \in 0 .. n : seen[k] \in Q
    BY <1>12
  <2>. HIDE DEF n
  <2>. QED  BY <2>1, <2>2
<1>. QED  BY <1>7, <1>9, <1>13 DEF Q

LEMMA SeenType ==
  ASSUME NEW P, NEW places \in Seq(P), NEW faces \in Seq(0 .. Len(places))
  PROVE  Seen(places, faces) \in SeenSet(P)
<1>1. PICK f \in [0 .. Len(faces) -> SeenSet(P)] :
           Seeing(places, faces, f) /\ Seen(places, faces) = f[Len(faces)]
  BY SeenExists
<1>2. Len(faces) \in 0 .. Len(faces)
  BY LenProperties
<1>. QED  BY <1>1, <1>2

LEMMA SeenEmpty == \A places : Seen(places, << >>) = NothingSeen
<1>. SUFFICES ASSUME NEW places PROVE Seen(places, << >>) = NothingSeen
  OBVIOUS
<1>. DEFINE Eq(f) == f = [k \in 0 .. Len(<< >>) |->
                           IF k = 0 THEN NothingSeen ELSE See(places, f[k - 1], << >>[k])]
            seen == CHOOSE f : Eq(f)
            f0 == [k \in 0 .. 0 |-> NothingSeen]
<1>1. Eq(f0)
  OBVIOUS
<1>2. Eq(seen)
  <2>. HIDE DEF Eq, f0
  <2>. QED  BY <1>1
<1>3. Seen(places, << >>) = seen[0]
  BY DEF Seen
<1>. HIDE DEF seen
<1>. QED  BY <1>2, <1>3

\* The same numbers of the same places are seen the same.
LEMMA SeenAlike ==
  ASSUME NEW P, NEW places \in Seq(P), NEW q \in Seq(P), Extends(q, places),
         NEW faces \in Seq(0 .. Len(places)), NEW all \in Seq(0 .. Len(q)),
         Extends(all, faces), NEW f, NEW h,
         Seeing(places, faces, f), Seeing(q, all, h)
  PROVE  h[Len(faces)] = f[Len(faces)]
<1>. DEFINE n == Len(faces)
            T == {k \in 0 .. n : h[k] = f[k]}
<1>1. n \in Nat /\ Len(all) \in Nat /\ n <= Len(all) /\ Len(places) \in Nat
  BY LenProperties DEF Extends
<1>2. 0 \in T
  BY <1>1 DEF Seeing
<1>3. ASSUME NEW k \in 1 .. n, k - 1 \in T PROVE k \in T
  <2>1. k \in 1 .. Len(all) /\ k \in 0 .. n
    BY <1>1
  <2>2. f[k] = See(places, f[k - 1], faces[k]) /\ h[k] = See(q, h[k - 1], faces[k])
    BY <2>1 DEF Seeing, Extends
  <2>3. h[k - 1] = f[k - 1]
    BY <1>3
  <2>4. faces[k] \in 0 .. Len(places)
    BY ElementOfSeq
  <2>5. faces[k] # End => q[faces[k]] = places[faces[k]]
    BY <1>1, <2>4 DEF Extends, End
  <2>. QED  BY <2>1, <2>2, <2>3, <2>5 DEF See
<1>4. n \in T
  <2>1. n \in Nat /\ n \in 0 .. n
    BY <1>1
  <2>. HIDE DEF n, T
  <2>2. 0 .. n \subseteq T
    BY <2>1, <1>2, <1>3, UpTo
  <2>. QED  BY <2>1, <2>2
<1>. QED  BY <1>4

\* New places do not change what is seen.
LEMMA SeenExtends ==
  ASSUME NEW P, NEW places \in Seq(P), NEW q \in Seq(P), Extends(q, places),
         NEW faces \in Seq(0 .. Len(places))
  PROVE  faces \in Seq(0 .. Len(q)) /\ Seen(q, faces) = Seen(places, faces)
<1>1. 0 .. Len(places) \subseteq 0 .. Len(q)
  BY LenProperties DEF Extends
<1>2. faces \in Seq(0 .. Len(q))
  BY <1>1, SeqMonotonic
<1>3. PICK f \in [0 .. Len(faces) -> SeenSet(P)] :
           Seeing(places, faces, f) /\ Seen(places, faces) = f[Len(faces)]
  BY SeenExists
<1>4. PICK h \in [0 .. Len(faces) -> SeenSet(P)] :
           Seeing(q, faces, h) /\ Seen(q, faces) = h[Len(faces)]
  BY <1>2, SeenExists
<1>5. Extends(faces, faces)
  BY LenProperties DEF Extends
<1>6. h[Len(faces)] = f[Len(faces)]
  BY <1>2, <1>3, <1>4, <1>5, SeenAlike
<1>. QED  BY <1>2, <1>3, <1>4, <1>6

\* One number more.
LEMMA SeenAppend ==
  ASSUME NEW P, NEW places \in Seq(P), NEW faces \in Seq(0 .. Len(places)),
         NEW j \in 0 .. Len(places)
  PROVE  /\ Append(faces, j) \in Seq(0 .. Len(places))
         /\ Seen(places, Append(faces, j)) = See(places, Seen(places, faces), j)
<1>. DEFINE all == Append(faces, j)
            n == Len(faces)
<1>1. /\ n \in Nat /\ all \in Seq(0 .. Len(places)) /\ Len(all) = n + 1
      /\ all[n + 1] = j /\ \A i \in 1 .. n : all[i] = faces[i]
  BY AppendProperties, LenProperties
<1>. HIDE DEF all
<1>2. PICK f \in [0 .. n -> SeenSet(P)] :
           Seeing(places, faces, f) /\ Seen(places, faces) = f[n]
  BY SeenExists
<1>3. PICK h \in [0 .. Len(all) -> SeenSet(P)] :
           Seeing(places, all, h) /\ Seen(places, all) = h[Len(all)]
  BY <1>1, SeenExists
<1>4. Extends(all, faces) /\ Extends(places, places)
  BY <1>1, LenProperties DEF Extends
<1>5. h[n] = f[n]
  BY <1>1, <1>2, <1>3, <1>4, SeenAlike
<1>6. n + 1 \in 1 .. Len(all) /\ (n + 1) - 1 = n
  BY <1>1
<1>7. h[n + 1] = See(places, h[n], j)
  BY <1>1, <1>3, <1>6 DEF Seeing
<1>. QED  BY <1>1, <1>2, <1>3, <1>5, <1>7 DEF all

LEMMA FirstOnes ==
  ASSUME NEW S, NEW t \in Seq(S)
  PROVE  /\ SubSeq(t, 1, 0) = << >>
         /\ SubSeq(t, 1, Len(t)) = t
         /\ \A k \in 0 .. Len(t) : SubSeq(t, 1, k) \in Seq(S) /\ Len(SubSeq(t, 1, k)) = k
         /\ \A k \in 1 .. Len(t) : /\ t[k] \in S
                                   /\ SubSeq(t, 1, k) = Append(SubSeq(t, 1, k - 1), t[k])
<1>1. Len(t) \in Nat /\ \A k \in 1 .. Len(t) : t[k] \in S
  BY LenProperties, ElementOfSeq
<1>2. SubSeq(t, 1, 0) = << >> /\ SubSeq(t, 1, Len(t)) = t
  BY SubSeqEmpty, SubSeqFull
<1>3. ASSUME NEW k \in 0 .. Len(t)
      PROVE  SubSeq(t, 1, k) \in Seq(S) /\ Len(SubSeq(t, 1, k)) = k
  <2>1. k \in Int /\ 1 \in Int /\ \A i \in 1 .. k : t[i] \in S
    BY <1>1
  <2>2. /\ SubSeq(t, 1, k) \in Seq(S)
        /\ Len(SubSeq(t, 1, k)) = IF 1 <= k THEN k - 1 + 1 ELSE 0
    BY <2>1, SubSeqProperties
  <2>. QED  BY <2>1, <2>2
<1>4. ASSUME NEW k \in 1 .. Len(t)
      PROVE  SubSeq(t, 1, k) = Append(SubSeq(t, 1, k - 1), t[k])
  <2>1. 1 \in 1 .. Len(t) /\ k \in 1 .. Len(t) /\ k - 1 \in 0 .. Len(t)
    BY <1>1
  <2>2. SubSeq(t, 1, k) = SubSeq(t, 1, k - 1) \o <<t[k]>>
    BY <2>1, SubSeqRecursiveSecond
  <2>3. Append(SubSeq(t, 1, k - 1), t[k]) = SubSeq(t, 1, k - 1) \o <<t[k]>>
    BY <1>1, <1>3, <2>1, AppendIsConcat
  <2>. QED  BY <2>2, <2>3
<1>. QED  BY <1>1, <1>2, <1>3, <1>4

LEMMA ConcatStep ==
  ASSUME NEW S, NEW s \in Seq(S), NEW t \in Seq(S), NEW k \in 1 .. Len(t)
  PROVE  s \o SubSeq(t, 1, k) = Append(s \o SubSeq(t, 1, k - 1), t[k])
<1>. DEFINE u == SubSeq(t, 1, k - 1)
<1>1. k - 1 \in 0 .. Len(t)
  BY LenProperties
<1>2. u \in Seq(S) /\ t[k] \in S /\ SubSeq(t, 1, k) = Append(u, t[k])
  BY <1>1, FirstOnes
<1>. HIDE DEF u
<1>3. Append(u, t[k]) = u \o <<t[k]>> /\ Append(s \o u, t[k]) = (s \o u) \o <<t[k]>>
  BY <1>2, AppendIsConcat, ConcatProperties
<1>4. <<t[k]>> \in Seq(S)
  BY <1>2
<1>5. (s \o u) \o <<t[k]>> = s \o (u \o <<t[k]>>)
  BY SMTT(60), <1>2, <1>4, ConcatAssociative
<1>. QED  BY <1>2, <1>3, <1>5 DEF u

LEMMA SeeEnd ==
  \A places, r : /\ See(places, r, End).ended = Append(r.ended, r.corners)
                 /\ See(places, r, End).corners = << >>
BY DEF See

LEMMA SeeCorner ==
  ASSUME NEW P, NEW places, NEW r \in SeenSet(P), NEW number, number # End
  PROVE  /\ See(places, r, number).ended = r.ended
         /\ See(places, r, number).corners = Append(r.corners, places[number])
<1>. DEFINE c == Append(r.corners, places[number])
<1>1. See(places, r, number) = [r EXCEPT !.corners = c]
  BY DEF See
<1>. HIDE DEF c
<1>2. [r EXCEPT !.corners = c].ended = r.ended /\ [r EXCEPT !.corners = c].corners = c
  BY DEF SeenSet
<1>. QED  BY <1>1, <1>2 DEF c

AllListed(pts, q) == \A k \in 1 .. Len(pts) : Listed(pts[k], q)
Face(q, pts) == [k \in DOMAIN pts |-> NumberOf(q, pts[k])]

WithFace(all, faces, q, pts) == all = Append(faces \o Face(q, pts), End)

\* The numbers of a face and its end draw it after the others.
LEMMA FaceJoins ==
  ASSUME NEW P, NEW q \in Seq(P), NoRepeat(q), NEW faces \in Seq(0 .. Len(q)),
         Seen(q, faces).corners = << >>,
         NEW pts \in Seq(P), AllListed(pts, q),
         NEW all, WithFace(all, faces, q, pts)
  PROVE  /\ all \in Seq(0 .. Len(q))
         /\ Seen(q, all).corners = << >>
         /\ DrawnFaces(q, all) = Append(DrawnFaces(q, faces), pts)
<1>. DEFINE N == 0 .. Len(q)
            n == Len(pts)
            face == Face(q, pts)
            ended == Seen(q, faces).ended
            upto(k) == faces \o SubSeq(face, 1, k)
            T == {k \in 0 .. n : /\ upto(k) \in Seq(N)
                                 /\ Seen(q, upto(k)).ended = ended
                                 /\ Seen(q, upto(k)).corners = SubSeq(pts, 1, k)}
<1>1. n \in Nat /\ DOMAIN pts = 1 .. n /\ Len(q) \in Nat /\ 0 \in N
  BY LenProperties
<1>2. \A k \in 1 .. n : NumberOf(q, pts[k]) \in 1 .. Len(q) /\ q[NumberOf(q, pts[k])] = pts[k]
  BY NumberListed DEF AllListed
<1>3. face \in Seq(N) /\ Len(face) = n /\ DOMAIN face = 1 .. n
  <2>1. face \in [1 .. n -> N]
    BY <1>1, <1>2 DEF Face
  <2>. HIDE DEF face, N, n
  <2>. QED  BY <1>1, <2>1, FunctionIsSeq
<1>4. ended \in Seq(Seq(P))
  BY SeenType DEF SeenSet
<1>5. \A k \in 1 .. n : face[k] = NumberOf(q, pts[k])
  BY <1>1 DEF Face
<1>. HIDE DEF face, N
<1>6. 0 \in T
  <2>1. SubSeq(face, 1, 0) = << >> /\ SubSeq(pts, 1, 0) = << >>
    BY <1>3, FirstOnes
  <2>2. upto(0) = faces /\ faces \in Seq(N)
    BY <2>1, ConcatEmptySeq DEF N
  <2>3. Seen(q, upto(0)).ended = ended /\ Seen(q, upto(0)).corners = SubSeq(pts, 1, 0)
    BY <2>1, <2>2
  <2>. HIDE DEF upto
  <2>. QED  BY <1>1, <2>2, <2>3
<1>7. ASSUME NEW k \in 1 .. n, k - 1 \in T PROVE k \in T
  <2>1. k \in 0 .. n /\ k - 1 \in 0 .. n /\ k \in 1 .. Len(face)
    BY <1>1, <1>3
  <2>2. upto(k) = Append(upto(k - 1), face[k])
    BY <1>3, <2>1, ConcatStep DEF N
  <2>. DEFINE w == upto(k - 1)
              v == upto(k)
              c == SubSeq(pts, 1, k - 1)
  <2>3. w \in Seq(N) /\ Seen(q, w).ended = ended /\ Seen(q, w).corners = c
    BY <1>7
  <2>4. face[k] \in N /\ face[k] # End /\ q[face[k]] = pts[k]
    BY <1>1, <1>2, <1>5 DEF N, End
  <2>5. SubSeq(pts, 1, k) = Append(c, pts[k])
    BY FirstOnes
  <2>6. v = Append(w, face[k])
    BY <2>2
  <2>. HIDE DEF w, c, v, ended
  <2>7. v \in Seq(N) /\ Seen(q, v) = See(q, Seen(q, w), face[k])
    BY <2>3, <2>4, <2>6, SeenAppend DEF N
  <2>8. Seen(q, w) \in SeenSet(P)
    BY <2>3, SeenType DEF N
  <2>9. /\ See(q, Seen(q, w), face[k]).ended = Seen(q, w).ended
        /\ See(q, Seen(q, w), face[k]).corners = Append(Seen(q, w).corners, q[face[k]])
    <3>. DEFINE r == Seen(q, w)
                j == face[k]
    <3>1. r \in SeenSet(P) /\ j # End
      BY <2>4, <2>8
    <3>. HIDE DEF r, j
    <3>2. /\ See(q, r, j).ended = r.ended
          /\ See(q, r, j).corners = Append(r.corners, q[j])
      BY <3>1, SeeCorner
    <3>. QED  BY <3>2 DEF r, j
  <2>10. Seen(q, v).ended = ended /\ Seen(q, v).corners = SubSeq(pts, 1, k)
    BY <2>3, <2>4, <2>5, <2>7, <2>9
  <2>. QED  BY <2>1, <2>7, <2>10 DEF v
<1>8. n \in T
  <2>1. n \in Nat /\ n \in 0 .. n
    BY <1>1
  <2>. HIDE DEF n, T
  <2>2. 0 .. n \subseteq T
    BY <2>1, <1>6, <1>7, UpTo
  <2>. QED  BY <2>1, <2>2
<1>. DEFINE w == upto(n)
<1>9. w \in Seq(N) /\ Seen(q, w).ended = ended /\ Seen(q, w).corners = pts
  BY <1>8, FirstOnes
<1>10. w = faces \o face
  BY <1>3, FirstOnes
<1>11. all = Append(w, End)
  BY <1>10 DEF face, WithFace
<1>. HIDE DEF w
<1>12. all \in Seq(N) /\ Seen(q, all) = See(q, Seen(q, w), End)
  BY <1>1, <1>9, <1>11, SeenAppend DEF N, End
<1>13. Seen(q, w) \in SeenSet(P)
  BY <1>9, SeenType DEF N
<1>. HIDE DEF ended
<1>14. Seen(q, all).ended = Append(ended, pts) /\ Seen(q, all).corners = << >>
  BY <1>9, <1>12, SeeEnd
<1>. QED  BY <1>12, <1>14 DEF DrawnFaces, ended, N
-----------------------------------------------------------------------------
(* A layer, and what a viewer sees of it.                                    *)

LayerSet == [fill : BOOLEAN, facePts : Seq(Place), faces : Seq(Nat),
             linePts : Seq(Place), lines : Seq(Nat), pts : Seq(Place)]

Good(ld) ==
  /\ ld \in LayerSet
  /\ NoRepeat(ld.linePts) /\ Strips(ld.linePts, ld.lines)
  /\ NoRepeat(ld.facePts) /\ ld.faces \in Seq(0 .. Len(ld.facePts))
  /\ Seen(ld.facePts, ld.faces).corners = << >>

LinesIn(ld) == DrawnLines(ld.linePts, ld.lines)
FacesIn(ld) == DrawnFaces(ld.facePts, ld.faces)

\* new shows what ld shows, then these lines and these faces
Shows(new, ld, lines, faces) ==
  /\ Good(new) /\ new.fill = ld.fill
  /\ LinesIn(new) = LinesIn(ld) \o lines
  /\ FacesIn(new) = FacesIn(ld) \o faces

LEMMA GoodTypes ==
  ASSUME NEW ld, Good(ld)
  PROVE  LinesIn(ld) \in Seq(Seq(Place)) /\ FacesIn(ld) \in Seq(Seq(Place))
<1>1. /\ ld.linePts \in Seq(Place) /\ ld.lines \in Seq(0 .. Len(ld.linePts))
      /\ ld.facePts \in Seq(Place) /\ ld.faces \in Seq(0 .. Len(ld.facePts))
  BY DEF Good, LayerSet, Strips
<1>2. DrawnLines(ld.linePts, ld.lines) \in Seq(Seq(Place))
  BY <1>1, DrawnType
<1>3. Seen(ld.facePts, ld.faces) \in SeenSet(Place)
  BY <1>1, SeenType
<1>. QED  BY <1>2, <1>3 DEF LinesIn, FacesIn, DrawnFaces, SeenSet

LEMMA NewIsGood ==
  /\ Good(NewLayer) /\ NewLayer.fill = TRUE
  /\ LinesIn(NewLayer) = << >> /\ FacesIn(NewLayer) = << >>
<1>1. /\ NewLayer.linePts = << >> /\ NewLayer.lines = << >> /\ NewLayer.fill = TRUE
      /\ NewLayer.facePts = << >> /\ NewLayer.faces = << >> /\ NewLayer \in LayerSet
  BY EmptySeq DEF NewLayer, LayerSet
<1>2. Seen(<< >>, << >>) = NothingSeen
  BY SeenEmpty
<1>3. DrawnLines(<< >>, << >>) = << >>
  <2>1. [k \in DOMAIN << >> |-> Stroke(<< >>, << >>, k)] = << >>
    OBVIOUS
  <2>. QED  BY <2>1, FlattenEmpty DEF DrawnLines
<1>4. NoRepeat(<< >>) /\ Strips(<< >>, << >>) /\ << >> \in Seq(0 .. Len(<< >>))
  BY EmptySeq DEF NoRepeat, Strips
<1>. QED  BY <1>1, <1>2, <1>3, <1>4 DEF Good, LinesIn, FacesIn, DrawnFaces, NothingSeen

\* addLine()
LEMMA AddLineShows ==
  ASSUME NEW ld, Good(ld), NEW a \in Place, NEW b \in Place
  PROVE  Shows(AddLine(ld, a, b), ld, <<<<a, b>>>>, << >>)
<1>. DEFINE p == ld.linePts
            q == Entered(p, a)
            r == Entered(q, b)
            i == NumberOf(r, a)
            j == NumberOf(r, b)
            s == Joined(ld.lines, i, j)
            new == AddLine(ld, a, b)
<1>1. /\ p \in Seq(Place) /\ NoRepeat(p) /\ Strips(p, ld.lines)
      /\ ld.lines \in Seq(0 .. Len(p))
  BY DEF Good, LayerSet, Strips
<1>. HIDE DEF p
<1>2. Grown(Place, q, p) /\ Listed(a, q)
  BY <1>1, EnterOne
<1>. HIDE DEF q
<1>3. q \in Seq(Place) /\ NoRepeat(q)
  BY <1>2 DEF Grown
<1>4. Grown(Place, r, q) /\ Listed(b, r)
  BY <1>3, EnterOne
<1>. HIDE DEF r
<1>5. Grown(Place, r, p) /\ Listed(a, r)
  BY <1>1, <1>2, <1>4, GrownTwice
<1>6. r \in Seq(Place) /\ NoRepeat(r) /\ Extends(r, p)
  BY <1>5 DEF Grown
<1>7. i \in 1 .. Len(r) /\ r[i] = a /\ j \in 1 .. Len(r) /\ r[j] = b
  BY <1>4, <1>5, <1>6, NumberListed
<1>. HIDE DEF i, j
<1>8. ld.lines \in Seq(0 .. Len(r)) /\ DrawnLines(r, ld.lines) = DrawnLines(p, ld.lines)
  BY <1>1, <1>6, DrawnExtends
<1>9. Strips(r, ld.lines)
  BY <1>1, <1>8 DEF Strips
<1>10. /\ Strips(r, s)
       /\ DrawnLines(r, s) = DrawnLines(r, ld.lines) \o <<<<r[i], r[j]>>>>
  BY <1>6, <1>7, <1>9, LineJoins
<1>. HIDE DEF s
<1>11. /\ new.linePts = r /\ new.lines = s /\ new.fill = ld.fill
       /\ new.facePts = ld.facePts /\ new.faces = ld.faces /\ new.pts = ld.pts
       /\ new = [ld EXCEPT !.linePts = r, !.lines = s]
  <2>1. new = [ld EXCEPT !.linePts = r, !.lines = s]
    BY DEF AddLine, s, r, q, p, i, j
  <2>. QED  BY <2>1 DEF Good, LayerSet
<1>12. new \in LayerSet
  <2>1. s \in Seq(Nat)
    <3>1. 0 .. Len(r) \subseteq Nat
      BY <1>6, LenProperties
    <3>. QED  BY <1>10, <3>1, SeqMonotonic DEF Strips
  <2>. QED  BY <1>6, <1>11, <2>1 DEF Good, LayerSet
<1>. HIDE DEF new
<1>13. Good(new)
  BY <1>6, <1>10, <1>11, <1>12 DEF Good
<1>14. LinesIn(new) = LinesIn(ld) \o <<<<a, b>>>>
  BY <1>7, <1>8, <1>10, <1>11 DEF LinesIn, p
<1>15. FacesIn(new) = FacesIn(ld) \o << >>
  BY <1>11, GoodTypes, ConcatEmptySeq DEF FacesIn
<1>. QED  BY <1>11, <1>13, <1>14, <1>15 DEF Shows, new

LEMMA ShowsOne ==
  ASSUME NEW old, NEW ld, NEW new, Good(old),
         NEW a \in Seq(Seq(Place)), NEW line \in Seq(Place),
         Shows(ld, old, a, << >>), Shows(new, ld, <<line>>, << >>)
  PROVE  Shows(new, old, Append(a, line), << >>)
<1>. DEFINE Q == Seq(Place)
<1>1. /\ LinesIn(old) \in Seq(Q) /\ FacesIn(old) \in Seq(Q)
      /\ a \in Seq(Q) /\ line \in Q
  BY GoodTypes
<1>. HIDE DEF Q
<1>2. LinesIn(new) = (LinesIn(old) \o a) \o <<line>>
  BY DEF Shows
<1>3. (LinesIn(old) \o a) \o <<line>> = LinesIn(old) \o Append(a, line)
  <2>. DEFINE l == LinesIn(old)
              y == <<line>>
  <2>1. y \in Seq(Q) /\ Append(a, line) = a \o y
    BY <1>1, AppendIsConcat
  <2>2. l \in Seq(Q) /\ a \in Seq(Q)
    BY <1>1
  <2>. HIDE DEF l, y
  <2>3. (l \o a) \o y = l \o (a \o y)
    BY SMTT(60), <2>1, <2>2, ConcatAssociative
  <2>. QED  BY <2>1, <2>3 DEF l, y
<1>4. FacesIn(new) = FacesIn(old) \o << >>
  <2>1. FacesIn(old) \o << >> = FacesIn(old)
    BY <1>1, ConcatEmptySeq
  <2>2. FacesIn(ld) = FacesIn(old) /\ FacesIn(new) = FacesIn(ld) \o << >>
    BY <2>1 DEF Shows
  <2>. QED  BY <2>2
<1>. QED  BY <1>2, <1>3, <1>4 DEF Shows

LEMMA ShowsNothing ==
  ASSUME NEW ld, Good(ld)
  PROVE  Shows(ld, ld, << >>, << >>)
BY GoodTypes, ConcatEmptySeq DEF Shows

\* The lines of an outline.
LEMMA AddOutlineShows ==
  ASSUME NEW ld, Good(ld), NEW edges \in Seq(Place \X Place)
  PROVE  edges \in Seq(Seq(Place)) /\ Shows(AddOutline(ld, edges), ld, edges, << >>)
<1>. DEFINE n == Len(edges)
            Q == {x \in LayerSet : Good(x)}
            Body(f, k) == IF k = 0 THEN ld ELSE AddLine(f[k - 1], edges[k][1], edges[k][2])
            Eq(f) == f = [k \in 0 .. n |-> Body(f, k)]
            g == [k \in 1 .. n |-> [v \in Q |-> AddLine(v, edges[k][1], edges[k][2])]]
            after == CHOOSE f : Eq(f)
<1>1. n \in Nat /\ \A k \in 1 .. n : edges[k] \in Place \X Place
  BY LenProperties, ElementOfSeq
<1>2. \A k \in 1 .. n : /\ edges[k][1] \in Place /\ edges[k][2] \in Place
                        /\ edges[k] = <<edges[k][1], edges[k][2]>>
  <2>. HIDE DEF n
  <2>. QED  BY <1>1
<1>3. \A k \in 1 .. n : edges[k] \in Seq(Place)
  <2>1. \A a, b \in Place : <<a, b>> \in Seq(Place)
    OBVIOUS
  <2>. QED  BY ZenonT(60), <1>2, <2>1
<1>4. edges \in Seq(Seq(Place))
  <2>. DEFINE S == Seq(Place)
  <2>1. edges = [k \in 1 .. n |-> edges[k]]
    BY LenProperties
  <2>2. \A k \in 1 .. n : edges[k] \in S
    BY <1>3
  <2>. HIDE DEF S, n
  <2>3. edges \in [1 .. n -> S]
    BY <2>1, <2>2
  <2>4. edges \in Seq(S)
    BY <1>1, <2>3, FunctionIsSeq
  <2>. QED  BY <2>4 DEF S
<1>5. \A v \in Q : v \in LayerSet /\ Good(v)
  OBVIOUS
<1>6. \A v : Good(v) => v \in Q
  BY DEF Good
<1>. HIDE DEF Q
<1>7. ASSUME NEW v, Good(v), NEW k \in 1 .. n
      PROVE  Shows(AddLine(v, edges[k][1], edges[k][2]), v, <<edges[k]>>, << >>)
  BY <1>2, <1>7, AddLineShows
<1>8. g \in [1 .. n -> [Q -> Q]]
  <2>1. \A k \in 1 .. n, v \in Q : AddLine(v, edges[k][1], edges[k][2]) \in Q
    <3>. HIDE DEF n
    <3>. QED  BY <1>5, <1>6, <1>7 DEF Shows
  <2>. HIDE DEF n
  <2>. QED  BY <2>1
<1>9. PICK f \in [0 .. n -> Q] : Follows(f, n, ld, g)
  <2>1. n \in Nat /\ ld \in Q
    BY <1>1, <1>6
  <2>. HIDE DEF n, g
  <2>. QED  BY <1>8, <2>1, Recursion
<1>10. Eq(f)
  <2>1. ASSUME NEW k \in 0 .. n PROVE f[k] = Body(f, k)
    <3>1. CASE k = 0
      BY <1>9, <3>1 DEF Follows
    <3>2. CASE k # 0
      <4>1. k \in 1 .. n /\ k - 1 \in 0 .. n
        BY <1>1, <3>2
      <4>2. f[k - 1] \in Q
        BY <4>1
      <4>. QED  BY <1>9, <3>2, <4>1, <4>2 DEF Follows
    <3>. QED  BY <3>1, <3>2
  <2>. HIDE DEF Body, n
  <2>. QED  BY <2>1
<1>11. Eq(after)
  <2>. HIDE DEF Eq
  <2>. QED  BY <1>10
<1>12. AddOutline(ld, edges) = after[n]
  BY DEF AddOutline
<1>. HIDE DEF after
<1>13. \A k \in 0 .. n : after[k] = Body(after, k)
  <2>. HIDE DEF Body, n
  <2>. DEFINE r == [k \in 0 .. n |-> Body(after, k)]
  <2>1. after = r
    BY <1>11
  <2>2. \A k \in 0 .. n : r[k] = Body(after, k)
    OBVIOUS
  <2>. HIDE DEF r
  <2>. QED  BY <2>1, <2>2
<1>. DEFINE T == {k \in 0 .. n : Shows(after[k], ld, SubSeq(edges, 1, k), << >>)}
<1>14. 0 \in T
  <2>1. SubSeq(edges, 1, 0) = << >>
    BY FirstOnes
  <2>2. after[0] = ld /\ 0 \in 0 .. n
    BY <1>1, <1>13
  <2>3. Shows(ld, ld, << >>, << >>)
    BY ShowsNothing
  <2>. QED  BY <2>1, <2>2, <2>3
<1>15. ASSUME NEW k \in 1 .. n, k - 1 \in T PROVE k \in T
  <2>. DEFINE a == SubSeq(edges, 1, k - 1)
              v == after[k - 1]
              w == after[k]
  <2>1. Shows(v, ld, a, << >>) /\ k \in 0 .. n /\ k - 1 \in 0 .. Len(edges)
    BY <1>1, <1>15
  <2>2. w = AddLine(v, edges[k][1], edges[k][2])
    BY <1>13, <2>1
  <2>3. a \in Seq(Seq(Place)) /\ SubSeq(edges, 1, k) = Append(a, edges[k])
    BY <1>4, <2>1, FirstOnes
  <2>. HIDE DEF a, v, w
  <2>4. Shows(w, v, <<edges[k]>>, << >>)
    BY <1>7, <2>1, <2>2 DEF Shows
  <2>5. Shows(w, ld, Append(a, edges[k]), << >>)
    BY <1>3, <2>1, <2>3, <2>4, ShowsOne
  <2>. QED  BY <2>1, <2>3, <2>5 DEF w
<1>16. n \in T
  <2>1. n \in Nat /\ n \in 0 .. n
    BY <1>1
  <2>. HIDE DEF n, T
  <2>2. 0 .. n \subseteq T
    BY <2>1, <1>14, <1>15, UpTo
  <2>. QED  BY <2>1, <2>2
<1>. QED  BY <1>4, <1>12, <1>16, FirstOnes

LEMMA EdgesType ==
  ASSUME NEW pts \in Seq(Place)
  PROVE  Edges(pts) \in Seq(Place \X Place)
<1>. DEFINE n == Len(pts)
            S == Place \X Place
<1>1. n \in Nat /\ DOMAIN pts = 1 .. n /\ \A k \in 1 .. n : pts[k] \in Place
  BY LenProperties, ElementOfSeq
<1>2. \A k \in 1 .. n : (k % n) + 1 \in 1 .. n
  BY <1>1
<1>3. Edges(pts) \in [1 .. n -> S]
  <2>1. Edges(pts) = [k \in 1 .. n |-> <<pts[k], pts[(k % n) + 1]>>]
    BY <1>1 DEF Edges
  <2>2. \A k \in 1 .. n : <<pts[k], pts[(k % n) + 1]>> \in S
    BY <1>1, <1>2
  <2>. HIDE DEF n, S
  <2>. QED  BY <2>1, <2>2
<1>. HIDE DEF n, S
<1>4. Edges(pts) \in Seq(S)
  BY <1>1, <1>3, FunctionIsSeq
<1>. QED  BY <1>4 DEF S

\* addTriangle() and addQuad().
LEMMA AddFaceShows ==
  ASSUME NEW ld, Good(ld), NEW pts \in Seq(Place)
  PROVE  Shows(AddFace(ld, pts), ld,
               IF ld.fill THEN << >> ELSE Edges(pts),
               IF ld.fill THEN <<pts>> ELSE << >>)
<1>1. CASE ~ld.fill
  <2>1. AddFace(ld, pts) = AddOutline(ld, Edges(pts))
    BY <1>1 DEF AddFace
  <2>2. Shows(AddOutline(ld, Edges(pts)), ld, Edges(pts), << >>)
    BY EdgesType, AddOutlineShows
  <2>. QED  BY <1>1, <2>1, <2>2
<1>2. CASE ld.fill
  <2>. DEFINE p == ld.facePts
              q == EnteredAll(p, pts)
              s == ld.faces \o [k \in DOMAIN pts |-> NumberOf(q, pts[k])] \o <<End>>
              new == AddFace(ld, pts)
  <2>1. p \in Seq(Place) /\ NoRepeat(p) /\ ld.faces \in Seq(0 .. Len(p))
    BY DEF Good, LayerSet
  <2>2. new = [ld EXCEPT !.facePts = q, !.faces = s]
    BY <1>2 DEF AddFace
  <2>. HIDE DEF p
  <2>3. Grown(Place, q, p) /\ \A k \in 1 .. Len(pts) : Listed(pts[k], q)
    BY <2>1, EnterAll
  <2>. HIDE DEF q
  <2>4. q \in Seq(Place) /\ NoRepeat(q) /\ Extends(q, p)
    BY <2>3 DEF Grown
  <2>5. ld.faces \in Seq(0 .. Len(q)) /\ Seen(q, ld.faces) = Seen(p, ld.faces)
    BY <2>1, <2>4, SeenExtends
  <2>6. Seen(q, ld.faces).corners = << >>
    BY <2>5 DEF Good, p
  <2>7. /\ s \in Seq(0 .. Len(q)) /\ Seen(q, s).corners = << >>
        /\ DrawnFaces(q, s) = Append(DrawnFaces(q, ld.faces), pts)
    <3>1. Face(q, pts) \in Seq(0 .. Len(q))
      <4>. DEFINE n == Len(pts)
      <4>1. n \in Nat /\ DOMAIN pts = 1 .. n
        BY LenProperties
      <4>2. \A k \in 1 .. n : NumberOf(q, pts[k]) \in 0 .. Len(q)
        BY <2>3, <2>4, NumberListed
      <4>3. Face(q, pts) \in [1 .. n -> 0 .. Len(q)]
        BY <4>1, <4>2 DEF Face
      <4>. HIDE DEF n
      <4>. QED  BY <4>1, <4>3, FunctionIsSeq
    <3>. DEFINE f == ld.faces \o Face(q, pts)
    <3>2. f \in Seq(0 .. Len(q)) /\ End \in 0 .. Len(q)
      BY <2>4, <2>5, <3>1, ConcatProperties, LenProperties DEF End
    <3>3. s = f \o <<End>>
      BY DEF Face
    <3>. HIDE DEF f, s
    <3>4. s = Append(f, End)
      BY <3>2, <3>3, AppendIsConcat
    <3>5. AllListed(pts, q)
      BY <2>3 DEF AllListed
    <3>6. WithFace(s, ld.faces, q, pts)
      BY <3>4 DEF WithFace, f
    <3>. QED  BY <2>4, <2>5, <2>6, <3>5, <3>6, FaceJoins
  <2>. HIDE DEF s
  <2>8. /\ new.linePts = ld.linePts /\ new.lines = ld.lines /\ new.fill = ld.fill
        /\ new.facePts = q /\ new.faces = s /\ new.pts = ld.pts
    BY <2>2 DEF Good, LayerSet
  <2>9. new \in LayerSet
    <3>1. 0 .. Len(q) \subseteq Nat
      BY <2>4, LenProperties
    <3>2. s \in Seq(Nat)
      BY <2>7, <3>1, SeqMonotonic
    <3>. QED  BY <2>2, <2>4, <3>2 DEF Good, LayerSet
  <2>. HIDE DEF new
  <2>10. Good(new)
    BY <2>4, <2>7, <2>8, <2>9 DEF Good
  <2>11. FacesIn(new) = FacesIn(ld) \o <<pts>>
    <3>. DEFINE Q == Seq(Place)
    <3>1. FacesIn(new) = Append(FacesIn(ld), pts)
      BY <2>5, <2>7, <2>8 DEF FacesIn, DrawnFaces, p
    <3>2. FacesIn(ld) \in Seq(Q) /\ pts \in Q
      BY GoodTypes
    <3>. HIDE DEF Q
    <3>. QED  BY <3>1, <3>2, AppendIsConcat
  <2>12. LinesIn(new) = LinesIn(ld) \o << >>
    BY <2>8, GoodTypes, ConcatEmptySeq DEF LinesIn
  <2>13. Shows(new, ld, << >>, <<pts>>)
    BY <2>8, <2>10, <2>11, <2>12 DEF Shows
  <2>. QED  BY <1>2, <2>13 DEF new
<1>. QED  BY <1>1, <1>2

\* what is added to a layer: at least one place
Points == Seq(Place) \ {<< >>}

LEMMA PointsLen ==
  ASSUME NEW pts \in Points
  PROVE  pts \in Seq(Place) /\ Len(pts) \in Nat \ {0}
BY EmptySeq, LenProperties DEF Points

\* Adding a primitive to its layer shows what it asks for and no more.
LEMMA AddShows ==
  ASSUME NEW ld, Good(ld), NEW p, p.pts \in Points, p.fill = ld.fill
  PROVE  Shows(Add(ld, p.pts), ld, LinesOf(p.layer, p), FacesOf(p.layer, p))
<1>. DEFINE t == p.pts
<1>1. t \in Seq(Place) /\ Len(t) \in Nat \ {0} /\ \A k \in 1 .. Len(t) : t[k] \in Place
  BY PointsLen, ElementOfSeq
<1>2. CASE Len(t) = 1
  <2>. DEFINE new == [ld EXCEPT !.pts = @ \o t]
  <2>1. Add(ld, t) = new
    BY <1>2 DEF Add
  <2>2. ld.pts \o t \in Seq(Place)
    BY <1>1, ConcatProperties DEF Good, LayerSet
  <2>3. /\ new \in LayerSet /\ new.linePts = ld.linePts /\ new.lines = ld.lines
        /\ new.facePts = ld.facePts /\ new.faces = ld.faces /\ new.fill = ld.fill
    BY <2>2 DEF Good, LayerSet
  <2>. HIDE DEF new
  <2>4. Good(new)
    BY <2>3 DEF Good
  <2>5. LinesIn(new) = LinesIn(ld) \o << >> /\ FacesIn(new) = FacesIn(ld) \o << >>
    BY <2>3, GoodTypes, ConcatEmptySeq DEF LinesIn, FacesIn
  <2>6. LinesOf(p.layer, p) = << >> /\ FacesOf(p.layer, p) = << >>
    BY <1>2 DEF LinesOf, FacesOf
  <2>. QED  BY <2>1, <2>3, <2>4, <2>5, <2>6 DEF Shows
<1>3. CASE Len(t) = 2
  <2>1. Add(ld, t) = AddLine(ld, t[1], t[2])
    BY <1>3 DEF Add
  <2>2. t[1] \in Place /\ t[2] \in Place /\ t = <<t[1], t[2]>>
    BY <1>1, <1>3
  <2>3. LinesOf(p.layer, p) = <<t>> /\ FacesOf(p.layer, p) = << >>
    BY <1>3 DEF LinesOf, FacesOf
  <2>4. Shows(AddLine(ld, t[1], t[2]), ld, <<<<t[1], t[2]>>>>, << >>)
    BY <2>2, AddLineShows
  <2>. QED  BY <2>1, <2>2, <2>3, <2>4
<1>4. CASE Len(t) > 2
  <2>1. Add(ld, t) = AddFace(ld, t)
    BY <1>1, <1>4 DEF Add
  <2>2. /\ LinesOf(p.layer, p) = IF ld.fill THEN << >> ELSE Edges(t)
        /\ FacesOf(p.layer, p) = IF ld.fill THEN <<t>> ELSE << >>
    BY <1>1, <1>4 DEF LinesOf, FacesOf
  <2>3. Shows(AddFace(ld, t), ld, IF ld.fill THEN << >> ELSE Edges(t),
              IF ld.fill THEN <<t>> ELSE << >>)
    BY <1>1, AddFaceShows
  <2>. DEFINE x == IF ld.fill THEN << >> ELSE Edges(t)
              y == IF ld.fill THEN <<t>> ELSE << >>
              new == AddFace(ld, t)
  <2>4. /\ LinesOf(p.layer, p) = x /\ FacesOf(p.layer, p) = y
        /\ Shows(new, ld, x, y)
    BY <2>2, <2>3
  <2>5. Add(ld, p.pts) = new
    BY <2>1
  <2>. HIDE DEF x, y, new
  <2>. QED  BY <2>4, <2>5
<1>5. Len(t) = 1 \/ Len(t) = 2 \/ Len(t) > 2
  <2>. DEFINE n == Len(t)
  <2>1. n \in Nat \ {0}
    BY <1>1
  <2>. HIDE DEF n
  <2>2. n = 1 \/ n = 2 \/ n > 2
    BY <2>1
  <2>. QED  BY <2>2 DEF n
<1>. QED  BY <1>2, <1>3, <1>4, <1>5

-----------------------------------------------------------------------------
(* The layers of all colours.                                                *)

GoodLayer == {ld \in LayerSet : Good(ld)}
GoodLayers == UNION {[D -> GoodLayer] : D \in SUBSET (1 .. 255)}

LEMMA LayersGood ==
  ASSUME NEW ls \in GoodLayers
  PROVE  /\ DOMAIN ls \subseteq 1 .. 255
         /\ ls = [d \in DOMAIN ls |-> ls[d]]
         /\ \A c \in DOMAIN ls : ls[c] \in GoodLayer /\ Good(ls[c])
BY ZenonT(60) DEF GoodLayers, GoodLayer

LEMMA GoodAre ==
  ASSUME NEW D \in SUBSET (1 .. 255), NEW ls, DOMAIN ls = D,
         ls \in [D -> GoodLayer]
  PROVE  ls \in GoodLayers
BY DEF GoodLayers

\* what a viewer sees of the layer of colour c, which may not be there
LinesAt(ls, c) == IF c \in DOMAIN ls THEN LinesIn(ls[c]) ELSE << >>
FacesAt(ls, c) == IF c \in DOMAIN ls THEN FacesIn(ls[c]) ELSE << >>
FillAt(ls, c) == IF c \in DOMAIN ls THEN ls[c].fill ELSE TRUE

LEMMA TypesAt ==
  ASSUME NEW ls \in GoodLayers, NEW c
  PROVE  /\ LinesAt(ls, c) \in Seq(Seq(Place)) /\ FacesAt(ls, c) \in Seq(Seq(Place))
         /\ FillAt(ls, c) \in BOOLEAN
<1>1. CASE c \in DOMAIN ls
  <2>1. Good(ls[c])
    BY <1>1, LayersGood
  <2>2. ls[c].fill \in BOOLEAN
    BY <2>1 DEF Good, LayerSet
  <2>. QED  BY <1>1, <2>1, <2>2, GoodTypes DEF LinesAt, FacesAt, FillAt
<1>2. CASE c \notin DOMAIN ls
  <2>1. << >> \in Seq(Seq(Place))
    BY EmptySeq
  <2>. QED  BY <1>2, <2>1 DEF LinesAt, FacesAt, FillAt
<1>. QED  BY <1>1, <1>2

\* getLayerData() shows nothing new.
SameAt(new, ls, c) ==
  /\ LinesAt(new, c) = LinesAt(ls, c) /\ FacesAt(new, c) = FacesAt(ls, c)

LEMMA OpenedSame ==
  ASSUME NEW ls \in GoodLayers, NEW d \in 1 .. 255
  PROVE  /\ Opened(ls, d) \in GoodLayers
         /\ DOMAIN Opened(ls, d) = DOMAIN ls \cup {d}
         /\ \A c : SameAt(Opened(ls, d), ls, c) /\ FillAt(Opened(ls, d), c) = FillAt(ls, c)
<1>1. CASE d \in DOMAIN ls
  BY <1>1 DEF Opened, SameAt
<1>2. CASE d \notin DOMAIN ls
  <2>. DEFINE D == DOMAIN ls \cup {d}
              new == [c \in D |-> IF c = d THEN NewLayer ELSE ls[c]]
  <2>1. Opened(ls, d) = new
    BY <1>2 DEF Opened
  <2>2. D \in SUBSET (1 .. 255)
    BY LayersGood
  <2>3. \A c \in D : (IF c = d THEN NewLayer ELSE ls[c]) \in GoodLayer
    BY LayersGood, NewIsGood DEF GoodLayer, Good
  <2>4. DOMAIN new = D /\ \A c \in D : new[c] = IF c = d THEN NewLayer ELSE ls[c]
    OBVIOUS
  <2>5. new \in [D -> GoodLayer]
    BY <2>3
  <2>6. new \in GoodLayers
    <3>. HIDE DEF D, new
    <3>. QED  BY <2>2, <2>4, <2>5, GoodAre
  <2>. HIDE DEF new
  <2>7. ASSUME NEW c PROVE SameAt(new, ls, c) /\ FillAt(new, c) = FillAt(ls, c)
    <3>1. CASE c = d
      BY <1>2, <2>4, <3>1, NewIsGood DEF SameAt, LinesAt, FacesAt, FillAt
    <3>2. CASE c # d
      BY <2>4, <3>2 DEF SameAt, LinesAt, FacesAt, FillAt
    <3>. QED  BY <3>1, <3>2
  <2>. QED  BY <2>1, <2>4, <2>6, <2>7
<1>. QED  BY <1>1, <1>2

Items == [layer : 1 .. 255, pts : Points]
Added == [layer : 1 .. 255, pts : Points, fill : BOOLEAN]

\* what one item adds to the layers ls, as a conversion records it
AddedTo(ls, item) ==
  [layer |-> item.layer, pts |-> item.pts, fill |-> FillAt(ls, item.layer)]

Put(ls, item) == [Opened(ls, item.layer) EXCEPT ![item.layer] = Add(@, item.pts)]

\* new shows these lines and faces of colour c after those of ls
ShowsAt(new, ls, c, lines, faces) ==
  /\ LinesAt(new, c) = LinesAt(ls, c) \o lines
  /\ FacesAt(new, c) = FacesAt(ls, c) \o faces

LEMMA PutShows ==
  ASSUME NEW ls \in GoodLayers, NEW item \in Items
  PROVE  /\ Put(ls, item) \in GoodLayers
         /\ DOMAIN Put(ls, item) = DOMAIN ls \cup {item.layer}
         /\ AddedTo(ls, item) \in Added
         /\ \A c : /\ FillAt(Put(ls, item), c) = FillAt(ls, c)
                   /\ ShowsAt(Put(ls, item), ls, c, LinesOf(c, AddedTo(ls, item)),
                              FacesOf(c, AddedTo(ls, item)))
<1>. DEFINE d == item.layer
            op == Opened(ls, d)
            new == Put(ls, item)
            p == AddedTo(ls, item)
            D == DOMAIN ls \cup {d}
<1>1. d \in 1 .. 255 /\ item.pts \in Points
  BY DEF Items
<1>2. /\ op \in GoodLayers /\ DOMAIN op = D
      /\ \A c : SameAt(op, ls, c) /\ FillAt(op, c) = FillAt(ls, c)
  BY <1>1, OpenedSame
<1>3. p \in Added /\ p.layer = d /\ p.pts = item.pts /\ p.fill = FillAt(ls, d)
  BY <1>1, TypesAt DEF AddedTo, Added, Items
<1>. HIDE DEF p
<1>4. new = [op EXCEPT ![d] = Add(@, item.pts)]
  BY DEF Put
<1>. HIDE DEF op, new
<1>5. d \in DOMAIN op /\ Good(op[d]) /\ op[d].fill = p.fill
  BY <1>2, <1>3, LayersGood DEF FillAt
<1>6. Shows(Add(op[d], p.pts), op[d], LinesOf(d, p), FacesOf(d, p))
  BY <1>1, <1>3, <1>5, AddShows
<1>. DEFINE top == Add(op[d], p.pts)
<1>7. /\ DOMAIN new = D /\ new[d] = top
      /\ \A c \in D : c # d => new[c] = op[c]
      /\ new = [c \in D |-> IF c = d THEN top ELSE op[c]]
  <2>1. op = [c \in D |-> op[c]]
    BY <1>2, LayersGood
  <2>. QED  BY <1>2, <1>3, <1>4, <1>5, <2>1
<1>. HIDE DEF top
<1>8. new \in GoodLayers
  <2>1. D \in SUBSET (1 .. 255)
    BY <1>2, LayersGood
  <2>2. top \in GoodLayer
    BY <1>6 DEF Shows, Good, GoodLayer, top
  <2>3. \A c \in D : op[c] \in GoodLayer
    BY <1>2, LayersGood
  <2>. HIDE DEF D
  <2>4. new \in [D -> GoodLayer]
    BY <1>7, <2>2, <2>3
  <2>. QED  BY <1>7, <2>1, <2>4, GoodAre
<1>9. ASSUME NEW c
      PROVE  FillAt(new, c) = FillAt(ls, c) /\ ShowsAt(new, ls, c, LinesOf(c, p), FacesOf(c, p))
  <2>1. CASE c = d
    <3>1. /\ new[c].fill = op[c].fill
          /\ LinesIn(new[c]) = LinesIn(op[c]) \o LinesOf(c, p)
          /\ FacesIn(new[c]) = FacesIn(op[c]) \o FacesOf(c, p)
      BY <1>6, <1>7, <2>1 DEF Shows, top
    <3>2. c \in DOMAIN op /\ c \in DOMAIN new
      BY <1>2, <1>7, <2>1
    <3>3. SameAt(op, ls, c) /\ FillAt(op, c) = FillAt(ls, c)
      BY <1>2
    <3>. QED  BY <3>1, <3>2, <3>3 DEF SameAt, ShowsAt, LinesAt, FacesAt, FillAt
  <2>2. CASE c # d
    <3>1. LinesOf(c, p) = << >> /\ FacesOf(c, p) = << >>
      BY <1>3, <2>2 DEF LinesOf, FacesOf
    <3>2. SameAt(new, op, c) /\ FillAt(new, c) = FillAt(op, c)
      BY <1>2, <1>7, <2>2 DEF SameAt, LinesAt, FacesAt, FillAt
    <3>3. /\ LinesAt(ls, c) \o << >> = LinesAt(ls, c)
          /\ FacesAt(ls, c) \o << >> = FacesAt(ls, c)
      BY TypesAt, ConcatEmptySeq
    <3>4. SameAt(op, ls, c) /\ FillAt(op, c) = FillAt(ls, c)
      BY <1>2
    <3>. QED  BY <3>1, <3>2, <3>3, <3>4 DEF SameAt, ShowsAt
  <2>. QED  BY <2>1, <2>2
<1>. QED  BY <1>3, <1>7, <1>8, <1>9 DEF new, p

LEMMA OfType ==
  ASSUME NEW p \in Added, NEW c
  PROVE  LinesOf(c, p) \in Seq(Seq(Place)) /\ FacesOf(c, p) \in Seq(Seq(Place))
<1>. DEFINE Q == Seq(Place)
            t == p.pts
<1>1. t \in Q
  BY DEF Added, Points
<1>2. Edges(t) \in Seq(Q)
  <2>1. Edges(t) \in Seq(Place \X Place)
    BY <1>1, EdgesType
  <2>2. Place \X Place \subseteq Q
    <3>1. \A a, b \in Place : <<a, b>> \in Q
      OBVIOUS
    <3>2. \A x \in Place \X Place : \E a, b \in Place : x = <<a, b>>
      OBVIOUS
    <3>. QED  BY ZenonT(60), <3>1, <3>2
  <2>. QED  BY <2>1, <2>2, SeqMonotonic
<1>. HIDE DEF Q, t
<1>3. << >> \in Seq(Q) /\ <<t>> \in Seq(Q)
  BY <1>1, EmptySeq
<1>4. /\ LinesOf(c, p) = << >> \/ LinesOf(c, p) = <<t>> \/ LinesOf(c, p) = Edges(t)
      /\ FacesOf(c, p) = << >> \/ FacesOf(c, p) = <<t>>
  BY DEF LinesOf, FacesOf, t
<1>. QED  BY <1>2, <1>3, <1>4 DEF Q

\* One part more, of two sequences that agree on the others.
LEMMA FlattenOne ==
  ASSUME NEW S, NEW f \in Seq(Seq(S)), NEW h \in Seq(Seq(S)),
         Len(h) = Len(f) + 1, Extends(h, f)
  PROVE  /\ FlattenSeq(h) = FlattenSeq(f) \o h[Len(h)]
         /\ FlattenSeq(h) \in Seq(S)
<1>. DEFINE Q == Seq(S)
            s == h[Len(h)]
            n == Len(f)
            t == Append(f, s)
<1>1. n \in Nat /\ f \in Seq(Q) /\ h \in Seq(Q) /\ Len(h) = n + 1
  BY LenProperties
<1>2. s \in Q
  <2>1. n + 1 \in 1 .. Len(h)
    BY <1>1
  <2>. QED  BY <1>1, <2>1, ElementOfSeq
<1>. HIDE DEF Q, s
<1>3. /\ t \in Seq(Q) /\ Len(t) = n + 1 /\ t[n + 1] = s
      /\ \A i \in 1 .. n : t[i] = f[i]
  BY <1>1, <1>2, AppendProperties
<1>4. \A i \in 1 .. n + 1 : i \in 1 .. n \/ i = n + 1
  BY <1>1
<1>5. \A i \in 1 .. n + 1 : h[i] = t[i]
  BY <1>1, <1>3, <1>4 DEF Extends, s
<1>. HIDE DEF t, n
<1>6. h = t
  BY <1>1, <1>3, <1>5, SeqEqual
<1>7. f \in Seq(Seq(S)) /\ s \in Seq(S)
  BY <1>2 DEF Q
<1>8. FlattenSeq(Append(f, s)) = FlattenSeq(f) \o s
  BY <1>7, FlattenAppend
<1>. QED  BY <1>6, <1>8, FlattenType DEF t, s

-----------------------------------------------------------------------------
(* What was asked for.                                                       *)

\* ss is what a function of that name gives for each of n things
Parts(ss, n) == ss \in Seq(Seq(Seq(Place))) /\ Len(ss) = n

LEMMA PartsFrom ==
  ASSUME NEW n \in Nat, NEW f \in [1 .. n -> Seq(Seq(Place))]
  PROVE  /\ Parts(f, n)
         /\ FlattenSeq(f) \in Seq(Seq(Place))
<1>. DEFINE Q == Seq(Seq(Place))
<1>1. f \in [1 .. n -> Q]
  OBVIOUS
<1>. HIDE DEF Q
<1>2. f \in Seq(Q) /\ Len(f) = n
  BY <1>1, FunctionIsSeq
<1>. QED  BY <1>2, FlattenType DEF Q, Parts

LinesParts(c, added) == [k \in DOMAIN added |-> LinesOf(c, added[k])]
FacesParts(c, added) == [k \in DOMAIN added |-> FacesOf(c, added[k])]

LEMMA AddedTypes ==
  ASSUME NEW added \in Seq(Added), NEW c
  PROVE  /\ Parts(LinesParts(c, added), Len(added))
         /\ Parts(FacesParts(c, added), Len(added))
         /\ LinesAdded(c, added) \in Seq(Seq(Place))
         /\ FacesAdded(c, added) \in Seq(Seq(Place))
<1>. DEFINE Q == Seq(Seq(Place))
            n == Len(added)
<1>1. n \in Nat /\ DOMAIN added = 1 .. n /\ \A k \in 1 .. n : added[k] \in Added
  BY LenProperties, ElementOfSeq
<1>2. \A k \in 1 .. n : LinesOf(c, added[k]) \in Q /\ FacesOf(c, added[k]) \in Q
  BY <1>1, OfType
<1>3. LinesParts(c, added) \in [1 .. n -> Q] /\ FacesParts(c, added) \in [1 .. n -> Q]
  <2>. HIDE DEF Q, n
  <2>. QED  BY <1>1, <1>2 DEF LinesParts, FacesParts
<1>. HIDE DEF n
<1>4. /\ Parts(LinesParts(c, added), n) /\ FlattenSeq(LinesParts(c, added)) \in Q
      /\ Parts(FacesParts(c, added), n) /\ FlattenSeq(FacesParts(c, added)) \in Q
  BY <1>1, <1>3, PartsFrom
<1>5. /\ LinesAdded(c, added) = FlattenSeq(LinesParts(c, added))
      /\ FacesAdded(c, added) = FlattenSeq(FacesParts(c, added))
  BY DEF LinesAdded, FacesAdded, LinesParts, FacesParts
<1>. QED  BY <1>4, <1>5 DEF n

LEMMA AddedAppend ==
  ASSUME NEW added \in Seq(Added), NEW p \in Added, NEW c
  PROVE  /\ Append(added, p) \in Seq(Added)
         /\ LinesAdded(c, Append(added, p)) = LinesAdded(c, added) \o LinesOf(c, p)
         /\ FacesAdded(c, Append(added, p)) = FacesAdded(c, added) \o FacesOf(c, p)
<1>. DEFINE all == Append(added, p)
            n == Len(added)
<1>1. /\ all \in Seq(Added) /\ Len(all) = n + 1 /\ n \in Nat
      /\ all[n + 1] = p /\ \A i \in 1 .. n : all[i] = added[i]
  BY AppendProperties, LenProperties
<1>2. DOMAIN all = 1 .. n + 1 /\ DOMAIN added = 1 .. n
  BY <1>1, LenProperties
<1>. HIDE DEF all
<1>3. /\ Parts(LinesParts(c, all), n + 1) /\ Parts(LinesParts(c, added), n)
      /\ Parts(FacesParts(c, all), n + 1) /\ Parts(FacesParts(c, added), n)
  BY <1>1, AddedTypes
<1>4. /\ \A i \in 1 .. n + 1 : LinesParts(c, all)[i] = LinesOf(c, all[i])
      /\ \A i \in 1 .. n + 1 : FacesParts(c, all)[i] = FacesOf(c, all[i])
      /\ \A i \in 1 .. n : LinesParts(c, added)[i] = LinesOf(c, added[i])
      /\ \A i \in 1 .. n : FacesParts(c, added)[i] = FacesOf(c, added[i])
  BY <1>2 DEF LinesParts, FacesParts
<1>5. n + 1 \in 1 .. n + 1 /\ n <= n + 1 /\ \A i \in 1 .. n : i \in 1 .. n + 1
  BY <1>1
<1>. HIDE DEF n
<1>6. /\ Extends(LinesParts(c, all), LinesParts(c, added))
      /\ Extends(FacesParts(c, all), FacesParts(c, added))
  BY <1>1, <1>3, <1>4, <1>5 DEF Extends, Parts
<1>7. FlattenSeq(LinesParts(c, all)) = FlattenSeq(LinesParts(c, added)) \o LinesOf(c, p)
  <2>1. FlattenSeq(LinesParts(c, all))
          = FlattenSeq(LinesParts(c, added)) \o LinesParts(c, all)[n + 1]
    BY ZenonT(60), <1>3, <1>6, FlattenOne DEF Parts
  <2>. QED  BY <1>1, <1>4, <1>5, <2>1
<1>8. FlattenSeq(FacesParts(c, all)) = FlattenSeq(FacesParts(c, added)) \o FacesOf(c, p)
  <2>1. FlattenSeq(FacesParts(c, all))
          = FlattenSeq(FacesParts(c, added)) \o FacesParts(c, all)[n + 1]
    BY ZenonT(60), <1>3, <1>6, FlattenOne DEF Parts
  <2>. QED  BY <1>1, <1>4, <1>5, <2>1
<1>9. \A t : /\ LinesAdded(c, t) = FlattenSeq(LinesParts(c, t))
             /\ FacesAdded(c, t) = FlattenSeq(FacesParts(c, t))
  BY DEF LinesAdded, FacesAdded, LinesParts, FacesParts
<1>. QED  BY <1>1, <1>7, <1>8, <1>9 DEF all

\* what one conversion did
Record == [entity : Entities, through : Inserts \cup {<< >>}, added : Seq(Added)]

LinesAskedParts(c, asked) == [s \in DOMAIN asked |-> LinesAdded(c, asked[s].added)]
FacesAskedParts(c, asked) == [s \in DOMAIN asked |-> FacesAdded(c, asked[s].added)]

LEMMA AskedTypes ==
  ASSUME NEW asked \in Seq(Record), NEW c
  PROVE  /\ Parts(LinesAskedParts(c, asked), Len(asked))
         /\ Parts(FacesAskedParts(c, asked), Len(asked))
<1>. DEFINE Q == Seq(Seq(Place))
            n == Len(asked)
<1>1. n \in Nat /\ DOMAIN asked = 1 .. n /\ \A s \in 1 .. n : asked[s].added \in Seq(Added)
  <2>1. \A s \in 1 .. n : asked[s] \in Record
    BY ElementOfSeq
  <2>. QED  BY <2>1, LenProperties DEF Record
<1>2. \A s \in 1 .. n : /\ LinesAdded(c, asked[s].added) \in Q
                        /\ FacesAdded(c, asked[s].added) \in Q
  BY <1>1, AddedTypes
<1>3. LinesAskedParts(c, asked) \in [1 .. n -> Q] /\ FacesAskedParts(c, asked) \in [1 .. n -> Q]
  <2>. HIDE DEF Q, n
  <2>. QED  BY <1>1, <1>2 DEF LinesAskedParts, FacesAskedParts
<1>. HIDE DEF n
<1>4. Parts(LinesAskedParts(c, asked), n) /\ Parts(FacesAskedParts(c, asked), n)
  BY <1>1, <1>3, PartsFrom
<1>. QED  BY <1>4 DEF n

LEMMA AskedAppend ==
  ASSUME NEW asked \in Seq(Record), NEW r \in Record, NEW c
  PROVE  /\ LinesAsked(c, Append(asked, r)) = LinesAsked(c, asked) \o LinesAdded(c, r.added)
         /\ FacesAsked(c, Append(asked, r)) = FacesAsked(c, asked) \o FacesAdded(c, r.added)
<1>. DEFINE all == Append(asked, r)
            n == Len(asked)
<1>1. /\ all \in Seq(Record) /\ Len(all) = n + 1 /\ n \in Nat
      /\ all[n + 1] = r /\ \A i \in 1 .. n : all[i] = asked[i]
  BY AppendProperties, LenProperties
<1>2. DOMAIN all = 1 .. n + 1 /\ DOMAIN asked = 1 .. n
  BY <1>1, LenProperties
<1>. HIDE DEF all
<1>3. /\ Parts(LinesAskedParts(c, all), n + 1) /\ Parts(LinesAskedParts(c, asked), n)
      /\ Parts(FacesAskedParts(c, all), n + 1) /\ Parts(FacesAskedParts(c, asked), n)
  BY <1>1, AskedTypes
<1>4. /\ \A i \in 1 .. n + 1 : LinesAskedParts(c, all)[i] = LinesAdded(c, all[i].added)
      /\ \A i \in 1 .. n + 1 : FacesAskedParts(c, all)[i] = FacesAdded(c, all[i].added)
      /\ \A i \in 1 .. n : LinesAskedParts(c, asked)[i] = LinesAdded(c, asked[i].added)
      /\ \A i \in 1 .. n : FacesAskedParts(c, asked)[i] = FacesAdded(c, asked[i].added)
  BY <1>2 DEF LinesAskedParts, FacesAskedParts
<1>5. n + 1 \in 1 .. n + 1 /\ n <= n + 1 /\ \A i \in 1 .. n : i \in 1 .. n + 1
  BY <1>1
<1>. HIDE DEF n
<1>6. /\ Extends(LinesAskedParts(c, all), LinesAskedParts(c, asked))
      /\ Extends(FacesAskedParts(c, all), FacesAskedParts(c, asked))
  BY <1>1, <1>3, <1>4, <1>5 DEF Extends, Parts
<1>7. FlattenSeq(LinesAskedParts(c, all))
        = FlattenSeq(LinesAskedParts(c, asked)) \o LinesAdded(c, r.added)
  <2>1. FlattenSeq(LinesAskedParts(c, all))
          = FlattenSeq(LinesAskedParts(c, asked)) \o LinesAskedParts(c, all)[n + 1]
    BY ZenonT(60), <1>3, <1>6, FlattenOne DEF Parts
  <2>. QED  BY <1>1, <1>4, <1>5, <2>1
<1>8. FlattenSeq(FacesAskedParts(c, all))
        = FlattenSeq(FacesAskedParts(c, asked)) \o FacesAdded(c, r.added)
  <2>1. FlattenSeq(FacesAskedParts(c, all))
          = FlattenSeq(FacesAskedParts(c, asked)) \o FacesAskedParts(c, all)[n + 1]
    BY ZenonT(60), <1>3, <1>6, FlattenOne DEF Parts
  <2>. QED  BY <1>1, <1>4, <1>5, <2>1
<1>9. \A t : /\ LinesAsked(c, t) = FlattenSeq(LinesAskedParts(c, t))
             /\ FacesAsked(c, t) = FlattenSeq(FacesAskedParts(c, t))
  BY DEF LinesAsked, FacesAsked, LinesAskedParts, FacesAskedParts
<1>. QED  BY <1>7, <1>8, <1>9 DEF all

-----------------------------------------------------------------------------
(* All that an entity adds.                                                  *)

ThreeOf(S, u, v, w) == u \in Seq(S) /\ v \in Seq(S) /\ w \in Seq(S)

LEMMA OneAfterAnother ==
  ASSUME NEW S, NEW u, NEW v, NEW w, ThreeOf(S, u, v, w)
  PROVE  (u \o v) \o w = u \o (v \o w)
BY ConcatAssociative DEF ThreeOf

LEMMA ShowsThen ==
  ASSUME NEW ls \in GoodLayers, NEW v, NEW w, NEW c,
         NEW a \in Seq(Seq(Place)), NEW b \in Seq(Seq(Place)),
         NEW x \in Seq(Seq(Place)), NEW y \in Seq(Seq(Place)),
         ShowsAt(v, ls, c, a, x), ShowsAt(w, v, c, b, y)
  PROVE  ShowsAt(w, ls, c, a \o b, x \o y)
<1>. DEFINE Q == Seq(Place)
            l == LinesAt(ls, c)
            f == FacesAt(ls, c)
<1>1. ThreeOf(Q, l, a, b) /\ ThreeOf(Q, f, x, y)
  BY TypesAt DEF ThreeOf
<1>2. /\ LinesAt(w, c) = (l \o a) \o b
      /\ FacesAt(w, c) = (f \o x) \o y
  BY DEF ShowsAt
<1>. HIDE DEF Q, l, f
<1>3. (l \o a) \o b = l \o (a \o b)
  BY SMTT(60), <1>1, OneAfterAnother
<1>4. (f \o x) \o y = f \o (x \o y)
  BY <1>1, OneAfterAnother
<1>. QED  BY <1>2, <1>3, <1>4 DEF ShowsAt, l, f

AllAdded(ls, todo) == [k \in DOMAIN todo |-> AddedTo(ls, todo[k])]

\* new is what ls has become after part of todo, which adds added
Reached(new, ls, added) ==
  /\ new \in GoodLayers /\ DOMAIN ls \subseteq DOMAIN new
  /\ \A i \in 1 .. Len(added) : added[i].layer \in DOMAIN new
  /\ \A c : /\ FillAt(new, c) = FillAt(ls, c)
            /\ ShowsAt(new, ls, c, LinesAdded(c, added), FacesAdded(c, added))

LEMMA ReachedStart ==
  ASSUME NEW ls \in GoodLayers
  PROVE  Reached(ls, ls, << >>)
<1>1. ASSUME NEW c PROVE ShowsAt(ls, ls, c, LinesAdded(c, << >>), FacesAdded(c, << >>))
  <2>1. /\ [k \in DOMAIN << >> |-> LinesOf(c, << >>[k])] = << >>
        /\ [k \in DOMAIN << >> |-> FacesOf(c, << >>[k])] = << >>
    OBVIOUS
  <2>2. LinesAdded(c, << >>) = << >> /\ FacesAdded(c, << >>) = << >>
    BY <2>1, FlattenEmpty DEF LinesAdded, FacesAdded
  <2>. QED  BY <2>2, TypesAt, ConcatEmptySeq DEF ShowsAt
<1>. QED  BY <1>1, EmptySeq DEF Reached

LEMMA ReachedNext ==
  ASSUME NEW ls \in GoodLayers, NEW added \in Seq(Added), NEW v, Reached(v, ls, added),
         NEW item \in Items
  PROVE  Reached(Put(v, item), ls, Append(added, AddedTo(ls, item)))
<1>. DEFINE w == Put(v, item)
            p == AddedTo(ls, item)
            all == Append(added, p)
            n == Len(added)
<1>1. v \in GoodLayers /\ DOMAIN ls \subseteq DOMAIN v
  BY DEF Reached
<1>2. AddedTo(v, item) = p
  BY DEF Reached, AddedTo
<1>3. /\ w \in GoodLayers /\ DOMAIN w = DOMAIN v \cup {item.layer} /\ p \in Added
      /\ \A c : /\ FillAt(w, c) = FillAt(v, c)
                /\ ShowsAt(w, v, c, LinesOf(c, p), FacesOf(c, p))
  BY <1>1, <1>2, PutShows
<1>4. p.layer = item.layer
  BY DEF AddedTo
<1>. HIDE DEF w, p
<1>5. /\ all \in Seq(Added) /\ Len(all) = n + 1 /\ n \in Nat
      /\ all[n + 1] = p /\ \A i \in 1 .. n : all[i] = added[i]
  BY <1>3, AppendProperties, LenProperties
<1>6. ASSUME NEW c PROVE ShowsAt(w, ls, c, LinesAdded(c, all), FacesAdded(c, all))
  <2>1. ShowsAt(v, ls, c, LinesAdded(c, added), FacesAdded(c, added))
    BY DEF Reached
  <2>2. ShowsAt(w, v, c, LinesOf(c, p), FacesOf(c, p))
    BY <1>3
  <2>3. /\ LinesAdded(c, added) \in Seq(Seq(Place)) /\ FacesAdded(c, added) \in Seq(Seq(Place))
        /\ LinesOf(c, p) \in Seq(Seq(Place)) /\ FacesOf(c, p) \in Seq(Seq(Place))
    BY <1>3, AddedTypes, OfType
  <2>4. ShowsAt(w, ls, c, LinesAdded(c, added) \o LinesOf(c, p),
                FacesAdded(c, added) \o FacesOf(c, p))
    BY <2>1, <2>2, <2>3, ShowsThen
  <2>5. /\ LinesAdded(c, all) = LinesAdded(c, added) \o LinesOf(c, p)
        /\ FacesAdded(c, all) = FacesAdded(c, added) \o FacesOf(c, p)
    BY <1>3, AddedAppend
  <2>. QED  BY <2>4, <2>5
<1>. HIDE DEF all
<1>7. \A i \in 1 .. Len(all) : all[i].layer \in DOMAIN w
  <2>1. \A i \in 1 .. n + 1 : i \in 1 .. n \/ i = n + 1
    BY <1>5
  <2>2. \A i \in 1 .. n : added[i].layer \in DOMAIN v
    BY DEF Reached
  <2>. QED  BY <1>3, <1>4, <1>5, <2>1, <2>2
<1>8. \A c : FillAt(w, c) = FillAt(ls, c)
  BY <1>3 DEF Reached
<1>9. DOMAIN ls \subseteq DOMAIN w
  BY <1>1, <1>3
<1>10. Reached(w, ls, all)
  BY <1>3, <1>6, <1>7, <1>8, <1>9 DEF Reached
<1>. QED  BY <1>10 DEF w, all, p

LEMMA AddAllReaches ==
  ASSUME NEW ls \in GoodLayers, NEW todo \in Seq(Items)
  PROVE  /\ AllAdded(ls, todo) \in Seq(Added)
         /\ DOMAIN AllAdded(ls, todo) = DOMAIN todo
         /\ Reached(AddAll(ls, todo), ls, AllAdded(ls, todo))
<1>. DEFINE n == Len(todo)
            Q == GoodLayers
            added == AllAdded(ls, todo)
            Body(f, k) == IF k = 0 THEN ls
                          ELSE [Opened(f[k - 1], todo[k].layer)
                                  EXCEPT ![todo[k].layer] = Add(@, todo[k].pts)]
            Eq(f) == f = [k \in 0 .. n |-> Body(f, k)]
            g == [k \in 1 .. n |-> [v \in Q |-> Put(v, todo[k])]]
            after == CHOOSE f : Eq(f)
<1>1. n \in Nat /\ DOMAIN todo = 1 .. n /\ \A k \in 1 .. n : todo[k] \in Items
  BY LenProperties, ElementOfSeq
<1>2. /\ added \in Seq(Added) /\ Len(added) = n /\ DOMAIN added = 1 .. n
      /\ \A k \in 1 .. n : added[k] = AddedTo(ls, todo[k])
  <2>1. \A k \in 1 .. n : AddedTo(ls, todo[k]) \in Added
    BY <1>1, PutShows
  <2>2. added \in [1 .. n -> Added] /\ \A k \in 1 .. n : added[k] = AddedTo(ls, todo[k])
    <3>. HIDE DEF n
    <3>. QED  BY <1>1, <2>1 DEF AllAdded
  <2>. HIDE DEF n, added
  <2>. QED  BY <1>1, <2>2, FunctionIsSeq
<1>. HIDE DEF added
<1>3. \A f, k : Body(f, k) = IF k = 0 THEN ls ELSE Put(f[k - 1], todo[k])
  BY DEF Put
<1>4. g \in [1 .. n -> [Q -> Q]]
  <2>1. \A k \in 1 .. n, v \in Q : Put(v, todo[k]) \in Q
    BY <1>1, PutShows
  <2>. HIDE DEF n, Q
  <2>. QED  BY <2>1
<1>5. PICK f \in [0 .. n -> Q] : Follows(f, n, ls, g)
  <2>1. n \in Nat /\ ls \in Q
    BY <1>1
  <2>. HIDE DEF n, g, Q
  <2>. QED  BY <1>4, <2>1, Recursion
<1>. HIDE DEF Body
<1>6. Eq(f)
  <2>1. ASSUME NEW k \in 0 .. n PROVE f[k] = Body(f, k)
    <3>1. CASE k = 0
      BY <1>3, <1>5, <3>1 DEF Follows
    <3>2. CASE k # 0
      <4>1. k \in 1 .. n /\ k - 1 \in 0 .. n
        BY <1>1, <3>2
      <4>2. f[k - 1] \in Q
        BY <4>1
      <4>. HIDE DEF Q
      <4>3. f[k] = Put(f[k - 1], todo[k])
        BY <1>5, <4>1, <4>2 DEF Follows
      <4>. QED  BY <1>3, <3>2, <4>3
    <3>. QED  BY <3>1, <3>2
  <2>. HIDE DEF n
  <2>. QED  BY <2>1
<1>7. Eq(after)
  <2>. HIDE DEF Eq
  <2>. QED  BY <1>6
<1>8. AddAll(ls, todo) = after[n]
  BY DEF AddAll, Body
<1>. HIDE DEF after
<1>9. \A k \in 0 .. n : after[k] = Body(after, k)
  <2>. HIDE DEF n
  <2>. DEFINE r == [k \in 0 .. n |-> Body(after, k)]
  <2>1. after = r
    BY <1>7
  <2>2. \A k \in 0 .. n : r[k] = Body(after, k)
    OBVIOUS
  <2>. HIDE DEF r
  <2>. QED  BY <2>1, <2>2
<1>. DEFINE T == {k \in 0 .. n : Reached(after[k], ls, SubSeq(added, 1, k))}
<1>10. 0 \in T
  <2>1. SubSeq(added, 1, 0) = << >>
    BY <1>2, FirstOnes
  <2>2. after[0] = ls /\ 0 \in 0 .. n
    BY <1>1, <1>3, <1>9
  <2>. QED  BY <2>1, <2>2, ReachedStart
<1>11. ASSUME NEW k \in 1 .. n, k - 1 \in T PROVE k \in T
  <2>. DEFINE a == SubSeq(added, 1, k - 1)
  <2>1. /\ Reached(after[k - 1], ls, a) /\ k \in 0 .. n /\ k - 1 \in 0 .. Len(added)
        /\ k \in 1 .. Len(added) /\ k # 0
    BY <1>1, <1>2, <1>11
  <2>2. after[k] = Put(after[k - 1], todo[k])
    BY <1>3, <1>9, <2>1
  <2>3. a \in Seq(Added) /\ SubSeq(added, 1, k) = Append(a, AddedTo(ls, todo[k]))
    BY <1>2, <2>1, FirstOnes
  <2>. HIDE DEF a
  <2>4. todo[k] \in Items
    BY <1>1
  <2>5. Reached(Put(after[k - 1], todo[k]), ls, Append(a, AddedTo(ls, todo[k])))
    BY <2>1, <2>3, <2>4, ReachedNext
  <2>. QED  BY <2>1, <2>2, <2>3, <2>5
<1>12. n \in T
  <2>1. n \in Nat /\ n \in 0 .. n
    BY <1>1
  <2>. HIDE DEF n, T
  <2>2. 0 .. n \subseteq T
    BY <2>1, <1>10, <1>11, UpTo
  <2>. QED  BY <2>1, <2>2
<1>13. SubSeq(added, 1, n) = added
  BY <1>2, FirstOnes
<1>. QED  BY <1>1, <1>2, <1>8, <1>12, <1>13 DEF added

-----------------------------------------------------------------------------
(* The primitives of an entity.                                              *)

Primitive(W) == [who : W, pts : Points]

LEMMA TuplePoints ==
  ASSUME NEW a \in Place, NEW b \in Place, NEW c \in Place, NEW d \in Place
  PROVE  <<a>> \in Points /\ <<a, b>> \in Points /\ <<a, b, c, d>> \in Points
BY DEF Points

LEMMA UpPlace ==
  ASSUME NEW p \in Place, NEW t \in Int
  PROVE  Up(p, t) \in Place
BY DEF Up, Place

LEMMA LevelPlace ==
  ASSUME NEW e, e.elev \in Int, NEW p \in Place
  PROVE  Level(e, p) \in Place
BY DEF Level, Place

LEMMA WallPoints ==
  ASSUME NEW a \in Place, NEW b \in Place, NEW t \in Int
  PROVE  Wall(a, b, t) \in Points
BY UpPlace, TuplePoints DEF Wall

\* a sequence as a function
LEMMA FunctionPoints ==
  ASSUME NEW n \in Nat, n > 0, NEW f \in [1 .. n -> Place]
  PROVE  f \in Points /\ Len(f) = n /\ DOMAIN f = 1 .. n
<1>1. f \in Seq(Place) /\ Len(f) = n /\ DOMAIN f = 1 .. n
  BY FunctionIsSeq
<1>2. f # << >>
  BY <1>1
<1>. QED  BY <1>1, <1>2 DEF Points

LEMMA PrimType ==
  ASSUME NEW W, NEW who \in W, NEW pts \in Points
  PROVE  /\ Prim(who, pts) \in Seq(Primitive(W))
         /\ Prim(who, pts)[1] \in Primitive(W)
<1>. DEFINE r == [who |-> who, pts |-> pts]
            S == Primitive(W)
<1>1. r \in S
  BY DEF Primitive
<1>2. Prim(who, pts) = <<r>>
  BY DEF Prim
<1>. HIDE DEF r, S
<1>. QED  BY <1>1, <1>2 DEF S

LEMMA LineType ==
  ASSUME NEW e, IsEntity(e), e.kind = "line"
  PROVE  LinePrims(e) \in Seq(Primitive({e}))
<1>. DEFINE a == Level(e, e.pts[1])
            b == Level(e, e.pts[2])
<1>1. e.pts[1] \in Place /\ e.pts[2] \in Place /\ e.elev \in Int /\ e.thick \in Int
  <2>1. e.pts \in Seq(Place) /\ Len(e.pts) = 2 /\ e.elev \in Int /\ e.thick \in Int
    BY DEF IsEntity
  <2>2. 1 \in 1 .. Len(e.pts) /\ 2 \in 1 .. Len(e.pts)
    BY <2>1
  <2>. QED  BY <2>1, <2>2, ElementOfSeq
<1>2. a \in Place /\ b \in Place
  BY <1>1, LevelPlace
<1>. HIDE DEF a, b
<1>3. Wall(a, b, e.thick) \in Points /\ <<a, b>> \in Points
  BY <1>1, <1>2, WallPoints, TuplePoints
<1>. QED  BY <1>3, PrimType DEF LinePrims, a, b

LEMMA PointType ==
  ASSUME NEW e, IsEntity(e), e.kind = "point"
  PROVE  PointPrims(e) \in Seq(Primitive({e}))
<1>. DEFINE a == Level(e, e.pts[1])
<1>1. e.pts[1] \in Place /\ e.elev \in Int /\ e.thick \in Int
  <2>1. e.pts \in Seq(Place) /\ Len(e.pts) = 1 /\ e.elev \in Int /\ e.thick \in Int
    BY DEF IsEntity
  <2>2. 1 \in 1 .. Len(e.pts)
    BY <2>1
  <2>. QED  BY <2>1, <2>2, ElementOfSeq
<1>2. a \in Place
  BY <1>1, LevelPlace
<1>. HIDE DEF a
<1>3. <<a, Up(a, e.thick)>> \in Points /\ <<a>> \in Points
  BY <1>1, <1>2, UpPlace, TuplePoints
<1>. QED  BY <1>3, PrimType DEF PointPrims, a

LEMMA FaceType ==
  ASSUME NEW e, IsEntity(e), e.kind = "3dface"
  PROVE  FacePrims(e) \in Seq(Primitive({e}))
<1>1. e.pts \in Seq(Place) /\ Len(e.pts) = 4
  BY DEF IsEntity
<1>2. e.pts \in Points
  BY SMTT(60), <1>1 DEF Points
<1>3. SubSeq(e.pts, 1, 3) \in Points
  <2>1. 3 \in 0 .. Len(e.pts)
    BY <1>1
  <2>2. SubSeq(e.pts, 1, 3) \in Seq(Place) /\ Len(SubSeq(e.pts, 1, 3)) = 3
    BY <1>1, <2>1, FirstOnes
  <2>. DEFINE s == SubSeq(e.pts, 1, 3)
  <2>3. s \in Seq(Place) /\ Len(s) = 3
    BY <2>2
  <2>. HIDE DEF s
  <2>4. s \in Points
    BY <2>3 DEF Points
  <2>. QED  BY <2>4 DEF s
<1>. QED  BY <1>2, <1>3, PrimType DEF FacePrims

\* the four cases of a SOLID, and the walls of the last
SolidCase(e, n, u, roof, walls) ==
  CASE e.thick = 0 -> Prim(e, u)
    [] n = 1 -> Prim(e, u \o roof)
    [] n = 2 -> Prim(e, Wall(u[1], u[2], e.thick))
    [] OTHER -> Prim(e, u) \o Prim(e, roof) \o walls

LEMMA SolidType ==
  ASSUME NEW e, IsEntity(e), e.kind = "solid"
  PROVE  SolidPrims(e) \in Seq(Primitive({e}))
<1>. DEFINE level == [k \in DOMAIN e.pts |-> Level(e, e.pts[k])]
            given == Distinct(level)
            n == Len(given)
            u == [k \in 1 .. n |-> given[Around(n)[k]]]
            roof == [k \in 1 .. n |-> Up(u[k], e.thick)]
            S == Primitive({e})
            walls == [k \in 1 .. n |-> Prim(e, Wall(u[k], u[(k % n) + 1], e.thick))[1]]
<1>0. SolidPrims(e) = SolidCase(e, n, u, roof, walls)
  BY DEF SolidPrims, SolidCase
<1>1. /\ e.pts \in Seq(Place) /\ Len(e.pts) = 4 /\ DOMAIN e.pts = 1 .. 4
      /\ e.elev \in Int /\ e.thick \in Int
  <2>1. e.pts \in Seq(Place) /\ Len(e.pts) = 4 /\ e.elev \in Int /\ e.thick \in Int
    BY DEF IsEntity
  <2>. QED  BY <2>1, LenProperties
<1>2. \A k \in 1 .. 4 : Level(e, e.pts[k]) \in Place
  BY <1>1, ElementOfSeq, LevelPlace
<1>3. level \in Seq(Place) /\ Len(level) = 4
  <2>1. level \in [1 .. 4 -> Place]
    <3>. HIDE DEF Place
    <3>. QED  BY <1>1, <1>2
  <2>. HIDE DEF level
  <2>2. 4 \in Nat
    OBVIOUS
  <2>. QED  BY ZenonT(60), <2>1, <2>2, FunctionIsSeq
<1>. HIDE DEF level
<1>4. given \in Seq(Place) /\ n \in Nat \ {0} /\ \A k \in 1 .. n : given[k] \in Place
  <2>1. << >> \in Seq(Place) /\ NoRepeat(<< >>)
    BY EmptySeq DEF NoRepeat
  <2>2. /\ Grown(Place, given, << >>)
        /\ \A k \in 1 .. Len(level) : Listed(level[k], given)
    BY <1>3, <2>1, EnterAll DEF Distinct
  <2>3. given \in Seq(Place)
    BY <2>2 DEF Grown
  <2>4. 1 \in 1 .. Len(level)
    BY <1>3
  <2>5. PICK i \in 1 .. n : given[i] = level[1]
    BY <2>2, <2>4 DEF Listed
  <2>6. n \in Nat /\ \A k \in 1 .. n : given[k] \in Place
    BY <2>3, ElementOfSeq, LenProperties
  <2>7. n # 0
    BY <2>5
  <2>. QED  BY <2>3, <2>6, <2>7
<1>. HIDE DEF given, n
<1>5. \A k \in 1 .. n : Around(n)[k] \in 1 .. n
  <2>1. CASE n = 4
    BY <2>1 DEF Around
  <2>2. CASE n # 4
    BY <2>2 DEF Around
  <2>. QED  BY <2>1, <2>2
<1>6. /\ u \in [1 .. n -> Place] /\ \A k \in 1 .. n : u[k] \in Place
  <2>. HIDE DEF Place
  <2>. QED  BY <1>4, <1>5
<1>. HIDE DEF u
<1>7. roof \in [1 .. n -> Place]
  <2>1. \A k \in 1 .. n : Up(u[k], e.thick) \in Place
    BY <1>1, <1>6, UpPlace
  <2>. HIDE DEF Place
  <2>. QED  BY <2>1
<1>. HIDE DEF roof
<1>8. n \in Nat /\ n > 0
  BY <1>4
<1>9. u \in Points /\ roof \in Points
  BY <1>6, <1>7, <1>8, FunctionPoints
<1>10. u \o roof \in Points
  <2>. DEFINE Q == Place
  <2>1. u \in Seq(Q) /\ roof \in Seq(Q) /\ Len(u) = n
    BY <1>6, <1>8, <1>9, FunctionPoints DEF Points
  <2>. HIDE DEF Q
  <2>2. u \o roof \in Seq(Q) /\ Len(u \o roof) = Len(u) + Len(roof) /\ Len(roof) \in Nat
    BY <2>1, ConcatProperties, LenProperties
  <2>3. Len(u \o roof) > 0
    BY <2>1, <2>2, <1>8
  <2>4. u \o roof # << >>
    BY <2>3
  <2>. QED  BY <2>2, <2>4 DEF Points, Q
<1>11. \A k \in 1 .. n : Wall(u[k], u[(k % n) + 1], e.thick) \in Points
  <2>1. \A k \in 1 .. n : (k % n) + 1 \in 1 .. n
    BY <1>8
  <2>. QED  BY <1>1, <1>6, <2>1, WallPoints
<1>12. walls \in Seq(S)
  <2>1. \A k \in 1 .. n : Prim(e, Wall(u[k], u[(k % n) + 1], e.thick))[1] \in S
    BY <1>11, PrimType
  <2>. HIDE DEF S
  <2>2. walls \in [1 .. n -> S]
    BY <2>1
  <2>. HIDE DEF walls
  <2>. QED  BY <1>8, <2>2, FunctionIsSeq
<1>13. n = 2 => Wall(u[1], u[2], e.thick) \in Points
  BY <1>1, <1>6, WallPoints
<1>14. /\ Prim(e, u) \in Seq(S) /\ Prim(e, roof) \in Seq(S) /\ Prim(e, u \o roof) \in Seq(S)
       /\ n = 2 => Prim(e, Wall(u[1], u[2], e.thick)) \in Seq(S)
  BY <1>9, <1>10, <1>13, PrimType
<1>. HIDE DEF S, walls
<1>15. Prim(e, u) \o Prim(e, roof) \o walls \in Seq(S)
  BY <1>12, <1>14, ConcatProperties
<1>16. \/ SolidPrims(e) = Prim(e, u)
       \/ SolidPrims(e) = Prim(e, u \o roof)
       \/ n = 2 /\ SolidPrims(e) = Prim(e, Wall(u[1], u[2], e.thick))
       \/ SolidPrims(e) = Prim(e, u) \o Prim(e, roof) \o walls
  BY <1>0 DEF SolidCase
<1>. QED  BY <1>14, <1>15, <1>16 DEF S

\* polylines
HasPlaces(e) ==
  /\ Len(e.vs) \in Nat /\ DOMAIN e.vs = 1 .. Len(e.vs)
  /\ \A i \in 1 .. Len(e.vs) : e.vs[i] \in ToSet(e.vs) /\ e.vs[i].pt \in Place

LEMMA PolyPlaces ==
  ASSUME NEW e, IsEntity(e), e.kind \in {"polyline", "lwpolyline"}
  PROVE  HasPlaces(e)
<1>1. e.vs \in Seq(ToSet(e.vs)) /\ \A v \in ToSet(e.vs) : v.pt \in Place
  BY DEF IsEntity
<1>2. \A i \in 1 .. Len(e.vs) : e.vs[i] \in ToSet(e.vs)
  BY <1>1, ElementOfSeq
<1>. QED  BY <1>1, <1>2, LenProperties DEF HasPlaces

LEMMA NextVertex ==
  ASSUME NEW e, HasPlaces(e), NEW i \in 1 .. Len(e.vs)
  PROVE  NextOf(e, i) \in 1 .. Len(e.vs) /\ PrevOf(e, i) \in Int
<1>. DEFINE n == Len(e.vs)
<1>1. n \in Nat /\ i \in 1 .. n
  BY DEF HasPlaces
<1>. HIDE DEF n
<1>2. (i % n) + 1 \in 1 .. n /\ (IF i = 1 THEN n ELSE i - 1) \in Int
  BY <1>1
<1>. QED  BY <1>2 DEF n, NextOf, PrevOf

LEMMA CornerPlace ==
  ASSUME NEW e, HasPlaces(e), NEW i \in 1 .. Len(e.vs), NEW k \in 0 .. 3
  PROVE  Corner(e, i, k) \in Place
<1>1. i \in Int /\ e.vs[i].pt \in Place /\ e.vs[NextOf(e, i)].pt \in Place
  BY SMTT(60), NextVertex DEF HasPlaces
<1>2. <<-(10 * i + k), 1, 0>> \in Place
  BY SMTT(60), <1>1 DEF Place
<1>. QED  BY <1>1, <1>2 DEF Corner

LEMMA JointPlace ==
  ASSUME NEW e, NEW i \in Int, NEW k \in 0 .. 3
  PROVE  Joint(e, i, k) \in Place
<1>1. <<-(10 * i + (k % 2)), 2, 0>> \in Place /\ <<-(10 * i + k), 2, 0>> \in Place
  BY DEF Place
<1>. QED  BY <1>1 DEF Joint

LEMMA SixParts ==
  ASSUME NEW S, NEW a \in Seq(S), NEW b \in Seq(S), NEW c \in Seq(S), NEW d \in Seq(S),
         NEW f \in Seq(S), NEW g \in Seq(S)
  PROVE  a \o b \o c \o d \o f \o g \in Seq(S)
<1>1. a \o b \in Seq(S)
  BY ConcatProperties
<1>2. a \o b \o c \in Seq(S)
  BY <1>1, ConcatProperties
<1>3. a \o b \o c \o d \in Seq(S)
  BY <1>2, ConcatProperties
<1>4. a \o b \o c \o d \o f \in Seq(S)
  BY <1>3, ConcatProperties
<1>. QED  BY <1>4, ConcatProperties

\* the cases of dxfLineSegment::convert(), given the places
SegmentCase(e, i, prev, next, who, a, b, v0, v1, v2, v3) ==
  CASE e.vs[i].w0 = 0 /\ e.vs[i].w1 = 0 ->
         Prim(who, IF e.thick = 0 THEN <<a, b>> ELSE Wall(a, b, e.thick))
    [] e.thick = 0 -> Prim(who, <<v0, v1, v3, v2>>)
    [] OTHER ->
         Prim(who, <<v0, v1, v3, v2>>)
         \o Prim(who, [k \in 1 .. 4 |-> Up(<<v0, v1, v3, v2>>[k], e.thick)])
         \o Prim(who, Wall(v0, v1, e.thick))
         \o Cap(next = None, Prim(who, Wall(v1, v3, e.thick)))
         \o Prim(who, Wall(v3, v2, e.thick))
         \o Cap(prev = None, Prim(who, Wall(v2, v0, e.thick)))

SegmentPick(v, thick, line, face, solid) ==
  CASE v.w0 = 0 /\ v.w1 = 0 -> line
    [] thick = 0 -> face
    [] OTHER -> solid

LEMMA SegmentCaseType ==
  ASSUME NEW W, NEW e, e.thick \in Int, NEW i, NEW prev, NEW next, NEW who \in W,
         NEW a \in Place, NEW b \in Place, NEW v0 \in Place, NEW v1 \in Place,
         NEW v2 \in Place, NEW v3 \in Place
  PROVE  SegmentCase(e, i, prev, next, who, a, b, v0, v1, v2, v3) \in Seq(Primitive(W))
<1>. DEFINE S == Primitive(W)
            t == e.thick
            base == <<v0, v1, v3, v2>>
            top == [k \in 1 .. 4 |-> Up(base[k], t)]
            line == IF t = 0 THEN <<a, b>> ELSE Wall(a, b, t)
            p1 == Prim(who, base)
            p2 == Prim(who, top)
            p3 == Prim(who, Wall(v0, v1, t))
            p4 == Cap(next = None, Prim(who, Wall(v1, v3, t)))
            p5 == Prim(who, Wall(v3, v2, t))
            p6 == Cap(prev = None, Prim(who, Wall(v2, v0, t)))
            all == p1 \o p2 \o p3 \o p4 \o p5 \o p6
            flat == Prim(who, line)
<1>0. SegmentCase(e, i, prev, next, who, a, b, v0, v1, v2, v3)
        = SegmentPick(e.vs[i], t, flat, p1, all)
  BY DEF SegmentCase, SegmentPick
<1>1. base \in Points /\ line \in Points /\ Wall(v0, v1, t) \in Points
      /\ Wall(v1, v3, t) \in Points /\ Wall(v3, v2, t) \in Points /\ Wall(v2, v0, t) \in Points
  BY TuplePoints, WallPoints
<1>2. top \in Points
  <2>1. \A k \in 1 .. 4 : base[k] \in Place
    OBVIOUS
  <2>2. \A k \in 1 .. 4 : Up(base[k], t) \in Place
    BY <2>1, UpPlace
  <2>3. top \in [1 .. 4 -> Place]
    <3>. HIDE DEF Place, base
    <3>. QED  BY <2>2
  <2>4. 4 \in Nat /\ 4 > 0
    OBVIOUS
  <2>. HIDE DEF top
  <2>. QED  BY <2>3, <2>4, FunctionPoints
<1>3. \A pts \in Points : Prim(who, pts) \in Seq(S)
  BY PrimType
<1>4. << >> \in Seq(S)
  BY EmptySeq
<1>. HIDE DEF S, base, top, line
<1>5. /\ p1 \in Seq(S) /\ p2 \in Seq(S) /\ p3 \in Seq(S) /\ p4 \in Seq(S)
      /\ p5 \in Seq(S) /\ p6 \in Seq(S) /\ Prim(who, line) \in Seq(S)
  BY <1>1, <1>2, <1>3, <1>4 DEF Cap
<1>. HIDE DEF p1, p2, p3, p4, p5, p6
<1>6. all \in Seq(S)
  BY <1>5, SixParts
<1>. HIDE DEF all, flat
<1>7. flat \in Seq(S) /\ p1 \in Seq(S)
  BY <1>5 DEF flat
<1>8. SegmentPick(e.vs[i], t, flat, p1, all) \in Seq(S)
  BY <1>6, <1>7 DEF SegmentPick
<1>. QED  BY <1>0, <1>8 DEF S

LEMMA SegmentType ==
  ASSUME NEW W, NEW e, HasPlaces(e), e.thick \in Int, NEW i \in 1 .. Len(e.vs),
         NEW prev \in Int, NEW next \in Int, NEW who \in W
  PROVE  SegmentPrims(e, i, prev, next, who) \in Seq(Primitive(W))
<1>. DEFINE a == e.vs[i].pt
            b == e.vs[NextOf(e, i)].pt
            v0 == IF prev # None THEN Joint(e, prev, 2) ELSE Corner(e, i, 0)
            v2 == IF prev # None THEN Joint(e, prev, 3) ELSE Corner(e, i, 2)
            v1 == IF next # None THEN Joint(e, i, 0) ELSE Corner(e, i, 1)
            v3 == IF next # None THEN Joint(e, i, 1) ELSE Corner(e, i, 3)
<1>1. a \in Place /\ b \in Place /\ i \in Int
  <2>1. NextOf(e, i) \in 1 .. Len(e.vs)
    BY NextVertex
  <2>. QED  BY <2>1 DEF HasPlaces
<1>2. v0 \in Place /\ v1 \in Place /\ v2 \in Place /\ v3 \in Place
  <2>1. \A k \in 0 .. 3 : Corner(e, i, k) \in Place /\ Joint(e, i, k) \in Place
    BY <1>1, CornerPlace, JointPlace
  <2>2. Joint(e, prev, 2) \in Place /\ Joint(e, prev, 3) \in Place
    BY JointPlace
  <2>. QED  BY <2>1, <2>2
<1>3. SegmentPrims(e, i, prev, next, who)
        = SegmentCase(e, i, prev, next, who, a, b, v0, v1, v2, v3)
  BY DEF SegmentPrims, SegmentCase
<1>. HIDE DEF a, b, v0, v1, v2, v3
<1>. QED  BY <1>1, <1>2, <1>3, SegmentCaseType

AllIn(who, n, W) == \A i \in 1 .. n : who[i] \in W

LEMMA ChainType ==
  ASSUME NEW W, NEW e, HasPlaces(e), e.thick \in Int, NEW closed, NEW who,
         AllIn(who, Len(e.vs), W)
  PROVE  ChainPrims(e, closed, who) \in Seq(Primitive(W))
<1>. DEFINE S == Primitive(W)
            Q == Seq(S)
            n == Len(e.vs)
            stop == IF closed THEN n ELSE n - 1
            m == IF stop < 0 THEN 0 ELSE stop
            part(i) == SegmentPrims(e, i, IF i > 1 \/ closed THEN PrevOf(e, i) ELSE None,
                                    IF i < stop THEN i + 1 ELSE None, who[i])
            parts == [i \in 1 .. stop |-> part(i)]
<1>1. n \in Nat /\ stop \in Int /\ m \in Nat /\ 1 .. stop = 1 .. m
      /\ \A i \in 1 .. m : i \in 1 .. n
  BY DEF HasPlaces
<1>2. ASSUME NEW i \in 1 .. m PROVE part(i) \in Q
  <2>. DEFINE prev == IF i > 1 \/ closed THEN PrevOf(e, i) ELSE None
              next == IF i < stop THEN i + 1 ELSE None
  <2>1. i \in 1 .. n /\ i \in Int
    BY <1>1
  <2>2. prev \in Int /\ next \in Int /\ who[i] \in W
    BY <2>1, NextVertex DEF None, AllIn
  <2>. HIDE DEF prev, next, n
  <2>3. SegmentPrims(e, i, prev, next, who[i]) \in Seq(Primitive(W))
    BY <2>1, <2>2, SegmentType DEF n
  <2>. QED  BY <2>3 DEF prev, next
<1>3. ChainPrims(e, closed, who) = FlattenSeq(parts)
  BY DEF ChainPrims
<1>. HIDE DEF part, m, stop, Q
<1>4. parts \in [1 .. m -> Q]
  BY <1>1, <1>2
<1>. HIDE DEF parts
<1>5. parts \in Seq(Q)
  BY <1>1, <1>4, FunctionIsSeq
<1>. HIDE DEF S
<1>6. FlattenSeq(parts) \in Seq(S)
  BY <1>5, FlattenType DEF Q
<1>. QED  BY <1>3, <1>6 DEF S

LEMMA LWType ==
  ASSUME NEW e, IsEntity(e), e.kind = "lwpolyline"
  PROVE  LWPrims(e) \in Seq(Primitive({e}))
<1>. DEFINE who == [i \in DOMAIN e.vs |-> e]
<1>1. HasPlaces(e) /\ e.thick \in Int
  BY PolyPlaces DEF IsEntity
<1>2. AllIn(who, Len(e.vs), {e})
  BY <1>1 DEF AllIn, HasPlaces
<1>3. LWPrims(e) = ChainPrims(e, e.closed, who)
  BY DEF LWPrims
<1>. HIDE DEF who
<1>. QED  BY <1>1, <1>2, <1>3, ChainType

LEMMA WideType ==
  ASSUME NEW e, IsEntity(e), IsPoly(e, "wide")
  PROVE  WidePrims(e) \in Seq(Primitive(ToSet(e.vs)))
<1>. DEFINE W == ToSet(e.vs)
            closed == e.closed /\ Len(e.vs) > 2
<1>1. HasPlaces(e) /\ e.thick \in Int
  BY PolyPlaces DEF IsEntity, IsPoly
<1>2. AllIn(e.vs, Len(e.vs), W)
  BY <1>1 DEF AllIn, HasPlaces
<1>3. WidePrims(e) = ChainPrims(e, closed, e.vs)
  BY DEF WidePrims
<1>. HIDE DEF W, closed
<1>4. ChainPrims(e, closed, e.vs) \in Seq(Primitive(W))
  BY <1>1, <1>2, ChainType
<1>. QED  BY <1>3, <1>4 DEF W

LEMMA Line3dType ==
  ASSUME NEW e, IsEntity(e), IsPoly(e, "3d")
  PROVE  Line3dPrims(e) \in Seq(Primitive(ToSet(e.vs)))
<1>. DEFINE W == ToSet(e.vs)
            S == Primitive(W)
            n == Len(e.vs)
            stop == IF e.closed THEN n ELSE n - 1
            m == IF stop < 0 THEN 0 ELSE stop
            F(i) == [who |-> e.vs[i], pts |-> <<e.vs[i].pt, e.vs[NextOf(e, i)].pt>>]
            f == [i \in 1 .. stop |-> F(i)]
<1>1. HasPlaces(e)
  BY PolyPlaces DEF IsPoly
<1>2. n \in Nat /\ stop \in Int /\ m \in Nat /\ 1 .. stop = 1 .. m
      /\ \A i \in 1 .. m : i \in 1 .. n
  BY <1>1 DEF HasPlaces
<1>3. ASSUME NEW i \in 1 .. m PROVE F(i) \in S
  <2>1. i \in 1 .. n
    BY <1>2
  <2>2. NextOf(e, i) \in 1 .. n
    BY <1>1, <2>1, NextVertex
  <2>3. e.vs[i] \in W /\ e.vs[i].pt \in Place /\ e.vs[NextOf(e, i)].pt \in Place
    BY <1>1, <2>1, <2>2 DEF HasPlaces
  <2>4. <<e.vs[i].pt, e.vs[NextOf(e, i)].pt>> \in Points
    BY <2>3, TuplePoints
  <2>. QED  BY <2>3, <2>4 DEF Primitive
<1>4. Line3dPrims(e) = f
  BY DEF Line3dPrims
<1>. HIDE DEF F, m, stop, S
<1>5. f \in [1 .. m -> S]
  BY <1>2, <1>3
<1>. HIDE DEF f
<1>6. f \in Seq(S)
  BY <1>2, <1>5, FunctionIsSeq
<1>. QED  BY <1>4, <1>6 DEF S

LEMMA PolyfaceType ==
  ASSUME NEW e, IsEntity(e), IsPoly(e, "polyface")
  PROVE  PolyfacePrims(e) \in Seq(Primitive(ToSet(e.faces)))
<1>. DEFINE W == ToSet(e.faces)
            S == Primitive(W)
            n == Len(e.faces)
            P(f) == [k \in DOMAIN e.faces[f].indices |-> e.vs[Abs(e.faces[f].indices[k])].pt]
            F(f) == [who |-> e.faces[f], pts |-> P(f)]
            all == [f \in DOMAIN e.faces |-> F(f)]
<1>1. HasPlaces(e) /\ e.faces \in Seq(W)
  BY PolyPlaces DEF IsPoly, IsEntity
<1>2. n \in Nat /\ DOMAIN e.faces = 1 .. n /\ \A f \in 1 .. n : e.faces[f] \in W
  BY <1>1, ElementOfSeq, LenProperties
<1>3. ASSUME NEW f \in 1 .. n PROVE P(f) \in Points
  <2>. DEFINE x == e.faces[f].indices
              j == Len(x)
  <2>1. e.faces[f] \in W
    BY <1>2
  <2>2. x \in Seq(Int) \ {<< >>} /\ \A i \in ToSet(x) : Abs(i) \in DOMAIN e.vs
    BY <2>1 DEF IsEntity
  <2>3. j \in Nat /\ j > 0 /\ DOMAIN x = 1 .. j
    <3>1. j \in Nat /\ DOMAIN x = 1 .. j
      BY <2>2, LenProperties
    <3>2. j # 0
      BY <2>2, EmptySeq
    <3>. QED  BY <3>1, <3>2
  <2>4. \A k \in 1 .. j : x[k] \in ToSet(x)
    BY <2>3 DEF ToSet
  <2>5. \A k \in 1 .. j : e.vs[Abs(x[k])].pt \in Place
    BY <1>1, <2>2, <2>4 DEF HasPlaces
  <2>6. P(f) = [k \in 1 .. j |-> e.vs[Abs(x[k])].pt]
    BY <2>3
  <2>7. P(f) \in [1 .. j -> Place]
    <3>. HIDE DEF j, x, P, Place
    <3>. QED  BY <2>5, <2>6
  <2>. HIDE DEF j, P
  <2>. QED  BY <2>3, <2>7, FunctionPoints
<1>4. \A f \in 1 .. n : F(f) \in S
  <2>. HIDE DEF P
  <2>. QED  BY <1>2, <1>3 DEF Primitive
<1>5. PolyfacePrims(e) = all
  BY DEF PolyfacePrims
<1>. HIDE DEF F, S, n
<1>6. all \in [1 .. n -> S]
  BY <1>2, <1>4
<1>. HIDE DEF all
<1>7. all \in Seq(S)
  BY <1>2, <1>6, FunctionIsSeq
<1>. QED  BY <1>5, <1>7 DEF S

-----------------------------------------------------------------------------
(* Meshes.                                                                   *)

LEMMA Product ==
  ASSUME NEW a \in Nat, NEW m \in Nat, a < m, NEW n \in Nat, NEW b \in Nat, b < n
  PROVE  a * n + b < m * n /\ a * n + b \in Nat
<1>1. PICK d \in Nat : m = a + 1 + d
  <2>1. m - a - 1 \in Nat /\ m = a + 1 + (m - a - 1)
    OBVIOUS
  <2>. QED  BY <2>1
<1>2. m * n = a * n + n + d * n
  BY <1>1
<1>3. d * n \in Nat /\ a * n \in Nat
  BY <1>1
<1>. QED  BY <1>2, <1>3

\* the rows and columns of the cells of a grid
LEMMA CellInGrid ==
  ASSUME NEW p \in Nat, NEW q \in Nat, q > 0, NEW k \in 1 .. p * q
  PROVE  (k - 1) \div q \in 0 .. p - 1 /\ (k - 1) % q \in 0 .. q - 1
<1>. DEFINE x == k - 1
            i == x \div q
            j == x % q
<1>1. x \in Nat /\ x < p * q
  BY SMT
<1>. HIDE DEF x
<1>2. i \in Nat /\ j \in 0 .. q - 1 /\ x = q * i + j
  BY <1>1
<1>. HIDE DEF i, j
<1>3. i < p
  <2>. SUFFICES ASSUME i >= p PROVE FALSE
    BY <1>2
  <2>1. PICK d \in Nat : i = p + d
    <3>1. i - p \in Nat /\ i = p + (i - p)
      BY <1>2
    <3>. QED  BY <3>1
  <2>2. q * i = p * q + q * d /\ q * d \in Nat
    BY <2>1
  <2>. QED  BY <1>1, <1>2, <2>2
<1>. QED  BY <1>2, <1>3 DEF i, j, x

Quads(count) == [1 .. 4 -> 1 .. count]

LEMMA GridType ==
  ASSUME NEW add \in Nat, NEW m \in Nat, NEW n \in Nat, NEW closedM, NEW closedN,
         NEW count \in Nat, add + m * n <= count
  PROVE  GridFaces(add, m, n, closedM, closedN) \in Seq(Quads(count))
<1>. DEFINE endm == IF closedM THEN m ELSE m - 1
            endn == IF closedN THEN n ELSE n - 1
            cells == IF endm > 0 /\ endn > 0 THEN endm * endn ELSE 0
            cell == [k \in 1 .. cells |-> <<(k - 1) \div endn, (k - 1) % endn>>]
            V(i, j) == add + Wrapped(i, m) * n + Wrapped(j, n) + 1
            F(k) == <<V(cell[k][1], cell[k][2]), V(cell[k][1], cell[k][2] + 1),
                      V(cell[k][1] + 1, cell[k][2] + 1), V(cell[k][1] + 1, cell[k][2])>>
            all == [k \in DOMAIN cell |-> F(k)]
<1>1. GridFaces(add, m, n, closedM, closedN) = all
  BY DEF GridFaces
<1>2. endm \in Int /\ endn \in Int /\ endm <= m /\ endn <= n
  OBVIOUS
<1>3. cells \in Nat
  <2>. HIDE DEF endm, endn
  <2>1. CASE endm > 0 /\ endn > 0
    <3>1. endm \in Nat /\ endn \in Nat
      BY <1>2, <2>1
    <3>2. endm * endn \in Nat
      BY <3>1
    <3>. QED  BY <2>1, <3>2
  <2>. QED  BY <2>1
<1>4. ASSUME NEW k \in 1 .. cells PROVE F(k) \in Quads(count)
  <2>1. endm > 0 /\ endn > 0 /\ cells = endm * endn
    <3>. HIDE DEF endm, endn
    <3>. QED  OBVIOUS
  <2>2. endm \in Nat /\ endn \in Nat
    BY <1>2, <2>1
  <2>3. k \in 1 .. endm * endn
    BY <2>1
  <2>. HIDE DEF endm, endn
  <2>. DEFINE i == (k - 1) \div endn
              j == (k - 1) % endn
  <2>4. i \in 0 .. endm - 1 /\ j \in 0 .. endn - 1
    BY <2>1, <2>2, <2>3, CellInGrid
  <2>5. cell[k][1] = i /\ cell[k][2] = j
    <3>1. cell[k] = <<i, j>>
      OBVIOUS
    <3>. QED  BY <3>1
  <2>. HIDE DEF i, j, cell
  <2>6. ASSUME NEW a \in 0 .. m, NEW b \in 0 .. n
        PROVE  V(a, b) \in 1 .. count
    <3>. DEFINE c == Wrapped(a, m)
                d == Wrapped(b, n)
    <3>1. c \in Nat /\ c < m /\ d \in Nat /\ d < n
      BY <1>2, <2>1, <2>2 DEF Wrapped
    <3>. HIDE DEF c, d
    <3>2. c * n + d < m * n /\ c * n + d \in Nat
      BY <3>1, Product
    <3>3. m * n \in Nat /\ c * n \in Nat
      BY <3>1
    <3>4. add + c * n + d + 1 \in 1 .. count
      BY <3>1, <3>2, <3>3
    <3>. QED  BY <3>4 DEF c, d
  <2>7. i \in 0 .. m /\ i + 1 \in 0 .. m /\ j \in 0 .. n /\ j + 1 \in 0 .. n
    BY <1>2, <2>2, <2>4
  <2>8. /\ V(i, j) \in 1 .. count /\ V(i, j + 1) \in 1 .. count
        /\ V(i + 1, j + 1) \in 1 .. count /\ V(i + 1, j) \in 1 .. count
    BY <2>6, <2>7
  <2>9. F(k) = <<V(i, j), V(i, j + 1), V(i + 1, j + 1), V(i + 1, j)>>
    BY <2>5
  <2>. HIDE DEF V, F
  <2>. QED  BY <2>8, <2>9 DEF Quads
<1>5. DOMAIN cell = 1 .. cells
  <2>. HIDE DEF cells
  <2>. QED  OBVIOUS
<1>. HIDE DEF F, cells
<1>6. all \in [1 .. cells -> Quads(count)]
  <2>. DEFINE C == DOMAIN cell
  <2>1. C = 1 .. cells
    BY <1>5
  <2>. HIDE DEF C
  <2>2. [k \in C |-> F(k)] \in [1 .. cells -> Quads(count)]
    BY <1>4, <2>1
  <2>. QED  BY <2>2 DEF C
<1>. HIDE DEF all
<1>. QED  BY <1>1, <1>3, <1>6, FunctionIsSeq

\* The dimensions used never ask for more vertices than there are.
LEMMA MeshSizeFits ==
  ASSUME NEW m \in Nat \ {0}, NEW n \in Nat \ {0}, NEW m2 \in Nat, NEW n2 \in Nat,
         NEW count \in Nat
  PROVE  LET size == MeshSize(m, n, m2, n2, count)
         IN  /\ size[1] \in Nat /\ size[2] \in Nat /\ size[3] \in Nat /\ size[4] \in Nat
             /\ size[3] * size[4] + size[1] * size[2] <= count
<1>. DEFINE size == MeshSize(m, n, m2, n2, count)
<1>1. \/ size = <<m, n, m2, n2>> /\ m * n + m2 * n2 = count
      \/ size = <<m - 1, n, m2, n2>> /\ (m - 1) * n + m2 * n2 = count
      \/ size = <<m, n, 0, 0>> /\ m * n = count
      \/ size = <<0, 0, m2, n2>> /\ m2 * n2 = count
      \/ size = <<0, 0, 0, 0>>
  BY DEF MeshSize
<1>. HIDE DEF size
<1>2. m * n \in Nat /\ m2 * n2 \in Nat /\ m - 1 \in Nat /\ (m - 1) * n \in Nat
  BY SMT
<1>. QED  BY <1>1, <1>2 DEF size

\* However the dimensions of a mesh and the number of its vertices disagree, the
\* faces that dxfPolyline's conversion makes of it have their corners
\* among the vertices: no index runs past the array of them.
THEOREM MeshUsesItsVertices ==
  ASSUME NEW m \in Nat \ {0}, NEW n \in Nat \ {0}, NEW m2 \in Nat, NEW n2 \in Nat,
         NEW count \in Nat, NEW closedM, NEW closedN
  PROVE  MeshFaces(m, n, m2, n2, count, closedM, closedN) \in Seq(Quads(count))
<1>. DEFINE size == MeshSize(m, n, m2, n2, count)
            add == size[3] * size[4]
            big == GridFaces(add, size[1], size[2], closedM, closedN)
            small == GridFaces(0, size[3], size[4], closedM, closedN)
<1>1. /\ size[1] \in Nat /\ size[2] \in Nat /\ size[3] \in Nat /\ size[4] \in Nat
      /\ size[3] * size[4] + size[1] * size[2] <= count
  BY MeshSizeFits
<1>2. MeshFaces(m, n, m2, n2, count, closedM, closedN) = big \o small
  BY DEF MeshFaces
<1>. HIDE DEF size
<1>3. add \in Nat /\ size[1] * size[2] \in Nat
  BY <1>1
<1>4. add + size[1] * size[2] <= count /\ 0 + size[3] * size[4] <= count /\ 0 \in Nat
  BY <1>1, <1>3
<1>. HIDE DEF add
<1>5. big \in Seq(Quads(count))
  BY <1>1, <1>3, <1>4, GridType
<1>6. small \in Seq(Quads(count))
  BY <1>1, <1>4, GridType
<1>. HIDE DEF big, small
<1>7. big \o small \in Seq(Quads(count))
  BY <1>5, <1>6, ConcatProperties
<1>. QED  BY <1>2, <1>7

\* Row and column say which: a number has one quotient and one remainder.
LEMMA OneQuotient ==
  ASSUME NEW q \in Nat, NEW a \in Nat, NEW b \in 0 .. q - 1, NEW c \in Nat, NEW d \in 0 .. q - 1,
         a * q + b = c * q + d
  PROVE  a = c /\ b = d
<1>1. ASSUME NEW x \in Nat, NEW y \in Nat, NEW u \in 0 .. q - 1, NEW v \in 0 .. q - 1,
             x * q + u = y * q + v
      PROVE  ~ (x < y)
  <2>. SUFFICES ASSUME x < y PROVE FALSE
    OBVIOUS
  <2>1. PICK e \in Nat : y = x + 1 + e
    <3>1. y - x - 1 \in Nat /\ y = x + 1 + (y - x - 1)
      OBVIOUS
    <3>. QED  BY <3>1
  <2>2. y * q = x * q + q + e * q /\ e * q \in Nat /\ x * q \in Nat
    BY <2>1
  <2>. QED  BY <1>1, <2>2
<1>2. ~ (a < c) /\ ~ (c < a)
  BY <1>1
<1>3. a = c
  BY <1>2
<1>4. a * q \in Int
  OBVIOUS
<1>. QED  BY <1>3, <1>4

LEMMA Quotient ==
  ASSUME NEW q \in Nat, q > 0, NEW a \in Nat, NEW b \in 0 .. q - 1
  PROVE  (a * q + b) \div q = a /\ (a * q + b) % q = b
<1>. DEFINE x == a * q + b
            i == x \div q
            j == x % q
<1>1. x \in Nat
  <2>1. a * q \in Nat
    BY SMT
  <2>. QED  BY <2>1
<1>. HIDE DEF x
<1>2. i \in Nat /\ j \in 0 .. q - 1 /\ x = q * i + j
  BY <1>1
<1>. HIDE DEF i, j
<1>3. i * q + j = a * q + b
  <2>1. q * i = i * q
    BY <1>2
  <2>. QED  BY <1>2, <2>1 DEF x
<1>4. i = a /\ j = b
  BY <1>2, <1>3, OneQuotient
<1>. QED  BY <1>4 DEF i, j, x

LEMMA Division ==
  ASSUME NEW x \in Nat, NEW q \in Nat, q > 0 PROVE x = q * (x \div q) + (x % q)
  OBVIOUS

\* the rows and the columns of cells, and a corner
Ends(closed, m) == IF closed THEN m ELSE m - 1
Vertex(add, m, n, i, j) == add + Wrapped(i, m) * n + Wrapped(j, n) + 1
\* The k-th face is that of the cell in row i and column j.
CellOf(k, i, j, endn) == k = i * endn + j + 1
VerticesOf(face, add, m, n, i, j) ==
  /\ face[1] = Vertex(add, m, n, i, j) /\ face[2] = Vertex(add, m, n, i, j + 1)
  /\ face[3] = Vertex(add, m, n, i + 1, j + 1) /\ face[4] = Vertex(add, m, n, i + 1, j)

LEMMA GridIs ==
  ASSUME NEW add \in Nat, NEW m \in Nat, NEW n \in Nat, NEW closedM, NEW closedN,
         NEW faces, faces = GridFaces(add, m, n, closedM, closedN),
         NEW endm, endm = Ends(closedM, m), NEW endn, endn = Ends(closedN, n)
  PROVE  /\ endm > 0 /\ endn > 0 => DOMAIN faces = 1 .. endm * endn
         /\ ~ (endm > 0 /\ endn > 0) => DOMAIN faces = {}
         /\ \A k \in DOMAIN faces :
              \E i \in 0 .. endm - 1, j \in 0 .. endn - 1 :
                CellOf(k, i, j, endn) /\ VerticesOf(faces[k], add, m, n, i, j)
         /\ \A i \in 0 .. endm - 1, j \in 0 .. endn - 1 :
              \E k \in DOMAIN faces : CellOf(k, i, j, endn) /\ VerticesOf(faces[k], add, m, n, i, j)
<1>. DEFINE cells == IF endm > 0 /\ endn > 0 THEN endm * endn ELSE 0
            cell == [k \in 1 .. cells |-> <<(k - 1) \div endn, (k - 1) % endn>>]
            V(i, j) == Vertex(add, m, n, i, j)
            F(k) == <<V(cell[k][1], cell[k][2]), V(cell[k][1], cell[k][2] + 1),
                      V(cell[k][1] + 1, cell[k][2] + 1), V(cell[k][1] + 1, cell[k][2])>>
<1>1. faces = [k \in DOMAIN cell |-> F(k)]
  BY DEF GridFaces, Ends, Vertex
<1>2. endm \in Int /\ endn \in Int /\ (endm > 0 => endm \in Nat) /\ (endn > 0 => endn \in Nat)
  BY DEF Ends
<1>3. cells \in Nat
  <2>1. CASE endm > 0 /\ endn > 0
    <3>1. endm * endn \in Nat
      BY <1>2, <2>1, SMT
    <3>. QED  BY <2>1, <3>1
  <2>. QED  BY <2>1
<1>. DEFINE I(k) == (k - 1) \div endn
            J(k) == (k - 1) % endn
<1>4. ASSUME NEW k \in 1 .. cells
      PROVE  /\ faces[k] = <<V(I(k), J(k)), V(I(k), J(k) + 1), V(I(k) + 1, J(k) + 1), V(I(k) + 1, J(k))>>
  <2>1. cell[k] = <<I(k), J(k)>>
    OBVIOUS
  <2>2. cell[k][1] = I(k) /\ cell[k][2] = J(k)
    BY <2>1
  <2>3. faces[k] = F(k)
    <3>1. k \in DOMAIN cell
      OBVIOUS
    <3>. HIDE DEF cell, F
    <3>. QED  BY <1>1, <3>1
  <2>. HIDE DEF V, cell, I, J
  <2>. QED  BY <2>2, <2>3
<1>5. DOMAIN faces = 1 .. cells
  <2>. HIDE DEF F, cells
  <2>. QED  BY <1>1
<1>6. ASSUME NEW k \in 1 .. cells PROVE VerticesOf(faces[k], add, m, n, I(k), J(k))
  <2>. HIDE DEF I, J
  <2>. QED  BY <1>4 DEF VerticesOf
<1>7. ASSUME NEW k \in 1 .. cells
      PROVE  \E i \in 0 .. endm - 1, j \in 0 .. endn - 1 :
               CellOf(k, i, j, endn) /\ VerticesOf(faces[k], add, m, n, i, j)
  <2>1. endm > 0 /\ endn > 0 /\ cells = endm * endn
    BY <1>2
  <2>2. endm \in Nat /\ endn \in Nat /\ k \in 1 .. endm * endn
    BY <1>2, <2>1
  <2>3. I(k) \in 0 .. endm - 1 /\ J(k) \in 0 .. endn - 1
    <3>. HIDE DEF cells
    <3>. QED  BY <2>1, <2>2, CellInGrid
  <2>4. k - 1 = endn * I(k) + J(k)
    <3>. DEFINE x == k - 1
    <3>1. x \in Nat
      BY <2>2, SMT
    <3>. HIDE DEF x
    <3>2. x = endn * (x \div endn) + (x % endn)
      BY <2>1, <2>2, <3>1, Division
    <3>. QED  BY <3>2 DEF x
  <2>. HIDE DEF I, J, cells
  <2>5. endn * I(k) = I(k) * endn /\ I(k) * endn \in Int
    BY <1>2, <2>3
  <2>6. CellOf(k, I(k), J(k), endn)
    BY <2>2, <2>3, <2>4, <2>5 DEF CellOf
  <2>. QED  BY <1>6, <2>3, <2>6
<1>8. ASSUME NEW i \in 0 .. endm - 1, NEW j \in 0 .. endn - 1
      PROVE  \E k \in 1 .. cells : CellOf(k, i, j, endn) /\ VerticesOf(faces[k], add, m, n, i, j)
  <2>. DEFINE k == i * endn + j + 1
  <2>1. endm > 0 /\ endn > 0 /\ endm \in Nat /\ endn \in Nat /\ i \in Nat /\ j \in Nat
        /\ i < endm /\ j < endn
    BY <1>2
  <2>2. cells = endm * endn
    BY <2>1
  <2>3. i * endn + j < endm * endn /\ i * endn + j \in Nat
    BY <2>1, Product
  <2>4. endm * endn \in Nat /\ i * endn \in Nat
    BY <2>1
  <2>5. k \in 1 .. cells /\ k - 1 = i * endn + j
    <3>. HIDE DEF cells
    <3>. QED  BY <2>2, <2>3, <2>4
  <2>6. (i * endn + j) \div endn = i /\ (i * endn + j) % endn = j
    <3>1. j \in 0 .. endn - 1
      OBVIOUS
    <3>. QED  BY <2>1, <3>1, Quotient
  <2>7. I(k) = i /\ J(k) = j
    <3>. HIDE DEF k, cells
    <3>. QED  BY <2>5, <2>6
  <2>8. CellOf(k, i, j, endn)
    BY DEF CellOf
  <2>. HIDE DEF k, cells, I, J
  <2>9. VerticesOf(faces[k], add, m, n, i, j)
    BY <1>6, <2>5, <2>7
  <2>. QED  BY <2>5, <2>8, <2>9
<1>9. /\ endm > 0 /\ endn > 0 => 1 .. cells = 1 .. endm * endn
      /\ ~ (endm > 0 /\ endn > 0) => 1 .. cells = {}
  OBVIOUS
<1>. HIDE DEF cells
<1>. QED  BY <1>5, <1>7, <1>8, <1>9

\* No two faces of a grid begin at one vertex, and each begins at one of its own.
LEMMA GridDiffers ==
  ASSUME NEW add \in Nat, NEW m \in Nat, NEW n \in Nat, NEW closedM, NEW closedN,
         NEW faces, faces = GridFaces(add, m, n, closedM, closedN)
  PROVE  /\ \A f \in DOMAIN faces : faces[f][1] \in add + 1 .. add + m * n
         /\ \A f, g \in DOMAIN faces : f # g => faces[f][1] # faces[g][1]
<1>. DEFINE endm == Ends(closedM, m)
            endn == Ends(closedN, n)
            First(i, j) == add + i * n + j + 1
<1>1. endm \in Int /\ endn \in Int /\ endm <= m /\ endn <= n
  BY DEF Ends
<1>2. ASSUME NEW f \in DOMAIN faces
      PROVE  \E i \in 0 .. m - 1, j \in 0 .. n - 1 :
               CellOf(f, i, j, endn) /\ faces[f][1] = First(i, j)
  <2>1. PICK i \in 0 .. endm - 1, j \in 0 .. endn - 1 :
          CellOf(f, i, j, endn) /\ VerticesOf(faces[f], add, m, n, i, j)
    <3>. HIDE DEF endm, endn
    <3>. QED  BY GridIs DEF endm, endn
  <2>. HIDE DEF endm, endn
  <2>2. i \in 0 .. m - 1 /\ j \in 0 .. n - 1 /\ i # m /\ j # n
    BY <1>1
  <2>3. faces[f][1] = First(i, j)
    BY <2>1, <2>2 DEF VerticesOf, Vertex, Wrapped
  <2>. QED  BY <2>1, <2>2, <2>3
<1>. HIDE DEF endm, endn
<1>3. ASSUME NEW f \in DOMAIN faces PROVE faces[f][1] \in add + 1 .. add + m * n
  <2>1. PICK i \in 0 .. m - 1, j \in 0 .. n - 1 : faces[f][1] = First(i, j)
    BY <1>2
  <2>2. i \in Nat /\ i < m /\ j \in Nat /\ j < n
    BY <2>1
  <2>3. i * n + j < m * n /\ i * n + j \in Nat
    BY <2>2, Product
  <2>4. i * n \in Nat /\ m * n \in Nat
    BY <2>2
  <2>. QED  BY <2>1, <2>2, <2>3, <2>4
<1>4. ASSUME NEW f \in DOMAIN faces, NEW g \in DOMAIN faces, faces[f][1] = faces[g][1]
      PROVE  f = g
  <2>1. PICK i \in 0 .. m - 1, j \in 0 .. n - 1 :
          CellOf(f, i, j, endn) /\ faces[f][1] = First(i, j)
    BY <1>2
  <2>2. PICK c \in 0 .. m - 1, d \in 0 .. n - 1 :
          CellOf(g, c, d, endn) /\ faces[g][1] = First(c, d)
    BY <1>2
  <2>3. i * n \in Int /\ c * n \in Int
    BY <2>1, <2>2
  <2>4. i * n + j = c * n + d
    <3>. DEFINE A == i * n
                B == c * n
    <3>1. add + A + j + 1 = add + B + d + 1 /\ A \in Int /\ B \in Int
      BY <1>4, <2>1, <2>2, <2>3
    <3>. HIDE DEF A, B
    <3>2. A + j = B + d
      BY <3>1
    <3>. QED  BY <3>2 DEF A, B
  <2>5. i \in Nat /\ c \in Nat
    OBVIOUS
  <2>6. i = c /\ j = d
    BY <2>4, <2>5, OneQuotient
  <2>. QED  BY <2>1, <2>2, <2>6 DEF CellOf
<1>. QED  BY <1>3, <1>4

\* In a grid with two rows and columns or more, every vertex is a corner of a face.
LEMMA GridCovers ==
  ASSUME NEW add \in Nat, NEW m \in Nat, NEW n \in Nat, m > 1, n > 1, NEW closedM, NEW closedN,
         NEW faces, faces = GridFaces(add, m, n, closedM, closedN),
         NEW v \in add + 1 .. add + m * n
  PROVE  \E f \in DOMAIN faces : \E c \in 1 .. 4 : v = faces[f][c]
<1>. DEFINE endm == Ends(closedM, m)
            endn == Ends(closedN, n)
            x == v - add - 1
            i == x \div n
            j == x % n
<1>1. endm \in Int /\ endn \in Int /\ endm <= m /\ endn <= n /\ endm >= m - 1 /\ endn >= n - 1
  BY DEF Ends
<1>2. m * n \in Nat
  BY SMT
<1>3. x \in Nat /\ x + 1 \in 1 .. m * n
  BY <1>2
<1>. HIDE DEF endm, endn, x
<1>4. i \in 0 .. m - 1 /\ j \in 0 .. n - 1
  <2>1. (x + 1) - 1 = x
    BY <1>3
  <2>. DEFINE k == x + 1
  <2>2. k \in 1 .. m * n /\ k - 1 = x
    BY <1>3, <2>1
  <2>. HIDE DEF k, i, j
  <2>3. (k - 1) \div n \in 0 .. m - 1 /\ (k - 1) % n \in 0 .. n - 1
    BY <2>2, CellInGrid
  <2>. QED  BY <2>2, <2>3 DEF i, j
<1>5. x = i * n + j
  <2>1. x = n * i + j
    BY <1>3
  <2>. HIDE DEF i, j
  <2>2. n * i = i * n
    BY <1>4
  <2>. QED  BY <2>1, <2>2
<1>. HIDE DEF i, j
<1>6. v = add + i * n + j + 1
  <2>. DEFINE A == i * n
  <2>1. A \in Int /\ x = A + j
    BY <1>4, <1>5
  <2>. HIDE DEF A
  <2>2. v = add + A + j + 1
    BY <1>4, <2>1 DEF x
  <2>. QED  BY <2>2 DEF A
<1>. DEFINE a == IF i < endm THEN i ELSE i - 1
            b == IF j < endn THEN j ELSE j - 1
<1>7. a \in 0 .. endm - 1 /\ b \in 0 .. endn - 1
  BY <1>1, <1>4
<1>8. PICK f \in DOMAIN faces : VerticesOf(faces[f], add, m, n, a, b)
  <2>. HIDE DEF a, b
  <2>1. \E f \in DOMAIN faces : CellOf(f, a, b, endn) /\ VerticesOf(faces[f], add, m, n, a, b)
    BY <1>7, GridIs DEF endm, endn
  <2>. QED  BY <2>1
<1>9. v = Vertex(add, m, n, i, j)
  <2>1. Wrapped(i, m) = i /\ Wrapped(j, n) = j
    BY <1>4 DEF Wrapped
  <2>. QED  BY <1>6, <2>1 DEF Vertex
<1>10. (i = a \/ i = a + 1) /\ (j = b \/ j = b + 1)
  BY <1>4
<1>11. \/ v = faces[f][1] \/ v = faces[f][2] \/ v = faces[f][3] \/ v = faces[f][4]
  <2>. HIDE DEF a, b
  <2>. QED  BY <1>8, <1>9, <1>10 DEF VerticesOf
<1>12. 1 \in 1 .. 4 /\ 2 \in 1 .. 4 /\ 3 \in 1 .. 4 /\ 4 \in 1 .. 4
  OBVIOUS
<1>. QED  BY <1>11, <1>12

\* the vertices at the corners of faces, and dimensions that agree with their number
Used(faces) == UNION {ToSet(faces[f]) : f \in DOMAIN faces}
Agree(m, n, m2, n2, count) ==
  m * n + m2 * n2 = count /\ m > 1 /\ n > 1 /\ (m2 = 0 \/ n2 = 0 \/ (m2 > 1 /\ n2 > 1))

\* The faces of a mesh are all different, and use all of its vertices when their
\* number is that of its dimensions, and of the smooth surface's before it.
THEOREM MeshIsCovered ==
  ASSUME NEW m \in Nat \ {0}, NEW n \in Nat \ {0}, NEW m2 \in Nat, NEW n2 \in Nat,
         NEW count \in Nat, NEW closedM, NEW closedN,
         NEW faces, faces = MeshFaces(m, n, m2, n2, count, closedM, closedN)
  PROVE  /\ \A f, g \in DOMAIN faces : f # g => faces[f] # faces[g]
         /\ Agree(m, n, m2, n2, count) => Used(faces) = 1 .. count
<1>. DEFINE size == MeshSize(m, n, m2, n2, count)
            add == size[3] * size[4]
            big == GridFaces(add, size[1], size[2], closedM, closedN)
            small == GridFaces(0, size[3], size[4], closedM, closedN)
            p == Len(big)
            q == Len(small)
<1>1. /\ size[1] \in Nat /\ size[2] \in Nat /\ size[3] \in Nat /\ size[4] \in Nat
      /\ size[3] * size[4] + size[1] * size[2] <= count
  BY MeshSizeFits
<1>2. faces = big \o small
  BY DEF MeshFaces
<1>3. m * n + m2 * n2 = count
        => \/ size = <<m, n, m2, n2>>
           \/ m2 * n2 = 0 /\ size = <<m, n, 0, 0>>
  <2>1. \/ size = <<m, n, m2, n2>> /\ m * n + m2 * n2 = count
        \/ size = <<m - 1, n, m2, n2>> /\ (m - 1) * n + m2 * n2 = count
        \/ size = <<m, n, 0, 0>> /\ m * n = count
        \/ size = <<0, 0, m2, n2>> /\ m2 * n2 = count
        \/ /\ ~ (m * n + m2 * n2 = count)
    BY DEF MeshSize
  <2>. HIDE DEF size
  <2>2. m * n \in Nat /\ m2 * n2 \in Nat /\ (m - 1) * n = m * n - n
    BY SMT
  <2>3. m * n # 0
    BY SMT
  <2>. QED  BY <2>1, <2>2, <2>3
<1>. HIDE DEF size
<1>4. add \in Nat /\ size[1] * size[2] \in Nat
  BY <1>1
<1>5. add + size[1] * size[2] <= count /\ 0 + size[3] * size[4] <= count /\ 0 \in Nat
  BY <1>1, <1>4
<1>6. size[3] * size[4] = add
  OBVIOUS
<1>. HIDE DEF add
<1>7. big \in Seq(Quads(count)) /\ small \in Seq(Quads(count))
  BY <1>1, <1>4, <1>5, GridType
<1>8. /\ \A f \in DOMAIN big : big[f][1] \in add + 1 .. add + size[1] * size[2]
      /\ \A f, g \in DOMAIN big : f # g => big[f][1] # big[g][1]
      /\ \A f \in DOMAIN small : small[f][1] \in 1 .. add
      /\ \A f, g \in DOMAIN small : f # g => small[f][1] # small[g][1]
  <2>1. /\ \A f \in DOMAIN big : big[f][1] \in add + 1 .. add + size[1] * size[2]
        /\ \A f, g \in DOMAIN big : f # g => big[f][1] # big[g][1]
    <3>1. big = GridFaces(add, size[1], size[2], closedM, closedN)
      OBVIOUS
    <3>. DEFINE M == size[1]
                N == size[2]
    <3>2. M \in Nat /\ N \in Nat /\ big = GridFaces(add, M, N, closedM, closedN)
      BY <1>1, <3>1
    <3>. HIDE DEF big, M, N
    <3>3. /\ \A f \in DOMAIN big : big[f][1] \in add + 1 .. add + M * N
          /\ \A f, g \in DOMAIN big : f # g => big[f][1] # big[g][1]
      BY <1>4, <3>2, GridDiffers
    <3>. QED  BY <3>3 DEF M, N
  <2>2. /\ \A f \in DOMAIN small : small[f][1] \in 0 + 1 .. 0 + size[3] * size[4]
        /\ \A f, g \in DOMAIN small : f # g => small[f][1] # small[g][1]
    BY <1>1, <1>5, GridDiffers
  <2>3. 0 + 1 = 1 /\ 0 + size[3] * size[4] = add
    BY <1>4, <1>6
  <2>. QED  BY <2>1, <2>2, <2>3
<1>. HIDE DEF big, small
<1>9. /\ p \in Nat /\ q \in Nat /\ DOMAIN big = 1 .. p /\ DOMAIN small = 1 .. q
      /\ \A f \in 1 .. p : big[f] \in Quads(count)
      /\ \A f \in 1 .. q : small[f] \in Quads(count)
  BY <1>7, LenProperties, ElementOfSeq
<1>10. /\ faces \in Seq(Quads(count)) /\ DOMAIN faces = 1 .. p + q
       /\ \A f \in 1 .. p + q : faces[f] = IF f <= p THEN big[f] ELSE small[f - p]
  <2>1. faces \in Seq(Quads(count)) /\ Len(faces) = p + q
    BY <1>2, <1>7, ConcatProperties
  <2>2. \A f \in 1 .. p + q : faces[f] = IF f <= p THEN big[f] ELSE small[f - p]
    BY <1>2, <1>7, ConcatProperties
  <2>. QED  BY <2>1, <2>2, LenProperties
<1>. HIDE DEF p, q
<1>11. ASSUME NEW f \in DOMAIN faces, NEW g \in DOMAIN faces, f # g
       PROVE  faces[f] # faces[g]
  <2>0. f \in 1 .. p + q /\ g \in 1 .. p + q
    BY <1>10
  <2>1. /\ f \in 1 .. p \/ (f - p \in 1 .. q /\ f > p)
        /\ g \in 1 .. p \/ (g - p \in 1 .. q /\ g > p)
    BY <1>9, <1>10
  <2>2. faces[f] = (IF f <= p THEN big[f] ELSE small[f - p])
        /\ faces[g] = (IF g <= p THEN big[g] ELSE small[g - p])
    BY <1>10
  <2>3. \A a \in 1 .. p, b \in 1 .. q : big[a][1] # small[b][1]
    <3>1. \A y \in add + 1 .. add + size[1] * size[2], z \in 1 .. add : y # z
      BY <1>4
    <3>. QED  BY <1>8, <1>9, <3>1
  <2>4. CASE f <= p /\ g <= p
    <3>1. f \in DOMAIN big /\ g \in DOMAIN big
      BY <1>9, <2>0, <2>4
    <3>. QED  BY <1>8, <1>11, <2>2, <2>4, <3>1
  <2>5. CASE f > p /\ g > p
    <3>1. f - p \in DOMAIN small /\ g - p \in DOMAIN small /\ f - p # g - p /\ ~(f <= p) /\ ~(g <= p)
      BY <1>9, <1>10, <1>11, <2>1, <2>5
    <3>. QED  BY <1>8, <2>2, <3>1
  <2>6. CASE f <= p /\ g > p
    <3>1. f \in 1 .. p /\ g - p \in 1 .. q /\ ~(g <= p)
      BY <1>9, <2>0, <2>6
    <3>. QED  BY <2>2, <2>3, <2>6, <3>1
  <2>7. CASE f > p /\ g <= p
    <3>1. g \in 1 .. p /\ f - p \in 1 .. q /\ ~(f <= p)
      BY <1>9, <2>0, <2>7
    <3>. QED  BY <2>2, <2>3, <2>7, <3>1
  <2>. QED  BY <1>9, <1>10, <2>4, <2>5, <2>6, <2>7
<1>. DEFINE used == UNION {ToSet(faces[f]) : f \in DOMAIN faces}
<1>12. ASSUME NEW f \in DOMAIN faces PROVE DOMAIN faces[f] = 1 .. 4 /\ ToSet(faces[f]) \subseteq 1 .. count
  <2>1. faces[f] \in Quads(count)
    BY <1>10, ElementOfSeq, LenProperties
  <2>. QED  BY <2>1 DEF Quads, ToSet
<1>13. used \subseteq 1 .. count
  BY <1>12
<1>14. ASSUME m * n + m2 * n2 = count, m > 1, n > 1, m2 = 0 \/ n2 = 0 \/ (m2 > 1 /\ n2 > 1),
              NEW v \in 1 .. count
       PROVE  v \in used
  <2>1. m * n \in Nat /\ m2 * n2 \in Nat
    BY SMT
  <2>2. size[1] = m /\ size[2] = n /\ add = m2 * n2 /\ (add # 0 => size[3] = m2 /\ size[4] = n2)
    <3>1. CASE size = <<m, n, m2, n2>>
      <4>1. size[1] = m /\ size[2] = n /\ size[3] = m2 /\ size[4] = n2
        BY <3>1
      <4>. QED  BY <1>6, <4>1
    <3>2. CASE m2 * n2 = 0 /\ size = <<m, n, 0, 0>>
      <4>1. size[1] = m /\ size[2] = n /\ size[3] = 0 /\ size[4] = 0
        BY <3>2
      <4>2. add = 0
        BY <1>6, <4>1
      <4>. QED  BY <3>2, <4>1, <4>2
    <3>. QED  BY <1>3, <1>14, <3>1, <3>2
  <2>3. SUFFICES \E f \in DOMAIN faces : \E c \in 1 .. 4 : v = faces[f][c]
    <3>1. PICK f \in DOMAIN faces : \E c \in 1 .. 4 : v = faces[f][c]
      BY <2>3
    <3>2. v \in ToSet(faces[f])
      BY <1>12, <3>1 DEF ToSet
    <3>. QED  BY <3>2
  <2>4. CASE v <= add
    <3>1. add # 0
      BY <1>4, <2>4
    <3>2. m2 > 1 /\ n2 > 1
      <4>1. 0 * n2 = 0 /\ m2 * 0 = 0
        OBVIOUS
      <4>. QED  BY <1>14, <2>2, <3>1, <4>1
    <3>3. v \in 0 + 1 .. 0 + m2 * n2
      BY <2>1, <2>2, <2>4
    <3>4. small = GridFaces(0, m2, n2, closedM, closedN)
      BY <2>2, <3>1 DEF small
    <3>5. PICK f \in DOMAIN small : \E c \in 1 .. 4 : v = small[f][c]
      BY <1>5, <3>2, <3>3, <3>4, GridCovers
    <3>6. p + f \in DOMAIN faces /\ faces[p + f] = small[f]
      <4>1. p + f \in 1 .. p + q /\ ~(p + f <= p) /\ (p + f) - p = f
        BY <1>9
      <4>. DEFINE g == p + f
      <4>. HIDE DEF g
      <4>2. g \in 1 .. p + q /\ ~(g <= p) /\ g - p = f
        BY <4>1 DEF g
      <4>3. g \in DOMAIN faces /\ faces[g] = small[f]
        BY <1>10, <4>2
      <4>. QED  BY <4>3 DEF g
    <3>. QED  BY <3>5, <3>6
  <2>5. CASE v > add
    <3>1. v \in add + 1 .. add + m * n
      BY <1>4, <1>14, <2>1, <2>2, <2>5
    <3>2. big = GridFaces(add, m, n, closedM, closedN)
      BY <2>2 DEF big
    <3>3. PICK f \in DOMAIN big : \E c \in 1 .. 4 : v = big[f][c]
      BY <1>4, <1>14, <3>1, <3>2, GridCovers
    <3>4. f \in DOMAIN faces /\ faces[f] = big[f]
      <4>1. f \in 1 .. p + q /\ f <= p
        BY <1>9
      <4>. QED  BY <1>10, <4>1
    <3>. QED  BY <3>3, <3>4
  <2>. QED  BY <1>4, <2>4, <2>5
<1>15. Agree(m, n, m2, n2, count) => used = 1 .. count
  BY <1>13, <1>14 DEF Agree
<1>. QED  BY <1>11, <1>15 DEF Used

\* What the run looks at for small meshes holds of all.
THEOREM MeshIsSound == Spec => []MeshSound
<1>. SUFFICES MeshSound
  BY PTL
<1>. SUFFICES ASSUME NEW m \in 1 .. 4, NEW n \in 1 .. 4,
                     NEW smooth \in {<<0, 0>>} \cup (2 .. 3) \X (2 .. 3),
                     NEW count \in 0 .. 16, NEW closedM \in BOOLEAN, NEW closedN \in BOOLEAN
              PROVE  LET faces == MeshFaces(m, n, smooth[1], smooth[2], count, closedM, closedN)
                         used == UNION {ToSet(faces[f]) : f \in DOMAIN faces}
                     IN  /\ used \subseteq 1 .. count
                         /\ (m * n + smooth[1] * smooth[2] = count /\ m > 1 /\ n > 1) => used = 1 .. count
                         /\ \A f, g \in DOMAIN faces : f # g => faces[f] # faces[g]
  BY DEF MeshSound
<1>. DEFINE m2 == smooth[1]
            n2 == smooth[2]
            faces == MeshFaces(m, n, m2, n2, count, closedM, closedN)
            used == UNION {ToSet(faces[f]) : f \in DOMAIN faces}
<1>1. m \in Nat \ {0} /\ n \in Nat \ {0} /\ m2 \in Nat /\ n2 \in Nat /\ count \in Nat
      /\ (m2 = 0 \/ n2 = 0 \/ (m2 > 1 /\ n2 > 1))
  OBVIOUS
<1>2. faces = MeshFaces(m, n, m2, n2, count, closedM, closedN)
  OBVIOUS
<1>. HIDE DEF m2, n2, faces
<1>3. faces \in Seq(Quads(count))
  BY <1>1, <1>2, MeshUsesItsVertices
<1>4. used \subseteq 1 .. count
  <2>1. ASSUME NEW f \in DOMAIN faces PROVE ToSet(faces[f]) \subseteq 1 .. count
    <3>1. faces[f] \in Quads(count)
      BY <1>3, LenProperties, ElementOfSeq
    <3>. QED  BY <3>1 DEF Quads, ToSet
  <2>. QED  BY <2>1
<1>5. \A f, g \in DOMAIN faces : f # g => faces[f] # faces[g]
  BY <1>1, <1>2, MeshIsCovered
<1>6. ASSUME m * n + m2 * n2 = count, m > 1, n > 1 PROVE used = 1 .. count
  <2>1. Agree(m, n, m2, n2, count)
    BY <1>1, <1>6 DEF Agree
  <2>2. Used(faces) = 1 .. count
    BY <1>1, <1>2, <2>1, MeshIsCovered
  <2>. QED  BY <2>2 DEF Used
<1>. HIDE DEF used
<1>7. m * n + m2 * n2 = count /\ m > 1 /\ n > 1 => used = 1 .. count
  BY <1>6
<1>. QED  BY <1>4, <1>5, <1>7 DEF used, faces, m2, n2

LEMMA MeshType ==
  ASSUME NEW e, IsEntity(e), IsPoly(e, "mesh")
  PROVE  MeshPrims(e) \in Seq(Primitive({e}))
<1>. DEFINE S == Primitive({e})
            count == Len(e.vs)
            faces == MeshFaces(e.m, e.n, e.m2, e.n2, count, e.closed, e.closedN)
            n == Len(faces)
            P(f) == [k \in 1 .. 4 |-> e.vs[faces[f][k]].pt]
            F(f) == [who |-> e, pts |-> P(f)]
            all == [f \in DOMAIN faces |-> F(f)]
<1>1. /\ HasPlaces(e)
      /\ e.m \in Nat \ {0} /\ e.n \in Nat \ {0} /\ e.m2 \in Nat /\ e.n2 \in Nat
  BY PolyPlaces DEF IsPoly, IsEntity
<1>2. count \in Nat
  BY <1>1 DEF HasPlaces
<1>3. MeshPrims(e) = all
  BY DEF MeshPrims
<1>. HIDE DEF count
<1>4. faces \in Seq(Quads(count))
  BY <1>1, <1>2, MeshUsesItsVertices
<1>. HIDE DEF faces
<1>5. n \in Nat /\ DOMAIN faces = 1 .. n /\ \A f \in 1 .. n : faces[f] \in Quads(count)
  BY <1>4, ElementOfSeq, LenProperties
<1>6. ASSUME NEW f \in 1 .. n PROVE P(f) \in Points
  <2>1. \A k \in 1 .. 4 : faces[f][k] \in 1 .. Len(e.vs)
    BY <1>5 DEF Quads, count
  <2>2. \A k \in 1 .. 4 : e.vs[faces[f][k]].pt \in Place
    BY <1>1, <2>1 DEF HasPlaces
  <2>3. P(f) \in [1 .. 4 -> Place]
    <3>. HIDE DEF Place
    <3>. QED  BY <2>2
  <2>4. 4 \in Nat /\ 4 > 0
    OBVIOUS
  <2>. HIDE DEF P
  <2>. QED  BY <2>3, <2>4, FunctionPoints
<1>7. \A f \in 1 .. n : F(f) \in S
  <2>. HIDE DEF P
  <2>. QED  BY <1>6 DEF Primitive
<1>. HIDE DEF F, S, n
<1>8. all \in [1 .. n -> S]
  BY <1>5, <1>7
<1>. HIDE DEF all
<1>9. all \in Seq(S)
  BY <1>5, <1>8, FunctionIsSeq
<1>. QED  BY <1>3, <1>9 DEF S

-----------------------------------------------------------------------------
(* What a conversion has to do.                                              *)

\* whose colour the primitives of e have
WhoOf(e) ==
  IF IsPoly(e, "polyface") THEN ToSet(e.faces)
  ELSE IF IsPoly(e, "wide") \/ IsPoly(e, "3d") THEN ToSet(e.vs) ELSE {e}

LEMMA PrimsType ==
  ASSUME NEW e, IsEntity(e)
  PROVE  Prims(e) \in Seq(Primitive(WhoOf(e)))
<1>1. CASE e.kind = "line"
  BY <1>1, LineType DEF Prims, WhoOf, IsPoly
<1>2. CASE e.kind = "point"
  BY <1>2, PointType DEF Prims, WhoOf, IsPoly
<1>3. CASE e.kind = "3dface"
  BY <1>3, FaceType DEF Prims, WhoOf, IsPoly
<1>4. CASE e.kind = "solid"
  BY <1>4, SolidType DEF Prims, WhoOf, IsPoly
<1>5. CASE e.kind = "lwpolyline"
  BY <1>5, LWType DEF Prims, WhoOf, IsPoly
<1>6. CASE IsPoly(e, "mesh")
  <2>1. Prims(e) = MeshPrims(e) /\ WhoOf(e) = {e}
    BY <1>6 DEF Prims, WhoOf, IsPoly
  <2>. QED  BY <1>6, <2>1, MeshType
<1>7. CASE IsPoly(e, "polyface")
  <2>1. Prims(e) = PolyfacePrims(e) /\ WhoOf(e) = ToSet(e.faces)
    BY <1>7 DEF Prims, WhoOf, IsPoly
  <2>. QED  BY <1>7, <2>1, PolyfaceType
<1>8. CASE IsPoly(e, "3d")
  <2>1. Prims(e) = Line3dPrims(e) /\ WhoOf(e) = ToSet(e.vs)
    BY <1>8 DEF Prims, WhoOf, IsPoly
  <2>. QED  BY <1>8, <2>1, Line3dType
<1>9. CASE IsPoly(e, "wide")
  <2>1. Prims(e) = WidePrims(e) /\ WhoOf(e) = ToSet(e.vs)
    BY <1>9 DEF Prims, WhoOf, IsPoly
  <2>. QED  BY <1>9, <2>1, WideType
<1>10. CASE /\ e.kind \notin {"line", "point", "3dface", "solid", "lwpolyline"}
            /\ ~IsPoly(e, "mesh") /\ ~IsPoly(e, "polyface")
            /\ ~IsPoly(e, "3d") /\ ~IsPoly(e, "wide")
  <2>1. Prims(e) = << >>
    BY <1>10 DEF Prims
  <2>. QED  BY <2>1, EmptySeq
<1>. QED  BY <1>1, <1>2, <1>3, <1>4, <1>5, <1>6, <1>7, <1>8, <1>9, <1>10

LEMMA LayerIndexType ==
  \A w, pl, ic : LayerIndex(w, pl, ic) \in 1 .. 255
BY DEF LayerIndex, White

LEMMA MovedType ==
  ASSUME NEW e, NEW ins, ins = << >> \/ IsInsert(ins), NEW pts \in Points
  PROVE  Moved(e, ins, pts) \in Points
<1>1. CASE ins = << >> \/ e.kind = "point"
  BY <1>1 DEF Moved
<1>2. CASE ~(ins = << >> \/ e.kind = "point")
  <2>. DEFINE n == Len(pts)
              M(k) == [d \in 1 .. 3 |-> pts[k][d] + ins.at[d]]
              all == [k \in DOMAIN pts |-> M(k)]
  <2>1. n \in Nat /\ n > 0 /\ DOMAIN pts = 1 .. n /\ \A k \in 1 .. n : pts[k] \in Place
    <3>1. pts \in Seq(Place) /\ n \in Nat \ {0}
      BY PointsLen
    <3>. QED  BY <3>1, ElementOfSeq, LenProperties
  <2>2. \A k \in 1 .. n : M(k) \in Place
    BY SMTT(60), <1>2, <2>1 DEF Place, IsInsert
  <2>3. Moved(e, ins, pts) = all
    BY <1>2 DEF Moved
  <2>. HIDE DEF n, M
  <2>4. all \in [1 .. n -> Place]
    BY <2>1, <2>2
  <2>. HIDE DEF all
  <2>. QED  BY <2>1, <2>3, <2>4, FunctionPoints
<1>. QED  BY <1>1, <1>2

LEMMA TodoType ==
  ASSUME NEW e, IsEntity(e), NEW ins, ins = << >> \/ IsInsert(ins), NEW pl, NEW ic
  PROVE  /\ Todo(e, ins, pl, ic) \in Seq(Items)
         /\ DOMAIN Todo(e, ins, pl, ic) = DOMAIN Prims(e)
         /\ \A k \in DOMAIN Prims(e) :
              Todo(e, ins, pl, ic)[k].layer = LayerIndex(Prims(e)[k].who, pl, ic)
<1>. DEFINE n == Len(Prims(e))
            F(k) == [layer |-> LayerIndex(Prims(e)[k].who, pl, ic),
                     pts |-> Moved(e, ins, Prims(e)[k].pts)]
            all == [k \in DOMAIN Prims(e) |-> F(k)]
<1>1. /\ n \in Nat /\ DOMAIN Prims(e) = 1 .. n
      /\ \A k \in 1 .. n : Prims(e)[k] \in Primitive(WhoOf(e))
  BY PrimsType, ElementOfSeq, LenProperties
<1>2. \A k \in 1 .. n : F(k) \in Items
  <2>1. \A k \in 1 .. n : Prims(e)[k].pts \in Points
    BY <1>1 DEF Primitive
  <2>. QED  BY <2>1, MovedType, LayerIndexType DEF Items
<1>3. Todo(e, ins, pl, ic) = all
  BY DEF Todo
<1>4. \A k \in DOMAIN Prims(e) : F(k).layer = LayerIndex(Prims(e)[k].who, pl, ic)
  OBVIOUS
<1>. HIDE DEF n, F
<1>5. all \in [1 .. n -> Items] /\ \A k \in 1 .. n : all[k] = F(k)
  BY <1>1, <1>2
<1>. HIDE DEF all
<1>6. all \in Seq(Items) /\ DOMAIN all = 1 .. n
  BY <1>1, <1>5, FunctionIsSeq
<1>. QED  BY <1>1, <1>3, <1>4, <1>5, <1>6

\* Only the vertices and faces of a polyline have colours of their own.
LEMMA OwnColour ==
  ASSUME NEW e, IsEntity(e), e.kind # "polyline", NEW k \in DOMAIN Prims(e)
  PROVE  Prims(e)[k].who = e /\ e.kind # "vertex"
<1>1. WhoOf(e) = {e}
  BY DEF WhoOf, IsPoly
<1>2. Prims(e)[k] \in Primitive({e})
  <2>1. Prims(e) \in Seq(Primitive({e}))
    BY <1>1, PrimsType
  <2>2. k \in 1 .. Len(Prims(e))
    BY <2>1, LenProperties
  <2>. QED  BY <2>1, <2>2, ElementOfSeq
<1>3. e.kind = "vertex" => Prims(e) = << >>
  BY DEF Prims, IsPoly
<1>4. DOMAIN << >> = {}
  OBVIOUS
<1>5. Prims(e)[k].who = e
  BY <1>2 DEF Primitive
<1>. QED  BY <1>3, <1>4, <1>5

-----------------------------------------------------------------------------
(* The invariant.                                                            *)

\* layers show what was asked of them, and none is missing
Faithful ==
  /\ LayersAsked(shown) \subseteq DOMAIN layers
  /\ \A c : /\ LinesAt(layers, c) = LinesAsked(c, shown)
            /\ FacesAt(layers, c) = FacesAsked(c, shown)

\* so does what is printed
Printed ==
  /\ LayersAsked(out.asked) \subseteq DOMAIN out.text
  /\ \A c \in DOMAIN out.text :
       /\ Draws(out.text[c], c, out.asked)
       /\ out.text[c].lines # << >> => Last(out.text[c].lines) = End

ConvertInv ==
  /\ layers \in GoodLayers
  /\ fillmode \in BOOLEAN /\ insertColour \in Int
  /\ shown \in Seq(Record)
  /\ out = << >> => Faithful
  /\ out # << >> => Printed

LEMMA NoneShown ==
  /\ LayersAsked(<< >>) = {} /\ << >> \in Seq(Record) /\ << >> \in GoodLayers
  /\ \A c : /\ LinesAsked(c, << >>) = << >> /\ FacesAsked(c, << >>) = << >>
            /\ LinesAt(<< >>, c) = << >> /\ FacesAt(<< >>, c) = << >>
<1>1. DOMAIN << >> = {}
  OBVIOUS
<1>2. \A c : LinesAsked(c, << >>) = << >> /\ FacesAsked(c, << >>) = << >>
  <2>. SUFFICES ASSUME NEW c
                PROVE  LinesAsked(c, << >>) = << >> /\ FacesAsked(c, << >>) = << >>
    OBVIOUS
  <2>1. /\ [s \in DOMAIN << >> |-> LinesAdded(c, << >>[s].added)] = << >>
        /\ [s \in DOMAIN << >> |-> FacesAdded(c, << >>[s].added)] = << >>
    OBVIOUS
  <2>. QED  BY <2>1, FlattenEmpty DEF LinesAsked, FacesAsked
<1>3. << >> \in GoodLayers
  <2>1. << >> \in [{} -> GoodLayer]
    OBVIOUS
  <2>. QED  BY <1>1, <2>1, GoodAre
<1>4. LayersAsked(<< >>) = {}
  BY <1>1 DEF LayersAsked
<1>. QED  BY <1>1, <1>2, <1>3, <1>4, EmptySeq DEF LinesAt, FacesAt

LEMMA InvInit == Init => ConvertInv
BY NoneShown DEF Init, ConvertInv, Faithful, White

\* One conversion.
LEMMA InvConvert ==
  ASSUME ConvertInv, NEW e \in Entities, NEW ins \in Inserts \cup {<< >>}, Convert(e, ins)
  PROVE  ConvertInv'
<1>. DEFINE pl == IF e.kind = "polyline" THEN e ELSE polyline
            ic == InsertColour(ins)
            own == LayerIndex(e, pl, ic)
            todo == Todo(e, ins, pl, ic)
            op == Opened(layers, own)
            open == [op EXCEPT ![own].fill = Fill(e)]
            result == AddAll(open, todo)
            added == [k \in DOMAIN todo |->
                       [layer |-> todo[k].layer, pts |-> todo[k].pts,
                        fill |-> result[todo[k].layer].fill]]
            r == [entity |-> e, through |-> ins, added |-> added]
<1>1. /\ out = << >> /\ insertColour' = ic /\ layers' = result
      /\ shown' = Append(shown, r) /\ fillmode' = fillmode /\ out' = << >>
  BY DEF Convert
<1>2. IsEntity(e) /\ (ins = << >> \/ IsInsert(ins))
  BY ConvertAssumption DEF ConvertAssumption
<1>3. /\ layers \in GoodLayers /\ fillmode \in BOOLEAN /\ shown \in Seq(Record) /\ Faithful
      /\ insertColour \in Int
  BY <1>1 DEF ConvertInv
<1>4. own \in 1 .. 255
  BY LayerIndexType
<1>5. todo \in Seq(Items)
  BY <1>2, TodoType
<1>6. ic \in Int
  BY <1>2 DEF InsertColour, ColourIndex, IsInsert, White
<1>. HIDE DEF pl, ic, own, todo
<1>7. /\ op \in GoodLayers /\ DOMAIN op = DOMAIN layers \cup {own}
      /\ \A c : SameAt(op, layers, c)
  BY <1>3, <1>4, OpenedSame
<1>. HIDE DEF op
<1>8. /\ open \in GoodLayers /\ DOMAIN open = DOMAIN layers \cup {own}
      /\ \A c : SameAt(open, layers, c)
  <2>. DEFINE b == Fill(e)
              D == DOMAIN op
              x == [op[own] EXCEPT !.fill = b]
  <2>1. b \in BOOLEAN
    BY <1>3 DEF Fill
  <2>2. own \in D /\ Good(op[own]) /\ op = [c \in D |-> op[c]] /\ D \in SUBSET (1 .. 255)
    BY <1>7, LayersGood
  <2>. HIDE DEF b
  <2>3. /\ x \in LayerSet /\ x.linePts = op[own].linePts /\ x.lines = op[own].lines
        /\ x.facePts = op[own].facePts /\ x.faces = op[own].faces
    BY ZenonT(60), <2>1, <2>2 DEF Good, LayerSet
  <2>. HIDE DEF x
  <2>4. Good(x) /\ LinesIn(x) = LinesIn(op[own]) /\ FacesIn(x) = FacesIn(op[own])
    BY <2>2, <2>3 DEF Good, LinesIn, FacesIn
  <2>5. /\ open = [op EXCEPT ![own] = x] /\ open = [c \in D |-> IF c = own THEN x ELSE op[c]]
        /\ DOMAIN open = D /\ \A c \in D : open[c] = IF c = own THEN x ELSE op[c]
    BY <2>2 DEF x, b
  <2>. HIDE DEF open, D
  <2>6. \A c \in D : op[c] \in GoodLayer
    BY <1>7, LayersGood DEF D
  <2>7. open \in [D -> GoodLayer]
    <3>1. x \in GoodLayer
      BY <2>3, <2>4 DEF GoodLayer
    <3>. QED  BY <2>5, <2>6, <3>1
  <2>8. open \in GoodLayers
    BY <2>2, <2>5, <2>7, GoodAre
  <2>9. ASSUME NEW c PROVE SameAt(open, layers, c)
    <3>1. SameAt(op, layers, c)
      BY <1>7
    <3>2. SameAt(open, op, c)
      BY <2>2, <2>4, <2>5 DEF SameAt, LinesAt, FacesAt, D
    <3>. QED  BY <3>1, <3>2 DEF SameAt
  <2>. QED  BY <1>7, <2>5, <2>8, <2>9 DEF D
<1>. HIDE DEF open
<1>9. /\ AllAdded(open, todo) \in Seq(Added)
      /\ DOMAIN AllAdded(open, todo) = DOMAIN todo
      /\ Reached(result, open, AllAdded(open, todo))
  BY <1>5, <1>8, AddAllReaches
<1>. HIDE DEF result
<1>10. added = AllAdded(open, todo)
  <2>1. \A k \in DOMAIN todo : result[todo[k].layer].fill = FillAt(open, todo[k].layer)
    <3>. SUFFICES ASSUME NEW k \in DOMAIN todo
                  PROVE  result[todo[k].layer].fill = FillAt(open, todo[k].layer)
      OBVIOUS
    <3>1. AllAdded(open, todo)[k].layer = todo[k].layer
      BY DEF AllAdded, AddedTo
    <3>2. k \in 1 .. Len(AllAdded(open, todo))
      BY <1>9, LenProperties
    <3>3. todo[k].layer \in DOMAIN result
      BY <1>9, <3>1, <3>2 DEF Reached
    <3>4. FillAt(result, todo[k].layer) = FillAt(open, todo[k].layer)
      BY <1>9 DEF Reached
    <3>. QED  BY <3>3, <3>4 DEF FillAt
  <2>. QED  BY <2>1 DEF AllAdded, AddedTo
<1>11. added \in Seq(Added) /\ Reached(result, open, added)
  BY <1>9, <1>10
<1>. HIDE DEF added
<1>12. r \in Record /\ r.added = added
  BY <1>11 DEF Record
<1>. HIDE DEF r
<1>13. Append(shown, r) \in Seq(Record)
  BY <1>3, <1>12, AppendProperties
<1>14. layers' \in GoodLayers /\ DOMAIN layers \subseteq DOMAIN layers'
  BY <1>1, <1>8, <1>11 DEF Reached
<1>15. \A c : /\ LinesAt(layers', c) = LinesAsked(c, shown')
              /\ FacesAt(layers', c) = FacesAsked(c, shown')
  <2>. SUFFICES ASSUME NEW c
                PROVE  /\ LinesAt(result, c) = LinesAsked(c, Append(shown, r))
                       /\ FacesAt(result, c) = FacesAsked(c, Append(shown, r))
    BY <1>1
  <2>1. ShowsAt(result, open, c, LinesAdded(c, added), FacesAdded(c, added))
    BY <1>11 DEF Reached
  <2>2. LinesAt(open, c) = LinesAsked(c, shown) /\ FacesAt(open, c) = FacesAsked(c, shown)
    BY <1>3, <1>8 DEF SameAt, Faithful
  <2>3. /\ LinesAsked(c, Append(shown, r)) = LinesAsked(c, shown) \o LinesAdded(c, added)
        /\ FacesAsked(c, Append(shown, r)) = FacesAsked(c, shown) \o FacesAdded(c, added)
    BY <1>3, <1>12, AskedAppend
  <2>. QED  BY <2>1, <2>2, <2>3 DEF ShowsAt
<1>16. LayersAsked(shown') \subseteq DOMAIN layers'
  <2>. DEFINE n == Len(shown)
              all == Append(shown, r)
  <2>1. /\ DOMAIN all = 1 .. n + 1 /\ DOMAIN shown = 1 .. n /\ n \in Nat
        /\ all[n + 1] = r /\ \A s \in 1 .. n : all[s] = shown[s]
    BY <1>3, <1>12, AppendProperties, LenProperties
  <2>. HIDE DEF all
  <2>2. \A s \in 1 .. n + 1 : s \in 1 .. n \/ s = n + 1
    BY <2>1
  <2>3. ASSUME NEW s \in 1 .. n + 1, NEW k \in DOMAIN all[s].added
        PROVE  all[s].added[k].layer \in DOMAIN result
    <3>1. CASE s \in 1 .. n
      <4>1. all[s].added[k].layer \in LayersAsked(shown)
        BY <2>1, <2>3, <3>1 DEF LayersAsked
      <4>. QED  BY <1>1, <1>3, <1>14, <4>1 DEF Faithful
    <3>2. CASE s = n + 1
      <4>1. all[s].added = added
        BY <1>12, <2>1, <3>2
      <4>2. k \in 1 .. Len(added)
        BY <1>11, <2>3, <4>1, LenProperties
      <4>. QED  BY <1>11, <4>1, <4>2 DEF Reached
    <3>. QED  BY <2>2, <3>1, <3>2
  <2>4. LayersAsked(all) \subseteq DOMAIN result
    BY <2>1, <2>3 DEF LayersAsked
  <2>. QED  BY <1>1, <2>4 DEF all
<1>. QED  BY <1>1, <1>3, <1>6, <1>13, <1>14, <1>15, <1>16 DEF ConvertInv, Faithful

\* Ending the last strip draws nothing.
LEMMA ClosedSame ==
  ASSUME NEW ld, Good(ld)
  PROVE  LET ended == [ld EXCEPT !.lines = Closed(@)]
         IN  /\ LinesIn(ended) = LinesIn(ld) /\ FacesIn(ended) = FacesIn(ld)
             /\ ended.lines # << >> => Last(ended.lines) = End
<1>. DEFINE l == ld.lines
            p == ld.linePts
            s == Closed(l)
            ended == [ld EXCEPT !.lines = Closed(@)]
<1>1. /\ ended.lines = s /\ ended.linePts = p
      /\ ended.facePts = ld.facePts /\ ended.faces = ld.faces
  BY DEF Good, LayerSet
<1>. HIDE DEF ended
<1>2. p \in Seq(Place) /\ l \in Seq(0 .. Len(p)) /\ 0 \in 0 .. Len(p) /\ Len(l) \in Nat
      /\ (l # << >> => l[Len(l)] # End)
  BY LenProperties DEF Good, LayerSet, Strips
<1>3. CASE l = << >>
  BY <1>1, <1>3 DEF Closed, LinesIn, FacesIn
<1>4. CASE l # << >>
  <2>1. s = Append(l, End)
    BY <1>2, <1>4 DEF Closed, Last
  <2>. DEFINE n == Len(l) + 1
  <2>2. s[n] = End /\ Len(s) = n
    BY <1>2, <2>1, AppendProperties DEF End
  <2>. HIDE DEF p, l, s
  <2>3. DrawnLines(p, s) = DrawnLines(p, l) \o Stroke(p, s, n)
    BY <1>2, <2>1, DrawnAppend DEF End
  <2>. HIDE DEF n
  <2>4. Stroke(p, s, n) = << >>
    BY <2>2 DEF Stroke
  <2>5. DrawnLines(p, l) \in Seq(Seq(Place))
    BY <1>2, DrawnType
  <2>6. DrawnLines(p, s) = DrawnLines(p, l)
    BY <2>3, <2>4, <2>5, ConcatEmptySeq
  <2>7. Last(s) = End
    BY <2>2 DEF Last
  <2>. QED  BY <1>1, <2>6, <2>7 DEF LinesIn, FacesIn, ended, p, l, s
<1>. QED  BY <1>3, <1>4 DEF ended

LEMMA InvWrite ==
  ASSUME ConvertInv, WriteVrml
  PROVE  ConvertInv'
<1>. DEFINE text == [c \in DOMAIN layers |-> [layers[c] EXCEPT !.lines = Closed(@)]]
            page == [asked |-> shown, text |-> text]
<1>1. /\ out = << >> /\ out' = page /\ layers' = << >>
      /\ shown' = shown /\ fillmode' = fillmode /\ insertColour' = insertColour
  BY DEF WriteVrml
<1>2. /\ layers \in GoodLayers /\ fillmode \in BOOLEAN /\ shown \in Seq(Record) /\ Faithful
      /\ insertColour \in Int
  BY <1>1 DEF ConvertInv
<1>3. page # << >> /\ page.asked = shown /\ page.text = text /\ DOMAIN text = DOMAIN layers
  <2>1. "asked" \in DOMAIN page /\ DOMAIN << >> = {}
    OBVIOUS
  <2>. QED  BY <2>1
<1>4. ASSUME NEW c \in DOMAIN layers
      PROVE  /\ Draws(text[c], c, shown)
             /\ text[c].lines # << >> => Last(text[c].lines) = End
  <2>1. Good(layers[c])
    BY <1>2, LayersGood
  <2>. DEFINE ended == [layers[c] EXCEPT !.lines = Closed(@)]
  <2>2. text[c] = ended
    OBVIOUS
  <2>3. /\ LinesIn(ended) = LinesIn(layers[c]) /\ FacesIn(ended) = FacesIn(layers[c])
        /\ ended.lines # << >> => Last(ended.lines) = End
    BY <2>1, ClosedSame
  <2>4. LinesIn(layers[c]) = LinesAsked(c, shown) /\ FacesIn(layers[c]) = FacesAsked(c, shown)
    BY <1>2 DEF Faithful, LinesAt, FacesAt
  <2>. HIDE DEF ended, text
  <2>. QED  BY <2>2, <2>3, <2>4 DEF Draws, LinesIn, FacesIn
<1>. HIDE DEF text
<1>5. Printed'
  BY <1>1, <1>2, <1>3, <1>4 DEF Printed, Faithful
<1>. QED  BY <1>1, <1>2, <1>3, <1>5, NoneShown DEF ConvertInv

LEMMA InvNext == ConvertInv /\ [Next]_vars => ConvertInv'
<1>. SUFFICES ASSUME ConvertInv, [Next]_vars PROVE ConvertInv'
  OBVIOUS
<1>1. ASSUME NEW e \in Entities, NEW ins \in Inserts \cup {<< >>}, Convert(e, ins)
      PROVE  ConvertInv'
  BY <1>1, InvConvert
<1>2. CASE DoConvert
  BY <1>2, NoneShown DEF DoConvert, ConvertInv, Faithful
<1>3. ASSUME NEW b \in BOOLEAN, SetFillmode(b)
      PROVE  ConvertInv'
  BY <1>3 DEF SetFillmode, ConvertInv, Faithful, Printed
<1>4. CASE WriteVrml
  BY <1>4, InvWrite
<1>5. CASE UNCHANGED vars
  BY <1>5 DEF vars, ConvertInv, Faithful, Printed
<1>. QED  BY <1>1, <1>2, <1>3, <1>4, <1>5 DEF Next

LEMMA CountPlaces ==
  ASSUME NEW P, NEW s \in Seq(P), NoRepeat(s)
  PROVE  Cardinality(ToSet(s)) = Len(s)
<1>1. Len(s) \in Nat /\ DOMAIN s = 1 .. Len(s) /\ s = [i \in 1 .. Len(s) |-> s[i]]
  BY LenProperties
<1>2. ToSet(s) = {s[i] : i \in 1 .. Len(s)}
  BY <1>1 DEF ToSet
<1>3. s \in [1 .. Len(s) -> ToSet(s)] /\ \A t \in ToSet(s) : \E i \in 1 .. Len(s) : s[i] = t
  BY <1>1, <1>2
<1>4. s \in Bijection(1 .. Len(s), ToSet(s))
  BY <1>1, <1>3 DEF Bijection, Injection, Surjection, IsInjective, NoRepeat
<1>5. ExistsBijection(1 .. Len(s), ToSet(s))
  BY <1>4 DEF ExistsBijection
<1>. QED  BY <1>1, <1>5, FS_CountingElements

LEMMA InvStrips == ConvertInv => StripsSound
<1>. SUFFICES ASSUME ConvertInv PROVE StripsSound
  OBVIOUS
<1>1. /\ DOMAIN layers \subseteq 1 .. 255
      /\ \A c \in DOMAIN layers : Good(layers[c])
  BY LayersGood DEF ConvertInv
<1>2. ASSUME NEW ld, Good(ld)
      PROVE  /\ ld.fill \in BOOLEAN
             /\ ToSet(ld.lines) \subseteq 0 .. Len(ld.linePts)
             /\ ToSet(ld.faces) \subseteq 0 .. Len(ld.facePts)
             /\ Cardinality(ToSet(ld.linePts)) = Len(ld.linePts)
             /\ Cardinality(ToSet(ld.facePts)) = Len(ld.facePts)
  <2>1. /\ ld.linePts \in Seq(Place) /\ NoRepeat(ld.linePts)
        /\ ld.facePts \in Seq(Place) /\ NoRepeat(ld.facePts)
        /\ ld.lines \in Seq(0 .. Len(ld.linePts)) /\ ld.faces \in Seq(0 .. Len(ld.facePts))
        /\ ld.fill \in BOOLEAN
    BY <1>2 DEF Good, LayerSet, Strips
  <2>2. /\ Cardinality(ToSet(ld.linePts)) = Len(ld.linePts)
        /\ Cardinality(ToSet(ld.facePts)) = Len(ld.facePts)
    BY <2>1, CountPlaces
  <2>3. ASSUME NEW S, NEW s \in Seq(S) PROVE ToSet(s) \subseteq S
    BY ElementOfSeq, LenProperties DEF ToSet
  <2>. QED  BY <2>1, <2>2, <2>3
<1>3. TypeOK
  <2>1. fillmode \in BOOLEAN /\ insertColour \in Int
    BY DEF ConvertInv
  <2>. QED  BY <1>1, <1>2, <2>1 DEF TypeOK
<1>4. DrawsWhatWasAdded
  <2>1. CASE out = << >>
    <3>1. Faithful
      BY <2>1 DEF ConvertInv
    <3>. QED  BY <2>1, <3>1 DEF DrawsWhatWasAdded, Faithful, Draws, LinesAt, FacesAt,
                                LinesIn, FacesIn
  <2>2. CASE out # << >>
    BY <2>2 DEF ConvertInv, DrawsWhatWasAdded, Printed
  <2>. QED  BY <2>1, <2>2
<1>. QED  BY <1>3, <1>4 DEF StripsSound

\* Whatever is converted, in any order and any number of times, every layer
\* and every page printed by writeVrml() shows exactly the lines and the faces
\* that were added, in order: sharing places through the two point trees and
\* joining lines into strips (addLine(), addTriangle(), addQuad()) loses,
\* invents and moves nothing.
THEOREM StripsAreSound == Spec => []StripsSound
<1>1. Init => ConvertInv
  BY InvInit
<1>2. ConvertInv /\ [Next]_vars => ConvertInv'
  BY InvNext
<1>3. ConvertInv => StripsSound
  BY InvStrips
<1>. QED  BY <1>1, <1>2, <1>3, PTL DEF Spec

\* The colours under which e was converted, as a converter without a past
\* gives them.
LEMMA AloneAlike ==
  ASSUME NEW e, IsEntity(e), NEW ins, ins = << >> \/ IsInsert(ins),
         NEW pl, e.kind = "polyline" => pl = e
  PROVE  [k \in DOMAIN Prims(e) |-> LayerIndex(Prims(e)[k].who, pl, InsertColour(ins))]
           = LayersAlone(e, ins)
<1>. DEFINE alone == IF e.kind = "polyline" THEN e ELSE << >>
            ic == IF ins = << >> THEN White ELSE ColourIndex(ins)
<1>1. InsertColour(ins) = ic
  BY DEF InsertColour
<1>2. ASSUME NEW k \in DOMAIN Prims(e)
      PROVE  LayerIndex(Prims(e)[k].who, pl, ic) = LayerIndex(Prims(e)[k].who, alone, ic)
  <2>1. CASE e.kind = "polyline"
    BY <2>1
  <2>2. CASE e.kind # "polyline"
    <3>1. Prims(e)[k].who = e /\ e.kind # "vertex"
      BY <2>2, OwnColour
    <3>. HIDE DEF ic, alone
    <3>2. LayerIndex(e, pl, ic) = LayerIndex(e, alone, ic)
      BY <3>1 DEF LayerIndex
    <3>. QED  BY <3>1, <3>2
  <2>. QED  BY <2>1, <2>2
<1>3. LayersAlone(e, ins) = [k \in DOMAIN Prims(e) |-> LayerIndex(Prims(e)[k].who, alone, ic)]
  BY DEF LayersAlone
<1>. HIDE DEF alone, ic
<1>. QED  BY <1>1, <1>2, <1>3

ColourOf(r) == [k \in DOMAIN r.added |-> r.added[k].layer] = LayersAlone(r.entity, r.through)

\* Converting does not look back.
LEMMA FreeNext == ConvertInv /\ HistoryFree /\ [Next]_vars => HistoryFree'
<1>. SUFFICES ASSUME ConvertInv, HistoryFree, [Next]_vars PROVE HistoryFree'
  OBVIOUS
<1>. USE DEF ColourOf
<1>1. shown \in Seq(Record) /\ \A s \in DOMAIN shown : ColourOf(shown[s])
  BY DEF ConvertInv, HistoryFree
<1>2. ASSUME NEW e \in Entities, NEW ins \in Inserts \cup {<< >>}, Convert(e, ins)
      PROVE  HistoryFree'
  <2>. DEFINE pl == IF e.kind = "polyline" THEN e ELSE polyline
              ic == InsertColour(ins)
              todo == Todo(e, ins, pl, ic)
              own == LayerIndex(e, pl, ic)
              result == AddAll([Opened(layers, own) EXCEPT ![own].fill = Fill(e)], todo)
              added == [k \in DOMAIN todo |->
                         [layer |-> todo[k].layer, pts |-> todo[k].pts,
                          fill |-> result[todo[k].layer].fill]]
              r == [entity |-> e, through |-> ins, added |-> added]
  <2>1. shown' = Append(shown, r)
    BY <1>2 DEF Convert
  <2>2. IsEntity(e) /\ (ins = << >> \/ IsInsert(ins))
    BY ConvertAssumption DEF ConvertAssumption
  <2>3. /\ DOMAIN todo = DOMAIN Prims(e)
        /\ \A k \in DOMAIN Prims(e) : todo[k].layer = LayerIndex(Prims(e)[k].who, pl, ic)
    BY <2>2, TodoType
  <2>4. [k \in DOMAIN Prims(e) |-> LayerIndex(Prims(e)[k].who, pl, ic)] = LayersAlone(e, ins)
    <3>1. e.kind = "polyline" => pl = e
      OBVIOUS
    <3>. HIDE DEF pl
    <3>. QED  BY <2>2, <3>1, AloneAlike
  <2>. HIDE DEF pl, ic, todo, result
  <2>5. DOMAIN added = DOMAIN Prims(e)
          /\ \A k \in DOMAIN Prims(e) : added[k].layer = LayerIndex(Prims(e)[k].who, pl, ic)
    BY <2>3
  <2>. HIDE DEF added
  <2>6. [k \in DOMAIN added |-> added[k].layer] = LayersAlone(e, ins)
    BY <2>4, <2>5
  <2>7. r.added = added /\ r.entity = e /\ r.through = ins
    OBVIOUS
  <2>. HIDE DEF r
  <2>8. ColourOf(r)
    BY <2>6, <2>7
  <2>9. /\ DOMAIN shown' = 1 .. Len(shown) + 1 /\ DOMAIN shown = 1 .. Len(shown)
        /\ shown'[Len(shown) + 1] = r /\ \A s \in 1 .. Len(shown) : shown'[s] = shown[s]
    <3>1. shown \in Seq(Record \cup {r})
      BY <1>1, SeqMonotonic
    <3>. QED  BY <2>1, <3>1, AppendProperties, LenProperties
  <2>10. \A s \in DOMAIN shown' : s \in 1 .. Len(shown) \/ s = Len(shown) + 1
    BY <1>1, <2>9, LenProperties
  <2>11. \A s \in DOMAIN shown' : ColourOf(shown'[s])
    <3>. HIDE DEF ColourOf
    <3>. QED  BY <1>1, <2>8, <2>9, <2>10
  <2>. QED  BY <2>11 DEF HistoryFree
<1>3. CASE DoConvert
  BY <1>3 DEF DoConvert, HistoryFree
<1>4. CASE UNCHANGED shown
  BY <1>4 DEF HistoryFree
<1>. QED  BY <1>2, <1>3, <1>4 DEF Next, vars, SetFillmode, WriteVrml

\* The layers an entity's primitives go to depend on the entity and on the
\* INSERT it is met through: currentPolyline and currentInsertColorIndex,
\* which private_callback() leaves behind in the converter, never give an entity
\* the colour of one converted before it.
THEOREM ColoursAreHistoryFree == Spec => []HistoryFree
<1>1. Init => ConvertInv /\ HistoryFree
  <2>1. Init => HistoryFree
    BY DEF Init, HistoryFree
  <2>. QED  BY <2>1, InvInit
<1>2. ConvertInv /\ HistoryFree /\ [Next]_vars => ConvertInv' /\ HistoryFree'
  BY InvNext, FreeNext
<1>. QED  BY <1>1, <1>2, PTL DEF Spec
=============================================================================
