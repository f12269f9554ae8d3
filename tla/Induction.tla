------------------------------ MODULE Induction ------------------------------
(***************************************************************************)
(* Induction over the naturals as facts about sets, for the proof modules: *)
(* finite sets have minimal elements under inclusion, so sets of naturals  *)
(* have least elements.  A property P is proved for every natural with the *)
(* set {n \in Nat : P(n)}.                                                 *)
(***************************************************************************)
EXTENDS Integers, FiniteSetTheorems, TLAPS

\* A non-empty set of naturals has a least element.
LEMMA NatMin ==
  ASSUME NEW T, T \subseteq Nat, T # {}
  PROVE  \E x \in T : \A y \in T : x <= y
<1>. DEFINE R == StrictSubsetOrdering(Nat)
            S == FiniteSubsetsOf(Nat)
            U == {0 .. n : n \in T}
<1>1. IsWellFoundedOn(R, S)
  BY FS_StrictSubsetOrderingWellFounded
<1>2. U \subseteq S
  <2>1. \A n \in Nat : 0 .. n \subseteq Nat
    OBVIOUS
  <2>2. \A n \in Nat : IsFiniteSet(0 .. n)
    BY FS_Interval
  <2>. QED  BY <2>1, <2>2 DEF FiniteSubsetsOf
<1>3. U # {}
  OBVIOUS
<1>. HIDE DEF R, S, U
<1>4. PICK u \in U : \A v \in U : <<v, u>> \notin R
  BY <1>1, <1>2, <1>3, WFMin
<1>5. PICK x \in T : u = 0 .. x
  BY DEF U
<1>6. SUFFICES ASSUME NEW y \in T, y < x PROVE FALSE
  BY <1>5
<1>7. 0 .. y \in U
  BY DEF U
<1>8. 0 .. y \subseteq 0 .. x /\ 0 .. y # 0 .. x /\ 0 .. x \subseteq Nat
  BY <1>6
<1>9. <<0 .. y, 0 .. x>> \in R
  BY <1>8 DEF R, StrictSubsetOrdering
<1>. QED  BY <1>4, <1>5, <1>7, <1>9

\* A set that has 0, and k + 1 whenever it has k, has every natural.
LEMMA SetInduction ==
  ASSUME NEW T, 0 \in T, \A k \in Nat : k \in T => k + 1 \in T
  PROVE  Nat \subseteq T
<1>. SUFFICES ASSUME Nat \ T # {} PROVE FALSE
  OBVIOUS
<1>1. PICK x \in Nat \ T : \A y \in Nat \ T : x <= y
  BY NatMin
<1>2. x # 0 /\ x - 1 \in Nat /\ x - 1 < x /\ (x - 1) + 1 = x
  BY <1>1
<1>3. x - 1 \in T
  BY <1>1, <1>2
<1>. QED  BY <1>1, <1>2, <1>3

\* A finite, non-empty set of integers above m has a least element, and one
\* below m a greatest.
LEMMA IntMin ==
  ASSUME NEW T, T \subseteq Int, T # {}, NEW m \in Int, \A x \in T : m <= x
  PROVE  \E x \in T : \A y \in T : x <= y
<1>. DEFINE U == {x - m : x \in T}
<1>1. U \subseteq Nat /\ U # {}
  <2>1. \A x \in T : x \in Int /\ m <= x
    OBVIOUS
  <2>2. \A x \in T : x - m \in Nat
    BY <2>1
  <2>. QED  BY <2>2
<1>. HIDE DEF U
<1>2. PICK u \in U : \A v \in U : u <= v
  BY <1>1, NatMin
<1>3. PICK x \in T : u = x - m
  BY DEF U
<1>4. \A y \in T : x - m <= y - m
  BY <1>2, <1>3 DEF U
<1>. QED  BY <1>4

LEMMA IntMax ==
  ASSUME NEW T, T \subseteq Int, T # {}, NEW m \in Int, \A x \in T : x <= m
  PROVE  \E x \in T : \A y \in T : x >= y
<1>. DEFINE U == {m - x : x \in T}
<1>1. U \subseteq Nat /\ U # {}
  <2>1. \A x \in T : x \in Int /\ x <= m
    OBVIOUS
  <2>2. \A x \in T : m - x \in Nat
    BY <2>1
  <2>. QED  BY <2>2
<1>. HIDE DEF U
<1>2. PICK u \in U : \A v \in U : u <= v
  BY <1>1, NatMin
<1>3. PICK x \in T : u = m - x
  BY DEF U
<1>4. \A y \in T : m - x <= m - y
  BY <1>2, <1>3 DEF U
<1>. QED  BY <1>4
\* Induction up to n.
LEMMA UpTo ==
  ASSUME NEW n \in Nat, NEW T, 0 \in T, \A k \in 1 .. n : k - 1 \in T => k \in T
  PROVE  0 .. n \subseteq T
<1>. DEFINE U == {k \in Nat : k <= n => k \in T}
<1>1. 0 \in U
  OBVIOUS
<1>2. ASSUME NEW k \in Nat, k \in U PROVE k + 1 \in U
  <2>. SUFFICES ASSUME k + 1 <= n PROVE k + 1 \in T
    OBVIOUS
  <2>1. k \in T /\ k + 1 \in 1 .. n /\ (k + 1) - 1 = k
    BY <1>2
  <2>. QED  BY <2>1
<1>3. Nat \subseteq U
  <2>. HIDE DEF U
  <2>. QED  BY <1>1, <1>2, SetInduction
<1>. QED  BY <1>3

\* f starts at b and goes on by g: g[k][v] is the value for k when that for
\* k - 1 is v.
Follows(f, n, b, g) == f[0] = b /\ \A k \in 1 .. n : f[k] = g[k][f[k - 1]]

\* A value for 0, and one for each number after that of the one before, make
\* a function: the recursive functions of the modules exist.
LEMMA Recursion ==
  ASSUME NEW S, NEW n \in Nat, NEW b \in S, NEW g \in [1 .. n -> [S -> S]]
  PROVE  \E f \in [0 .. n -> S] : Follows(f, n, b, g)
<1>. DEFINE Good(f, m) == f[0] = b /\ \A k \in 1 .. n : k <= m => f[k] = g[k][f[k - 1]]
            T == {m \in 0 .. n : \E f \in [0 .. n -> S] : Good(f, m)}
<1>1. 0 \in T
  <2>. DEFINE f == [k \in 0 .. n |-> b]
  <2>1. f \in [0 .. n -> S] /\ f[0] = b
    OBVIOUS
  <2>2. \A k \in 1 .. n : ~(k <= 0)
    OBVIOUS
  <2>3. Good(f, 0)
    BY <2>1, <2>2
  <2>. HIDE DEF f, Good
  <2>. QED  BY <2>1, <2>3
<1>2. ASSUME NEW m \in 1 .. n, m - 1 \in T PROVE m \in T
  <2>. HIDE DEF Good
  <2>1. PICK f \in [0 .. n -> S] : Good(f, m - 1)
    BY <1>2
  <2>. DEFINE h == [f EXCEPT ![m] = g[m][f[m - 1]]]
  <2>2. m - 1 \in 0 .. n /\ m \in 0 .. n /\ m # 0
    OBVIOUS
  <2>3. f[m - 1] \in S
    BY <2>2
  <2>4. g[m][f[m - 1]] \in S
    BY <2>3
  <2>5. h \in [0 .. n -> S]
    BY <2>4
  <2>6. h[m] = g[m][f[m - 1]] /\ \A k \in 0 .. n : k # m => h[k] = f[k]
    BY <2>2
  <2>. HIDE DEF h
  <2>7. f[0] = b /\ \A k \in 1 .. n : k <= m - 1 => f[k] = g[k][f[k - 1]]
    BY <2>1 DEF Good
  <2>8. h[0] = b
    BY <2>2, <2>6, <2>7
  <2>9. ASSUME NEW k \in 1 .. n, k <= m PROVE h[k] = g[k][h[k - 1]]
    <3>1. k - 1 \in 0 .. n /\ k - 1 # m /\ k \in 0 .. n
      BY <2>9
    <3>2. h[k - 1] = f[k - 1]
      BY <2>6, <3>1
    <3>3. CASE k = m
      BY <2>6, <3>2, <3>3
    <3>4. CASE k # m
      <4>1. k <= m - 1
        BY <2>9, <3>4
      <4>. QED  BY <2>6, <2>7, <3>1, <3>2, <3>4, <4>1
    <3>. QED  BY <3>3, <3>4
  <2>10. Good(h, m)
    BY <2>8, <2>9 DEF Good
  <2>. QED  BY <2>2, <2>5, <2>10
<1>3. n \in T
  <2>. HIDE DEF T
  <2>1. 0 .. n \subseteq T
    BY <1>1, <1>2, UpTo
  <2>. QED  BY <2>1
<1>4. PICK f \in [0 .. n -> S] : Good(f, n)
  BY <1>3
<1>5. \A k \in 1 .. n : k <= n
  OBVIOUS
<1>6. Follows(f, n, b, g)
  BY <1>4, <1>5 DEF Follows
<1>. QED  BY <1>6
=============================================================================
