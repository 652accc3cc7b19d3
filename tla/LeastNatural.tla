---------------------------- MODULE LeastNatural ----------------------------
(***************************************************************************)
(* The least element of a set of natural numbers, for a search that takes  *)
(* the first place; and what follows from it for recursive functions.      *)
(***************************************************************************)
EXTENDS Integers, FiniteSetTheorems, WellFoundedInduction, TLAPS

\* By the well-founded order of the finite sets 0..n under strict inclusion
LEMMA Least ==
    ASSUME NEW T \in SUBSET Nat, T # {}
    PROVE  \E x \in T : \A y \in T : x <= y
<1> DEFINE U == {0..n : n \in T}
           R == StrictSubsetOrdering(Nat)
<1>1. IsWellFoundedOn(R, FiniteSubsetsOf(Nat))
  BY FS_StrictSubsetOrderingWellFounded
<1>2. U \subseteq FiniteSubsetsOf(Nat)
  <2> SUFFICES ASSUME NEW n \in T PROVE 0..n \in FiniteSubsetsOf(Nat)
    OBVIOUS
  <2>1. IsFiniteSet(0..n)
    BY FS_Interval
  <2> QED
    BY <2>1 DEF FiniteSubsetsOf
<1>3. U # {}
  OBVIOUS
<1>4. PICK u \in U : \A v \in U : ~ (<<v, u>> \in R)
  <2> HIDE DEF R, U
  <2> QED
    BY <1>1, <1>2, <1>3, WFMin
<1>5. PICK x \in T : u = 0..x
  OBVIOUS
<1>6. ASSUME NEW y \in T, y < x PROVE FALSE
  <2>1. /\ (0..y) \subseteq (0..x) /\ 0..y # 0..x /\ 0..y \in U
        /\ 0..x \in SUBSET Nat /\ 0..y \in SUBSET Nat
    BY <1>6
  <2>2. <<0..y, 0..x>> \in R
    <3> HIDE DEF U
    <3> QED
      BY <2>1 DEF StrictSubsetOrdering
  <2> QED
    BY <1>4, <1>5, <2>1, <2>2
<1> QED
  BY <1>6

\* What holds of 0, and of each number up to N whose predecessor it holds of
LEMMA UpTo ==
    ASSUME NEW N \in Nat, NEW P, 0 \in P, \A n \in 1..N : n - 1 \in P => n \in P
    PROVE  \A n \in 0..N : n \in P
<1> DEFINE T == {n \in 0..N : n \notin P}
<1>1. T = {}
  <2> SUFFICES ASSUME T # {} PROVE FALSE
    OBVIOUS
  <2>1. PICK x \in T : \A y \in T : x <= y
    <3>1. T \in SUBSET Nat
      OBVIOUS
    <3> HIDE DEF T
    <3> QED
      BY <3>1, Least
  <2>2. x # 0 /\ x \in 0..N /\ x \notin P
    OBVIOUS
  <2>3. x \in 1..N /\ x - 1 \in 0..N /\ ~ (x <= x - 1)
    BY <2>2
  <2>4. x - 1 \in P
    BY <2>1, <2>3
  <2> QED
    BY <2>2, <2>3, <2>4
<1> QED
  BY <1>1

\* The values a recursion goes through: each comes of the one before it.
Recurs(h, S, x, N, F) == h \in [0..N -> S] /\ h[0] = x /\ \A n \in 1..N : h[n] = F[n][h[n - 1]]

LEMMA Recursion ==
    ASSUME NEW S, NEW x \in S, NEW N \in Nat, NEW F \in [1..N -> [S -> S]]
    PROVE  \E h : Recurs(h, S, x, N, F)
<1> DEFINE P == {n \in 0..N : \E h : Recurs(h, S, x, n, F)}
<1>1. 0 \in P
  <2>1. Recurs([n \in 0..0 |-> x], S, x, 0, F)
    BY DEF Recurs
  <2> QED
    BY <2>1
<1>2. ASSUME NEW n \in 1..N, n - 1 \in P PROVE n \in P
  <2>1. PICK h : Recurs(h, S, x, n - 1, F)
    BY <1>2
  <2> DEFINE g == [k \in 0..n |-> IF k = n THEN F[n][h[n - 1]] ELSE h[k]]
  <2>2. n - 1 \in 0..(n - 1) /\ h[n - 1] \in S /\ F[n][h[n - 1]] \in S
    BY <2>1 DEF Recurs
  <2>3. g \in [0..n -> S] /\ g[0] = x /\ g[n] = F[n][h[n - 1]] /\ g[n - 1] = h[n - 1]
    BY <2>1, <2>2 DEF Recurs
  <2>4. ASSUME NEW k \in 1..n PROVE g[k] = F[k][g[k - 1]]
    <3>1. CASE k = n
      BY <2>3, <3>1
    <3>2. CASE k # n
      <4>1. k \in 1..(n - 1) /\ k \in 0..n /\ k - 1 \in 0..n /\ k - 1 # n
        BY <3>2
      <4>2. g[k] = h[k] /\ g[k - 1] = h[k - 1]
        BY <3>2, <4>1
      <4> QED
        BY <2>1, <4>1, <4>2 DEF Recurs
    <3> QED
      BY <3>1, <3>2
  <2> HIDE DEF g
  <2>5. Recurs(g, S, x, n, F)
    BY <2>3, <2>4 DEF Recurs
  <2> QED
    BY <2>5
<1> HIDE DEF P
<1>3. N \in P
  <2>1. N \in 0..N
    OBVIOUS
  <2> QED
    BY <1>1, <1>2, <2>1, UpTo
<1> QED
  BY <1>3 DEF P
=============================================================================
