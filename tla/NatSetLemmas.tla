---------------------------- MODULE NatSetLemmas ----------------------------
(* Facts about sets of naturals that several proofs rest on. *)
EXTENDS Integers, FiniteSetsExt, TLAPS, WellFoundedInduction

(* A non-empty set of naturals has its minimum. *)
LEMMA MinOfNats ==
  ASSUME NEW S, S \subseteq Nat, S # {}
  PROVE  Min(S) \in S /\ \A k \in S : Min(S) =< k
<1>1. PICK m \in S : \A k \in S : ~ (<<k, m>> \in OpToRel(<, Nat))
  BY WFMin, NatLessThanWellFounded, Zenon
<1>2. \A k \in S : ~ (k < m)
  BY <1>1, Zenon DEF OpToRel
<1>3. m \in S /\ \A k \in S : m =< k
  BY <1>2
<1> QED BY <1>3 DEF Min

(* And a bounded one its maximum. *)
LEMMA MaxOfNats ==
  ASSUME NEW S, S \subseteq Nat, S # {}, NEW b \in Nat, \A k \in S : k =< b
  PROVE  Max(S) \in S /\ \A k \in S : k =< Max(S)
<1> DEFINE T == {b - k : k \in S}
<1>1. T \subseteq Nat /\ T # {}
  <2>1. \A k \in S : b - k \in Nat /\ b - k \in T
    OBVIOUS
  <2> QED BY <2>1
<1>2. Min(T) \in T /\ \A t \in T : Min(T) =< t
  BY <1>1, MinOfNats
<1>3. PICK k \in S : Min(T) = b - k
  BY <1>2
<1>4. \A l \in S : b - k =< b - l
  BY <1>2, <1>3
<1>5. k \in S /\ \A l \in S : k >= l /\ l =< k
  BY <1>4
<1> QED BY <1>5 DEF Max

(* Induction over 0..n, for a set. *)
LEMMA SetInduction ==
  ASSUME NEW n \in Nat, NEW P, 0 \in P, \A k \in 1..n : k - 1 \in P => k \in P
  PROVE  0..n \subseteq P
<1> DEFINE bad == {k \in 0..n : k \notin P}
<1> SUFFICES ASSUME bad # {} PROVE FALSE
  OBVIOUS
<1>1. Min(bad) \in bad /\ \A k \in bad : Min(bad) =< k
  BY MinOfNats
<1>2. PICK m : m \in bad /\ \A k \in bad : m =< k
  BY <1>1
<1>3. m \in 1..n /\ m - 1 \in 0..n /\ ~(m =< m - 1)
  BY <1>2
<1>4. m - 1 \in P
  BY <1>2, <1>3
<1> QED BY <1>2, <1>3, <1>4

(* f has a first value, and each other up to n from the one before.        *)
Unfolds(f, n, first, next) == f[0] = first /\ \A k \in 1..n : f[k] = next[k][f[k - 1]]

(* There is such a function.                                               *)
LEMMA RecursionExists ==
  ASSUME NEW n \in Nat, NEW S, NEW first \in S, NEW next \in [1..n -> [S -> S]]
  PROVE  \E f \in [0..n -> S] : Unfolds(f, n, first, next)
<1> DEFINE Good(m, f) == Unfolds(f, m, first, next)
           P == {m \in 0..n : \E f \in [0..m -> S] : Good(m, f)}
<1>1. 0 \in P
  <2>1. PICK f : f = [k \in 0..0 |-> first]
    OBVIOUS
  <2>2. f \in [0..0 -> S] /\ Good(0, f)
    BY <2>1 DEF Unfolds
  <2> HIDE DEF Good
  <2> QED BY <2>2
<1>2. ASSUME NEW m \in 1..n, m - 1 \in P PROVE m \in P
  <2>1. PICK f \in [0..(m - 1) -> S] : Good(m - 1, f)
    BY <1>2
  <2>2. PICK x \in S : x = next[m][f[m - 1]]
    BY <1>2
  <2> DEFINE g == [k \in 0..m |-> IF k = m THEN x ELSE f[k]]
  <2>3. g \in [0..m -> S]
    BY <1>2, <2>2
  <2>4. ASSUME NEW k \in 1..m PROVE g[k] = next[k][g[k - 1]]
    BY <1>2, <2>1, <2>2, <2>4 DEF Unfolds
  <2>5. g[0] = first
    BY <1>2, <2>1 DEF Unfolds
  <2>6. Good(m, g)
    BY <2>4, <2>5 DEF Unfolds
  <2> HIDE DEF g, Good
  <2> QED BY <1>2, <2>3, <2>6
<1>3. n \in P
  <2> HIDE DEF P
  <2>1. 0..n \subseteq P
    BY <1>1, <1>2, SetInduction
  <2> QED BY <2>1
<1> QED BY <1>3
===============================================================================
