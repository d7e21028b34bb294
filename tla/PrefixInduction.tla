---------------------------- MODULE PrefixInduction ----------------------------
(***************************************************************************)
(* Induction on the natural numbers up to a bound, for what is computed one *)
(* position after the other, and the least and greatest of a set.           *)
(***************************************************************************)
EXTENDS Integers, FiniteSetsExt, WellFoundedInduction, TLAPS

\* A set of naturals has a least element.
LEMMA LeastElement ==
  ASSUME NEW S, S \subseteq Nat, S # {}
  PROVE  Min(S) \in S /\ \A y \in S : Min(S) <= y
<1>1. PICK x \in S : \A y \in S : ~(<<y, x>> \in OpToRel(<, Nat))
  BY NatLessThanWellFounded, WFMin
<1>2. \A y \in S : ~(y < x)
  BY <1>1 DEF OpToRel
<1>3. \A y \in S : x <= y
  BY <1>2
<1>. QED
  BY <1>3 DEF Min

\* Induction up to n.
LEMMA UpTo ==
  ASSUME NEW n \in Nat, NEW P, 0 \in P, \A k \in 0 .. n : k \in P /\ k < n => k + 1 \in P
  PROVE  \A k \in 0 .. n : k \in P
<1>. DEFINE T == {k \in 0 .. n : k \notin P}
<1>1. SUFFICES ASSUME T # {} PROVE FALSE
  OBVIOUS
<1>2. Min(T) \in T /\ \A y \in T : Min(T) <= y
  BY <1>1, LeastElement
<1>. HIDE DEF T
<1>3. Min(T) \in 0 .. n /\ Min(T) \notin P
  BY <1>2 DEF T
<1>4. Min(T) - 1 \in 0 .. n /\ Min(T) - 1 \notin T
  BY <1>2, <1>3
<1>. QED
  BY <1>3, <1>4 DEF T

\* A set of positions has a greatest one.
LEMMA GreatestElement ==
  ASSUME NEW n \in Nat, NEW S \in SUBSET (1 .. n), S # {}
  PROVE  Max(S) \in S /\ \A y \in S : Max(S) >= y
<1>. DEFINE T == {n - y : y \in S}
<1>0. \A y \in S : y \in Int /\ y <= n
  OBVIOUS
<1>1. T \subseteq Nat /\ T # {}
  <2>1. \A y \in S : n - y \in Nat
    BY <1>0
  <2>2. PICK y \in S : TRUE
    OBVIOUS
  <2>. QED
    BY <2>1, <2>2
<1>2. Min(T) \in T /\ \A z \in T : Min(T) <= z
  BY <1>1, LeastElement
<1>3. PICK x \in S : Min(T) = n - x
  BY <1>2
<1>4. ASSUME NEW y \in S PROVE x >= y
  <2>1. n - x <= n - y
    BY <1>2, <1>3
  <2>. QED
    BY <1>0, <2>1
<1>. QED
  BY <1>4 DEF Max

=============================================================================
