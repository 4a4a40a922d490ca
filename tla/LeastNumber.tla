---------------------------- MODULE LeastNumber -----------------------------
(***************************************************************************)
(* Facts about natural numbers that other proofs rest on.  The induction   *)
(* theorems of the library are about predicates, which the provers cannot  *)
(* be given; here they are about sets of numbers.                          *)
(***************************************************************************)
EXTENDS Integers, FiniteSetTheorems, WellFoundedInduction, TLAPS

(* A set of numbers that is not empty has a least one.                     *)
LEMMA LeastExists ==
    ASSUME NEW T \in SUBSET Nat, T # {}
    PROVE  \E m \in T : \A k \in T : m <= k
<1> DEFINE Below == OpToRel(<, Nat)
<1>1. IsWellFoundedOn(Below, Nat)
  BY NatLessThanWellFounded
<1>2. \A k, m \in Nat : k < m => <<k, m>> \in Below
  BY DEF OpToRel
<1> HIDE DEF Below
<1>3. PICK m \in T : \A k \in T : <<k, m>> \notin Below
  BY <1>1, WFMin, Zenon
<1>4. ASSUME NEW k \in T PROVE m <= k
  <2>1. k \in Nat /\ m \in Nat
    OBVIOUS
  <2>2. ~(k < m)
    BY <1>2, <1>3, <2>1, Zenon
  <2> QED BY <2>1, <2>2
<1> QED BY <1>4

(* Induction: the least number that is not in S has a predecessor in S.    *)
LEMMA AllNumbers ==
    ASSUME NEW S, 0 \in S, \A n \in Nat : n \in S => n + 1 \in S
    PROVE  \A n \in Nat : n \in S
<1> DEFINE T == {n \in Nat : n \notin S}
<1> SUFFICES ASSUME T # {} PROVE FALSE
  OBVIOUS
<1>1. PICK m \in T : \A k \in T : m <= k
  BY LeastExists
<1>2. m # 0 /\ m - 1 \in Nat /\ m - 1 \in S
  BY <1>1
<1>3. m - 1 + 1 \in S
  BY <1>2
<1> QED BY <1>1, <1>2, <1>3

-----------------------------------------------------------------------------
(* The subsets of 1..n + 1 are those of 1..n, without and with n + 1.      *)
LEMMA PowerDoubles ==
    ASSUME NEW n \in Nat
    PROVE  2 ^ n \in Nat /\ 2 ^ (n + 1) = 2 * 2 ^ n
<1> DEFINE Small == SUBSET (1..n)
           With == {A \cup {n + 1} : A \in Small}
           f == [A \in Small |-> A \cup {n + 1}]
<1>1. /\ IsFiniteSet(1..n) /\ Cardinality(1..n) = n
      /\ IsFiniteSet(1..n + 1) /\ Cardinality(1..n + 1) = n + 1
  BY FS_Interval
<1>2. IsFiniteSet(Small) /\ Cardinality(Small) = 2 ^ n
  BY <1>1, FS_SUBSET
<1>3. Cardinality(SUBSET (1..n + 1)) = 2 ^ (n + 1)
  BY <1>1, FS_SUBSET
<1>4. SUBSET (1..n + 1) = Small \cup With
  <2>1. ASSUME NEW B \in SUBSET (1..n + 1) PROVE B \in Small \cup With
    <3>1. CASE n + 1 \in B
      <4>1. B \ {n + 1} \in Small /\ B = (B \ {n + 1}) \cup {n + 1}
        BY <3>1
      <4> QED BY <4>1
    <3> QED BY <3>1
  <2>2. ASSUME NEW A \in Small PROVE A \in SUBSET (1..n + 1) /\ A \cup {n + 1} \in SUBSET (1..n + 1)
    OBVIOUS
  <2>3. ASSUME NEW B \in Small \cup With PROVE B \in SUBSET (1..n + 1)
    <3>1. CASE B \in Small
      BY <2>2, <3>1
    <3>2. CASE B \in With
      <4>1. PICK A \in Small : B = A \cup {n + 1}
        BY <3>2
      <4> QED BY <2>2, <4>1, Zenon
    <3> QED BY <3>1, <3>2
  <2> HIDE DEF Small, With
  <2> QED BY <2>1, <2>3, Zenon
<1>5. Small \cap With = {}
  OBVIOUS
<1>6. f \in Bijection(Small, With)
  <2>1. f \in Injection(Small, With)
    <3>1. ASSUME NEW A \in Small, NEW B \in Small, f[A] = f[B] PROVE A = B
      BY <3>1
    <3>2. f \in [Small -> With]
      OBVIOUS
    <3> HIDE DEF Small, With, f
    <3> QED BY <3>1, <3>2 DEF Injection, IsInjective
  <2>2. f \in Surjection(Small, With)
    BY DEF Surjection
  <2> QED BY <2>1, <2>2 DEF Bijection
<1>7. IsFiniteSet(With) /\ Cardinality(With) = 2 ^ n
  BY <1>2, <1>6, FS_Bijection DEF ExistsBijection
<1> HIDE DEF Small, With
<1>8. Cardinality(Small \cup With) = Cardinality(Small) + Cardinality(With) - 0
  BY <1>2, <1>5, <1>7, FS_Union, FS_EmptySet
<1>9. 2 ^ n \in Nat
  BY <1>2, FS_CardinalityType
<1>10. Cardinality(SUBSET (1..n + 1)) = Cardinality(Small \cup With)
  BY <1>4, Zenon
<1> QED BY <1>2, <1>3, <1>7, <1>8, <1>9, <1>10

LEMMA PowerExceeds == \A n \in Nat : n < 2 ^ n
<1> DEFINE S == {n \in Nat : n < 2 ^ n}
<1>1. 0 \in S
  OBVIOUS
<1>2. \A n \in Nat : n \in S => n + 1 \in S
  BY PowerDoubles
<1>3. \A n \in Nat : n \in S
  <2> HIDE DEF S
  <2> QED BY <1>1, <1>2, AllNumbers
<1> QED BY <1>3

(* A size that is doubled until it reaches need has not passed twice need. *)
LEMMA Doubling ==
    ASSUME NEW sz \in Nat \ {0}, NEW need \in Nat, sz < need
    PROVE  \E g \in need..2 * need - 1 : \E k \in 1..need : g = sz * 2 ^ k
<1> DEFINE Reached == {k \in Nat : need <= sz * 2 ^ k}
<1>1. need \in Reached
  <2>1. need < 2 ^ need /\ 2 ^ need \in Nat
    BY PowerExceeds, PowerDoubles
  <2>2. \A p \in Nat : p <= sz * p
    OBVIOUS
  <2> QED BY <2>1, <2>2
<1>2. PICK k \in Reached : \A j \in Reached : k <= j
  BY <1>1, LeastExists
<1>3. k # 0
  <2>1. 2 ^ 0 = 1 /\ sz * 1 = sz /\ ~(need <= sz)
    OBVIOUS
  <2>2. 0 \notin Reached
    BY <2>1
  <2> HIDE DEF Reached
  <2> QED BY <1>2, <2>2
<1>4. k \in 1..need
  BY <1>1, <1>2, <1>3
<1>5. sz * 2 ^ (k - 1) < need /\ 2 ^ (k - 1) \in Nat
  <2>1. k - 1 \in Nat /\ k - 1 \notin Reached
    BY <1>2, <1>3
  <2>2. 2 ^ (k - 1) \in Nat
    BY <2>1, PowerDoubles
  <2>3. sz * 2 ^ (k - 1) \in Nat
    BY <2>2
  <2> QED BY <2>1, <2>2, <2>3
<1>6. sz * 2 ^ k = 2 * (sz * 2 ^ (k - 1))
  <2>1. 2 ^ (k - 1 + 1) = 2 * 2 ^ (k - 1)
    BY <1>2, <1>3, PowerDoubles
  <2>2. k - 1 + 1 = k
    OBVIOUS
  <2>3. ASSUME NEW p \in Nat PROVE sz * (2 * p) = 2 * (sz * p)
    OBVIOUS
  <2> QED BY <1>5, <2>1, <2>2, <2>3
<1>7. sz * 2 ^ k \in need..2 * need - 1
  BY <1>2, <1>5, <1>6
<1> QED BY <1>4, <1>7
=============================================================================
