---------------------------- MODULE InductionLemmas ----------------------------
(***************************************************************************)
(* Induction for the proofs.  The induction theorems of the library take   *)
(* the predicate as an operator; here it is a set, the numbers (or finite  *)
(* sets) for which a claim fails, and what is proved is that a set that is *)
(* not empty has a least element.                                          *)
(***************************************************************************)
EXTENDS Integers, FiniteSetTheorems, WellFoundedInduction, TLAPS

(* A set of natural numbers that is not empty has a least element: the     *)
(* intervals 1..n are finite sets, and strict inclusion among these is     *)
(* well-founded.                                                           *)
LEMMA LeastNumber ==
    ASSUME NEW T \in SUBSET Nat, T # {}
    PROVE  \E x \in T : \A y \in T : x <= y
<1>. DEFINE Below == {1..n : n \in T}
<1>1. Below \subseteq FiniteSubsetsOf(Nat) /\ Below # {}
  <2>1. \A n \in T : IsFiniteSet(1..n) /\ 1..n \subseteq Nat
    BY FS_Interval
  <2>. QED
    BY <2>1 DEF FiniteSubsetsOf
<1>2. IsWellFoundedOn(StrictSubsetOrdering(Nat), FiniteSubsetsOf(Nat))
  BY FS_StrictSubsetOrderingWellFounded
<1>3. PICK B \in Below : \A C \in Below : ~(<<C, B>> \in StrictSubsetOrdering(Nat))
  <2>. HIDE DEF Below
  <2>. QED
    BY <1>1, <1>2, WFMin
<1>4. PICK x \in T : B = 1..x
  OBVIOUS
<1>5. ASSUME NEW y \in T, y < x PROVE FALSE
  <2>1. 1..y \in Below /\ 1..y \subseteq B /\ x \in B /\ x \notin 1..y
    BY <1>4, <1>5
  <2>2. <<1..y, B>> \in StrictSubsetOrdering(Nat)
    BY <1>4, <2>1 DEF StrictSubsetOrdering
  <2>. QED
    BY <1>3, <2>1, <2>2
<1>. QED
  BY <1>5

(* One with an upper bound has a greatest element.                         *)
LEMMA GreatestNumber ==
    ASSUME NEW b \in Nat, NEW T \in SUBSET (0..b), T # {}
    PROVE  \E x \in T : \A y \in T : y <= x
<1>. DEFINE U == {b - n : n \in T}
<1>1. PICK x \in U : \A y \in U : x <= y
  <2>1. U \in SUBSET Nat /\ U # {}
    <3>1. \A n \in T : n \in 0..b
      OBVIOUS
    <3>2. \A n \in T : b - n \in Nat
      BY <3>1
    <3>3. PICK n \in T : TRUE
      OBVIOUS
    <3>4. b - n \in U
      OBVIOUS
    <3>. QED
      BY <3>2, <3>4
  <2>. HIDE DEF U
  <2>. QED
    BY <2>1, LeastNumber
<1>2. PICK m \in T : x = b - m
  OBVIOUS
<1>3. ASSUME NEW y \in T PROVE y <= m
  <2>1. b - y \in U
    OBVIOUS
  <2>2. b - m <= b - y
    <3>. HIDE DEF U
    <3>. QED
      BY <1>1, <1>2, <2>1
  <2>. QED
    BY <2>2
<1>. QED
  BY <1>3

(* What a function makes of a finite set is finite.                        *)
LEMMA ImageIsFinite ==
    ASSUME NEW f, IsFiniteSet(DOMAIN f), f = [x \in DOMAIN f |-> f[x]]
    PROVE  /\ IsFiniteSet({f[x] : x \in DOMAIN f})
           /\ Cardinality({f[x] : x \in DOMAIN f}) <= Cardinality(DOMAIN f)
<1>. DEFINE T == {f[x] : x \in DOMAIN f}
<1>1. f \in Surjection(DOMAIN f, T)
  BY DEF Surjection
<1>. QED
  BY <1>1, FS_Surjection

(* A finite set of integers that is not empty has a least element.         *)
LEMMA LeastInteger ==
    ASSUME NEW T \in SUBSET Int, IsFiniteSet(T), T # {}
    PROVE  \E x \in T : \A y \in T : x <= y
<1>. DEFINE Up(x) == {y \in T : y <= x}
            Sizes == {Cardinality(Up(x)) : x \in T}
<1>1. \A x \in T : IsFiniteSet(Up(x)) /\ Cardinality(Up(x)) \in Nat
  BY FS_Subset, FS_CardinalityType
<1>2. PICK n \in Sizes : \A k \in Sizes : n <= k
  <2>1. Sizes \in SUBSET Nat /\ Sizes # {}
    BY <1>1
  <2>. HIDE DEF Sizes
  <2>. QED
    BY <2>1, LeastNumber
<1>3. PICK x \in T : n = Cardinality(Up(x))
  OBVIOUS
<1>4. ASSUME NEW y \in T, y < x PROVE FALSE
  <2>0. x \in Int /\ y \in Int /\ y < x
    BY <1>4
  <2>1. Up(y) \in SUBSET Up(x) /\ x \in Up(x) /\ x \notin Up(y)
    <3>1. \A z \in T : z <= y => z <= x
      BY <2>0
    <3>2. x <= x /\ ~(x <= y)
      BY <2>0
    <3>3. Up(y) \in SUBSET Up(x)
      BY <3>1
    <3>4. x \in Up(x)
      BY <3>2
    <3>5. x \notin Up(y)
      BY <3>2
    <3>. QED
      BY <3>3, <3>4, <3>5
  <2>2. Cardinality(Up(y)) <= Cardinality(Up(x)) /\ Cardinality(Up(y)) # Cardinality(Up(x))
    <3>. HIDE DEF Up
    <3>. QED
      BY <1>1, <2>1, FS_Subset
  <2>3. Cardinality(Up(x)) <= Cardinality(Up(y))
    <3>1. Cardinality(Up(y)) \in Sizes
      OBVIOUS
    <3>. HIDE DEF Sizes
    <3>. QED
      BY <1>2, <1>3, <3>1
  <2>4. Cardinality(Up(x)) \in Nat /\ Cardinality(Up(y)) \in Nat
    BY <1>1
  <2>. HIDE DEF Up
  <2>. QED
    BY <2>2, <2>3, <2>4
<1>. QED
  BY <1>4
=============================================================================
