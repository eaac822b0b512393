------------------------------ MODULE Extrema ------------------------------
(***************************************************************************)
(* Least and greatest elements of sets of LSNs: what Max and Min of        *)
(* FiniteSetsExt return for the sets the models build.                     *)
(***************************************************************************)
EXTENDS Integers, FiniteSetsExt, FiniteSetTheorems, WellFoundedInduction, TLAPS

(* The least-number principle: every nonempty set of naturals, such as the *)
(* LSNs at which some fact about the history fails, has a least element.   *)
LEMMA LeastNatural ==
    ASSUME NEW S, S \subseteq Nat, S # {}
    PROVE  \E m \in S : \A x \in S : m <= x
<1> DEFINE R == {ss \in Nat \X Nat : ss[1] < ss[2]}
<1>1. IsWellFoundedOn(R, Nat)
  BY NatLessThanWellFounded DEF OpToRel
<1> HIDE DEF R
<1>2. PICK m \in S : \A y \in S : ~(<<y, m>> \in R)
  BY <1>1, WFMin
<1>3. ASSUME NEW x \in S PROVE m <= x
  <2>1. ~(<<x, m>> \in R)
    BY <1>2
  <2>2. x \in Nat /\ m \in Nat
    OBVIOUS
  <2>3. ~(x < m)
    BY <2>1, <2>2 DEF R
  <2> QED
    BY <2>2, <2>3
<1> QED
  BY <1>3

(* A nonempty set of integers with an upper bound, such as the segment ids  *)
(* in use and -1, has a greatest element.                                   *)
LEMMA MaxOfIntegers ==
    ASSUME NEW n \in Int, NEW S, S \subseteq Int, \A x \in S : x <= n, S # {}
    PROVE  Max(S) \in S /\ \A x \in S : x <= Max(S)
<1> DEFINE D == {n - x : x \in S}
<1>1. D \subseteq Nat
  <2> SUFFICES ASSUME NEW d \in D PROVE d \in Nat
    OBVIOUS
  <2>1. PICK x \in S : d = n - x
    OBVIOUS
  <2>2. x \in Int /\ x <= n
    OBVIOUS
  <2> QED
    BY <2>1, <2>2
<1>2. D # {}
  OBVIOUS
<1> HIDE DEF D
<1>3. PICK d \in D : \A y \in D : d <= y
  BY <1>1, <1>2, LeastNatural
<1>4. PICK m \in S : d = n - m
  BY DEF D
<1>5. ASSUME NEW x \in S PROVE m >= x
  <2>1. n - x \in D
    BY DEF D
  <2>2. d <= n - x
    BY <2>1, <1>3
  <2>3. x \in Int /\ m \in Int
    OBVIOUS
  <2> QED
    BY <2>2, <2>3, <1>4
<1>6. \E y \in S : \A x \in S : y >= x
  BY <1>5
<1>7. Max(S) \in S /\ \A x \in S : Max(S) >= x
  BY <1>6 DEF Max
<1>8. \A x \in S : x \in Int
  OBVIOUS
<1> QED
  BY <1>7, <1>8

(* The newest LSN of a nonempty bounded set, which rows_as_of_lsn and      *)
(* collect_processed_writes look for, exists and bounds the set.           *)
LEMMA MaxOfBounded ==
    ASSUME NEW n \in Nat, NEW S, S \subseteq 0..n, S # {}
    PROVE  Max(S) \in S /\ \A x \in S : x <= Max(S)
<1>1. n \in Int /\ S \subseteq Int /\ \A x \in S : x <= n
  OBVIOUS
<1> QED
  BY <1>1, MaxOfIntegers, Zenon

(* The least of the bounds that limit a GC run is one of them and is below *)
(* all the others.                                                         *)
LEMMA MinOfNaturals ==
    ASSUME NEW S, S \subseteq Nat, S # {}
    PROVE  Min(S) \in S /\ \A x \in S : Min(S) <= x
<1>1. \E m \in S : \A x \in S : m <= x
  BY LeastNatural
<1> QED
  BY <1>1 DEF Min

(* A finite set of keys is bounded: otherwise an unbounded one of the least *)
(* size would stay unbounded without one of its elements.                   *)
LEMMA FiniteIsBounded ==
    ASSUME NEW S, S \subseteq Nat, IsFiniteSet(S)
    PROVE  \E n \in Nat : \A x \in S : x <= n
<1> DEFINE Bounded(T) == \E n \in Nat : \A x \in T : x <= n
           Sizes == {k \in Nat : \E T \in SUBSET S : Cardinality(T) = k /\ ~Bounded(T)}
<1> SUFFICES ASSUME ~Bounded(S) PROVE FALSE
  OBVIOUS
<1>1. Cardinality(S) \in Sizes
  BY FS_CardinalityType
<1>2. Sizes \subseteq Nat
  OBVIOUS
<1>3. PICK k \in Sizes : \A l \in Sizes : k <= l
  <2> HIDE DEF Sizes
  <2> QED
    BY <1>1, <1>2, LeastNatural
<1>4. PICK T \in SUBSET S : Cardinality(T) = k /\ ~Bounded(T)
  BY <1>3
<1>5. T # {}
  <2>1. Bounded({})
    <3>1. 0 \in Nat
      OBVIOUS
    <3> QED
      BY <3>1
  <2> QED
    BY <1>4, <2>1
<1>6. PICK y \in T : TRUE
  BY <1>5
<1> DEFINE U == T \ {y}
<1>7. IsFiniteSet(T)
  BY FS_Subset
<1>8. Cardinality(U) \in Nat /\ Cardinality(U) < k
  <2>1. Cardinality(U) = Cardinality(T) - 1 /\ IsFiniteSet(U)
    BY <1>6, <1>7, FS_RemoveElement
  <2>2. Cardinality(U) \in Nat
    BY <2>1, FS_CardinalityType
  <2> QED
    BY <2>1, <2>2, <1>4
<1>9. Bounded(U)
  <2>1. Cardinality(U) \notin Sizes
    <3> HIDE DEF Sizes, U
    <3> QED
      BY <1>2, <1>3, <1>8
  <2> QED
    BY <2>1, <1>8
<1>10. PICK n \in Nat : \A x \in U : x <= n
  BY <1>9
<1>11. y \in Nat /\ \A x \in T : x \in Nat
  BY <1>6
<1>12. n + y \in Nat /\ \A x \in T : x <= n + y
  <2>1. ASSUME NEW x \in T PROVE x <= n + y
    <3>1. CASE x = y
      BY <3>1, <1>11
    <3>2. CASE x \in U
      BY <3>2, <1>10, <1>11
    <3> QED
      BY <3>1, <3>2
  <2> QED
    BY <2>1, <1>11
<1> QED
  BY <1>4, <1>12

(* The greatest of the keys of a segment, which its zone map records.       *)
LEMMA MaxOfFinite ==
    ASSUME NEW S, S \subseteq Nat, IsFiniteSet(S), S # {}
    PROVE  Max(S) \in S /\ \A x \in S : x <= Max(S)
<1>1. PICK n \in Nat : \A x \in S : x <= n
  BY FiniteIsBounded
<1>2. n \in Int /\ S \subseteq Int
  OBVIOUS
<1> QED
  BY <1>1, <1>2, MaxOfIntegers, Zenon
=============================================================================
