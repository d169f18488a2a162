---------------------------- MODULE RankTheorems ----------------------------
(* Facts about numbers and finite ordered sets that the other proofs share.   *)
(* Orders are sets of pairs and predicates are sets, so that the facts can be *)
(* cited for any of them.                                                     *)
EXTENDS Integers, FiniteSets, FiniteSetTheorems, FunctionTheorems, WellFoundedInduction, TLAPS

StrictOrder(R, S) ==
    /\ \A x \in S : <<x, x>> \notin R
    /\ \A x, y, z \in S : <<x, y>> \in R /\ <<y, z>> \in R => <<x, z>> \in R
TotalOn(R, S) == \A x, y \in S : x = y \/ <<x, y>> \in R \/ <<y, x>> \in R

Lower(R, S, x) == {y \in S : <<y, x>> \in R}
RankOf(R, S, x) == Cardinality(Lower(R, S, x))

----------------------------------------------------------------------------
(* Numbers *)

LEMMA LeastNat ==
    ASSUME NEW T \in SUBSET Nat, T # {}
    PROVE  \E n \in T : \A m \in T : n <= m
<1> DEFINE R == {p \in Nat \X Nat : p[1] < p[2]}
<1>1. R = OpToRel(<, Nat)
  BY DEF OpToRel
<1>2. IsWellFoundedOn(R, Nat)
  BY <1>1, NatLessThanWellFounded
<1>3. PICK n \in T : \A m \in T : <<m, n>> \notin R
  BY <1>2, WFMin
<1>4. \A m \in T : ~(m < n)
  BY <1>3
<1> QED
  BY <1>4

LEMMA GreatestNat ==
    ASSUME NEW T \in SUBSET Nat, T # {}, NEW b \in Nat, \A n \in T : n <= b
    PROVE  \E n \in T : \A m \in T : m <= n
<1> DEFINE U == {i \in 0..b : b - i \in T}
<1>1. U \in SUBSET Nat /\ U # {}
  <2>1. PICK n \in T : TRUE
    OBVIOUS
  <2>2. b - n \in 0..b /\ b - (b - n) = n
    BY <2>1
  <2>3. b - n \in U
    BY <2>1, <2>2
  <2>4. \A i \in U : i \in Nat
    OBVIOUS
  <2> HIDE DEF U
  <2> QED
    BY <2>3, <2>4
<1>2. PICK i \in U : \A j \in U : i <= j
  BY <1>1, LeastNat
<1>3. \A m \in T : b - m \in U /\ m \in Nat
  OBVIOUS
<1>4. i \in 0..b /\ b - i \in T
  BY <1>2
<1>5. ASSUME NEW m \in T
      PROVE  m <= b - i
  <2>1. i <= b - m /\ m \in Nat
    BY <1>2, <1>3
  <2> QED
    BY <1>4, <2>1
<1> QED
  BY <1>4, <1>5

\* Induction: a set that holds 0, and with each number the next one, holds all.
LEMMA NatSetInduction ==
    ASSUME NEW P, 0 \in P, \A n \in Nat : n \in P => n + 1 \in P
    PROVE  \A n \in Nat : n \in P
<1> SUFFICES ASSUME NEW T, T = {n \in Nat : n \notin P}, T # {}
             PROVE  FALSE
  OBVIOUS
<1>1. PICK n \in T : \A m \in T : n <= m
  BY LeastNat
<1>2. n \in Nat /\ n # 0
  BY <1>1
<1>3. n - 1 \in Nat /\ n - 1 \notin T
  BY <1>1, <1>2
<1> QED
  BY <1>1, <1>2, <1>3

LEMMA DivMod ==
    ASSUME NEW b \in Nat \ {0}, NEW n \in Nat
    PROVE  n = (n \div b) * b + (n % b) /\ n % b \in 0..(b - 1) /\ n \div b \in Nat
OBVIOUS

----------------------------------------------------------------------------
(* Finite sets *)

LEMMA LowerFinite ==
    ASSUME NEW S, IsFiniteSet(S), NEW R, NEW x
    PROVE  /\ Lower(R, S, x) \in SUBSET S /\ IsFiniteSet(Lower(R, S, x))
           /\ RankOf(R, S, x) \in Nat /\ RankOf(R, S, x) <= Cardinality(S)
<1>1. Lower(R, S, x) \in SUBSET S
  BY DEF Lower
<1> QED
  BY <1>1, FS_Subset, FS_CardinalityType DEF RankOf

LEMMA RankGrows ==
    ASSUME NEW S, IsFiniteSet(S), NEW R, StrictOrder(R, S), NEW x \in S, NEW y \in S, <<x, y>> \in R
    PROVE  RankOf(R, S, x) < RankOf(R, S, y)
<1>1. Lower(R, S, x) \in SUBSET Lower(R, S, y)
  BY DEF Lower, StrictOrder
<1>2. x \in Lower(R, S, y) /\ x \notin Lower(R, S, x)
  BY DEF Lower, StrictOrder
<1>3. IsFiniteSet(Lower(R, S, y)) /\ RankOf(R, S, x) \in Nat /\ RankOf(R, S, y) \in Nat
  BY LowerFinite
<1>4. /\ RankOf(R, S, x) <= RankOf(R, S, y)
      /\ RankOf(R, S, x) = RankOf(R, S, y) => Lower(R, S, x) = Lower(R, S, y)
  BY <1>1, <1>3, FS_Subset DEF RankOf
<1> QED
  BY <1>2, <1>3, <1>4

\* Every set that is finite and not empty has a minimum.
LEMMA FiniteMinimum ==
    ASSUME NEW S, IsFiniteSet(S), S # {}, NEW R, StrictOrder(R, S)
    PROVE  \E x \in S : \A y \in S : <<y, x>> \notin R
<1> DEFINE T == {n \in Nat : \E x \in S : RankOf(R, S, x) = n}
<1>1. T \in SUBSET Nat /\ T # {}
  BY LowerFinite
<1>2. PICK n \in T : \A m \in T : n <= m
  BY <1>1, LeastNat
<1>3. PICK x \in S : RankOf(R, S, x) = n
  BY <1>2
<1>4. ASSUME NEW y \in S, <<y, x>> \in R
      PROVE  FALSE
  <2>1. RankOf(R, S, y) < n
    BY <1>3, <1>4, RankGrows
  <2>2. RankOf(R, S, y) \in T
    BY LowerFinite
  <2> QED
    BY <1>2, <2>1, <2>2, LowerFinite
<1> QED
  BY <1>4

LEMMA FiniteMaximum ==
    ASSUME NEW S, IsFiniteSet(S), S # {}, NEW R, StrictOrder(R, S)
    PROVE  \E x \in S : \A y \in S : <<x, y>> \notin R
<1> DEFINE Q == {p \in S \X S : <<p[2], p[1]>> \in R}
<1>1. \A x, y \in S : <<x, y>> \in Q <=> <<y, x>> \in R
  OBVIOUS
<1>2. StrictOrder(Q, S)
  BY <1>1 DEF StrictOrder
<1> HIDE DEF Q
<1>3. PICK x \in S : \A y \in S : <<y, x>> \notin Q
  BY <1>2, FiniteMinimum
<1> QED
  BY <1>1, <1>3
----------------------------------------------------------------------------
(* Ranks in a total order number the elements from 0 on. *)

LEMMA RankRange ==
    ASSUME NEW S, IsFiniteSet(S), NEW R, StrictOrder(R, S), NEW x \in S
    PROVE  RankOf(R, S, x) \in 0..(Cardinality(S) - 1)
<1>1. Lower(R, S, x) \in SUBSET S /\ x \notin Lower(R, S, x)
  BY DEF Lower, StrictOrder
<1>2. RankOf(R, S, x) \in Nat /\ Cardinality(S) \in Nat
  BY LowerFinite, FS_CardinalityType
<1>3. RankOf(R, S, x) <= Cardinality(S) /\ RankOf(R, S, x) # Cardinality(S)
  BY <1>1, FS_Subset DEF RankOf
<1> QED
  BY <1>2, <1>3

LEMMA RankInjective ==
    ASSUME NEW S, IsFiniteSet(S), NEW R, StrictOrder(R, S), TotalOn(R, S),
           NEW x \in S, NEW y \in S, RankOf(R, S, x) = RankOf(R, S, y)
    PROVE  x = y
<1>1. RankOf(R, S, x) \in Nat
  BY LowerFinite
<1>2. <<x, y>> \notin R /\ <<y, x>> \notin R
  BY <1>1, RankGrows
<1> QED
  BY <1>2 DEF TotalOn

LEMMA RankOnto ==
    ASSUME NEW S, IsFiniteSet(S), NEW R, StrictOrder(R, S), TotalOn(R, S),
           NEW i \in 0..(Cardinality(S) - 1)
    PROVE  \E x \in S : RankOf(R, S, x) = i
<1> DEFINE n == Cardinality(S)
           T == 0..(n - 1)
           f == [x \in S |-> RankOf(R, S, x)]
<1>1. n \in Nat /\ IsFiniteSet(T) /\ Cardinality(T) = n
  <2>1. n \in Nat
    BY FS_CardinalityType
  <2> QED
    BY <2>1, FS_Interval
<1>2. f \in [S -> T]
  BY RankRange
<1>3. \A x, y \in S : f[x] = f[y] => x = y
  BY RankInjective
<1>4. f \in Injection(S, T)
  BY <1>2, <1>3 DEF Injection, IsInjective
<1>5. f \in Surjection(S, T)
  BY <1>1, <1>4, FS_Injection
<1>6. \E x \in S : f[x] = i
  BY <1>5 DEF Surjection
<1> QED
  BY <1>6
=============================================================================
