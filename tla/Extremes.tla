-------------------------------- MODULE Extremes --------------------------------
(***************************************************************************)
(* The least and the greatest member of a set of natural numbers.           *)
(***************************************************************************)
EXTENDS FiniteSetsExt, WellFoundedInduction, TLAPS

\* A set of natural numbers has a least one.
LEMMA LeastExists ==
  ASSUME NEW N \in SUBSET Nat, N # {}
  PROVE  \E n \in N : \A k \in N : n <= k
<1> DEFINE R == OpToRel(<, Nat)
<1>1. \A k, n \in Nat : k < n => <<k, n>> \in R
  BY DEF OpToRel
<1> HIDE DEF R
<1>2. IsWellFoundedOn(R, Nat)
  BY NatLessThanWellFounded DEF R
<1>3. PICK n \in N : \A k \in N : ~ (<<k, n>> \in R)
  BY <1>2, WFMin
<1>4. \A k \in N : ~ (k < n)
  BY <1>1, <1>3
<1> QED BY <1>3, <1>4

\* Max is what it should be on a set with a bound.
LEMMA GreatestExists ==
  ASSUME NEW N \in SUBSET Nat, N # {}, NEW b \in Nat, \A n \in N : n <= b
  PROVE  Max(N) \in N /\ \A k \in N : k <= Max(N)
<1> DEFINE Gaps == {b - n : n \in N}
<1>0. \A n \in N : n \in Nat /\ n <= b
  OBVIOUS
<1>1. Gaps \in SUBSET Nat /\ Gaps # {}
  <2>1. \A n \in N : b - n \in Nat
    BY <1>0
  <2>2. PICK n \in N : TRUE
    OBVIOUS
  <2> QED BY <2>1, <2>2
<1>2. PICK g \in Gaps : \A k \in Gaps : g <= k
  BY <1>1, LeastExists
<1>3. PICK n \in N : g = b - n
  BY <1>2
<1>4. ASSUME NEW k \in N PROVE n >= k
  <2>1. b - k \in Gaps
    OBVIOUS
  <2>2. b - n <= b - k
    BY <2>1, <1>2, <1>3
  <2> QED BY <2>2
<1> QED BY <1>3, <1>4 DEF Max

=============================================================================
