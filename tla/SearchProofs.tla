---------------------------- MODULE SearchProofs ----------------------------
(***************************************************************************)
(* What a search that returns at the first match is known to return.       *)
(***************************************************************************)
EXTENDS Searches, TLAPS, WellFoundedInduction

\* A non-empty set of positions has a least one.
LEMMA LeastExists ==
    ASSUME NEW S \in SUBSET Nat, S # {}
    PROVE  \E x \in S : \A y \in S : x <= y
<1> DEFINE R == OpToRel(<, Nat)
<1>1. \A a, b \in Nat : a < b => <<a, b>> \in R
  BY DEF OpToRel
<1>2. IsWellFoundedOn(R, Nat)
  BY NatLessThanWellFounded
<1> HIDE DEF R
<1>3. PICK x \in S : \A y \in S : <<y, x>> \notin R
  BY <1>2, WFMin
<1>4. ASSUME NEW y \in S PROVE x <= y
  <2>1. x \in Nat /\ y \in Nat /\ ~(y < x)
    BY <1>1, <1>3
  <2> QED BY <2>1
<1> QED BY <1>4

\* First returns 0 for the empty set and otherwise the least member.
LEMMA FirstIsLeast ==
    ASSUME NEW I \in SUBSET (Nat \ {0})
    PROVE  /\ I = {} => First(I) = 0
           /\ I # {} => First(I) \in I /\ \A j \in I : First(I) <= j
           /\ First(I) # 0 => First(I) \in I
<1>1. CASE I = {}
  BY <1>1 DEF First
<1>2. CASE I # {}
  <2>1. \E i \in I : \A j \in I : i <= j
    BY <1>2, LeastExists
  <2> QED BY <1>2, <2>1 DEF First
<1> QED BY <1>1, <1>2
=============================================================================
