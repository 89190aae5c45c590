--------------------------- MODULE OrderTheorems ---------------------------
(***************************************************************************)
(* The first and the last element of a set of instants.                    *)
(***************************************************************************)
EXTENDS Naturals, WellFoundedInduction, TLAPS

\* A set of instants that is not empty has a first one.
LEMMA FirstInstant ==
  ASSUME NEW S \in SUBSET Nat, S # {}
  PROVE  \E x \in S : \A y \in S : x <= y
<1> DEFINE R == OpToRel(<, Nat)
<1>1. \A x, y \in Nat : <<y, x>> \in R <=> y < x
  BY DEF OpToRel
<1>2. IsWellFoundedOn(R, Nat)
  BY NatLessThanWellFounded
<1> HIDE DEF R
<1>3. PICK x \in S : \A y \in S : ~ (<<y, x>> \in R)
  BY <1>2, WFMin
<1>4. \A y \in S : x \in Nat /\ y \in Nat /\ ~(y < x)
  BY <1>1, <1>3
<1> QED BY <1>4

\* A set of instants that is not empty and has a bound has a last one.
LEMMA LastInstant ==
  ASSUME NEW m \in Nat, NEW S \in SUBSET (0..m), S # {}
  PROVE  \E x \in S : \A y \in S : y <= x
<1> DEFINE T == {m - y : y \in S}
<1>1. \A y \in S : y \in Nat /\ y <= m
  OBVIOUS
<1>2. T \in SUBSET Nat /\ T # {}
  <2>1. \A y \in S : m - y \in Nat
    BY <1>1
  <2> QED BY <2>1
<1>3. PICK z \in T : \A w \in T : z <= w
  BY <1>2, FirstInstant
<1>4. PICK x \in S : z = m - x
  OBVIOUS
<1>5. \A y \in S : m - x <= m - y
  BY <1>3, <1>4
<1> QED BY <1>1, <1>5
=============================================================================
