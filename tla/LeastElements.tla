--------------------------- MODULE LeastElements ---------------------------
(***************************************************************************)
(* Least and greatest elements of sets of natural numbers, which the       *)
(* proofs use where the code searches for the first of something, and      *)
(* instead of induction: a property of all numbers has no least exception. *)
(***************************************************************************)
EXTENDS Integers, WellFoundedInduction, TLAPS

\* Every nonempty set of natural numbers has a least element.
LEMMA LeastElement ==
    ASSUME NEW T, T \subseteq Nat, T # {}
    PROVE  \E x \in T : \A y \in T : x <= y
<1> DEFINE R == OpToRel(<, Nat)
<1>1. IsWellFoundedOn(R, Nat)
    BY NatLessThanWellFounded
<1>2. \A y, x \in Nat : y < x => <<y, x>> \in R
    BY DEF OpToRel
<1> HIDE DEF R
<1>3. PICK x \in T : \A y \in T : ~ (<<y, x>> \in R)
    BY <1>1, WFMin
<1>4. \A y \in T : ~ (y < x)
    BY <1>2, <1>3, Zenon
<1>5. \A y \in T : x <= y
    BY <1>4
<1>6. QED
    BY <1>5

\* Every nonempty bounded set of natural numbers has a greatest element.
LEMMA GreatestElement ==
    ASSUME NEW m \in Nat, NEW T, T \subseteq 0 .. m, T # {}
    PROVE  \E x \in T : \A y \in T : y <= x
<1> DEFINE D == {m - t : t \in T}
<1>1. D \subseteq Nat /\ D # {}
    <2>1. ASSUME NEW t \in T PROVE m - t \in Nat
        OBVIOUS
    <2>2. D \subseteq Nat
        BY <2>1
    <2>3. QED
        BY <2>2
<1>2. PICK d \in D : \A e \in D : d <= e
    BY <1>1, LeastElement
<1>3. PICK x \in T : d = m - x
    BY <1>2
<1>4. \A y \in T : y <= x
    <2>1. TAKE y \in T
    <2>2. m - x <= m - y
        BY <1>2, <1>3
    <2>3. QED
        BY <2>2
<1>5. QED
    BY <1>4
=============================================================================
