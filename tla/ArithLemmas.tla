----------------------------- MODULE ArithLemmas -----------------------------
(***************************************************************************)
(* Facts about multiplication, division and remainder with a symbolic      *)
(* operand, and the least number of a set.  The leaves of the other proofs *)
(* are linear once these are cited.                                        *)
(***************************************************************************)
EXTENDS Integers, WellFoundedInduction, TLAPS

\* Division with remainder.
LEMMA DivMod ==
    ASSUME NEW a \in Nat, NEW b \in Nat, b > 0
    PROVE  /\ a \div b \in Nat /\ a % b \in Nat /\ a % b < b
           /\ a = b * (a \div b) + (a % b)
  OBVIOUS

\* Distinct multiples of b are at least b apart.
LEMMA MulApart ==
    ASSUME NEW p \in Int, NEW q \in Int, NEW b \in Nat, p < q
    PROVE  p * b + b =< q * b
  OBVIOUS

\* Multiplication is monotonic.
LEMMA MulMono ==
    ASSUME NEW p \in Int, NEW q \in Int, NEW b \in Nat, p =< q
    PROVE  p * b =< q * b
  OBVIOUS

\* Products of naturals are naturals, of integers integers.
LEMMA MulTypes ==
    /\ \A a, b \in Nat : a * b \in Nat
    /\ \A a, b \in Int : a * b \in Int
  OBVIOUS

\* Products of positive numbers are positive.
LEMMA MulPositive ==
    ASSUME NEW a \in Nat \ {0}, NEW b \in Nat \ {0}
    PROVE  a * b \in Nat /\ a * b > 0
  OBVIOUS

\* The quotient is the only number with its property.
LEMMA DivUnique ==
    ASSUME NEW a \in Nat, NEW b \in Nat, b > 0, NEW q \in Int,
           q * b =< a, a < q * b + b
    PROVE  a \div b = q /\ a % b = a - q * b
<1>1. /\ a \div b \in Nat /\ a % b \in Nat /\ a % b < b
      /\ a = b * (a \div b) + (a % b)
  BY DivMod
<1>2. CASE a \div b < q
  <2>1. (a \div b) * b + b =< q * b
    BY <1>1, <1>2, MulApart
  <2> QED
    BY <1>1, <2>1
<1>3. CASE q < a \div b
  <2>1. q * b + b =< (a \div b) * b
    BY <1>1, <1>3, MulApart
  <2> QED
    BY <1>1, <2>1
<1> QED
  BY <1>1, <1>2, <1>3

\* A number below the modulus is its own remainder.
LEMMA ModSmall ==
    ASSUME NEW a \in Nat, NEW b \in Nat, a < b
    PROVE  a % b = a /\ a \div b = 0
  BY DivUnique

\* The remainder of a multiple plus a small number is the small number.
LEMMA ModOfMultiple ==
    ASSUME NEW m \in Nat, NEW b \in Nat, NEW r \in Nat, r < b
    PROVE  (m * b + r) % b = r /\ (m * b + r) \div b = m
<1>1. m * b \in Nat
  BY MulTypes
<1> QED
  BY <1>1, DivUnique

\* A set of natural numbers has a least one, unless it is empty.
LEMMA LeastNatural ==
    ASSUME NEW S \in SUBSET Nat, S # {}
    PROVE  \E k \in S : \A j \in S : k =< j
<1>1. PICK k \in S : \A j \in S : ~ (<<j, k>> \in OpToRel(<, Nat))
  BY NatLessThanWellFounded, WFMin
<1>2. \A j \in S : ~ (j < k)
  BY <1>1 DEF OpToRel
<1>3. \A j \in S : k =< j
  <2> SUFFICES ASSUME NEW j \in S PROVE k =< j
    OBVIOUS
  <2>1. k \in Nat /\ j \in Nat
    OBVIOUS
  <2> QED
    BY <1>2, <2>1
<1> QED
  BY <1>3
=============================================================================
