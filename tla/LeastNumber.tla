---------------------------- MODULE LeastNumber -----------------------------
(***************************************************************************)
(* Least and greatest members of sets of natural numbers: what the proofs  *)
(* about sequences and recursive functions use in the place of induction,  *)
(* by looking at the first index where a claim would fail.                 *)
(***************************************************************************)
EXTENDS Integers, TLAPS, WellFoundedInduction

(* A set of natural numbers that is not empty has a least member.          *)
LEMMA Least ==
  ASSUME NEW T \in SUBSET Nat, T # {}
  PROVE  \E m \in T : \A n \in T : m <= n
<1> DEFINE R == {ss \in Nat \X Nat : ss[1] < ss[2]}
<1>1. IsWellFoundedOn(R, Nat)
  BY NatLessThanWellFounded, Zenon DEF OpToRel
<1>2. PICK x \in T : \A y \in T : ~ (<<y, x>> \in R)
  BY <1>1, WFMin
<1>3. ASSUME NEW n \in T PROVE x <= n
  <2>1. ~ (<<n, x>> \in R)
    BY <1>2
  <2>2. QED BY <2>1
<1>4. QED BY <1>2, <1>3

(* One with an upper bound has a greatest member.                          *)
LEMMA Greatest ==
  ASSUME NEW k \in Nat, NEW T \in SUBSET (0 .. k), T # {}
  PROVE  \E m \in T : \A n \in T : n <= m
<1> DEFINE U == {k - n : n \in T}
<1>1. U \in SUBSET Nat /\ U # {}
  <2>1. \A n \in T : k - n \in Nat
    <3>1. TAKE n \in T
    <3>2. n \in 0 .. k
      OBVIOUS
    <3>3. QED BY <3>2
  <2>2. U \in SUBSET Nat
    BY <2>1
  <2>3. PICK n \in T : TRUE
    OBVIOUS
  <2>4. k - n \in U
    OBVIOUS
  <2>5. QED BY <2>2, <2>4
<1>2. PICK u \in U : \A v \in U : u <= v
  <2> HIDE DEF U
  <2>1. QED BY <1>1, Least
<1>3. PICK m \in T : u = k - m
  OBVIOUS
<1>4. \A n \in T : k - m <= k - n
  BY <1>2, <1>3
<1>5. \A n \in T : n <= m
  <2>1. TAKE n \in T
  <2>2. n \in Nat /\ m \in Nat /\ k - m <= k - n
    BY <1>4
  <2>3. QED BY <2>2
<1>6. QED BY <1>5

=============================================================================
