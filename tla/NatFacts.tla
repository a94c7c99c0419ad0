------------------------------ MODULE NatFacts ------------------------------
(* Facts about natural numbers that the proofs of several modules need:    *)
(* least elements, induction as a closed set, remainders.                  *)
EXTENDS Integers, FiniteSetsExt, WellFoundedInduction, TLAPS

(* A nonempty set of natural numbers has a least element.                  *)
LEMMA MinIsLeast ==
  ASSUME NEW S \in SUBSET Nat, S # {}
  PROVE  Min(S) \in S /\ \A y \in S : Min(S) <= y
<1>1. \E x \in S : \A y \in S : ~ (<<y, x>> \in OpToRel(<, Nat))
  BY NatLessThanWellFounded, WFMin
<1>2. PICK x \in S : \A y \in S : ~ (y < x)
  BY <1>1 DEF OpToRel
<1>3. \A y \in S : x <= y
  BY <1>2
<1> QED BY <1>3 DEF Min

(* A set with 0 and with the successor of each of its numbers is Nat.      *)
LEMMA Closed ==
  ASSUME NEW S \in SUBSET Nat, 0 \in S, \A n \in S : n + 1 \in S
  PROVE  S = Nat
<1> SUFFICES ASSUME S # Nat PROVE FALSE OBVIOUS
<1> DEFINE m == Min(Nat \ S)
<1>1. m \in Nat \ S /\ \A y \in Nat \ S : m <= y
  BY MinIsLeast
<1>2. m # 0
  BY <1>1
<1>3. m - 1 \in S
  BY <1>1, <1>2
<1> QED BY <1>1, <1>3

(* A set with 0, and with the successor of each number under n that is in  *)
(* it, has n.                                                              *)
LEMMA Reached ==
  ASSUME NEW S, NEW n \in Nat, 0 \in S, \A k \in 0 .. (n - 1) : k \in S => k + 1 \in S
  PROVE  n \in S
<1> DEFINE T == {k \in Nat : k <= n => k \in S}
<1>1. 0 \in T
  OBVIOUS
<1>2. \A k \in T : k + 1 \in T
  OBVIOUS
<1>3. T = Nat
  BY <1>1, <1>2, Closed
<1> QED BY <1>3

(* Division by n: quotient and remainder, and that they are the only ones. *)
LEMMA Division ==
  ASSUME NEW x \in Nat, NEW n \in Nat \ {0}
  PROVE  /\ x \div n \in Nat /\ x % n \in 0 .. n - 1
         /\ x = (x \div n) * n + (x % n)
OBVIOUS

(* Quotient and remainder are the only ones.                               *)
LEMMA DivisionIsUnique ==
  ASSUME NEW q \in Nat, NEW n \in Nat \ {0}, NEW r \in 0 .. n - 1
  PROVE  (q * n + r) \div n = q /\ (q * n + r) % n = r
OBVIOUS

(* Multiples of n are at least n apart.                                    *)
LEMMA Apart ==
  ASSUME NEW x \in Int, NEW y \in Int, NEW n \in Nat \ {0}, x * n < y * n
  PROVE  x + 1 <= y /\ x * n + n <= y * n
OBVIOUS
=============================================================================
