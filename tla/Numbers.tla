------------------------------ MODULE Numbers ------------------------------
(***************************************************************************)
(* Facts about natural numbers, remainders and quotients that the proofs   *)
(* share: wrapping counters and cursors, ring slots, addresses of units    *)
(* interleaved over banks, and the first of a set of numbers.              *)
(***************************************************************************)
EXTENDS Naturals, WellFoundedInduction, TLAPS

(* A set of numbers has a first one: get_parallel locks the Client with    *)
(* the lowest address first, pool_alloc takes the first free extent.       *)
LEMMA First ==
  ASSUME NEW S \in SUBSET Nat, S # {}
  PROVE  \E m \in S : \A n \in S : m <= n
<1> DEFINE R == OpToRel(<, Nat)
<1>1. IsWellFoundedOn(R, Nat)
  BY NatLessThanWellFounded
<1> HIDE DEF R
<1>2. PICK m \in S : \A n \in S : ~(<<n, m>> \in R)
  BY <1>1, WFMin
<1>3. \A n \in S : ~(n < m)
  BY <1>2 DEF R, OpToRel
<1> QED
  BY <1>3

(* A set of bounded numbers has a last one.                                *)
LEMMA Last ==
  ASSUME NEW b \in Nat, NEW S \in SUBSET (1..b), S # {}
  PROVE  \E m \in S : \A n \in S : n <= m
<1> DEFINE D == {b - x : x \in S}
<1>1. \A x \in S : b - x \in Nat
  OBVIOUS
<1>2. D \in SUBSET Nat /\ D # {}
  BY <1>1
<1>3. PICK e \in D : \A n \in D : e <= n
  BY <1>2, First
<1>4. PICK m \in S : e = b - m
  OBVIOUS
<1>5. \A n \in S : n <= m
  BY <1>3, <1>4
<1> QED
  BY <1>5

(* A ring slot is one of the partition, wherever the cursor stands.        *)
LEMMA ModRange ==
  ASSUME NEW n \in Nat \ {0}, NEW a \in Nat
  PROVE  a % n \in 0..(n - 1)
OBVIOUS

(* Ring slots and cursors count modulo the size of the partition.          *)
LEMMA ModOf ==
  ASSUME NEW n \in Nat \ {0}, NEW q \in Nat, NEW r \in 0..(n - 1)
  PROVE  (n * q + r) % n = r
OBVIOUS

(* A count is some whole rounds and a place in the round.                  *)
LEMMA Division ==
  ASSUME NEW n \in Nat \ {0}, NEW x \in Nat
  PROVE  \E q \in Nat, r \in 0..(n - 1) : x = n * q + r
<1> DEFINE q == x \div n
           r == x % n
<1>1. x % n = x - n * (x \div n)
  BY Z3T(60)
<1>2. q \in Nat /\ r \in 0..(n - 1)
  OBVIOUS
<1>3. r = x - n * q
  BY <1>1
<1> HIDE DEF q, r
<1>4. x = n * q + r
  BY <1>2, <1>3
<1> QED
  BY <1>2, <1>4

(* The place after the next increment, which wraps at the modulus.         *)
LEMMA ModNext ==
  ASSUME NEW n \in Nat \ {0}, NEW x \in Nat
  PROVE  (x + 1) % n = IF (x % n) + 1 = n THEN 0 ELSE (x % n) + 1
<1>1. PICK q \in Nat, r \in 0..(n - 1) : x = n * q + r
  BY Division
<1>2. x % n = r
  BY <1>1, ModOf
<1>3. CASE r + 1 = n
  <2>1. x + 1 = n * (q + 1) + 0 /\ 0 \in 0..(n - 1) /\ q + 1 \in Nat
    BY <1>1, <1>3
  <2>2. (n * (q + 1) + 0) % n = 0
    BY <2>1, ModOf
  <2> QED
    BY <2>1, <2>2, <1>2, <1>3
<1>4. CASE r + 1 # n
  <2>1. x + 1 = n * q + (r + 1) /\ r + 1 \in 0..(n - 1)
    BY <1>1, <1>4
  <2>2. (n * q + (r + 1)) % n = r + 1
    BY <2>1, ModOf
  <2> QED
    BY <2>1, <2>2, <1>2, <1>4
<1> QED
  BY <1>3, <1>4

(* The slot n places behind a slot, without the division.                  *)
LEMMA ModShort ==
  ASSUME NEW n \in Nat \ {0}, NEW x \in Nat, x < 2 * n
  PROVE  x % n = IF x < n THEN x ELSE x - n
<1>1. CASE x < n
  BY <1>1
<1>2. CASE x >= n
  <2>1. x - n \in 0..(n - 1) /\ x = n * 1 + (x - n)
    BY <1>2
  <2>2. (n * 1 + (x - n)) % n = x - n
    BY <2>1, ModOf
  <2> QED
    BY <2>1, <2>2, <1>2
<1> QED
  BY <1>1, <1>2

(* Quotient and remainder are determined: a unit has one bank and one page.*)
LEMMA DivOf ==
  ASSUME NEW n \in Nat \ {0}, NEW q \in Nat, NEW r \in 0..(n - 1)
  PROVE  (n * q + r) \div n = q
OBVIOUS

(* A larger count of values takes no fewer units.                          *)
LEMMA MoreTakesMore ==
  ASSUME NEW a \in Nat, NEW b \in Nat, NEW c \in Nat, a <= b
  PROVE  a * c <= b * c
<1>1. PICK d \in Nat : b = a + d
  <2>1. b - a \in Nat /\ b = a + (b - a)
    OBVIOUS
  <2> QED
    BY <2>1
<1>2. b * c = a * c + d * c /\ d * c \in Nat /\ a * c \in Nat
  BY <1>1
<1> QED
  BY <1>2

(* A wrapped count that is incremented is the count of one more.           *)
LEMMA ModInc ==
  ASSUME NEW n \in Nat \ {0}, NEW x \in Nat
  PROVE  ((x % n) + 1) % n = (x + 1) % n
<1> DEFINE r == x % n
<1>1. r \in 0..(n - 1)
  BY ModRange
<1>2. (x + 1) % n = IF r + 1 = n THEN 0 ELSE r + 1
  BY ModNext
<1> HIDE DEF r
<1>3. (r + 1) % n = IF r + 1 < n THEN r + 1 ELSE (r + 1) - n
  <2>1. r + 1 \in Nat /\ r + 1 < 2 * n
    BY <1>1
  <2> QED
    BY <2>1, ModShort
<1>4. (r + 1) % n = (x + 1) % n
  BY <1>1, <1>2, <1>3
<1> QED
  BY <1>4 DEF r

(* Counts less than a round apart are equal when their wraps are.          *)
LEMMA ModAhead ==
  ASSUME NEW n \in Nat \ {0}, NEW x \in Nat, NEW e \in 0..n
  PROVE  LET a == x % n
             b == (x + e) % n
         IN  /\ a \in 0..(n - 1)
             /\ b = IF a + e < n THEN a + e ELSE (a + e) - n
<1>1. PICK q \in Nat, r \in 0..(n - 1) : x = n * q + r
  BY Division
<1>2. x % n = r
  BY <1>1, ModOf
<1>3. CASE r + e < n
  <2>1. x + e = n * q + (r + e) /\ r + e \in 0..(n - 1)
    BY <1>1, <1>3
  <2>2. (n * q + (r + e)) % n = r + e
    BY <2>1, ModOf
  <2> QED
    BY <1>2, <1>3, <2>1, <2>2
<1>4. CASE r + e >= n
  <2>1. x + e = n * (q + 1) + (r + e - n) /\ r + e - n \in 0..(n - 1) /\ q + 1 \in Nat
    BY <1>1, <1>4
  <2>2. (n * (q + 1) + (r + e - n)) % n = r + e - n
    BY <2>1, ModOf
  <2> QED
    BY <1>2, <1>4, <2>1, <2>2
<1> QED
  BY <1>3, <1>4

(* The half range of a counter.                                            *)
LEMMA Halves ==
  ASSUME NEW n \in Nat
  PROVE  n \div 2 \in Nat /\ 2 * (n \div 2) <= n
OBVIOUS
==============================================================================
