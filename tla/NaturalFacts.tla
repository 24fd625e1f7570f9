----------------------------- MODULE NaturalFacts -----------------------------
(* Facts about natural numbers that several proofs rest on. *)
EXTENDS Integers, WellFoundedInduction, TLAPS

\* Of some natural numbers one is the smallest.
LEMMA SmallestOf ==
  ASSUME NEW T, T \subseteq Nat, T # {}
  PROVE  \E n \in T : \A k \in T : n <= k
<1>1. PICK n \in T : \A k \in T : <<k, n>> \notin OpToRel(<, Nat)
  BY NatLessThanWellFounded, WFMin
<1>2. ASSUME NEW k \in T PROVE n <= k
  <2>1. <<k, n>> \in Nat \X Nat /\ ~(k < n)
    BY <1>1 DEF OpToRel
  <2> QED
    BY <2>1
<1> QED
  BY <1>2

\* A product grows by one factor when the other grows by one.
LEMMA OneMoreUnit ==
  ASSUME NEW r \in Nat, NEW n \in Nat
  PROVE  r * n \in Nat /\ r * (n + 1) = r * n + r
  OBVIOUS

\* Division with remainder.
LEMMA Division ==
  ASSUME NEW m \in Nat \ {0}, NEW a \in Nat
  PROVE  a % m \in 0..(m - 1) /\ a \div m \in Nat /\ a = m * (a \div m) + (a % m)
  OBVIOUS

\* Only one remainder is smaller than the divisor.
LEMMA Remainder ==
  ASSUME NEW m \in Nat \ {0}, NEW q \in Nat, NEW r \in 0..(m - 1)
  PROVE  (m * q + r) % m = r
  OBVIOUS

\* Adding the modulus, or any multiple of it, does not change the remainder.
LEMMA MultipleAdded ==
  ASSUME NEW m \in Nat \ {0}, NEW q \in Nat, NEW b \in Nat
  PROVE  (m * q + b) % m = b % m
<1> DEFINE r == b % m
           d == b \div m
<1>1. r \in 0..(m - 1) /\ d \in Nat /\ b = m * d + r
  BY Division
<1> HIDE DEF r, d
<1>2. m * q + b = m * (q + d) + r /\ q + d \in Nat
  BY <1>1
<1>3. (m * (q + d) + r) % m = r
  BY <1>1, <1>2, Remainder
<1> QED
  BY <1>2, <1>3 DEF r

\* A remainder may be taken before adding.
LEMMA RemainderOfSum ==
  ASSUME NEW m \in Nat \ {0}, NEW a \in Nat, NEW b \in Nat
  PROVE  (a + b) % m = ((a % m) + b) % m
<1> DEFINE r == a % m
           d == a \div m
<1>1. r \in 0..(m - 1) /\ d \in Nat /\ a = m * d + r
  BY Division
<1> HIDE DEF r, d
<1>2. a + b = m * d + (r + b) /\ r + b \in Nat
  BY <1>1
<1>3. (m * d + (r + b)) % m = (r + b) % m
  BY <1>1, <1>2, MultipleAdded
<1>4. (a + b) % m = (r + b) % m
  BY <1>2, <1>3
<1> QED
  BY <1>4 DEF r

\* The remainder by a divisor of p survives taking the remainder by p.
LEMMA RemainderByDivisor ==
  ASSUME NEW m \in Nat \ {0}, NEW p \in Nat \ {0}, p % m = 0, NEW a \in Nat
  PROVE  (a % p) % m = a % m
<1> DEFINE r == a % p
           d == a \div p
           e == p \div m
<1>1. r \in Nat /\ d \in Nat /\ a = p * d + r
  BY Division
<1>2. e \in Nat /\ p = m * e
  BY Division
<1> HIDE DEF r, d, e
<1>3. e * d \in Nat /\ p * d = m * (e * d)
  BY <1>1, <1>2
<1>4. a = m * (e * d) + r
  BY <1>1, <1>3
<1>5. (m * (e * d) + r) % m = r % m
  BY <1>1, <1>3, MultipleAdded
<1>6. a % m = r % m
  BY <1>4, <1>5
<1> QED
  BY <1>6 DEF r

\* Going round a circle of m places, the place j is reached in 1 to m steps
\* from any a.
LEMMA EveryPlaceReached ==
  ASSUME NEW m \in Nat \ {0}, NEW a \in Nat, NEW j \in 0..(m - 1)
  PROVE  \E i \in 1..m : (a + i) % m = j
<1> DEFINE r == a % m
<1>1. r \in 0..(m - 1)
  BY Division
<1>2. \A i \in Nat : (a + i) % m = (r + i) % m
  BY RemainderOfSum
<1> HIDE DEF r
<1>3. CASE r < j
  <2>1. j - r \in 1..m /\ r + (j - r) = m * 0 + j
    BY <1>1, <1>3
  <2>2. (m * 0 + j) % m = j
    BY Remainder
  <2>3. (a + (j - r)) % m = (r + (j - r)) % m
    BY <1>2, <2>1
  <2>4. (a + (j - r)) % m = j
    BY <2>1, <2>2, <2>3
  <2> QED
    BY <2>1, <2>4
<1>4. CASE r >= j
  <2>1. j - r + m \in 1..m /\ r + (j - r + m) = m * 1 + j
    BY <1>1, <1>4
  <2>2. (m * 1 + j) % m = j
    BY Remainder
  <2>3. (a + (j - r + m)) % m = (r + (j - r + m)) % m
    BY <1>2, <2>1
  <2>4. (a + (j - r + m)) % m = j
    BY <2>1, <2>2, <2>3
  <2> QED
    BY <2>1, <2>4
<1> QED
  BY <1>1, <1>3, <1>4
=============================================================================
