---------------------------- MODULE BlockNumbers ----------------------------
(***************************************************************************)
(* Arithmetic of the numbers packets carry: the index of a block modulo     *)
(* the number M of values an unsigned char has.                             *)
(***************************************************************************)
EXTENDS Integers, NaturalsInduction, WellFoundedInduction, TLAPS

(* A set of numbers with a member has a least one.                          *)
LEMMA LeastNumber ==
  ASSUME NEW S, S \subseteq Nat, S # {}
  PROVE  \E x \in S : \A y \in S : x <= y
<1>1. IsWellFoundedOn(OpToRel(<, Nat), Nat)
  BY NatLessThanWellFounded
<1>2. PICK x \in S : \A y \in S : ~ (<<y, x>> \in OpToRel(<, Nat))
  BY <1>1, WFMin
<1>3. \A y \in S : x <= y
  <2>1. SUFFICES ASSUME NEW y \in S, y < x PROVE FALSE
    OBVIOUS
  <2>2. <<y, x>> \in OpToRel(<, Nat)
    BY <2>1 DEF OpToRel
  <2>3. QED
    BY <1>2, <2>2
<1>4. QED
  BY <1>3

(* A block number fits the byte that carries it.                            *)
LEMMA NumInRange ==
  ASSUME NEW M \in Nat \ {0, 1}, NEW n \in Int
  PROVE  n % M \in 0 .. M - 1
  OBVIOUS

(* The remainder of a multiple of M plus a block number.                    *)
LEMMA Remainder ==
  ASSUME NEW M \in Nat \ {0, 1}, NEW q \in Int, NEW r \in 0 .. M - 1
  PROVE  (M * q + r) % M = r
  OBVIOUS

(* An index is a multiple of M plus its number.                             *)
LEMMA Quotient ==
  ASSUME NEW M \in Nat \ {0, 1}, NEW n \in Int
  PROVE  \E q \in Int : n = M * q + (n % M)
<1>1. n \div M \in Int
  OBVIOUS
<1>2. n = M * (n \div M) + (n % M)
  OBVIOUS
<1>3. QED
  BY <1>1, <1>2

(* The number of the next index, from the number of this one.               *)
LEMMA NumOfNext ==
  ASSUME NEW M \in Nat \ {0, 1}, NEW n \in Int
  PROVE  (n + 1) % M
           = IF (n % M) + 1 = M THEN 0 ELSE (n % M) + 1
<1> DEFINE r == n % M
<1>1. PICK q \in Int : n = M * q + r
  BY Quotient
<1>2. r \in 0 .. M - 1
  BY NumInRange
<1>3. CASE r + 1 = M
  <2>1. n + 1 = M * (q + 1) + 0
    BY <1>1, <1>2, <1>3
  <2>2. 0 \in 0 .. M - 1 /\ q + 1 \in Int
    OBVIOUS
  <2>3. (M * (q + 1) + 0) % M = 0
    BY <2>2, Remainder
  <2>4. QED
    BY <1>3, <2>1, <2>3
<1>4. CASE r + 1 # M
  <2>1. r + 1 \in 0 .. M - 1
    BY <1>2, <1>4
  <2>2. n + 1 = M * q + (r + 1)
    BY <1>1, <1>2
  <2>3. (M * q + (r + 1)) % M = r + 1
    BY <2>1, Remainder
  <2>4. QED
    BY <1>4, <2>2, <2>3
<1>5. QED
  BY <1>3, <1>4

(* Incrementing the number on the line is incrementing the index.           *)
LEMMA NextNum ==
  ASSUME NEW M \in Nat \ {0, 1}, NEW n \in Int
  PROVE  ((n % M) + 1) % M = (n + 1) % M
<1>1. n % M \in 0 .. M - 1
  BY NumInRange
<1>2. (n % M) % M = n % M
  <2>1. n % M = M * 0 + (n % M)
    BY <1>1
  <2>2. QED
    BY <1>1, <2>1, Remainder
<1>3. n % M \in Int
  BY <1>1
<1>4. ((n % M) + 1) % M
        = IF ((n % M) % M) + 1 = M
          THEN 0 ELSE ((n % M) % M) + 1
  BY <1>3, NumOfNext
<1>5. QED
  BY <1>2, <1>4, NumOfNext

(* The number before the next one is the current one.                       *)
LEMMA PreviousNum ==
  ASSUME NEW M \in Nat \ {0, 1}, NEW n \in Int
  PROVE  (((n + 1) % M) - 1) % M = n % M
<1> DEFINE r == n % M
<1>1. r \in 0 .. M - 1
  BY NumInRange
<1>2. CASE r + 1 = M
  <2>1. (n + 1) % M = 0
    BY <1>2, NumOfNext
  <2>2. 0 - 1 = M * (-1) + r
    BY <1>1, <1>2
  <2>3. (M * (-1) + r) % M = r
    BY <1>1, Remainder
  <2>4. QED
    BY <2>1, <2>2, <2>3
<1>3. CASE r + 1 # M
  <2>1. (n + 1) % M = r + 1
    BY <1>3, NumOfNext
  <2>2. (r + 1) - 1 = M * 0 + r
    BY <1>1
  <2>3. (M * 0 + r) % M = r
    BY <1>1, Remainder
  <2>4. QED
    BY <2>1, <2>2, <2>3
<1>4. QED
  BY <1>2, <1>3

(* Consecutive indices have different numbers.                              *)
LEMMA ConsecutiveDiffer ==
  ASSUME NEW M \in Nat \ {0, 1}, NEW n \in Int
  PROVE  (n + 1) % M # n % M
<1> DEFINE r == n % M
<1>1. r \in 0 .. M - 1
  BY NumInRange
<1> HIDE DEF r
<1>2. r # (IF r + 1 = M THEN 0 ELSE r + 1)
  BY <1>1
<1>3. QED
  BY <1>2, NumOfNext DEF r

(* Adding the same to two different remainders leaves them different.       *)
LEMMA SumsDiffer ==
  ASSUME NEW M \in Nat \ {0, 1},
         NEW x \in 0 .. M - 1, NEW y \in 0 .. M - 1, x # y,
         NEW d \in Int
  PROVE  (x + d) % M # (y + d) % M
<1> DEFINE r == (x + d) % M
<1>1. SUFFICES ASSUME (y + d) % M = r PROVE FALSE
  OBVIOUS
<1>2. x + d \in Int /\ y + d \in Int
  OBVIOUS
<1>3. PICK p \in Int : x + d = M * p + r
  BY <1>2, Quotient
<1>4. PICK q \in Int : y + d = M * q + r
  BY <1>1, <1>2, Quotient
<1>5. x - y = M * (p - q)
  <2>1. r \in Int
    BY <1>2, NumInRange
  <2>2. x - y = M * p - M * q
    BY <1>3, <1>4, <2>1
  <2>3. M * p - M * q = M * (p - q)
    OBVIOUS
  <2>4. QED
    BY <2>2, <2>3
<1>6. PICK k \in Int : x - y = M * k
  BY <1>5
<1>7. CASE k >= 1
  <2>1. M * k >= M
    BY <1>7
  <2>2. QED
    BY <1>6, <2>1
<1>8. CASE k <= -1
  <2>1. M * k <= -M
    BY <1>8
  <2>2. QED
    BY <1>6, <2>1
<1>9. CASE k = 0
  <2>1. M * k = 0
    BY <1>9
  <2>2. QED
    BY <1>6, <2>1
<1>10. QED
  BY <1>7, <1>8, <1>9
=============================================================================
