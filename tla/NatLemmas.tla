----------------------------- MODULE NatLemmas -----------------------------
(***************************************************************************)
(* Facts about numbers that the proofs of several modules need: the least  *)
(* number of a set, which makes an induction out of a smallest             *)
(* counterexample, and remainders, which is how the code counts.           *)
(***************************************************************************)
EXTENDS Integers, WellFoundedInduction, TLAPS

(* A set of natural numbers that is not empty has a least element.         *)
LEMMA SmallestNat ==
  ASSUME NEW T \in SUBSET Nat, T # {}
  PROVE  \E n \in T : \A m \in T : n <= m
<1> DEFINE R == OpToRel(<, Nat)
<1>1. \A m, n \in Nat : m < n => <<m, n>> \in R
  <2> SUFFICES ASSUME NEW m \in Nat, NEW n \in Nat, m < n
               PROVE  <<m, n>> \in R
    OBVIOUS
  <2>1. <<m, n>> \in Nat \X Nat /\ <<m, n>>[1] = m /\ <<m, n>>[2] = n
    OBVIOUS
  <2> DEFINE p == <<m, n>>
  <2>2. p \in Nat \X Nat /\ p[1] < p[2]
    BY <2>1
  <2> HIDE DEF p
  <2>3. p \in R
    BY <2>2 DEF OpToRel
  <2> QED
    BY <2>3 DEF p
<1>2. IsWellFoundedOn(R, Nat)
  BY NatLessThanWellFounded
<1> HIDE DEF R
<1>3. \E n \in T : \A m \in T : ~ (<<m, n>> \in R)
  BY <1>2, WFMin
<1>4. PICK n \in T : \A m \in T : ~ (<<m, n>> \in R)
  BY <1>3
<1>5. ASSUME NEW m \in T, m < n
      PROVE  FALSE
  <2>1. <<m, n>> \in R
    BY <1>1, <1>5
  <2> QED
    BY <1>4, <2>1
<1>6. \A m \in T : n <= m
  BY <1>5
<1> QED
  BY <1>6

(* The remainder is the only one there is. *)
LEMMA RemainderUnique ==
  ASSUME NEW M \in Nat \ {0}, NEW a \in Int, NEW q \in Int, NEW r \in 0 .. M - 1,
         a = M * q + r
  PROVE  a % M = r
<1> DEFINE p == a \div M
           s == a % M
<1>1. p \in Int /\ s \in 0 .. M - 1 /\ a = M * p + s
  BY SMTT(20)
<1> HIDE DEF p, s
<1>2. PICK d \in Int : d = q - p
  BY <1>1
<1>3. M * q = M * p + M * d
  <2>1. q = p + d
    BY <1>1, <1>2
  <2> QED
    BY <1>1, <2>1
<1>4. M * d = s - r
  <2>1. M * q \in Int /\ M * p \in Int /\ M * d \in Int
    BY <1>1
  <2> QED
    BY <1>1, <1>3, <2>1
<1>5. ~(d >= 1)
  <2>1. d >= 1 => M * d >= M
    OBVIOUS
  <2> QED
    BY <1>1, <1>4, <2>1
<1>6. ~(d <= -1)
  <2>1. d <= -1 => M * d <= -M
    OBVIOUS
  <2> QED
    BY <1>1, <1>4, <2>1
<1>7. d = 0
  BY <1>5, <1>6
<1>8. s = r
  BY <1>1, <1>4, <1>7
<1> QED
  BY <1>8 DEF s

(* Chunk by chunk is as good as all at once. *)
LEMMA NextStamp ==
  ASSUME NEW M \in Nat \ {0}, NEW x \in Nat
  PROVE  ((x % M) + 1) % M = (x + 1) % M
<1> DEFINE r == x % M
           q == x \div M
<1>1. r \in 0 .. M - 1 /\ q \in Int /\ x = M * q + r
  BY SMTT(20)
<1> HIDE DEF r, q
<1>2. CASE r + 1 < M
  <2>1. x + 1 = M * q + (r + 1) /\ r + 1 = M * 0 + (r + 1) /\ r + 1 \in 0 .. M - 1
    BY <1>1, <1>2
  <2>2. (x + 1) % M = r + 1
    BY <1>1, <2>1, RemainderUnique
  <2>3. (r + 1) % M = r + 1
    BY <2>1, RemainderUnique
  <2> QED
    BY <2>2, <2>3 DEF r
<1>3. CASE r + 1 = M
  <2>1. x + 1 = M * (q + 1) + 0 /\ r + 1 = M * 1 + 0 /\ 0 \in 0 .. M - 1
    BY <1>1, <1>3, SMTT(20)
  <2>2. (x + 1) % M = 0
    BY <1>1, <2>1, RemainderUnique
  <2>3. (r + 1) % M = 0
    BY <1>1, <2>1, RemainderUnique
  <2> QED
    BY <2>2, <2>3 DEF r
<1> QED
  BY <1>1, <1>2, <1>3

(* An index that counts around.                                            *)
LEMMA NextIndex ==
  ASSUME NEW M \in Nat \ {0}, NEW x \in 0 .. M - 1
  PROVE  (x + 1) % M = IF x + 1 = M THEN 0 ELSE x + 1
<1>1. CASE x + 1 < M
  <2>1. x + 1 = M * 0 + (x + 1) /\ x + 1 \in 0 .. M - 1
    BY <1>1
  <2>2. (x + 1) % M = x + 1
    BY <2>1, RemainderUnique
  <2> QED
    BY <1>1, <2>2
<1>2. CASE x + 1 = M
  <2>1. x + 1 = M * 1 + 0 /\ 0 \in 0 .. M - 1
    BY <1>2
  <2>2. (x + 1) % M = 0
    BY <1>2, <2>1, RemainderUnique
  <2> QED
    BY <1>2, <2>2
<1> QED
  BY <1>1, <1>2
=============================================================================
