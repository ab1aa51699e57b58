--------------------------- MODULE TokenBucketProofs ---------------------------
(* The ideal bucket keeps its budget, for every set of buckets, rate and burst. *)
EXTENDS TokenBucket, TLAPS

BucketInv == LevelType /\ Bounded /\ Budget

\* Rates and capacities are positive.
LEMMA Parameters ==
  ASSUME NEW b \in Bucket
  PROVE  Rate[b] \in Nat /\ Rate[b] > 0 /\ Capacity[b] \in Nat /\ Capacity[b] > 0
  BY RateAssumption, CapacityAssumption

\* What one more tick earns.
LEMMA OneMoreTick ==
  ASSUME NEW n \in Nat, NEW r \in Nat
  PROVE  n * r \in Nat /\ r * n = n * r /\ (n + 1) * r = n * r + r
  OBVIOUS

\* A full bucket has yielded nothing.
LEMMA BucketInit == AbstractInit => BucketInv
  <1> SUFFICES ASSUME AbstractInit PROVE BucketInv
    OBVIOUS
  <1>1. LevelType
    BY RateAssumption, CapacityAssumption DEF AbstractInit, LevelType
  <1>2. Bounded
    <2> SUFFICES ASSUME NEW b \in Bucket PROVE level[b] \in 0..Capacity[b]
      BY DEF Bounded
    <2> QED BY Parameters DEF AbstractInit
  <1>3. Budget
    <2> SUFFICES ASSUME NEW b \in Bucket
                 PROVE spent[b] + level[b] <= Capacity[b] + Rate[b] * now
      BY DEF Budget
    <2> QED BY Parameters DEF AbstractInit
  <1> QED BY <1>1, <1>2, <1>3 DEF BucketInv

\* A tick pours no more than it adds to the budget.
LEMMA PourKeepsInv == BucketInv /\ Pour => BucketInv'
  <1> SUFFICES ASSUME BucketInv, Pour PROVE BucketInv'
    OBVIOUS
  <1> USE DEF BucketInv, LevelType, Pour
  <1>1. ASSUME NEW b \in Bucket
        PROVE /\ level'[b] \in 0..Capacity[b]
              /\ level'[b] <= level[b] + Rate[b]
    BY <1>1, Parameters DEF Bounded, AtMost
  <1>2. LevelType'
    <2>1. level' \in [Bucket -> Int]
      BY <1>1, Parameters
    <2> QED BY <2>1
  <1>3. Bounded'
    BY <1>1 DEF Bounded
  <1>4. Budget'
    <2> SUFFICES ASSUME NEW b \in Bucket
                 PROVE spent'[b] + level'[b] <= Capacity[b] + Rate[b] * now'
      BY DEF Budget
    <2>1. spent[b] + level[b] <= Capacity[b] + Rate[b] * now
      BY DEF Budget
    <2>2. Rate[b] * (now + 1) = Rate[b] * now + Rate[b] /\ Rate[b] * now \in Nat
      <3>1. now \in Nat /\ now + 1 \in Nat /\ Rate[b] \in Nat
        BY Parameters
      <3> QED BY <3>1, OneMoreTick
    <2>3. level'[b] <= level[b] + Rate[b] /\ level'[b] \in Int
      BY <1>1, <1>2
    <2> QED BY <2>1, <2>2, <2>3, Parameters
  <1> QED BY <1>2, <1>3, <1>4

\* What is drawn was in the bucket.
LEMMA DrawKeepsInv ==
  ASSUME BucketInv, NEW b \in Bucket, NEW c \in 1..Capacity[b], Draw(b, c)
  PROVE  BucketInv'
  <1> USE DEF BucketInv, LevelType, Draw
  <1>1. level[b] \in Int /\ c \in 1..level[b] /\ Capacity[b] \in Nat
    BY Parameters
  <1>2. LevelType'
    BY <1>1
  <1>3. Bounded'
    <2> SUFFICES ASSUME NEW a \in Bucket PROVE level'[a] \in 0..Capacity[a]
      BY DEF Bounded
    <2> QED BY <1>1, Parameters DEF Bounded
  <1>4. Budget'
    <2> SUFFICES ASSUME NEW a \in Bucket
                 PROVE spent'[a] + level'[a] <= Capacity[a] + Rate[a] * now'
      BY DEF Budget
    <2>1. spent'[a] + level'[a] = spent[a] + level[a]
      BY <1>1
    <2> QED BY <2>1 DEF Budget
  <1> QED BY <1>2, <1>3, <1>4

\* Every step keeps the budget.
LEMMA BucketNext == BucketInv /\ [AbstractNext]_abstractVars => BucketInv'
  <1> SUFFICES ASSUME BucketInv, [AbstractNext]_abstractVars PROVE BucketInv'
    OBVIOUS
  <1>1. CASE Pour
    BY <1>1, PourKeepsInv
  <1>2. CASE \E b \in Bucket : \E c \in 1..Capacity[b] : Draw(b, c)
    BY <1>2, DrawKeepsInv
  <1>3. CASE UNCHANGED abstractVars
    BY <1>3 DEF abstractVars, BucketInv, LevelType, Bounded, Budget
  <1> QED BY <1>1, <1>2, <1>3 DEF AbstractNext

\* An ideal bucket is never overdrawn, never holds more than its burst, and never
\* hands out more than the burst plus what its rate has earned.
THEOREM BucketKeepsBudget == AbstractSpec => [](Bounded /\ Budget)
  <1>1. BucketInv => Bounded /\ Budget
    BY DEF BucketInv
  <1> QED BY <1>1, BucketInit, BucketNext, PTL DEF AbstractSpec
================================================================================
