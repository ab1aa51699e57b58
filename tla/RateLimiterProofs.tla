--------------------------- MODULE RateLimiterProofs ---------------------------
(* Theorems about RateLimiter, for any coroutines, buckets, rates and bursts. *)
EXTENDS RateLimiter, SequenceTheorems, TLAPS

--------------------------------------------------------------------------------
(* Queues: sequences of coroutines without repetitions. *)

\* The first waiter leaves.
LEMMA TailOfQueue ==
  ASSUME NEW s \in Seq(Proc), s # <<>>, IsInjective(s)
  PROVE  /\ Tail(s) \in Seq(Proc) /\ IsInjective(Tail(s))
         /\ Head(s) \in Proc /\ Head(s) = s[1] /\ 1 \in DOMAIN s
         /\ \A i \in DOMAIN Tail(s) : i + 1 \in DOMAIN s /\ Tail(s)[i] = s[i + 1]
         /\ ToSet(Tail(s)) = ToSet(s) \ {Head(s)}
  <1>1. /\ Tail(s) \in Seq(Proc) /\ Len(Tail(s)) = Len(s) - 1 /\ Head(s) \in Proc
        /\ \A i \in 1..Len(Tail(s)) : Tail(s)[i] = s[i + 1]
    BY HeadTailProperties
  <1>2. /\ Len(s) \in Nat /\ Len(s) > 0 /\ DOMAIN s = 1..Len(s) /\ Head(s) = s[1]
        /\ DOMAIN Tail(s) = 1..Len(Tail(s))
    BY <1>1
  <1>3. \A i \in DOMAIN Tail(s) : i + 1 \in DOMAIN s /\ Tail(s)[i] = s[i + 1]
    BY <1>1, <1>2
  <1>4. IsInjective(Tail(s))
    BY <1>2, <1>3 DEF IsInjective
  <1>5. ToSet(Tail(s)) = ToSet(s) \ {Head(s)}
    <2>1. ASSUME NEW x \in ToSet(s) \ {Head(s)} PROVE x \in ToSet(Tail(s))
      <3>1. PICK j \in DOMAIN s : x = s[j] /\ j # 1
        BY <1>2 DEF ToSet
      <3>2. j - 1 \in DOMAIN Tail(s) /\ Tail(s)[j - 1] = x
        BY <1>1, <1>2, <3>1
      <3> QED BY <3>2 DEF ToSet
    <2>2. ASSUME NEW x \in ToSet(Tail(s)) PROVE x \in ToSet(s) \ {Head(s)}
      <3>1. PICK i \in DOMAIN Tail(s) : x = Tail(s)[i]
        BY DEF ToSet
      <3>2. i + 1 \in DOMAIN s /\ x = s[i + 1] /\ i + 1 # 1 /\ 1 \in DOMAIN s
        BY <1>2, <1>3, <3>1
      <3> QED BY <1>2, <3>2 DEF ToSet, IsInjective
    <2> QED BY <2>1, <2>2
  <1> QED BY <1>1, <1>2, <1>3, <1>4, <1>5

\* A newcomer goes to the end.
LEMMA AppendToQueue ==
  ASSUME NEW s \in Seq(Proc), IsInjective(s), NEW p \in Proc, p \notin ToSet(s)
  PROVE  /\ Append(s, p) \in Seq(Proc) /\ IsInjective(Append(s, p))
         /\ ToSet(Append(s, p)) = ToSet(s) \union {p}
         /\ Len(Append(s, p)) = Len(s) + 1
         /\ \A i \in DOMAIN s : Append(s, p)[i] = s[i]
         /\ Append(s, p)[Len(s) + 1] = p
  <1>1. /\ Append(s, p) \in Seq(Proc) /\ Len(Append(s, p)) = Len(s) + 1
        /\ \A i \in 1..Len(s) : Append(s, p)[i] = s[i]
        /\ Append(s, p)[Len(s) + 1] = p
    BY AppendProperties
  <1>2. Len(s) \in Nat /\ DOMAIN s = 1..Len(s) /\ DOMAIN Append(s, p) = 1..(Len(s) + 1)
    BY <1>1
  <1>3. IsInjective(Append(s, p))
    BY <1>1, <1>2 DEF IsInjective, ToSet
  <1>4. ToSet(Append(s, p)) = ToSet(s) \union {p}
    BY <1>1, <1>2 DEF ToSet
  <1> QED BY <1>1, <1>2, <1>3, <1>4

\* A waiter leaves from the middle.
LEMMA RemoveFromQueue ==
  ASSUME NEW s \in Seq(Proc), IsInjective(s), NEW k \in DOMAIN s
  PROVE  /\ RemoveAt(s, k) \in Seq(Proc) /\ IsInjective(RemoveAt(s, k))
         /\ ToSet(RemoveAt(s, k)) = ToSet(s) \ {s[k]}
         /\ \A i \in DOMAIN RemoveAt(s, k) :
              LET j == IF i < k THEN i ELSE i + 1
              IN  j \in DOMAIN s /\ j # k /\ RemoveAt(s, k)[i] = s[j]
  <1> DEFINE r == RemoveAt(s, k)
             a == SubSeq(s, 1, k - 1)
             b == SubSeq(s, k + 1, Len(s))
  <1>1. Len(s) \in Nat /\ DOMAIN s = 1..Len(s) /\ k \in 1..Len(s) /\ r = a \o b
    BY DEF RemoveAt
  <1>2. /\ a \in Seq(Proc) /\ Len(a) = k - 1
        /\ \A i \in 1..Len(a) : a[i] = s[i]
    BY <1>1
  <1>3. /\ b \in Seq(Proc) /\ Len(b) = Len(s) - k
        /\ \A i \in 1..Len(b) : b[i] = s[k + i]
    BY <1>1
  <1> HIDE DEF r, a, b
  <1>4. /\ r \in Seq(Proc) /\ Len(r) = Len(s) - 1
        /\ \A i \in 1..Len(r) : r[i] = IF i <= Len(a) THEN a[i] ELSE b[i - Len(a)]
    <2>1. /\ a \o b \in Seq(Proc) /\ Len(a \o b) = Len(a) + Len(b)
          /\ \A i \in 1..Len(a) + Len(b) :
               (a \o b)[i] = IF i <= Len(a) THEN a[i] ELSE b[i - Len(a)]
      BY <1>2, <1>3, ConcatProperties
    <2> QED BY <1>1, <1>2, <1>3, <2>1
  <1> DEFINE from(i) == IF i < k THEN i ELSE i + 1
  <1>5. ASSUME NEW i \in DOMAIN r
        PROVE  from(i) \in DOMAIN s /\ from(i) # k /\ r[i] = s[from(i)]
    <2>1. i \in 1..(Len(s) - 1)
      BY <1>4
    <2>2. CASE i < k
      BY <1>1, <1>2, <1>4, <2>1, <2>2
    <2>3. CASE i >= k
      <3>1. r[i] = b[i - (k - 1)] /\ i - (k - 1) \in 1..Len(b)
        BY <1>1, <1>2, <1>3, <1>4, <2>1, <2>3
      <3>2. b[i - (k - 1)] = s[k + (i - (k - 1))] /\ k + (i - (k - 1)) = i + 1
        BY <1>1, <1>3, <3>1, <2>1
      <3> QED BY <1>1, <2>1, <2>3, <3>1, <3>2
    <2> QED BY <1>1, <2>1, <2>2, <2>3
  <1>6. IsInjective(r)
    <2> SUFFICES ASSUME NEW x \in DOMAIN r, NEW y \in DOMAIN r, r[x] = r[y] PROVE x = y
      BY DEF IsInjective
    <2>1. from(x) = from(y)
      BY <1>5 DEF IsInjective
    <2> QED BY <1>1, <1>4, <2>1
  <1>7. ToSet(r) = ToSet(s) \ {s[k]}
    <2>1. ASSUME NEW x \in ToSet(s) \ {s[k]} PROVE x \in ToSet(r)
      <3>1. PICK j \in DOMAIN s : x = s[j] /\ j # k
        BY DEF ToSet
      <3>2. CASE j < k
        <4>1. j \in DOMAIN r
          BY <1>1, <1>4, <3>1, <3>2
        <4>2. r[j] = s[j]
          BY <1>5, <3>2, <4>1
        <4> QED BY <3>1, <4>1, <4>2 DEF ToSet
      <3>3. CASE j > k
        <4>1. j - 1 \in DOMAIN r
          BY <1>1, <1>4, <3>1, <3>3
        <4>2. r[j - 1] = s[j]
          BY <1>1, <1>5, <3>1, <3>3, <4>1
        <4> QED BY <3>1, <4>1, <4>2 DEF ToSet
      <3> QED BY <1>1, <3>1, <3>2, <3>3
    <2>2. ASSUME NEW x \in ToSet(r) PROVE x \in ToSet(s) \ {s[k]}
      <3>1. PICK i \in DOMAIN r : x = r[i]
        BY DEF ToSet
      <3> QED BY <1>5, <3>1 DEF ToSet, IsInjective
    <2> QED BY <2>1, <2>2
  <1> QED BY <1>4, <1>5, <1>6, <1>7 DEF r

--------------------------------------------------------------------------------
(* The bucket. *)

\* Rates and capacities are positive.
LEMMA Parameters ==
  ASSUME NEW b \in Bucket
  PROVE  Rate[b] \in Nat /\ Rate[b] > 0 /\ Capacity[b] \in Nat /\ Capacity[b] > 0
  BY RateAssumption, CapacityAssumption

\* What d ticks earn, and one more.
LEMMA Earnings ==
  ASSUME NEW d \in Nat, NEW r \in Nat
  PROVE  d * r \in Nat /\ (d + 1) * r = d * r + r
  OBVIOUS

\* A refill takes a sound bucket to between what it held and its burst.
LEMMA LevelInRange ==
  ASSUME TypeOK, NoOverdraw, RefillPast, NEW b \in Bucket
  PROVE  Level(b) \in 0..Capacity[b]
  <1>1. /\ tokens[b] \in 0..Capacity[b] /\ now - updated[b] \in Nat
        /\ Rate[b] \in Nat /\ Capacity[b] \in Nat
    BY Parameters DEF TypeOK, NoOverdraw, RefillPast
  <1>2. (now - updated[b]) * Rate[b] \in Nat
    BY <1>1, Earnings
  <1> QED BY <1>1, <1>2 DEF Level, AtMost

\* A delay is a number of ticks.
LEMMA DelayIsInt ==
  ASSUME TypeOK, NoOverdraw, RefillPast, NEW b \in Bucket, NEW c \in Int
  PROVE  Delay(b, c) \in Int
  <1>1. Level(b) \in Int /\ Rate[b] \in Int /\ Rate[b] > 0
    BY LevelInRange, Parameters
  <1> QED BY <1>1 DEF Delay

--------------------------------------------------------------------------------
(* One pass of the loop. *)

\* What holds when p is about to run the loop body inside the lock of b, with
\* `waiters` behind it, whichever way it came there.
Inside(p, b, c, w, waiters) ==
    /\ c \in Nat /\ CostOK(b, c) /\ w \in Nat
    /\ waiters \in Seq(Proc) /\ IsInjective(waiters)
    /\ \A q \in Proc : q \in ToSet(waiters) <=>
         q # p /\ pc[q] \in {"queued", "woken"} /\ bucket[q] = b
    /\ \A q \in ToSet(waiters) : pc[q] = "queued"
    /\ owner[b] \in {NoProc, p}
    /\ pc[p] = "idle" \/ bucket[p] = b

\* The arguments of p's call are b and c, and stay so.
Called(p, b, c) ==
    /\ bucket' = [bucket EXCEPT ![p] = b]
    /\ cost' = [cost EXCEPT ![p] = c]
    /\ calledAt' \in [Proc -> Nat]
    /\ now' = now

\* Who is woken when a lock is freed: the first in line.
LEMMA WokenIsFirst ==
  ASSUME NEW s \in Seq(Proc)
  PROVE  /\ WakeFirst(s) \subseteq ToSet(s) /\ WakeFirst(s) \subseteq Proc
         /\ ToSet(s) \subseteq Proc
         /\ \A i \in DOMAIN s : s[i] \in ToSet(s)
         /\ IsInjective(s) => \A i \in DOMAIN s : s[i] \in WakeFirst(s) <=> i = 1
  <1>1. Len(s) \in Nat /\ DOMAIN s = 1..Len(s) /\ \A i \in DOMAIN s : s[i] \in Proc
    OBVIOUS
  <1>2. ToSet(s) \subseteq Proc /\ \A i \in DOMAIN s : s[i] \in ToSet(s)
    BY <1>1 DEF ToSet
  <1>3. CASE s = <<>>
    BY <1>1, <1>2, <1>3 DEF WakeFirst
  <1>4. CASE s # <<>>
    <2>1. WakeFirst(s) = {s[1]} /\ 1 \in DOMAIN s
      BY <1>1, <1>4 DEF WakeFirst
    <2> QED BY <1>2, <2>1 DEF IsInjective
  <1> QED BY <1>3, <1>4

\* A caller that gets its tokens leaves every variable in its type.
LEMMA GrantTypes ==
  ASSUME IInv, NEW p \in Proc, NEW b \in Bucket, NEW c, NEW w, NEW waiters,
         Inside(p, b, c, w, waiters), Called(p, b, c), Grant(p, b, c, w, waiters)
  PROVE  TypeOK'
  <1>1. Level(b) \in Int /\ c \in Nat /\ w \in Nat /\ waiters \in Seq(Proc)
    BY LevelInRange, Parameters DEF IInv, Inside
  <1>2. TypeOK
    BY DEF IInv
  <1>3. tokens' \in [Bucket -> Int]
    <2>1. tokens' = [tokens EXCEPT ![b] = Level(b) - c] /\ tokens \in [Bucket -> Int]
      BY <1>2 DEF Grant, TypeOK
    <2> QED BY <1>1, <2>1
  <1>4. spent' \in [Bucket -> Nat]
    <2>1. spent' = [spent EXCEPT ![b] = @ + c] /\ spent \in [Bucket -> Nat]
      BY <1>2 DEF Grant, TypeOK
    <2> QED BY <1>1, <2>1
  <1>5. waited' \in [Proc -> Nat] /\ queue' \in [Bucket -> Seq(Proc)]
    BY <1>1, <1>2 DEF Grant, TypeOK
  <1>6. updated' \in [Bucket -> Nat] /\ owner' \in [Bucket -> Proc \union {NoProc}]
    BY <1>2 DEF Grant, TypeOK
  <1>7. pc' \in [Proc -> PcStates] /\ wakeAt' \in [Proc -> Nat]
    BY <1>2 DEF Grant, TypeOK, PcStates
  <1>8. outcome' \in [Proc -> Outcomes]
    BY <1>2 DEF Grant, TypeOK, Outcomes
  <1>9. /\ now' \in Nat /\ bucket' \in [Proc -> Bucket] /\ cost' \in [Proc -> Nat]
        /\ calledAt' \in [Proc -> Nat]
    BY <1>1, <1>2 DEF Called, TypeOK
  <1> QED BY <1>3, <1>4, <1>5, <1>6, <1>7, <1>8, <1>9 DEF TypeOK

\* So does a caller that goes to sleep.
LEMMA SleepTypes ==
  ASSUME IInv, NEW p \in Proc, NEW b \in Bucket, NEW c, NEW w, NEW waiters,
         Inside(p, b, c, w, waiters), Called(p, b, c), Sleep(p, b, c, w, waiters)
  PROVE  TypeOK'
  <1>1. /\ Level(b) \in Int /\ Delay(b, c) \in Int
        /\ c \in Nat /\ w \in Nat /\ waiters \in Seq(Proc)
    BY LevelInRange, DelayIsInt, Parameters DEF IInv, Inside
  <1>2. TypeOK
    BY DEF IInv
  <1>3. PICK early \in 0..EarlyWake :
          early < Delay(b, c) /\ wakeAt' = [wakeAt EXCEPT ![p] = now + Delay(b, c) - early]
    BY DEF Sleep
  <1>4. Delay(b, c) \in Nat /\ now + Delay(b, c) - early \in Nat
    <2>1. early \in Nat /\ now \in Nat
      BY BoundsAssumption, <1>2 DEF TypeOK
    <2> QED BY <1>1, <1>3, <2>1
  <1>5. wakeAt' \in [Proc -> Nat]
    BY <1>2, <1>3, <1>4 DEF TypeOK
  <1>6. waited' \in [Proc -> Nat]
    <2>1. waited' = [waited EXCEPT ![p] = w + Delay(b, c)] /\ waited \in [Proc -> Nat]
      BY <1>2 DEF Sleep, TypeOK
    <2> QED BY <1>1, <1>4, <2>1
  <1>7. tokens' \in [Bucket -> Int]
    BY <1>1, <1>2 DEF Sleep, TypeOK
  <1>8. /\ updated' \in [Bucket -> Nat] /\ owner' \in [Bucket -> Proc \union {NoProc}]
        /\ queue' \in [Bucket -> Seq(Proc)] /\ spent' \in [Bucket -> Nat]
    BY <1>1, <1>2 DEF Sleep, TypeOK
  <1>9. pc' \in [Proc -> PcStates] /\ outcome' \in [Proc -> Outcomes]
    BY <1>2 DEF Sleep, TypeOK, PcStates, Outcomes
  <1>10. /\ now' \in Nat /\ bucket' \in [Proc -> Bucket] /\ cost' \in [Proc -> Nat]
         /\ calledAt' \in [Proc -> Nat]
    BY <1>1, <1>2 DEF Called, TypeOK
  <1> QED BY <1>5, <1>6, <1>7, <1>8, <1>9, <1>10 DEF TypeOK

\* A pass that consumes, or sleeps, keeps the bucket between empty and full.
LEMMA LoopBodyBucket ==
  ASSUME IInv, NEW p \in Proc, NEW b \in Bucket, NEW c, NEW w, NEW waiters,
         Inside(p, b, c, w, waiters), Called(p, b, c), LoopBody(p, b, c, w, waiters)
  PROVE  NoOverdraw' /\ RefillPast' /\ CallsFit'
  <1>1. Level(b) \in 0..Capacity[b] /\ Capacity[b] \in Nat /\ c \in Nat
    BY LevelInRange, Parameters DEF IInv, Inside
  <1>2. TypeOK
    BY DEF IInv
  <1>3. ASSUME NEW a \in Bucket PROVE tokens'[a] \in 0..Capacity[a]
    <2>1. tokens[a] \in 0..Capacity[a]
      BY DEF IInv, NoOverdraw
    <2>2. CASE Grant(p, b, c, w, waiters)
      <3>1. c <= Level(b) /\ tokens' = [tokens EXCEPT ![b] = Level(b) - c]
        BY <2>2 DEF Grant, Enough
      <3> QED BY <1>1, <1>2, <2>1, <3>1 DEF TypeOK
    <2>3. CASE Sleep(p, b, c, w, waiters)
      <3>1. tokens' = [tokens EXCEPT ![b] = Level(b)]
        BY <2>3 DEF Sleep
      <3> QED BY <1>1, <1>2, <2>1, <3>1 DEF TypeOK
    <2> QED BY <2>2, <2>3 DEF LoopBody
  <1>4. ASSUME NEW a \in Bucket PROVE updated'[a] <= now'
    <2>1. updated' = [updated EXCEPT ![b] = now] /\ now' = now
      BY DEF LoopBody, Grant, Sleep, Called
    <2> QED BY <1>2, <2>1 DEF IInv, RefillPast, TypeOK
  <1>5. ASSUME NEW q \in Proc, pc'[q] # "idle" PROVE CostOK(bucket[q], cost[q])'
    <2>1. CASE q = p
      BY <1>2, <2>1 DEF Inside, Called, CostOK, CostPositive, CostFits, TypeOK
    <2>2. CASE q # p
      <3>1. pc[q] # "idle"
        <4>1. WakeFirst(waiters) \subseteq ToSet(waiters)
          BY WokenIsFirst DEF Inside
        <4> QED BY <1>2, <1>5, <2>2, <4>1 DEF LoopBody, Grant, Sleep, Inside, TypeOK
      <3>2. bucket'[q] = bucket[q] /\ cost'[q] = cost[q]
        BY <1>2, <2>2 DEF Called, TypeOK
      <3> QED BY <3>1, <3>2 DEF IInv, CallsFit, CostOK, CostPositive, CostFits
    <2> QED BY <2>1, <2>2
  <1> QED BY <1>3, <1>4, <1>5 DEF NoOverdraw, RefillPast, CallsFit

\* Of the coroutines a pass leaves in other lines, and of those lines, nothing
\* changes.
LEMMA OtherBuckets ==
  ASSUME IInv, NEW p \in Proc, NEW b \in Bucket, NEW c, NEW w, NEW waiters,
         Inside(p, b, c, w, waiters), Called(p, b, c), LoopBody(p, b, c, w, waiters),
         NEW a \in Bucket, a # b
  PROVE  /\ owner'[a] = owner[a] /\ queue'[a] = queue[a]
         /\ \A q \in Proc : bucket[q] = a /\ pc[q] # "idle" =>
              pc'[q] = pc[q] /\ bucket'[q] = a
         /\ \A q \in Proc : bucket'[q] = a /\ pc'[q] # "idle" =>
              pc'[q] = pc[q] /\ bucket[q] = a
  <1>1. TypeOK
    BY DEF IInv
  <1>2. owner'[a] = owner[a] /\ queue'[a] = queue[a]
    BY <1>1 DEF LoopBody, Grant, Sleep, TypeOK
  <1>3. /\ WakeFirst(waiters) \subseteq ToSet(waiters)
        /\ \A q \in Proc : q \in WakeFirst(waiters) => bucket[q] = b /\ q # p
    BY WokenIsFirst DEF Inside
  <1>4. \A q \in Proc : q # p => bucket'[q] = bucket[q]
    BY <1>1 DEF Called, TypeOK
  <1>5. \A q \in Proc : q # p /\ bucket[q] = a => pc'[q] = pc[q]
    BY <1>1, <1>3 DEF LoopBody, Grant, Sleep, TypeOK
  <1>6. bucket'[p] = b /\ (pc[p] = "idle" \/ bucket[p] = b)
    BY <1>1 DEF Called, Inside, TypeOK
  <1> QED BY <1>2, <1>4, <1>5, <1>6

\* A caller that gets its tokens frees the lock and wakes the next in line.
LEMMA GrantLock ==
  ASSUME IInv, NEW p \in Proc, NEW b \in Bucket, NEW c, NEW w, NEW waiters,
         Inside(p, b, c, w, waiters), Called(p, b, c), Grant(p, b, c, w, waiters)
  PROVE  LockDiscipline'
  <1>1. TypeOK /\ OwnerSleeps /\ WaitersInLine /\ NoLostWakeup
    BY DEF IInv, LockDiscipline
  <1>2. LoopBody(p, b, c, w, waiters)
    BY DEF LoopBody
  <1>3. /\ owner'[b] = NoProc /\ queue'[b] = waiters
        /\ pc' = [q \in Proc |-> IF q = p THEN "idle"
                     ELSE IF q \in WakeFirst(waiters) THEN "woken" ELSE pc[q]]
        /\ \A q \in Proc : bucket'[q] = IF q = p THEN b ELSE bucket[q]
    BY <1>1 DEF Grant, Called, TypeOK
  <1>4. /\ waiters \in Seq(Proc) /\ IsInjective(waiters)
        /\ \A q \in Proc : q \in ToSet(waiters) <=>
             q # p /\ pc[q] \in {"queued", "woken"} /\ bucket[q] = b
        /\ \A q \in ToSet(waiters) : pc[q] = "queued"
        /\ owner[b] \in {NoProc, p}
    BY DEF Inside
  <1>5. /\ WakeFirst(waiters) \subseteq ToSet(waiters)
        /\ \A i \in DOMAIN waiters : /\ waiters[i] \in ToSet(waiters) /\ waiters[i] \in Proc
                                     /\ waiters[i] \in WakeFirst(waiters) <=> i = 1
    BY <1>4, WokenIsFirst
  <1>6. ASSUME NEW a \in Bucket, NEW q \in Proc
        PROVE  owner'[a] = q <=> pc'[q] = "sleeping" /\ bucket'[q] = a
    <2>1. CASE a = b
      <3>1. owner'[b] # q
        BY <1>3, NoProcAssumption
      <3>2. ~(pc'[q] = "sleeping" /\ bucket'[q] = b)
        BY <1>1, <1>3, <1>4, NoProcAssumption DEF OwnerSleeps
      <3> QED BY <2>1, <3>1, <3>2
    <2>2. CASE a # b
      BY <1>1, <1>2, <2>2, OtherBuckets DEF OwnerSleeps
    <2> QED BY <2>1, <2>2
  <1>7. ASSUME NEW a \in Bucket
        PROVE  /\ IsInjective(queue'[a])
               /\ \A q \in Proc :
                    q \in ToSet(queue'[a]) <=> pc'[q] \in {"queued", "woken"} /\ bucket'[q] = a
    <2>1. CASE a = b
      BY <1>3, <1>4, <1>5, <2>1
    <2>2. CASE a # b
      BY <1>1, <1>2, <2>2, OtherBuckets DEF WaitersInLine
    <2> QED BY <2>1, <2>2
  <1>8. ASSUME NEW a \in Bucket, NEW i \in DOMAIN queue'[a]
        PROVE  pc'[queue'[a][i]] = "woken" <=> i = 1 /\ owner'[a] = NoProc
    <2>1. CASE a = b
      BY <1>3, <1>4, <1>5, <1>8, <2>1
    <2>2. CASE a # b
      <3>1. queue'[a] = queue[a] /\ owner'[a] = owner[a]
        BY <1>2, <2>2, OtherBuckets
      <3>2. queue[a][i] \in Proc /\ queue[a][i] \in ToSet(queue[a])
        BY <1>1, <1>8, <3>1, WokenIsFirst DEF TypeOK
      <3>3. pc[queue[a][i]] # "idle" /\ bucket[queue[a][i]] = a
        BY <1>1, <3>2 DEF WaitersInLine
      <3>4. pc'[queue[a][i]] = pc[queue[a][i]]
        BY <1>2, <2>2, <3>2, <3>3, OtherBuckets
      <3> QED BY <1>1, <1>8, <3>1, <3>4 DEF NoLostWakeup
    <2> QED BY <2>1, <2>2
  <1>9. OwnerSleeps' /\ WaitersInLine' /\ NoLostWakeup'
    BY <1>6, <1>7, <1>8 DEF OwnerSleeps, WaitersInLine, NoLostWakeup
  <1> QED BY <1>9 DEF LockDiscipline

\* A caller that goes to sleep owns the lock, with the rest of the line behind it.
LEMMA SleepLock ==
  ASSUME IInv, NEW p \in Proc, NEW b \in Bucket, NEW c, NEW w, NEW waiters,
         Inside(p, b, c, w, waiters), Called(p, b, c), Sleep(p, b, c, w, waiters)
  PROVE  LockDiscipline'
  <1>1. TypeOK /\ OwnerSleeps /\ WaitersInLine /\ NoLostWakeup
    BY DEF IInv, LockDiscipline
  <1>2. LoopBody(p, b, c, w, waiters)
    BY DEF LoopBody
  <1>3. /\ owner'[b] = p /\ queue'[b] = waiters
        /\ \A q \in Proc : pc'[q] = IF q = p THEN "sleeping" ELSE pc[q]
        /\ \A q \in Proc : bucket'[q] = IF q = p THEN b ELSE bucket[q]
    BY <1>1 DEF Sleep, Called, TypeOK
  <1>4. /\ waiters \in Seq(Proc) /\ IsInjective(waiters)
        /\ \A q \in Proc : q \in ToSet(waiters) <=>
             q # p /\ pc[q] \in {"queued", "woken"} /\ bucket[q] = b
        /\ \A q \in ToSet(waiters) : pc[q] = "queued"
        /\ owner[b] \in {NoProc, p}
    BY DEF Inside
  <1>5. \A i \in DOMAIN waiters : waiters[i] \in ToSet(waiters) /\ waiters[i] \in Proc
    BY <1>4, WokenIsFirst
  <1>6. ASSUME NEW a \in Bucket, NEW q \in Proc
        PROVE  owner'[a] = q <=> pc'[q] = "sleeping" /\ bucket'[q] = a
    <2>1. CASE a = b
      BY <1>1, <1>3, <1>4, <2>1, NoProcAssumption DEF OwnerSleeps
    <2>2. CASE a # b
      BY <1>1, <1>2, <2>2, OtherBuckets DEF OwnerSleeps
    <2> QED BY <2>1, <2>2
  <1>7. ASSUME NEW a \in Bucket
        PROVE  /\ IsInjective(queue'[a])
               /\ \A q \in Proc :
                    q \in ToSet(queue'[a]) <=> pc'[q] \in {"queued", "woken"} /\ bucket'[q] = a
    <2>1. CASE a = b
      BY <1>3, <1>4, <1>5, <2>1
    <2>2. CASE a # b
      BY <1>1, <1>2, <2>2, OtherBuckets DEF WaitersInLine
    <2> QED BY <2>1, <2>2
  <1>8. ASSUME NEW a \in Bucket, NEW i \in DOMAIN queue'[a]
        PROVE  pc'[queue'[a][i]] = "woken" <=> i = 1 /\ owner'[a] = NoProc
    <2>1. CASE a = b
      BY <1>3, <1>4, <1>5, <1>8, <2>1, NoProcAssumption
    <2>2. CASE a # b
      <3>1. queue'[a] = queue[a] /\ owner'[a] = owner[a]
        BY <1>2, <2>2, OtherBuckets
      <3>2. queue[a][i] \in Proc /\ queue[a][i] \in ToSet(queue[a])
        BY <1>1, <1>8, <3>1, WokenIsFirst DEF TypeOK
      <3>3. pc[queue[a][i]] # "idle" /\ bucket[queue[a][i]] = a
        BY <1>1, <3>2 DEF WaitersInLine
      <3>4. pc'[queue[a][i]] = pc[queue[a][i]]
        BY <1>2, <2>2, <3>2, <3>3, OtherBuckets
      <3> QED BY <1>1, <1>8, <3>1, <3>4 DEF NoLostWakeup
    <2> QED BY <2>1, <2>2
  <1>9. OwnerSleeps' /\ WaitersInLine' /\ NoLostWakeup'
    BY <1>6, <1>7, <1>8 DEF OwnerSleeps, WaitersInLine, NoLostWakeup
  <1> QED BY <1>9 DEF LockDiscipline

\* One pass of the loop keeps the invariant, whoever runs it.
LEMMA LoopBodyKeepsInv ==
  ASSUME IInv, NEW p \in Proc, NEW b \in Bucket, NEW c, NEW w, NEW waiters,
         Inside(p, b, c, w, waiters), Called(p, b, c), LoopBody(p, b, c, w, waiters)
  PROVE  IInv'
  <1>1. NoOverdraw' /\ RefillPast' /\ CallsFit'
    BY LoopBodyBucket
  <1>2. CASE Grant(p, b, c, w, waiters)
    BY <1>1, <1>2, GrantTypes, GrantLock DEF IInv
  <1>3. CASE Sleep(p, b, c, w, waiters)
    BY <1>1, <1>3, SleepTypes, SleepLock DEF IInv
  <1> QED BY <1>2, <1>3 DEF LoopBody

--------------------------------------------------------------------------------
(* The three ways into the loop body. *)

\* Nobody is in a line that is empty.
LEMMA EmptyLine ==
  ASSUME TypeOK, NEW b \in Bucket, Line(b) = <<>>
  PROVE  owner[b] = NoProc /\ queue[b] = <<>>
  <1>1. owner[b] \in Proc \union {NoProc} /\ queue[b] \in Seq(Proc)
    BY DEF TypeOK
  <1>2. CASE owner[b] = NoProc
    BY <1>2 DEF Line
  <1>3. CASE owner[b] \in Proc
    <2>1. <<owner[b]>> \in Seq(Proc) /\ <<owner[b]>> # <<>>
      BY <1>3
    <2>2. <<owner[b]>> \o queue[b] # <<>>
      BY <1>1, <2>1, ConcatEqualIffEmpty
    <2> QED BY <1>3, <2>2, NoProcAssumption DEF Line
  <1> QED BY <1>1, <1>2, <1>3

\* A call that finds no line, a woken waiter and a sleeper whose timer fired all
\* run the loop body in the same condition.
LEMMA CallIsInside ==
  ASSUME IInv, NEW p \in Proc, NEW b \in Bucket, NEW c \in Cost, pc[p] = "idle",
         CostOK(b, c), ~MustQueue(b)
  PROVE  Inside(p, b, c, 0, <<>>)
  <1>1. TypeOK /\ WaitersInLine
    BY DEF IInv, LockDiscipline
  <1>2. owner[b] = NoProc /\ queue[b] = <<>>
    BY <1>1, EmptyLine DEF MustQueue
  <1>3. c \in Nat
    BY CostAssumption DEF CostOK, CostPositive
  <1>4. ToSet(<<>>) = {} /\ IsInjective(<<>>) /\ <<>> \in Seq(Proc)
    BY DEF ToSet, IsInjective
  <1>5. \A q \in Proc : q \in ToSet(<<>>) <=> pc[q] \in {"queued", "woken"} /\ bucket[q] = b
    BY <1>1, <1>2 DEF WaitersInLine
  <1> QED BY <1>2, <1>3, <1>4, <1>5 DEF Inside

\* The woken waiter is the head of the queue of a free lock.
LEMMA EnterLockIsInside ==
  ASSUME IInv, NEW p \in Proc, pc[p] = "woken"
  PROVE  Inside(p, bucket[p], cost[p], waited[p], Tail(queue[bucket[p]]))
  <1> DEFINE b == bucket[p]
             s == queue[b]
  <1>1. TypeOK /\ WaitersInLine /\ NoLostWakeup
    BY DEF IInv, LockDiscipline
  <1>2. b \in Bucket /\ s \in Seq(Proc) /\ IsInjective(s) /\ p \in ToSet(s)
    BY <1>1 DEF TypeOK, WaitersInLine
  <1>3. PICK k \in DOMAIN s : s[k] = p
    BY <1>2 DEF ToSet
  <1>4. k = 1 /\ owner[b] = NoProc /\ s # <<>>
    BY <1>1, <1>2, <1>3 DEF NoLostWakeup
  <1>5. /\ Tail(s) \in Seq(Proc) /\ IsInjective(Tail(s))
        /\ ToSet(Tail(s)) = ToSet(s) \ {p}
        /\ \A i \in DOMAIN Tail(s) : i + 1 \in DOMAIN s /\ Tail(s)[i] = s[i + 1]
    BY <1>2, <1>3, <1>4, TailOfQueue
  <1>6. ASSUME NEW q \in ToSet(Tail(s)) PROVE pc[q] = "queued"
    <2>1. PICK i \in DOMAIN Tail(s) : q = Tail(s)[i]
      BY DEF ToSet
    <2>2. i + 1 \in DOMAIN s /\ q = s[i + 1] /\ i + 1 # 1
      BY <1>5, <2>1
    <2>3. pc[q] # "woken"
      BY <1>1, <1>2, <2>2 DEF NoLostWakeup
    <2>4. q \in ToSet(s) /\ q \in Proc
      BY <1>2, <1>5, WokenIsFirst
    <2> QED BY <1>1, <1>2, <2>3, <2>4 DEF WaitersInLine
  <1>7. cost[p] \in Nat /\ waited[p] \in Nat /\ CostOK(b, cost[p])
    BY <1>1 DEF IInv, CallsFit, TypeOK
  <1>8. \A q \in Proc : q \in ToSet(s) <=> pc[q] \in {"queued", "woken"} /\ bucket[q] = b
    BY <1>1, <1>2 DEF WaitersInLine
  <1>9. \A q \in Proc : q \in ToSet(Tail(s)) <=>
           q # p /\ pc[q] \in {"queued", "woken"} /\ bucket[q] = b
    BY <1>5, <1>8
  <1> HIDE DEF b
  <1> QED BY <1>4, <1>5, <1>6, <1>7, <1>9 DEF Inside, b

\* The sleeper owns the lock.
LEMMA WakeIsInside ==
  ASSUME IInv, NEW p \in Proc, pc[p] = "sleeping"
  PROVE  Inside(p, bucket[p], cost[p], waited[p], queue[bucket[p]])
  <1> DEFINE b == bucket[p]
             s == queue[b]
  <1>1. TypeOK /\ OwnerSleeps /\ WaitersInLine /\ NoLostWakeup
    BY DEF IInv, LockDiscipline
  <1>2. b \in Bucket /\ s \in Seq(Proc) /\ IsInjective(s) /\ owner[b] = p
    BY <1>1 DEF TypeOK, WaitersInLine, OwnerSleeps
  <1>3. \A q \in Proc : q \in ToSet(s) <=> pc[q] \in {"queued", "woken"} /\ bucket[q] = b
    BY <1>1, <1>2 DEF WaitersInLine
  <1>4. ASSUME NEW q \in ToSet(s) PROVE pc[q] = "queued"
    <2>1. PICK i \in DOMAIN s : q = s[i]
      BY DEF ToSet
    <2>2. pc[q] # "woken"
      BY <1>1, <1>2, <2>1, NoProcAssumption DEF NoLostWakeup
    <2>3. q \in Proc
      BY <1>2, WokenIsFirst
    <2> QED BY <1>3, <2>2, <2>3
  <1>5. cost[p] \in Nat /\ waited[p] \in Nat /\ CostOK(b, cost[p])
    BY <1>1 DEF IInv, CallsFit, TypeOK
  <1> HIDE DEF b
  <1> QED BY <1>2, <1>3, <1>4, <1>5 DEF Inside, b

--------------------------------------------------------------------------------
(* Every action keeps the invariant. *)

\* A step that touches neither the lock nor the callers.
LEMMA BystanderKeepsLock ==
  ASSUME LockDiscipline, UNCHANGED <<owner, queue, pc, bucket>>
  PROVE  LockDiscipline'
  BY DEF LockDiscipline, OwnerSleeps, WaitersInLine, NoLostWakeup

\* A call that finds the lock taken, or others waiting, joins the line.
LEMMA QueueKeepsInv ==
  ASSUME IInv, NEW p \in Proc, NEW b \in Bucket, NEW c \in Cost, pc[p] = "idle",
         CostOK(b, c), MustQueue(b), Called(p, b, c),
         queue' = [queue EXCEPT ![b] = Append(@, p)],
         pc' = [pc EXCEPT ![p] = "queued"],
         waited' = [waited EXCEPT ![p] = 0],
         outcome' = [outcome EXCEPT ![p] = "none"],
         UNCHANGED <<bucketVars, owner, wakeAt>>
  PROVE  IInv'
  <1>1. TypeOK /\ OwnerSleeps /\ WaitersInLine /\ NoLostWakeup
    BY DEF IInv, LockDiscipline
  <1>2. c \in Nat
    BY CostAssumption DEF CostOK, CostPositive
  <1>3. queue[b] \in Seq(Proc) /\ IsInjective(queue[b]) /\ p \notin ToSet(queue[b])
    BY <1>1 DEF TypeOK, WaitersInLine
  <1> DEFINE s == Append(queue[b], p)
  <1>4. /\ s \in Seq(Proc) /\ IsInjective(s)
        /\ ToSet(s) = ToSet(queue[b]) \union {p}
        /\ Len(s) = Len(queue[b]) + 1 /\ Len(queue[b]) \in Nat
        /\ DOMAIN queue[b] = 1..Len(queue[b]) /\ DOMAIN s = 1..Len(s)
        /\ \A i \in DOMAIN queue[b] : s[i] = queue[b][i]
        /\ s[Len(queue[b]) + 1] = p
    BY <1>3, AppendToQueue
  <1> HIDE DEF s
  <1>5. /\ \A a \in Bucket : queue'[a] = IF a = b THEN s ELSE queue[a]
        /\ \A q \in Proc : pc'[q] = IF q = p THEN "queued" ELSE pc[q]
        /\ \A q \in Proc : bucket'[q] = IF q = p THEN b ELSE bucket[q]
        /\ \A q \in Proc : cost'[q] = IF q = p THEN c ELSE cost[q]
        /\ owner' = owner
    BY <1>1 DEF s, TypeOK, Called
  <1>6. TypeOK'
    <2>1. queue' \in [Bucket -> Seq(Proc)]
      BY <1>1, <1>4 DEF s, TypeOK
    <2> QED BY <1>1, <1>2, <2>1 DEF TypeOK, Called, bucketVars, PcStates, Outcomes
  <1>7. NoOverdraw' /\ RefillPast'
    BY DEF IInv, NoOverdraw, RefillPast, Called, bucketVars
  <1>8. CallsFit'
    BY <1>5 DEF IInv, CallsFit, CostOK, CostPositive, CostFits
  <1>9. OwnerSleeps'
    BY <1>1, <1>5 DEF OwnerSleeps
  <1>10. WaitersInLine'
    BY <1>1, <1>4, <1>5 DEF WaitersInLine
  <1>11. ASSUME NEW a \in Bucket, NEW i \in DOMAIN queue'[a]
         PROVE  pc'[queue'[a][i]] = "woken" <=> i = 1 /\ owner'[a] = NoProc
    <2>1. ASSUME i \in DOMAIN queue[a], queue'[a][i] = queue[a][i]
          PROVE  pc'[queue'[a][i]] = "woken" <=> i = 1 /\ owner'[a] = NoProc
      <3>1. queue[a][i] \in Proc /\ queue[a][i] \in ToSet(queue[a])
        BY <1>1, <2>1, WokenIsFirst DEF TypeOK
      <3>2. queue[a][i] # p
        BY <1>1, <3>1 DEF WaitersInLine
      <3> QED BY <1>1, <1>5, <2>1, <3>1, <3>2 DEF NoLostWakeup
    <2>2. CASE a # b \/ i \in DOMAIN queue[b]
      BY <1>4, <1>5, <1>11, <2>1, <2>2
    <2>3. CASE a = b /\ i \notin DOMAIN queue[b]
      <3>1. i = Len(queue[b]) + 1 /\ queue'[a][i] = p
        BY <1>4, <1>5, <1>11, <2>3
      <3>2. ~(i = 1 /\ owner[b] = NoProc)
        <4>1. SUFFICES ASSUME i = 1, owner[b] = NoProc PROVE FALSE
          OBVIOUS
        <4>2. queue[b] = <<>>
          BY <1>3, <1>4, <3>1, <4>1
        <4> QED BY <4>1, <4>2 DEF MustQueue, Line
      <3> QED BY <1>5, <2>3, <3>1, <3>2
    <2> QED BY <2>2, <2>3
  <1>12. NoLostWakeup'
    BY <1>11 DEF NoLostWakeup
  <1> QED BY <1>6, <1>7, <1>8, <1>9, <1>10, <1>12 DEF IInv, LockDiscipline

\* acquire() keeps the invariant up to its first await.
LEMMA CallKeepsInv ==
  ASSUME IInv, NEW p \in Proc, NEW b \in Bucket, NEW c \in Cost, Call(p, b, c)
  PROVE  IInv'
  <1>1. pc[p] = "idle" /\ CostOK(b, c)
    BY DEF Call
  <1>2. Called(p, b, c)
    BY DEF Call, Called, IInv, TypeOK
  <1>3. CASE ~MustQueue(b)
    BY <1>1, <1>2, <1>3, CallIsInside, LoopBodyKeepsInv DEF Call
  <1>4. CASE MustQueue(b)
    BY <1>1, <1>2, <1>4, QueueKeepsInv DEF Call
  <1> QED BY <1>3, <1>4

\* Coming back to the loop leaves the arguments alone.
LEMMA StillCalled ==
  ASSUME TypeOK, NEW p \in Proc, UNCHANGED <<now, callVars>>
  PROVE  bucket[p] \in Bucket /\ Called(p, bucket[p], cost[p])
  BY DEF TypeOK, Called, callVars

\* A waiter's turn keeps it.
LEMMA EnterLockKeepsInv ==
  ASSUME IInv, NEW p \in Proc, EnterLock(p)
  PROVE  IInv'
  <1>1. TypeOK /\ pc[p] = "woken" /\ UNCHANGED <<now, callVars>>
    BY DEF IInv, EnterLock
  <1> QED BY <1>1, StillCalled, EnterLockIsInside, LoopBodyKeepsInv DEF EnterLock

\* A timer's firing keeps it.
LEMMA WakeKeepsInv ==
  ASSUME IInv, NEW p \in Proc, Wake(p)
  PROVE  IInv'
  <1>1. TypeOK /\ pc[p] = "sleeping" /\ UNCHANGED <<now, callVars>>
    BY DEF IInv, Wake
  <1> QED BY <1>1, StillCalled, WakeIsInside, LoopBodyKeepsInv DEF Wake

\* A cancelled coroutine takes itself out of its bucket's line or lock, and the
\* lock, if it is then free, is offered to whoever is first.
LEMMA LeaveKeepsInv ==
  ASSUME IInv, NEW p \in Proc, NEW b \in Bucket, pc[p] # "idle", bucket[p] = b,
         NEW waiters \in Seq(Proc), IsInjective(waiters),
         \A q \in Proc : q \in ToSet(waiters) <=>
           q # p /\ pc[q] \in {"queued", "woken"} /\ bucket[q] = b,
         \A a \in Bucket : owner'[a] = IF owner[a] = p THEN NoProc ELSE owner[a],
         owner' \in [Bucket -> Proc \union {NoProc}],
         \A i \in DOMAIN waiters :
           pc[waiters[i]] = "woken" => i = 1 /\ owner'[b] = NoProc,
         NEW next, next = IF owner'[b] = NoProc THEN WakeFirst(waiters) ELSE {},
         Leave(p, b, waiters, next)
  PROVE  IInv'
  <1>1. TypeOK /\ OwnerSleeps /\ WaitersInLine /\ NoLostWakeup
    BY DEF IInv, LockDiscipline
  <1>2. /\ next \subseteq ToSet(waiters)
        /\ \A i \in DOMAIN waiters : /\ waiters[i] \in ToSet(waiters)
                                     /\ waiters[i] \in Proc
                                     /\ waiters[i] \in WakeFirst(waiters) <=> i = 1
    BY WokenIsFirst
  <1>3. TypeOK'
    BY <1>1 DEF TypeOK, Leave, bucketVars, callVars, PcStates, Outcomes
  <1>4. NoOverdraw' /\ RefillPast'
    BY DEF IInv, NoOverdraw, RefillPast, Leave, bucketVars
  <1>5. /\ \A a \in Bucket : queue'[a] = IF a = b THEN waiters ELSE queue[a]
        /\ \A q \in Proc : pc'[q] = IF q = p THEN "idle"
                                    ELSE IF q \in next THEN "woken" ELSE pc[q]
        /\ bucket' = bucket /\ cost' = cost
    BY <1>1 DEF TypeOK, Leave, callVars
  <1>6. CallsFit'
    BY <1>2, <1>5 DEF IInv, CallsFit, CostOK, CostPositive, CostFits
  <1>7. ASSUME NEW a \in Bucket, NEW q \in Proc
        PROVE  owner'[a] = q <=> pc'[q] = "sleeping" /\ bucket'[q] = a
    <2>1. pc'[q] = "sleeping" <=> q # p /\ pc[q] = "sleeping"
      BY <1>2, <1>5
    <2>2. owner'[a] = q <=> q # p /\ owner[a] = q
      BY NoProcAssumption
    <2> QED BY <1>1, <1>5, <2>1, <2>2 DEF OwnerSleeps
  <1>8. ASSUME NEW a \in Bucket
        PROVE  /\ IsInjective(queue'[a])
               /\ \A q \in Proc :
                    q \in ToSet(queue'[a]) <=> pc'[q] \in {"queued", "woken"} /\ bucket'[q] = a
    <2>1. \A q \in Proc : pc'[q] \in {"queued", "woken"} <=> q # p /\ pc[q] \in {"queued", "woken"}
      BY <1>2, <1>5
    <2>2. CASE a = b
      BY <1>5, <2>1, <2>2
    <2>3. CASE a # b
      BY <1>1, <1>5, <2>1, <2>3 DEF WaitersInLine
    <2> QED BY <2>2, <2>3
  <1>9. ASSUME NEW a \in Bucket, NEW i \in DOMAIN queue'[a]
        PROVE  pc'[queue'[a][i]] = "woken" <=> i = 1 /\ owner'[a] = NoProc
    <2>1. CASE a = b
      <3>1. waiters[i] \in Proc /\ waiters[i] # p /\ i \in DOMAIN waiters
        BY <1>2, <1>5, <1>9, <2>1
      <3>2. pc'[waiters[i]] = IF waiters[i] \in next THEN "woken" ELSE pc[waiters[i]]
        BY <1>5, <3>1
      <3> QED BY <1>2, <1>5, <2>1, <3>1, <3>2
    <2>2. CASE a # b
      <3>1. queue'[a] = queue[a] /\ i \in DOMAIN queue[a]
        BY <1>5, <1>9, <2>2
      <3>2. queue[a][i] \in Proc /\ queue[a][i] \in ToSet(queue[a])
        BY <1>1, <3>1, WokenIsFirst DEF TypeOK
      <3>3. bucket[queue[a][i]] = a
        BY <1>1, <3>2 DEF WaitersInLine
      <3>4. pc'[queue[a][i]] = pc[queue[a][i]]
        BY <1>2, <1>5, <2>2, <3>2, <3>3
      <3>5. owner'[a] = NoProc <=> owner[a] = NoProc
        BY <1>1, <2>2 DEF OwnerSleeps
      <3> QED BY <1>1, <3>1, <3>4, <3>5 DEF NoLostWakeup
    <2> QED BY <2>1, <2>2
  <1>10. OwnerSleeps' /\ WaitersInLine' /\ NoLostWakeup'
    BY <1>7, <1>8, <1>9 DEF OwnerSleeps, WaitersInLine, NoLostWakeup
  <1> QED BY <1>3, <1>4, <1>6, <1>10 DEF IInv, LockDiscipline

\* Cancelling a waiter keeps it: a woken one passes its turn on.
LEMMA CancelWaiterKeepsInv ==
  ASSUME IInv, NEW p \in Proc, CancelWaiter(p)
  PROVE  IInv'
  <1>1. TypeOK /\ OwnerSleeps /\ WaitersInLine /\ NoLostWakeup
    BY DEF IInv, LockDiscipline
  <1> DEFINE b == bucket[p]
             s == queue[b]
  <1>2. b \in Bucket /\ s \in Seq(Proc) /\ IsInjective(s) /\ pc[p] \in {"queued", "woken"}
    BY <1>1 DEF TypeOK, WaitersInLine, CancelWaiter
  <1>3. PICK k \in DOMAIN s :
          /\ s[k] = p
          /\ Leave(p, b, RemoveAt(s, k),
                   IF owner[b] = NoProc THEN WakeFirst(RemoveAt(s, k)) ELSE {})
    BY DEF CancelWaiter
  <1>4. owner' = owner /\ owner \in [Bucket -> Proc \union {NoProc}]
    BY <1>1 DEF CancelWaiter, TypeOK
  <1> DEFINE r == RemoveAt(s, k)
             next == IF owner[b] = NoProc THEN WakeFirst(r) ELSE {}
  <1>5. /\ r \in Seq(Proc) /\ IsInjective(r)
        /\ ToSet(r) = ToSet(s) \ {p}
        /\ \A i \in DOMAIN r : LET j == IF i < k THEN i ELSE i + 1
                               IN  j \in DOMAIN s /\ j # k /\ r[i] = s[j]
    BY <1>2, <1>3, RemoveFromQueue
  <1>6. \A q \in Proc : q \in ToSet(s) <=> pc[q] \in {"queued", "woken"} /\ bucket[q] = b
    BY <1>1, <1>2 DEF WaitersInLine
  <1>7. \A q \in Proc : q \in ToSet(r) <=>
           q # p /\ pc[q] \in {"queued", "woken"} /\ bucket[q] = b
    BY <1>5, <1>6
  <1>8. \A a \in Bucket : owner'[a] = IF owner[a] = p THEN NoProc ELSE owner[a]
    BY <1>1, <1>2, <1>4 DEF OwnerSleeps
  <1>9. ASSUME NEW i \in DOMAIN r, pc[r[i]] = "woken"
        PROVE  i = 1 /\ owner'[b] = NoProc
    <2>1. i \in Nat /\ i > 0 /\ k \in Nat /\ k > 0
      BY <1>2, <1>5
    <2>2. PICK j \in DOMAIN s : j = (IF i < k THEN i ELSE i + 1) /\ r[i] = s[j]
      BY <1>5
    <2>3. j = 1 /\ owner[b] = NoProc
      BY <1>1, <1>2, <1>9, <2>2 DEF NoLostWakeup
    <2> QED BY <1>4, <2>1, <2>2, <2>3
  <1>10. next = IF owner'[b] = NoProc THEN WakeFirst(r) ELSE {}
    BY <1>4
  <1>11. Leave(p, b, r, next) /\ pc[p] # "idle"
    BY <1>2, <1>3
  <1> HIDE DEF r, next
  <1> QED BY <1>2, <1>4, <1>5, <1>7, <1>8, <1>9, <1>10, <1>11, LeaveKeepsInv

\* Cancelling a sleeper keeps it: the lock it held is offered to the next.
LEMMA CancelSleeperKeepsInv ==
  ASSUME IInv, NEW p \in Proc, CancelSleeper(p)
  PROVE  IInv'
  <1>1. TypeOK /\ OwnerSleeps /\ NoLostWakeup
    BY DEF IInv, LockDiscipline
  <1> DEFINE b == bucket[p]
             s == queue[b]
  <1>2. /\ pc[p] = "sleeping" /\ Leave(p, b, s, WakeFirst(s))
        /\ owner' = [owner EXCEPT ![b] = NoProc]
    BY DEF CancelSleeper
  <1>3. b \in Bucket /\ owner[b] = p
    BY <1>1, <1>2 DEF TypeOK, OwnerSleeps
  <1>4. Inside(p, b, cost[p], waited[p], s)
    BY <1>2, WakeIsInside
  <1>5. /\ s \in Seq(Proc) /\ IsInjective(s)
        /\ \A q \in Proc : q \in ToSet(s) <=>
             q # p /\ pc[q] \in {"queued", "woken"} /\ bucket[q] = b
    BY <1>4 DEF Inside
  <1>6. ASSUME NEW i \in DOMAIN s PROVE pc[s[i]] # "woken"
    BY <1>1, <1>3, NoProcAssumption DEF NoLostWakeup
  <1>7. owner' \in [Bucket -> Proc \union {NoProc}] /\ owner'[b] = NoProc
    BY <1>1, <1>2, <1>3 DEF TypeOK
  <1>8. \A a \in Bucket : owner'[a] = IF owner[a] = p THEN NoProc ELSE owner[a]
    BY <1>1, <1>2, <1>3 DEF TypeOK, OwnerSleeps
  <1>9. WakeFirst(s) = IF owner'[b] = NoProc THEN WakeFirst(s) ELSE {}
    BY <1>7
  <1> HIDE DEF b, s
  <1> QED BY <1>2, <1>3, <1>5, <1>6, <1>7, <1>8, <1>9, LeaveKeepsInv DEF b

\* A ValueError touches neither the bucket nor the lock.
LEMMA RejectKeepsInv ==
  ASSUME IInv, NEW p \in Proc, NEW b \in Bucket, NEW c \in Cost, Reject(p, b, c)
  PROVE  IInv'
  <1>1. TypeOK' /\ UNCHANGED <<now, bucketVars, lockVars, pc, callVars>>
    BY DEF IInv, TypeOK, Reject, bucketVars, lockVars, callVars, Outcomes
  <1>2. LockDiscipline'
    BY <1>1, BystanderKeepsLock DEF IInv, lockVars, callVars
  <1> QED BY <1>1, <1>2 DEF IInv, NoOverdraw, RefillPast, CallsFit, CostOK, CostPositive,
                          CostFits, bucketVars, lockVars, callVars

\* An observer only refills.
LEMMA ObserveKeepsInv ==
  ASSUME IInv, NEW b \in Bucket, Observe(b)
  PROVE  IInv'
  <1>1. Level(b) \in 0..Capacity[b] /\ Capacity[b] \in Nat /\ TypeOK
    BY LevelInRange, Parameters DEF IInv
  <1>2. /\ tokens' = [tokens EXCEPT ![b] = Level(b)]
        /\ updated' = [updated EXCEPT ![b] = now]
        /\ UNCHANGED <<now, spent, owner, queue, pc, bucket, cost, calledAt, wakeAt, waited, outcome>>
    BY DEF Observe, lockVars, callVars
  <1>3. TypeOK'
    BY <1>1, <1>2 DEF TypeOK
  <1>4. NoOverdraw'
    BY <1>1, <1>2 DEF IInv, NoOverdraw, TypeOK
  <1>5. RefillPast'
    BY <1>1, <1>2 DEF IInv, RefillPast, TypeOK
  <1>6. CallsFit'
    BY <1>2 DEF IInv, CallsFit, CostOK, CostPositive, CostFits
  <1>7. LockDiscipline'
    BY <1>2, BystanderKeepsLock DEF IInv
  <1> QED BY <1>3, <1>4, <1>5, <1>6, <1>7 DEF IInv

\* Time passing keeps every refill in the past.
LEMMA TickKeepsInv ==
  ASSUME IInv, Tick
  PROVE  IInv'
  <1>1. /\ TypeOK /\ now' = now + 1
        /\ UNCHANGED <<tokens, updated, spent, owner, queue, pc, bucket, cost, calledAt, wakeAt, waited, outcome>>
    BY DEF IInv, Tick, bucketVars, lockVars, callVars
  <1>2. TypeOK'
    BY <1>1 DEF TypeOK
  <1>3. NoOverdraw' /\ CallsFit'
    BY <1>1 DEF IInv, NoOverdraw, CallsFit, CostOK, CostPositive, CostFits
  <1>4. RefillPast'
    BY <1>1 DEF IInv, RefillPast, TypeOK
  <1>5. LockDiscipline'
    BY <1>1, BystanderKeepsLock DEF IInv
  <1> QED BY <1>2, <1>3, <1>4, <1>5 DEF IInv

\* A new limiter satisfies the invariant.
LEMMA InitEstablishesInv == Init => IInv
  <1> SUFFICES ASSUME Init PROVE IInv
    OBVIOUS
  <1>1. \A b \in Bucket : queue[b] = <<>> /\ owner[b] = NoProc
    BY DEF Init
  <1>2. <<>> \in Seq(Proc) /\ ToSet(<<>>) = {} /\ IsInjective(<<>>) /\ DOMAIN <<>> = {}
    BY DEF ToSet, IsInjective
  <1>3. TypeOK
    <2>1. (CHOOSE b \in Bucket : TRUE) \in Bucket
      BY BucketAssumption
    <2>2. tokens \in [Bucket -> Int]
      BY CapacityAssumption DEF Init
    <2> QED BY <1>2, <2>1, <2>2 DEF Init, TypeOK, PcStates, Outcomes
  <1>4. NoOverdraw
    BY Parameters DEF Init, NoOverdraw
  <1>5. LockDiscipline
    <2>1. OwnerSleeps
      BY NoProcAssumption DEF Init, OwnerSleeps
    <2>2. WaitersInLine
      BY <1>1, <1>2 DEF Init, WaitersInLine
    <2>3. NoLostWakeup
      BY <1>1, <1>2 DEF NoLostWakeup
    <2> QED BY <2>1, <2>2, <2>3 DEF LockDiscipline
  <1>6. RefillPast /\ CallsFit
    BY DEF Init, RefillPast, CallsFit
  <1> QED BY <1>3, <1>4, <1>5, <1>6 DEF IInv

\* Every step keeps it.
LEMMA NextKeepsInv == IInv /\ [Next]_vars => IInv'
  <1> SUFFICES ASSUME IInv, [Next]_vars PROVE IInv'
    OBVIOUS
  <1>1. CASE \E p \in Proc, b \in Bucket, c \in Cost : Call(p, b, c)
    BY <1>1, CallKeepsInv
  <1>2. CASE \E p \in Proc, b \in Bucket, c \in Cost : Reject(p, b, c)
    BY <1>2, RejectKeepsInv
  <1>3. CASE \E p \in Proc : EnterLock(p)
    BY <1>3, EnterLockKeepsInv
  <1>4. CASE \E p \in Proc : Wake(p)
    BY <1>4, WakeKeepsInv
  <1>5. CASE \E p \in Proc : CancelWaiter(p)
    BY <1>5, CancelWaiterKeepsInv
  <1>6. CASE \E p \in Proc : CancelSleeper(p)
    BY <1>6, CancelSleeperKeepsInv
  <1>7. CASE \E b \in Bucket : Observe(b)
    BY <1>7, ObserveKeepsInv
  <1>8. CASE Tick
    BY <1>8, TickKeepsInv
  <1>9. CASE UNCHANGED vars
    <2>1. UNCHANGED <<now, tokens, updated, spent, owner, queue, pc, bucket, cost, calledAt, wakeAt, waited, outcome>>
      BY <1>9 DEF vars, bucketVars, lockVars, callVars
    <2>2. TypeOK' /\ NoOverdraw' /\ RefillPast' /\ CallsFit'
      BY <2>1 DEF IInv, TypeOK, NoOverdraw, RefillPast, CallsFit, CostOK, CostPositive, CostFits
    <2>3. LockDiscipline'
      BY <2>1, BystanderKeepsLock DEF IInv
    <2> QED BY <2>2, <2>3 DEF IInv
  <1> QED BY <1>1, <1>2, <1>3, <1>4, <1>5, <1>6, <1>7, <1>8, <1>9 DEF Next

\* The inductive invariant of acquire(), for any number of coroutines and buckets.
THEOREM InvariantHolds == Spec => []IInv
  BY InitEstablishesInv, NextKeepsInv, PTL DEF Spec

\* Every variable keeps its type: in particular no wait is ever computed negative
\* and no timer is set in the past (ratelimit.py:75-80, 148-150).
THEOREM TypesHold == Spec => []TypeOK
  <1>1. IInv => TypeOK
    BY DEF IInv
  <1> QED BY <1>1, InvariantHolds, PTL

\* Concurrent callers never overdraw a bucket and a pause never banks more than
\* the burst, for any rates, bursts and costs (ratelimit.py:58-84, 134-150).
THEOREM NeverOverdrawn == Spec => []NoOverdraw
  <1>1. IInv => NoOverdraw
    BY DEF IInv
  <1> QED BY <1>1, InvariantHolds, PTL

\* Mutual exclusion, an honest first-come queue and no lost wake-up, under any
\* order of calls, wake-ups and cancellations (ratelimit.py:142-150).
THEOREM LockIsSound == Spec => []LockDiscipline
  <1>1. IInv => LockDiscipline
    BY DEF IInv
  <1> QED BY <1>1, InvariantHolds, PTL

--------------------------------------------------------------------------------
(* RateLimiter implements TokenBucket: a grant is a Draw, the clock a Pour,    *)
(* and everything else, every refill included, is invisible.                   *)

\* Writing a bucket down, with what the refill found less what was taken, leaves
\* that much in it and changes no other.
LEMMA LevelAfterWrite ==
  ASSUME IInv, NEW b \in Bucket, NEW n \in 0..Capacity[b],
         tokens' = [tokens EXCEPT ![b] = n], updated' = [updated EXCEPT ![b] = now],
         now' = now
  PROVE  \A a \in Bucket : Level(a)' = IF a = b THEN n ELSE Level(a)
  <1>1. /\ tokens \in [Bucket -> Int] /\ updated \in [Bucket -> Nat] /\ now \in Nat
    BY DEF IInv, TypeOK
  <1>2. SUFFICES ASSUME NEW a \in Bucket
                 PROVE Level(a)' = IF a = b THEN n ELSE Level(a)
    OBVIOUS
  <1>3. CASE a = b
    <2>1. tokens'[b] = n /\ updated'[b] = now /\ now' - updated'[b] = 0
      BY <1>1
    <2>2. 0 * Rate[b] = 0 /\ Capacity[b] \in Nat /\ n \in Int /\ n <= Capacity[b]
      BY Parameters
    <2> QED BY <1>3, <2>1, <2>2 DEF Level, AtMost
  <1>4. CASE a # b
    BY <1>1, <1>4 DEF Level, AtMost
  <1> QED BY <1>3, <1>4

\* A tick adds the rate to every bucket, up to its burst.
LEMMA LevelAfterTick ==
  ASSUME IInv, Tick, NEW b \in Bucket
  PROVE  Level(b)' = Ideal!AtMost(Capacity[b], Level(b) + Rate[b])
  <1> DEFINE d == now - updated[b]
  <1>1. /\ d \in Nat /\ now' - updated'[b] = d + 1 /\ tokens'[b] = tokens[b]
        /\ tokens[b] \in Int /\ Rate[b] \in Nat /\ Capacity[b] \in Nat
    BY Parameters DEF IInv, TypeOK, RefillPast, Tick, bucketVars
  <1>2. Level(b)' = AtMost(Capacity[b], tokens[b] + (d + 1) * Rate[b])
    BY <1>1 DEF Level, AtMost
  <1>3. Level(b) = AtMost(Capacity[b], tokens[b] + d * Rate[b])
    BY DEF Level
  <1> HIDE DEF d
  <1>4. d * Rate[b] \in Nat /\ (d + 1) * Rate[b] = d * Rate[b] + Rate[b]
    BY <1>1, Earnings
  <1> QED BY <1>1, <1>2, <1>3, <1>4 DEF AtMost, Ideal!AtMost

\* A tick of the clock is the continuous refill of the abstract bucket.
LEMMA TickPours == IInv /\ Tick => Ideal!Pour
  <1> SUFFICES ASSUME IInv, Tick PROVE Ideal!Pour
    OBVIOUS
  <1>1. now' = now + 1 /\ spent' = spent
    BY DEF Tick, bucketVars
  <1>2. [b \in Bucket |-> Level(b)]' =
          [b \in Bucket |-> Ideal!AtMost(Capacity[b], [a \in Bucket |-> Level(a)][b] + Rate[b])]
    BY LevelAfterTick
  <1> QED BY <1>1, <1>2 DEF Ideal!Pour

\* A grant draws from the abstract bucket; going to sleep does not change it.
LEMMA LoopBodyDraws ==
  ASSUME IInv, NEW p \in Proc, NEW b \in Bucket, NEW c, NEW w, NEW waiters,
         Inside(p, b, c, w, waiters), now' = now, LoopBody(p, b, c, w, waiters)
  PROVE  Ideal!AbstractNext \/ UNCHANGED Ideal!abstractVars
  <1>1. /\ Level(b) \in 0..Capacity[b] /\ Capacity[b] \in Nat /\ c \in Nat /\ c > 0
    BY LevelInRange, Parameters DEF IInv, Inside, CostOK, CostPositive
  <1>2. CASE Grant(p, b, c, w, waiters)
    <2>1. /\ c <= Level(b) /\ tokens' = [tokens EXCEPT ![b] = Level(b) - c]
          /\ updated' = [updated EXCEPT ![b] = now] /\ spent' = [spent EXCEPT ![b] = @ + c]
      BY <1>2 DEF Grant, Enough
    <2>2. Level(b) - c \in 0..Capacity[b]
      BY <1>1, <2>1
    <2>3. \A a \in Bucket : Level(a)' = IF a = b THEN Level(b) - c ELSE Level(a)
      BY <2>1, <2>2, LevelAfterWrite
    <2>4. [a \in Bucket |-> Level(a)]' =
            [[a \in Bucket |-> Level(a)] EXCEPT ![b] = @ - c]
      BY <2>3
    <2>5. c \in 1..[a \in Bucket |-> Level(a)][b] /\ c \in 1..Capacity[b]
      BY <1>1, <2>1
    <2> QED BY <2>1, <2>4, <2>5 DEF Ideal!AbstractNext, Ideal!Draw
  <1>3. CASE Sleep(p, b, c, w, waiters)
    <2>1. /\ tokens' = [tokens EXCEPT ![b] = Level(b)]
          /\ updated' = [updated EXCEPT ![b] = now] /\ spent' = spent
      BY <1>3 DEF Sleep
    <2>2. \A a \in Bucket : Level(a)' = Level(a)
      BY <1>1, <2>1, LevelAfterWrite
    <2>3. [a \in Bucket |-> Level(a)]' = [a \in Bucket |-> Level(a)]
      BY <2>2
    <2> QED BY <2>1, <2>3 DEF Ideal!abstractVars
  <1> QED BY <1>2, <1>3 DEF LoopBody

\* A step that leaves time and the buckets alone is invisible.
LEMMA Invisible ==
  ASSUME UNCHANGED <<now, bucketVars>>
  PROVE  UNCHANGED Ideal!abstractVars
  <1>1. \A b \in Bucket : Level(b)' = Level(b)
    BY DEF Level, AtMost, bucketVars
  <1>2. [b \in Bucket |-> Level(b)]' = [b \in Bucket |-> Level(b)]
    BY <1>1
  <1> QED BY <1>2 DEF Ideal!abstractVars, bucketVars

\* A new limiter is a full abstract bucket.
LEMMA InitMaps == Init => Ideal!AbstractInit
  <1> SUFFICES ASSUME Init PROVE Ideal!AbstractInit
    OBVIOUS
  <1>1. \A b \in Bucket : Level(b) = Capacity[b]
    <2> SUFFICES ASSUME NEW b \in Bucket PROVE Level(b) = Capacity[b]
      OBVIOUS
    <2>1. now - updated[b] = 0 /\ tokens[b] = Capacity[b] /\ 0 * Rate[b] = 0
      BY Parameters DEF Init
    <2> QED BY <2>1, Parameters DEF Level, AtMost
  <1>2. [b \in Bucket |-> Level(b)] = Capacity
    BY <1>1, CapacityAssumption
  <1> QED BY <1>2 DEF Init, Ideal!AbstractInit

\* Every step of the limiter is a step of the abstract bucket or leaves it alone.
LEMMA StepMaps == IInv /\ [Next]_vars => [Ideal!AbstractNext]_(Ideal!abstractVars)
  <1> SUFFICES ASSUME IInv, [Next]_vars
               PROVE Ideal!AbstractNext \/ UNCHANGED Ideal!abstractVars
    OBVIOUS
  <1>1. CASE \E p \in Proc, b \in Bucket, c \in Cost : Call(p, b, c)
    <2>1. PICK p \in Proc, b \in Bucket, c \in Cost : Call(p, b, c)
      BY <1>1
    <2>2. pc[p] = "idle" /\ CostOK(b, c) /\ now' = now
      BY <2>1 DEF Call
    <2>3. CASE ~MustQueue(b)
      BY <2>1, <2>2, <2>3, CallIsInside, LoopBodyDraws DEF Call
    <2>4. CASE MustQueue(b)
      BY <2>1, <2>4, Invisible DEF Call
    <2> QED BY <2>3, <2>4
  <1>2. CASE \E p \in Proc : EnterLock(p)
    <2>1. PICK p \in Proc : EnterLock(p)
      BY <1>2
    <2>2. pc[p] = "woken" /\ bucket[p] \in Bucket /\ now' = now
      BY <2>1 DEF EnterLock, IInv, TypeOK
    <2> QED BY <2>1, <2>2, EnterLockIsInside, LoopBodyDraws DEF EnterLock
  <1>3. CASE \E p \in Proc : Wake(p)
    <2>1. PICK p \in Proc : Wake(p)
      BY <1>3
    <2>2. pc[p] = "sleeping" /\ bucket[p] \in Bucket /\ now' = now
      BY <2>1 DEF Wake, IInv, TypeOK
    <2> QED BY <2>1, <2>2, WakeIsInside, LoopBodyDraws DEF Wake
  <1>4. CASE \E b \in Bucket : Observe(b)
    <2>1. PICK b \in Bucket : Observe(b)
      BY <1>4
    <2>2. Level(b) \in 0..Capacity[b]
      BY LevelInRange DEF IInv
    <2>3. \A a \in Bucket : Level(a)' = Level(a)
      BY <2>1, <2>2, LevelAfterWrite DEF Observe
    <2>4. [a \in Bucket |-> Level(a)]' = [a \in Bucket |-> Level(a)]
      BY <2>3
    <2> QED BY <2>1, <2>4 DEF Observe, Ideal!abstractVars
  <1>5. CASE Tick
    BY <1>5, TickPours DEF Ideal!AbstractNext
  <1>6. CASE UNCHANGED <<now, bucketVars>>
    BY <1>6, Invisible
  <1>7. ASSUME NEW p \in Proc, CancelWaiter(p) PROVE UNCHANGED <<now, bucketVars>>
    BY <1>7 DEF CancelWaiter, Leave
  <1>8. ASSUME NEW p \in Proc, CancelSleeper(p) PROVE UNCHANGED <<now, bucketVars>>
    BY <1>8 DEF CancelSleeper, Leave
  <1>9. ASSUME NEW p \in Proc, NEW b \in Bucket, NEW c \in Cost, Reject(p, b, c)
        PROVE UNCHANGED <<now, bucketVars>>
    BY <1>9 DEF Reject
  <1>10. UNCHANGED vars => UNCHANGED <<now, bucketVars>>
    BY DEF vars
  <1> QED BY <1>1, <1>2, <1>3, <1>4, <1>5, <1>6, <1>7, <1>8, <1>9, <1>10 DEF Next

\* Coroutines that refill lazily, sleep and queue behave, all together, like
\* buckets that refill by themselves and are drawn on only for what they hold.
THEOREM LimiterImplementsBucket == Spec => ImplementsTokenBucket
  BY InvariantHolds, InitMaps, StepMaps, PTL DEF Spec, ImplementsTokenBucket, Ideal!AbstractSpec

\* The theorems about TokenBucket, of the bucket the limiter implements.
IdealProofs == INSTANCE TokenBucketProofs WITH level <- [b \in Bucket |-> Level(b)]

\* They are about the same specification.
LEMMA SameIdeal ==
  /\ Ideal!AbstractInit => IdealProofs!AbstractInit
  /\ [Ideal!AbstractNext]_(Ideal!abstractVars)
       => [IdealProofs!AbstractNext]_(IdealProofs!abstractVars)
  /\ IdealProofs!BucketInv => Ideal!Bounded /\ Ideal!Budget
  BY DEF Ideal!AbstractInit, IdealProofs!AbstractInit, Ideal!AbstractNext,
         IdealProofs!AbstractNext, Ideal!abstractVars, IdealProofs!abstractVars, Ideal!Pour,
         IdealProofs!Pour, Ideal!Draw, IdealProofs!Draw, Ideal!AtMost, IdealProofs!AtMost,
         IdealProofs!BucketInv, IdealProofs!Bounded, IdealProofs!Budget, Ideal!Bounded,
         Ideal!Budget

\* What the exchange enforces, the limiter keeps: over any prefix of a run no more
\* is consumed of a bucket than its burst and what its rate has earned since
\* (ratelimit.py:8-13, 134-150), for any rates, bursts and callers.
THEOREM LimiterKeepsBudget == Spec => [](Ideal!Bounded /\ Ideal!Budget)
  <1>1. Init => IdealProofs!BucketInv
    BY InitMaps, SameIdeal, IdealProofs!BucketInit, RateAssumption, CapacityAssumption
  <1>2. IInv /\ IdealProofs!BucketInv /\ [Next]_vars => IdealProofs!BucketInv'
    BY StepMaps, SameIdeal, IdealProofs!BucketNext, RateAssumption, CapacityAssumption
  <1>3. IdealProofs!BucketInv => Ideal!Bounded /\ Ideal!Budget
    BY SameIdeal
  <1> QED BY <1>1, <1>2, <1>3, InvariantHolds, PTL DEF Spec

--------------------------------------------------------------------------------
(* Timers *)

\* The timer of one sleeper, in numbers: the bucket held tk at up, it is now nw,
\* and the timer is set for wk.
Exact(tk, up, nw, wk, c, r) ==
    LET at(t) == tk + (t - up) * r
        latest == wk + EarlyWake
        due == IF nw <= latest THEN latest ELSE nw
    IN  at(due) >= c /\ at(wk - 1) < c

\* Products of a tick count.
LEMMA Ticks ==
  ASSUME NEW r \in Nat, NEW m \in Int, NEW n \in Int
  PROVE  /\ m * r \in Int /\ n * r \in Int /\ (m + n) * r = m * r + n * r
         /\ m <= n => m * r <= n * r
  OBVIOUS

\* Before a timer is due, its moment is the latest it may fire.
LEMMA ExactWhenEarly ==
  ASSUME NEW tk \in Int, NEW up \in Int, NEW nw \in Int, NEW wk \in Int, NEW c \in Int,
         NEW r \in Int, nw <= wk + EarlyWake, tk + (wk + EarlyWake - up) * r >= c,
         tk + (wk - 1 - up) * r < c
  PROVE  Exact(tk, up, nw, wk, c, r)
  BY BoundsAssumption DEF Exact

\* A timer just set is exact.
LEMMA FreshTimer ==
  ASSUME NEW lv \in Int, NEW nw \in Nat, NEW c \in Int, NEW r \in Nat \ {0},
         NEW early \in 0..EarlyWake, lv < c,
         early < (c - lv + r - 1) \div r
  PROVE  Exact(lv, nw, nw, nw + (c - lv + r - 1) \div r - early, c, r)
  <1> DEFINE n == c - lv + r - 1
             d == n \div r
             m == n % r
             wk == nw + d - early
  <1>1. /\ n \in Int /\ d \in Int /\ m \in Int /\ 0 <= m /\ m < r /\ n = r * d + m
        /\ r * d = d * r /\ EarlyWake \in Nat /\ early \in Nat /\ early <= EarlyWake
        /\ early < d /\ d * r \in Int
    BY BoundsAssumption
  <1>2. n = c - lv + r - 1
    OBVIOUS
  <1>3. wk = nw + d - early
    OBVIOUS
  <1> HIDE DEF n, d, m, wk
  <1>4. lv + d * r >= c /\ lv + d * r <= c + r - 1
    BY <1>1, <1>2
  <1>5. nw <= wk + EarlyWake /\ wk + EarlyWake - nw \in Int /\ wk - 1 - nw \in Int
    BY <1>1, <1>3
  <1>6. lv + (wk + EarlyWake - nw) * r >= c
    <2>1. d <= wk + EarlyWake - nw
      BY <1>1, <1>3
    <2>2. d * r <= (wk + EarlyWake - nw) * r /\ (wk + EarlyWake - nw) * r \in Int
      BY <1>1, <1>5, <2>1, Ticks
    <2> QED BY <1>1, <1>4, <2>2
  <1>7. lv + (wk - 1 - nw) * r < c
    <2>1. wk - 1 - nw <= d - 1 /\ d - 1 \in Int
      BY <1>1, <1>3
    <2>2. (wk - 1 - nw) * r <= (d - 1) * r /\ (wk - 1 - nw) * r \in Int
      BY <1>5, <2>1, Ticks
    <2>3. (d - 1) * r = d * r - r
      BY <1>1
    <2> QED BY <1>1, <1>4, <2>2, <2>3
  <1>8. Exact(lv, nw, nw, wk, c, r)
    <2>1. wk \in Int /\ nw \in Int /\ r \in Int
      BY <1>1, <1>3
    <2> QED BY <1>5, <1>6, <1>7, <2>1, ExactWhenEarly
  <1> QED BY <1>8 DEF wk, d, n

\* It stays exact as time passes.
LEMMA TimerLater ==
  ASSUME NEW tk \in Int, NEW up \in Nat, NEW nw \in Nat, NEW wk \in Nat, NEW c \in Int,
         NEW r \in Nat, Exact(tk, up, nw, wk, c, r)
  PROVE  Exact(tk, up, nw + 1, wk, c, r)
  <1> DEFINE latest == wk + EarlyWake
             due == IF nw <= latest THEN latest ELSE nw
             then == IF nw + 1 <= latest THEN latest ELSE nw + 1
  <1>1. due \in Int /\ then \in Int /\ due <= then
    BY BoundsAssumption
  <1>2. tk + (due - up) * r >= c /\ tk + (wk - 1 - up) * r < c
    BY DEF Exact
  <1> HIDE DEF due, then
  <1>3. (due - up) * r <= (then - up) * r /\ (due - up) * r \in Int /\ (then - up) * r \in Int
    <2>1. due - up \in Int /\ then - up \in Int /\ due - up <= then - up
      BY <1>1
    <2> QED BY <2>1, Ticks
  <1>4. tk + (then - up) * r >= c
    BY <1>2, <1>3
  <1> QED BY <1>2, <1>4 DEF Exact, then

\* And when its bucket is refilled, even to the brim.
LEMMA TimerRefilled ==
  ASSUME NEW tk \in Int, NEW up \in Nat, NEW nw \in Nat, NEW wk \in Nat, NEW c \in Int,
         NEW r \in Nat, NEW cap \in Nat, c <= cap, up <= nw, Exact(tk, up, nw, wk, c, r)
  PROVE  Exact(AtMost(cap, tk + (nw - up) * r), nw, nw, wk, c, r)
  <1> DEFINE latest == wk + EarlyWake
             due == IF nw <= latest THEN latest ELSE nw
             lv == AtMost(cap, tk + (nw - up) * r)
  <1>1. due \in Int /\ nw <= due
    BY BoundsAssumption
  <1>2. tk + (due - up) * r >= c /\ tk + (wk - 1 - up) * r < c
    BY DEF Exact
  <1>3. lv = IF tk + (nw - up) * r <= cap THEN tk + (nw - up) * r ELSE cap
    BY DEF AtMost
  <1>4. due = IF nw <= wk + EarlyWake THEN wk + EarlyWake ELSE nw
    OBVIOUS
  <1> HIDE DEF due, lv
  <1>5. /\ nw - up \in Int /\ due - nw \in Int /\ wk - 1 - nw \in Int
        /\ due - up = (due - nw) + (nw - up) /\ wk - 1 - up = (wk - 1 - nw) + (nw - up)
        /\ 0 <= due - nw
    BY <1>1
  <1>6. /\ (due - nw) * r \in Int /\ (nw - up) * r \in Int /\ (wk - 1 - nw) * r \in Int
        /\ (due - up) * r = (due - nw) * r + (nw - up) * r
        /\ (wk - 1 - up) * r = (wk - 1 - nw) * r + (nw - up) * r
    BY <1>5, Ticks
  <1>7. 0 <= (due - nw) * r
    BY <1>5
  <1>8. lv + (due - nw) * r >= c /\ lv + (wk - 1 - nw) * r < c
    BY <1>2, <1>3, <1>6, <1>7
  <1> QED BY <1>4, <1>8 DEF Exact, lv

\* The timer of p, in state variables.
TimerExact(p) ==
    Exact(tokens[bucket[p]], updated[bucket[p]], now, wakeAt[p], cost[p], Rate[bucket[p]])

\* Every sleeper's timer is exact.
LEMMA ExactTimers == SleepsExactly <=> \A p \in Proc : pc[p] = "sleeping" => TimerExact(p)
  BY DEF SleepsExactly, TimerExact, Exact

\* A sleeper whose bucket, call and timer a step leaves alone.
LEMMA UntouchedTimer ==
  ASSUME NEW p \in Proc, NEW b, bucket[p] = b, bucket'[p] = b, TimerExact(p),
         tokens'[b] = tokens[b], updated'[b] = updated[b], now' = now,
         wakeAt'[p] = wakeAt[p], cost'[p] = cost[p]
  PROVE  TimerExact(p)'
  BY DEF TimerExact, Exact

\* A pass of the loop sets one timer, exactly, and leaves the sleepers of other
\* buckets alone; in its own bucket nobody else sleeps.
LEMMA LoopBodyTimers ==
  ASSUME IInv, SleepsExactly, NEW p \in Proc, NEW b \in Bucket, NEW c, NEW w, NEW waiters,
         Inside(p, b, c, w, waiters), Called(p, b, c), LoopBody(p, b, c, w, waiters)
  PROVE  SleepsExactly'
  <1>1. TypeOK /\ OwnerSleeps /\ NoOverdraw /\ RefillPast
    BY DEF IInv, LockDiscipline
  <1>2. SUFFICES ASSUME NEW q \in Proc, pc'[q] = "sleeping" PROVE TimerExact(q)'
    <2>1. SleepsExactly' <=> \A q \in Proc : pc'[q] = "sleeping" => TimerExact(q)'
      BY DEF SleepsExactly, TimerExact, Exact
    <2> QED BY <2>1
  <1>3. /\ bucket' = [bucket EXCEPT ![p] = b] /\ cost' = [cost EXCEPT ![p] = c]
        /\ now' = now
    BY DEF Called
  <1>4. CASE q = p
    <2>1. Sleep(p, b, c, w, waiters)
      BY <1>1, <1>2, <1>4 DEF LoopBody, Grant, TypeOK
    <2>2. PICK early \in 0..EarlyWake :
            early < Delay(b, c) /\ wakeAt' = [wakeAt EXCEPT ![p] = now + Delay(b, c) - early]
      BY <2>1 DEF Sleep
    <2>3. Level(b) \in Int /\ now \in Nat /\ c \in Int /\ Rate[b] \in Nat \ {0}
      <3>1. now \in Nat /\ c \in Int /\ Rate[b] \in Nat \ {0}
        BY <1>1, RateAssumption DEF TypeOK, Inside
      <3>2. Level(b) \in Int
        BY <1>1, LevelInRange
      <3> QED BY <3>1, <3>2
    <2>4. Level(b) < c
      BY <2>1, <2>3 DEF Sleep, Enough
    <2>5. /\ Delay(b, c) = (c - Level(b) + Rate[b] - 1) \div Rate[b]
          /\ early < (c - Level(b) + Rate[b] - 1) \div Rate[b]
      BY <2>2 DEF Delay
    <2>6. Exact(Level(b), now, now, now + (c - Level(b) + Rate[b] - 1) \div Rate[b] - early,
                c, Rate[b])
      BY <2>2, <2>3, <2>4, <2>5, FreshTimer
    <2>7. /\ tokens'[b] = Level(b) /\ updated'[b] = now /\ bucket'[p] = b /\ cost'[p] = c
          /\ wakeAt'[p] = now + (c - Level(b) + Rate[b] - 1) \div Rate[b] - early
      BY <1>1, <1>3, <2>1, <2>2, <2>5 DEF Sleep, TypeOK
    <2> QED BY <1>3, <1>4, <2>6, <2>7 DEF TimerExact
  <1>5. CASE q # p
    <2>1. WakeFirst(waiters) \subseteq ToSet(waiters)
      BY WokenIsFirst DEF Inside
    <2>2. pc[q] = "sleeping" /\ wakeAt'[q] = wakeAt[q]
      BY <1>1, <1>2, <1>5, <2>1 DEF LoopBody, Grant, Sleep, Inside, TypeOK
    <2>3. owner[bucket[q]] = q /\ bucket[q] \in Bucket
      BY <1>1, <2>2 DEF OwnerSleeps, TypeOK
    <2>4. bucket[q] # b
      BY <1>5, <2>3, NoProcAssumption DEF Inside
    <2>5. /\ tokens'[bucket[q]] = tokens[bucket[q]] /\ updated'[bucket[q]] = updated[bucket[q]]
          /\ bucket'[q] = bucket[q] /\ cost'[q] = cost[q]
      BY <1>1, <1>3, <1>5, <2>3, <2>4 DEF LoopBody, Grant, Sleep, TypeOK
    <2>6. TimerExact(q)
      BY <2>2, ExactTimers
    <2> QED BY <1>3, <2>2, <2>5, <2>6, UntouchedTimer
  <1> QED BY <1>4, <1>5

\* A step that leaves time, the buckets and the sleepers' timers alone.
LEMMA BystanderTimers ==
  ASSUME SleepsExactly, UNCHANGED <<now, tokens, updated>>,
         \A p \in Proc : pc'[p] = "sleeping" =>
           /\ pc[p] = "sleeping" /\ wakeAt'[p] = wakeAt[p]
           /\ bucket'[p] = bucket[p] /\ cost'[p] = cost[p]
  PROVE  SleepsExactly'
  <1>1. SUFFICES ASSUME NEW p \in Proc, pc'[p] = "sleeping" PROVE TimerExact(p)'
    <2>1. SleepsExactly' <=> \A q \in Proc : pc'[q] = "sleeping" => TimerExact(q)'
      BY DEF SleepsExactly, TimerExact, Exact
    <2> QED BY <2>1
  <1>2. TimerExact(p)
    BY <1>1, ExactTimers
  <1> QED BY <1>1, <1>2, UntouchedTimer

\* Looking at a bucket refills it: its sleeper's timer is still exact.
LEMMA ObserveTimers ==
  ASSUME IInv, SleepsExactly, NEW b \in Bucket, Observe(b)
  PROVE  SleepsExactly'
  <1>1. TypeOK /\ RefillPast /\ CallsFit
    BY DEF IInv
  <1>2. /\ tokens' = [tokens EXCEPT ![b] = Level(b)] /\ updated' = [updated EXCEPT ![b] = now]
        /\ UNCHANGED <<now, pc, bucket, cost, wakeAt>>
    BY DEF Observe, callVars
  <1>3. SUFFICES ASSUME NEW p \in Proc, pc'[p] = "sleeping" PROVE TimerExact(p)'
    <2>1. SleepsExactly' <=> \A q \in Proc : pc'[q] = "sleeping" => TimerExact(q)'
      BY DEF SleepsExactly, TimerExact, Exact
    <2> QED BY <2>1
  <1>4. TimerExact(p) /\ bucket[p] \in Bucket /\ pc[p] = "sleeping"
    BY <1>1, <1>2, <1>3, ExactTimers DEF TypeOK
  <1>5. CASE bucket[p] # b
    <2>1. tokens'[bucket[p]] = tokens[bucket[p]] /\ updated'[bucket[p]] = updated[bucket[p]]
      BY <1>1, <1>2, <1>4, <1>5 DEF TypeOK
    <2> QED BY <1>2, <1>4, <2>1, UntouchedTimer
  <1>6. CASE bucket[p] = b
    <2>1. Exact(tokens[b], updated[b], now, wakeAt[p], cost[p], Rate[b])
      BY <1>4, <1>6 DEF TimerExact
    <2>2. /\ tokens[b] \in Int /\ updated[b] \in Nat /\ now \in Nat /\ wakeAt[p] \in Nat
          /\ cost[p] \in Int /\ Rate[b] \in Nat /\ Capacity[b] \in Nat /\ updated[b] <= now
      BY <1>1, Parameters DEF TypeOK, RefillPast
    <2>3. cost[p] <= Capacity[b]
      BY <1>1, <1>4, <1>6 DEF CallsFit, CostOK, CostFits
    <2>4. Exact(AtMost(Capacity[b], tokens[b] + (now - updated[b]) * Rate[b]),
                now, now, wakeAt[p], cost[p], Rate[b])
      BY <2>1, <2>2, <2>3, TimerRefilled
    <2>5. tokens'[b] = Level(b) /\ updated'[b] = now
      BY <1>1, <1>2 DEF TypeOK
    <2> QED BY <1>2, <1>6, <2>4, <2>5 DEF TimerExact, Level
  <1> QED BY <1>5, <1>6

\* Time passing leaves timers exact.
LEMMA TickTimers ==
  ASSUME IInv, SleepsExactly, Tick
  PROVE  SleepsExactly'
  <1>1. TypeOK
    BY DEF IInv
  <1>2. now' = now + 1 /\ UNCHANGED <<tokens, updated, pc, bucket, cost, wakeAt>>
    BY DEF Tick, bucketVars, callVars
  <1>3. SUFFICES ASSUME NEW p \in Proc, pc'[p] = "sleeping" PROVE TimerExact(p)'
    <2>1. SleepsExactly' <=> \A q \in Proc : pc'[q] = "sleeping" => TimerExact(q)'
      BY DEF SleepsExactly, TimerExact, Exact
    <2> QED BY <2>1
  <1>4. TimerExact(p) /\ bucket[p] \in Bucket
    BY <1>1, <1>2, <1>3, ExactTimers DEF TypeOK
  <1>5. /\ tokens[bucket[p]] \in Int /\ updated[bucket[p]] \in Nat /\ now \in Nat
        /\ wakeAt[p] \in Nat /\ cost[p] \in Int /\ Rate[bucket[p]] \in Nat
    BY <1>1, <1>4, Parameters DEF TypeOK
  <1>6. Exact(tokens[bucket[p]], updated[bucket[p]], now + 1, wakeAt[p], cost[p],
              Rate[bucket[p]])
    BY <1>4, <1>5, TimerLater DEF TimerExact
  <1> QED BY <1>2, <1>6 DEF TimerExact

\* A call sets a timer or joins the line.
LEMMA CallTimers ==
  ASSUME IInv, SleepsExactly, NEW p \in Proc, NEW b \in Bucket, NEW c \in Cost, Call(p, b, c)
  PROVE  SleepsExactly'
  <1>1. TypeOK /\ pc[p] = "idle" /\ CostOK(b, c)
    BY DEF IInv, Call
  <1>2. Called(p, b, c)
    BY <1>1 DEF Call, Called, TypeOK
  <1>3. CASE ~MustQueue(b)
    BY <1>1, <1>2, <1>3, CallIsInside, LoopBodyTimers DEF Call
  <1>4. CASE MustQueue(b)
    <2>1. /\ pc' = [pc EXCEPT ![p] = "queued"] /\ UNCHANGED <<now, tokens, updated, wakeAt>>
          /\ bucket' = [bucket EXCEPT ![p] = b] /\ cost' = [cost EXCEPT ![p] = c]
      BY <1>4 DEF Call, bucketVars
    <2>2. \A q \in Proc : pc'[q] = "sleeping" =>
            /\ pc[q] = "sleeping" /\ wakeAt'[q] = wakeAt[q]
            /\ bucket'[q] = bucket[q] /\ cost'[q] = cost[q]
      BY <1>1, <2>1 DEF TypeOK
    <2> QED BY <2>1, <2>2, BystanderTimers
  <1> QED BY <1>3, <1>4

\* Every step keeps every timer exact.
LEMMA NextTimers == IInv /\ SleepsExactly /\ [Next]_vars => SleepsExactly'
  <1> SUFFICES ASSUME IInv, SleepsExactly, [Next]_vars PROVE SleepsExactly'
    OBVIOUS
  <1>1. CASE \E p \in Proc, b \in Bucket, c \in Cost : Call(p, b, c)
    BY <1>1, CallTimers
  <1>2. ASSUME NEW p \in Proc, EnterLock(p) PROVE SleepsExactly'
    <2>1. TypeOK /\ pc[p] = "woken" /\ UNCHANGED <<now, callVars>>
      BY <1>2 DEF IInv, EnterLock
    <2> QED BY <1>2, <2>1, StillCalled, EnterLockIsInside, LoopBodyTimers DEF EnterLock
  <1>3. ASSUME NEW p \in Proc, Wake(p) PROVE SleepsExactly'
    <2>1. TypeOK /\ pc[p] = "sleeping" /\ UNCHANGED <<now, callVars>>
      BY <1>3 DEF IInv, Wake
    <2> QED BY <1>3, <2>1, StillCalled, WakeIsInside, LoopBodyTimers DEF Wake
  <1>4. ASSUME NEW p \in Proc, NEW b, NEW waiters, NEW next, TypeOK,
               Leave(p, b, waiters, next)
        PROVE  SleepsExactly'
    <2>1. /\ UNCHANGED <<now, tokens, updated, bucket, cost>>
          /\ pc' = [q \in Proc |-> IF q = p THEN "idle"
                                   ELSE IF q \in next THEN "woken" ELSE pc[q]]
          /\ wakeAt' = [q \in Proc |-> IF q \in next /\ pc[q] = "queued" THEN now
                                       ELSE wakeAt[q]]
      BY <1>4 DEF Leave, bucketVars, callVars
    <2>2. \A q \in Proc : pc'[q] = "sleeping" =>
            /\ pc[q] = "sleeping" /\ wakeAt'[q] = wakeAt[q]
            /\ bucket'[q] = bucket[q] /\ cost'[q] = cost[q]
      BY <2>1
    <2> QED BY <2>1, <2>2, BystanderTimers
  <1>5. CASE \E p \in Proc : CancelWaiter(p)
    BY <1>4, <1>5 DEF IInv, CancelWaiter
  <1>6. CASE \E p \in Proc : CancelSleeper(p)
    BY <1>4, <1>6 DEF IInv, CancelSleeper
  <1>7. CASE \E b \in Bucket : Observe(b)
    BY <1>7, ObserveTimers
  <1>8. CASE Tick
    BY <1>8, TickTimers
  <1>9. ASSUME UNCHANGED <<now, tokens, updated, pc, bucket, cost, wakeAt>>
        PROVE  SleepsExactly'
    BY <1>9, BystanderTimers
  <1>10. CASE \E p \in Proc, b \in Bucket, c \in Cost : Reject(p, b, c)
    BY <1>9, <1>10 DEF Reject, bucketVars, callVars
  <1>11. CASE UNCHANGED vars
    BY <1>9, <1>11 DEF vars, bucketVars, callVars
  <1> QED BY <1>1, <1>2, <1>3, <1>5, <1>6, <1>7, <1>8, <1>10, <1>11 DEF Next

\* wait_time() is neither short, which would spin, nor long: a sleeper's timer is
\* due when its bucket holds the cost and not a tick later, whoever refills the
\* bucket meanwhile and however late it wakes (ratelimit.py:75-80, 119-122,
\* 144-150), for any rates, bursts, costs and timers.
THEOREM TimersAreExact == Spec => []SleepsExactly
  <1>1. Init => SleepsExactly
    BY DEF Init, SleepsExactly
  <1> QED BY <1>1, NextTimers, InvariantHolds, PTL DEF Spec

--------------------------------------------------------------------------------
(* First come, first served *)

\* Whoever is behind the owner of a lock is the rest of its line.
LEMMA RestOfLine ==
  ASSUME NEW s \in Seq(Proc), NEW p \in Proc
  PROVE  <<p>> \o s # <<>> /\ Tail(<<p>> \o s) = s
  <1> DEFINE l == <<p>> \o s
  <1>1. /\ l \in Seq(Proc) /\ Len(l) = 1 + Len(s) /\ Len(s) \in Nat
        /\ \A i \in 1..1 + Len(s) : l[i] = IF i <= 1 THEN p ELSE s[i - 1]
    BY ConcatProperties
  <1> HIDE DEF l
  <1>2. l # <<>>
    BY <1>1
  <1>3. /\ Tail(l) \in Seq(Proc) /\ Len(Tail(l)) = Len(s)
        /\ \A i \in 1..Len(Tail(l)) : Tail(l)[i] = l[i + 1]
    BY <1>1, <1>2, HeadTailProperties
  <1>4. \A i \in 1..Len(s) : Tail(l)[i] = s[i]
    BY <1>1, <1>3
  <1>5. Tail(l) = s
    BY <1>3, <1>4
  <1> QED BY <1>2, <1>5 DEF l

\* Only a grant consumes, and only of its bucket; it leaves the line behind.
LEMMA LoopBodySpends ==
  ASSUME TypeOK, NEW p \in Proc, NEW b \in Bucket, NEW c, NEW w, NEW waiters,
         LoopBody(p, b, c, w, waiters), NEW a \in Bucket, spent'[a] # spent[a]
  PROVE  a = b /\ Line(b)' = waiters
  <1>1. Grant(p, b, c, w, waiters)
    BY DEF LoopBody, Sleep
  <1> QED BY <1>1 DEF Grant, TypeOK, Line

\* The step of FifoService.
Served(b) ==
    spent'[b] # spent[b] =>
        IF Line(b) = <<>> THEN Line(b)' = <<>> ELSE Line(b)' = Tail(Line(b))

\* A caller that does not queue finds nobody in line, a woken waiter is first in
\* line, and a sleeper owns the lock.
LEMMA NextServes == IInv /\ [Next]_vars => \A b \in Bucket : Served(b)
  <1> SUFFICES ASSUME IInv, [Next]_vars, NEW a \in Bucket, spent'[a] # spent[a]
               PROVE  IF Line(a) = <<>> THEN Line(a)' = <<>> ELSE Line(a)' = Tail(Line(a))
    BY DEF Served
  <1>1. TypeOK /\ OwnerSleeps
    BY DEF IInv, LockDiscipline
  <1>2. ASSUME NEW p \in Proc, NEW b \in Bucket, NEW c \in Cost, Call(p, b, c)
        PROVE  Line(a) = <<>> /\ Line(a)' = <<>>
    <2>1. ~MustQueue(b) /\ LoopBody(p, b, c, 0, <<>>)
      BY <1>2 DEF Call, bucketVars
    <2> QED BY <1>1, <2>1, LoopBodySpends DEF MustQueue
  <1>3. ASSUME NEW p \in Proc, EnterLock(p)
        PROVE  Line(a) # <<>> /\ Line(a)' = Tail(Line(a))
    <2>0. PICK b \in Bucket : b = bucket[p]
      BY <1>1 DEF TypeOK
    <2>1. /\ queue[b] \in Seq(Proc) /\ pc[p] = "woken"
          /\ LoopBody(p, b, cost[p], waited[p], Tail(queue[b]))
      BY <1>1, <1>3, <2>0 DEF EnterLock, TypeOK
    <2>2. a = b /\ Line(b)' = Tail(queue[b])
      <3>1. PICK waiters : waiters = Tail(queue[b])
        OBVIOUS
      <3>2. LoopBody(p, b, cost[p], waited[p], waiters)
        BY <2>1, <3>1
      <3>3. a = b /\ Line(b)' = waiters
        BY <1>1, <3>2, LoopBodySpends
      <3> QED BY <3>1, <3>3
    <2>3. owner[b] = NoProc
      <3>1. Inside(p, b, cost[p], waited[p], Tail(queue[b]))
        BY <2>0, <2>1, EnterLockIsInside
      <3>2. owner[b] # p
        BY <1>1, <2>1 DEF OwnerSleeps
      <3> QED BY <3>1, <3>2 DEF Inside
    <2>4. queue[b] # <<>>
      <3>1. p \in ToSet(queue[b])
        BY <2>0, <2>1 DEF IInv, LockDiscipline, WaitersInLine
      <3> QED BY <3>1 DEF ToSet
    <2>5. Line(b) = queue[b]
      BY <2>3 DEF Line
    <2> QED BY <2>2, <2>4, <2>5, Zenon
  <1>4. ASSUME NEW p \in Proc, Wake(p)
        PROVE  Line(a) # <<>> /\ Line(a)' = Tail(Line(a))
    <2>0. PICK b \in Bucket : b = bucket[p]
      BY <1>1 DEF TypeOK
    <2>1. /\ queue[b] \in Seq(Proc) /\ pc[p] = "sleeping"
          /\ LoopBody(p, b, cost[p], waited[p], queue[b])
      BY <1>1, <1>4, <2>0 DEF Wake, TypeOK
    <2>2. a = b /\ Line(b)' = queue[b]
      BY <1>1, <2>1, LoopBodySpends
    <2>3. owner[b] = p
      BY <1>1, <2>0, <2>1 DEF OwnerSleeps
    <2>4. Line(b) = <<p>> \o queue[b]
      BY <2>3, NoProcAssumption DEF Line
    <2>5. Line(b) # <<>> /\ Tail(Line(b)) = queue[b]
      BY <2>1, <2>4, RestOfLine
    <2> QED BY <2>2, <2>5, Zenon
  <1>5. spent' # spent
    OBVIOUS
  <1>6. ASSUME NEW p \in Proc, CancelWaiter(p) \/ CancelSleeper(p) PROVE FALSE
    BY <1>5, <1>6 DEF CancelWaiter, CancelSleeper, Leave, bucketVars
  <1>7. ~Tick /\ ~UNCHANGED vars
    BY <1>5 DEF Tick, vars, bucketVars
  <1>8. ASSUME NEW b \in Bucket, Observe(b) PROVE FALSE
    BY <1>5, <1>8 DEF Observe
  <1>9. ASSUME NEW p \in Proc, NEW b \in Bucket, NEW c \in Cost, Reject(p, b, c) PROVE FALSE
    BY <1>5, <1>9 DEF Reject, bucketVars
  <1> QED BY <1>2, <1>3, <1>4, <1>6, <1>7, <1>8, <1>9 DEF Next

\* Tokens go to callers in the order they called (ratelimit.py:139-150): whoever
\* draws on a bucket was first in its line, whatever cancellations there were.
THEOREM ServedInOrder == Spec => FifoService
  <1>1. IInv /\ [Next]_vars =>
          [\A b \in Bucket : spent'[b] # spent[b] =>
             IF Line(b) = <<>> THEN Line(b)' = <<>> ELSE Line(b)' = Tail(Line(b))]_vars
    BY NextServes DEF Served
  <1> QED BY <1>1, InvariantHolds, PTL DEF Spec, FifoService

--------------------------------------------------------------------------------
(* Buckets do not delay each other *)

\* Only a call starts to wait, and not for nothing.
LEMMA NextWaits ==
  ASSUME IInv, [Next]_vars, NEW p \in Proc, pc[p] = "idle", pc'[p] # "idle"
  PROVE  Line(bucket'[p]) # <<>> \/ Level(bucket'[p]) < cost'[p]
  <1>1. TypeOK /\ WaitersInLine
    BY DEF IInv, LockDiscipline
  <1>2. ASSUME NEW q \in Proc, NEW b \in Bucket, NEW c \in Cost, Call(q, b, c)
        PROVE  Line(bucket'[p]) # <<>> \/ Level(bucket'[p]) < cost'[p]
    <2>1. CASE MustQueue(b)
      <3>1. pc' = [pc EXCEPT ![q] = "queued"] /\ bucket' = [bucket EXCEPT ![q] = b]
        BY <1>2, <2>1 DEF Call
      <3>2. p = q /\ bucket'[p] = b
        BY <1>1, <3>1 DEF TypeOK
      <3> QED BY <2>1, <3>2 DEF MustQueue
    <2>2. CASE ~MustQueue(b)
      <3>1. /\ LoopBody(q, b, c, 0, <<>>) /\ bucket' = [bucket EXCEPT ![q] = b]
            /\ cost' = [cost EXCEPT ![q] = c]
        BY <1>2, <2>2 DEF Call
      <3>2. Sleep(q, b, c, 0, <<>>)
        <4>1. ~Grant(q, b, c, 0, <<>>)
          BY <1>1 DEF Grant, WakeFirst, TypeOK
        <4> QED BY <3>1, <4>1 DEF LoopBody
      <3>3. p = q /\ bucket'[p] = b /\ cost'[p] = c
        BY <1>1, <3>1, <3>2 DEF Sleep, TypeOK
      <3>4. ~(Level(b) >= c)
        BY <3>2 DEF Sleep, Enough
      <3>5. Level(b) \in Int /\ c \in Int
        BY LevelInRange, Parameters, CostAssumption DEF IInv
      <3> QED BY <3>3, <3>4, <3>5
    <2> QED BY <2>1, <2>2
  <1>3. ASSUME NEW q \in Proc, NEW b, NEW c, NEW w, NEW waiters,
               Inside(q, b, c, w, waiters), pc[q] # "idle", LoopBody(q, b, c, w, waiters)
        PROVE  FALSE
    <2>1. WakeFirst(waiters) \subseteq ToSet(waiters)
      BY <1>3, WokenIsFirst DEF Inside
    <2>2. p \notin WakeFirst(waiters)
      BY <1>3, <2>1 DEF Inside
    <2> QED BY <1>1, <1>3, <2>2 DEF LoopBody, Grant, Sleep, TypeOK
  <1>4. ASSUME NEW q \in Proc, EnterLock(q) PROVE FALSE
    <2>1. pc[q] = "woken"
      BY <1>4 DEF EnterLock
    <2> QED BY <1>3, <1>4, <2>1, EnterLockIsInside DEF EnterLock
  <1>5. ASSUME NEW q \in Proc, Wake(q) PROVE FALSE
    <2>1. pc[q] = "sleeping"
      BY <1>5 DEF Wake
    <2> QED BY <1>3, <1>5, <2>1, WakeIsInside DEF Wake
  <1>6. ASSUME NEW q \in Proc, NEW waiters, NEW next, next \subseteq ToSet(queue[bucket[q]]),
               Leave(q, bucket[q], waiters, next)
        PROVE  FALSE
    <2>1. p \notin next
      BY <1>1, <1>6 DEF WaitersInLine, TypeOK
    <2> QED BY <1>1, <1>6, <2>1 DEF Leave, TypeOK
  <1>7. ASSUME NEW q \in Proc, CancelWaiter(q) PROVE FALSE
    <2> DEFINE s == queue[bucket[q]]
    <2>1. s \in Seq(Proc) /\ IsInjective(s)
      BY <1>1 DEF TypeOK, WaitersInLine
    <2>2. PICK i \in DOMAIN s :
            Leave(q, bucket[q], RemoveAt(s, i),
                  IF owner[bucket[q]] = NoProc THEN WakeFirst(RemoveAt(s, i)) ELSE {})
      BY <1>7 DEF CancelWaiter
    <2>3. RemoveAt(s, i) \in Seq(Proc) /\ ToSet(RemoveAt(s, i)) \subseteq ToSet(s)
      BY <2>1, RemoveFromQueue
    <2>4. WakeFirst(RemoveAt(s, i)) \subseteq ToSet(s)
      BY <2>3, WokenIsFirst
    <2> QED BY <1>6, <2>2, <2>4
  <1>8. ASSUME NEW q \in Proc, CancelSleeper(q) PROVE FALSE
    <2>1. queue[bucket[q]] \in Seq(Proc)
      BY <1>1 DEF TypeOK
    <2> QED BY <1>6, <1>8, <2>1, WokenIsFirst DEF CancelSleeper
  <1>9. pc' # pc
    OBVIOUS
  <1>10. /\ \A q \in Proc, b \in Bucket, c \in Cost : ~Reject(q, b, c)
         /\ \A b \in Bucket : ~Observe(b)
         /\ ~Tick /\ ~UNCHANGED vars
    BY <1>9 DEF Reject, Observe, Tick, vars
  <1> QED BY <1>2, <1>4, <1>5, <1>7, <1>8, <1>10 DEF Next

\* "a burst of market-data reads can never delay a cancel" (ratelimit.py:12-13): a
\* call waits only behind earlier callers of its own bucket, or for its tokens.
THEOREM OwnBucketOnly == Spec => WaitsOnlyForOwnBucket
  <1>1. IInv /\ [Next]_vars =>
          [\A p \in Proc : pc[p] = "idle" /\ pc'[p] # "idle" =>
             LET b == bucket'[p] IN Line(b) # <<>> \/ Level(b) < cost'[p]]_vars
    BY NextWaits
  <1> QED BY <1>1, InvariantHolds, PTL DEF Spec, WaitsOnlyForOwnBucket

================================================================================
