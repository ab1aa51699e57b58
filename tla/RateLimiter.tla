------------------------------ MODULE RateLimiter ------------------------------
(***************************************************************************)
(* api/ratelimit.py: two token buckets, one asyncio.Lock per bucket, and   *)
(* coroutines that call RateLimiter.acquire().                             *)
(*                                                                         *)
(* Coroutines interleave only where one awaits, so an action runs from one *)
(* await to the next: a call runs until it queues for the lock, sleeps or  *)
(* returns.  asyncio.Lock is first come first served: a release sets the   *)
(* future of the first waiter, which runs later ("woken"), and a newcomer  *)
(* takes the fast path only if the lock is free and nobody waits.          *)
(*                                                                         *)
(* Time is an integer clock.  Tokens are integers, Rate[b] of them per     *)
(* tick, and a sleep is the deficit over the rate rounded up to a tick.    *)
(***************************************************************************)
EXTENDS Integers, Sequences, SequencesExt

CONSTANTS
    Proc,           \* coroutines that call the limiter
    NoProc,         \* "nobody", as the owner of a free lock
    Bucket, Rate, Capacity,
    Cost,           \* token costs callers ask for, valid or not
    EarlyWake,      \* a timer may fire up to this many ticks early
    MaxLate,        \* a due coroutine runs at most this many ticks late
    LastCall,       \* bound: no call starts after this tick
    MaxTime         \* bound: the clock stops here

ASSUME NoProcAssumption == NoProc \notin Proc
ASSUME BucketAssumption == Bucket # {}
ASSUME RateAssumption == Rate \in [Bucket -> Nat \ {0}]
ASSUME CapacityAssumption == Capacity \in [Bucket -> Nat \ {0}]
ASSUME CostAssumption == Cost \subseteq Int
ASSUME BoundsAssumption ==
    /\ EarlyWake \in Nat /\ MaxLate \in Nat
    /\ LastCall \in Nat /\ MaxTime \in Nat

VARIABLES
    now,            \* time.monotonic()
    tokens,         \* _TokenBucket.tokens, as of the last refill
    updated,        \* _TokenBucket.updated, the time of the last refill
    owner,          \* the coroutine inside `async with` of each bucket
    queue,          \* the waiters of each bucket's lock
    pc,             \* where each coroutine is
    bucket, cost,   \* the arguments of its call
    wakeAt,         \* when its timer, or its turn for the lock, is due
    waited,         \* the local `waited` of acquire(), its result in the end
    calledAt,       \* history: when acquire() was called
    outcome,        \* history: how the last call ended
    spent           \* history: tokens consumed from each bucket

bucketVars == <<tokens, updated, spent>>
lockVars == <<owner, queue>>
callVars == <<bucket, cost, calledAt>>
vars == <<now, bucketVars, lockVars, pc, callVars, wakeAt, waited, outcome>>

PcStates == {"idle", "queued", "woken", "sleeping"}
Outcomes == {"none", "granted", "ValueError", "cancelled"}

TypeOK ==
    /\ now \in Nat
    /\ tokens \in [Bucket -> Int]
    /\ updated \in [Bucket -> Nat]
    /\ owner \in [Bucket -> Proc \union {NoProc}]
    /\ queue \in [Bucket -> Seq(Proc)]
    /\ pc \in [Proc -> PcStates]
    /\ bucket \in [Proc -> Bucket]
    /\ cost \in [Proc -> Nat]
    /\ wakeAt \in [Proc -> Nat]
    /\ waited \in [Proc -> Nat]
    /\ calledAt \in [Proc -> Nat]
    /\ outcome \in [Proc -> Outcomes]
    /\ spent \in [Bucket -> Nat]

Init ==
    /\ now = 0
    /\ tokens = Capacity
    /\ updated = [b \in Bucket |-> 0]
    /\ owner = [b \in Bucket |-> NoProc]
    /\ queue = [b \in Bucket |-> <<>>]
    /\ pc = [p \in Proc |-> "idle"]
    /\ bucket = [p \in Proc |-> CHOOSE b \in Bucket : TRUE]
    /\ cost = [p \in Proc |-> 0]
    /\ wakeAt = [p \in Proc |-> 0]
    /\ waited = [p \in Proc |-> 0]
    /\ calledAt = [p \in Proc |-> 0]
    /\ outcome = [p \in Proc |-> "none"]
    /\ spent = [b \in Bucket |-> 0]

--------------------------------------------------------------------------------
(* The bucket and the lock.  Here and below, a definition that is not used is *)
(* a mistake in the one that follows it, named for what it gets wrong: the    *)
(* properties are shown to notice it.                                         *)

AtMost(cap, n) == IF n <= cap THEN n ELSE cap

\* What _refill(now) leaves in the bucket.
LevelUncapped(b) == tokens[b] + (now - updated[b]) * Rate[b]
Level(b) == AtMost(Capacity[b], tokens[b] + (now - updated[b]) * Rate[b])

\* wait_time(): zero if the bucket holds c, or the ticks until it does.
EnoughNextTick(b, c) == Level(b) + Rate[b] >= c
Enough(b, c) == Level(b) >= c

DelayOfWholeCost(b, c) == (c + Rate[b] - 1) \div Rate[b]
Delay(b, c) == (c - Level(b) + Rate[b] - 1) \div Rate[b]

CostFits(b, c) == c <= Capacity[b]
CostPositive(b, c) == c > 0
CostOK(b, c) == CostPositive(b, c) /\ CostFits(b, c)

\* Everybody in, or in line for, the `async with` of bucket b, in order.
Line(b) == IF owner[b] = NoProc THEN queue[b] ELSE <<owner[b]>> \o queue[b]

\* asyncio.Lock.acquire() queues unless the lock is free and nobody waits.
MustQueueIfHeld(b) == owner[b] # NoProc
MustQueueForAny(b) == \E a \in Bucket : Line(a) # <<>>
MustQueue(b) == Line(b) # <<>>

\* asyncio.Lock wakes the first waiter of a lock that is free.
WakeNobody(waiters) == {}
WakeFirst(waiters) ==
    IF waiters = <<>> THEN {} ELSE {Head(waiters)}

--------------------------------------------------------------------------------
(* acquire() *)

\* The loop body found the tokens: consume them, leave the lock, return.
Grant(p, b, c, w, waiters) ==
    /\ Enough(b, c)
    /\ tokens' = [tokens EXCEPT ![b] = Level(b) - c]
    /\ updated' = [updated EXCEPT ![b] = now]
    /\ spent' = [spent EXCEPT ![b] = @ + c]
    /\ owner' = [owner EXCEPT ![b] = NoProc]
    /\ queue' = [queue EXCEPT ![b] = waiters]
    /\ pc' = [q \in Proc |-> IF q = p THEN "idle"
                             ELSE IF q \in WakeFirst(waiters) THEN "woken" ELSE pc[q]]
    /\ wakeAt' = [q \in Proc |-> IF q \in WakeFirst(waiters) THEN now ELSE wakeAt[q]]
    /\ waited' = [waited EXCEPT ![p] = w]
    /\ outcome' = [outcome EXCEPT ![p] = "granted"]

\* The loop body found too few: refill and sleep, holding the lock.
Sleep(p, b, c, w, waiters) ==
    /\ ~Enough(b, c)
    /\ tokens' = [tokens EXCEPT ![b] = Level(b)]
    /\ updated' = [updated EXCEPT ![b] = now]
    /\ owner' = [owner EXCEPT ![b] = p]
    /\ queue' = [queue EXCEPT ![b] = waiters]
    /\ pc' = [pc EXCEPT ![p] = "sleeping"]
    /\ \E early \in 0..EarlyWake :
         /\ early < Delay(b, c)
         /\ wakeAt' = [wakeAt EXCEPT ![p] = now + Delay(b, c) - early]
    /\ waited' = [waited EXCEPT ![p] = w + Delay(b, c)]
    /\ outcome' = [outcome EXCEPT ![p] = "none"]
    /\ UNCHANGED spent

\* One pass of `while True`, by p inside the lock, with `waiters` behind it.
LoopBody(p, b, c, w, waiters) ==
    \/ Grant(p, b, c, w, waiters)
    \/ Sleep(p, b, c, w, waiters)

\* acquire(b, c) up to its first await.
Call(p, b, c) ==
    /\ pc[p] = "idle" /\ now <= LastCall
    /\ CostOK(b, c)
    /\ bucket' = [bucket EXCEPT ![p] = b]
    /\ cost' = [cost EXCEPT ![p] = c]
    /\ calledAt' = [calledAt EXCEPT ![p] = now]
    /\ \/ /\ ~MustQueue(b)
          /\ LoopBody(p, b, c, 0, <<>>)
       \/ /\ MustQueue(b)
          /\ queue' = [queue EXCEPT ![b] = Append(@, p)]
          /\ pc' = [pc EXCEPT ![p] = "queued"]
          /\ waited' = [waited EXCEPT ![p] = 0]
          /\ outcome' = [outcome EXCEPT ![p] = "none"]
          /\ UNCHANGED <<bucketVars, owner, wakeAt>>
    /\ UNCHANGED now

\* _check_cost() raises ValueError.
Reject(p, b, c) ==
    /\ pc[p] = "idle" /\ now <= LastCall
    /\ ~CostOK(b, c)
    /\ outcome' = [outcome EXCEPT ![p] = "ValueError"]
    /\ UNCHANGED <<now, bucketVars, lockVars, pc, callVars, wakeAt, waited>>

\* The first waiter's turn for a free lock.
EnterLock(p) ==
    /\ pc[p] = "woken"
    /\ LoopBody(p, bucket[p], cost[p], waited[p], Tail(queue[bucket[p]]))
    /\ UNCHANGED <<now, callVars>>

\* asyncio.sleep(delay) returns and the loop goes round.
Wake(p) ==
    /\ pc[p] = "sleeping" /\ now >= wakeAt[p]
    /\ LoopBody(p, bucket[p], cost[p], waited[p], queue[bucket[p]])
    /\ UNCHANGED <<now, callVars>>

\* p leaves bucket b, cancelled, with `waiters` in line for a lock that `next`
\* of them are now free to enter.
Leave(p, b, waiters, next) ==
    /\ queue' = [queue EXCEPT ![b] = waiters]
    /\ pc' = [q \in Proc |-> IF q = p THEN "idle"
                             ELSE IF q \in next THEN "woken" ELSE pc[q]]
    /\ wakeAt' = [q \in Proc |-> IF q \in next /\ pc[q] = "queued" THEN now ELSE wakeAt[q]]
    /\ outcome' = [outcome EXCEPT ![p] = "cancelled"]
    /\ UNCHANGED <<now, bucketVars, callVars, waited>>

\* A waiter is cancelled: it leaves the queue and passes on a free lock.
CancelWaiter(p) ==
    LET b == bucket[p] IN
    /\ pc[p] \in {"queued", "woken"}
    /\ \E i \in DOMAIN queue[b] :
         LET waiters == RemoveAt(queue[b], i) IN
         /\ queue[b][i] = p
         /\ Leave(p, b, waiters, IF owner[b] = NoProc THEN WakeFirst(waiters) ELSE {})
    /\ UNCHANGED owner

\* A sleeper is cancelled: `async with` frees the lock it holds.
CancelSleeper(p) ==
    LET b == bucket[p] IN
    /\ pc[p] = "sleeping"
    /\ owner' = [owner EXCEPT ![b] = NoProc]
    /\ Leave(p, b, queue[b], WakeFirst(queue[b]))

\* available() and wait_time() from outside: they refill and consume nothing.
Observe(b) ==
    /\ tokens' = [tokens EXCEPT ![b] = Level(b)]
    /\ updated' = [updated EXCEPT ![b] = now]
    /\ UNCHANGED <<now, spent, lockVars, pc, callVars, wakeAt, waited, outcome>>

\* Time passes, but never leaves a due coroutine more than MaxLate behind.
Tick ==
    /\ now < MaxTime
    /\ \A p \in Proc : pc[p] \in {"woken", "sleeping"} => now < wakeAt[p] + MaxLate
    /\ now' = now + 1
    /\ UNCHANGED <<bucketVars, lockVars, pc, callVars, wakeAt, waited, outcome>>

--------------------------------------------------------------------------------

Next ==
    \/ \E p \in Proc, b \in Bucket, c \in Cost : Call(p, b, c)
    \/ \E p \in Proc, b \in Bucket, c \in Cost : Reject(p, b, c)
    \/ \E p \in Proc : EnterLock(p)
    \/ \E p \in Proc : Wake(p)
    \/ \E p \in Proc : CancelWaiter(p)
    \/ \E p \in Proc : CancelSleeper(p)
    \/ \E b \in Bucket : Observe(b)
    \/ Tick

Spec == Init /\ [][Next]_vars

\* The event loop runs what is due, and the clock does not stop.
Fairness ==
    /\ WF_vars(Tick)
    /\ \A p \in Proc : WF_vars(EnterLock(p)) /\ WF_vars(Wake(p))

FairSpec == Spec /\ Fairness

--------------------------------------------------------------------------------
(* Properties *)

\* Concurrent callers never draw more than the bucket holds, and a pause never
\* banks more than the burst ("collectively overdrawing", ratelimit.py:139).
NoOverdraw == \A b \in Bucket : tokens[b] \in 0..Capacity[b]

\* The sleeper of a bucket is the owner of its lock, and the only one.
OwnerSleeps ==
    \A b \in Bucket, p \in Proc :
        owner[b] = p <=> pc[p] = "sleeping" /\ bucket[p] = b

\* A coroutine is in one lock's queue, once, exactly while it waits for it.
WaitersInLine ==
    \A b \in Bucket :
        /\ IsInjective(queue[b])
        /\ \A p \in Proc :
             p \in ToSet(queue[b]) <=> pc[p] \in {"queued", "woken"} /\ bucket[p] = b

\* Whenever a lock is free and somebody waits for it, the first waiter, and
\* nobody else, has been told: no wake-up is lost, even to a cancellation.
NoLostWakeup ==
    \A b \in Bucket : \A i \in DOMAIN queue[b] :
        pc[queue[b][i]] = "woken" <=> i = 1 /\ owner[b] = NoProc

\* The locks are used as acquire() needs them: mutual exclusion, an honest
\* queue and no lost wake-up, through any order of calls and cancellations.
LockDiscipline == OwnerSleeps /\ WaitersInLine /\ NoLostWakeup

\* What makes these inductive: no bucket was refilled in the future, and whoever
\* waits or sleeps asked for a cost its bucket can hold.
RefillPast == \A b \in Bucket : updated[b] <= now
CallsFit == \A p \in Proc : pc[p] # "idle" => CostOK(bucket[p], cost[p])

IInv == TypeOK /\ NoOverdraw /\ LockDiscipline /\ RefillPast /\ CallsFit

\* A sleeper's timer is set for the moment its bucket holds the cost, however
\* often the bucket is refilled by an observer meanwhile: not before (beyond
\* the timer's own earliness), which would spin, and not later.
SleepsExactly ==
    \A p \in Proc : pc[p] = "sleeping" =>
        LET b == bucket[p]
            at(t) == tokens[b] + (t - updated[b]) * Rate[b]
            latest == wakeAt[p] + EarlyWake
            due == IF now <= latest THEN latest ELSE now
        IN  at(due) >= cost[p] /\ at(wakeAt[p] - 1) < cost[p]

\* Tokens go to callers in the order they called: whenever bucket b is drawn
\* on, the one who drew was first in line, and nobody overtook.
FifoService ==
    [][\A b \in Bucket : spent'[b] # spent[b] =>
         IF Line(b) = <<>> THEN Line(b)' = <<>> ELSE Line(b)' = Tail(Line(b))]_vars

\* A call that does not return at once waits for its own bucket: earlier callers
\* of that bucket, or its tokens.  A burst of reads never delays a write
\* (ratelimit.py:10-12).
WaitsOnlyForOwnBucket ==
    [][\A p \in Proc : pc[p] = "idle" /\ pc'[p] # "idle" =>
         LET b == bucket'[p] IN Line(b) # <<>> \/ Level(b) < cost'[p]]_vars

\* Nobody waits for ever: every call returns, raises or is cancelled, whatever
\* the others ask for and whoever is cancelled while holding the lock.
EveryCallEnds == \A p \in Proc : pc[p] # "idle" ~> pc[p] = "idle"

\* Lazy refilling under the lock implements the ideal bucket.
Ideal == INSTANCE TokenBucket WITH level <- [b \in Bucket |-> Level(b)]
ImplementsTokenBucket == Ideal!AbstractSpec

\* "Returns how long it waited, so callers can log throttling rather than have
\* it hide as unexplained latency" (ratelimit.py:137): what a granted call
\* returns is the time since it was made.
ReportsWholeWait ==
    [][\A p \in Proc : outcome[p] # "granted" /\ outcome'[p] = "granted" =>
         waited'[p] = now - calledAt'[p]]_vars

================================================================================
