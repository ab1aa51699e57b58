------------------------------ MODULE TokenBucket ------------------------------
(***************************************************************************)
(* What the rate limiter of api/ratelimit.py promises: an ideal set of     *)
(* buckets that refill by themselves at every tick of the clock and are    *)
(* drawn on only for what they hold.  Nothing is said here of locks, of    *)
(* callers that wait, or of when a bucket is looked at: RateLimiter        *)
(* implements this specification.                                          *)
(***************************************************************************)
EXTENDS Integers

CONSTANTS
    Bucket,         \* the independent budgets (read and write)
    Rate,           \* Rate[b]: tokens gained per tick
    Capacity        \* Capacity[b]: the most the bucket holds, its burst

ASSUME RateAssumption == Rate \in [Bucket -> Nat \ {0}]
ASSUME CapacityAssumption == Capacity \in [Bucket -> Nat \ {0}]

VARIABLES
    now,            \* the clock
    level,          \* level[b]: tokens in the bucket at this instant
    spent           \* spent[b]: tokens handed out since the start

abstractVars == <<now, level, spent>>

LevelType ==
    /\ now \in Nat
    /\ level \in [Bucket -> Int]
    /\ spent \in [Bucket -> Nat]

AtMost(cap, n) == IF n <= cap THEN n ELSE cap

AbstractInit ==
    /\ now = 0
    /\ level = Capacity
    /\ spent = [b \in Bucket |-> 0]

\* Every bucket gains its rate, up to its capacity.
Pour ==
    /\ now' = now + 1
    /\ level' = [b \in Bucket |-> AtMost(Capacity[b], level[b] + Rate[b])]
    /\ UNCHANGED spent

\* c tokens leave bucket b, which holds them.
Draw(b, c) ==
    /\ c \in 1..level[b]
    /\ level' = [level EXCEPT ![b] = @ - c]
    /\ spent' = [spent EXCEPT ![b] = @ + c]
    /\ UNCHANGED now

AbstractNext ==
    \/ Pour
    \/ \E b \in Bucket : \E c \in 1..Capacity[b] : Draw(b, c)

AbstractSpec == AbstractInit /\ [][AbstractNext]_abstractVars

\* A bucket is never overdrawn and never holds more than its burst.
Bounded == \A b \in Bucket : level[b] \in 0..Capacity[b]

\* Over any prefix of the run no more is spent than the burst plus what the
\* rate has earned: the bound the exchange enforces with 429s.
Budget == \A b \in Bucket : spent[b] + level[b] <= Capacity[b] + Rate[b] * now
================================================================================
