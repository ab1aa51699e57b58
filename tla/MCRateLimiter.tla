----------------------------- MODULE MCRateLimiter -----------------------------
(* Small instances of RateLimiter for TLC. *)
EXTENDS RateLimiter, TLC

CONSTANTS p1, p2, p3, read, write

\* A write bucket of one tick of budget, a read bucket of two.
MCRate == (read :> 1) @@ (write :> 2)
MCCapacity == (read :> 2) @@ (write :> 2)

\* Valid costs, and the two kinds _check_cost() refuses.
MCCost == {-1, 1, 2, 3}

\* One bucket, gaining 2 a tick and holding 3: a deficit need not be a whole
\* number of ticks.
MCRateOne == (read :> 2)
MCCapacityOne == (read :> 3)

\* One bucket where every deficit is a whole number of ticks.
MCRateUnit == (read :> 1)
MCCapacityUnit == (read :> 2)

Symmetry == Permutations(Proc)
================================================================================
