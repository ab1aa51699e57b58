-------------------------------- MODULE MCBasket --------------------------------
(* A small instance of RoundTrip, and of the Basket it extends, for TLC. *)
EXTENDS RoundTrip

CONSTANTS l1, l2, l3

\* The whole event is tradeable, or one of its legs is paused.
MCActiveSets == {Leg, {l1, l2}}

\* What each fee type implies, an explicit maker multiplier, and a verified flat
\* fee; an unverified one is not priced.
MCSchedules ==
    {FromApi(t, 1) : t \in FeeType}
    \union {[feeType |-> "quadratic", taker |-> 0, maker |-> 3, flat |-> None],
            [feeType |-> "flat", taker |-> 1, maker |-> None, flat |-> 7]}

\* A fine band below 0.40, a coarse one above, and a fine one at the top.
MCBands == <<[start |-> 0, end |-> 400, step |-> 25],
             [start |-> 400, end |-> 600, step |-> 50],
             [start |-> 600, end |-> 1000, step |-> 25]>>
================================================================================
