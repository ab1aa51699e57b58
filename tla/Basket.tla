--------------------------------- MODULE Basket ---------------------------------
(***************************************************************************)
(* contracts.py and fees/model.py at work: an event's legs are bought one  *)
(* order at a time, each with its own fee, the basket is priced by its     *)
(* worst and best payoff, and the exchange settles the event.              *)
(*                                                                         *)
(* Prices, costs and payoffs are integers in a price unit no coarser than  *)
(* any tick or member precision: 0..Notional for a price.  Fees are        *)
(* counted in granules of MemberPrecision, each of Granule price units, so *)
(* that rounding up to a granule is rounding up to an integer.  Rates are  *)
(* in ten-thousandths.                                                     *)
(***************************************************************************)
EXTENDS Integers, FiniteSets, Functions

CONSTANTS
    Leg,            \* the markets of one event
    Notional,       \* what a contract pays
    Granule,        \* MemberPrecision, in price units
    Price,          \* the bids quoted
    Count,          \* contracts per leg
    Schedules,      \* the FeeSchedules tried
    None,           \* no value, of an optional field of a FeeSchedule
    ActiveSets,     \* which legs may be tradeable
    NoBounds        \* "not priced yet"

FeeType == {"quadratic", "quadratic_with_maker_fees",
            "quadratic_with_combo_maker_fees", "flat"}

\* Multipliers scale the base rates; a flat fee is in price units a contract.
FeeSchedule == [feeType : FeeType, taker : Nat,
                maker : Nat \union {None}, flat : Nat \union {None}]

ASSUME LegAssumption == IsFiniteSet(Leg)
ASSUME NotionalAssumption == Notional \in Nat \ {0}
ASSUME GranuleAssumption == Granule \in Nat \ {0}
ASSUME PriceAssumption == Price \subseteq 0..Notional
ASSUME CountAssumption == Count \subseteq Nat \ {0}
ASSUME NoneAssumption == None \notin Nat
ASSUME SchedulesAssumption == Schedules \subseteq FeeSchedule
ASSUME ActiveAssumption == ActiveSets \subseteq SUBSET Leg

VARIABLES
    exclusivity,    \* what the event guarantees
    book,           \* the best bids of each leg
    active,         \* the tradeable legs
    side,           \* the side of every leg the basket takes
    count,          \* contracts of each leg
    schedule, role, \* the terms of its fees
    phase,
    bought,         \* the legs bought so far
    cost, fees,     \* what they cost, and the fees on them, in granules
    raw,            \* history: the fees before rounding, times FeeUnit
    bounds,         \* the PayoffBounds claimed
    yes             \* the legs that resolved YES

terms == <<exclusivity, book, active, side, count, schedule, role>>
paid == <<bought, cost, fees, raw>>
vars == <<terms, phase, paid, bounds, yes>>

Exclusivity == {"MUTUALLY_EXCLUSIVE", "PARTITION", "UNCONSTRAINED"}
Outcome == {"YES", "NO"}
Role == {"taker", "maker"}

--------------------------------------------------------------------------------
(* contracts.py.  As elsewhere, a definition that nothing uses is a mistake   *)
(* in the one that follows it.                                                *)

Opposite(s) == IF s = "YES" THEN "NO" ELSE "YES"

\* has_yes_ask, has_no_ask: somebody bids on the other side.
HasAsk(l, s) == book[l][Opposite(s)] > 0

DeriveAskOfSameSide(l, s) == Notional - book[l][s]
DeriveAsk(l, s) == Notional - book[l][Opposite(s)]

\* The book is not crossed: neither order is the other's counterparty.
ComplementInvariantHolds(l) == book[l]["YES"] + book[l]["NO"] <= Notional

\* The bids of the tradeable legs.
YesBids == [l \in Leg |-> book[l]["YES"]]
YesBidSum == SumFunctionOnSet(YesBids, active)

\* Whether a contract on s pays when its market resolves YES, or does not.
Pays(s, resolvedYes) == (s = "YES") = resolvedYes

\* What one leg pays, if it pays.
UnitPayoff == count * Notional

\* How many of n legs resolve YES, at least and at most.
MinYesIfExhaustive(e) == IF e = "UNCONSTRAINED" THEN 0 ELSE 1
MinYes(e) == IF e = "PARTITION" THEN 1 ELSE 0

MaxYesOfAny(e, n) == IF e = "PARTITION" THEN 1 ELSE n
MaxYes(e, n) == IF e = "UNCONSTRAINED" THEN n ELSE 1

BoundsSwapped(e, s, n) ==
    LET few == IF s = "YES" THEN MinYes(e) ELSE n - MinYes(e)
        many == IF s = "YES" THEN MaxYes(e, n) ELSE n - MaxYes(e, n)
    IN  [minimum |-> few * UnitPayoff, maximum |-> many * UnitPayoff]
BasketPayoffBounds(e, s, n) ==
    IF s = "YES"
    THEN [minimum |-> MinYes(e) * UnitPayoff, maximum |-> MaxYes(e, n) * UnitPayoff]
    ELSE [minimum |-> (n - MaxYes(e, n)) * UnitPayoff,
          maximum |-> (n - MinYes(e)) * UnitPayoff]

GuaranteedGrossEdge(totalCost, b) == b.minimum - totalCost

--------------------------------------------------------------------------------
(* fees/model.py *)

\* The maker multiplier a fee type implies; a flat fee implies none.
ImpliedMaker(t) ==
    CASE t = "quadratic" -> 0
      [] t = "quadratic_with_maker_fees" -> 1
      [] t = "quadratic_with_combo_maker_fees" -> 2
      [] OTHER -> None

\* A schedule as a Series of the API states it.
FromApi(t, m) == [feeType |-> t, taker |-> m, maker |-> ImpliedMaker(t), flat |-> None]

\* raw_fee() has a formula for it: a flat fee must be given.
FeeModelled(s) == s.feeType = "flat" => s.flat # None

\* The explicit maker multiplier, or else the implied one.
EffectiveMakerMultiplier(s) ==
    CASE s.maker # None -> s.maker
      [] s.maker = None /\ s.feeType # "flat" -> ImpliedMaker(s.feeType)
      [] OTHER -> 0

FeeRate(s, r) == IF r = "taker" THEN 700 * s.taker ELSE 175 * EffectiveMakerMultiplier(s)

\* The fee of an order before rounding, in Unit-ths of a granule.
FeeUnit == 10000 * Notional * Granule
RawFeeOfPremium(s, r, c, p) == FeeRate(s, r) * c * p * Notional
RawFee(s, r, c, p) ==
    IF s.feeType = "flat" THEN 10000 * Notional * s.flat * c
    ELSE FeeRate(s, r) * c * p * (Notional - p)

\* ceil_to(): up to the next multiple, and nothing for nothing.
RoundToNearest(n, d) == (2 * n + d) \div (2 * d)
CeilTo(n, d) == (n + d - 1) \div d

CalculateFee(s, r, c, p) == CeilTo(RawFee(s, r, c, p), FeeUnit)

--------------------------------------------------------------------------------

TypeOK ==
    /\ exclusivity \in Exclusivity
    /\ book \in [Leg -> [Outcome -> Price]]
    /\ active \in ActiveSets
    /\ side \in Outcome
    /\ count \in Count
    /\ schedule \in Schedules /\ role \in Role
    /\ phase \in {"buying", "priced", "settled", "refused"}
    /\ bought \subseteq active
    /\ cost \in Nat /\ fees \in Nat /\ raw \in Nat
    /\ IF phase \in {"priced", "settled"}
       THEN /\ bounds.minimum \in Nat /\ bounds.maximum \in Nat
            /\ bounds.minimum <= bounds.maximum
       ELSE bounds = NoBounds
    /\ yes \subseteq Leg

Init ==
    /\ exclusivity \in Exclusivity
    /\ book \in [Leg -> [Outcome -> Price]]
    /\ active \in ActiveSets
    /\ side \in Outcome
    /\ count \in Count
    /\ schedule \in Schedules /\ role \in Role
    /\ phase = "buying"
    /\ bought = {}
    /\ cost = 0 /\ fees = 0 /\ raw = 0
    /\ bounds = NoBounds
    /\ yes = {}

\* One order: a tradeable leg with a real ask and a sound book.
Buy(l) ==
    LET p == DeriveAsk(l, side) IN
    /\ phase = "buying"
    /\ l \in active \ bought
    /\ HasAsk(l, side) /\ ComplementInvariantHolds(l)
    /\ FeeModelled(schedule)
    /\ bought' = bought \union {l}
    /\ cost' = cost + count * p
    /\ fees' = fees + CalculateFee(schedule, role, count, p)
    /\ raw' = raw + RawFee(schedule, role, count, p)
    /\ UNCHANGED <<terms, phase, bounds, yes>>

\* UnmodelledFeeError, or MoneyError for a basket of no legs.
Refuse ==
    /\ phase = "buying"
    /\ bought = {}
    /\ phase' = "refused"
    /\ UNCHANGED <<terms, paid, bounds, yes>>

\* The claim made for the basket.  PARTITION speaks of every leg of the event,
\* so it is used for a basket that holds them all.
PriceBasket ==
    /\ phase = "buying"
    /\ bought # {}
    /\ exclusivity = "PARTITION" => bought = Leg
    /\ bounds' = BasketPayoffBounds(exclusivity, side, Cardinality(bought))
    /\ phase' = "priced"
    /\ UNCHANGED <<terms, paid, yes>>

\* What the exchange may resolve, given what it publishes of the event.
Permitted(legs) ==
    /\ exclusivity = "PARTITION" => Cardinality(legs) = 1
    /\ exclusivity = "MUTUALLY_EXCLUSIVE" => Cardinality(legs) <= 1

Settle ==
    /\ phase = "priced"
    /\ \E legs \in SUBSET Leg : Permitted(legs) /\ yes' = legs
    /\ phase' = "settled"
    /\ UNCHANGED <<terms, paid, bounds>>

Next == (\E l \in Leg : Buy(l)) \/ Refuse \/ PriceBasket \/ Settle

Spec == Init /\ [][Next]_vars

--------------------------------------------------------------------------------
(* Properties *)

\* What the basket pays if the legs in `legs` resolve YES.
Payoff(legs) == Cardinality({l \in bought : Pays(side, l \in legs)}) * UnitPayoff

\* However the event settles, the basket pays no less than its minimum and no
\* more than its maximum: the proof "that gates the TRUE_ARBITRAGE label"
\* (contracts.py:195), for a basket of any of the event's tradeable legs.
SettlesWithinBounds ==
    phase = "settled" => Payoff(yes) \in bounds.minimum..bounds.maximum

\* Neither bound is idle: some permitted settlement pays exactly the minimum and
\* some the maximum, so no sound claim is refused either.
BoundsAttained ==
    phase = "priced" =>
        \A bound \in {bounds.minimum, bounds.maximum} :
            \E legs \in SUBSET Leg : Permitted(legs) /\ Payoff(legs) = bound

\* The sum of the bids in models.py and the bounds of contracts.py agree: where the
\* event allows one YES, a basket of every NO leg that is offered has the overround as
\* its gross edge, the legs nobody bids on adding nothing to either ("the direction
\* that is safe without an exhaustiveness proof", models.py:283).
OverroundIsEdge ==
    phase = "priced"
    /\ side = "NO" /\ exclusivity # "UNCONSTRAINED"
    /\ bought = {l \in active : HasAsk(l, "NO")}
    => GuaranteedGrossEdge(cost, bounds) = count * (YesBidSum - Notional)

\* Every order is rounded against the trader, by less than a granule, and a
\* free order is free: a basket's fees cover what the formula charges and exceed
\* it by less than a granule a leg.
FeesCoverRaw ==
    /\ raw <= fees * FeeUnit
    /\ raw = 0 => fees = 0
    /\ fees * FeeUnit <= raw + Cardinality(bought) * (FeeUnit - 1)

================================================================================
