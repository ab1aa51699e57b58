------------------------------- MODULE RoundTrip --------------------------------
(***************************************************************************)
(* A position in one market of Basket, closed before settlement: by        *)
(* hitting the bid, by buying the other side, or by an offer that is       *)
(* stepped down the market's tick grid (price_ranges of markets/models.py) *)
(* until somebody takes it.  Time stands still: the book is Basket's.      *)
(***************************************************************************)
EXTENDS Basket, FiniteSetsExt, Sequences

CONSTANTS
    Bands,          \* price_ranges: adjoining bands of the tick grid
    NoOffer         \* nothing is offered

ASSUME BandsAssumption ==
    /\ Bands \in Seq([start : 0..Notional, end : 0..Notional, step : Nat \ {0}])
    /\ \A i \in DOMAIN Bands : Bands[i].start < Bands[i].end
    /\ \A i \in DOMAIN Bands : (Bands[i].end - Bands[i].start) % Bands[i].step = 0
    /\ \A i \in DOMAIN Bands : i > 1 => Bands[i].start = Bands[i - 1].end
ASSUME NoOfferAssumption == NoOffer \notin Nat
\* Nobody bids below the grid: every grid of the API starts at 0.
ASSUME QuotedAssumption ==
    Bands # <<>> => \A p \in Price : p > 0 => Bands[1].start <= p

VARIABLES
    exit,           \* how the position is being closed, if it is
    offer,          \* the price of the resting offer
    proceeds,       \* what closing it brought in
    exitFees        \* the fee on closing it, in granules

exitVars == <<exit, offer, proceeds, exitFees>>
tripVars == <<vars, exitVars>>

Exit == {"none", "working", "filled", "hit", "hedged"}

--------------------------------------------------------------------------------
(* The tick grid.  As elsewhere, a definition that nothing uses is a mistake  *)
(* in the one that follows it.                                                *)

BandContains(band, p) == band.start <= p /\ p <= band.end
IsOnGrid(band, p) == BandContains(band, p) /\ (p - band.start) % band.step = 0

IsValidPrice(p) ==
    IF Bands = <<>> THEN p \in 0..Notional ELSE \E i \in DOMAIN Bands : IsOnGrid(Bands[i], p)

\* The step of the first band that holds p, if any does.
TickAtOfLastBand(p) ==
    LET holding == {i \in DOMAIN Bands : BandContains(Bands[i], p)} IN
    IF holding = {} THEN None ELSE Bands[Max(holding)].step
TickAt(p) ==
    LET holding == {i \in DOMAIN Bands : BandContains(Bands[i], p)} IN
    IF holding = {} THEN None ELSE Bands[Min(holding)].step

--------------------------------------------------------------------------------
(* The position *)

IsTwoSided(l) == book[l]["YES"] > 0 /\ book[l]["NO"] > 0

EffectiveSpread(l) == Notional - (book[l]["YES"] + book[l]["NO"])

ComplementPrice(p) == Notional - p

\* The one leg held, and its best bid.
Held == CHOOSE l \in bought : TRUE
Bid == book[Held][side]

\* calculate_round_trip_cost(), in granules: each order rounds by itself.
RoundTripCost(entryPrice, exitPrice, exitRole) ==
    CalculateFee(schedule, role, count, entryPrice)
    + CalculateFee(schedule, exitRole, count, exitPrice)

--------------------------------------------------------------------------------

TripTypeOK ==
    /\ TypeOK
    /\ exit \in Exit
    /\ offer \in 0..Notional \union {NoOffer}
    /\ (offer = NoOffer) = (exit # "working")
    /\ proceeds \in Int
    /\ exitFees \in Nat

TripInit ==
    /\ Init
    /\ exit = "none"
    /\ offer = NoOffer
    /\ proceeds = 0
    /\ exitFees = 0

\* Steps of Basket, while no exit is under way.
BasketStep == exit = "none" /\ Next /\ UNCHANGED exitVars

\* A position in one market that has a bid and an ask.
Holding == phase = "buying" /\ Cardinality(bought) = 1 /\ IsTwoSided(Held)

\* Offer what is held at the ask, unless the book is locked: at the bid the offer
\* would not rest.
Offer ==
    /\ exit = "none" /\ Holding
    /\ DeriveAsk(Held, side) > Bid
    /\ IsValidPrice(DeriveAsk(Held, side))
    /\ exit' = "working"
    /\ offer' = DeriveAsk(Held, side)
    /\ UNCHANGED <<vars, proceeds, exitFees>>

\* Lower the offer by a tick, still short of the bid.
StepDown ==
    /\ exit = "working" /\ TickAt(offer) # None
    /\ offer - TickAt(offer) > Bid
    /\ offer' = offer - TickAt(offer)
    /\ UNCHANGED <<vars, exit, proceeds, exitFees>>

Close(how, price, received, exitRole) ==
    /\ exit' = how
    /\ offer' = NoOffer
    /\ proceeds' = received
    /\ exitFees' = CalculateFee(schedule, exitRole, count, price)
    /\ UNCHANGED vars

Fill == exit = "working" /\ Close("filled", offer, count * offer, "maker")

HitBid == exit \in {"none", "working"} /\ Holding /\ Close("hit", Bid, count * Bid, "taker")

\* Buy as much of the other side: whichever way the market resolves, one of the
\* two contracts pays.
PaysBothWays == UnitPayoff
HedgeAtAsk == DeriveAsk(Held, side)
HedgePrice == ComplementPrice(Bid)
Hedge ==
    /\ exit \in {"none", "working"} /\ Holding
    /\ Close("hedged", HedgePrice, PaysBothWays - count * HedgePrice, "taker")

TripNext == BasketStep \/ Offer \/ StepDown \/ Fill \/ HitBid \/ Hedge

TripSpec == TripInit /\ [][TripNext]_tripVars

--------------------------------------------------------------------------------
(* Properties *)

\* Stepped down by tick_at(), across the edges of bands, an offer never leaves
\* the prices is_valid_price() accepts, and never reaches the bid.
OffersOnGrid == exit = "working" => IsValidPrice(offer) /\ offer > Bid

\* No exit on the book it was entered on makes money: a position gives up
\* between nothing and the spread, and all of it if it crosses, whether by
\* selling or by buying the other side ("the exact negative of the mythical
\* single-market complement 'arbitrage'", contracts.py:177).
RoundTripLosesSpread ==
    /\ exit = "filled" => cost - proceeds \in 0..count * EffectiveSpread(Held)
    /\ exit \in {"hit", "hedged"} => cost - proceeds = count * EffectiveSpread(Held)

\* Selling one side and buying the other are one order to the fee formula: either
\* exit makes the round trip cost what calculate_round_trip_cost() says of a sale
\* at the bid.
ExitsCostTheSame ==
    exit \in {"hit", "hedged"} =>
        fees + exitFees = RoundTripCost(DeriveAsk(Held, side), Bid, "taker")

================================================================================
