------------------------------ MODULE BasketProofs ------------------------------
(* Theorems about Basket and RoundTrip, for any event, prices, counts, fee terms and
   tick grid. *)
EXTENDS RoundTrip, FoldLemmas

--------------------------------------------------------------------------------
(* How many legs pay. *)

\* What a basket pays is one unit a leg on the right side of the resolution.
LEMMA PayingLegs ==
  ASSUME NEW legs, IsFiniteSet(bought), side \in Outcome
  PROVE  LET k == Cardinality(bought \cap legs)
             n == Cardinality(bought)
         IN  /\ k \in Nat /\ n \in Nat /\ k <= n
             /\ Payoff(legs) = (IF side = "YES" THEN k ELSE n - k) * UnitPayoff
  <1>1. /\ Cardinality(bought) \in Nat
        /\ IsFiniteSet(bought \cap legs) /\ Cardinality(bought \cap legs) \in Nat
        /\ Cardinality(bought \cap legs) <= Cardinality(bought)
    <2>1. bought \cap legs \subseteq bought
      OBVIOUS
    <2> QED BY <2>1, FS_Subset, FS_CardinalityType
  <1>2. Cardinality(bought \ legs) = Cardinality(bought) - Cardinality(bought \cap legs)
    BY FS_Difference
  <1>3. CASE side = "YES"
    <2>1. {l \in bought : Pays(side, l \in legs)} = bought \cap legs
      BY <1>3 DEF Pays
    <2> QED BY <1>1, <1>3, <2>1 DEF Payoff
  <1>4. CASE side = "NO"
    <2>1. {l \in bought : Pays(side, l \in legs)} = bought \ legs
      BY <1>4 DEF Pays
    <2> QED BY <1>1, <1>2, <1>4, <2>1 DEF Payoff
  <1> QED BY <1>3, <1>4 DEF Outcome

\* Of the legs bought, no more and no fewer resolve YES than the table says.
LEMMA PermittedYes ==
  ASSUME NEW legs \in SUBSET Leg, Permitted(legs), bought \subseteq Leg,
         IsFiniteSet(bought), exclusivity \in Exclusivity,
         exclusivity = "PARTITION" => bought = Leg
  PROVE  LET k == Cardinality(bought \cap legs)
             n == Cardinality(bought)
         IN  k \in Nat /\ MinYes(exclusivity) <= k /\ k <= MaxYes(exclusivity, n)
  <1>1. IsFiniteSet(legs) /\ IsFiniteSet(bought \cap legs)
    <2>1. bought \cap legs \subseteq bought
      OBVIOUS
    <2> QED BY <2>1, FS_Subset, LegAssumption
  <1>2. /\ Cardinality(bought \cap legs) \in Nat /\ Cardinality(legs) \in Nat
        /\ Cardinality(bought) \in Nat
        /\ Cardinality(bought \cap legs) <= Cardinality(legs)
        /\ Cardinality(bought \cap legs) <= Cardinality(bought)
    <2>1. bought \cap legs \subseteq bought /\ bought \cap legs \subseteq legs
      OBVIOUS
    <2> QED BY <1>1, <2>1, FS_Subset, FS_CardinalityType
  <1>3. CASE exclusivity = "PARTITION"
    <2>1. bought \cap legs = legs
      BY <1>3
    <2> QED BY <1>2, <1>3, <2>1 DEF Permitted, MinYes, MaxYes
  <1>4. CASE exclusivity = "MUTUALLY_EXCLUSIVE"
    BY <1>2, <1>4 DEF Permitted, MinYes, MaxYes
  <1>5. CASE exclusivity = "UNCONSTRAINED"
    BY <1>2, <1>5 DEF Permitted, MinYes, MaxYes
  <1> QED BY <1>3, <1>4, <1>5 DEF Exclusivity

\* One paying leg pays a natural number.
LEMMA UnitIsNat ==
  ASSUME count \in Nat
  PROVE  UnitPayoff \in Nat
  <1>1. Notional \in Nat
    BY NotionalAssumption
  <1>2. \A x, y \in Nat : x * y \in Nat
    OBVIOUS
  <1> QED BY <1>1, <1>2 DEF UnitPayoff

\* Paying more legs pays no less.
LEMMA MoreUnits ==
  ASSUME NEW x \in Int, NEW y \in Int, x <= y, NEW u \in Nat
  PROVE  x * u \in Int /\ x * u <= y * u
  OBVIOUS

\* A permitted settlement pays within the bounds.
LEMMA PaysWithinBounds ==
  ASSUME NEW legs \in SUBSET Leg, Permitted(legs), bought \subseteq Leg,
         IsFiniteSet(bought), exclusivity \in Exclusivity, side \in Outcome,
         count \in Nat, exclusivity = "PARTITION" => bought = Leg,
         bounds = BasketPayoffBounds(exclusivity, side, Cardinality(bought))
  PROVE  Payoff(legs) \in bounds.minimum..bounds.maximum
  <1> DEFINE k == Cardinality(bought \cap legs)
             n == Cardinality(bought)
             lo == MinYes(exclusivity)
             hi == MaxYes(exclusivity, n)
             u == UnitPayoff
  <1>1. /\ k \in Nat /\ n \in Nat
        /\ Payoff(legs) = (IF side = "YES" THEN k ELSE n - k) * u
    BY PayingLegs
  <1>2. lo <= k /\ k <= hi
    BY PermittedYes
  <1>3. lo \in Int /\ hi \in Int /\ u \in Nat
    BY <1>1, UnitIsNat DEF MinYes, MaxYes
  <1>4. CASE side = "YES"
    <2>1. bounds.minimum = lo * u /\ bounds.maximum = hi * u
      BY <1>4 DEF BasketPayoffBounds
    <2> HIDE DEF k, n, lo, hi, u
    <2>2. lo * u \in Int /\ k * u \in Int /\ hi * u \in Int /\ lo * u <= k * u /\ k * u <= hi * u
      BY <1>1, <1>2, <1>3, MoreUnits
    <2> QED BY <1>1, <1>4, <2>1, <2>2
  <1>5. CASE side = "NO"
    <2>1. bounds.minimum = (n - hi) * u /\ bounds.maximum = (n - lo) * u
      BY <1>5 DEF BasketPayoffBounds
    <2> HIDE DEF k, n, lo, hi, u
    <2>2. n - hi \in Int /\ n - k \in Int /\ n - lo \in Int /\ n - hi <= n - k /\ n - k <= n - lo
      BY <1>1, <1>2, <1>3
    <2>3. /\ (n - hi) * u \in Int /\ (n - k) * u \in Int /\ (n - lo) * u \in Int
          /\ (n - hi) * u <= (n - k) * u /\ (n - k) * u <= (n - lo) * u
      BY <1>3, <2>2, MoreUnits
    <2> QED BY <1>1, <1>5, <2>1, <2>3
  <1> QED BY <1>4, <1>5 DEF Outcome

--------------------------------------------------------------------------------
(* The basket. *)

\* A priced basket carries the bounds of the legs it holds, and a settled event
\* settled as it may.
ClaimInv ==
    /\ exclusivity \in Exclusivity /\ side \in Outcome /\ count \in Nat
    /\ active \subseteq Leg /\ bought \subseteq Leg
    /\ phase \in {"priced", "settled"} =>
         /\ bought # {}
         /\ bounds = BasketPayoffBounds(exclusivity, side, Cardinality(bought))
         /\ exclusivity = "PARTITION" => bought = Leg
    /\ phase = "settled" => yes \in SUBSET Leg /\ Permitted(yes)

\* Nothing is claimed before the basket is priced.
LEMMA InitClaims == Init => ClaimInv
  BY CountAssumption, ActiveAssumption DEF Init, ClaimInv

\* Pricing makes a sound claim, and settling falls within it.
LEMMA NextClaims == ClaimInv /\ [Next]_vars => ClaimInv'
  <1> SUFFICES ASSUME ClaimInv, [Next]_vars PROVE ClaimInv'
    OBVIOUS
  <1>1. ASSUME NEW l \in Leg, Buy(l) PROVE ClaimInv'
    BY <1>1 DEF ClaimInv, Buy, terms
  <1>2. CASE Refuse
    BY <1>2 DEF ClaimInv, Refuse, terms, paid
  <1>3. CASE PriceBasket
    <2>1. /\ UNCHANGED <<exclusivity, side, count, active, bought>>
          /\ phase' = "priced" /\ bought # {}
          /\ exclusivity = "PARTITION" => bought = Leg
          /\ bounds' = BasketPayoffBounds(exclusivity, side, Cardinality(bought))
      BY <1>3 DEF PriceBasket, terms, paid
    <2>2. bounds' = BasketPayoffBounds(exclusivity, side, Cardinality(bought))'
      BY <2>1 DEF BasketPayoffBounds, UnitPayoff
    <2> QED BY <2>1, <2>2 DEF ClaimInv
  <1>4. CASE Settle
    <2>1. /\ UNCHANGED <<exclusivity, side, count, active, bought, bounds>>
          /\ phase = "priced" /\ phase' = "settled"
          /\ yes' \in SUBSET Leg /\ Permitted(yes')
      BY <1>4 DEF Settle, terms, paid
    <2>2. Permitted(yes)'
      BY <2>1 DEF Permitted
    <2>3. BasketPayoffBounds(exclusivity, side, Cardinality(bought))'
            = BasketPayoffBounds(exclusivity, side, Cardinality(bought))
      BY <2>1 DEF BasketPayoffBounds, UnitPayoff
    <2> QED BY <2>1, <2>2, <2>3 DEF ClaimInv
  <1>5. CASE UNCHANGED vars
    <2>1. UNCHANGED <<exclusivity, side, count, active, bought, bounds, phase, yes>>
      BY <1>5 DEF vars, terms, paid
    <2> QED BY <2>1 DEF ClaimInv, Permitted, BasketPayoffBounds, UnitPayoff
  <1> QED BY <1>1, <1>2, <1>3, <1>4, <1>5 DEF Next

\* No settlement an event permits pays less than the minimum or more than the
\* maximum basket_payoff_bounds() gives (contracts.py:185-231), for any number of
\* legs, notional and count.
THEOREM BoundsAreSound == Spec => []SettlesWithinBounds
  <1>1. ClaimInv => SettlesWithinBounds
    <2> SUFFICES ASSUME ClaimInv, phase = "settled"
                 PROVE Payoff(yes) \in bounds.minimum..bounds.maximum
      BY DEF SettlesWithinBounds
    <2>1. IsFiniteSet(bought)
      BY FS_Subset, LegAssumption DEF ClaimInv
    <2> QED BY <2>1, PaysWithinBounds DEF ClaimInv
  <1> QED BY <1>1, InitClaims, NextClaims, PTL DEF Spec

\* Some permitted settlement resolves as few of the legs bought YES as the table
\* says, and some as many.
LEMMA SomeSettlement ==
  ASSUME bought \subseteq Leg, bought # {}, IsFiniteSet(bought),
         exclusivity \in Exclusivity, exclusivity = "PARTITION" => bought = Leg,
         NEW k \in {MinYes(exclusivity), MaxYes(exclusivity, Cardinality(bought))}
  PROVE  \E legs \in SUBSET Leg : Permitted(legs) /\ Cardinality(bought \cap legs) = k
  <1>1. Cardinality({}) = 0 /\ bought \cap {} = {} /\ bought \cap bought = bought
    BY FS_EmptySet
  <1>2. PICK l \in bought : TRUE
    OBVIOUS
  <1>3. Cardinality({l}) = 1 /\ bought \cap {l} = {l} /\ l \in Leg
    BY <1>2, FS_Singleton
  <1>4. CASE exclusivity = "PARTITION"
    <2>1. k = 1
      BY <1>4 DEF MinYes, MaxYes
    <2>2. Permitted({l})
      BY <1>3, <1>4 DEF Permitted
    <2> QED BY <1>3, <2>1, <2>2
  <1>5. CASE exclusivity = "MUTUALLY_EXCLUSIVE"
    <2>1. k = 0 \/ k = 1
      BY <1>5 DEF MinYes, MaxYes
    <2>2. Permitted({l}) /\ Permitted({})
      BY <1>1, <1>3, <1>5 DEF Permitted
    <2> QED BY <1>1, <1>3, <2>1, <2>2
  <1>6. CASE exclusivity = "UNCONSTRAINED"
    <2>1. k = 0 \/ k = Cardinality(bought)
      BY <1>6 DEF MinYes, MaxYes
    <2>2. Permitted({}) /\ Permitted(bought)
      BY <1>6 DEF Permitted
    <2> QED BY <1>1, <2>1, <2>2
  <1> QED BY <1>4, <1>5, <1>6 DEF Exclusivity

\* What a basket pays when k of the legs bought resolve YES.
UnitsPaid(k) == (IF side = "YES" THEN k ELSE Cardinality(bought) - k) * UnitPayoff

\* Both bounds of the claim are what the fewest and the most YES pay.
LEMMA BoundsAreUnitsPaid ==
  ASSUME side \in Outcome, NEW bound \in {bounds.minimum, bounds.maximum},
         bounds = BasketPayoffBounds(exclusivity, side, Cardinality(bought))
  PROVE  \E k \in {MinYes(exclusivity), MaxYes(exclusivity, Cardinality(bought))} :
             bound = UnitsPaid(k)
  <1>1. CASE side = "YES"
    <2>1. /\ bounds.minimum = UnitsPaid(MinYes(exclusivity))
          /\ bounds.maximum = UnitsPaid(MaxYes(exclusivity, Cardinality(bought)))
      BY <1>1 DEF BasketPayoffBounds, UnitsPaid
    <2> QED BY <2>1
  <1>2. CASE side = "NO"
    <2>1. /\ bounds.maximum = UnitsPaid(MinYes(exclusivity))
          /\ bounds.minimum = UnitsPaid(MaxYes(exclusivity, Cardinality(bought)))
      BY <1>2 DEF BasketPayoffBounds, UnitsPaid
    <2> QED BY <2>1
  <1> QED BY <1>1, <1>2 DEF Outcome

\* The bounds of a priced basket are tight (contracts.py:185-231): for any number
\* of legs, notional and count, each of them is what some permitted settlement
\* pays, so the TRUE_ARBITRAGE label is not refused to a basket that earns it.
THEOREM BoundsAreTight == Spec => []BoundsAttained
  <1>1. ClaimInv => BoundsAttained
    <2> SUFFICES ASSUME ClaimInv, phase = "priced",
                        NEW bound \in {bounds.minimum, bounds.maximum}
                 PROVE  \E legs \in SUBSET Leg : Permitted(legs) /\ Payoff(legs) = bound
      BY DEF BoundsAttained
    <2>1. IsFiniteSet(bought)
      BY FS_Subset, LegAssumption DEF ClaimInv
    <2>2. PICK k \in {MinYes(exclusivity), MaxYes(exclusivity, Cardinality(bought))} :
                 bound = UnitsPaid(k)
      BY BoundsAreUnitsPaid DEF ClaimInv
    <2>3. PICK legs \in SUBSET Leg : Permitted(legs) /\ Cardinality(bought \cap legs) = k
      BY <2>1, SomeSettlement DEF ClaimInv
    <2>4. Payoff(legs) = UnitsPaid(k)
      BY <2>1, <2>3, PayingLegs DEF ClaimInv, UnitsPaid
    <2> QED BY <2>2, <2>3, <2>4
  <1> QED BY <1>1, InitClaims, NextClaims, PTL DEF Spec

--------------------------------------------------------------------------------
(* Fees. *)

\* f granules of u cover r u-ths of a granule, charged by n orders.
Covers(r, f, n, u) ==
    /\ r <= f * u
    /\ r = 0 => f = 0
    /\ f * u <= r + n * (u - 1)

\* Rounding up covers one order.
LEMMA Ceiling ==
  ASSUME NEW n \in Nat, NEW d \in Nat \ {0}
  PROVE  CeilTo(n, d) \in Nat /\ Covers(n, CeilTo(n, d), 1, d)
  <1> DEFINE m == n + d - 1
             q == m \div d
             r == m % d
  <1>1. m \in Nat /\ d \in Int /\ d > 0 /\ m = n + (d - 1)
    OBVIOUS
  <1>2. q \in Int /\ r \in Int /\ 0 <= r /\ r < d /\ m = d * q + r
    BY <1>1
  <1>3. q >= 0 /\ d * q = q * d
    BY <1>1, <1>2
  <1>4. n = 0 => q = 0
    BY <1>1
  <1> HIDE DEF m, q, r
  <1>5. q * d \in Int /\ 1 * (d - 1) = d - 1
    BY <1>1, <1>2
  <1>6. CeilTo(n, d) = q
    BY DEF CeilTo, q, m
  <1> QED BY <1>1, <1>2, <1>3, <1>4, <1>5, <1>6 DEF Covers

\* One more order adds what it charges and what it pays.
LEMMA OneMoreOrder ==
  ASSUME NEW r \in Nat, NEW m \in Nat, NEW f \in Nat, NEW g \in Nat, NEW n \in Nat,
         NEW u \in Nat \ {0}, Covers(r, f, n, u), Covers(m, g, 1, u)
  PROVE  Covers(r + m, f + g, n + 1, u)
  <1>1. (f + g) * u = f * u + g * u /\ (n + 1) * (u - 1) = n * (u - 1) + (u - 1)
    OBVIOUS
  <1> DEFINE a == f * u
             b == g * u
             c == n * (u - 1)
  <1>2. a \in Int /\ b \in Int /\ c \in Int /\ 1 * (u - 1) = u - 1
    OBVIOUS
  <1>3. /\ r <= a /\ a <= r + c /\ m <= b /\ b <= m + (u - 1)
        /\ r = 0 => f = 0
        /\ m = 0 => g = 0
    BY <1>2 DEF Covers
  <1> HIDE DEF a, b, c
  <1>4. r + m <= a + b /\ a + b <= r + m + (c + (u - 1)) /\ (r + m = 0 => f + g = 0)
    BY <1>2, <1>3
  <1> QED BY <1>1, <1>4 DEF Covers, a, b, c

\* Rounding divides by a positive number.
LEMMA FeeUnitIsPositive == FeeUnit \in Nat \ {0}
  <1>1. \A x, y \in Nat \ {0} : x * y \in Nat \ {0}
    OBVIOUS
  <1>2. 10000 * Notional \in Nat \ {0}
    BY NotionalAssumption
  <1> QED BY <1>1, <1>2, GranuleAssumption DEF FeeUnit

\* Every rate is a natural number of ten-thousandths.
LEMMA RateIsNat ==
  ASSUME NEW s \in FeeSchedule, NEW r
  PROVE  FeeRate(s, r) \in Nat
  <1>1. s.taker \in Nat /\ s.maker \in Nat \union {None}
    BY DEF FeeSchedule
  <1>2. EffectiveMakerMultiplier(s) \in Nat
    <2>1. CASE s.maker # None
      BY <1>1, <2>1 DEF EffectiveMakerMultiplier
    <2>2. CASE s.maker = None /\ s.feeType # "flat"
      <3>1. s.feeType \in FeeType
        BY DEF FeeSchedule
      <3> QED BY <2>2, <3>1 DEF EffectiveMakerMultiplier, ImpliedMaker, FeeType
    <2>3. CASE s.maker = None /\ s.feeType = "flat"
      BY <2>3 DEF EffectiveMakerMultiplier
    <2> QED BY <2>1, <2>2, <2>3
  <1>3. \A x \in Nat : 700 * x \in Nat /\ 175 * x \in Nat
    OBVIOUS
  <1> QED BY <1>1, <1>2, <1>3 DEF FeeRate

\* The formula never charges less than nothing.
LEMMA RawFeeIsNat ==
  ASSUME NEW s \in FeeSchedule, FeeModelled(s), NEW r, NEW c \in Nat, NEW p \in 0..Notional
  PROVE  RawFee(s, r, c, p) \in Nat
  <1>1. \A x, y \in Nat : x * y \in Nat
    OBVIOUS
  <1>2. FeeRate(s, r) \in Nat
    BY RateIsNat
  <1>3. p \in Nat /\ Notional \in Nat /\ Notional - p \in Nat
    BY NotionalAssumption
  <1>4. CASE s.feeType = "flat"
    <2>1. s.flat \in Nat
      BY <1>4 DEF FeeModelled, FeeSchedule
    <2>2. 10000 * Notional \in Nat
      BY <1>1, <1>3
    <2> QED BY <1>1, <1>4, <2>1, <2>2 DEF RawFee
  <1>5. CASE s.feeType # "flat"
    BY <1>1, <1>2, <1>3, <1>5 DEF RawFee
  <1> QED BY <1>4, <1>5

FeeInv ==
    /\ book \in [Leg -> [Outcome -> 0..Notional]] /\ side \in Outcome
    /\ count \in Nat /\ schedule \in FeeSchedule
    /\ IsFiniteSet(bought) /\ bought \subseteq Leg /\ active \subseteq Leg
    /\ fees \in Nat /\ raw \in Nat
    /\ FeesCoverRaw

\* Nothing bought costs no fee.
LEMMA InitFees == Init => FeeInv
  <1> SUFFICES ASSUME Init PROVE FeeInv
    OBVIOUS
  <1>1. book \in [Leg -> [Outcome -> 0..Notional]]
    BY PriceAssumption DEF Init
  <1>2. count \in Nat /\ schedule \in FeeSchedule /\ active \subseteq Leg
    BY CountAssumption, SchedulesAssumption, ActiveAssumption DEF Init
  <1>3. IsFiniteSet({}) /\ Cardinality({}) = 0
    BY FS_EmptySet
  <1>4. FeesCoverRaw
    BY <1>3, FeeUnitIsPositive DEF Init, FeesCoverRaw
  <1> QED BY <1>1, <1>2, <1>3, <1>4 DEF Init, FeeInv

\* One more order is covered, and so is the basket with it.
LEMMA BuyKeepsFees ==
  ASSUME FeeInv, NEW l \in Leg, Buy(l)
  PROVE  FeeInv'
  <1> DEFINE p == DeriveAsk(l, side)
             more == RawFee(schedule, role, count, p)
             fee == CalculateFee(schedule, role, count, p)
             n == Cardinality(bought)
  <1>1. p \in 0..Notional
    <2>1. book[l][Opposite(side)] \in 0..Notional
      BY DEF FeeInv, Opposite, Outcome
    <2> QED BY <2>1, NotionalAssumption DEF DeriveAsk
  <1>2. more \in Nat /\ FeeUnit \in Nat \ {0}
    BY <1>1, RawFeeIsNat, FeeUnitIsPositive DEF FeeInv, Buy
  <1>3. fee \in Nat /\ Covers(more, fee, 1, FeeUnit)
    BY <1>2, Ceiling DEF CalculateFee
  <1>4. /\ raw' = raw + more /\ fees' = fees + fee /\ bought' = bought \union {l}
        /\ l \notin bought /\ UNCHANGED terms
    BY DEF Buy
  <1>5. IsFiniteSet(bought') /\ Cardinality(bought') = n + 1 /\ n \in Nat
    BY <1>4, FS_AddElement, FS_CardinalityType DEF FeeInv
  <1>6. raw \in Nat /\ fees \in Nat /\ Covers(raw, fees, n, FeeUnit)
    BY DEF FeeInv, FeesCoverRaw, Covers
  <1> HIDE DEF more, fee, n, p
  <1>7. Covers(raw + more, fees + fee, n + 1, FeeUnit)
    BY <1>2, <1>3, <1>5, <1>6, OneMoreOrder
  <1>8. Covers(raw', fees', Cardinality(bought'), FeeUnit)
    BY <1>4, <1>5, <1>7
  <1>9. FeesCoverRaw'
    BY <1>8 DEF FeesCoverRaw, Covers
  <1> QED BY <1>2, <1>3, <1>4, <1>5, <1>9 DEF FeeInv, terms

\* Only Buy changes what was paid.
LEMMA NextFees == FeeInv /\ [Next]_vars => FeeInv'
  <1> SUFFICES ASSUME FeeInv, [Next]_vars PROVE FeeInv'
    OBVIOUS
  <1>1. ASSUME NEW l \in Leg, Buy(l) PROVE FeeInv'
    BY <1>1, BuyKeepsFees
  <1>2. CASE UNCHANGED <<terms, paid>>
    BY <1>2 DEF FeeInv, FeesCoverRaw, FeeUnit, terms, paid
  <1>3. Refuse \/ PriceBasket \/ Settle \/ UNCHANGED vars => UNCHANGED <<terms, paid>>
    BY DEF Refuse, PriceBasket, Settle, vars
  <1> QED BY <1>1, <1>2, <1>3 DEF Next

\* Fees round every order against the trader, by less than a granule
\* (fees/model.py:232-281, types.py:101-108), for any prices, counts, rates and
\* member precision.
THEOREM FeesAreCovered == Spec => []FeesCoverRaw
  <1>1. FeeInv => FeesCoverRaw
    BY DEF FeeInv
  <1> QED BY <1>1, InitFees, NextFees, PTL DEF Spec

--------------------------------------------------------------------------------
(* Types. *)

\* A claim for some legs is a range of natural numbers.
LEMMA ClaimIsARange ==
  ASSUME bought \subseteq Leg, bought # {}, exclusivity \in Exclusivity,
         side \in Outcome, count \in Nat,
         NEW b, b = BasketPayoffBounds(exclusivity, side, Cardinality(bought))
  PROVE  /\ b.minimum \in Nat /\ b.maximum \in Nat
         /\ b.minimum <= b.maximum
  <1> DEFINE n == Cardinality(bought)
             lo == MinYes(exclusivity)
             hi == MaxYes(exclusivity, n)
             u == UnitPayoff
  <1>1. n \in Nat /\ n # 0
    <2>1. IsFiniteSet(bought)
      BY FS_Subset, LegAssumption
    <2> QED BY <2>1, FS_CardinalityType, FS_EmptySet
  <1>2. lo \in Nat /\ hi \in Nat /\ lo <= hi /\ hi <= n
    BY <1>1 DEF MinYes, MaxYes
  <1>3. u \in Nat
    BY UnitIsNat
  <1>4. /\ side = "YES" => b.minimum = lo * u /\ b.maximum = hi * u
        /\ side = "NO" => b.minimum = (n - hi) * u /\ b.maximum = (n - lo) * u
    BY DEF BasketPayoffBounds
  <1> HIDE DEF n, lo, hi, u
  <1>5. n - hi \in Nat /\ n - lo \in Nat /\ n - hi <= n - lo
    BY <1>1, <1>2
  <1>6. \A x, y \in Nat : x <= y => x * u \in Nat /\ y * u \in Nat /\ x * u <= y * u
    BY <1>3
  <1>7. CASE side = "YES"
    BY <1>2, <1>4, <1>6, <1>7
  <1>8. CASE side = "NO"
    BY <1>4, <1>5, <1>6, <1>8
  <1> QED BY <1>7, <1>8 DEF Outcome

\* The order a leg is bought with has a price and pays for something.
LEMMA OrderIsSound ==
  ASSUME FeeInv, NEW l \in Leg
  PROVE  DeriveAsk(l, side) \in 0..Notional /\ count * DeriveAsk(l, side) \in Nat
  <1>1. book[l][Opposite(side)] \in 0..Notional
    BY DEF FeeInv, Opposite, Outcome
  <1>2. DeriveAsk(l, side) \in 0..Notional
    BY <1>1, NotionalAssumption DEF DeriveAsk
  <1>3. count \in Nat /\ \A a \in 0..Notional : count * a \in Nat
    BY NotionalAssumption DEF FeeInv
  <1> QED BY <1>2, <1>3

\* The types of what Basket's orders do not touch.
ClaimTyped ==
    IF phase \in {"priced", "settled"}
    THEN /\ bounds.minimum \in Nat /\ bounds.maximum \in Nat
         /\ bounds.minimum <= bounds.maximum
    ELSE bounds = NoBounds

BasketInv == TypeOK /\ ClaimInv /\ FeeInv

\* A basket starts empty and unpriced.
LEMMA InitBasket == Init => BasketInv
  <1> SUFFICES ASSUME Init PROVE TypeOK
    BY InitClaims, InitFees DEF BasketInv
  <1> QED BY DEF Init, TypeOK

\* Every step keeps it typed.
LEMMA NextBasket == BasketInv /\ [Next]_vars => BasketInv'
  <1> SUFFICES ASSUME BasketInv, [Next]_vars PROVE TypeOK'
    BY NextClaims, NextFees DEF BasketInv
  <1>1. TypeOK /\ ClaimInv /\ FeeInv /\ ClaimInv' /\ FeeInv'
    BY NextClaims, NextFees DEF BasketInv
  <1>2. fees' \in Nat /\ raw' \in Nat
    BY <1>1 DEF FeeInv
  <1>3. phase \in {"buying", "priced", "settled", "refused"} /\ bought \subseteq active /\ cost \in Nat
    BY <1>1 DEF TypeOK
  <1>4. ASSUME NEW l \in Leg, Buy(l) PROVE TypeOK'
    <2>1. /\ UNCHANGED <<exclusivity, book, active, side, count, schedule, role, phase,
                         bounds, yes>>
          /\ l \in active /\ bought' = bought \union {l}
          /\ cost' = cost + count * DeriveAsk(l, side)
      BY <1>4 DEF Buy, terms
    <2>2. cost' \in Nat
      BY <1>1, <1>3, <2>1, OrderIsSound
    <2>3. bought' \subseteq active'
      BY <1>3, <2>1
    <2> QED BY <1>1, <1>2, <2>1, <2>2, <2>3 DEF TypeOK
  <1>5. CASE Refuse
    BY <1>1, <1>5 DEF TypeOK, Refuse, terms, paid
  <1>6. CASE PriceBasket
    <2>1. /\ UNCHANGED <<exclusivity, book, active, side, count, schedule, role, bought,
                         cost, fees, raw, yes>>
          /\ phase' = "priced"
      BY <1>6 DEF PriceBasket, terms, paid
    <2>2. /\ bought \subseteq Leg /\ bought # {} /\ exclusivity \in Exclusivity
          /\ side \in Outcome /\ count \in Nat
          /\ bounds' = BasketPayoffBounds(exclusivity, side, Cardinality(bought))
      BY <1>1, <1>6 DEF ClaimInv, PriceBasket
    <2>3. ClaimTyped'
      BY <2>1, <2>2, ClaimIsARange DEF ClaimTyped
    <2> QED BY <1>1, <2>1, <2>3 DEF TypeOK, ClaimTyped
  <1>7. CASE Settle
    <2>1. /\ UNCHANGED <<exclusivity, book, active, side, count, schedule, role, bought,
                         cost, fees, raw, bounds>>
          /\ phase = "priced" /\ phase' = "settled"
          /\ yes' \in SUBSET Leg
      BY <1>7 DEF Settle, terms, paid
    <2> QED BY <1>1, <2>1 DEF TypeOK
  <1>8. CASE UNCHANGED vars
    BY <1>1, <1>8 DEF TypeOK, vars, terms, paid
  <1> QED BY <1>4, <1>5, <1>6, <1>7, <1>8 DEF Next

\* What a basket costs and claims is a natural number, and a claim is a range
\* (contracts.py:185-231), for any schedules and books.
THEOREM BasketTyped == Spec => []TypeOK
  <1>1. BasketInv => TypeOK
    BY DEF BasketInv
  <1> QED BY <1>1, InitBasket, NextBasket, PTL DEF Spec

--------------------------------------------------------------------------------
(* Sums of quotes *)

\* The bids of an event.
Quotes == [Leg -> Price]

LEMMA QuotesTyped == ASSUME NEW f \in Quotes, NEW l \in Leg PROVE f[l] \in Int
  <1>1. f[l] \in Price
    BY DEF Quotes
  <1>2. \A p \in Price : p \in Int
    BY PriceAssumption, NotionalAssumption
  <1> QED BY <1>1, <1>2

LEMMA SumOfNone == ASSUME NEW f \in Quotes PROVE SumFunctionOnSet(f, {}) = 0
  BY LegAssumption, QuotesTyped, SumOfNumbers

LEMMA SumOfOneMore ==
  ASSUME NEW f \in Quotes, NEW legs \in SUBSET Leg, NEW l \in Leg \ legs
  PROVE  SumFunctionOnSet(f, legs \union {l}) = SumFunctionOnSet(f, legs) + f[l]
  BY LegAssumption, QuotesTyped, SumOfNumbers

\* Of the sets of legs that contain a set and are counter-examples, one is
\* smallest: less one of its other legs it is none.
LEMMA SmallestSet ==
  ASSUME NEW legs \in SUBSET Leg, NEW Bad \in SUBSET SUBSET Leg, Bad # {},
         \A s \in Bad : legs \subseteq s /\ s # legs
  PROVE  \E s \in Bad : \E l \in s \ legs : s \ {l} \notin Bad
  <1> DEFINE Sizes == {Cardinality(s) : s \in Bad}
  <1>1. \A s \in Bad : IsFiniteSet(s) /\ Cardinality(s) \in Nat
    BY FS_Subset, FS_CardinalityType, LegAssumption
  <1>2. Sizes \in SUBSET Nat /\ Sizes # {}
    BY <1>1
  <1>3. PICK m \in Sizes : \A k \in Sizes : ~(k < m)
    <2> HIDE DEF Sizes
    <2> QED BY <1>2, LeastElement, Zenon
  <1>4. PICK s \in Bad : m = Cardinality(s)
    BY <1>3
  <1>5. PICK l \in s \ legs : TRUE
    BY <1>4
  <1>6. Cardinality(s \ {l}) < m /\ Cardinality(s \ {l}) \in Nat /\ m \in Nat
    <2>1. IsFiniteSet(s \ {l}) /\ Cardinality(s \ {l}) = Cardinality(s) - 1
      BY <1>1, <1>5, FS_RemoveElement
    <2>2. Cardinality(s \ {l}) \in Nat
      BY <2>1, FS_CardinalityType
    <2> QED BY <1>1, <1>4, <2>1, <2>2
  <1>7. s \ {l} \notin Bad
    <2>1. SUFFICES ASSUME s \ {l} \in Bad PROVE FALSE
      OBVIOUS
    <2>2. Cardinality(s \ {l}) \in Sizes
      BY <2>1
    <2> QED BY <1>3, <1>6, <2>2
  <1> QED BY <1>5, <1>7

\* A sum of quotes is a number.
LEMMA SumIsInt ==
  ASSUME NEW f \in Quotes, NEW legs \in SUBSET Leg
  PROVE  SumFunctionOnSet(f, legs) \in Int
  BY LegAssumption, QuotesTyped, SumOfNumbers

\* Legs quoted at zero do not count.
LEMMA ZerosDoNotCount ==
  ASSUME NEW f \in Quotes, NEW all \in SUBSET Leg, NEW legs \in SUBSET all,
         \A l \in all \ legs : f[l] = 0
  PROVE  SumFunctionOnSet(f, all) = SumFunctionOnSet(f, legs)
  <1> DEFINE Bad == {s \in SUBSET all : /\ legs \subseteq s
                                        /\ SumFunctionOnSet(f, s) # SumFunctionOnSet(f, legs)}
  <1>1. SUFFICES ASSUME Bad # {} PROVE FALSE
    <2>1. all \notin Bad => SumFunctionOnSet(f, all) = SumFunctionOnSet(f, legs)
      BY Zenon
    <2> QED BY <2>1
  <1>2. \A s \in Bad : legs \subseteq s /\ s # legs
    BY Zenon
  <1>3. PICK s \in Bad : \E l \in s \ legs : s \ {l} \notin Bad
    <2>1. legs \in SUBSET Leg /\ Bad \in SUBSET SUBSET Leg
      OBVIOUS
    <2> HIDE DEF Bad
    <2> QED BY <1>1, <1>2, <2>1, SmallestSet, Zenon
  <1>4. PICK l \in s \ legs : s \ {l} \notin Bad
    BY <1>3
  <1>5. /\ s \ {l} \in SUBSET Leg /\ l \in Leg \ (s \ {l}) /\ (s \ {l}) \union {l} = s
        /\ l \in all \ legs /\ legs \subseteq s \ {l} /\ s \ {l} \in SUBSET all
    BY <1>3, <1>4
  <1>6. /\ SumFunctionOnSet(f, s \ {l}) = SumFunctionOnSet(f, legs)
        /\ SumFunctionOnSet(f, s) # SumFunctionOnSet(f, legs)
    BY <1>3, <1>4, <1>5, Zenon
  <1>7. SumFunctionOnSet(f, s) = SumFunctionOnSet(f, s \ {l}) + f[l] /\ f[l] = 0
    BY <1>5, SumOfOneMore, Zenon
  <1>8. SumFunctionOnSet(f, legs) \in Int
    BY SumIsInt
  <1> QED BY <1>6, <1>7, <1>8

--------------------------------------------------------------------------------
(* The overround *)

\* What has been paid for the NO legs bought.
EdgeInv ==
    side = "NO" =>
        cost = count * (Cardinality(bought) * Notional - SumFunctionOnSet(YesBids, bought))

LEMMA BookIsQuoted ==
  ASSUME TypeOK
  PROVE  YesBids \in Quotes
  <1>1. book \in [Leg -> [Outcome -> Price]]
    BY DEF TypeOK
  <1>2. YesBids \in [Leg -> Price]
    BY <1>1 DEF YesBids, Outcome
  <1> QED BY <1>2 DEF Quotes

\* A count of legs, each at its own price.
LEMMA OneMorePrice ==
  ASSUME NEW c \in Int, NEW s \in Int, NEW q \in Int
  PROVE  c * s + c * q = c * (s + q)
  OBVIOUS

LEMMA BoughtTyped ==
  ASSUME BasketInv
  PROVE  /\ bought \in SUBSET Leg /\ IsFiniteSet(bought) /\ Cardinality(bought) \in Nat
         /\ count \in Nat /\ Notional \in Nat /\ active \in SUBSET Leg
  <1>1. bought \in SUBSET Leg /\ count \in Nat /\ active \in SUBSET Leg
    BY DEF BasketInv, ClaimInv
  <1> QED BY <1>1, FS_Subset, FS_CardinalityType, LegAssumption, NotionalAssumption

LEMMA InitEdge == Init => EdgeInv
  <1> SUFFICES ASSUME Init PROVE EdgeInv
    OBVIOUS
  <1>1. YesBids \in Quotes
    BY InitBasket, BookIsQuoted DEF BasketInv
  <1>2. SumFunctionOnSet(YesBids, bought) = 0
    BY <1>1, SumOfNone DEF Init
  <1>3. Cardinality(bought) = 0 /\ count \in Nat /\ Notional \in Nat /\ cost = 0
    BY FS_EmptySet, CountAssumption, NotionalAssumption DEF Init
  <1>4. count * (0 * Notional - 0) = 0
    BY <1>3
  <1> QED BY <1>2, <1>3, <1>4 DEF EdgeInv

LEMMA BuyKeepsEdge ==
  ASSUME BasketInv, EdgeInv, NEW l \in Leg, Buy(l)
  PROVE  EdgeInv'
  <1>1. /\ l \in Leg \ bought /\ bought' = bought \union {l}
        /\ cost' = cost + count * DeriveAsk(l, side)
        /\ book' = book /\ side' = side /\ count' = count
    BY DEF Buy, terms
  <1>2. PICK bids : bids = YesBids
    OBVIOUS
  <1>3. bids' = YesBids'
    BY <1>1, <1>2 DEF YesBids
  <1>4. bids \in Quotes
    BY <1>2, BookIsQuoted DEF BasketInv
  <1>5. bids[l] = book[l]["YES"]
    BY <1>2 DEF YesBids
  <1>6. PICK n : n = Cardinality(bought)
    OBVIOUS
  <1>7. /\ n \in Nat /\ Cardinality(bought') = n + 1
        /\ count \in Int /\ Notional \in Int
    BY <1>1, <1>6, BoughtTyped, FS_AddElement
  <1>8. CASE side = "NO"
    <2>1. PICK s : s = SumFunctionOnSet(bids, bought)
      OBVIOUS
    <2>2. SumFunctionOnSet(bids, bought') = s + bids[l]
      BY <1>1, <1>4, <2>1, BoughtTyped, SumOfOneMore, Zenon
    <2>3. s \in Int /\ bids[l] \in Int
      BY <1>4, <2>1, BoughtTyped, SumIsInt, QuotesTyped
    <2>4. cost' = count * (n * Notional - s) + count * (Notional - bids[l])
      BY <1>1, <1>2, <1>5, <1>6, <1>8, <2>1 DEF EdgeInv, DeriveAsk, Opposite
    <2>5. (n + 1) * Notional = n * Notional + Notional /\ n * Notional \in Int
      BY <1>7
    <2>6. /\ n * Notional - s \in Int /\ Notional - bids[l] \in Int
          /\ (n * Notional - s) + (Notional - bids[l]) = (n + 1) * Notional - (s + bids[l])
      BY <1>7, <2>3, <2>5
    <2>7. cost' = count * ((n + 1) * Notional - (s + bids[l]))
      BY <1>7, <2>4, <2>6, OneMorePrice
    <2>8. cost' = count' * (Cardinality(bought') * Notional - SumFunctionOnSet(YesBids', bought'))
      BY <1>1, <1>2, <1>3, <1>7, <2>2, <2>7
    <2> QED BY <1>1, <1>8, <2>8 DEF EdgeInv
  <1> QED BY <1>1, <1>8 DEF EdgeInv

LEMMA NextEdge == BasketInv /\ EdgeInv /\ [Next]_vars => EdgeInv'
  <1> SUFFICES ASSUME BasketInv, EdgeInv, [Next]_vars PROVE EdgeInv'
    OBVIOUS
  <1>1. CASE \E l \in Leg : Buy(l)
    BY <1>1, BuyKeepsEdge
  <1>2. CASE UNCHANGED <<book, side, count, bought, cost>>
    BY <1>2 DEF EdgeInv, YesBids
  <1> QED BY <1>1, <1>2 DEF Next, Refuse, PriceBasket, Settle, vars, terms, paid

\* The gross edge of n legs at unit value u, of which all but one pay.
LEMMA OverroundOf ==
  ASSUME NEW c \in Int, NEW n \in Int, NEW u \in Int, NEW s \in Int
  PROVE  (n - 1) * (c * u) - c * (n * u - s) = c * (s - u)
  <1>1. (n - 1) * (c * u) = n * (c * u) - c * u
    OBVIOUS
  <1>2. c * (n * u - s) = c * (n * u) - c * s
    OBVIOUS
  <1>3. n * (c * u) = c * (n * u)
    OBVIOUS
  <1>4. c * (s - u) = c * s - c * u
    OBVIOUS
  <1>5. /\ c * u \in Int /\ n * (c * u) \in Int /\ c * s \in Int /\ c * (n * u) \in Int
    OBVIOUS
  <1> QED BY <1>1, <1>2, <1>3, <1>4, <1>5

\* The overround that models.py reports for an event and the worst payoff that
\* contracts.py claims for a basket of it are one account: every NO leg that is offered,
\* bought at the ask derived for it, leaves the overround as the gross edge
\* (models.py:275-285, contracts.py:127-139, 185-240), for any event, prices and counts.
THEOREM OverroundIsGrossEdge == Spec => []OverroundIsEdge
  <1>1. BasketInv /\ EdgeInv => OverroundIsEdge
    <2> SUFFICES ASSUME BasketInv, EdgeInv, phase = "priced",
                        side = "NO", exclusivity # "UNCONSTRAINED",
                        bought = {l \in active : HasAsk(l, "NO")}
                 PROVE  bounds.minimum - cost = count * (YesBidSum - Notional)
      BY DEF OverroundIsEdge, GuaranteedGrossEdge
    <2>1. /\ exclusivity \in Exclusivity
          /\ bounds = BasketPayoffBounds(exclusivity, side, Cardinality(bought))
          /\ bought \subseteq active
      BY DEF BasketInv, ClaimInv, TypeOK
    <2>2. YesBids \in Quotes
      BY BookIsQuoted DEF BasketInv
    <2>3. PICK n : n = Cardinality(bought)
      OBVIOUS
    <2>4. \A l \in active \ bought : YesBids[l] = 0
      <3>1. \A l \in active : l \in Leg /\ YesBids[l] = book[l]["YES"]
        BY BoughtTyped DEF YesBids
      <3>2. \A l \in active \ bought : ~(book[l]["YES"] > 0)
        BY DEF HasAsk, Opposite
      <3>3. \A l \in active : book[l]["YES"] \in Nat
        <4>1. \A l \in active : book[l]["YES"] \in Price
          BY <3>1 DEF BasketInv, TypeOK, Outcome
        <4>2. Price \subseteq Nat
          BY PriceAssumption, NotionalAssumption
        <4> QED BY <4>1, <4>2
      <3> QED BY <3>1, <3>2, <3>3
    <2>5. YesBidSum = SumFunctionOnSet(YesBids, bought)
      BY <2>1, <2>2, <2>4, BoughtTyped, ZerosDoNotCount, Zenon DEF YesBidSum
    <2>6. bounds.minimum = (n - 1) * (count * Notional)
      BY <2>1, <2>3 DEF BasketPayoffBounds, MaxYes, UnitPayoff, Exclusivity
    <2>7. cost = count * (n * Notional - YesBidSum)
      BY <2>3, <2>5 DEF EdgeInv
    <2>8. YesBidSum \in Int /\ n \in Int /\ count \in Int /\ Notional \in Int
      BY <2>2, <2>3, <2>5, BoughtTyped, SumIsInt
    <2> QED BY <2>6, <2>7, <2>8, OverroundOf
  <1> QED BY <1>1, InitBasket, NextBasket, InitEdge, NextEdge, PTL DEF Spec

--------------------------------------------------------------------------------
(* The tick grid *)

\* A set of natural numbers that is not empty has a least element.
LEMMA LeastOf ==
  ASSUME NEW T \in SUBSET Nat, T # {}
  PROVE  Min(T) \in T /\ \A k \in T : Min(T) <= k
  <1>1. PICK m \in T : \A k \in T : ~(k < m)
    BY LeastElement, Zenon
  <1>2. \E x \in T : \A y \in T : x =< y
    BY <1>1
  <1> QED BY <1>2, Zenon DEF Min

\* A band is a range of prices divided into whole steps.
LEMMA BandTyped ==
  ASSUME NEW i \in DOMAIN Bands
  PROVE  /\ i \in Nat /\ i >= 1
         /\ Bands[i].start \in Nat /\ Bands[i].end \in Nat /\ Bands[i].end <= Notional
         /\ Bands[i].step \in Nat \ {0}
         /\ Bands[i].start < Bands[i].end
         /\ (Bands[i].end - Bands[i].start) % Bands[i].step = 0
  <1> DEFINE Band == [start : 0..Notional, end : 0..Notional, step : Nat \ {0}]
  <1>1. Bands \in Seq(Band)
    BY BandsAssumption
  <1> HIDE DEF Band
  <1>2. DOMAIN Bands = 1..Len(Bands) /\ Len(Bands) \in Nat /\ i \in 1..Len(Bands)
    BY <1>1
  <1>3. Bands[i] \in Band
    BY <1>1, <1>2
  <1>4. Bands[i].start \in 0..Notional /\ Bands[i].end \in 0..Notional
        /\ Bands[i].step \in Nat \ {0}
    BY <1>3 DEF Band
  <1> QED BY <1>2, <1>4, NotionalAssumption, BandsAssumption

\* A band begins where the one before it ends.
LEMMA BandsAdjoin ==
  ASSUME NEW i \in DOMAIN Bands, i > 1
  PROVE  i - 1 \in DOMAIN Bands /\ Bands[i].start = Bands[i - 1].end
  <1> DEFINE Band == [start : 0..Notional, end : 0..Notional, step : Nat \ {0}]
  <1>1. Bands \in Seq(Band)
    BY BandsAssumption
  <1> HIDE DEF Band
  <1>2. DOMAIN Bands = 1..Len(Bands) /\ Len(Bands) \in Nat /\ i \in 1..Len(Bands)
    BY <1>1
  <1>3. i - 1 \in DOMAIN Bands
    BY <1>2
  <1>4. \A k \in DOMAIN Bands : k > 1 => Bands[k].start = Bands[k - 1].end
    BY BandsAssumption
  <1> QED BY <1>3, <1>4

\* Bands are listed in the order of their prices.
LEMMA BandsInOrder ==
  ASSUME NEW i \in DOMAIN Bands, NEW j \in DOMAIN Bands, i < j
  PROVE  Bands[i].end <= Bands[j].start
  <1> DEFINE late == {k \in DOMAIN Bands : i < k /\ ~(Bands[i].end <= Bands[k].start)}
  <1>1. SUFFICES ASSUME late # {} PROVE FALSE
    OBVIOUS
  <1>2. late \in SUBSET Nat
    BY BandTyped
  <1>3. PICK k \in late : \A l \in late : k <= l
    BY <1>1, <1>2, LeastOf
  <1>4. /\ k \in DOMAIN Bands /\ i < k /\ ~(Bands[i].end <= Bands[k].start)
        /\ i \in Nat /\ i >= 1 /\ k \in Nat
    BY <1>3, BandTyped
  <1>5. k - 1 \in DOMAIN Bands /\ Bands[k].start = Bands[k - 1].end
    BY <1>4, BandsAdjoin
  <1>6. CASE k - 1 = i
    BY <1>4, <1>5, <1>6, BandTyped
  <1>7. CASE k - 1 # i
    <2>1. i < k - 1 /\ ~(k <= k - 1)
      BY <1>4, <1>7
    <2>2. Bands[i].end <= Bands[k - 1].start
      BY <1>3, <1>5, <2>1
    <2> QED BY <1>4, <1>5, <2>2, BandTyped
  <1> QED BY <1>6, <1>7

\* A multiple of d stays one when d is taken away.
LEMMA OneStepLess ==
  ASSUME NEW a \in Int, NEW d \in Nat \ {0}, a % d = 0
  PROVE  (a - d) % d = 0
  <1>1. a = d * (a \div d) /\ (a \div d) \in Int
    OBVIOUS
  <1> DEFINE q == a \div d
             r == (a - d) \div d
             m == (a - d) % d
  <1>2. q \in Int /\ r \in Int /\ m \in Int /\ 0 <= m /\ m < d /\ a - d = d * r + m
    OBVIOUS
  <1> HIDE DEF q, r, m
  <1>3. d * (q - 1 - r) = m
    BY <1>1, <1>2 DEF q
  <1>4. q - 1 - r <= 0 /\ q - 1 - r >= 0
    BY <1>2, <1>3
  <1>5. m = 0
    BY <1>2, <1>3, <1>4
  <1> QED BY <1>5 DEF m

\* The band tick_at() takes the step from holds the price as a point of its grid.
LEMMA FirstBandHolds ==
  ASSUME NEW p \in Nat, IsValidPrice(p), TickAt(p) # None
  PROVE  \E i \in DOMAIN Bands :
            /\ IsOnGrid(Bands[i], p) /\ TickAt(p) = Bands[i].step
            /\ i > 1 => Bands[i].start < p
  <1> DEFINE holding == {i \in DOMAIN Bands : BandContains(Bands[i], p)}
             first == Min(holding)
  <1>1. holding # {} /\ TickAt(p) = Bands[first].step
    BY DEF TickAt
  <1>2. holding \in SUBSET Nat
    BY BandTyped
  <1>3. first \in holding /\ \A k \in holding : first <= k
    BY <1>1, <1>2, LeastOf
  <1> HIDE DEF first
  <1>4. first \in DOMAIN Bands /\ Bands[first].start <= p /\ p <= Bands[first].end
    BY <1>3 DEF BandContains
  <1>5. PICK j \in DOMAIN Bands : IsOnGrid(Bands[j], p)
    <2>1. Bands # <<>>
      BY <1>4, BandTyped
    <2> QED BY <2>1 DEF IsValidPrice
  <1>6. first <= j
    BY <1>3, <1>5 DEF IsOnGrid
  <1>7. IsOnGrid(Bands[first], p)
    <2>1. CASE first = j
      BY <1>5, <2>1
    <2>2. CASE first # j
      <3>1. Bands[first].end <= Bands[j].start
        BY <1>4, <1>6, <2>2, BandTyped, BandsInOrder
      <3>2. p = Bands[first].end
        <4>1. Bands[j].start <= p /\ Bands[j].start \in Nat /\ Bands[first].end \in Nat
          BY <1>4, <1>5, BandTyped DEF IsOnGrid, BandContains
        <4> QED BY <1>4, <3>1, <4>1
      <3> QED BY <1>4, <3>2, BandTyped DEF IsOnGrid, BandContains
    <2> QED BY <2>1, <2>2
  <1>8. ASSUME first > 1 PROVE Bands[first].start < p
    <2>1. SUFFICES ASSUME Bands[first].start = p PROVE FALSE
      BY <1>4, BandTyped
    <2>2. first - 1 \in DOMAIN Bands /\ Bands[first].start = Bands[first - 1].end
      BY <1>4, <1>8, BandsAdjoin
    <2>3. first - 1 \in holding
      BY <2>1, <2>2, BandTyped DEF BandContains
    <2> QED BY <1>3, <1>4, <2>3, BandTyped
  <1> QED BY <1>1, <1>4, <1>7, <1>8 DEF first

\* A price stepped down by tick_at() is a valid price, unless it leaves the grid.
LEMMA StepStaysOnGrid ==
  ASSUME NEW p \in 0..Notional, IsValidPrice(p), TickAt(p) # None,
         NEW low \in Nat, Bands # <<>> => Bands[1].start <= low,
         p - TickAt(p) > low
  PROVE  p - TickAt(p) \in 0..Notional /\ IsValidPrice(p - TickAt(p))
  <1>1. p \in Nat /\ p <= Notional /\ Notional \in Nat
    BY NotionalAssumption
  <1>2. PICK i \in DOMAIN Bands :
            /\ IsOnGrid(Bands[i], p) /\ TickAt(p) = Bands[i].step
            /\ i > 1 => Bands[i].start < p
    BY <1>1, FirstBandHolds
  <1> DEFINE d == Bands[i].step
             s == Bands[i].start
  <1>3. /\ i \in Nat /\ i >= 1 /\ s \in Nat /\ d \in Nat \ {0} /\ Bands[i].end \in Nat
        /\ s <= p /\ p <= Bands[i].end /\ (p - s) % d = 0 /\ p - d > low
    BY <1>2, BandTyped DEF IsOnGrid, BandContains
  <1>4. Bands # <<>>
    BY <1>3
  <1>5. s < p
    <2>1. CASE i = 1
      BY <1>3, <1>4, <2>1
    <2>2. CASE i # 1
      BY <1>2, <1>3, <2>2
    <2> QED BY <2>1, <2>2
  <1> HIDE DEF d, s
  <1>6. (p - s - d) % d = 0
    <2>1. p - s \in Int
      BY <1>1, <1>3
    <2> QED BY <1>3, <2>1, OneStepLess
  <1>7. p - s - d >= 0
    <2> DEFINE q == (p - s) \div d
    <2>1. p - s \in Int /\ p - s > 0 /\ d \in Int /\ d > 0
      BY <1>1, <1>3, <1>5
    <2>2. p - s = d * q /\ q \in Int
      BY <1>3, <2>1
    <2> HIDE DEF q
    <2>3. q >= 1
      BY <2>1, <2>2
    <2>4. d * q >= d
      BY <2>1, <2>2, <2>3
    <2> QED BY <2>1, <2>2, <2>4
  <1>8. p - d - s = p - s - d /\ p - d \in Int /\ s <= p - d /\ p - d <= Bands[i].end
    BY <1>1, <1>3, <1>7
  <1>9. IsOnGrid(Bands[i], p - d)
    BY <1>6, <1>8 DEF IsOnGrid, BandContains, d, s
  <1>10. p - d \in 0..Notional
    BY <1>1, <1>3
  <1> QED BY <1>2, <1>4, <1>9, <1>10 DEF IsValidPrice, d

--------------------------------------------------------------------------------
(* The order a position was entered with *)

\* A basket of one leg cost what one order costs, and its fee is one order's.
OneOrder ==
    /\ bought # {} => FeeModelled(schedule)
    /\ bought = {} => cost = 0 /\ fees = 0
    /\ \A l \in Leg : bought = {l} =>
         /\ cost = count * DeriveAsk(l, side)
         /\ fees = CalculateFee(schedule, role, count, DeriveAsk(l, side))

\* The first order of a basket is its only one.
LEMMA BuyOneOrder ==
  ASSUME BasketInv, OneOrder, NEW l \in Leg, Buy(l)
  PROVE  OneOrder'
  <1> DEFINE p == DeriveAsk(l, side)
             fee == CalculateFee(schedule, role, count, p)
  <1>1. /\ UNCHANGED <<book, side, count, schedule, role>>
        /\ FeeModelled(schedule)
        /\ bought' = bought \union {l} /\ l \notin bought
        /\ cost' = cost + count * p /\ fees' = fees + fee
    BY DEF Buy, terms
  <1>2. FeeInv
    BY DEF BasketInv
  <1>3. p \in 0..Notional /\ count * p \in Nat /\ count \in Nat /\ schedule \in FeeSchedule
    BY <1>2, OrderIsSound DEF FeeInv
  <1>4. fee \in Nat
    BY <1>1, <1>3, RawFeeIsNat, FeeUnitIsPositive, Ceiling DEF CalculateFee
  <1>5. ASSUME NEW k \in Leg, bought' = {k}
        PROVE  /\ cost' = count * DeriveAsk(k, side)
               /\ fees' = CalculateFee(schedule, role, count, DeriveAsk(k, side))
    <2>1. k = l /\ bought = {}
      BY <1>1, <1>5
    <2>2. cost = 0 /\ fees = 0
      BY <2>1 DEF OneOrder
    <2> HIDE DEF p, fee
    <2>3. cost' = count * p /\ fees' = fee
      BY <1>1, <1>3, <1>4, <2>2
    <2> QED BY <2>1, <2>3 DEF p, fee
  <1> QED BY <1>1, <1>5 DEF OneOrder, DeriveAsk

\* The other steps buy nothing.
LEMMA NextOneOrder ==
  ASSUME BasketInv, OneOrder, [Next]_vars
  PROVE  OneOrder'
  <1>1. ASSUME NEW l \in Leg, Buy(l) PROVE OneOrder'
    BY <1>1, BuyOneOrder
  <1>2. CASE UNCHANGED <<terms, paid>>
    BY <1>2 DEF OneOrder, DeriveAsk, terms, paid
  <1>3. Refuse \/ PriceBasket \/ Settle \/ UNCHANGED vars => UNCHANGED <<terms, paid>>
    BY DEF Refuse, PriceBasket, Settle, vars
  <1> QED BY <1>1, <1>2, <1>3 DEF Next

\* The prices of a position in one market: what it was bought at and what it
\* could be sold for lie the spread apart.
LEMMA HeldPrices ==
  ASSUME BasketInv, OneOrder, Holding
  PROVE  LET ask == DeriveAsk(Held, side)
         IN  /\ Held \in Leg /\ side \in Outcome /\ count \in Nat
             /\ schedule \in FeeSchedule /\ FeeModelled(schedule)
             /\ Bid \in Price /\ Bid > 0 /\ Bid \in 0..Notional /\ ask \in 0..Notional
             /\ EffectiveSpread(Held) = ask - Bid
             /\ cost = count * ask
             /\ fees = CalculateFee(schedule, role, count, ask)
  <1>1. FeeInv /\ TypeOK /\ side \in Outcome
    BY DEF BasketInv, FeeInv
  <1>2. bought = {Held} /\ Held \in Leg
    <2>1. IsFiniteSet(bought) /\ Cardinality(bought) = 1 /\ bought \subseteq Leg
      BY <1>1 DEF FeeInv, Holding
    <2>2. PICK l : bought = {l}
      BY <2>1, FS_Singleton
    <2> QED BY <2>1, <2>2 DEF Held
  <1>3. book[Held] \in [Outcome -> Price]
    BY <1>1, <1>2 DEF TypeOK
  <1>4. /\ book[Held]["YES"] \in Price /\ book[Held]["NO"] \in Price
        /\ book[Held]["YES"] \in 0..Notional /\ book[Held]["NO"] \in 0..Notional
        /\ book[Held]["YES"] > 0 /\ book[Held]["NO"] > 0
    BY <1>3, PriceAssumption DEF Outcome, Holding, IsTwoSided
  <1>5. Notional \in Nat
    BY NotionalAssumption
  <1>6. /\ Bid \in Price /\ Bid > 0 /\ Bid \in 0..Notional
        /\ DeriveAsk(Held, side) \in 0..Notional
        /\ EffectiveSpread(Held) = DeriveAsk(Held, side) - Bid
    <2>1. CASE side = "YES"
      BY <1>4, <1>5, <2>1 DEF Bid, DeriveAsk, Opposite, EffectiveSpread
    <2>2. CASE side = "NO"
      BY <1>4, <1>5, <2>2 DEF Bid, DeriveAsk, Opposite, EffectiveSpread
    <2> QED BY <1>1, <2>1, <2>2 DEF Outcome
  <1>7. /\ cost = count * DeriveAsk(Held, side)
        /\ fees = CalculateFee(schedule, role, count, DeriveAsk(Held, side))
        /\ FeeModelled(schedule)
    BY <1>2 DEF OneOrder
  <1>8. count \in Nat /\ schedule \in FeeSchedule
    BY <1>1 DEF FeeInv
  <1> QED BY <1>1, <1>2, <1>6, <1>7, <1>8

--------------------------------------------------------------------------------
(* Closing it *)

ExitTyped ==
    /\ exit \in Exit
    /\ offer \in 0..Notional \union {NoOffer}
    /\ (offer = NoOffer) = (exit # "working")
    /\ proceeds \in Int
    /\ exitFees \in Nat

\* Only a position in one market is closed, and never offered above what it was
\* bought at.
ExitOfHeld ==
    /\ exit # "none" => Holding
    /\ exit = "working" => offer <= DeriveAsk(Held, side)

TripInv ==
    /\ BasketInv /\ OneOrder
    /\ ExitTyped /\ ExitOfHeld
    /\ OffersOnGrid
    /\ RoundTripLosesSpread
    /\ ExitsCostTheSame

\* Nothing is being closed at first.
LEMMA InitTrip == TripInit => TripInv
  <1> SUFFICES ASSUME TripInit PROVE TripInv
    OBVIOUS
  <1>1. BasketInv
    BY InitBasket DEF TripInit
  <1>2. OneOrder
    BY DEF TripInit, Init, OneOrder
  <1>3. bought = {}
    BY DEF TripInit, Init
  <1>4. OneOrder
    <2>1. \A l \in Leg : bought # {l}
      BY <1>3
    <2> QED BY <1>3, <2>1 DEF TripInit, Init, OneOrder
  <1> QED BY <1>1, <1>4 DEF TripInit, TripInv, ExitTyped, Exit, ExitOfHeld, OffersOnGrid,
             RoundTripLosesSpread, ExitsCostTheSame

\* Before a position is closed there is nothing to say of its exit.
LEMMA BasketStepKeeps == TripInv /\ BasketStep => TripInv'
  <1> SUFFICES ASSUME TripInv, BasketStep PROVE TripInv'
    OBVIOUS
  <1>1. BasketInv /\ OneOrder /\ [Next]_vars
    BY DEF TripInv, BasketStep
  <1>2. BasketInv' /\ OneOrder'
    BY <1>1, NextBasket, NextOneOrder
  <1>3. exit = "none" /\ UNCHANGED <<exit, offer, proceeds, exitFees>>
    BY DEF BasketStep, exitVars
  <1> QED BY <1>2, <1>3 DEF TripInv, ExitTyped, ExitOfHeld, OffersOnGrid,
             RoundTripLosesSpread, ExitsCostTheSame

\* An exit leaves the position, its book and its prices as they are.
LEMMA SamePosition ==
  ASSUME TripInv, UNCHANGED vars
  PROVE  /\ BasketInv' /\ OneOrder' /\ Holding' = Holding
         /\ Held' = Held /\ Bid' = Bid
         /\ DeriveAsk(Held, side)' = DeriveAsk(Held, side)
         /\ EffectiveSpread(Held)' = EffectiveSpread(Held)
         /\ UNCHANGED <<side, count, schedule, role, cost, fees>>
  <1>1. BasketInv' /\ OneOrder'
    <2>1. BasketInv /\ OneOrder /\ [Next]_vars
      BY DEF TripInv
    <2> QED BY <2>1, NextBasket, NextOneOrder
  <1>2. UNCHANGED <<book, side, count, schedule, role, phase, bought, cost, fees>>
    BY DEF vars, terms, paid
  <1>3. Held' = Held
    BY <1>2 DEF Held
  <1> QED BY <1>1, <1>2, <1>3 DEF Holding, IsTwoSided, Bid, DeriveAsk, EffectiveSpread

\* Of the exits only the one taken has a result to keep.
LEMMA TripKept ==
  ASSUME BasketInv', OneOrder', Holding', ExitTyped', ExitOfHeld',
         OffersOnGrid', RoundTripLosesSpread', ExitsCostTheSame'
  PROVE  TripInv'
  BY DEF TripInv

\* An offer at the ask is above the bid, and on the grid by its guard.
LEMMA OfferKeeps == TripInv /\ Offer => TripInv'
  <1> SUFFICES ASSUME TripInv, Offer PROVE TripInv'
    OBVIOUS
  <1>1. /\ BasketInv' /\ OneOrder' /\ Holding' = Holding
        /\ Bid' = Bid /\ DeriveAsk(Held, side)' = DeriveAsk(Held, side)
    BY SamePosition DEF Offer
  <1>2. /\ exit' = "working" /\ offer' = DeriveAsk(Held, side) /\ Holding
        /\ DeriveAsk(Held, side) > Bid
        /\ IsValidPrice(offer') /\ UNCHANGED <<proceeds, exitFees>>
    BY DEF Offer
  <1>3. DeriveAsk(Held, side) \in 0..Notional
    BY <1>2, HeldPrices DEF TripInv
  <1>4. ExitTyped'
    BY <1>2, <1>3, NoOfferAssumption, NotionalAssumption DEF TripInv, ExitTyped, Exit
  <1>5. ExitOfHeld'
    BY <1>1, <1>2, <1>3 DEF ExitOfHeld
  <1>6. OffersOnGrid'
    BY <1>1, <1>2 DEF OffersOnGrid, IsValidPrice
  <1>7. RoundTripLosesSpread' /\ ExitsCostTheSame'
    BY <1>2 DEF RoundTripLosesSpread, ExitsCostTheSame
  <1> QED BY <1>1, <1>2, <1>4, <1>5, <1>6, <1>7, TripKept

\* A tick down from a price on the grid and above the bid is on the grid.
LEMMA StepDownKeeps == TripInv /\ StepDown => TripInv'
  <1> SUFFICES ASSUME TripInv, StepDown PROVE TripInv'
    OBVIOUS
  <1>1. /\ BasketInv' /\ OneOrder' /\ Holding' = Holding
        /\ Bid' = Bid /\ DeriveAsk(Held, side)' = DeriveAsk(Held, side)
    BY SamePosition DEF StepDown
  <1>2. /\ exit = "working" /\ exit' = "working" /\ UNCHANGED <<proceeds, exitFees>>
        /\ TickAt(offer) # None /\ offer - TickAt(offer) > Bid
        /\ offer' = offer - TickAt(offer)
    BY DEF StepDown
  <1>3. /\ Holding /\ offer <= DeriveAsk(Held, side) /\ IsValidPrice(offer)
        /\ offer \in 0..Notional
    BY <1>2 DEF TripInv, ExitOfHeld, OffersOnGrid, ExitTyped
  <1>4. /\ DeriveAsk(Held, side) \in 0..Notional /\ Bid \in Nat
        /\ Bands # <<>> => Bands[1].start <= Bid
    BY <1>3, HeldPrices, QuotedAssumption DEF TripInv
  <1>5. offer' \in 0..Notional /\ IsValidPrice(offer')
    BY <1>2, <1>3, <1>4, StepStaysOnGrid
  <1>6. offer' <= offer
    <2>1. PICK i \in DOMAIN Bands : TickAt(offer) = Bands[i].step
      BY <1>2, <1>3, FirstBandHolds
    <2> QED BY <1>2, <1>3, <2>1, BandTyped
  <1>7. ExitTyped'
    BY <1>2, <1>5, NoOfferAssumption, NotionalAssumption DEF TripInv, ExitTyped, Exit
  <1>8. ExitOfHeld'
    BY <1>1, <1>3, <1>4, <1>5, <1>6, NotionalAssumption DEF ExitOfHeld
  <1>9. OffersOnGrid'
    BY <1>1, <1>2, <1>5 DEF OffersOnGrid
  <1>10. RoundTripLosesSpread' /\ ExitsCostTheSame'
    BY <1>2 DEF RoundTripLosesSpread, ExitsCostTheSame
  <1> QED BY <1>1, <1>3, <1>7, <1>8, <1>9, <1>10, TripKept

\* The fee on a closing order is a natural number.
LEMMA ClosingFeeIsNat ==
  ASSUME TripInv, Holding, NEW r, NEW p \in 0..Notional
  PROVE  CalculateFee(schedule, r, count, p) \in Nat
  <1>1. schedule \in FeeSchedule /\ FeeModelled(schedule) /\ count \in Nat
    BY HeldPrices DEF TripInv
  <1> QED BY <1>1, RawFeeIsNat, FeeUnitIsPositive, Ceiling DEF CalculateFee

\* A closed position stays what it was, with no offer left.
LEMMA CloseKeeps ==
  ASSUME TripInv, Holding, NEW how \in {"filled", "hit", "hedged"},
         NEW p \in 0..Notional, NEW received \in Int, NEW r,
         Close(how, p, received, r)
  PROVE  BasketInv' /\ OneOrder' /\ Holding' /\ ExitTyped' /\ ExitOfHeld' /\ OffersOnGrid'
  <1>1. BasketInv' /\ OneOrder' /\ Holding'
    BY SamePosition DEF Close
  <1>2. CalculateFee(schedule, r, count, p) \in Nat
    BY ClosingFeeIsNat
  <1>3. /\ exit' = how /\ offer' = NoOffer /\ proceeds' = received
        /\ exitFees' = CalculateFee(schedule, r, count, p)
    BY DEF Close
  <1> QED BY <1>1, <1>2, <1>3 DEF ExitTyped, Exit, ExitOfHeld, OffersOnGrid

\* A price times the contracts held is a natural number, and more for more.
LEMMA Proceeds ==
  ASSUME NEW c \in Nat, NEW a \in Nat, NEW b \in Nat, a <= b
  PROVE  /\ c * a \in Nat /\ c * b \in Nat /\ c * a <= c * b
         /\ c * b - c * a = c * (b - a)
  OBVIOUS

\* Somebody who takes the offer pays between the bid and the ask.
LEMMA FillKeeps == TripInv /\ Fill => TripInv'
  <1> SUFFICES ASSUME TripInv, Fill PROVE TripInv'
    OBVIOUS
  <1>1. exit = "working" /\ Close("filled", offer, count * offer, "maker")
    BY DEF Fill
  <1> DEFINE ask == DeriveAsk(Held, side)
  <1>2. /\ Holding /\ offer <= ask /\ offer > Bid /\ offer \in 0..Notional
    BY <1>1 DEF TripInv, ExitOfHeld, OffersOnGrid, ExitTyped
  <1>3. /\ ask \in 0..Notional /\ Bid \in 0..Notional /\ count \in Nat
        /\ cost = count * ask /\ EffectiveSpread(Held) = ask - Bid
    BY <1>2, HeldPrices DEF TripInv
  <1>4. /\ EffectiveSpread(Held)' = EffectiveSpread(Held) /\ UNCHANGED <<count, cost>>
        /\ exit' = "filled" /\ proceeds' = count * offer
    BY <1>1, SamePosition DEF Close
  <1> HIDE DEF ask
  <1>5. offer \in Nat /\ ask \in Nat /\ Bid \in Nat
    BY <1>2, <1>3, NotionalAssumption
  <1>6. count * offer \in Int
    BY <1>3, <1>5
  <1>7. BasketInv' /\ OneOrder' /\ Holding' /\ ExitTyped' /\ ExitOfHeld' /\ OffersOnGrid'
    BY <1>1, <1>2, <1>6, CloseKeeps
  <1>8. cost' - proceeds' \in 0..count' * EffectiveSpread(Held)'
    <2>1. ask - offer \in Nat /\ ask - Bid \in Nat /\ ask - offer <= ask - Bid
      BY <1>2, <1>5
    <2>2. /\ count * (ask - offer) \in Nat /\ count * (ask - Bid) \in Nat
          /\ count * (ask - offer) <= count * (ask - Bid)
      BY <1>3, <2>1, Proceeds
    <2>3. cost' - proceeds' = count * (ask - offer)
      BY <1>2, <1>3, <1>4, <1>5, Proceeds
    <2>4. count' * EffectiveSpread(Held)' = count * (ask - Bid)
      BY <1>3, <1>4
    <2> QED BY <2>2, <2>3, <2>4
  <1>9. RoundTripLosesSpread' /\ ExitsCostTheSame'
    BY <1>4, <1>8 DEF RoundTripLosesSpread, ExitsCostTheSame
  <1> QED BY <1>7, <1>9, TripKept

\* The fee formula does not tell a price from its complement.
LEMMA FeeIsSymmetric ==
  ASSUME NEW s \in FeeSchedule, NEW r, NEW c \in Nat, NEW p \in 0..Notional
  PROVE  CalculateFee(s, r, c, ComplementPrice(p)) = CalculateFee(s, r, c, p)
  <1> DEFINE k == FeeRate(s, r)
  <1>1. k \in Nat
    BY RateIsNat
  <1>2. /\ p \in Int /\ Notional - p \in Int /\ Notional \in Int
        /\ Notional - (Notional - p) = p
    BY NotionalAssumption
  <1> HIDE DEF k
  <1>3. \A x, y, z \in Int : x * y * z = x * z * y
    OBVIOUS
  <1>4. k * c \in Int
    BY <1>1
  <1>5. k * c * (Notional - p) * (Notional - (Notional - p)) = k * c * p * (Notional - p)
    BY <1>2, <1>3, <1>4
  <1>6. RawFee(s, r, c, ComplementPrice(p)) = RawFee(s, r, c, p)
    BY <1>5 DEF RawFee, ComplementPrice, k
  <1> QED BY <1>6 DEF CalculateFee

\* A sale at the bid gives up the spread.
LEMMA HitBidKeeps == TripInv /\ HitBid => TripInv'
  <1> SUFFICES ASSUME TripInv, HitBid PROVE TripInv'
    OBVIOUS
  <1>1. Holding /\ Close("hit", Bid, count * Bid, "taker")
    BY DEF HitBid
  <1> DEFINE ask == DeriveAsk(Held, side)
             fee == CalculateFee(schedule, "taker", count, Bid)
  <1>2. /\ ask \in 0..Notional /\ Bid \in 0..Notional /\ count \in Nat
        /\ cost = count * ask /\ EffectiveSpread(Held) = ask - Bid
        /\ fees = CalculateFee(schedule, role, count, ask)
    BY <1>1, HeldPrices DEF TripInv
  <1>3. /\ EffectiveSpread(Held)' = EffectiveSpread(Held) /\ Bid' = Bid
        /\ DeriveAsk(Held, side)' = ask
        /\ UNCHANGED <<count, cost, fees, schedule, role>>
        /\ exit' = "hit" /\ proceeds' = count * Bid /\ exitFees' = fee
    BY <1>1, SamePosition DEF Close
  <1>4. fees' + exitFees' = RoundTripCost(ask, Bid, "taker")'
    BY <1>2, <1>3 DEF RoundTripCost
  <1> HIDE DEF ask, fee
  <1>5. ask \in Int /\ Bid \in Int /\ count * Bid \in Int
    BY <1>2, NotionalAssumption
  <1>6. BasketInv' /\ OneOrder' /\ Holding' /\ ExitTyped' /\ ExitOfHeld' /\ OffersOnGrid'
    BY <1>1, <1>2, <1>5, CloseKeeps
  <1>7. cost' - proceeds' = count' * EffectiveSpread(Held)'
    <2>1. count * ask - count * Bid = count * (ask - Bid)
      BY <1>2, <1>5
    <2> QED BY <1>2, <1>3, <2>1
  <1>8. RoundTripLosesSpread' /\ ExitsCostTheSame'
    BY <1>3, <1>4, <1>7 DEF RoundTripLosesSpread, ExitsCostTheSame, ask
  <1> QED BY <1>6, <1>8, TripKept

\* Buying the other side gives up as much, for the same fee.
LEMMA HedgeKeeps == TripInv /\ Hedge => TripInv'
  <1> SUFFICES ASSUME TripInv, Hedge PROVE TripInv'
    OBVIOUS
  <1> DEFINE ask == DeriveAsk(Held, side)
             fee == CalculateFee(schedule, "taker", count, HedgePrice)
             received == PaysBothWays - count * HedgePrice
  <1>1. Holding /\ Close("hedged", HedgePrice, received, "taker")
    BY DEF Hedge
  <1>2. /\ ask \in 0..Notional /\ Bid \in 0..Notional /\ count \in Nat
        /\ cost = count * ask /\ EffectiveSpread(Held) = ask - Bid
        /\ fees = CalculateFee(schedule, role, count, ask)
        /\ schedule \in FeeSchedule
    BY <1>1, HeldPrices DEF TripInv
  <1>3. /\ EffectiveSpread(Held)' = EffectiveSpread(Held) /\ Bid' = Bid
        /\ DeriveAsk(Held, side)' = ask
        /\ UNCHANGED <<count, cost, fees, schedule, role>>
        /\ exit' = "hedged" /\ proceeds' = received /\ exitFees' = fee
    BY <1>1, SamePosition DEF Close
  <1>4. fee = CalculateFee(schedule, "taker", count, Bid)
    BY <1>2, FeeIsSymmetric DEF HedgePrice
  <1>5. fees' + exitFees' = RoundTripCost(ask, Bid, "taker")'
    BY <1>2, <1>3, <1>4 DEF RoundTripCost
  <1>6. received = count * Notional - count * (Notional - Bid)
    BY DEF PaysBothWays, UnitPayoff, HedgePrice, ComplementPrice
  <1>7. HedgePrice \in 0..Notional
    BY <1>2, NotionalAssumption DEF HedgePrice, ComplementPrice
  <1> HIDE DEF ask, fee, received
  <1>8. ask \in Int /\ Bid \in Int /\ Notional \in Int
    BY <1>2, NotionalAssumption
  <1>9. received = count * Bid
    BY <1>2, <1>6, <1>8
  <1>10. received \in Int
    BY <1>2, <1>8, <1>9
  <1>11. BasketInv' /\ OneOrder' /\ Holding' /\ ExitTyped' /\ ExitOfHeld' /\ OffersOnGrid'
    BY <1>1, <1>7, <1>10, CloseKeeps
  <1>12. cost' - proceeds' = count' * EffectiveSpread(Held)'
    <2>1. count * ask - count * Bid = count * (ask - Bid)
      BY <1>2, <1>8
    <2> QED BY <1>2, <1>3, <1>9, <2>1
  <1>13. RoundTripLosesSpread' /\ ExitsCostTheSame'
    BY <1>3, <1>5, <1>12 DEF RoundTripLosesSpread, ExitsCostTheSame, ask
  <1> QED BY <1>11, <1>13, TripKept

\* Every step of a round trip keeps what is said of it.
LEMMA NextTrip == TripInv /\ [TripNext]_tripVars => TripInv'
  <1> SUFFICES ASSUME TripInv, [TripNext]_tripVars PROVE TripInv'
    OBVIOUS
  <1>1. CASE BasketStep
    BY <1>1, BasketStepKeeps
  <1>2. CASE Offer
    BY <1>2, OfferKeeps
  <1>3. CASE StepDown
    BY <1>3, StepDownKeeps
  <1>4. CASE Fill
    BY <1>4, FillKeeps
  <1>5. CASE HitBid
    BY <1>5, HitBidKeeps
  <1>6. CASE Hedge
    BY <1>6, HedgeKeeps
  <1>7. CASE UNCHANGED tripVars
    <2>1. UNCHANGED vars /\ UNCHANGED <<exit, offer, proceeds, exitFees>>
      BY <1>7 DEF tripVars, exitVars
    <2>2. /\ BasketInv' /\ OneOrder' /\ Holding' = Holding
          /\ Held' = Held /\ Bid' = Bid
          /\ DeriveAsk(Held, side)' = DeriveAsk(Held, side)
          /\ EffectiveSpread(Held)' = EffectiveSpread(Held)
          /\ UNCHANGED <<side, count, schedule, role, cost, fees>>
      BY <2>1, SamePosition
    <2> QED BY <2>1, <2>2 DEF TripInv, ExitTyped, ExitOfHeld, OffersOnGrid,
               RoundTripLosesSpread, ExitsCostTheSame, RoundTripCost
  <1> QED BY <1>1, <1>2, <1>3, <1>4, <1>5, <1>6, <1>7 DEF TripNext

--------------------------------------------------------------------------------
(* Theorems *)

\* A round trip only adds the exit to a basket: everything proved of Basket's
\* behaviours holds of the ones the run checks.
THEOREM TripIsABasket == TripSpec => Spec
  <1>1. TripInit => Init
    BY DEF TripInit
  <1>2. [TripNext]_tripVars => [Next]_vars
    BY DEF TripNext, BasketStep, Offer, StepDown, Fill, HitBid, Hedge, Close, tripVars
  <1> QED BY <1>1, <1>2, PTL DEF TripSpec, Spec

\* An offer is resting exactly while an exit is being worked, at a price of the
\* contract, and closing costs a fee of whole granules (models.py:230-245,
\* fees/model.py:232-256), for any grid and fee terms.
THEOREM TripTyped == TripSpec => []TripTypeOK
  <1>1. TripInv => TripTypeOK
    BY DEF TripInv, BasketInv, ExitTyped, TripTypeOK
  <1> QED BY <1>1, InitTrip, NextTrip, PTL DEF TripSpec

\* tick_at() never leads off the grid is_valid_price() accepts (models.py:230-245),
\* for any adjoining bands of any steps: at an edge the step of the lower band
\* is the right one to go down by.
THEOREM OffersStayOnGrid == TripSpec => []OffersOnGrid
  <1>1. TripInv => OffersOnGrid
    BY DEF TripInv
  <1> QED BY <1>1, InitTrip, NextTrip, PTL DEF TripSpec

\* Leaving a position on the book it was entered on gives up the effective spread
\* and never gains (contracts.py:127-182), for any prices and counts.
THEOREM SpreadIsLost == TripSpec => []RoundTripLosesSpread
  <1>1. TripInv => RoundTripLosesSpread
    BY DEF TripInv
  <1> QED BY <1>1, InitTrip, NextTrip, PTL DEF TripSpec

\* Selling one side and buying the other cost one fee, the one of
\* calculate_round_trip_cost() (fees/model.py:283-304), for any fee schedule.
THEOREM ExitFeesAgree == TripSpec => []ExitsCostTheSame
  <1>1. TripInv => ExitsCostTheSame
    BY DEF TripInv
  <1> QED BY <1>1, InitTrip, NextTrip, PTL DEF TripSpec

================================================================================
