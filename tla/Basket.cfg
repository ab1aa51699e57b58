\* Three legs; prices in tenths of a cent and fees in cents; bids of nothing, a
\* third and two thirds, so that a book may be locked or crossed; a basket
\* settles, or its only leg is sold, and stops.
SPECIFICATION TripSpec
CONSTANTS
    l1 = l1  l2 = l2  l3 = l3
    Leg = {l1, l2, l3}
    Notional = 1000
    Granule = 10
    Price = {0, 350, 650}
    Count = {1, 3}
    Schedules <- MCSchedules
    None = None
    ActiveSets <- MCActiveSets
    NoBounds = NoBounds
    Bands <- MCBands
    NoOffer = NoOffer
CHECK_DEADLOCK FALSE
INVARIANTS
    TripTypeOK
    SettlesWithinBounds
    BoundsAttained
    OverroundIsEdge
    FeesCoverRaw
    OffersOnGrid
    RoundTripLosesSpread
    ExitsCostTheSame
