\* Every configuration of the gate, every command; three pages, four cursors, every limit
\* around them, every answer of a hostile server, which may have new cursors for ever.
\* A command ends.
SPECIFICATION CommandSpec
CONSTANTS
    Item <- MCItem
    Listing <- MCListing
    Cursor = {1, 2, 3, 4}
    Fresh = {f1, f2}
    PageLimits = {0, 1, 2, 3, 4}
    Environs <- MCEnvirons
    Tickers = 2
    NoSettings = NoSettings
    Running = Running
CHECK_DEADLOCK FALSE
INVARIANTS
    CommandTypeOK
    NoCursorTwice
    GateFailsClosed
    GateBeforeAction
    ExitTellsOutcome
    WholeListingOrNothing
PROPERTIES
    EveryCommandEnds
