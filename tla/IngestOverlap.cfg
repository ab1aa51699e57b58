\* Two processes whose captures overlap, over one market.
SPECIFICATION FairSpec
CONSTANTS
    a = a  b = b  m1 = m1  m2 = m2
    Proc = {a, b}
    Reader = {b}
    NoProc = NoProc
    Market = {m1}
    Shard = {}
    ShardOf <- MCShardOfOne
    Pages <- MCPagesOne
    Looks <- MCFine
    NoRow = NoRow
    MaxSweeps = 2
    MaxTime = 1
INVARIANTS
    LatestStateIfAlone
    ReportCoherent
PROPERTIES
    HistoryGrowsIfAlone
    EveryCaptureEnds
