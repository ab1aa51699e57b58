\* The markets table under two captures that overlap.
SPECIFICATION Spec
CONSTANTS
    a = a  b = b  m1 = m1  m2 = m2
    Proc = {a, b}
    Reader = {}
    NoProc = NoProc
    Market = {m1}
    Shard = {0}
    ShardOf <- MCShardOfOne
    Pages <- MCPagesOne
    Looks <- MCFine
    NoRow = NoRow
    MaxSweeps = 2
    MaxTime = 1
INVARIANTS
    LatestStatePerKey
