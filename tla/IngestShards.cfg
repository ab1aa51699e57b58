\* The tradeable count of a sweep that saw a paused shard.
SPECIFICATION Spec
CONSTANTS
    a = a  b = b  m1 = m1  m2 = m2
    Proc = {a}
    Reader = {}
    NoProc = NoProc
    Market = {m1}
    Shard = {0}
    ShardOf <- MCShardOfOne
    Pages <- MCPagesOne
    Looks <- MCFine
    NoRow = NoRow
    MaxSweeps = 1
    MaxTime = 1
INVARIANTS
    PausedShardNotTradeable
