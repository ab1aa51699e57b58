\* One process, dying between any two steps: two markets on two pages, two captures.
SPECIFICATION Spec
CONSTANTS
    a = a  b = b  m1 = m1  m2 = m2
    Proc = {a}
    Reader = {}
    NoProc = NoProc
    Market = {m1, m2}
    Shard = {}
    ShardOf <- MCShardOf
    Pages <- MCPages
    Looks <- MCLooks
    NoRow = NoRow
    MaxSweeps = 2
    MaxTime = 1
INVARIANTS
    TypeOK
    SweepAtomic
    CompleteMeansPersisted
    CrossedIsFlagged
    NoLookahead
PROPERTIES
    AppendOnly
    ImplementsArchive
