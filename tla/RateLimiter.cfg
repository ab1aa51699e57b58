\* Two buckets, two coroutines, every order of calls, timers and cancellations.
SPECIFICATION Spec
CONSTANTS
    p1 = p1  p2 = p2  p3 = p3  read = read  write = write
    Proc = {p1, p2}
    NoProc = NoProc
    Bucket = {read, write}
    Rate <- MCRate
    Capacity <- MCCapacity
    Cost <- MCCost
    EarlyWake = 0
    MaxLate = 0
    LastCall = 1
    MaxTime = 2
SYMMETRY Symmetry
INVARIANTS
    TypeOK
PROPERTIES
    WaitsOnlyForOwnBucket
    ImplementsTokenBucket
