\* One bucket, three coroutines: the lock's queue and its cancellations.
SPECIFICATION Spec
CONSTANTS
    p1 = p1  p2 = p2  p3 = p3  read = read  write = write
    Proc = {p1, p2, p3}
    NoProc = NoProc
    Bucket = {read}
    Rate <- MCRateOne
    Capacity <- MCCapacityOne
    Cost = {1, 3}
    EarlyWake = 1
    MaxLate = 2
    LastCall = 1
    MaxTime = 4
SYMMETRY Symmetry
INVARIANTS
    NoOverdraw
    LockDiscipline
    SleepsExactly
PROPERTIES
    FifoService
