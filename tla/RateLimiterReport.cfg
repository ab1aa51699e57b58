\* What acquire() returns, against the time it took: two callers are enough.
SPECIFICATION Spec
CONSTANTS
    p1 = p1  p2 = p2  p3 = p3  read = read  write = write
    Proc = {p1, p2}
    NoProc = NoProc
    Bucket = {read}
    Rate <- MCRateUnit
    Capacity <- MCCapacityUnit
    Cost = {1, 2}
    EarlyWake = 0
    MaxLate = 0
    LastCall = 1
    MaxTime = 6
PROPERTIES
    ReportsWholeWait
