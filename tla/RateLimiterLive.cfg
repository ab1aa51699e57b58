\* Liveness: the clock runs on long enough for every call begun to be served.
SPECIFICATION FairSpec
CONSTANTS
    p1 = p1  p2 = p2  p3 = p3  read = read  write = write
    Proc = {p1, p2, p3}
    NoProc = NoProc
    Bucket = {read}
    Rate <- MCRateOne
    Capacity <- MCCapacityOne
    Cost = {3, 4}
    EarlyWake = 1
    MaxLate = 0
    LastCall = 0
    MaxTime = 7
PROPERTIES
    EveryCallEnds
