\* The throttling total under two coroutines that wait at once.
SPECIFICATION Spec
CONSTANTS
    r1 = r1  r2 = r2  read = read  write = write
    Req = {r1, r2}
    NoStamp = NoStamp
    Bucket = {read}
    Rate <- MCRateOne
    Capacity <- MCCapacityOne
    MaxRetries = 1
    MaxTime = 5
INVARIANTS
    ThrottledIsCumulative
