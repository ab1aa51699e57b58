\* Two coroutines, one bucket of one request, every answer and cancellation.
\* Every coroutine issues one request, so the system stops when all have ended.
SPECIFICATION FairSpec
CONSTANTS
    r1 = r1  r2 = r2  read = read  write = write
    Req = {r1, r2}
    NoStamp = NoStamp
    Bucket = {read}
    Rate <- MCRateOne
    Capacity <- MCCapacityOne
    MaxRetries = 1
    MaxTime = 1
INVARIANTS
    TypeOK
    RequestBudget
    OutcomeExplained
    ThrottledNeverOverstates
CHECK_DEADLOCK FALSE
PROPERTIES
    SignsWhenSent
    EveryRequestEnds
