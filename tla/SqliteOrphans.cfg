SPECIFICATION FairSpec
CONSTANTS
    a = a
    b = b
    t1 = t1
    t2 = t2
    Ids = {t2}
    Workers = {a, b}
    Payload <- MCPayload
    LeaseTimeout = 2
    Operations <- MCPauses
    Horizon = 5
    MaxLease = 2
    MaxSequence = 2
    MaxFailing = 3
INVARIANTS
    ReadsAreExactForTheUntouched
PROPERTIES
    OrphansReturn
    EarlyEndsAreStale
CHECK_DEADLOCK FALSE
