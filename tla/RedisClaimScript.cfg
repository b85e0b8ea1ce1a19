SPECIFICATION FairSpec
CONSTANTS
    a = a
    b = b
    u = u
    v = v
    s = s
    Ids = {a}
    Workers = {u, v}
    Payloads <- MCPlainPayloads
    LeaseTimeout = 2
    MaxLag = 0
    SyncDefined = {}
    NullIsAbsent = FALSE
    IdsCollide = FALSE
    Horizon = 3
    MaxLease = 1
PROPERTY OrphansAreReclaimed
