SPECIFICATION Spec
CONSTANTS
    a = a
    b = b
    u = u
    v = v
    s = s
    Ids = {a, b}
    Workers = {u, v}
    Payloads <- MCPlainPayloads
    LeaseTimeout = 1
    MaxLag = 0
    SyncDefined = {}
    NullIsAbsent = FALSE
    IdsCollide = FALSE
    Horizon = 2
    MaxLease = 2
INVARIANT BucketsPartitionTasks
