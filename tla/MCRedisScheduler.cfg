SPECIFICATION Spec
CONSTANTS
    a = a
    b = b
    u = u
    v = v
    s = s
    Ids = {a, b}
    Workers = {u, v, s}
    Payloads <- MCPayloads
    LeaseTimeout = 1
    MaxLag = 1
    SyncDefined = {u, v}
    NullIsAbsent = FALSE
    IdsCollide = FALSE
    Horizon = 3
    MaxLease = 3
SYMMETRY Symmetry
INVARIANTS
    TypeOK
    OnlyNullIsLost
    LeaseIsOwnership
    NeverEarly
PROPERTIES
    OnlyHolderOrExpiryEndsLease
    ClaimsTheBest
    StrandedUntilReleased
    ImplementsTaskPoolUnlessNull
