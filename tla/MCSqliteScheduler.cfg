SPECIFICATION Spec
CONSTANTS
    a = a
    b = b
    t1 = t1
    t2 = t2
    Ids = {t1, t2}
    Workers = {a, b}
    Payload <- MCPayload
    LeaseTimeout = 1
    Operations <- MCOperations
    Horizon = 2
    MaxLease = 2
    MaxSequence = 2
    MaxFailing = 3
INVARIANTS
    TypeOK
    MetricsAddUp
PROPERTIES
    ImplementsTaskPool
CHECK_DEADLOCK FALSE
