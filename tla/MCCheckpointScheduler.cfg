SPECIFICATION Spec
CONSTANTS
    engine = engine
    t1 = t1
    t2 = t2
    Ids = {t1, t2}
    Payloads <- MCPayloads
    Clients = {engine}
    FileFails = TRUE
    Horizon = 1
    MaxLease = 2
SYMMETRY MCSymmetry
INVARIANTS
    TypeOK
    SavedWhenIdle
    CheckpointIsReadable
    AcceptedIsSaved
    OneEntryPerTask
PROPERTIES
    ReadyInOrder
    CallsKeepTheContract
