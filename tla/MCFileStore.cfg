SPECIFICATION Spec
CONSTANTS
    a = a
    b = b
    c = c
    Clients <- MCClients
    Sizes = {1, 3}
    MaxLen = 2
    RotateItems = 2
    RotateBytes = 3
    MaxBatches = 1
    MaxFailures = 2
SYMMETRY MCSymmetry
INVARIANTS
    WrittenIsStored
    FilesWithinLimits
