SPECIFICATION Spec
CONSTANTS
    h1 = h1
    Jobs = {j1, j2}
    Bulks = {b1}
    NoBulk = NoBulk
    Hosts = {h1}
    HostOf <- OneHost
    Cancellers = {k1, k2}
    MaxConcurrentScansPerHost = 1
SYMMETRY Symmetry
INVARIANTS
    CancelHandles
    ResultIffComplete
    TallyIsExact
    UndisturbedBulkIsWhole
CHECK_DEADLOCK FALSE
