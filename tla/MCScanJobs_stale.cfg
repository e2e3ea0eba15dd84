SPECIFICATION Spec
CONSTANTS
    h1 = h1
    Jobs = {j1, j2}
    Bulks = {b1}
    NoBulk = NoBulk
    Hosts = {h1}
    HostOf <- OneHost
    Cancellers = {k1}
    MaxConcurrentScansPerHost = 1
INVARIANT
    ActiveIsRunning
CHECK_DEADLOCK FALSE
