SPECIFICATION Spec
CONSTANTS
    h1 = h1
    Jobs = {j1}
    Bulks = {}
    NoBulk = NoBulk
    Hosts = {h1}
    HostOf <- OneHost
    Cancellers = {k1}
    MaxConcurrentScansPerHost = 1
PROPERTY
    TerminalIsFinal
CHECK_DEADLOCK FALSE
