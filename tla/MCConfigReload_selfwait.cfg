SPECIFICATION Spec
CONSTANTS
    hA = hA
    hBad = hBad
    c1 = c1
    Updates = {u1, u2}
    Readers = {}
    NoThread = NoThread
    Users = {}
    HostNames = {hA, hBad}
    CoolifyHosts = {c1}
    LocalHost = local
    BadHosts = {}
    Environments <- EmptyOrFull
    Credentials = {admin}
    MaxGeneration = 2
INVARIANT NobodyWaitsForItself
CHECK_DEADLOCK FALSE
