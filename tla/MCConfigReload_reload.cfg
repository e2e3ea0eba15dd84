SPECIFICATION FairSpec
CONSTANTS
    hA = hA
    hBad = hBad
    c1 = c1
    Updates = {u1, u2}
    Readers = {r1}
    NoThread = NoThread
    Users = {x1}
    HostNames = {hA, hBad}
    CoolifyHosts = {c1}
    LocalHost = local
    BadHosts = {hBad}
    Environments <- EmptyOrFull
    Credentials = {admin}
    MaxGeneration = 2
INVARIANTS
    FileMatchesManager
    ReloadsAreExclusive
    SettledIsApplied
PROPERTY CallsReturn
CHECK_DEADLOCK FALSE
