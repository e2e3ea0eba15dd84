SPECIFICATION FairSpec
CONSTANTS
    Clients = {c1, c2, c3}
    NoClient = NoClient
    Users = {u1, u2, u3}
    Swappers = {s1, s2}
INVARIANTS
    CountsAreExact
    LeaseKeepsClientOpen
    NoLostWakeup
    EveryClientHasOneOwner
PROPERTIES
    RetiredClientsOnlyDrain
    SwapReturns
    KeepsPromise
CHECK_DEADLOCK FALSE
