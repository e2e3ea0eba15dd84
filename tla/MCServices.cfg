SPECIFICATION Spec
CONSTANTS
    NoBulk = NoBulk
    Requests = {r1, r2}
    Keys = {k1}
    MaxContainers = 3
    MaxSwaps = 1
    Chosen = {v1}
    Given <- NothingOrAll
    MaxLoads = 1
    Hosts = {h1}
    Names = {c1}
    HostOf <- OneHost
    MaxHistory = 2
    MaxChanges = 3
    Retention = 3
    PruneEvery = 2
    MaxUpdates = 2
    MaxTelegramStarts = 3
    MaxEvents = 3
    MaxDiscordStarts = 1
    Jobs = {j1, j2}
    Bulks = {b1}
    HostOfJob <- OneScanHost
    Cancellers = {}
    MaxConcurrentScansPerHost = 1
INVARIANTS
    TypeOK
    ReplacedNotLost
    InForceWasSaved
    EachIsTakenOnce
PROPERTIES
    AskedForStays
    AnsweredStaysOpen
    OnlyLeaksHoldSwaps
    StopsAreReported
    SamplesComeAndGo
    BotsGoOn
    
CHECK_DEADLOCK FALSE
