CONSTANTS
    Hosts = {h1}
    Images = {img}
    HostOf <- OnOneHost
    Requests = {r1}
    Generations = {first, second}
    MaxVersion = 2
    MaxScans = 1
SPECIFICATION FairSpec
INVARIANTS
    OneGeneration
PROPERTIES
    StopEnds
    ChangesAreScanned
