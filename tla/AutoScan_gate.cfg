CONSTANTS
    Hosts = {h1, h2}
    Images = {img}
    HostOf <- OnOneHost
    Requests = {r1}
    Generations = {first, second}
    MaxVersion = 2
    MaxScans = 1
SPECIFICATION Spec
INVARIANT NeverScannedIsAllowed
