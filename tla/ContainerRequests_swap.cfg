SPECIFICATION FairSpec
CONSTANTS
    Requests = {r1}
    Keys = {k1}
    MaxContainers = 2
    MaxSwaps = 1
PROPERTY SwapEnds
CHECK_DEADLOCK FALSE
