SPECIFICATION Spec
CONSTANTS
    Requests = {r1, r2}
    Sockets <- Places
    Objects = {1, 2}
    Cases <- Upstreams
    CacheSize = 1
    Answers <- Kept
    MaxStarts = 3
    MaxLeaks = 1
    MaxTicks = 3
INVARIANTS
    ConnsCounted
    WeightsBalanced
    OwnedOnce
PROPERTIES
    ProbesSpaced
    EveryRequestEnds
CHECK_DEADLOCK FALSE
