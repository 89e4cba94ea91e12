SPECIFICATION FairSpec
CONSTANTS
    a = a
    b = b
    Device = {a}
    Servers <- MCOverwriting
    Watched = {a}
    MaxVersion = 1
    MaxBreak = 1
    MaxConnect = 1
    MaxClock = 1
PROPERTIES
    WatchersRetry

CHECK_DEADLOCK FALSE
