SPECIFICATION FairSpec
CONSTANTS
    a = a
    b = b
    Device = {a, b}
    Servers <- MCServers
    Watched = {a}
    MaxVersion = 2
    MaxBreak = 1
    MaxConnect = 2
    MaxClock = 2
INVARIANTS
    TypeOK

PROPERTIES
    ReplacedAtomically
    WatchersCatchUp

CHECK_DEADLOCK FALSE
