SPECIFICATION SettledFairSpec
CONSTANTS
    a = a
    b = b
    Device = {a}
    MaxUuid = 4
    MaxSession = 2
    MaxVersion = 6
    MaxFlight = 2
    MaxOps = 2
    UserOps = {"new", "close", "exit", "disconnect", "crash", "again", "reconnect"}
    Faults = {"list", "handle", "connect", "read", "write", "attach", "channel"}
PROPERTIES
    CachesCatchUp
    TabsFollowSessions

CHECK_DEADLOCK FALSE
