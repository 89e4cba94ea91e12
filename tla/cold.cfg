SPECIFICATION Spec
CONSTANTS
    a = a
    b = b
    Device = {a}
    MaxUuid = 3
    MaxSession = 2
    MaxVersion = 4
    MaxFlight = 2
    MaxOps = 3
    UserOps = {"new", "early", "crash", "disconnect", "exit", "reconnect"}
    Faults = {"connect", "write", "attach", "channel"}
INVARIANTS
    TabsAreBacked
    FoundSessionsStayOpen
    VersionsNameContent

CHECK_DEADLOCK FALSE
