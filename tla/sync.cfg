SPECIFICATION SettledSpec
CONSTANTS
    a = a
    b = b
    Device = {a, b}
    MaxUuid = 3
    MaxSession = 2
    MaxVersion = 5
    MaxFlight = 2
    MaxOps = 2
    UserOps = {"new", "close", "hide", "restore", "touch", "exit", "disconnect", "crash", "early", "again", "reconnect"}
    Faults = {"attach", "channel"}
INVARIANTS
    TypeOK
    NoUnseenOverwrite
    TabsAreBacked
    FoundSessionsStayOpen
    VersionsNameContent
PROPERTIES
    OnlyUsersOrDiscardsEndSessions

CHECK_DEADLOCK FALSE
