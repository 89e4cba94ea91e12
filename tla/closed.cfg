SPECIFICATION SettledSpec
CONSTANTS
    a = a
    b = b
    Device = {a}
    MaxUuid = 4
    MaxSession = 2
    MaxVersion = 6
    MaxFlight = 2
    MaxOps = 2
    UserOps = {"new", "close"}
    Faults = {}
INVARIANTS
    ClosedSessionsGone

CHECK_DEADLOCK FALSE
