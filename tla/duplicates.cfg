SPECIFICATION SettledSpec
CONSTANTS
    a = a
    b = b
    Device = {a, b}
    MaxUuid = 4
    MaxSession = 2
    MaxVersion = 6
    MaxFlight = 2
    MaxOps = 1
    UserOps = {"new"}
    Faults = {}
INVARIANTS
    NoDuplicateTabs

CHECK_DEADLOCK FALSE
