SPECIFICATION SettledSpec
CONSTANTS
    a = a
    b = b
    Device = {a}
    MaxUuid = 4
    MaxSession = 2
    MaxVersion = 7
    MaxFlight = 2
    MaxOps = 3
    UserOps = {"hide", "again", "new"}
    Faults = {}
PROPERTIES
    HiddenNotRestored

CHECK_DEADLOCK FALSE
