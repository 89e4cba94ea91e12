SPECIFICATION FairSpec
CONSTANTS
    a = a
    b = b
    Device = {a, b}
    Keepalive = 1
    MaxDelay = 0
    MaxMisses = 0
    MaxOps = 4
    Faults = {}
PROPERTIES
    HeartbeatsHeal

CHECK_DEADLOCK FALSE
