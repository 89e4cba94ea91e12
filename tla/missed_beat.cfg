SPECIFICATION Spec
CONSTANTS
    a = a
    b = b
    Device = {a, b}
    Keepalive = 1
    MaxDelay = 0
    MaxMisses = 1
    MaxOps = 4
    Faults = {}
INVARIANTS
    OneMissTolerated

CHECK_DEADLOCK FALSE
