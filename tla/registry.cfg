SPECIFICATION FairSpec
CONSTANTS
    a = a
    b = b
    Device = {a, b}
    Keepalive = 1
    MaxDelay = 0
    MaxMisses = 1
    MaxOps = 4
    Faults = {"read", "write"}
INVARIANTS
    TypeOK
    AgesHonest
    SerialRegistryExact
    EntriesStayFresh
PROPERTIES
    HealsAlone

CHECK_DEADLOCK FALSE
