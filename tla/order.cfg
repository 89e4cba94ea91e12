SPECIFICATION Spec
CONSTANTS
    Uuids = {1, 2, 3}
    MaxTabs = 2
    MaxTime = 2
INVARIANTS
    LocalOrderKept
    HiddenWindowsUnited
CHECK_DEADLOCK FALSE
