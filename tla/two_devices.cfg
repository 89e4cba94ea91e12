SPECIFICATION Spec
CONSTANTS
    Name <- MCName
    Default = 1
    MaxUuid = 9
    MaxSession = 2
    MaxWorkspace = 3
    MaxWindow = 3
    MaxOps = 6
    UserOps = {"other", "create", "hide", "restore", "restart"}
INVARIANTS
    SessionsKept
CHECK_DEADLOCK FALSE
