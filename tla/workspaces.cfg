SPECIFICATION Spec
CONSTANTS
    Name <- MCName
    Default = 1
    MaxUuid = 5
    MaxSession = 2
    MaxWorkspace = 3
    MaxWindow = 3
    MaxOps = 4
    UserOps = {"tab", "window", "close", "hide", "restore", "create", "rename", "remove", "disconnect", "restart"}
INVARIANTS
    TypeOK
    SessionsKept

CHECK_DEADLOCK FALSE
