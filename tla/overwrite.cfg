SPECIFICATION Spec
CONSTANTS
    Name <- MCName
    Default = 1
    MaxUuid = 5
    MaxSession = 3
    MaxWorkspace = 3
    MaxWindow = 3
    MaxOps = 4
    UserOps = {"tab", "window", "create", "rename", "disconnect", "restart"}
INVARIANTS
    NothingLeftBehind

CHECK_DEADLOCK FALSE
