SPECIFICATION FairSpec
CONSTANTS
    Name <- MCName
    Default = 1
    MaxUuid = 6
    MaxSession = 3
    MaxWorkspace = 3
    MaxWindow = 3
    MaxOps = 3
    UserOps = {"tab", "window", "close", "hide", "restore", "create", "rename", "remove", "disconnect", "restart", "other"}
PROPERTIES
    ListFollows
CHECK_DEADLOCK FALSE
