SPECIFICATION Spec
CONSTANTS
    MaxWindow = 3
    MaxTab = 3
PROPERTIES
    AskedFirst
CHECK_DEADLOCK FALSE
