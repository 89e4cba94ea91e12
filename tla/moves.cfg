SPECIFICATION Spec
CONSTANTS
    MaxWindow = 3
    MaxTab = 3
PROPERTIES
    FrontTabStays
CHECK_DEADLOCK FALSE
