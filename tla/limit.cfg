SPECIFICATION FairSpec
CONSTANTS
    TabIds = {1}
    Slots = {1, 2}
    MaxAttempts = 2
    MaxReconnects = 5
    Reaches = {{}, {1}}
    None = None
PROPERTIES
    AttemptsEnd
CHECK_DEADLOCK FALSE
