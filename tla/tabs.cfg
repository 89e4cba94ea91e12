SPECIFICATION ServedSpec
CONSTANTS
    TabIds = {1, 2}
    Slots = {1, 2}
    MaxAttempts = 2
    MaxReconnects = 1
    Reaches = {{}, {1, 2}}
    None = None
INVARIANTS
    TypeOK
    ConnectingIsUnderway
    ConnectedIsServed
    PromptedTabWaits
    ReconnectsLimited
PROPERTIES
    WorkingTabsStay
    TabsComeBack
CHECK_DEADLOCK FALSE
