SPECIFICATION Spec
CONSTANTS
    MaxWindow = 3
    MaxTab = 3
INVARIANTS
    TypeOK
    SessionsWithinReach
    FocusRecovers
PROPERTIES
    ChosenTabsClose
CHECK_DEADLOCK FALSE
