SPECIFICATION MergeSpec
CONSTANTS
    Uuids = {1, 2, 3}
    MaxTabs = 2
    MaxTime = 2
INVARIANTS
    LiveTabsSurviveOnce
    NewestEditWins
    DevicesAgree
    MergingAgainChangesNothing
CHECK_DEADLOCK FALSE
