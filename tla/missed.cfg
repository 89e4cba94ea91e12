SPECIFICATION FairSpec
CONSTANTS
    a = a
    b = b
    Device = {a, b}
    Servers <- MCServers
    Watched = {a}
    MaxVersion = 2
    MaxBreak = 0
    MaxConnect = 1
    MaxClock = 1



PROPERTIES

    WatchersMissNothing

CHECK_DEADLOCK FALSE
