SPECIFICATION Spec
CONSTANTS
    s1 = s1
    s2 = s2
    Session = {s1, s2}
    MaxFile = 3
    MaxTotal = 3
    MaxOutput = 7
    MaxFault = 0
PROPERTIES
    OutputIsStored
CHECK_DEADLOCK FALSE
