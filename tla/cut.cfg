SPECIFICATION Spec
CONSTANTS
    s1 = s1
    s2 = s2
    Session = {s1, s2}
    MaxFile = 3
    MaxTotal = 3
    MaxOutput = 7
    MaxFault = 2
INVARIANTS
    OnlyInvalidLinesLost

CHECK_DEADLOCK FALSE
SYMMETRY Interchangeable
