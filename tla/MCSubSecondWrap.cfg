CONSTANTS
    c1 = c1
    c2 = c2
    c3 = c3
    p1 = p1
    p2 = p2
    p3 = p3
    a = a
    b = b
    NoPI = NoPI
    Channels <- ThreeChannels
    PIs <- ThreePIs
    Receivers <- TwoReceivers
    MissionAge = 1
    Limits <- OneQuestion
SPECIFICATION Spec
SYMMETRY Symmetry
PROPERTY SubSecondIsAtAMinute
CHECK_DEADLOCK FALSE
