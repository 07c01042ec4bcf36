CONSTANTS
    p1 = p1
    p2 = p2
    NoPI = NoPI
    NoTime = NoTime
    PIs <- TwoPIs
    PsSegments = 2
    RtLen = 8
    Confirmation = 3
    MaxFlips = 2
    GroupBits = 3
    Window = 7
    MinSymbols = 2
    Attempts = 2
    Candidates = 3
    Zones <- Changes
    Standard = "UTC"
    Captures <- SomeCaptures
SPECIFICATION Spec
INVARIANTS
    GroupsKeepTheirPlace
    RepairedAsSent
    StationIsTrue
    ReadingIsExact
CHECK_DEADLOCK FALSE
