CONSTANTS
    Transfer = 1
    MaxQueue = 8
    FileSamples = 5
    WireBytes = 3
    LinkBytes = 4
    Samples = 13
    Settle = 1
    Quiet = 1
    MaxDrain = 4
    MaxRead = 14
    ReadTimeout = 3
    Threshold = 2
    Jitter = 0
    Segments = 3
    MinSegment = 2
    MaxIdle = 10
    MaxStalls = 2
SPECIFICATION Spec
INVARIANTS
    PairsAreWhole
    NeverDatedTooEarly
    CaughtUpIsDated
    CaptureIsBounded
CHECK_DEADLOCK FALSE
