CONSTANTS
    Modes = {"band", "hop", "wide"}
    Tunings = 2
    MaxWatchlist = 1
    Iterations = 2
    MaxRescans = 2
    MaxInterrupts = 2
SPECIFICATION Spec
INVARIANTS
    RunsSayHowTheyEnd
    NoRescanIsLost
PROPERTIES
    StreamInOrder
    NoRecordIsTorn
CHECK_DEADLOCK FALSE
