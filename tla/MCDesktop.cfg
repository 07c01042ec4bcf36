CONSTANTS
    Fronts = {"window", "terminal"}
    LogLines = 2
    PipeSize = 2
    MaxEvents = 1
    MaxSignals = 1
    MaxKeys = 3
SPECIFICATION Spec
INVARIANTS
    ScreenIsLatest
    FailureIsUncleanEnd
PROPERTY
    SignalsAreServed
CHECK_DEADLOCK FALSE
