CONSTANTS
    Streams = {s1}
    Requesters = {r1}
    NoOne = NoOne
    PipeSize = 2
    MaxEvents = 1
    MaxRescans = 2
    MaxInterrupts = 2
SPECIFICATION Spec
INVARIANTS
    NoWakeUpIsLost
    FailureIsUncleanEnd
    NoKnownChildIsLeft
PROPERTIES
    RescanSparesTheRun
    CloseIsBounded
    EveryChangeIsShown
    ChildDoesNotOutlive
CHECK_DEADLOCK FALSE
