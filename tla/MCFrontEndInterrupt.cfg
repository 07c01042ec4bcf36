CONSTANTS
    Streams = {s1}
    Requesters = {r1}
    NoOne = NoOne
    PipeSize = 2
    MaxEvents = 1
    MaxRescans = 1
    MaxInterrupts = 2
SPECIFICATION Spec
INVARIANTS
    OneInterruptReturns
CHECK_DEADLOCK FALSE
