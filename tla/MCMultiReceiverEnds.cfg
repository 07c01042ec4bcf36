CONSTANTS
    Slots <- TwoSlots
    Listed <- OneEach
    Iterations = 1
    MaxFailures = 2
    MaxRescans = 1
    MaxInterrupts = 2
SPECIFICATION Spec
PROPERTIES
    RunEnds
    StopIsBounded
CHECK_DEADLOCK FALSE
