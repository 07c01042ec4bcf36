CONSTANTS
    Slots <- TwoSlots
    Listed <- OneEach
    Iterations = 2
    MaxFailures = 1
    MaxRescans = 1
    MaxInterrupts = 1
SPECIFICATION Spec
INVARIANTS
    ReportsFollowConsensus
    PhasesDoNotOverlap
    WatchlistFollowsReceivers
PROPERTIES
    StreamInOrder
CHECK_DEADLOCK FALSE
