CONSTANTS
    r1 = r1
    r2 = r2
    Receivers <- TwoReceivers
SPECIFICATION ConnectSpec
INVARIANTS
    NoAbandonedSocket
    BlockedReadersAreWoken
    HandedIsUsable
PROPERTIES
    StopReleasesEverything
CHECK_DEADLOCK FALSE
