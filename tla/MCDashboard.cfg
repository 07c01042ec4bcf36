CONSTANTS
    a = a
    b = b
    t1 = t1
    t2 = t2
    p1 = p1
    p2 = p2
    NoPI = NoPI
    Receivers = {a, b}
    Tunings = {t1, t2}
    PIs = {p1, p2}
    Transmitters <- MCTransmitters
    Listings <- MCListings
    MaxIterations = 2
    MaxFailures = 1
SPECIFICATION Spec
SYMMETRY Symmetry
INVARIANTS
    RowIsOfOneTransmitter
    FailedIsShown
PROPERTIES
    ProgressIsTrue
CHECK_DEADLOCK FALSE
