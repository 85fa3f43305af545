SPECIFICATION Spec
CONSTANTS
    r1 = r1
    r2 = r2
    Reqs <- MCReqs
    MaxAttempts = 1
    Pieces = 1
    Modes <- MCModes
INVARIANTS
    ProxyInv
    TextInOrder
    DoneMeansAll
    SupersededStops
PROPERTIES
    CallersAnswered
CHECK_DEADLOCK FALSE
