SPECIFICATION FairSpec
CONSTANTS
    r1 = r1
    r2 = r2
    p1 = p1
    NoPeer = NoPeer
    Requests <- TwoRequests
    Peers <- OnePeer
    E2EE = FALSE
    MaxPolls = 1
    MaxSessions = 2
    MaxInbound = 1
    MaxClosures = 1
INVARIANTS
    SessionsInv
    FlagHasNegotiator
    EntriesInv
PROPERTIES
    SetupEnds
    FinalReachesCaller
CHECK_DEADLOCK FALSE
