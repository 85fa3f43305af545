SPECIFICATION FairSpec
CONSTANTS
    r1 = r1
    r2 = r2
    p1 = p1
    NoPeer = NoPeer
    Requests <- TwoRequests
    Peers <- OnePeer
    E2EE = TRUE
    MaxPolls = 1
    MaxSessions = 2
    MaxInbound = 1
    MaxClosures = 0
INVARIANTS
    EntriesInv
PROPERTIES
    FinalReachesCaller
CHECK_DEADLOCK FALSE
