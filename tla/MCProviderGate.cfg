SPECIFICATION Spec
CONSTANTS
    c1 = c1
    c2 = c2
    m1 = m1
    m2 = m2
    k1 = k1
    h1 = h1
    h2 = h2
    q1 = q1
    q2 = q2
    NoHandler = NoHandler
    NoModel = NoModel
    Consumers <- MCConsumers
    Models <- MCModels
    ReqIds <- MCReqIds
    Handlers <- MCHandlers
    Requests <- MCRequests
    Scenes <- MCScenes
    TTL = 1
    MaxOffers = 2
    MaxResponding = 2
SYMMETRY Symmetry
INVARIANTS
    GateInv
    SingleUse
    UnwelcomeNeverServed
CHECK_DEADLOCK FALSE
