SPECIFICATION Spec
CONSTANTS
    new = new
    old = old
    Boot = boot
    NoId = NoId
    NoName = NoName
    Peers <- MCPeers
    OldPeers <- MCOld
    MaxConns = 2
    MaxStops = 1
    MaxTold = 2
INVARIANTS
    PeersInv
PROPERTIES
    IsolatedRedials
