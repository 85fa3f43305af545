CONSTANTS
  Exchanges <- MCExchanges
  Peers <- MCPeers
  Ids <- MCIds
  Loops <- MCLoops
  Scenes <- MCScenes
SPECIFICATION FairSpec
INVARIANTS
    LedgerInv
    MismatchCountedOnce
PROPERTIES
    SettledShown
