---------------------------- MODULE MCSwarmPeers ----------------------------
EXTENDS SwarmPeers

CONSTANTS new, old

MCPeers == {new, old}
MCOld == {old}
=============================================================================
