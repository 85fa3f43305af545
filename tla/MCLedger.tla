------------------------------ MODULE MCLedger ------------------------------
(* Two exchanges with two peers: both roles on a cluster with the sync loops of *)
(* two setups; two consumers of a swarm that chose the same id; a consumer and  *)
(* a provider with one loop, a removal and a restart, and rows pushed out of    *)
(* the lobby's list.                                                            *)
EXTENDS Ledger

MCExchanges == {"x", "y"}
MCPeers == {"p", "q"}
MCIds   == {"i", "j"}
MCLoops == {1, 2}
apart   == [x |-> "i", y |-> "j"]
same    == [x |-> "i", y |-> "i"]
peers   == [x |-> "p", y |-> "q"]
both    == [x |-> "consumer", y |-> "provider"]
serving == [x |-> "provider", y |-> "provider"]
cluster == [x |-> "cluster", y |-> "cluster"]
swarm   == [x |-> "swarm", y |-> "swarm"]
MCScenes ==
  {[id |-> apart, with |-> peers, role |-> both, net |-> cluster,
    loops |-> {1, 2}, removals |-> 0, restarts |-> 0, failures |-> 0,
    crowded |-> FALSE],
   [id |-> same, with |-> peers, role |-> serving, net |-> swarm,
    loops |-> {1}, removals |-> 2, restarts |-> 1, failures |-> 0,
    crowded |-> FALSE],
   [id |-> apart, with |-> peers, role |-> both, net |-> cluster,
    loops |-> {1}, removals |-> 1, restarts |-> 1, failures |-> 1,
    crowded |-> TRUE]}
=============================================================================
