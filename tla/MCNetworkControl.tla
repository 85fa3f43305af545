--------------------------- MODULE MCNetworkControl ---------------------------
(* A cluster and a swarm.  The user switches networks beside a schedule, or with *)
(* a restart, or with a save that may fail; a schedule goes on over a restart, *)
(* and where no swarm manager runs; two GPU monitors; or one with a save that may *)
(* fail, or without automatic resume and with a restart.                        *)
EXTENDS NetworkControl

CONSTANTS c1, s1, h1, g1, g2

OneCluster == {c1}
OneSwarm   == {s1}
OneHandler == {h1}
TwoGuards  == {g1, g2}

Scene(joined, scheduled, guards, auto, click, failure, restart) ==
    [joined |-> joined, scheduled |-> scheduled, guards |-> guards, autoResume |-> auto,
     toggles |-> guards # {g1, g2},
     clicks |-> click, failures |-> failure, restarts |-> restart]
MCScenes ==
    {Scene({c1, s1}, {c1, s1}, {}, TRUE, 1, 0, 0),
     Scene({c1, s1}, {}, {}, TRUE, 1, 0, 1),
     Scene({c1, s1}, {c1, s1}, {}, TRUE, 0, 0, 1),
     Scene({c1}, {}, {}, TRUE, 1, 1, 0),
     Scene({s1}, {}, {g1, g2}, TRUE, 0, 0, 0),
     Scene({s1}, {}, {g1}, TRUE, 0, 1, 0),
     Scene({s1}, {}, {g1}, FALSE, 0, 0, 1),
     Scene({c1}, {c1}, {}, TRUE, 0, 0, 0)}
=============================================================================
