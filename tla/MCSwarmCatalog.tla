---------------------------- MODULE MCSwarmCatalog ----------------------------
EXTENDS SwarmCatalog

CONSTANTS a, b, p, x, y

MCSwarms == {a, b}
MCOthers == {p}
MCModels == {x, y}

Case(on, members, serve, bans, bound) ==
    [on |-> on, joined |-> members, has |-> [n \in Members |-> serve[n]], blocked |-> bans,
     left |-> [changes |-> bound[1], switches |-> bound[2], failures |-> bound[3],
               asks |-> bound[4], breaks |-> bound[5]]]

Serve(theirs, own) == [n \in Members |-> IF n = Me THEN own ELSE theirs]

\* What a member offers changes; a swarm is switched off and on again; one of two
\* swarms is switched off; a request while a swarm that lists only a blocked peer
\* and this node is switched off, and while the start of a swarm fails.
MCCases ==
    {Case({a}, {<<a, p>>}, Serve({x, y}, {}), {}, <<1, 0, 0, 0, 1>>),
     Case({a}, {<<a, p>>}, Serve({x}, {x}), {}, <<0, 2, 0, 0, 0>>),
     Case({a, b}, {<<a, p>>}, Serve({x}, {x}), {}, <<0, 1, 0, 0, 0>>),
     Case({a}, {<<a, p>>}, Serve({x}, {x}), {p}, <<0, 1, 0, 1, 0>>),
     Case({a}, {<<a, p>>}, Serve({x}, {}), {}, <<0, 0, 1, 1, 0>>)}
=============================================================================
