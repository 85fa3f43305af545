--------------------------- MODULE MCLocalModels ---------------------------
\* Two servers that share a model, one or two clusters; each case a group of changes, those
\* with two clusters of changes that raise the version and changes that do not.
EXTENDS LocalModels, TLC
CONSTANTS s1, s2, m1, m2, c1, c2

MCInstalled == (s1 :> {m1, m2}) @@ (s2 :> {m1})
Both == (s1 :> 0) @@ (s2 :> 1)
One == (s1 :> 0) @@ (s2 :> 0)

Case(clusters, attached, ops, changes, faults, drops) ==
  [clusters |-> clusters, attached |-> attached,
   order |-> IF attached = {s1} THEN One ELSE Both,
   ops |-> ops, changes |-> changes, faults |-> faults, drops |-> drops]

MCCases ==
  {Case({c1}, {s1}, {"add", "attach", "detach", "hide"}, 2, 0, 0),
   Case({c1}, {s1, s2}, {"detach", "key", "backend"}, 2, 1, 0),
   Case({c1}, {s1, s2}, {"attach", "fail", "detach"}, 2, 0, 0),
   Case({c1}, {s1, s2}, {"start", "load", "patch", "pause"}, 2, 0, 0),
   Case({c1}, {s1}, {"delete", "cell", "hide"}, 2, 0, 1),
   Case({c1, c2}, {s1}, {"detach", "patch", "hide", "backend"}, 2, 0, 0),
   Case({c1, c2}, {s1}, {"maintenance", "load"}, 2, 0, 0)}
=============================================================================
