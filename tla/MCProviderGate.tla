--------------------------- MODULE MCProviderGate ---------------------------
(* Small instances of ProviderGate. *)
EXTENDS ProviderGate, TLC

CONSTANTS c1, c2, m1, m2, k1, h1, h2, q1, q2

MCConsumers == {c1, c2}
MCModels    == {m1, m2}
MCReqIds    == {k1}
MCHandlers  == {h1, h2}
MCRequests  == {q1, q2}

\* Two consumers with the same request id while a grant expires; two requests of a
\* consumer, for either of two models, over either of two sessions; one request of a
\* consumer, who cannot once be looked up in the block list.
MCScenes == {[consumers |-> {c1, c2}, models |-> {m1}, requests |-> {}, until |-> 1, failures |-> 0],
             [consumers |-> {c1}, models |-> {m1, m2}, requests |-> {q1, q2}, until |-> 0, failures |-> 0],
             [consumers |-> {c1}, models |-> {m1}, requests |-> {q1}, until |-> 0, failures |-> 1]}

Symmetry ==
    Permutations(Consumers) \cup Permutations(Models) \cup Permutations(ReqIds)
        \cup Permutations(Handlers) \cup Permutations(Requests)

=============================================================================
