---------------------------- MODULE MCSwarmProxy ----------------------------
EXTENDS SwarmProxy

CONSTANTS r1, r2

Mode(sealed, strict, rs, b, f) ==
    [sealed |-> sealed, strict |-> strict, reqs |-> rs, breaks |-> b, faults |-> f]

MCReqs == {r1, r2}

\* One request over a connection that breaks, with and without another failure;
\* two requests that compete for the slot; plaintext requests.
MCModes == {Mode(TRUE, TRUE, {r1}, 2, 0), Mode(TRUE, TRUE, {r1}, 1, 1),
            Mode(TRUE, TRUE, {r1, r2}, 0, 1),
            Mode(FALSE, FALSE, {r1, r2}, 1, 1), Mode(FALSE, TRUE, {r1, r2}, 1, 0)}
=============================================================================
