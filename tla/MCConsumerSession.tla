------------------------- MODULE MCConsumerSession -------------------------
(* Small instances of ConsumerSession. *)
EXTENDS ConsumerSession

CONSTANTS r1, r2, p1

TwoRequests   == {r1, r2}
OnePeer       == {p1}

=============================================================================
