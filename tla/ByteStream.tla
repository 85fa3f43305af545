----------------------------- MODULE ByteStream -----------------------------
(***************************************************************************)
(* What the encrypted response stream promises its caller, whatever is    *)
(* lost or delayed underneath.  The provider keeps the pieces of the      *)
(* backend's stream that are whole UTF-8 and drops the others; the text   *)
(* handed over is always a prefix of what was kept, and the stream is     *)
(* reported complete only when the backend's stream is over and all that  *)
(* was kept has been handed over.                                         *)
(***************************************************************************)
EXTENDS Naturals, Sequences, SequencesExt

CONSTANT Length             \* bound: characters the backend produces

VARIABLES
    produced,               \* how many characters the backend has produced
    place,                  \* the characters kept, by their place in its text
    ended,                  \* the backend's stream has ended
    handed,                 \* what the caller was given, in order
    result                  \* "none", "ok" or "error"

vars == <<produced, place, ended, handed, result>>

Init ==
    /\ produced = 0
    /\ place = <<>>
    /\ ended = FALSE
    /\ handed = <<>>
    /\ result = "none"

\* The next characters, in their order, or none of a piece.
Produce ==
    /\ ~ended
    /\ \E n \in 0..(Length - produced) :
         /\ produced' = produced + n
         /\ \/ UNCHANGED place
            \/ place' = place \o [i \in 1..n |-> produced + i]
    /\ ended' \in BOOLEAN
    /\ UNCHANGED <<handed, result>>

\* One message may make several pieces available; the last one also ends it.
HandOver ==
    /\ result = "none"
    /\ \E n \in Len(handed)..Len(place) :
         /\ handed' = SubSeq(place, 1, n)
         /\ \/ UNCHANGED result
            \/ ended /\ n = Len(place) /\ result' = "ok"
    /\ UNCHANGED <<produced, place, ended>>

Fail ==
    /\ result = "none"
    /\ result' = "error"
    /\ UNCHANGED <<produced, place, ended, handed>>

Next == Produce \/ HandOver \/ Fail

Spec == Init /\ [][Next]_vars
=============================================================================
