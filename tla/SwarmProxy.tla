------------------------------ MODULE SwarmProxy ------------------------------
(***************************************************************************)
(* A request sent through a swarm: the consumer's and the provider's       *)
(* P2pManager (peer/src/p2p_manager.rs) and the tasks of p2p_proxy.rs that *)
(* serve it.                                                               *)
(*                                                                         *)
(* Each manager is ONE task: every branch of its select loop is an atomic  *)
(* step here. A served request runs in a task of its own, which talks to   *)
(* the provider's manager through two channels (rr_response, reverse_proxy)*)
(* and shares with it the slot that names the consumer's newest encrypted  *)
(* request. The reply to an encrypted request is an acknowledgement on the *)
(* request's own substream, then chunks that the provider sends as         *)
(* requests of its own, each on a substream of its own: the network keeps  *)
(* no order. A chunk names the request, not the attempt; the attempt it    *)
(* belongs to is in the key it is encrypted with.                          *)
(*                                                                         *)
(* One consumer, one provider, both with the other's catalogue (so its     *)
(* listen addresses) in peer_cache.                                        *)
(***************************************************************************)
EXTENDS Naturals, Sequences, FiniteSets, SequencesExt

CONSTANTS
    Reqs,           \* req_id values the consumer uses
    Modes,          \* settings and bounds to look at: sealed and strict are
                    \* e2ee_enabled() of the consumer (with a room) and of the
                    \* provider; reqs are the requests made, breaks bounds how
                    \* often the connection breaks, faults the refusals,
                    \* failures, pieces left out and timeouts
    MaxAttempts,    \* MAX_PROXY_SEND_ATTEMPTS
    Pieces          \* bound: full chunks of text a backend produces

ASSUME SwarmProxyAssumption ==
    /\ MaxAttempts \in Nat /\ Pieces \in Nat
    /\ \A m \in Modes : /\ m.sealed \in BOOLEAN /\ m.strict \in BOOLEAN
                        /\ m.reqs \subseteq Reqs /\ m.breaks \in Nat /\ m.faults \in Nat

Try     == [req: Reqs, att: 0..MaxAttempts]     \* one sending of a request
NoTry   == [req |-> "none"]
Seqs    == 0..Pieces
Chunk   == [req: Reqs, att: 0..MaxAttempts, seq: Seqs, text: Seqs, done: BOOLEAN]
Answers == {"stream", "refused", "body"}
NoStream == [att |-> "none"]

VARIABLES
    mode,           \* the settings of this run
    up, breaks,     \* the connection; how often it broke
    cUp, pUp,       \* is_connected, as each manager's libp2p swarm sees it
    wire,           \* messages under way between the managers
    faults,         \* failures so far
    \* consumer
    outcome,        \* per request: "new", "waiting" (pending_proxy_by_req_id), "done", "error"
    queued,         \* pending_outbound_proxies
    outstanding,    \* pending_proxy_by_outbound_id
    failing,        \* outstanding tries whose OutboundFailure event is due
    stream,         \* pending_encrypted_streams: [att, next]
    reorder,        \* chunks of the stream's reorder map
    early,          \* pending_encrypted_stream_early
    got,            \* what the caller was sent: <<[att, text], ...>>
    \* provider
    mapped,         \* libp2p_to_mtrxai has an entry for the consumer
    stuck,          \* the select loop waits for a lock it holds itself
    channels,       \* tries whose response channel is open
    slot,           \* active_encrypted_proxies: the try that claimed it last
    task,           \* per try: [stage, read, seq, fate]
    rrq,            \* rr_response channel
    revq,           \* reverse_proxy channel
    parked,         \* pending_reverse_proxies
    \* history
    late,           \* per try: chunks sent to the channel after losing the slot
    produced,       \* per try: pieces the backend's stream brought
    dropped,        \* per try: those of them that were not whole UTF-8
    cut             \* requests whose acknowledged stream met a broken connection

link     == <<mode, up, breaks, cUp, pUp>>
consumer == <<outcome, queued, outstanding, failing, stream, reorder, early, got>>
manager  == <<mapped, stuck, channels, rrq, revq, parked>>
source   == <<produced, dropped>>
serving  == <<slot, task, late, source>>
vars     == <<link, wire, faults, consumer, manager, serving, cut>>

Stages == {"none", "claim", "check", "ack", "refuse", "forward", "read", "flush",
           "send", "final", "sendLast", "plain", "end"}
Fates  == {"", "superseded", "upstream", "truncated", "empty", "crypto"}

Init ==
    /\ mode \in Modes
    /\ up = TRUE /\ breaks = 0 /\ cUp = TRUE /\ pUp = TRUE
    /\ wire = {} /\ faults = 0
    /\ outcome = [r \in Reqs |-> "new"]
    /\ queued = {} /\ outstanding = {} /\ failing = {}
    /\ stream = [r \in Reqs |-> NoStream]
    /\ reorder = [r \in Reqs |-> {}] /\ early = [r \in Reqs |-> {}]
    /\ got = [r \in Reqs |-> <<>>]
    /\ mapped = TRUE /\ stuck = FALSE
    /\ channels = {} /\ slot = NoTry
    /\ task = [x \in Try |-> [stage |-> "none", read |-> 0, seq |-> 0, fate |-> ""]]
    /\ rrq = <<>> /\ revq = <<>> /\ parked = <<>>
    /\ late = [x \in Try |-> 0]
    /\ produced = [x \in Try |-> 0] /\ dropped = [x \in Try |-> 0]
    /\ cut = {}

Waiting(r) == outcome[r] = "waiting"

-----------------------------------------------------------------------------
(* The connection. Broken, it loses what was under way; each manager learns *)
(* of it by an event. It is dialled again by the presence timer of either.  *)

Break ==
    /\ up /\ cUp /\ pUp /\ breaks < mode.breaks
    /\ up' = FALSE /\ breaks' = breaks + 1
    /\ wire' = {} /\ channels' = {}
    /\ cut' = cut \cup {r \in Reqs : stream[r] # NoStream}
    /\ UNCHANGED <<mode, cUp, pUp, faults, consumer, mapped, stuck, rrq, revq, parked, serving>>

Redial ==
    /\ ~up /\ ~cUp /\ ~pUp /\ ~stuck
    /\ up' = TRUE
    /\ UNCHANGED <<mode, breaks, cUp, pUp, wire, faults, consumer, manager, serving, cut>>

-----------------------------------------------------------------------------
(* Consumer *)

Message(kind, x) == [kind |-> kind, req |-> x.req, att |-> x.att]

Answered(S, how) == [r \in Reqs |-> IF r \in S /\ Waiting(r) THEN how ELSE outcome[r]]

ReqsOf(S) == {x.req : x \in S}

\* send_outbound_proxy for each try of "going", on a live connection: forget the
\* streams of the request, resolve the provider's key, encrypt, send. The tries
\* of "bad" fail at the key or the encryption. "out" is what stays outstanding.
Send(going, bad, out) ==
    /\ mode.sealed \/ bad = {}
    /\ faults + Cardinality(bad) <= mode.faults
    /\ faults' = faults + Cardinality(bad)
    /\ IF mode.sealed
       THEN /\ stream' = [r \in Reqs |-> IF r \in ReqsOf(going) THEN NoStream ELSE stream[r]]
            /\ reorder' = [r \in Reqs |-> IF r \in ReqsOf(going) THEN {} ELSE reorder[r]]
            /\ early' = [r \in Reqs |-> IF r \in ReqsOf(going) THEN {} ELSE early[r]]
       ELSE UNCHANGED <<stream, reorder, early>>
    /\ outstanding' = out \cup (going \ bad)
    /\ wire' = IF up THEN wire \cup {Message("request", x) : x \in going \ bad} ELSE wire

\* handle_proxy_cmd for a request it accepts; not connected, it is queued.
ProxyCmd(r) ==
    LET x == [req |-> r, att |-> 0] IN
    /\ outcome[r] = "new"
    /\ IF cUp
       THEN \E bad \in SUBSET {x} :
              /\ Send({x}, bad, outstanding)
              /\ outcome' = [outcome EXCEPT ![r] = IF bad = {} THEN "waiting" ELSE "error"]
              /\ UNCHANGED queued
       ELSE /\ queued' = queued \cup {x}
            /\ outcome' = [outcome EXCEPT ![r] = "waiting"]
            /\ UNCHANGED <<faults, stream, reorder, early, outstanding, wire>>
    /\ UNCHANGED <<link, failing, got, manager, serving, cut>>

\* Another swarm's, a blocked target, no ranked peer, a body above
\* MAX_PROXY_BODY_BYTES, no listen address yet: answered on the spot.
ProxyCmdRefused(r) ==
    /\ outcome[r] = "new"
    /\ outcome' = [outcome EXCEPT ![r] = "error"]
    /\ UNCHANGED <<link, wire, faults, queued, outstanding, failing, stream, reorder, early,
                   got, manager, serving, cut>>

\* ConnectionEstablished: flush_pending_proxies_for_peer.
ConsumerConnected ==
    /\ up /\ ~cUp
    /\ cUp' = TRUE
    /\ queued' = {}
    /\ \E bad \in SUBSET queued :
         /\ Send(queued, bad, outstanding)
         /\ outcome' = Answered(ReqsOf(bad), "error")
    /\ UNCHANGED <<mode, up, breaks, pUp, failing, got, manager, serving, cut>>

\* ConnectionClosed; libp2p then reports each outstanding try as failed.
ConsumerClosed ==
    /\ ~up /\ cUp
    /\ cUp' = FALSE
    /\ failing' = outstanding
    /\ UNCHANGED <<mode, up, breaks, pUp, wire, faults, outcome, queued, outstanding, stream,
                   reorder, early, got, manager, serving, cut>>

\* Variant: the retry is counted but not sent again.
RetryForgotten(y) ==
    UNCHANGED <<queued, wire, faults, outcome, stream, reorder, early>>
    /\ outstanding' = outstanding \ {[y EXCEPT !.att = @ - 1]}

\* The retry of handle_proxy_outbound_failure, under the same req_id.
Retry(y) ==
    LET rest == outstanding \ {[y EXCEPT !.att = @ - 1]} IN
    IF cUp
    THEN \E bad \in SUBSET {y} :
           /\ Send({y}, bad, rest)
           /\ outcome' = Answered(ReqsOf(bad), "error")
           /\ UNCHANGED queued
    ELSE /\ queued' = queued \cup {y}
         /\ outstanding' = rest
         /\ UNCHANGED <<wire, faults, outcome, stream, reorder, early>>

MayRetry(x) == x.att < MaxAttempts

\* handle_proxy_outbound_failure, ConnectionClosed
OutboundFailure(x) ==
    /\ x \in failing
    /\ failing' = failing \ {x}
    /\ IF MayRetry(x)
       THEN Retry([x EXCEPT !.att = @ + 1])
       ELSE /\ outstanding' = outstanding \ {x}
            /\ outcome' = Answered({x.req}, "error")
            /\ UNCHANGED <<queued, wire, faults, stream, reorder, early>>
    /\ UNCHANGED <<link, got, manager, serving, cut>>

\* handle_proxy_outbound_failure, Timeout: not retried. Its substream is gone.
OutboundTimeout(x) ==
    /\ x \in outstanding \ failing
    /\ faults < mode.faults
    /\ faults' = faults + 1
    /\ outstanding' = outstanding \ {x}
    /\ outcome' = Answered({x.req}, "error")
    /\ channels' = channels \ {x}
    /\ wire' = {w \in wire : w.kind = "chunk" \/ [req |-> w.req, att |-> w.att] # x}
    /\ UNCHANGED <<link, queued, failing, stream, reorder, early, got, mapped, stuck, rrq, revq,
                   parked, serving, cut>>

\* BTreeMap insert and extend: a later chunk takes the place of one with its seq.
Into(map, new) == {c \in map : \A d \in new : d.seq # c.seq} \cup new

\* Variant: a chunk is opened with whatever key, as if all attempts shared one.
OpensAnyway(c, att) == c.seq >= 0 /\ att >= 0

\* The AEAD opens a chunk only with the key of the attempt it was sealed for.
Opens(c, att) == c.att = att

\* The chunks the drain loop reaches: consecutive from next.
Ready(map, next) ==
    {c \in map : c.seq >= next /\ \A k \in next..c.seq : \E d \in map : d.seq = k}

\* They are decrypted one by one, in the order of their numbers.
InLine(S, next) == [i \in 1..Cardinality(S) |-> CHOOSE c \in S : c.seq = next + i - 1]

\* drain_encrypted_stream_chunks of request r, whose reorder map is "map": the
\* loop ends at a gap, at the last chunk, or at one that does not decrypt.
Drain(r, att, next, map) ==
    LET ready == Ready(map, next)
        stops == {c \in ready : c.done \/ ~Opens(c, att)}
        first == {c \in stops : \A d \in stops : c.seq <= d.seq}
        taken == {c \in ready : Opens(c, att) /\ \A s \in first : c.seq <= s.seq}
        text  == InLine(taken, next)
    IN /\ got' = [got EXCEPT ![r] = @ \o [i \in 1..Len(text) |->
                                            [att |-> text[i].att, text |-> text[i].text]]]
       /\ IF first # {}
          THEN /\ outcome' = [outcome EXCEPT ![r] =
                                IF first \subseteq taken THEN "done" ELSE "error"]
               /\ stream' = [stream EXCEPT ![r] = NoStream]
               /\ reorder' = [reorder EXCEPT ![r] = {}]
               /\ early' = [early EXCEPT ![r] = {}]
          ELSE /\ stream' = [stream EXCEPT ![r] = [att |-> att, next |-> next + Len(text)]]
               /\ reorder' = [reorder EXCEPT ![r] = map \ taken]
               /\ early' = [early EXCEPT ![r] = {}]
               /\ UNCHANGED outcome

\* EncryptedProxyResponse with stream = true: the chunks that came before it
\* are taken over, and drained.
Acknowledged(x) ==
    IF Waiting(x.req)
    THEN Drain(x.req, x.att, 0, early[x.req])
    ELSE /\ stream' = [stream EXCEPT ![x.req] = [att |-> x.att, next |-> 0]]
         /\ reorder' = [reorder EXCEPT ![x.req] = early[x.req]]
         /\ early' = [early EXCEPT ![x.req] = {}]
         /\ UNCHANGED <<outcome, got>>

\* A response to try x: an acknowledgement, a refusal or failure, or the body
\* of a plaintext reply.
HandleResponse(w) ==
    LET x == [req |-> w.req, att |-> w.att] IN
    /\ cUp /\ w \in wire /\ w.kind \in Answers /\ x \in outstanding
    /\ wire' = wire \ {w}
    /\ outstanding' = outstanding \ {x}
    /\ IF w.kind = "stream"
       THEN Acknowledged(x)
       ELSE /\ outcome' = Answered({x.req}, IF w.kind = "body" THEN "done" ELSE "error")
            /\ UNCHANGED <<stream, reorder, early, got>>
    /\ UNCHANGED <<link, faults, queued, failing, manager, serving, cut>>

ChunkOf(w) == [req |-> w.req, att |-> w.att, seq |-> w.seq, text |-> w.text, done |-> w.done]

\* Variant: chunks that come before the acknowledgement are not kept.
HandleChunkLate(w) ==
    /\ cUp /\ w \in wire /\ w.kind = "chunk"
    /\ wire' = wire \ {w}
    /\ IF Waiting(w.req) /\ stream[w.req] # NoStream
       THEN Drain(w.req, stream[w.req].att, stream[w.req].next,
                  Into(reorder[w.req], {ChunkOf(w)}))
       ELSE UNCHANGED <<outcome, stream, reorder, early, got>>
    /\ UNCHANGED <<link, faults, queued, outstanding, failing, manager, serving, cut>>

\* handle_encrypted_stream_chunk
HandleChunk(w) ==
    LET r == w.req IN
    /\ cUp /\ w \in wire /\ w.kind = "chunk"
    /\ wire' = wire \ {w}
    /\ IF ~Waiting(r)
       THEN UNCHANGED <<outcome, stream, reorder, early, got>>
       ELSE IF stream[r] # NoStream
       THEN Drain(r, stream[r].att, stream[r].next, Into(reorder[r], {ChunkOf(w)}))
       ELSE /\ early' = [early EXCEPT ![r] = Into(@, {ChunkOf(w)})]
            /\ UNCHANGED <<outcome, stream, reorder, got>>
    /\ UNCHANGED <<link, faults, queued, outstanding, failing, manager, serving, cut>>

-----------------------------------------------------------------------------
(* Provider: the manager's task. Every action of it waits while it is stuck. *)

At(x, stage) == task' = [task EXCEPT ![x].stage = stage]

\* A lost chunk stays the first thing to say about a task.
Ends(x, fate) ==
    task' = [task EXCEPT ![x].stage = "end",
                         ![x].fate = IF @ = "crypto" THEN @ ELSE fate]

Reply(x, kind) == IF up THEN wire \cup {Message(kind, x)} ELSE wire

\* ProxyRequest and EncryptedProxyRequest. The encrypted one renews the
\* consumer's mapping; a failed authentication and a plaintext request under
\* e2ee are refused by the manager itself.
ReceiveRequest(w, admitted) ==
    LET x == [req |-> w.req, att |-> w.att]
        refused == IF mode.sealed THEN ~admitted ELSE mode.strict
    IN
    /\ pUp /\ ~stuck /\ w \in wire /\ w.kind = "request"
    /\ mode.sealed \/ admitted
    /\ admitted \/ faults < mode.faults
    /\ faults' = faults + (IF admitted THEN 0 ELSE 1)
    /\ mapped' = (mapped \/ (mode.sealed /\ admitted))
    /\ IF refused
       THEN /\ wire' = (wire \ {w}) \cup {Message("refused", x)}
            /\ UNCHANGED <<channels, task>>
       ELSE /\ wire' = wire \ {w}
            /\ channels' = channels \cup {x}
            /\ At(x, IF mode.sealed THEN "claim" ELSE "plain")
    /\ UNCHANGED <<link, consumer, stuck, rrq, revq, parked, slot, late, source, cut>>

\* rr_response_rx: a response whose channel is closed is dropped.
SendResponse ==
    /\ ~stuck /\ rrq # <<>>
    /\ LET x == [req |-> Head(rrq).req, att |-> Head(rrq).att] IN
         /\ wire' = IF x \in channels THEN wire \cup {Head(rrq)} ELSE wire
         /\ channels' = channels \ {x}
    /\ rrq' = Tail(rrq)
    /\ UNCHANGED <<link, faults, consumer, mapped, stuck, revq, parked, serving, cut>>

OnWire(c) == [kind |-> "chunk", req |-> c.req, att |-> c.att, seq |-> c.seq,
              text |-> c.text, done |-> c.done]

\* reverse_proxy_rx, send_or_queue_reverse_proxy. A chunk given to a connection
\* that is already broken is lost: its OutboundFailure is of no known request.
\* Not connected but mapped, the manager dials while it holds libp2p_to_mtrxai,
\* which dial_mtrxai_peer locks again.
SendReverse ==
    /\ ~stuck /\ revq # <<>>
    /\ revq' = Tail(revq)
    /\ IF pUp
       THEN /\ wire' = IF up THEN wire \cup {OnWire(Head(revq))} ELSE wire
            /\ UNCHANGED <<stuck, parked>>
       ELSE IF mapped
       THEN /\ stuck' = TRUE
            /\ UNCHANGED <<wire, parked>>
       ELSE /\ parked' = Append(parked, Head(revq))
            /\ UNCHANGED <<wire, stuck>>
    /\ UNCHANGED <<link, faults, consumer, mapped, channels, rrq, serving, cut>>

\* ConnectionEstablished: flush_pending_reverse_proxies_for_peer, then
\* track_libp2p_peer, which maps the consumer.
ProviderConnected ==
    /\ up /\ ~pUp /\ ~stuck
    /\ pUp' = TRUE /\ mapped' = TRUE
    /\ wire' = wire \cup {OnWire(parked[i]) : i \in DOMAIN parked}
    /\ parked' = <<>>
    /\ UNCHANGED <<mode, up, breaks, cUp, faults, consumer, stuck, channels, rrq, revq, serving, cut>>

\* ConnectionClosed: untrack_libp2p_peer
ProviderClosed ==
    /\ ~up /\ pUp /\ ~stuck
    /\ pUp' = FALSE /\ mapped' = FALSE
    /\ UNCHANGED <<mode, up, breaks, cUp, wire, faults, consumer, stuck, channels, rrq, revq,
                   parked, serving, cut>>

\* The presence timer or a catalogue: dial_mtrxai_peer maps a peer it dials.
ProviderDials ==
    /\ ~pUp /\ ~mapped /\ ~stuck
    /\ mapped' = TRUE
    /\ UNCHANGED <<link, wire, faults, consumer, stuck, channels, rrq, revq, parked, serving, cut>>

-----------------------------------------------------------------------------
(* Provider: the tasks *)

\* Variant: the slot is not looked at.
ActiveAlways(x) == task[x].stage # "none"

\* encrypted_proxy_still_active
Active(x) == slot = x

Frame == UNCHANGED <<link, consumer, mapped, stuck, cut>>

\* claim_encrypted_proxy_slot
Claim(x) ==
    /\ task[x].stage = "claim"
    /\ slot' = x
    /\ At(x, "check")
    /\ Frame /\ UNCHANGED <<wire, faults, channels, rrq, revq, parked, late, source>>

\* What waits for the consumer to come back is dropped, whichever request's;
\* then is_peer_blocked and decrypt_inbound_request, which touch nothing else.
Check(x, ok) ==
    /\ task[x].stage = "check"
    /\ parked' = <<>>
    /\ ok \/ faults < mode.faults
    /\ faults' = faults + (IF ok THEN 0 ELSE 1)
    /\ At(x, IF ok THEN "ack" ELSE "refuse")
    /\ Frame /\ UNCHANGED <<wire, channels, rrq, revq, slot, late, source>>

\* respond: a task without the slot drops the channel, and libp2p ends the
\* consumer's substream with an error.
Respond(x) ==
    LET kind == IF task[x].stage = "ack" THEN "stream" ELSE "refused" IN
    /\ task[x].stage \in {"ack", "refuse"}
    /\ IF Active(x)
       THEN /\ rrq' = Append(rrq, Message(kind, x))
            /\ UNCHANGED <<wire, channels>>
       ELSE /\ wire' = IF x \in channels THEN Reply(x, "refused") ELSE wire
            /\ channels' = channels \ {x}
            /\ UNCHANGED rrq
    /\ IF kind = "stream" THEN At(x, "forward") ELSE Ends(x, "")
    /\ Frame /\ UNCHANGED <<faults, revq, parked, slot, late, source>>

\* forward_chat_stream: an error is only counted, the consumer gets no chunk.
Forward(x, ok) ==
    /\ task[x].stage = "forward"
    /\ ok \/ faults < mode.faults
    /\ faults' = faults + (IF ok THEN 0 ELSE 1)
    /\ IF ok THEN At(x, "read") ELSE Ends(x, "upstream")
    /\ Frame /\ UNCHANGED <<wire, channels, rrq, revq, parked, slot, late, source>>

Alone    == Frame /\ UNCHANGED <<wire, channels, rrq, revq, parked, slot, late>>
TaskOnly == Alone /\ UNCHANGED <<faults, source>>

\* The next item of the backend's stream fills a chunk, or is not whole UTF-8: it is
\* then left out and nobody is told. A task that lost the slot stops, and its final
\* flush sends nothing.
ReadPiece(x, whole) ==
    /\ task[x].stage = "read" /\ produced[x] < Pieces
    /\ IF Active(x)
       THEN /\ produced' = [produced EXCEPT ![x] = @ + 1]
            /\ IF whole
               THEN /\ task' = [task EXCEPT ![x].stage = "flush", ![x].read = @ + 1]
                    /\ UNCHANGED <<faults, dropped>>
               ELSE /\ faults < mode.faults /\ faults' = faults + 1
                    /\ dropped' = [dropped EXCEPT ![x] = @ + 1]
                    /\ UNCHANGED task
       ELSE Ends(x, "superseded") /\ UNCHANGED <<faults, source>>
    /\ Alone

\* The backend's stream ends, or breaks: either way the rest is flushed.
ReadEnd(x, broken) ==
    /\ task[x].stage = "read"
    /\ broken => faults < mode.faults
    /\ faults' = faults + (IF broken THEN 1 ELSE 0)
    /\ IF broken /\ ~Active(x)
       THEN Ends(x, "superseded")
       ELSE task' = [task EXCEPT ![x].stage = "final",
                                 ![x].fate = IF broken /\ @ # "crypto" THEN "truncated" ELSE @]
    /\ Frame /\ UNCHANGED <<wire, channels, rrq, revq, parked, slot, late, source>>

\* flush_encrypted_pending: the check at the head of its loop.
Flush(x) ==
    /\ task[x].stage = "flush"
    /\ At(x, IF Active(x) THEN "send" ELSE "read")
    /\ TaskOnly

\* flush_encrypted_pending, done = true. The rest is below a full chunk; when
\* nothing is left over no last chunk is sent.
Final(x, rest) ==
    /\ task[x].stage = "final"
    /\ IF ~Active(x) THEN Ends(x, "superseded")
       ELSE IF rest THEN At(x, "sendLast")
       ELSE Ends(x, "empty")
    /\ TaskOnly

\* Variant: a chunk that empties the buffer is called the last one.
ChunkFromEmptied(x, last) == [req |-> x.req, att |-> x.att, seq |-> task[x].seq,
                              text |-> IF last THEN 0 ELSE task[x].read, done |-> TRUE]

\* The text drained for chunk seq is the read-th piece; the rest comes last.
ChunkFrom(x, last) == [req |-> x.req, att |-> x.att, seq |-> task[x].seq,
                       text |-> IF last THEN 0 ELSE task[x].read, done |-> last]

\* encrypt_proxy_chunk and reverse_tx.send. The slot is not looked at again. A
\* chunk that cannot be encrypted is gone and its number is used for the next.
SendChunk(x, sealed) ==
    LET last == task[x].stage = "sendLast" IN
    /\ task[x].stage \in {"send", "sendLast"}
    /\ sealed \/ faults < mode.faults
    /\ faults' = faults + (IF sealed THEN 0 ELSE 1)
    /\ IF sealed
       THEN /\ revq' = Append(revq, ChunkFrom(x, last))
            /\ task' = [task EXCEPT ![x].seq = @ + 1,
                                    ![x].stage = IF last THEN "end" ELSE "read"]
            /\ late' = [late EXCEPT ![x] = IF slot = x THEN @ ELSE @ + 1]
       ELSE /\ task' = [task EXCEPT ![x].fate = "crypto",
                                    ![x].stage = IF last THEN "end" ELSE "read"]
            /\ UNCHANGED <<revq, late>>
    /\ Frame /\ UNCHANGED <<wire, channels, rrq, parked, slot, source>>

\* dispatch_swarm_proxy_request: blocked, in maintenance or failing upstream it
\* answers an error; otherwise what it read, be it all of the reply or not.
ServePlain(x, ok) ==
    /\ task[x].stage = "plain"
    /\ ok \/ faults < mode.faults
    /\ faults' = faults + (IF ok THEN 0 ELSE 1)
    /\ rrq' = Append(rrq, Message(IF ok THEN "body" ELSE "refused", x))
    /\ Ends(x, "")
    /\ Frame /\ UNCHANGED <<wire, channels, revq, parked, slot, late, source>>

-----------------------------------------------------------------------------

ConsumerStep ==
    \/ ConsumerConnected \/ ConsumerClosed
    \/ \E x \in Try : OutboundFailure(x)
    \/ \E w \in wire : HandleResponse(w) \/ HandleChunk(w)

ProviderStep ==
    \/ ProviderConnected \/ ProviderClosed \/ SendResponse \/ SendReverse
    \/ \E w \in wire, admitted \in BOOLEAN : ReceiveRequest(w, admitted)

TaskStep ==
    \E x \in Try :
      \/ Claim(x) \/ Respond(x) \/ Flush(x)
      \/ \E ok \in BOOLEAN : Check(x, ok) \/ Forward(x, ok) \/ ServePlain(x, ok)
      \/ \E flag \in BOOLEAN : ReadPiece(x, flag) \/ ReadEnd(x, flag) \/ Final(x, flag) \/ SendChunk(x, flag)

Environment ==
    \/ \E r \in mode.reqs : ProxyCmd(r) \/ ProxyCmdRefused(r)
    \/ \E x \in Try : OutboundTimeout(x)
    \/ Break \/ ProviderDials

Next == ConsumerStep \/ ProviderStep \/ TaskStep \/ Redial \/ Environment

\* The managers' loops and the tasks keep running, backends end their streams,
\* and the presence timers dial a lost peer until it is back. Nothing is assumed
\* of the callers, of the timeout (600 s) or of the connection.
Fairness == WF_vars(ConsumerStep \/ ProviderStep \/ TaskStep \/ Redial)

Spec == Init /\ [][Next]_vars /\ Fairness

-----------------------------------------------------------------------------
(* Properties *)

\* The type invariant of both managers and of the tasks.
TypeOK ==
    /\ mode \in Modes /\ up \in BOOLEAN /\ cUp \in BOOLEAN /\ pUp \in BOOLEAN
    /\ breaks \in 0..mode.breaks /\ faults \in 0..mode.faults
    /\ outcome \in [Reqs -> {"new", "waiting", "done", "error"}]
    /\ queued \subseteq Try /\ failing \subseteq outstanding /\ outstanding \subseteq Try
    /\ \A r \in Reqs :
         /\ stream[r] = NoStream
              \/ (stream[r].att \in 0..MaxAttempts /\ stream[r].next \in 0..Pieces + 1)
         /\ reorder[r] \subseteq Chunk /\ early[r] \subseteq Chunk
         /\ Len(got[r]) <= Pieces + 1
    /\ mapped \in BOOLEAN /\ stuck \in BOOLEAN
    /\ channels \subseteq Try /\ slot \in Try \cup {NoTry} /\ cut \subseteq Reqs
    /\ \A x \in Try : task[x].stage \in Stages /\ task[x].fate \in Fates
    /\ \A i \in DOMAIN revq : revq[i] \in Chunk
    /\ \A i \in DOMAIN parked : parked[i] \in Chunk

Homes(r) ==
    Cardinality({x \in queued : x.req = r}) + Cardinality({x \in outstanding : x.req = r})
      + (IF stream[r] # NoStream THEN 1 ELSE 0)

\* The three maps that hold an unfinished request (pending_outbound_proxies,
\* pending_proxy_by_outbound_id, pending_encrypted_streams) agree with the one
\* that holds its caller: a request with a caller is in exactly one of them,
\* whatever retries and reconnections it went through, and one without a caller
\* in none. A caller in no map could never be answered.
OneHome == \A r \in Reqs : Homes(r) = IF Waiting(r) THEN 1 ELSE 0

\* The maps of both managers are in step.
ProxyInv == TypeOK /\ OneHome

TryOf(r)   == [req |-> r, att |-> got[r][1].att]
TaskOf(r)  == task[TryOf(r)]
Brought(r) == produced[TryOf(r)]
LeftOut(r) == dropped[TryOf(r)]

\* What a caller is given is the text of ONE attempt in its order, although
\* chunks travel on substreams of their own, earlier attempts use the same
\* req_id and chunks may come before the acknowledgement. Without a failing
\* encryption there is no gap in it.
TextInOrder ==
    \A r \in Reqs : \A i \in DOMAIN got[r] :
      /\ got[r][i].att = got[r][1].att
      /\ got[r][i].text = 0 => i = Len(got[r])
      /\ TaskOf(r).fate # "crypto" =>
           got[r][i].text = (IF i = TaskOf(r).read + 1 THEN 0 ELSE i)

\* A reply that ends with the done flag comes from a task that has ended, and,
\* unless an encryption failed, what the caller was given and the pieces left out
\* as not being whole UTF-8 are together all that the backend's stream brought.
\* The flag tells neither of pieces left out nor of a backend that broke off.
DoneMeansAll ==
    \A r \in Reqs : outcome[r] = "done" /\ mode.sealed =>
      /\ got[r] # <<>> /\ Last(got[r]).text = 0
      /\ TaskOf(r).stage = "end"
      /\ TaskOf(r).fate # "crypto" =>
           Len(got[r]) + LeftOut(r) = Brought(r) + 1      \* the rest is one more

\* A task that lost the slot to a newer request of the same consumer gets at
\* most the one chunk out that it was encrypting: its stream then ends.
SupersededStops == \A x \in Try : late[x] <= 1

\* The reasons for which nothing more is sent for an acknowledged request: its
\* connection broke, a newer request took the slot, or the provider ended
\* without a last chunk. A provider that is stuck serves nobody.
Silenced(r) ==
    \/ stuck
    \/ /\ stream[r] # NoStream
       /\ \/ r \in cut
          \/ task[[req |-> r, att |-> stream[r].att]].fate
                \in {"superseded", "upstream", "empty", "crypto"}

\* Every caller is answered, unless its request was acknowledged and then
\* silenced: no retry, queue, reorder map or early chunk loses a request.
CallersAnswered == \A r \in Reqs : Waiting(r) ~> (~Waiting(r) \/ Silenced(r))
=============================================================================
