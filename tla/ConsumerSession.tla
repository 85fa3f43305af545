--------------------------- MODULE ConsumerSession ---------------------------
(***************************************************************************)
(* The consumer half of WebRTCManager (peer/src/webrtc_manager.rs): how    *)
(* the proxy requests of one cluster find, negotiate, replace and share    *)
(* WebRTC sessions with provider peers, and how their replies come back.   *)
(*                                                                         *)
(* Every proxy command runs in a task of its own (tokio::spawn in `run`),  *)
(* and so do lobby messages and moderation commands.  The maps of the      *)
(* manager are each behind their own mutex, taken and released once per    *)
(* access, so another task may run between any two accesses.  A step here  *)
(* is the work between two such points, and `pc' is where a request is.    *)
(***************************************************************************)
EXTENDS Naturals, Sequences, FiniteSets

CONSTANTS
    Requests,       \* proxy commands taken from proxy_cmd_rx
    Peers,          \* remote peers of the cluster
    NoPeer,         \* target of a request the lobby has not yet matched
    E2EE,           \* should_use_cluster_e2ee()
    MaxPolls,       \* DC_OPEN_MAX_POLLS
    MaxSessions,    \* bound: peer connections created
    MaxInbound,     \* bound: peer connections created for inbound offers
    MaxClosures     \* bound: moderation commands and lobby bans handled

ASSUME ConsumerSessionAssumption ==
    /\ NoPeer \notin Peers
    /\ E2EE \in BOOLEAN
    /\ MaxPolls \in Nat \ {0}
    /\ MaxSessions \in Nat
    /\ MaxInbound \in Nat
    /\ MaxClosures \in Nat

VARIABLES
    pc,             \* where the task of each request is
    target,         \* target_peer of connect_and_proxy
    approved,       \* connect_req_id.is_some()
    sess,           \* the session the request created or looked up, 0 if none
    polls,          \* attempts of the delayed task
    approvals,      \* pending_connect_approvals
    peers,          \* peers: the current session of a peer, 0 if none
    sessions,       \* every peer connection ever created, in order
    negotiating,    \* negotiating_peers
    answered,       \* sessions whose SDP answer the lobby has routed to us
    closures,       \* moderation commands handled so far
    pending,        \* keys of pending_requests
    exchanges,      \* keys of active_exchanges
    enc,            \* keys of pending_encrypted_consumer
    streams,        \* keys of pending_encrypted_streams
    outcome,        \* what the HTTP handler has read from its receiver
    inbox,          \* reply messages in the channel, in order
    prov            \* how far the provider is with the request

taskVars    == <<pc, target, approved, sess, polls, approvals>>
sessionVars == <<peers, sessions, negotiating, answered, closures>>
replyVars   == <<pending, exchanges, enc, streams, outcome>>
wireVars    == <<inbox, prov>>
vars        == <<taskVars, sessionVars, replyVars, wireVars>>

NegotiatingStages == {"create", "insert", "end"}
TrackedStages     == {"send", "waitOpen", "sendDelayed", "timeout",
                      "register", "awaiting", "unsent"}
Stages == {"idle", "approval", "stale", "closeStale", "replace",
           "closeReplace", "exists", "begin", "lookup", "done"}
            \cup NegotiatingStages \cup TrackedStages

\* "answered": the remote description is set and ICE runs; "broken": the
\* channel cannot open (a foreign answer, or a channel closed while its peer
\* connection is not yet terminal); "failed": the peer connection is terminal.
SessionStates == {"offered", "answered", "open", "broken", "failed", "closed"}
SessionRecord == [peer: Peers, dir: {"out", "in"}, state: SessionStates]

Messages == {"ack", "chunk", "final", "err"}
Outcomes == {"none", "ok", "error", "empty"}

State(s)    == sessions[s].state
Ready(p)    == peers[p] # 0 /\ State(peers[p]) = "open"
Terminal(p) == peers[p] # 0 /\ State(peers[p]) \in {"failed", "closed"}
NewSession  == Len(sessions) + 1

-----------------------------------------------------------------------------
Init ==
    /\ pc = [r \in Requests |-> "idle"]
    /\ target = [r \in Requests |-> NoPeer]
    /\ approved = [r \in Requests |-> FALSE]
    /\ sess = [r \in Requests |-> 0]
    /\ polls = [r \in Requests |-> 0]
    /\ approvals = {}
    /\ peers = [p \in Peers |-> 0]
    /\ sessions = <<>>
    /\ negotiating = {}
    /\ answered = {}
    /\ closures = 0
    /\ pending = {}
    /\ exchanges = {}
    /\ enc = {}
    /\ streams = {}
    /\ outcome = [r \in Requests |-> "none"]
    /\ inbox = [r \in Requests |-> <<>>]
    /\ prov = [r \in Requests |-> "none"]

Goto(r, stage) == pc' = [pc EXCEPT ![r] = stage]

\* The handler sends Err on (or drops the last sender of) the response
\* channel; only the first terminal event reaches the HTTP handler.
Ends(r, result) ==
    outcome' = [outcome EXCEPT ![r] = IF @ = "none" THEN result ELSE @]

Finish(r, result) == Goto(r, "done") /\ Ends(r, result)

-----------------------------------------------------------------------------
(* handle_proxy_cmd and request_brokered_peer *)

\* cmd.target_peer names the peer; a blocked one is refused at once.
RequestDirect(r, p) ==
    /\ pc[r] = "idle"
    /\ target' = [target EXCEPT ![r] = p]
    /\ \/ Goto(r, "stale") /\ UNCHANGED outcome
       \/ Finish(r, "error")
    /\ UNCHANGED <<approved, sess, polls, approvals, sessionVars,
                   pending, exchanges, enc, streams, wireVars>>

\* The waiter is registered before RequestPeerConnect is sent; when the send
\* fails the error returns at once and the waiter stays registered.
RequestBrokered(r) ==
    /\ pc[r] = "idle"
    /\ approvals' = approvals \cup {r}
    /\ \/ Goto(r, "approval") /\ UNCHANGED outcome
       \/ Finish(r, "error")
    /\ UNCHANGED <<target, approved, sess, polls, sessionVars,
                   pending, exchanges, enc, streams, wireVars>>

\* ConnectUpdate "approved" naming an attested provider.
ConnectApproved(r, p) ==
    /\ pc[r] = "approval" /\ r \in approvals
    /\ approvals' = approvals \ {r}
    /\ target' = [target EXCEPT ![r] = p]
    /\ approved' = [approved EXCEPT ![r] = TRUE]
    /\ Goto(r, "stale")
    /\ UNCHANGED <<sess, polls, sessionVars, replyVars, wireVars>>

\* ConnectUpdate "failed", "rejected" or "timeout", an approval that names no
\* provider or an unattested one, and the waiter's own timeout.
ApprovalFails(r) ==
    /\ pc[r] = "approval"
    /\ approvals' = approvals \ {r}
    /\ Finish(r, "error")
    /\ UNCHANGED <<target, approved, sess, polls, sessionVars,
                   pending, exchanges, enc, streams, wireVars>>

-----------------------------------------------------------------------------
(* connect_and_proxy *)

\* Variant: the peer connection is closed but its entry left in the map.
ClosePeerKeepsEntry(p) ==
    /\ negotiating' = negotiating \ {p}
    /\ sessions' = IF peers[p] = 0 THEN sessions
                   ELSE [sessions EXCEPT ![peers[p]].state = "closed"]
    /\ UNCHANGED peers

\* close_peer_connection: by peer, whatever session is current.
ClosePeer(p) ==
    /\ negotiating' = negotiating \ {p}
    /\ peers' = [peers EXCEPT ![p] = 0]
    /\ sessions' = IF peers[p] = 0 THEN sessions
                   ELSE [sessions EXCEPT ![peers[p]].state = "closed"]

\* remove_stale_peer_if_needed: the check, then (another step) the close.
CheckStale(r) ==
    /\ pc[r] = "stale"
    /\ Goto(r, IF Terminal(target[r]) THEN "closeStale" ELSE "replace")
    /\ UNCHANGED <<target, approved, sess, polls, approvals,
                   sessionVars, replyVars, wireVars>>

CloseStale(r) ==
    /\ pc[r] = "closeStale"
    /\ ClosePeer(target[r])
    /\ Goto(r, "replace")
    /\ UNCHANGED <<target, approved, sess, polls, approvals,
                   answered, closures, replyVars, wireVars>>

\* replace_incomplete_session_if_needed
MustReplace(r) ==
    /\ approved[r]
    /\ ~Ready(target[r])
    /\ target[r] \notin negotiating
    /\ peers[target[r]] # 0

CheckReplace(r) ==
    /\ pc[r] = "replace"
    /\ Goto(r, IF MustReplace(r) THEN "closeReplace" ELSE "exists")
    /\ UNCHANGED <<target, approved, sess, polls, approvals,
                   sessionVars, replyVars, wireVars>>

CloseReplace(r) ==
    /\ pc[r] = "closeReplace"
    /\ ClosePeer(target[r])
    /\ Goto(r, "exists")
    /\ UNCHANGED <<target, approved, sess, polls, approvals,
                   answered, closures, replyVars, wireVars>>

\* pc_exists is read under the lock of `peers', which is then released.
CheckExists(r) ==
    /\ pc[r] = "exists"
    /\ Goto(r, IF peers[target[r]] # 0 THEN "lookup" ELSE "begin")
    /\ UNCHANGED <<target, approved, sess, polls, approvals,
                   sessionVars, replyVars, wireVars>>

\* is_negotiating, the approval check and try_begin_negotiation.
Begin(r) ==
    /\ pc[r] = "begin"
    /\ \/ /\ target[r] \in negotiating
          /\ Goto(r, "lookup")
          /\ UNCHANGED <<negotiating, outcome>>
       \/ /\ target[r] \notin negotiating /\ ~approved[r]
          /\ Finish(r, "error")
          /\ UNCHANGED negotiating
       \/ /\ target[r] \notin negotiating /\ approved[r]
          /\ negotiating' = negotiating \cup {target[r]}
          /\ Goto(r, "create")
          /\ UNCHANGED outcome
    /\ UNCHANGED <<target, approved, sess, polls, approvals,
                   peers, sessions, answered, closures,
                   pending, exchanges, enc, streams, wireVars>>

\* The peer connection is created and its offer sent through the lobby.
SendOffer(r) ==
    /\ pc[r] = "create"
    /\ Len(sessions) < MaxSessions
    /\ sessions' = Append(sessions, [peer |-> target[r], dir |-> "out",
                                     state |-> "offered"])
    /\ sess' = [sess EXCEPT ![r] = NewSession]
    /\ Goto(r, "insert")
    /\ UNCHANGED <<target, approved, polls, approvals,
                   peers, negotiating, answered, closures, replyVars, wireVars>>

\* Variant: create_result? is evaluated before end_negotiation.
CreateFailsFlagged(r) ==
    /\ pc[r] = "create"
    /\ Finish(r, "empty")
    /\ UNCHANGED <<target, approved, sess, polls, approvals, sessionVars,
                   pending, exchanges, enc, streams, wireVars>>

\* create_result is Err: the flag is cleared and the command is dropped.
CreateFails(r) ==
    /\ pc[r] = "create"
    /\ negotiating' = negotiating \ {target[r]}
    /\ Finish(r, "empty")
    /\ UNCHANGED <<target, approved, sess, polls, approvals,
                   peers, sessions, answered, closures,
                   pending, exchanges, enc, streams, wireVars>>

\* peers.insert comes after the offer has been sent.
InsertSession(r) ==
    /\ pc[r] = "insert"
    /\ peers' = [peers EXCEPT ![target[r]] = sess[r]]
    /\ Goto(r, "end")
    /\ UNCHANGED <<target, approved, sess, polls, approvals,
                   sessions, negotiating, answered, closures,
                   replyVars, wireVars>>

EndNegotiation(r) ==
    /\ pc[r] = "end"
    /\ negotiating' = negotiating \ {target[r]}
    /\ Goto(r, "lookup")
    /\ UNCHANGED <<target, approved, sess, polls, approvals,
                   peers, sessions, answered, closures, replyVars, wireVars>>

\* No session: the command, and with it the response sender, is dropped.
\* Otherwise the exchange is tracked, the sender stored, and the request is
\* sent at once or handed to a delayed task.
Lookup(r) ==
    LET s == peers[target[r]] IN
    /\ pc[r] = "lookup"
    /\ \/ /\ s = 0
          /\ Finish(r, "empty")
          /\ UNCHANGED <<sess, pending, exchanges>>
       \/ /\ s # 0
          /\ Goto(r, IF State(s) = "open" THEN "send" ELSE "waitOpen")
          /\ sess' = [sess EXCEPT ![r] = s]
          /\ exchanges' = exchanges \cup {r}
          /\ pending' = pending \cup {r}
          /\ UNCHANGED outcome
    /\ UNCHANGED <<target, approved, polls, approvals, sessionVars,
                   enc, streams, wireVars>>

\* Variant: an attempt is counted only while the session may still open.
PollWaitsForever(r) ==
    /\ pc[r] = "waitOpen"
    /\ \/ State(sess[r]) = "open" /\ Goto(r, "sendDelayed") /\ UNCHANGED polls
       \/ /\ State(sess[r]) \in {"offered", "answered"}
          /\ polls' = [polls EXCEPT ![r] = @ + 1]
          /\ Goto(r, IF polls[r] + 1 < MaxPolls THEN "waitOpen" ELSE "timeout")
    /\ UNCHANGED <<target, approved, sess, approvals,
                   sessionVars, replyVars, wireVars>>

\* One turn of the delayed task's loop; it holds its own session, which may
\* no longer be the peer's current one.
Poll(r) ==
    /\ pc[r] = "waitOpen"
    /\ \/ /\ State(sess[r]) = "open"
          /\ Goto(r, "sendDelayed")
          /\ UNCHANGED polls
       \/ /\ State(sess[r]) # "open"
          /\ polls' = [polls EXCEPT ![r] = @ + 1]
          /\ Goto(r, IF polls[r] + 1 < MaxPolls THEN "waitOpen" ELSE "timeout")
    /\ UNCHANGED <<target, approved, sess, approvals,
                   sessionVars, replyVars, wireVars>>

\* The delayed task gives up: it removes and closes the peer's CURRENT
\* session and reports the timeout.
Timeout(r) ==
    LET p == target[r] IN
    /\ pc[r] = "timeout"
    /\ peers' = [peers EXCEPT ![p] = 0]
    /\ sessions' = IF peers[p] = 0 THEN sessions
                   ELSE [sessions EXCEPT ![peers[p]].state = "closed"]
    /\ Finish(r, "error")
    /\ UNCHANGED <<target, approved, sess, polls, approvals,
                   negotiating, answered, closures,
                   pending, exchanges, enc, streams, wireVars>>

\* send_cluster_proxy_on_dc, or the delayed task's copy of it.
Send(r) ==
    /\ pc[r] \in {"send", "sendDelayed"}
    /\ State(sess[r]) = "open"
    /\ Goto(r, IF E2EE THEN "register" ELSE "awaiting")
    /\ prov' = [prov EXCEPT ![r] = "got"]
    /\ UNCHANGED <<target, approved, sess, polls, approvals,
                   sessionVars, replyVars, inbox>>

\* Variant: the failed send also forgets the response sender.
SendFailsSilently(r) ==
    /\ \/ pc[r] = "send" /\ Goto(r, "unsent") /\ UNCHANGED outcome
       \/ pc[r] = "sendDelayed" /\ Finish(r, "error")
    /\ pending' = pending \ {r}
    /\ UNCHANGED <<target, approved, sess, polls, approvals, sessionVars,
                   exchanges, enc, streams, wireVars>>

\* No provider key, an oversized message or a closed channel.  Only the
\* delayed task tells the caller; the immediate path records the error and
\* leaves the sender in pending_requests.
SendFails(r) ==
    /\ \/ pc[r] = "send" /\ Goto(r, "unsent") /\ UNCHANGED outcome
       \/ pc[r] = "sendDelayed" /\ Finish(r, "error")
    /\ UNCHANGED <<target, approved, sess, polls, approvals, sessionVars,
                   pending, exchanges, enc, streams, wireVars>>

\* The keys that decrypt the reply are stored after the request is sent.
Register(r) ==
    /\ pc[r] = "register"
    /\ enc' = enc \cup {r}
    /\ Goto(r, "awaiting")
    /\ UNCHANGED <<target, approved, sess, polls, approvals, sessionVars,
                   pending, exchanges, streams, outcome, wireVars>>

-----------------------------------------------------------------------------
(* Lobby messages, moderation and the WebRTC stack *)

\* Route "answer" for the offer of session s: it is applied to whatever
\* session is current for that peer.
RouteAnswer(s) ==
    LET cur == peers[sessions[s].peer] IN
    /\ sessions[s].dir = "out" /\ s \notin answered
    /\ answered' = answered \cup {s}
    /\ sessions' =
         IF cur # 0 /\ State(cur) = "offered"
         THEN [sessions EXCEPT ![cur].state =
                                 IF cur = s THEN "answered" ELSE "broken"]
         ELSE sessions
    /\ UNCHANGED <<taskVars, peers, negotiating, closures, replyVars, wireVars>>

\* Route "offer" accepted (ProviderGate says when): it replaces the map entry.
InboundOffer(p) ==
    /\ Len(sessions) < MaxSessions
    /\ Cardinality({s \in DOMAIN sessions : sessions[s].dir = "in"}) < MaxInbound
    /\ sessions' = Append(sessions, [peer |-> p, dir |-> "in",
                                     state |-> "answered"])
    /\ peers' = [peers EXCEPT ![p] = NewSession]
    /\ UNCHANGED <<taskVars, negotiating, answered, closures,
                   replyVars, wireVars>>

\* handle_peer_moderation and PeerBanned
Moderate(p) ==
    /\ closures < MaxClosures
    /\ closures' = closures + 1
    /\ ClosePeer(p)
    /\ UNCHANGED <<taskVars, answered, replyVars, wireVars>>

SetState(s, from, to) ==
    /\ State(s) \in from
    /\ sessions' = [sessions EXCEPT ![s].state = to]
    /\ UNCHANGED <<taskVars, peers, negotiating, answered, closures,
                   replyVars, wireVars>>

ChannelOpens(s)  == SetState(s, {"answered"}, "open")
ChannelBreaks(s) == SetState(s, {"open"}, "broken")
SessionFails(s)  == SetState(s, {"answered", "open", "broken"}, "failed")

-----------------------------------------------------------------------------
(* The other peer's replies *)

\* The request went over a session the other peer opened: there the handler
\* of this peer runs as the provider's, and the other peer's as a consumer's.
OverInbound(r) == sess[r] # 0 /\ sessions[sess[r]].dir = "in"

LinkUp(r) == sess[r] # 0 /\ State(sess[r]) = "open"

\* A consumer's handler ignores an encrypted request; a plaintext one is
\* refused only by a provider's handler that wants it encrypted.
Served(r) == LinkUp(r) /\ (E2EE => ~OverInbound(r))

Reply(r, stages, msg, next) ==
    /\ Served(r)
    /\ prov[r] \in stages
    /\ prov' = [prov EXCEPT ![r] = next]
    /\ inbox' = [inbox EXCEPT ![r] = Append(@, msg)]
    /\ UNCHANGED <<taskVars, sessionVars, replyVars>>

Streaming == IF E2EE THEN {"acked", "streamed"} ELSE {"got", "streamed"}

ProviderAck(r)    == E2EE /\ Reply(r, {"got"}, "ack", "acked")
ProviderChunk(r)  == Reply(r, Streaming \ {"streamed"}, "chunk", "streamed")
ProviderFinal(r)  == Reply(r, Streaming, "final", "ended")
ProviderError(r)  == Reply(r, {"got", "acked"}, "err", "ended")

-----------------------------------------------------------------------------
(* The consumer's on_message handler, called once per message in order *)

ReportsEnd(r) ==
    /\ pending' = pending \ {r}
    /\ IF r \in pending THEN Ends(r, "ok") ELSE UNCHANGED outcome

\* Variant: the sender is dropped without telling the caller.
FailsPendingSilently(r) ==
    /\ pending' = pending \ {r}
    /\ UNCHANGED outcome

FailsPending(r) ==
    /\ pending' = pending \ {r}
    /\ IF r \in pending THEN Ends(r, "error") ELSE UNCHANGED outcome

\* A provider's handler reports the end but keeps the exchange.
OnPlaintext(r, m) ==
    /\ \/ m = "chunk" /\ UNCHANGED <<pending, exchanges, outcome>>
       \/ /\ m = "final"
          /\ exchanges' = IF OverInbound(r) THEN exchanges ELSE exchanges \ {r}
          /\ ReportsEnd(r)
       \/ m = "err" /\ FailsPending(r) /\ UNCHANGED exchanges
    /\ UNCHANGED <<enc, streams>>

\* EncryptedProxyResponse: the acknowledgement opens the stream if the keys
\* are there; an error is passed on if they are, and keeps the sender.
OnResponse(r, m) ==
    /\ \/ /\ m = "ack"
          /\ streams' = IF r \in enc THEN streams \cup {r} ELSE streams
          /\ UNCHANGED <<enc, outcome>>
       \/ /\ m = "err"
          /\ enc' = enc \ {r}
          /\ IF r \in enc \cap pending THEN Ends(r, "error")
                                       ELSE UNCHANGED outcome
          /\ UNCHANGED streams
    /\ UNCHANGED <<pending, exchanges>>

\* Variant: the finished stream forgets pending_encrypted_consumer.remove.
OnStreamChunkKeepsKeys(r, m) ==
    \/ /\ m \in {"chunk", "final"}
       /\ enc' = enc \ {r}
       /\ streams' = streams \ {r}
       /\ FailsPending(r)
       /\ UNCHANGED exchanges
    \/ /\ m = "chunk" /\ r \in streams
       /\ UNCHANGED replyVars
    \/ /\ m = "final" /\ r \in streams
       /\ streams' = streams \ {r}
       /\ exchanges' = exchanges \ {r}
       /\ ReportsEnd(r)
       /\ UNCHANGED enc

\* EncryptedProxyStreamChunk: without stream state it is an error, and so is a
\* chunk that does not decrypt.
OnStreamChunk(r, m) ==
    \/ /\ m \in {"chunk", "final"}
       /\ enc' = enc \ {r}
       /\ streams' = streams \ {r}
       /\ FailsPending(r)
       /\ UNCHANGED exchanges
    \/ /\ m = "chunk" /\ r \in streams
       /\ UNCHANGED replyVars
    \/ /\ m = "final" /\ r \in streams
       /\ streams' = streams \ {r}
       /\ enc' = enc \ {r}
       /\ exchanges' = exchanges \ {r}
       /\ ReportsEnd(r)

OnMessage(r) ==
    /\ LinkUp(r)
    /\ inbox[r] # <<>>
    /\ inbox' = [inbox EXCEPT ![r] = Tail(@)]
    /\ LET m == Head(inbox[r]) IN
         IF E2EE THEN OnResponse(r, m) \/ OnStreamChunk(r, m)
                 ELSE OnPlaintext(r, m)
    /\ UNCHANGED <<taskVars, sessionVars, prov>>

-----------------------------------------------------------------------------
\* The steps the runtime owes request r: its own task, and its timers.
TaskStep(r) ==
    \/ ApprovalFails(r)
    \/ CheckStale(r) \/ CloseStale(r) \/ CheckReplace(r) \/ CloseReplace(r)
    \/ CheckExists(r) \/ Begin(r)
    \/ SendOffer(r) \/ CreateFails(r) \/ InsertSession(r) \/ EndNegotiation(r)
    \/ Lookup(r) \/ Poll(r) \/ Timeout(r)
    \/ Send(r) \/ SendFails(r) \/ Register(r)

ProviderStep(r) ==
    \/ ProviderAck(r) \/ ProviderChunk(r) \/ ProviderFinal(r) \/ ProviderError(r)

Next ==
    \/ \E r \in Requests :
         \/ \E p \in Peers : RequestDirect(r, p) \/ ConnectApproved(r, p)
         \/ RequestBrokered(r)
         \/ TaskStep(r)
         \/ ProviderStep(r)
         \/ OnMessage(r)
    \/ \E p \in Peers : InboundOffer(p) \/ Moderate(p)
    \/ \E s \in DOMAIN sessions :
         RouteAnswer(s) \/ ChannelOpens(s) \/ ChannelBreaks(s) \/ SessionFails(s)

Spec == Init /\ [][Next]_vars

\* tokio polls every ready task and the channel delivers what it accepted.
FairSpec ==
    Spec /\ \A r \in Requests : WF_vars(TaskStep(r)) /\ WF_vars(OnMessage(r))
-----------------------------------------------------------------------------
(* Properties *)

\* Every variable keeps its type.
TypeOK ==
    /\ pc \in [Requests -> Stages]
    /\ target \in [Requests -> Peers \cup {NoPeer}]
    /\ approved \in [Requests -> BOOLEAN]
    /\ sess \in [Requests -> 0..Len(sessions)]
    /\ polls \in [Requests -> 0..MaxPolls]
    /\ approvals \in SUBSET Requests
    /\ sessions \in Seq(SessionRecord)
    /\ peers \in [Peers -> 0..Len(sessions)]
    /\ negotiating \in SUBSET Peers
    /\ answered \in SUBSET (1..Len(sessions))
    /\ closures \in 0..MaxClosures
    /\ pending \in SUBSET Requests
    /\ exchanges \in SUBSET Requests
    /\ enc \in SUBSET Requests
    /\ streams \in SUBSET Requests
    /\ outcome \in [Requests -> Outcomes]
    /\ inbox \in [Requests -> Seq(Messages)]
    /\ prov \in [Requests -> {"none", "got", "acked", "streamed", "ended"}]

\* A session the manager has closed is never the current session of a peer,
\* and the current session of a peer is a session with that peer, whichever
\* of the closers (stale, replace, timeout, moderation) ran in between.
SessionMapSound ==
    \A p \in Peers : peers[p] # 0 =>
        /\ sessions[peers[p]].peer = p
        /\ State(peers[p]) # "closed"

\* The peers' sessions, and the variables they are kept in.
SessionsInv == TypeOK /\ SessionMapSound

\* A negotiation flag always has a task that will clear it: a peer is never
\* left marked as negotiating, which would shut out every later request.
FlagHasNegotiator ==
    \A p \in negotiating :
        \E r \in Requests : target[r] = p /\ pc[r] \in NegotiatingStages

\* Once its exchange is tracked, a request keeps its response sender until
\* the caller has been told how it ended: it never ends silently.
SenderHeld ==
    \A r \in Requests :
        pc[r] \in TrackedStages /\ outcome[r] = "none" => r \in pending

\* A request that completed leaves no entry in any of the manager's maps,
\* except the exchange of a plaintext request that went over a session the
\* other peer opened, which nothing removes.
SuccessLeavesNothing ==
    \A r \in Requests : outcome[r] = "ok" =>
        /\ r \notin pending \cup enc \cup streams
        /\ r \in exchanges => ~E2EE /\ OverInbound(r)

\* What the manager keeps of a request is there as long as its caller waits, and
\* gone once the request has completed, whatever order replies, errors and the
\* storing of keys take.
EntriesInv == SenderHeld /\ SuccessLeavesNothing

\* Every request leaves the set-up: it ends, or it has been sent, or it has
\* failed to be sent.
SetupEnds ==
    \A r \in Requests :
        pc[r] # "idle" ~> pc[r] \in {"awaiting", "unsent", "done"}

\* A reply whose last message is still in the channel when the keys of the
\* request are stored ends for the caller, with the acknowledgement read before
\* or after the keys, unless the channel goes away first.  An error that is
\* read before the keys are stored is lost, and the caller is never told.
FinalReachesCaller ==
    \A r \in Requests :
        (prov[r] = "ended" /\ inbox[r] # <<>> /\ r \in pending /\ (E2EE => r \in enc))
            ~> (outcome[r] # "none" \/ ~LinkUp(r))
=============================================================================
