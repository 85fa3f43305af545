----------------------------- MODULE ProviderGate -----------------------------
(***************************************************************************)
(* The provider half of WebRTCManager up to the point where a request is   *)
(* handed to a backend: connect offers approved by the configuration or by *)
(* the user, the single-use allowances they grant                          *)
(* (peer/src/connect_allowance.rs), the admission of inbound SDP offers    *)
(* against those allowances, and the checks every request passes           *)
(* (dispatch_proxy_request, dispatch_cluster_encrypted_proxy_body).        *)
(*                                                                         *)
(* Each lobby message, connection action and request runs in a task of its *)
(* own; the block list, the configuration, the allowances and the approved *)
(* models are read under separate locks, so each read is its own step.     *)
(***************************************************************************)
EXTENDS Naturals, Sequences, FiniteSets, SequencesExt

CONSTANTS
    Consumers,      \* requesting peers
    Models,
    ReqIds,         \* connect_req_id values; consumers may use the same one
    Handlers,       \* Route "offer" messages handled, and their sessions
    Requests,       \* requests received over the sessions
    NoHandler, NoModel,
    TTL,            \* CONNECTION_ALLOWANCE_TTL
    Scenes,         \* bound: who takes part, until when the clock runs, and how many
                    \* lookups in the block list fail
    MaxOffers,      \* bound: connect offers received
    MaxResponding   \* bound: responses under way at once

ASSUME ProviderGateAssumption ==
    /\ NoHandler \notin Handlers /\ NoModel \notin Models
    /\ TTL \in Nat \ {0}
    /\ \A s \in Scenes : /\ s.consumers \subseteq Consumers /\ s.models \subseteq Models
                         /\ s.requests \subseteq Requests
                         /\ s.until \in Nat /\ s.failures \in Nat
    /\ MaxOffers \in Nat /\ MaxResponding \in Nat

VARIABLES
    scene,          \* who takes part: [consumers, models, requests, until, failures]
    now,            \* Instant::now()
    offered,        \* connect offers received so far
    offers,         \* incoming_connection_offers
    responding,     \* accepted offers whose respond_to_connect_offer is due
    allowances,     \* the live entries of ConnectionAllowanceStore
    hints,          \* peers whose peer_attestation_hints carry the build flag
    blocked,        \* the block list of tx_store
    closing,        \* CloseConnections commands not yet handled
    accepting,      \* cluster_accepts_jobs
    handler,        \* each Route "offer" task: [stage, peer, req, model]
    current,        \* peers: the handler whose session is current
    open,           \* handlers whose session is open
    approvedModel,  \* approved_proxy_models
    request,        \* each request: [stage, peer, model]
    failed,         \* history: handlers and requests whose sender could not be
                    \* looked up in the block list
    granted,        \* history: the grants made
    admitted,       \* history: the allowances consumed by an admission
    unwelcome       \* history: reasons that held since a request arrived

offerVars   == <<now, offered, offers, responding, allowances, granted>>
policyVars  == <<hints, blocked, closing, accepting>>
sessionVars == <<handler, current, open, approvedModel, admitted>>
requestVars == <<request, unwelcome>>
vars == <<scene, failed, offerVars, policyVars, sessionVars, requestVars>>

Offer     == [req: ReqIds, peer: Consumers, model: Models]
Allowance == [req: ReqIds, peer: Consumers, model: Models, expires: Nat]
Grant     == [req: ReqIds, peer: Consumers, model: Models, at: Nat, nth: Nat]
Admission == [req: ReqIds, peer: Consumers, model: Models, at: Nat, by: Handlers]

HandlerStages == {"idle", "blocked", "accepting", "attested", "consume", "approve", "insert",
                  "done", "rejected"}
RequestStages == {"idle", "blocked", "accepting", "model", "served", "rejected"}
Reasons       == {"blocked", "maintenance"}

Init ==
    /\ scene \in Scenes /\ failed = {}
    /\ now = 0 /\ offered = 0
    /\ offers = {} /\ responding = <<>> /\ allowances = {}
    /\ hints = {} /\ blocked = {} /\ closing = {} /\ accepting = TRUE
    /\ handler = [h \in Handlers |-> [stage |-> "idle"]]
    /\ current = [c \in Consumers |-> NoHandler]
    /\ open = {}
    /\ approvedModel = [c \in Consumers |-> NoModel]
    /\ request = [q \in Requests |-> [stage |-> "idle"]]
    /\ granted = {} /\ admitted = {}
    /\ unwelcome = [q \in Requests |-> {}]

-----------------------------------------------------------------------------
(* ConnectionAllowanceStore *)

Live(store) == {a \in store : a.expires > now}

\* grant: purge, then insert, which replaces an entry with the same req_id.
Granting(o) ==
    /\ allowances' = {a \in Live(allowances) : a.req # o.req}
                        \cup {[req |-> o.req, peer |-> o.peer,
                               model |-> o.model, expires |-> now + TTL]}
    /\ granted' = granted \cup {[req |-> o.req, peer |-> o.peer,
                                 model |-> o.model, at |-> now,
                                 nth |-> Cardinality(granted) + 1]}

\* Variant: the store is only read, and purged by the next grant.
Peek(k) == allowances' = Live(allowances)

\* validate_and_consume: purge and remove, whoever asks.
Take(k) == allowances' = {a \in Live(allowances) : a.req # k}

\* Variant: the expiry is not looked at.
MatchesLate(k, c) == {a \in allowances : a.req = k /\ a.peer = c}

Matches(k, c) == {a \in Live(allowances) : a.req = k /\ a.peer = c}

-----------------------------------------------------------------------------
(* ConnectOffer and the answer to it *)

Without(k) == {o \in offers : o.req # k}

\* The requester's attestation flags come with every offer and are remembered.
HintsAfter(c, attested) == IF attested THEN hints \cup {c} ELSE hints \ {c}

Receives(c, attested) ==
    /\ offered < MaxOffers
    /\ offered' = offered + 1
    /\ hints' = HintsAfter(c, attested)
    /\ UNCHANGED <<scene, failed, now, allowances, granted, blocked, closing, accepting,
                   sessionVars, requestVars>>

\* auto_approve_inference_connections; a refusal also clears a listed offer.
ConnectOfferAuto(o, attested) ==
    /\ Receives(o.peer, attested)
    /\ IF accepting /\ attested
       THEN /\ Len(responding) < MaxResponding
            /\ responding' = Append(responding, o)
            /\ UNCHANGED offers
       ELSE /\ offers' = Without(o.req)
            /\ UNCHANGED responding

\* Listed for the user, unless the requester is not attested.
ConnectOfferManual(o, attested) ==
    /\ Receives(o.peer, attested)
    /\ offers' = IF attested THEN Without(o.req) \cup {o} ELSE Without(o.req)
    /\ UNCHANGED responding

\* ConnectUpdate "approved": as a consumer, this peer was matched with c, whose
\* flags are remembered in the same map.
ConnectUpdateApproved(c) ==
    /\ c \notin hints
    /\ hints' = hints \cup {c}
    /\ UNCHANGED <<scene, failed, offerVars, blocked, closing, accepting, sessionVars,
                   requestVars>>

\* handle_connection_action copies the offer; it is removed by the response.
UserAccepts(o) ==
    /\ o \in offers
    /\ Len(responding) < MaxResponding
    /\ responding' = Append(responding, o)
    /\ UNCHANGED <<scene, failed, now, offered, offers, allowances, granted,
                   policyVars, sessionVars, requestVars>>

UserRejects(o) ==
    /\ o \in offers
    /\ offers' = Without(o.req)
    /\ UNCHANGED <<scene, failed, now, offered, responding, allowances, granted,
                   policyVars, sessionVars, requestVars>>

\* respond_to_connect_offer with accept = true
Respond(i) ==
    /\ responding' = RemoveAt(responding, i)
    /\ offers' = Without(responding[i].req)
    /\ Granting(responding[i])
    /\ UNCHANGED <<scene, failed, now, offered, policyVars, sessionVars, requestVars>>

-----------------------------------------------------------------------------
(* is_peer_blocked *)

\* A lookup in the block list by x, a handler or a request. One that fails (the task
\* or the database) says that the peer is not blocked.
Looks(x, readable) ==
    IF readable
    THEN UNCHANGED failed
    ELSE Cardinality(failed) < scene.failures /\ failed' = failed \cup {x}

-----------------------------------------------------------------------------
(* Route "offer" *)

Stage(h, s) == handler' = [handler EXCEPT ![h].stage = s]

Route(h, c, k) ==
    /\ handler[h].stage = "idle"
    /\ handler' = [handler EXCEPT ![h] = [stage |-> "blocked", peer |-> c,
                                          req |-> k, model |-> NoModel]]
    /\ UNCHANGED <<scene, failed, offerVars, policyVars, current, open, approvedModel,
                   admitted, requestVars>>

CheckOfferBlocked(h, readable) ==
    /\ handler[h].stage = "blocked"
    /\ Looks(h, readable)
    /\ Stage(h, IF readable /\ handler[h].peer \in blocked THEN "rejected" ELSE "accepting")
    /\ UNCHANGED <<scene, offerVars, policyVars, current, open, approvedModel,
                   admitted, requestVars>>

CheckOfferAccepting(h) ==
    /\ handler[h].stage = "accepting"
    /\ Stage(h, IF accepting THEN "attested" ELSE "rejected")
    /\ UNCHANGED <<scene, failed, offerVars, policyVars, current, open, approvedModel,
                   admitted, requestVars>>

CheckOfferAttested(h) ==
    /\ handler[h].stage = "attested"
    /\ Stage(h, IF handler[h].peer \in hints THEN "consume" ELSE "rejected")
    /\ UNCHANGED <<scene, failed, offerVars, policyVars, current, open, approvedModel,
                   admitted, requestVars>>

Consume(h) ==
    LET c == handler[h].peer
        k == handler[h].req
    IN
    /\ handler[h].stage = "consume"
    /\ Take(k)
    /\ \/ /\ Matches(k, c) = {}
          /\ Stage(h, "rejected")
          /\ UNCHANGED admitted
       \/ \E a \in Matches(k, c) :
            /\ handler' = [handler EXCEPT ![h].stage = "approve",
                                          ![h].model = a.model]
            /\ admitted' = admitted \cup {[req |-> k, peer |-> c,
                                           model |-> a.model, at |-> now,
                                           by |-> h]}
    /\ UNCHANGED <<scene, failed, now, offered, offers, responding, granted, policyVars,
                   current, open, approvedModel, requestVars>>

\* approved_proxy_models is keyed by peer: a later admission replaces it.
Approve(h) ==
    /\ handler[h].stage = "approve"
    /\ approvedModel' = [approvedModel EXCEPT ![handler[h].peer] = handler[h].model]
    /\ Stage(h, "insert")
    /\ UNCHANGED <<scene, failed, offerVars, policyVars, current, open, admitted, requestVars>>

\* The session becomes the peer's current one and its channel opens.
InsertSession(h) ==
    /\ handler[h].stage = "insert"
    /\ current' = [current EXCEPT ![handler[h].peer] = h]
    /\ open' = open \cup {h}
    /\ Stage(h, "done")
    /\ UNCHANGED <<scene, failed, offerVars, policyVars, approvedModel, admitted, requestVars>>

-----------------------------------------------------------------------------
(* Moderation and maintenance *)

\* post_block_peer: the block list first, then a CloseConnections command.
Block(c) ==
    /\ c \notin blocked
    /\ blocked' = blocked \cup {c}
    /\ closing' = closing \cup {c}
    /\ UNCHANGED <<scene, failed, offerVars, hints, accepting, sessionVars, requestVars>>

Unblock(c) ==
    /\ c \in blocked
    /\ blocked' = blocked \ {c}
    /\ unwelcome' = [q \in Requests |->
                       IF request[q].stage # "idle" /\ request[q].peer = c
                       THEN unwelcome[q] \ {"blocked"} ELSE unwelcome[q]]
    /\ UNCHANGED <<scene, failed, offerVars, hints, closing, accepting, sessionVars, request>>

\* close_peer_connection closes the current session only.
CloseConnections(c) ==
    /\ c \in closing
    /\ closing' = closing \ {c}
    /\ open' = open \ {current[c]}
    /\ current' = [current EXCEPT ![c] = NoHandler]
    /\ UNCHANGED <<scene, failed, offerVars, hints, blocked, accepting, handler,
                   approvedModel, admitted, requestVars>>

SetAccepting(b) ==
    /\ accepting # b
    /\ accepting' = b
    /\ unwelcome' = IF b THEN [q \in Requests |-> unwelcome[q] \ {"maintenance"}]
                         ELSE unwelcome
    /\ UNCHANGED <<scene, failed, offerVars, hints, blocked, closing, sessionVars, request>>

Tick ==
    /\ now < scene.until
    /\ now' = now + 1
    /\ UNCHANGED <<scene, failed, offered, offers, responding, allowances, granted,
                   policyVars, sessionVars, requestVars>>

-----------------------------------------------------------------------------
(* A request over an open session *)

Step(q, s) == request' = [request EXCEPT ![q].stage = s]

Arrive(q, h, m) ==
    LET c == handler[h].peer IN
    /\ request[q].stage = "idle" /\ h \in open
    /\ request' = [request EXCEPT ![q] = [stage |-> "blocked", peer |-> c,
                                          model |-> m]]
    /\ unwelcome' = [unwelcome EXCEPT ![q] =
                       (IF c \in blocked THEN {"blocked"} ELSE {})
                       \cup (IF accepting THEN {} ELSE {"maintenance"})]
    /\ UNCHANGED <<scene, failed, offerVars, policyVars, sessionVars>>

\* Variant: the block list is consulted when the session is admitted only.
SkipRequestBlocked(q, readable) ==
    /\ request[q].stage = "blocked" /\ readable
    /\ Step(q, "accepting")
    /\ UNCHANGED <<scene, failed, offerVars, policyVars, sessionVars, unwelcome>>

CheckRequestBlocked(q, readable) ==
    /\ request[q].stage = "blocked"
    /\ Looks(q, readable)
    /\ Step(q, IF readable /\ request[q].peer \in blocked THEN "rejected" ELSE "accepting")
    /\ UNCHANGED <<scene, offerVars, policyVars, sessionVars, unwelcome>>

CheckRequestAccepting(q) ==
    /\ request[q].stage = "accepting"
    /\ Step(q, IF accepting THEN "model" ELSE "rejected")
    /\ UNCHANGED <<scene, failed, offerVars, policyVars, sessionVars, unwelcome>>

\* The approved model is consumed by the first request, and compared with it.
CheckRequestModel(q) ==
    LET c == request[q].peer
        expected == approvedModel[c]
    IN
    /\ request[q].stage = "model"
    /\ approvedModel' = [approvedModel EXCEPT ![c] = NoModel]
    /\ Step(q, IF expected \in {NoModel, request[q].model}
               THEN "served" ELSE "rejected")
    /\ UNCHANGED <<scene, failed, offerVars, policyVars, handler, current, open, admitted,
                   unwelcome>>

-----------------------------------------------------------------------------
Next ==
    \/ \E o \in [req: ReqIds, peer: scene.consumers, model: scene.models],
         attested \in BOOLEAN :
         ConnectOfferAuto(o, attested) \/ ConnectOfferManual(o, attested)
    \/ \E o \in offers : UserAccepts(o) \/ UserRejects(o)
    \/ \E i \in DOMAIN responding : Respond(i)
    \/ \E h \in Handlers :
         \/ \E c \in scene.consumers, k \in ReqIds : Route(h, c, k)
         \/ \E readable \in BOOLEAN : CheckOfferBlocked(h, readable)
         \/ CheckOfferAccepting(h) \/ CheckOfferAttested(h)
         \/ Consume(h) \/ Approve(h) \/ InsertSession(h)
    \/ \E c \in scene.consumers : ConnectUpdateApproved(c) \/ Block(c) \/ Unblock(c)
                               \/ CloseConnections(c)
    \/ \E b \in BOOLEAN : SetAccepting(b)
    \/ \E q \in scene.requests :
         \/ \E h \in Handlers, m \in scene.models : Arrive(q, h, m)
         \/ \E readable \in BOOLEAN : CheckRequestBlocked(q, readable)
         \/ CheckRequestAccepting(q) \/ CheckRequestModel(q)
    \/ Tick

Spec == Init /\ [][Next]_vars

-----------------------------------------------------------------------------
(* Properties *)

\* Every variable keeps its type.
TypeOK ==
    /\ now \in 0..scene.until /\ offered \in 0..MaxOffers
    /\ offers \subseteq Offer
    /\ responding \in Seq(Offer)
    /\ allowances \subseteq Allowance
    /\ hints \subseteq Consumers /\ blocked \subseteq Consumers
    /\ closing \subseteq Consumers /\ accepting \in BOOLEAN
    /\ handler \in [Handlers -> [stage: {"idle"}] \cup
                     [stage: HandlerStages \ {"idle"}, peer: Consumers,
                      req: ReqIds, model: Models \cup {NoModel}]]
    /\ current \in [Consumers -> Handlers \cup {NoHandler}]
    /\ open \subseteq Handlers
    /\ approvedModel \in [Consumers -> Models \cup {NoModel}]
    /\ request \in [Requests -> [stage: {"idle"}] \cup
                     [stage: RequestStages \ {"idle"}, peer: Consumers,
                      model: Models]]
    /\ granted \subseteq Grant
    /\ admitted \subseteq Admission
    /\ failed \subseteq Handlers \cup Requests
    /\ unwelcome \in [Requests -> SUBSET Reasons]

\* Whatever the order of offers, answers and routes, a session is admitted
\* only on a grant for that very request id, requester and model, made before
\* and not yet expired.
Justifies(g, a) ==
    /\ g.req = a.req /\ g.peer = a.peer /\ g.model = a.model
    /\ g.at <= a.at /\ a.at < g.at + TTL
AdmissionJustified == \A a \in admitted : \E g \in granted : Justifies(g, a)

\* The sessions admitted, and the maps they were admitted from.
GateInv == TypeOK /\ AdmissionJustified

\* A grant admits one session: two admissions under one request id need two
\* grants, even when two inbound offers present it at the same time.
SingleUse ==
    \A k \in ReqIds :
        Cardinality({a \in admitted : a.req = k})
            <= Cardinality({g \in granted : g.req = k})

\* A request is never served if, from its arrival on, the cluster was in maintenance,
\* or its sender was on the block list and could be looked up there: not even over a
\* session that was admitted before, or that moderation failed to close. The check
\* fails open: whoever cannot be looked up counts as not blocked.
UnwelcomeNeverServed ==
    \A q \in Requests : request[q].stage = "served" =>
        unwelcome[q] \subseteq (IF q \in failed THEN {"blocked"} ELSE {})
=============================================================================
