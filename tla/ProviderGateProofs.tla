-------------------------- MODULE ProviderGateProofs --------------------------
(***************************************************************************)
(* The properties of ProviderGate for any consumers, models, request ids,  *)
(* handlers, scenes and time to live.  None is inductive by itself.  That  *)
(* an admission is justified needs to know where a live allowance comes    *)
(* from; that a grant admits once needs the allowance counted with the     *)
(* admissions; and that the unwelcome are not served needs to know which   *)
(* checks a request has behind it.                                         *)
(***************************************************************************)
EXTENDS ProviderGate, FiniteSetTheorems, TLAPS

-----------------------------------------------------------------------------
(* The inductive invariant *)

\* A request past its check of the block list, or of maintenance, was welcome at that
\* moment, or its sender could not be looked up; before it, what made it unwelcome still holds.
Checked ==
    \A q \in Requests :
        LET s == request[q].stage IN
        /\ s \in {"accepting", "model", "served"} => "blocked" \notin unwelcome[q] \/ q \in failed
        /\ s \in {"model", "served"} => "maintenance" \notin unwelcome[q]
        /\ s # "idle" /\ "blocked" \in unwelcome[q] => request[q].peer \in blocked
        /\ "maintenance" \in unwelcome[q] => ~accepting

\* Only a handler that has admitted a session opens one.
OpenStarted == \A h \in open : handler[h].stage # "idle"

\* An allowance in the store was granted, and expires TTL later.
Backed(g, a) ==
    /\ g.req = a.req /\ g.peer = a.peer /\ g.model = a.model
    /\ a.expires = g.at + TTL /\ g.at <= now
AllowancesBacked == \A a \in allowances : \E g \in granted : Backed(g, a)

GrantsOf(k)     == {g \in granted : g.req = k}
AdmissionsOf(k) == {a \in admitted : a.req = k}
Unused(k)       == IF \E a \in allowances : a.req = k THEN 1 ELSE 0

\* Grants are numbered, and each has admitted at most one session or is in the store.
Counted ==
    /\ IsFiniteSet(granted) /\ IsFiniteSet(admitted)
    /\ \A g \in granted : g.nth <= Cardinality(granted)
    /\ \A k \in ReqIds :
         Cardinality(AdmissionsOf(k)) + Unused(k) <= Cardinality(GrantsOf(k))

IInv ==
    /\ scene \in Scenes
    /\ TypeOK
    /\ OpenStarted
    /\ Checked
    /\ AllowancesBacked
    /\ AdmissionJustified
    /\ Counted

-----------------------------------------------------------------------------
(* Types *)

\* Removing an element leaves a sequence of the same elements.
LEMMA RemoveAtType ==
    ASSUME NEW S, NEW s \in Seq(S), NEW i \in 1..Len(s)
    PROVE  RemoveAt(s, i) \in Seq(S)
  BY DEF RemoveAt

HandlerRecord == [stage: HandlerStages \ {"idle"}, peer: Consumers,
                  req: ReqIds, model: Models \cup {NoModel}]
RequestRecord == [stage: RequestStages \ {"idle"}, peer: Consumers, model: Models]

\* A handler that is under way has a peer, a request id and a model, and keeps them
\* when its stage changes.
LEMMA StageKeeps ==
    ASSUME TypeOK, NEW h \in Handlers, handler[h].stage # "idle",
           NEW s \in HandlerStages \ {"idle"}, Stage(h, s)
    PROVE  /\ handler[h] \in HandlerRecord
           /\ handler' \in [Handlers -> [stage: {"idle"}] \cup HandlerRecord]
  <1>1. handler \in [Handlers -> [stage: {"idle"}] \cup HandlerRecord]
    BY DEF TypeOK, HandlerRecord
  <1>2. handler[h] \in HandlerRecord
    BY <1>1
  <1>3. [handler[h] EXCEPT !.stage = s] \in HandlerRecord
    BY <1>2 DEF HandlerRecord
  <1>4. handler' = [handler EXCEPT ![h] = [handler[h] EXCEPT !.stage = s]]
    BY <1>1 DEF Stage
  <1> QED BY <1>1, <1>2, <1>3, <1>4

\* The same for a request.
LEMMA StepKeeps ==
    ASSUME TypeOK, NEW q \in Requests, request[q].stage # "idle",
           NEW s \in RequestStages \ {"idle"}, Step(q, s)
    PROVE  /\ request[q] \in RequestRecord
           /\ request' \in [Requests -> [stage: {"idle"}] \cup RequestRecord]
           /\ request'[q].stage = s /\ request'[q].peer = request[q].peer
           /\ \A r \in Requests : r # q => request'[r] = request[r]
  <1>1. request \in [Requests -> [stage: {"idle"}] \cup RequestRecord]
    BY DEF TypeOK, RequestRecord
  <1>2. request[q] \in RequestRecord
    BY <1>1
  <1>3. /\ [request[q] EXCEPT !.stage = s] \in RequestRecord
        /\ [request[q] EXCEPT !.stage = s].stage = s
        /\ [request[q] EXCEPT !.stage = s].peer = request[q].peer
    BY <1>2 DEF RequestRecord
  <1>4. request' = [request EXCEPT ![q] = [request[q] EXCEPT !.stage = s]]
    BY <1>1 DEF Step
  <1> QED BY <1>1, <1>2, <1>3, <1>4

LEMMA AppendType ==
    ASSUME NEW S, NEW s \in Seq(S), NEW x \in S
    PROVE  Append(s, x) \in Seq(S)
  OBVIOUS

\* The stages of a handler keep the types.
LEMMA HandlerTypes ==
    ASSUME IInv, NEW h \in Handlers,
           \/ \E c \in scene.consumers, k \in ReqIds : Route(h, c, k)
           \/ \E readable \in BOOLEAN : CheckOfferBlocked(h, readable)
           \/ CheckOfferAccepting(h) \/ CheckOfferAttested(h)
           \/ Consume(h) \/ Approve(h) \/ InsertSession(h)
    PROVE  TypeOK'
  <1> USE ProviderGateAssumption DEF IInv, offerVars, policyVars, sessionVars, requestVars
  <1>0. TypeOK /\ handler \in [Handlers -> [stage: {"idle"}] \cup HandlerRecord]
    BY DEF TypeOK, HandlerRecord
  <1>1. CASE \E c \in scene.consumers, k \in ReqIds : Route(h, c, k)
    <2>1. PICK c \in scene.consumers, k \in ReqIds : Route(h, c, k)
      BY <1>1
    <2>2. c \in Consumers
      OBVIOUS
    <2>3. handler' \in [Handlers -> [stage: {"idle"}] \cup HandlerRecord]
      BY <1>0, <2>1, <2>2 DEF Route, HandlerRecord, HandlerStages
    <2> QED BY <1>0, <2>1, <2>3 DEF Route, TypeOK, HandlerRecord
  <1>2. CASE \/ \E readable \in BOOLEAN : CheckOfferBlocked(h, readable)
             \/ CheckOfferAccepting(h) \/ CheckOfferAttested(h)
    <2>1. PICK s \in {"accepting", "attested", "consume", "rejected"} : Stage(h, s)
      BY <1>2 DEF CheckOfferBlocked, CheckOfferAccepting, CheckOfferAttested
    <2>2. handler' \in [Handlers -> [stage: {"idle"}] \cup HandlerRecord]
      BY <1>0, <1>2, <2>1, StageKeeps
         DEF CheckOfferBlocked, CheckOfferAccepting, CheckOfferAttested, HandlerStages
    <2> QED BY <1>0, <1>2, <2>2
            DEF CheckOfferBlocked, Looks, CheckOfferAccepting, CheckOfferAttested, TypeOK,
                HandlerRecord
  <1>3. CASE Consume(h)
    <2>1. handler[h] \in HandlerRecord
      BY <1>0, <1>3 DEF Consume
    <2>2. allowances' \subseteq allowances
      BY <1>3 DEF Consume, Take, Live
    <2>3. handler' \in [Handlers -> [stage: {"idle"}] \cup HandlerRecord]
          /\ admitted' \subseteq Admission
      <3>1. CASE Stage(h, "rejected") /\ UNCHANGED admitted
        BY <1>0, <1>3, <3>1, StageKeeps DEF Consume, HandlerStages, TypeOK
      <3>2. CASE \E a \in Matches(handler[h].req, handler[h].peer) :
                  /\ handler' = [handler EXCEPT ![h].stage = "approve", ![h].model = a.model]
                  /\ admitted' = admitted \cup {[req |-> handler[h].req,
                                  peer |-> handler[h].peer, model |-> a.model,
                                  at |-> now, by |-> h]}
        <4>1. PICK a \in Matches(handler[h].req, handler[h].peer) :
                  /\ handler' = [handler EXCEPT ![h].stage = "approve", ![h].model = a.model]
                  /\ admitted' = admitted \cup {[req |-> handler[h].req,
                                  peer |-> handler[h].peer, model |-> a.model,
                                  at |-> now, by |-> h]}
          BY <3>2
        <4>2. a.model \in Models
          BY <1>0, <4>1 DEF Matches, Live, TypeOK, Allowance
        <4>3. handler' = [handler EXCEPT ![h] =
                            [handler[h] EXCEPT !.stage = "approve", !.model = a.model]]
          BY <1>0, <4>1
        <4>4. [handler[h] EXCEPT !.stage = "approve", !.model = a.model] \in HandlerRecord
          BY <2>1, <4>2 DEF HandlerRecord, HandlerStages
        <4>5. now \in Nat
          BY <1>0 DEF TypeOK
        <4>6. admitted' \subseteq Admission
          BY <1>0, <2>1, <4>1, <4>2, <4>5 DEF TypeOK, Admission, HandlerRecord
        <4> QED BY <1>0, <4>3, <4>4, <4>6
      <3> QED BY <1>3, <3>1, <3>2 DEF Consume
    <2> QED BY <1>0, <1>3, <2>2, <2>3 DEF Consume, TypeOK, HandlerRecord
  <1>4. CASE Approve(h)
    <2>1. handler[h] \in HandlerRecord
          /\ handler' \in [Handlers -> [stage: {"idle"}] \cup HandlerRecord]
      BY <1>0, <1>4, StageKeeps DEF Approve, HandlerStages
    <2> QED BY <1>0, <1>4, <2>1 DEF Approve, TypeOK, HandlerRecord
  <1>5. CASE InsertSession(h)
    <2>1. handler[h] \in HandlerRecord
          /\ handler' \in [Handlers -> [stage: {"idle"}] \cup HandlerRecord]
      BY <1>0, <1>5, StageKeeps DEF InsertSession, HandlerStages
    <2> QED BY <1>0, <1>5, <2>1 DEF InsertSession, TypeOK, HandlerRecord
  <1> QED BY <1>1, <1>2, <1>3, <1>4, <1>5

\* So do the stages of a request.
LEMMA RequestTypes ==
    ASSUME IInv, NEW q \in scene.requests,
           \/ \E h \in Handlers, m \in scene.models : Arrive(q, h, m)
           \/ \E readable \in BOOLEAN : CheckRequestBlocked(q, readable)
           \/ CheckRequestAccepting(q) \/ CheckRequestModel(q)
    PROVE  TypeOK'
  <1> USE ProviderGateAssumption DEF IInv, offerVars, policyVars, sessionVars, requestVars
  <1>0. /\ q \in Requests /\ TypeOK
        /\ request \in [Requests -> [stage: {"idle"}] \cup RequestRecord]
    BY DEF TypeOK, RequestRecord
  <1>1. CASE \E h \in Handlers, m \in scene.models : Arrive(q, h, m)
    <2>1. PICK h \in Handlers, m \in scene.models : Arrive(q, h, m)
      BY <1>1
    <2>2. handler[h].peer \in Consumers /\ m \in Models
      <3>1. handler[h] \in HandlerRecord
        BY <1>0, <2>1 DEF Arrive, OpenStarted, TypeOK, HandlerRecord
      <3> QED BY <1>0, <3>1 DEF HandlerRecord
    <2> QED BY <1>0, <2>1, <2>2
            DEF Arrive, TypeOK, RequestRecord, RequestStages, Reasons
  <1>2. CASE \/ \E readable \in BOOLEAN : CheckRequestBlocked(q, readable)
             \/ CheckRequestAccepting(q)
    <2>1. PICK s \in {"accepting", "model", "rejected"} : Step(q, s)
      BY <1>2 DEF CheckRequestBlocked, CheckRequestAccepting
    <2>2. request' \in [Requests -> [stage: {"idle"}] \cup RequestRecord]
      BY <1>0, <1>2, <2>1, StepKeeps
         DEF CheckRequestBlocked, CheckRequestAccepting, RequestStages
    <2> QED BY <1>0, <1>2, <2>2
            DEF CheckRequestBlocked, Looks, CheckRequestAccepting, TypeOK, RequestRecord
  <1>3. CASE CheckRequestModel(q)
    <2>1. PICK s \in {"served", "rejected"} : Step(q, s)
      BY <1>3 DEF CheckRequestModel
    <2>2. request' \in [Requests -> [stage: {"idle"}] \cup RequestRecord]
      BY <1>0, <1>3, <2>1, StepKeeps DEF CheckRequestModel, RequestStages
    <2> QED BY <1>0, <1>3, <2>2 DEF CheckRequestModel, TypeOK, RequestRecord
  <1> QED BY <1>1, <1>2, <1>3

\* Every step keeps the types.
LEMMA TypesStep ==
    ASSUME IInv, [Next]_vars
    PROVE  TypeOK' /\ scene' \in Scenes
  <1> USE ProviderGateAssumption DEF offerVars, policyVars, sessionVars, requestVars
  <1>0. TypeOK /\ scene \in Scenes /\ scene.consumers \subseteq Consumers
        /\ scene.models \subseteq Models /\ scene.until \in Nat
    BY DEF IInv
  <1>1. ASSUME NEW o \in [req: ReqIds, peer: scene.consumers, model: scene.models],
               NEW attested \in BOOLEAN,
               ConnectOfferAuto(o, attested) \/ ConnectOfferManual(o, attested)
        PROVE  TypeOK'
    <2>1. o \in Offer
      BY <1>0 DEF Offer
    <2>2. o.peer \in Consumers
      BY <2>1 DEF Offer
    <2>3. responding' \in Seq(Offer)
      <3>1. responding' \in {responding, Append(responding, o)}
        BY <1>1 DEF ConnectOfferAuto, ConnectOfferManual
      <3>2. responding \in Seq(Offer)
        BY <1>0 DEF TypeOK
      <3>3. Append(responding, o) \in Seq(Offer)
        BY <2>1, <3>2, AppendType
      <3> QED BY <3>1, <3>2, <3>3
    <2>4. offers' \subseteq Offer
      BY <1>0, <1>1, <2>1 DEF ConnectOfferAuto, ConnectOfferManual, Without, TypeOK
    <2>5. hints' \subseteq Consumers /\ offered' \in 0..MaxOffers
      BY <1>0, <1>1, <2>2 DEF ConnectOfferAuto, ConnectOfferManual, Receives, HintsAfter,
         TypeOK
    <2> QED BY <1>0, <1>1, <2>3, <2>4, <2>5
            DEF ConnectOfferAuto, ConnectOfferManual, Receives, TypeOK
  <1>2. ASSUME NEW o \in offers, UserAccepts(o) \/ UserRejects(o)
        PROVE  TypeOK'
    <2>1. o \in Offer
      BY <1>0 DEF TypeOK
    <2>2. responding' \in {responding, Append(responding, o)}
      BY <1>2 DEF UserAccepts, UserRejects
    <2>3. responding' \in Seq(Offer)
      BY <1>0, <2>1, <2>2, AppendType DEF TypeOK
    <2> QED BY <1>0, <1>2, <2>3 DEF UserAccepts, UserRejects, Without, TypeOK
  <1>3. ASSUME NEW i \in DOMAIN responding, Respond(i)
        PROVE  TypeOK'
    <2>1. responding \in Seq(Offer) /\ i \in 1..Len(responding) /\ responding[i] \in Offer
      BY <1>0 DEF TypeOK
    <2>2. responding' \in Seq(Offer)
      <3>1. responding' = RemoveAt(responding, i)
        BY <1>3 DEF Respond
      <3> QED BY <2>1, <3>1, RemoveAtType
    <2>3. allowances' \subseteq Allowance
      <3>1. now + TTL \in Nat
        BY <1>0 DEF TypeOK
      <3>2. [req |-> responding[i].req, peer |-> responding[i].peer,
             model |-> responding[i].model, expires |-> now + TTL] \in Allowance
        BY <2>1, <3>1 DEF Offer, Allowance
      <3> QED BY <1>0, <1>3, <3>2 DEF Respond, Granting, Live, TypeOK
    <2>4. granted' \subseteq Grant
      <3>1. IsFiniteSet(granted)
        BY DEF IInv, Counted
      <3>2. Cardinality(granted) + 1 \in Nat
        BY <3>1, FS_CardinalityType
      <3> QED BY <1>0, <1>3, <2>1, <3>2 DEF Respond, Granting, TypeOK, Offer, Grant
    <2> QED BY <1>0, <1>3, <2>2, <2>3, <2>4 DEF Respond, Granting, Without, TypeOK
  <1>4. ASSUME NEW h \in Handlers,
               \/ \E c \in scene.consumers, k \in ReqIds : Route(h, c, k)
               \/ \E readable \in BOOLEAN : CheckOfferBlocked(h, readable)
               \/ CheckOfferAccepting(h) \/ CheckOfferAttested(h)
               \/ Consume(h) \/ Approve(h) \/ InsertSession(h)
        PROVE  TypeOK'
    BY <1>4, HandlerTypes
  <1>5. ASSUME NEW c \in scene.consumers,
               ConnectUpdateApproved(c) \/ Block(c) \/ Unblock(c) \/ CloseConnections(c)
        PROVE  TypeOK'
    BY <1>0, <1>5 DEF ConnectUpdateApproved, Block, Unblock, CloseConnections, TypeOK
  <1>6. ASSUME NEW b \in BOOLEAN, SetAccepting(b)
        PROVE  TypeOK'
    BY <1>0, <1>6 DEF SetAccepting, TypeOK
  <1>7. ASSUME NEW q \in scene.requests,
               \/ \E h \in Handlers, m \in scene.models : Arrive(q, h, m)
               \/ \E readable \in BOOLEAN : CheckRequestBlocked(q, readable)
               \/ CheckRequestAccepting(q) \/ CheckRequestModel(q)
        PROVE  TypeOK'
    BY <1>7, RequestTypes
  <1>8. CASE Tick
    BY <1>0, <1>8 DEF Tick, TypeOK
  <1>9. CASE UNCHANGED vars
    BY <1>0, <1>9 DEF vars, TypeOK
  <1>10. scene' = scene
    BY DEF Next, vars, ConnectOfferAuto, ConnectOfferManual, Receives, UserAccepts,
       UserRejects, Respond, Route, CheckOfferBlocked, CheckOfferAccepting,
       CheckOfferAttested, Consume, Approve, InsertSession, ConnectUpdateApproved, Block,
       Unblock, CloseConnections, SetAccepting, Arrive, CheckRequestBlocked,
       CheckRequestAccepting, CheckRequestModel, Tick
  <1> QED BY <1>0, <1>1, <1>2, <1>3, <1>4, <1>5, <1>6, <1>7, <1>8, <1>9, <1>10 DEF Next

-----------------------------------------------------------------------------
(* Sessions and requests *)

\* A handler that has started does not become idle again, and only one at "insert" opens
\* its session.
LEMMA OpenStep ==
    ASSUME IInv, [Next]_vars
    PROVE  OpenStarted'
  <1> USE DEF offerVars, policyVars, sessionVars, requestVars, OpenStarted
  <1>0. TypeOK /\ OpenStarted
    BY DEF IInv
  <1>1. ASSUME NEW h \in Handlers,
               \/ \E c \in scene.consumers, k \in ReqIds : Route(h, c, k)
               \/ \E readable \in BOOLEAN : CheckOfferBlocked(h, readable)
               \/ CheckOfferAccepting(h) \/ CheckOfferAttested(h)
               \/ Consume(h) \/ Approve(h) \/ InsertSession(h)
        PROVE  OpenStarted'
    <2>1. \A g \in Handlers : g # h => handler'[g] = handler[g]
      BY <1>0, <1>1 DEF TypeOK, Route, CheckOfferBlocked, CheckOfferAccepting,
         CheckOfferAttested, Consume, Approve, InsertSession, Stage
    <2>2. handler'[h].stage # "idle"
      <3>1. CASE \E c \in scene.consumers, k \in ReqIds : Route(h, c, k)
        BY <1>0, <3>1 DEF Route, TypeOK
      <3>2. CASE ~ \E c \in scene.consumers, k \in ReqIds : Route(h, c, k)
        <4>1. handler[h].stage # "idle" /\ handler[h] \in HandlerRecord
          BY <1>0, <1>1, <3>2 DEF CheckOfferBlocked, CheckOfferAccepting,
             CheckOfferAttested, Consume, Approve, InsertSession, TypeOK, HandlerRecord
        <4>2. handler' \in [Handlers -> [stage: {"idle"}] \cup HandlerRecord]
          BY TypesStep DEF TypeOK, HandlerRecord
        <4>3. CASE \E s \in {"accepting", "attested", "consume", "rejected", "insert",
                             "done"} : Stage(h, s)
          BY <1>0, <4>1, <4>3 DEF Stage, TypeOK, HandlerRecord
        <4>4. CASE \E m : handler' = [handler EXCEPT ![h].stage = "approve", ![h].model = m]
          BY <1>0, <4>1, <4>4 DEF TypeOK, HandlerRecord
        <4> QED BY <1>1, <3>2, <4>3, <4>4 DEF CheckOfferBlocked, CheckOfferAccepting,
                CheckOfferAttested, Consume, Approve, InsertSession
      <3> QED BY <3>1, <3>2
    <2>3. open' \subseteq open \cup {h} /\ open \subseteq Handlers
      BY <1>0, <1>1 DEF TypeOK, Route, CheckOfferBlocked, CheckOfferAccepting,
         CheckOfferAttested, Consume, Approve, InsertSession
    <2> QED BY <1>0, <2>1, <2>2, <2>3
  <1>2. CASE open' \subseteq open /\ UNCHANGED handler
    BY <1>0, <1>2
  <1> QED BY <1>1, <1>2 DEF Next, vars, ConnectOfferAuto, ConnectOfferManual, Receives,
          UserAccepts, UserRejects, Respond, ConnectUpdateApproved, Block, Unblock,
          CloseConnections, SetAccepting, Arrive, CheckRequestBlocked,
          CheckRequestAccepting, CheckRequestModel, Tick

\* Each check lets a request pass only while its reason does not hold; a reason is
\* forgotten when it ends.
LEMMA CheckedStep ==
    ASSUME IInv, [Next]_vars
    PROVE  Checked'
  <1> USE DEF offerVars, policyVars, sessionVars, requestVars
  <1>0. TypeOK /\ Checked /\ scene.requests \subseteq Requests
    BY ProviderGateAssumption DEF IInv
  <1>1. ASSUME NEW q \in scene.requests, NEW h \in Handlers, NEW m \in scene.models,
               Arrive(q, h, m)
        PROVE  Checked'
    BY <1>0, <1>1 DEF Arrive, Checked, TypeOK
  <1>2. ASSUME NEW q \in scene.requests, NEW readable \in BOOLEAN,
               CheckRequestBlocked(q, readable)
        PROVE  Checked'
    <2>1. PICK s \in {"accepting", "rejected"} :
             Step(q, s) /\ (s = "accepting" => request[q].peer \notin blocked \/ q \in failed')
      BY <1>2 DEF CheckRequestBlocked, Looks
    <2>2. /\ request'[q].stage = s /\ request'[q].peer = request[q].peer
          /\ \A r \in Requests : r # q => request'[r] = request[r]
      BY <1>0, <1>2, <2>1, StepKeeps DEF CheckRequestBlocked, RequestStages
    <2>3. failed \subseteq failed'
      BY <1>2 DEF CheckRequestBlocked, Looks
    <2> QED BY <1>0, <1>2, <2>1, <2>2, <2>3 DEF CheckRequestBlocked, Checked
  <1>3. ASSUME NEW q \in scene.requests, CheckRequestAccepting(q)
        PROVE  Checked'
    <2>1. PICK s \in {"model", "rejected"} : Step(q, s) /\ (s = "model" => accepting)
      BY <1>3 DEF CheckRequestAccepting
    <2>2. /\ request'[q].stage = s /\ request'[q].peer = request[q].peer
          /\ \A r \in Requests : r # q => request'[r] = request[r]
      BY <1>0, <1>3, <2>1, StepKeeps DEF CheckRequestAccepting, RequestStages
    <2> QED BY <1>0, <1>3, <2>1, <2>2 DEF CheckRequestAccepting, Checked
  <1>4. ASSUME NEW q \in scene.requests, CheckRequestModel(q)
        PROVE  Checked'
    <2>1. PICK s \in {"served", "rejected"} : Step(q, s)
      BY <1>4 DEF CheckRequestModel
    <2>2. /\ request'[q].stage = s /\ request'[q].peer = request[q].peer
          /\ \A r \in Requests : r # q => request'[r] = request[r]
      BY <1>0, <1>4, <2>1, StepKeeps DEF CheckRequestModel, RequestStages
    <2> QED BY <1>0, <1>4, <2>1, <2>2 DEF CheckRequestModel, Checked
  <1>5. ASSUME NEW c \in scene.consumers, Block(c) \/ Unblock(c)
        PROVE  Checked'
    BY <1>0, <1>5 DEF Block, Unblock, Checked, TypeOK
  <1>6. ASSUME NEW b \in BOOLEAN, SetAccepting(b)
        PROVE  Checked'
    BY <1>0, <1>6 DEF SetAccepting, Checked, TypeOK
  <1>7. CASE UNCHANGED <<request, unwelcome, blocked, accepting>> /\ failed \subseteq failed'
    BY <1>0, <1>7 DEF Checked
  <1> QED BY <1>1, <1>2, <1>3, <1>4, <1>5, <1>6, <1>7 DEF Next, vars, ConnectOfferAuto,
          ConnectOfferManual, Receives, UserAccepts, UserRejects, Respond, Route,
          CheckOfferBlocked, Looks, CheckOfferAccepting, CheckOfferAttested, Consume,
          Approve, InsertSession, ConnectUpdateApproved, CloseConnections, Tick

-----------------------------------------------------------------------------
(* Grants and admissions *)

\* A grant is in the store from the moment it is made, under its own number.
LEMMA RespondStep ==
    ASSUME IInv, NEW i \in DOMAIN responding, Respond(i)
    PROVE  AllowancesBacked' /\ AdmissionJustified' /\ Counted'
  <1> DEFINE o == responding[i]
             g == [req |-> o.req, peer |-> o.peer, model |-> o.model, at |-> now,
                   nth |-> Cardinality(granted) + 1]
             a == [req |-> o.req, peer |-> o.peer, model |-> o.model, expires |-> now + TTL]
  <1>0. /\ TypeOK /\ AllowancesBacked /\ AdmissionJustified /\ Counted
        /\ TTL \in Nat /\ now \in Nat /\ o \in Offer
    BY ProviderGateAssumption DEF IInv, TypeOK
  <1>1. /\ allowances' = {b \in Live(allowances) : b.req # o.req} \cup {a}
        /\ granted' = granted \cup {g} /\ admitted' = admitted /\ now' = now
    BY DEF Respond, Granting, sessionVars
  <1>2. AllowancesBacked'
    <2> SUFFICES ASSUME NEW b \in allowances'
                 PROVE  \E x \in granted' : Backed(x, b)'
      BY DEF AllowancesBacked
    <2>1. CASE b = a
      <3>1. /\ g \in granted' /\ g.req = b.req /\ g.peer = b.peer /\ g.model = b.model
            /\ b.expires = g.at + TTL /\ g.at <= now'
        BY <1>0, <1>1, <2>1
      <3> QED BY <3>1 DEF Backed
    <2>2. CASE b \in allowances
      BY <1>0, <1>1, <2>2 DEF AllowancesBacked, Backed
    <2> QED BY <1>1, <2>1, <2>2 DEF Live
  <1>3. AdmissionJustified'
    BY <1>0, <1>1 DEF AdmissionJustified, Justifies
  <1>4. IsFiniteSet(granted) /\ Cardinality(granted) \in Nat /\ g \notin granted
    BY <1>0, FS_CardinalityType DEF Counted
  <1>5. IsFiniteSet(granted') /\ Cardinality(granted') = Cardinality(granted) + 1
    BY <1>1, <1>4, FS_AddElement
  <1>6. \A x \in granted' : x.nth <= Cardinality(granted')
    <2>1. \A x \in granted : x.nth \in Nat /\ x.nth <= Cardinality(granted)
      BY <1>0 DEF Counted, TypeOK, Grant
    <2> QED BY <1>1, <1>4, <1>5, <2>1
  <1>7. ASSUME NEW k \in ReqIds
        PROVE  Cardinality(AdmissionsOf(k)') + Unused(k)' <= Cardinality(GrantsOf(k)')
    <2>1. /\ IsFiniteSet(GrantsOf(k)) /\ Cardinality(GrantsOf(k)) \in Nat
          /\ IsFiniteSet(AdmissionsOf(k)) /\ Cardinality(AdmissionsOf(k)) \in Nat
      <3>1. GrantsOf(k) \subseteq granted /\ AdmissionsOf(k) \subseteq admitted
        BY DEF GrantsOf, AdmissionsOf
      <3>2. IsFiniteSet(GrantsOf(k)) /\ IsFiniteSet(AdmissionsOf(k))
        BY <1>0, <3>1, FS_Subset DEF Counted
      <3> QED BY <3>2, FS_CardinalityType
    <2>2. AdmissionsOf(k)' = AdmissionsOf(k)
      BY <1>1 DEF AdmissionsOf
    <2>3. Cardinality(AdmissionsOf(k)) + Unused(k) <= Cardinality(GrantsOf(k))
      BY <1>0 DEF Counted
    <2>4. CASE k = o.req
      <3>1. GrantsOf(k)' = GrantsOf(k) \cup {g}
        BY <1>1, <2>4 DEF GrantsOf
      <3>2. g \notin GrantsOf(k)
        BY <1>4 DEF GrantsOf
      <3>3. Cardinality(GrantsOf(k)') = Cardinality(GrantsOf(k)) + 1
        BY <2>1, <3>1, <3>2, FS_AddElement
      <3>4. Unused(k)' \in {0, 1} /\ Unused(k) \in {0, 1}
        BY DEF Unused
      <3> QED BY <2>1, <2>2, <2>3, <3>3, <3>4
    <2>5. CASE k # o.req
      <3>1. GrantsOf(k)' = GrantsOf(k)
        BY <1>1, <2>5 DEF GrantsOf
      <3>2. Unused(k)' <= Unused(k)
        BY <1>1, <2>5 DEF Unused, Live
      <3>3. Unused(k)' \in {0, 1} /\ Unused(k) \in {0, 1}
        BY DEF Unused
      <3> QED BY <2>1, <2>2, <2>3, <3>1, <3>2, <3>3
    <2> QED BY <2>4, <2>5
  <1>8. IsFiniteSet(admitted')
    BY <1>0, <1>1 DEF Counted
  <1>9. Counted'
    BY <1>5, <1>6, <1>7, <1>8 DEF Counted
  <1> QED BY <1>2, <1>3, <1>9

\* An admission takes the allowance it is justified by out of the store.
LEMMA ConsumeStep ==
    ASSUME IInv, NEW h \in Handlers, Consume(h)
    PROVE  AllowancesBacked' /\ AdmissionJustified' /\ Counted'
  <1> DEFINE c == handler[h].peer
             k == handler[h].req
             d(a) == [req |-> k, peer |-> c, model |-> a.model, at |-> now, by |-> h]
  <1>0. /\ TypeOK /\ AllowancesBacked /\ AdmissionJustified /\ Counted
        /\ TTL \in Nat /\ now \in Nat
    BY ProviderGateAssumption DEF IInv, TypeOK
  <1>1. /\ allowances' = {a \in Live(allowances) : a.req # k}
        /\ granted' = granted /\ now' = now
    BY DEF Consume, Take
  <1>2. AllowancesBacked'
    BY <1>0, <1>1 DEF AllowancesBacked, Backed, Live
  <1>3. \A j : Unused(j)' \in {0, 1} /\ Unused(j) \in {0, 1} /\ Unused(j)' <= Unused(j)
    BY <1>1 DEF Unused, Live
  <1>4. \A j \in ReqIds :
          /\ IsFiniteSet(AdmissionsOf(j)) /\ Cardinality(AdmissionsOf(j)) \in Nat
          /\ GrantsOf(j)' = GrantsOf(j) /\ Cardinality(GrantsOf(j)) \in Nat
    <2> SUFFICES ASSUME NEW j \in ReqIds
                 PROVE  /\ IsFiniteSet(AdmissionsOf(j)) /\ Cardinality(AdmissionsOf(j)) \in Nat
                        /\ GrantsOf(j)' = GrantsOf(j) /\ Cardinality(GrantsOf(j)) \in Nat
      OBVIOUS
    <2>1. GrantsOf(j) \subseteq granted /\ AdmissionsOf(j) \subseteq admitted
      BY DEF GrantsOf, AdmissionsOf
    <2>2. IsFiniteSet(GrantsOf(j)) /\ IsFiniteSet(AdmissionsOf(j))
      BY <1>0, <2>1, FS_Subset DEF Counted
    <2>3. GrantsOf(j)' = GrantsOf(j)
      BY <1>1 DEF GrantsOf
    <2> QED BY <2>2, <2>3, FS_CardinalityType
  <1>5. CASE admitted' = admitted
    <2>1. AdmissionJustified'
      BY <1>0, <1>1, <1>5 DEF AdmissionJustified, Justifies
    <2>2. \A j \in ReqIds : AdmissionsOf(j)' = AdmissionsOf(j)
      BY <1>5 DEF AdmissionsOf
    <2>3. \A j \in ReqIds :
            Cardinality(AdmissionsOf(j)') + Unused(j)' <= Cardinality(GrantsOf(j)')
      BY <1>0, <1>3, <1>4, <2>2 DEF Counted
    <2> QED BY <1>0, <1>1, <1>2, <1>5, <2>1, <2>3 DEF Counted
  <1>6. CASE \E a \in Matches(k, c) : admitted' = admitted \cup {d(a)}
    <2>1. PICK a \in Matches(k, c) : admitted' = admitted \cup {d(a)}
      BY <1>6
    <2>2. a \in allowances /\ a.expires > now /\ a.req = k /\ a.peer = c
      BY <2>1 DEF Matches, Live
    <2>3. PICK g \in granted : Backed(g, a)
      BY <1>0, <2>2 DEF AllowancesBacked
    <2>4. Justifies(g, d(a))
      BY <1>0, <2>2, <2>3 DEF Backed, Justifies, TypeOK, Grant
    <2>5. AdmissionJustified'
      BY <1>0, <1>1, <2>1, <2>3, <2>4 DEF AdmissionJustified, Justifies
    <2>6. \A j \in ReqIds :
            Cardinality(AdmissionsOf(j)') + Unused(j)' <= Cardinality(GrantsOf(j)')
      <3> SUFFICES ASSUME NEW j \in ReqIds
                   PROVE  Cardinality(AdmissionsOf(j)') + Unused(j)' <= Cardinality(GrantsOf(j)')
        OBVIOUS
      <3>1. Cardinality(AdmissionsOf(j)) + Unused(j) <= Cardinality(GrantsOf(j))
        BY <1>0 DEF Counted
      <3>2. CASE j = k
        <4>1. Unused(j) = 1 /\ Unused(j)' = 0
          BY <1>1, <2>2, <3>2 DEF Unused
        <4>2. AdmissionsOf(j)' = AdmissionsOf(j) \cup {d(a)}
          BY <2>1, <3>2 DEF AdmissionsOf
        <4>3. Cardinality(AdmissionsOf(j) \cup {d(a)}) =
                IF d(a) \in AdmissionsOf(j) THEN Cardinality(AdmissionsOf(j))
                ELSE Cardinality(AdmissionsOf(j)) + 1
          BY <1>4, FS_AddElement
        <4> QED BY <1>4, <3>1, <4>1, <4>2, <4>3
      <3>3. CASE j # k
        <4>1. AdmissionsOf(j)' = AdmissionsOf(j)
          BY <2>1, <3>3 DEF AdmissionsOf
        <4> QED BY <1>3, <1>4, <3>1, <4>1
      <3> QED BY <3>2, <3>3
    <2>7. IsFiniteSet(admitted')
      BY <1>0, <2>1, FS_AddElement DEF Counted
    <2> QED BY <1>0, <1>1, <1>2, <2>5, <2>6, <2>7 DEF Counted
  <1> QED BY <1>5, <1>6 DEF Consume

\* No other step grants or admits; what expires only leaves the store.
LEMMA GrantsStep ==
    ASSUME IInv, [Next]_vars
    PROVE  AllowancesBacked' /\ AdmissionJustified' /\ Counted'
  <1> USE DEF offerVars, policyVars, sessionVars, requestVars
  <1>0. TypeOK /\ AllowancesBacked /\ AdmissionJustified /\ Counted
    BY DEF IInv
  <1>1. CASE /\ UNCHANGED <<allowances, granted, admitted>>
             /\ now' \in {now, now + 1}
    <2>1. now \in Nat /\ \A g \in granted : g.at \in Nat
      BY <1>0, ProviderGateAssumption DEF IInv, TypeOK, Grant
    <2>2. AllowancesBacked'
      BY <1>0, <1>1, <2>1 DEF AllowancesBacked, Backed
    <2>3. AdmissionJustified'
      BY <1>0, <1>1 DEF AdmissionJustified, Justifies
    <2>4. Counted'
      BY <1>0, <1>1 DEF Counted, AdmissionsOf, GrantsOf, Unused
    <2> QED BY <2>2, <2>3, <2>4
  <1> QED BY <1>1, RespondStep, ConsumeStep DEF Next, vars, ConnectOfferAuto,
          ConnectOfferManual, Receives, UserAccepts, UserRejects, Route,
          CheckOfferBlocked, CheckOfferAccepting, CheckOfferAttested, Approve,
          InsertSession, ConnectUpdateApproved, Block, Unblock, CloseConnections,
          SetAccepting, Arrive, CheckRequestBlocked, CheckRequestAccepting,
          CheckRequestModel, Tick

-----------------------------------------------------------------------------
(* The theorems *)

\* Nothing is offered, granted or admitted at first.
LEMMA InitIInv == Init => IInv
  <1> SUFFICES ASSUME Init PROVE IInv
    OBVIOUS
  <1> USE ProviderGateAssumption DEF Init
  <1>1. scene \in Scenes /\ TypeOK
    BY DEF TypeOK
  <1>2. OpenStarted /\ Checked
    BY DEF OpenStarted, Checked
  <1>3. AllowancesBacked /\ AdmissionJustified
    BY DEF AllowancesBacked, AdmissionJustified
  <1>4. Counted
    <2>1. \A k \in ReqIds : AdmissionsOf(k) = {} /\ GrantsOf(k) = {} /\ Unused(k) = 0
      BY DEF AdmissionsOf, GrantsOf, Unused
    <2>2. granted = {} /\ admitted = {} /\ IsFiniteSet({}) /\ Cardinality({}) = 0
      BY FS_EmptySet
    <2>3. \A k \in ReqIds :
            Cardinality(AdmissionsOf(k)) + Unused(k) <= Cardinality(GrantsOf(k))
      <3> SUFFICES ASSUME NEW k \in ReqIds
                   PROVE  Cardinality(AdmissionsOf(k)) + Unused(k) <= Cardinality(GrantsOf(k))
        OBVIOUS
      <3>1. /\ Cardinality(AdmissionsOf(k)) = 0 /\ Cardinality(GrantsOf(k)) = 0
            /\ Unused(k) = 0
        BY <2>1, <2>2
      <3> QED BY <3>1
    <2> QED BY <2>2, <2>3 DEF Counted
  <1> QED BY <1>1, <1>2, <1>3, <1>4 DEF IInv

\* The invariant holds in every reachable state of every instance.
THEOREM GateInductive == Spec => []IInv
  <1>1. ASSUME IInv, [Next]_vars PROVE IInv'
    BY <1>1, TypesStep, OpenStep, CheckedStep, GrantsStep DEF IInv
  <1> QED BY <1>1, InitIInv, PTL DEF Spec

\* A session is admitted only on a live grant for its request id, requester and model.
THEOREM AdmissionCorrect == Spec => []GateInv
  <1>1. IInv => GateInv
    BY DEF IInv, GateInv
  <1> QED BY <1>1, GateInductive, PTL

\* connect_allowance.rs: a grant that was consumed does not admit a second session.
THEOREM SingleUseCorrect == Spec => []SingleUse
  <1>1. ASSUME IInv PROVE SingleUse
    <2> SUFFICES ASSUME NEW k \in ReqIds
                 PROVE  Cardinality(AdmissionsOf(k)) <= Cardinality(GrantsOf(k))
      BY DEF SingleUse, AdmissionsOf, GrantsOf
    <2>1. AdmissionsOf(k) \subseteq admitted /\ GrantsOf(k) \subseteq granted
      BY DEF AdmissionsOf, GrantsOf
    <2>2. Cardinality(AdmissionsOf(k)) \in Nat /\ Cardinality(GrantsOf(k)) \in Nat
      BY <1>1, <2>1, FS_Subset, FS_CardinalityType DEF IInv, Counted
    <2>3. Unused(k) \in {0, 1}
      BY DEF Unused
    <2> QED BY <1>1, <2>2, <2>3 DEF IInv, Counted
  <1> QED BY <1>1, GateInductive, PTL

\* Nobody who was kept out by maintenance, or was blocked and could be looked up in the
\* block list, from the arrival of a request on has it served, whatever session it came
\* over. A failed lookup counts as not blocked.
THEOREM UnwelcomeCorrect == Spec => []UnwelcomeNeverServed
  <1>1. IInv => UnwelcomeNeverServed
    BY DEF IInv, Checked, UnwelcomeNeverServed, TypeOK, Reasons
  <1> QED BY <1>1, GateInductive, PTL
===============================================================================
