------------------------ MODULE ConsumerSessionProofs ------------------------
(***************************************************************************)
(* The safety properties of ConsumerSession for any number of requests,    *)
(* peers and sessions.  None of them but FlagHasNegotiator and SenderHeld  *)
(* is inductive by itself: SessionMapSound needs to know what a task about *)
(* to insert its session may rely on, and SuccessLeavesNothing where in    *)
(* its life a request can have keys, streams and replies at all.           *)
(***************************************************************************)
EXTENDS ConsumerSession, TLAPS

-----------------------------------------------------------------------------
(* The inductive invariant *)

\* A request past its matching has a target.
TargetKnown ==
    \A r \in Requests : pc[r] \notin {"idle", "approval", "done"} => target[r] \in Peers

\* The delayed task stops at DC_OPEN_MAX_POLLS.
PollsLeft ==
    \A r \in Requests : pc[r] \notin {"timeout", "done"} => polls[r] < MaxPolls

\* Between its offer and peers.insert a task is the only owner of its session:
\* no closer can reach it.
InsertOwns ==
    \A r \in Requests : pc[r] = "insert" =>
        /\ sess[r] # 0
        /\ sessions[sess[r]].peer = target[r]
        /\ State(sess[r]) # "closed"
        /\ \A p \in Peers : peers[p] # sess[r]
        /\ \A q \in Requests : q # r /\ pc[q] = "insert" => sess[q] # sess[r]

\* The provider knows of a request, and replies exist, only after it was sent.
SentFirst ==
    \A r \in Requests :
        /\ pc[r] \notin {"register", "awaiting"} => prov[r] = "none" /\ inbox[r] = <<>>
        /\ pc[r] = "register" => E2EE

\* Keys and streams belong to requests whose keys have been registered.
KeyedAwaits ==
    \A r \in Requests : r \in enc \cup streams => E2EE /\ pc[r] = "awaiting"

\* A request ends well only while it awaits its reply, and leaves nothing but
\* the exchange of a plaintext request over an inbound session.
SuccessFinal ==
    \A r \in Requests : outcome[r] = "ok" =>
        /\ pc[r] = "awaiting"
        /\ r \notin pending \cup enc \cup streams
        /\ r \in exchanges => ~E2EE /\ OverInbound(r)

IInv ==
    /\ TypeOK
    /\ TargetKnown
    /\ PollsLeft
    /\ SessionMapSound
    /\ InsertOwns
    /\ FlagHasNegotiator
    /\ SenderHeld
    /\ SentFirst
    /\ KeyedAwaits
    /\ SuccessFinal

-----------------------------------------------------------------------------
(* Updating one session of the sequence *)

\* Setting the state of one session keeps the sequence's type and length, the
\* other sessions, and the peer of that one.
LEMMA SetStateKeeps ==
    ASSUME NEW S \in Seq(SessionRecord), NEW i \in 1..Len(S), NEW st \in SessionStates,
           NEW T, T = [S EXCEPT ![i].state = st]
    PROVE  /\ T \in Seq(SessionRecord)
           /\ Len(T) = Len(S)
           /\ T[i].state = st /\ T[i].peer = S[i].peer
           /\ \A j \in 1..Len(S) : j # i => T[j] = S[j]
  <1>1. S \in [1..Len(S) -> SessionRecord] /\ Len(S) \in Nat
    OBVIOUS
  <1>2. T \in [1..Len(S) -> SessionRecord]
    BY <1>1 DEF SessionRecord
  <1>3. T \in Seq(SessionRecord) /\ Len(T) = Len(S)
    BY <1>1, <1>2
  <1>4. S[i] \in SessionRecord
    BY <1>1
  <1> QED BY <1>1, <1>3, <1>4 DEF SessionRecord

\* What a closer does to the map and to the sessions, for ClosePeer and Timeout.
LEMMA CloseKeepsTypes ==
    ASSUME TypeOK, NEW p,
           peers' = [peers EXCEPT ![p] = 0],
           p \in Peers,
           sessions' = IF peers[p] = 0 THEN sessions
                       ELSE [sessions EXCEPT ![peers[p]].state = "closed"]
    PROVE  /\ sessions' \in Seq(SessionRecord) /\ Len(sessions') = Len(sessions)
           /\ peers' \in [Peers -> 0..Len(sessions')]
           /\ \A s \in 1..Len(sessions) : sessions'[s].peer = sessions[s].peer
           /\ \A s \in 1..Len(sessions) : s # peers[p] => sessions'[s] = sessions[s]
  <1>1. sessions \in Seq(SessionRecord) /\ peers \in [Peers -> 0..Len(sessions)]
        /\ Len(sessions) \in Nat /\ peers[p] \in 0..Len(sessions)
    BY DEF TypeOK
  <1>2. CASE peers[p] = 0
    BY <1>1, <1>2
  <1>3. CASE peers[p] # 0
    <2>1. peers[p] \in 1..Len(sessions) /\ "closed" \in SessionStates
      BY <1>1, <1>3 DEF SessionStates
    <2>2. sessions' = [sessions EXCEPT ![peers[p]].state = "closed"]
      BY <1>3
    <2>3. /\ sessions' \in Seq(SessionRecord) /\ Len(sessions') = Len(sessions)
          /\ sessions'[peers[p]].peer = sessions[peers[p]].peer
          /\ \A s \in 1..Len(sessions) : s # peers[p] => sessions'[s] = sessions[s]
      BY <1>1, <2>1, <2>2, SetStateKeeps
    <2> QED BY <1>1, <2>3
  <1> QED BY <1>2, <1>3

-----------------------------------------------------------------------------
(* Type correctness and the stages *)

\* What StagesStep keeps.
Stages3 == TypeOK /\ TargetKnown /\ PollsLeft

\* Every step keeps the types, gives a matched request its target, and stops
\* the delayed task at its last poll.
LEMMA StagesStep ==
    ASSUME IInv, [Next]_vars
    PROVE  Stages3'
  <1> USE ConsumerSessionAssumption DEF Stages, NegotiatingStages, TrackedStages
  <1>0. TypeOK /\ TargetKnown /\ PollsLeft
    BY DEF IInv
  <1>1. ASSUME NEW r \in Requests, NEW p \in Peers, RequestDirect(r, p)
        PROVE  Stages3'
    BY <1>0, <1>1 DEF RequestDirect, Goto, Finish, Ends, Stages3, TypeOK, TargetKnown,
       PollsLeft, sessionVars, wireVars, Outcomes
  <1>2. ASSUME NEW r \in Requests, NEW p \in Peers, ConnectApproved(r, p)
        PROVE  Stages3'
    BY <1>0, <1>2 DEF ConnectApproved, Goto, Stages3, TypeOK, TargetKnown,
       PollsLeft, sessionVars, replyVars, wireVars
  <1>3. ASSUME NEW r \in Requests, RequestBrokered(r) \/ ApprovalFails(r)
        PROVE  Stages3'
    BY <1>0, <1>3 DEF RequestBrokered, ApprovalFails, Goto, Finish, Ends, Stages3,
       TypeOK, TargetKnown, PollsLeft, sessionVars, wireVars, Outcomes
  <1>4. ASSUME NEW r \in Requests,
               CheckStale(r) \/ CheckReplace(r) \/ CheckExists(r)
        PROVE  Stages3'
    BY <1>0, <1>4 DEF CheckStale, CheckReplace, CheckExists, Goto, Stages3,
       TypeOK, TargetKnown, PollsLeft, sessionVars, replyVars, wireVars
  <1>5. ASSUME NEW r \in Requests, Begin(r) \/ EndNegotiation(r) \/ CreateFails(r)
        PROVE  Stages3'
    <2>1. target[r] \in Peers
      BY <1>0, <1>5 DEF Begin, EndNegotiation, CreateFails, TargetKnown
    <2>2. negotiating' \subseteq Peers
      BY <1>0, <1>5, <2>1 DEF Begin, EndNegotiation, CreateFails, TypeOK
    <2>3. CASE Begin(r)
      BY <1>0, <2>1, <2>2, <2>3 DEF Begin, Goto, Finish, Ends, Stages3,
         TypeOK, TargetKnown, PollsLeft, wireVars, Outcomes
    <2>4. CASE EndNegotiation(r)
      BY <1>0, <2>1, <2>2, <2>4 DEF EndNegotiation, Goto, Stages3,
         TypeOK, TargetKnown, PollsLeft, replyVars, wireVars
    <2>5. CASE CreateFails(r)
      BY <1>0, <2>1, <2>2, <2>5 DEF CreateFails, Goto, Finish, Ends, Stages3,
         TypeOK, TargetKnown, PollsLeft, wireVars, Outcomes
    <2> QED BY <1>5, <2>3, <2>4, <2>5
  <1>6. ASSUME NEW r \in Requests, CloseStale(r) \/ CloseReplace(r)
        PROVE  Stages3'
    <2>1. target[r] \in Peers
      BY <1>0, <1>6 DEF CloseStale, CloseReplace, TargetKnown
    <2>2. /\ sessions' \in Seq(SessionRecord) /\ Len(sessions') = Len(sessions)
          /\ peers' \in [Peers -> 0..Len(sessions')]
      BY <1>0, <1>6, <2>1, CloseKeepsTypes DEF CloseStale, CloseReplace, ClosePeer
    <2> QED BY <1>0, <1>6, <2>1, <2>2 DEF CloseStale, CloseReplace, ClosePeer, Goto,
       Stages3, TypeOK, TargetKnown, PollsLeft, replyVars, wireVars
  <1>7. ASSUME NEW r \in Requests, SendOffer(r)
        PROVE  Stages3'
    <2>0. Len(sessions) \in Nat
      BY <1>0 DEF TypeOK
    <2>1. target[r] \in Peers /\ Len(sessions) \in Nat
      BY <1>0, <1>7, <2>0 DEF SendOffer, TargetKnown
    <2>2. sessions' \in Seq(SessionRecord) /\ Len(sessions') = Len(sessions) + 1
      BY <1>0, <1>7, <2>1 DEF SendOffer, TypeOK, SessionRecord, SessionStates
    <2>3. peers' \in [Peers -> 0..Len(sessions')] /\ answered' \subseteq 1..Len(sessions')
      BY <1>0, <1>7, <2>1, <2>2 DEF SendOffer, TypeOK
    <2>4. sess' \in [Requests -> 0..Len(sessions')]
      BY <1>0, <1>7, <2>1, <2>2 DEF SendOffer, TypeOK, NewSession
    <2> QED BY <1>0, <1>7, <2>2, <2>3, <2>4 DEF SendOffer, Goto, Stages3, TypeOK,
       TargetKnown, PollsLeft, replyVars, wireVars
  <1>8. ASSUME NEW r \in Requests, InsertSession(r) \/ Lookup(r)
        PROVE  Stages3'
    <2>1. target[r] \in Peers
      BY <1>0, <1>8 DEF InsertSession, Lookup, TargetKnown
    <2> QED BY <1>0, <1>8, <2>1 DEF InsertSession, Lookup, Goto, Finish, Ends, Stages3,
       TypeOK, TargetKnown, PollsLeft, sessionVars, replyVars, wireVars, Outcomes
  <1>9. ASSUME NEW r \in Requests, Poll(r)
        PROVE  Stages3'
    <2>0. polls \in [Requests -> 0..MaxPolls]
      BY <1>0 DEF TypeOK
    <2>1. polls[r] \in Nat /\ polls[r] < MaxPolls
      BY <1>0, <1>9, <2>0 DEF Poll, PollsLeft
    <2>2. polls' \in [Requests -> 0..MaxPolls]
      BY <1>9, <2>0, <2>1 DEF Poll
    <2>3. PollsLeft'
      BY <1>0, <1>9, <2>0, <2>1 DEF Poll, Goto, PollsLeft, TypeOK
    <2> QED BY <1>0, <1>9, <2>2, <2>3 DEF Poll, Goto, Stages3, TypeOK, TargetKnown, PollsLeft,
       sessionVars, replyVars, wireVars
  <1>10. ASSUME NEW r \in Requests, Timeout(r)
         PROVE  Stages3'
    <2>1. target[r] \in Peers
      BY <1>0, <1>10 DEF Timeout, TargetKnown
    <2>2. /\ sessions' \in Seq(SessionRecord) /\ Len(sessions') = Len(sessions)
          /\ peers' \in [Peers -> 0..Len(sessions')]
      BY <1>0, <1>10, <2>1, CloseKeepsTypes DEF Timeout
    <2> QED BY <1>0, <1>10, <2>1, <2>2 DEF Timeout, Goto, Finish, Ends, Stages3, TypeOK,
       TargetKnown, PollsLeft, wireVars, Outcomes
  <1>11. ASSUME NEW r \in Requests, Send(r) \/ SendFails(r) \/ Register(r)
         PROVE  Stages3'
    BY <1>0, <1>11 DEF Send, SendFails, Register, Goto, Finish, Ends, Stages3, TypeOK,
       TargetKnown, PollsLeft, sessionVars, replyVars, wireVars, Outcomes
  <1>12. ASSUME NEW r \in Requests, ProviderStep(r)
         PROVE  Stages3'
    <2>1. \E m \in Messages, n \in {"acked", "streamed", "ended"} :
             /\ prov' = [prov EXCEPT ![r] = n]
             /\ inbox' = [inbox EXCEPT ![r] = Append(@, m)]
             /\ UNCHANGED <<taskVars, sessionVars, replyVars>>
      BY <1>12 DEF ProviderStep, ProviderAck, ProviderChunk, ProviderFinal,
         ProviderError, Reply, Messages
    <2> QED BY <1>0, <2>1 DEF Stages3, TypeOK, TargetKnown, PollsLeft, taskVars,
       sessionVars, replyVars
  <1>13. ASSUME NEW r \in Requests, OnMessage(r)
         PROVE  Stages3'
    <2>1. inbox' \in [Requests -> Seq(Messages)]
      BY <1>0, <1>13 DEF OnMessage, TypeOK
    <2>2. /\ pending' \subseteq Requests /\ exchanges' \subseteq Requests
          /\ enc' \subseteq Requests /\ streams' \subseteq Requests
          /\ outcome' \in [Requests -> Outcomes]
      BY <1>0, <1>13 DEF OnMessage, OnPlaintext, OnResponse, OnStreamChunk, ReportsEnd,
         FailsPending, Ends, TypeOK, Outcomes, replyVars
    <2> QED BY <1>0, <1>13, <2>1, <2>2 DEF OnMessage, Stages3, TypeOK, TargetKnown,
       PollsLeft, taskVars, sessionVars
  <1>14. ASSUME NEW p \in Peers, InboundOffer(p)
         PROVE  Stages3'
    <2>1. Len(sessions) \in Nat
      BY <1>0 DEF TypeOK
    <2>2. sessions' \in Seq(SessionRecord) /\ Len(sessions') = Len(sessions) + 1
      BY <1>0, <1>14, <2>1 DEF InboundOffer, TypeOK, SessionRecord, SessionStates
    <2>3. peers' \in [Peers -> 0..Len(sessions')] /\ answered' \subseteq 1..Len(sessions')
          /\ sess' \in [Requests -> 0..Len(sessions')]
      BY <1>0, <1>14, <2>1, <2>2 DEF InboundOffer, TypeOK, taskVars, NewSession
    <2> QED BY <1>0, <1>14, <2>2, <2>3 DEF InboundOffer, Stages3, TypeOK,
       TargetKnown, PollsLeft, taskVars, replyVars, wireVars
  <1>15. ASSUME NEW p \in Peers, Moderate(p)
         PROVE  Stages3'
    <2>2. /\ sessions' \in Seq(SessionRecord) /\ Len(sessions') = Len(sessions)
          /\ peers' \in [Peers -> 0..Len(sessions')]
      BY <1>0, <1>15, CloseKeepsTypes DEF Moderate, ClosePeer
    <2> QED BY <1>0, <1>15, <2>2 DEF Moderate, ClosePeer, Stages3, TypeOK, TargetKnown,
       PollsLeft, taskVars, replyVars, wireVars
  <1>16. ASSUME NEW s \in DOMAIN sessions,
                \/ RouteAnswer(s) \/ ChannelOpens(s)
                \/ ChannelBreaks(s) \/ SessionFails(s)
         PROVE  Stages3'
    <2>0. sessions \in Seq(SessionRecord) /\ peers \in [Peers -> 0..Len(sessions)]
      BY <1>0 DEF TypeOK
    <2>1. s \in 1..Len(sessions) /\ Len(sessions) \in Nat
      BY <2>0
    <2>4. sessions[s] \in SessionRecord
      BY <2>0, <2>1
    <2>5. sessions[s].peer \in Peers
      BY <2>4 DEF SessionRecord
    <2>6. peers[sessions[s].peer] \in 0..Len(sessions)
      BY <2>0, <2>5
    <2>2. \/ sessions' = sessions
          \/ \E i \in 1..Len(sessions), st \in SessionStates :
               sessions' = [sessions EXCEPT ![i].state = st]
      <3>1. CASE RouteAnswer(s)
        <4> DEFINE cur == peers[sessions[s].peer]
        <4>1. \/ sessions' = sessions
              \/ cur # 0 /\ sessions' = [sessions EXCEPT ![cur].state = "answered"]
              \/ cur # 0 /\ sessions' = [sessions EXCEPT ![cur].state = "broken"]
          BY <3>1 DEF RouteAnswer
        <4>2. cur # 0 => cur \in 1..Len(sessions)
          BY <2>1, <2>6
        <4>3. "answered" \in SessionStates /\ "broken" \in SessionStates
          BY DEF SessionStates
        <4> HIDE DEF cur
        <4> QED BY <4>1, <4>2, <4>3
      <3>2. CASE ChannelOpens(s) \/ ChannelBreaks(s) \/ SessionFails(s)
        BY <2>1, <3>2 DEF ChannelOpens, ChannelBreaks, SessionFails, SetState, SessionStates
      <3> QED BY <1>16, <3>1, <3>2
    <2>3. sessions' \in Seq(SessionRecord) /\ Len(sessions') = Len(sessions)
      BY <2>0, <2>2, SetStateKeeps
    <2> QED BY <1>0, <1>16, <2>1, <2>3 DEF RouteAnswer, ChannelOpens, ChannelBreaks,
       SessionFails, SetState, Stages3, TypeOK, TargetKnown, PollsLeft, taskVars,
       replyVars, wireVars
  <1>17. ASSUME UNCHANGED vars
         PROVE  Stages3'
    BY <1>0, <1>17 DEF vars, taskVars, sessionVars, replyVars, wireVars, Stages3, TypeOK,
       TargetKnown, PollsLeft
  <1> QED BY <1>1, <1>2, <1>3, <1>4, <1>5, <1>6, <1>7, <1>8, <1>9, <1>10, <1>11, <1>12,
       <1>13, <1>14, <1>15, <1>16, <1>17 DEF Next, TaskStep

-----------------------------------------------------------------------------
(* The map of sessions *)

\* The map and the tasks about to insert are left alone.
LEMMA QuietKeepsMap ==
    ASSUME SessionMapSound, InsertOwns,
           UNCHANGED <<peers, sessions>>,
           \A r \in Requests : pc'[r] = "insert" =>
             pc[r] = "insert" /\ sess'[r] = sess[r] /\ target'[r] = target[r]
    PROVE  SessionMapSound' /\ InsertOwns'
  BY DEF SessionMapSound, InsertOwns, State

\* A closer removes the only reference to the session it closes, and cannot
\* reach one that is about to be inserted.
LEMMA CloseKeepsMap ==
    ASSUME TypeOK, SessionMapSound, InsertOwns, NEW p \in Peers,
           peers' = [peers EXCEPT ![p] = 0],
           sessions' = IF peers[p] = 0 THEN sessions
                       ELSE [sessions EXCEPT ![peers[p]].state = "closed"],
           UNCHANGED <<sess, target>>,
           \A r \in Requests : pc'[r] = "insert" => pc[r] = "insert"
    PROVE  SessionMapSound' /\ InsertOwns'
  <1>1. /\ sessions \in Seq(SessionRecord) /\ Len(sessions) \in Nat
        /\ peers \in [Peers -> 0..Len(sessions)]
        /\ sess \in [Requests -> 0..Len(sessions)]
    BY DEF TypeOK
  <1>2. \A s \in 1..Len(sessions) : s # peers[p] => sessions'[s] = sessions[s]
    BY CloseKeepsTypes
  <1>3. ASSUME NEW q \in Peers, peers'[q] # 0
        PROVE  sessions'[peers'[q]].peer = q /\ sessions'[peers'[q]].state # "closed"
    <2>1. q # p /\ peers'[q] = peers[q] /\ peers[q] \in 1..Len(sessions)
      BY <1>1, <1>3
    <2>2. sessions[peers[q]].peer = q /\ sessions[peers[q]].state # "closed"
      BY <2>1 DEF SessionMapSound, State
    <2>3. peers[q] # peers[p]
      BY <2>1, <2>2 DEF SessionMapSound
    <2> QED BY <1>2, <2>1, <2>2, <2>3
  <1>4. ASSUME NEW r \in Requests, pc'[r] = "insert"
        PROVE  /\ sess[r] # 0 /\ sessions'[sess[r]] = sessions[sess[r]]
               /\ \A q \in Peers : peers'[q] # sess[r]
    <2>1. sess[r] # 0 /\ sess[r] \in 1..Len(sessions) /\ \A q \in Peers : peers[q] # sess[r]
      BY <1>1, <1>4 DEF InsertOwns
    <2> QED BY <1>1, <1>2, <2>1
  <1>5. SessionMapSound'
    BY <1>3 DEF SessionMapSound, State
  <1>6. InsertOwns'
    BY <1>4 DEF InsertOwns, State
  <1> QED BY <1>5, <1>6

\* A session changes its state, but is not closed.
LEMMA StateKeepsMap ==
    ASSUME TypeOK, SessionMapSound, InsertOwns,
           NEW i \in 1..Len(sessions), NEW st \in SessionStates, st # "closed",
           sessions' = [sessions EXCEPT ![i].state = st],
           UNCHANGED <<pc, sess, target, peers>>
    PROVE  SessionMapSound' /\ InsertOwns'
  <1>1. sessions \in Seq(SessionRecord) /\ peers \in [Peers -> 0..Len(sessions)]
        /\ sess \in [Requests -> 0..Len(sessions)]
    BY DEF TypeOK
  <1>2. \A j \in 1..Len(sessions) :
           /\ sessions'[j].peer = sessions[j].peer
           /\ sessions[j].state # "closed" => sessions'[j].state # "closed"
    BY <1>1, SetStateKeeps
  <1>3. SessionMapSound'
    BY <1>1, <1>2 DEF SessionMapSound, State
  <1>4. InsertOwns'
    BY <1>1, <1>2 DEF InsertOwns, State
  <1> QED BY <1>3, <1>4

\* A session is created: the others stay as they are.
LEMMA AppendKeeps ==
    ASSUME TypeOK, NEW rec, sessions' = Append(sessions, rec)
    PROVE  /\ Len(sessions) \in Nat
           /\ sessions'[NewSession] = rec
           /\ \A j \in 1..Len(sessions) : sessions'[j] = sessions[j]
           /\ \A p \in Peers : peers[p] # NewSession
           /\ \A r \in Requests : sess[r] # NewSession
  <1>1. sessions \in Seq(SessionRecord) /\ peers \in [Peers -> 0..Len(sessions)]
        /\ sess \in [Requests -> 0..Len(sessions)] /\ Len(sessions) \in Nat
    BY DEF TypeOK
  <1> QED BY <1>1 DEF NewSession

\* Every step keeps the session map sound and a session about to be inserted
\* out of every closer's reach.
LEMMA MapStep ==
    ASSUME IInv, [Next]_vars
    PROVE  SessionMapSound' /\ InsertOwns'
  <1>0. TypeOK /\ SessionMapSound /\ InsertOwns /\ TargetKnown
    BY DEF IInv
  <1>t. /\ sessions \in Seq(SessionRecord) /\ peers \in [Peers -> 0..Len(sessions)]
        /\ sess \in [Requests -> 0..Len(sessions)] /\ Len(sessions) \in Nat
        /\ pc \in [Requests -> Stages] /\ target \in [Requests -> Peers \cup {NoPeer}]
    BY <1>0 DEF TypeOK
  <1>1. ASSUME NEW r \in Requests, NEW p \in Peers,
               RequestDirect(r, p) \/ ConnectApproved(r, p)
        PROVE  SessionMapSound' /\ InsertOwns'
    BY <1>0, <1>1, <1>t, QuietKeepsMap DEF RequestDirect, ConnectApproved, Goto, Finish,
       sessionVars
  <1>2. ASSUME NEW r \in Requests, RequestBrokered(r) \/ ApprovalFails(r)
        PROVE  SessionMapSound' /\ InsertOwns'
    BY <1>0, <1>2, <1>t, QuietKeepsMap DEF RequestBrokered, ApprovalFails, Goto, Finish,
       sessionVars
  <1>3. ASSUME NEW r \in Requests,
               \/ CheckStale(r) \/ CheckReplace(r) \/ CheckExists(r)
               \/ EndNegotiation(r) \/ CreateFails(r)
        PROVE  SessionMapSound' /\ InsertOwns'
    BY <1>0, <1>3, <1>t, QuietKeepsMap DEF CheckStale, CheckReplace, CheckExists,
       EndNegotiation, CreateFails, Goto, Finish, sessionVars
  <1>4. ASSUME NEW r \in Requests, Begin(r) \/ Lookup(r) \/ Poll(r)
        PROVE  SessionMapSound' /\ InsertOwns'
    BY <1>0, <1>4, <1>t, QuietKeepsMap DEF Begin, Lookup, Poll, Goto, Finish, sessionVars
  <1>5. ASSUME NEW r \in Requests, Send(r) \/ SendFails(r) \/ Register(r)
        PROVE  SessionMapSound' /\ InsertOwns'
    BY <1>0, <1>5, <1>t, QuietKeepsMap DEF Send, SendFails, Register, Goto, Finish,
       sessionVars
  <1>6. ASSUME NEW r \in Requests, CloseStale(r) \/ CloseReplace(r) \/ Timeout(r)
        PROVE  SessionMapSound' /\ InsertOwns'
    <2>1. target[r] \in Peers
      BY <1>0, <1>6 DEF CloseStale, CloseReplace, Timeout, TargetKnown
    <2> QED BY <1>0, <1>6, <1>t, <2>1, CloseKeepsMap DEF CloseStale, CloseReplace, Timeout,
       ClosePeer, Goto, Finish
  <1>7. ASSUME NEW r \in Requests, SendOffer(r)
        PROVE  SessionMapSound' /\ InsertOwns'
    <2> DEFINE rec == [peer |-> target[r], dir |-> "out", state |-> "offered"]
    <2>1. /\ pc[r] = "create" /\ pc' = [pc EXCEPT ![r] = "insert"]
          /\ sessions' = Append(sessions, rec)
          /\ sess' = [sess EXCEPT ![r] = NewSession]
          /\ UNCHANGED <<peers, target>>
      BY <1>7 DEF SendOffer, Goto
    <2>2. /\ sessions'[NewSession] = rec
          /\ \A j \in 1..Len(sessions) : sessions'[j] = sessions[j]
          /\ \A p \in Peers : peers[p] # NewSession
          /\ \A q \in Requests : sess[q] # NewSession
      BY <1>0, <2>1, AppendKeeps
    <2>3. SessionMapSound'
      BY <1>0, <1>t, <2>1, <2>2 DEF SessionMapSound, State
    <2>4. NewSession # 0 /\ rec.peer = target[r] /\ rec.state # "closed"
      BY <1>t DEF NewSession
    <2> HIDE DEF rec
    <2>5. ASSUME NEW q \in Requests, pc'[q] = "insert", q # r
          PROVE  /\ sess'[q] = sess[q] /\ pc[q] = "insert" /\ target'[q] = target[q]
                 /\ sessions'[sess[q]] = sessions[sess[q]]
      BY <1>0, <1>t, <2>1, <2>2, <2>5 DEF InsertOwns
    <2>6. sess'[r] = NewSession /\ target'[r] = target[r] /\ pc'[r] = "insert"
      BY <1>t, <2>1
    <2>7. InsertOwns'
      <3> SUFFICES ASSUME NEW q \in Requests, pc'[q] = "insert"
                   PROVE  /\ sess'[q] # 0
                          /\ sessions'[sess'[q]].peer = target'[q]
                          /\ sessions'[sess'[q]].state # "closed"
                          /\ \A p \in Peers : peers'[p] # sess'[q]
                          /\ \A o \in Requests : o # q /\ pc'[o] = "insert"
                                                   => sess'[o] # sess'[q]
        BY DEF InsertOwns, State
      <3>1. CASE q = r
        <4>1. \A o \in Requests : o # r /\ pc'[o] = "insert" => sess'[o] # NewSession
          BY <2>2, <2>5
        <4>2. sessions'[sess'[r]] = rec /\ \A p \in Peers : peers'[p] # sess'[r]
          BY <2>1, <2>2, <2>6
        <4> QED BY <2>4, <2>6, <3>1, <4>1, <4>2
      <3>2. CASE q # r
        <4>1. /\ sess'[q] = sess[q] /\ pc[q] = "insert" /\ target'[q] = target[q]
              /\ sessions'[sess[q]] = sessions[sess[q]]
          BY <2>5, <3>2
        <4>2. /\ sess[q] # 0 /\ sessions[sess[q]].peer = target[q]
              /\ sessions[sess[q]].state # "closed"
              /\ \A p \in Peers : peers[p] # sess[q]
              /\ \A o \in Requests : o # q /\ pc[o] = "insert" => sess[o] # sess[q]
          BY <1>0, <4>1 DEF InsertOwns, State
        <4>3. ASSUME NEW o \in Requests, o # q, pc'[o] = "insert"
              PROVE  sess'[o] # sess'[q]
          BY <2>2, <2>5, <2>6, <4>1, <4>2, <4>3
        <4> QED BY <2>1, <4>1, <4>2, <4>3
      <3> QED BY <3>1, <3>2
    <2> QED BY <2>3, <2>7
  <1>8. ASSUME NEW r \in Requests, InsertSession(r)
        PROVE  SessionMapSound' /\ InsertOwns'
    <2>1. /\ pc[r] = "insert" /\ pc' = [pc EXCEPT ![r] = "end"]
          /\ peers' = [peers EXCEPT ![target[r]] = sess[r]]
          /\ UNCHANGED <<sessions, sess, target>>
      BY <1>8 DEF InsertSession, Goto
    <2>2. target[r] \in Peers
      BY <1>0, <2>1 DEF TargetKnown
    <2>3. /\ sessions[sess[r]].peer = target[r] /\ sessions[sess[r]].state # "closed"
          /\ \A q \in Requests : q # r /\ pc[q] = "insert" => sess[q] # sess[r]
      BY <1>0, <2>1 DEF InsertOwns, State
    <2>4. SessionMapSound'
      BY <1>0, <1>t, <2>1, <2>2, <2>3 DEF SessionMapSound, State
    <2>5. \A q \in Requests : pc'[q] = "insert" => q # r /\ pc[q] = "insert"
      BY <1>t, <2>1
    <2>6. InsertOwns'
      BY <1>0, <1>t, <2>1, <2>2, <2>3, <2>5 DEF InsertOwns, State
    <2> QED BY <2>4, <2>6
  <1>9. ASSUME NEW r \in Requests, ProviderStep(r) \/ OnMessage(r)
        PROVE  SessionMapSound' /\ InsertOwns'
    BY <1>0, <1>9, QuietKeepsMap DEF ProviderStep, ProviderAck, ProviderChunk,
       ProviderFinal, ProviderError, Reply, OnMessage, taskVars, sessionVars
  <1>10. ASSUME NEW p \in Peers, InboundOffer(p)
         PROVE  SessionMapSound' /\ InsertOwns'
    <2> DEFINE rec == [peer |-> p, dir |-> "in", state |-> "answered"]
    <2>1. /\ sessions' = Append(sessions, rec)
          /\ peers' = [peers EXCEPT ![p] = NewSession]
          /\ UNCHANGED <<pc, sess, target>>
      BY <1>10 DEF InboundOffer, taskVars
    <2>2. /\ sessions'[NewSession] = rec
          /\ \A j \in 1..Len(sessions) : sessions'[j] = sessions[j]
          /\ \A q \in Requests : sess[q] # NewSession
      BY <1>0, <2>1, AppendKeeps
    <2>3. rec.peer = p /\ rec.state # "closed"
      OBVIOUS
    <2> HIDE DEF rec
    <2>4. SessionMapSound'
      <3> SUFFICES ASSUME NEW q \in Peers, peers'[q] # 0
                   PROVE  sessions'[peers'[q]].peer = q /\ sessions'[peers'[q]].state # "closed"
        BY DEF SessionMapSound, State
      <3>1. CASE q = p
        BY <1>t, <2>1, <2>2, <2>3, <3>1
      <3>2. CASE q # p
        <4>1. peers'[q] = peers[q] /\ peers[q] \in 1..Len(sessions)
          BY <1>t, <2>1, <3>2
        <4> QED BY <1>0, <2>2, <4>1 DEF SessionMapSound, State
      <3> QED BY <3>1, <3>2
    <2>5. ASSUME NEW r \in Requests, pc[r] = "insert"
          PROVE  sessions'[sess[r]] = sessions[sess[r]]
      BY <1>0, <1>t, <2>2, <2>5 DEF InsertOwns
    <2>6. InsertOwns'
      BY <1>0, <1>t, <2>1, <2>2, <2>5 DEF InsertOwns, State
    <2> QED BY <2>4, <2>6
  <1>11. ASSUME NEW p \in Peers, Moderate(p)
         PROVE  SessionMapSound' /\ InsertOwns'
    BY <1>0, <1>11, CloseKeepsMap DEF Moderate, ClosePeer, taskVars
  <1>12. ASSUME NEW s \in DOMAIN sessions, RouteAnswer(s)
         PROVE  SessionMapSound' /\ InsertOwns'
    <2> DEFINE cur == peers[sessions[s].peer]
    <2>1. /\ UNCHANGED <<pc, sess, target, peers>>
          /\ \/ sessions' = sessions
             \/ cur # 0 /\ sessions' = [sessions EXCEPT ![cur].state = "answered"]
             \/ cur # 0 /\ sessions' = [sessions EXCEPT ![cur].state = "broken"]
      BY <1>12 DEF RouteAnswer, taskVars
    <2>2. sessions[s] \in SessionRecord
      BY <1>t
    <2>3. sessions[s].peer \in Peers
      BY <2>2 DEF SessionRecord
    <2>4. cur \in 0..Len(sessions) /\ (cur # 0 => cur \in 1..Len(sessions))
      BY <1>t, <2>3
    <2>5. "answered" \in SessionStates /\ "broken" \in SessionStates
      BY DEF SessionStates
    <2> HIDE DEF cur
    <2>6. CASE sessions' = sessions
      BY <1>0, <2>1, <2>6, QuietKeepsMap
    <2>7. CASE cur # 0 /\ sessions' = [sessions EXCEPT ![cur].state = "answered"]
      BY <1>0, <2>1, <2>4, <2>5, <2>7, StateKeepsMap
    <2>8. CASE cur # 0 /\ sessions' = [sessions EXCEPT ![cur].state = "broken"]
      BY <1>0, <2>1, <2>4, <2>5, <2>8, StateKeepsMap
    <2> QED BY <2>1, <2>6, <2>7, <2>8
  <1>13. ASSUME NEW s \in DOMAIN sessions,
                ChannelOpens(s) \/ ChannelBreaks(s) \/ SessionFails(s)
         PROVE  SessionMapSound' /\ InsertOwns'
    <2>1. s \in 1..Len(sessions)
      BY <1>t
    <2>2. PICK st \in {"open", "broken", "failed"} :
             /\ sessions' = [sessions EXCEPT ![s].state = st]
             /\ UNCHANGED <<pc, sess, target, peers>>
      BY <1>13 DEF ChannelOpens, ChannelBreaks, SessionFails, SetState, taskVars
    <2>3. st \in SessionStates /\ st # "closed"
      BY DEF SessionStates
    <2> QED BY <1>0, <2>1, <2>2, <2>3, StateKeepsMap
  <1>14. ASSUME UNCHANGED vars
         PROVE  SessionMapSound' /\ InsertOwns'
    BY <1>0, <1>14, QuietKeepsMap DEF vars, taskVars, sessionVars
  <1> QED BY <1>1, <1>2, <1>3, <1>4, <1>5, <1>6, <1>7, <1>8, <1>9, <1>10, <1>11, <1>12,
       <1>13, <1>14 DEF Next, TaskStep

-----------------------------------------------------------------------------
(* The negotiation flags *)

\* Flags are only cleared, and every negotiator goes on, or its flag is gone.
LEMMA QuietKeepsFlag ==
    ASSUME FlagHasNegotiator, negotiating' \subseteq negotiating,
           \A r \in Requests : pc[r] \in NegotiatingStages =>
             \/ pc'[r] \in NegotiatingStages /\ target'[r] = target[r]
             \/ target[r] \notin negotiating'
    PROVE  FlagHasNegotiator'
  BY DEF FlagHasNegotiator

\* Every step that sets a negotiation flag, or moves the task that owns one,
\* leaves the flag with a task that will clear it.
LEMMA FlagStep ==
    ASSUME IInv, [Next]_vars
    PROVE  FlagHasNegotiator'
  <1>0. FlagHasNegotiator
    BY DEF IInv
  <1>t. pc \in [Requests -> Stages] /\ target \in [Requests -> Peers \cup {NoPeer}]
    BY DEF IInv, TypeOK
  <1> USE DEF NegotiatingStages
  <1>1. ASSUME NEW r \in Requests, NEW p \in Peers,
               RequestDirect(r, p) \/ ConnectApproved(r, p)
        PROVE  FlagHasNegotiator'
    BY <1>0, <1>1, <1>t, QuietKeepsFlag DEF RequestDirect, ConnectApproved, Goto, Finish,
       sessionVars
  <1>2. ASSUME NEW r \in Requests,
               RequestBrokered(r) \/ ApprovalFails(r) \/ CheckStale(r) \/ CheckReplace(r)
        PROVE  FlagHasNegotiator'
    BY <1>0, <1>2, <1>t, QuietKeepsFlag DEF RequestBrokered, ApprovalFails, CheckStale,
       CheckReplace, Goto, Finish, sessionVars
  <1>3. ASSUME NEW r \in Requests, CloseStale(r) \/ CloseReplace(r) \/ Timeout(r)
        PROVE  FlagHasNegotiator'
    BY <1>0, <1>3, <1>t, QuietKeepsFlag DEF CloseStale, CloseReplace, Timeout, ClosePeer,
       Goto, Finish
  <1>4. ASSUME NEW r \in Requests, Begin(r)
        PROVE  FlagHasNegotiator'
    <2>1. CASE negotiating' = negotiating
      BY <1>0, <1>4, <1>t, <2>1, QuietKeepsFlag DEF Begin, Goto, Finish
    <2>2. CASE negotiating' # negotiating
      <3>1. /\ negotiating' = negotiating \cup {target[r]} /\ target' = target
            /\ pc[r] = "begin" /\ pc' = [pc EXCEPT ![r] = "create"]
        BY <1>4, <2>2 DEF Begin, Goto
      <3> SUFFICES ASSUME NEW p \in negotiating'
                   PROVE  \E q \in Requests :
                            target'[q] = p /\ pc'[q] \in NegotiatingStages
        BY DEF FlagHasNegotiator
      <3>2. CASE p = target[r]
        BY <1>t, <3>1, <3>2
      <3>3. CASE p # target[r]
        BY <1>0, <1>t, <3>1, <3>3 DEF FlagHasNegotiator
      <3> QED BY <3>2, <3>3
    <2> QED BY <2>1, <2>2
  <1>5. ASSUME NEW r \in Requests, SendOffer(r) \/ InsertSession(r)
        PROVE  FlagHasNegotiator'
    BY <1>0, <1>5, <1>t, QuietKeepsFlag DEF SendOffer, InsertSession, Goto
  <1>6. ASSUME NEW r \in Requests, CreateFails(r) \/ EndNegotiation(r)
        PROVE  FlagHasNegotiator'
    BY <1>0, <1>6, <1>t, QuietKeepsFlag DEF CreateFails, EndNegotiation, Goto, Finish
  <1>7. ASSUME NEW r \in Requests, CheckExists(r) \/ Lookup(r) \/ Poll(r)
        PROVE  FlagHasNegotiator'
    BY <1>0, <1>7, <1>t, QuietKeepsFlag DEF CheckExists, Lookup, Poll, Goto, Finish,
       sessionVars
  <1>8. ASSUME NEW r \in Requests, Send(r) \/ SendFails(r) \/ Register(r)
        PROVE  FlagHasNegotiator'
    BY <1>0, <1>8, <1>t, QuietKeepsFlag DEF Send, SendFails, Register, Goto, Finish,
       sessionVars
  <1>9. ASSUME NEW r \in Requests, ProviderStep(r) \/ OnMessage(r)
        PROVE  FlagHasNegotiator'
    BY <1>0, <1>9, QuietKeepsFlag DEF ProviderStep, ProviderAck, ProviderChunk,
       ProviderFinal, ProviderError, Reply, OnMessage, taskVars, sessionVars
  <1>10. ASSUME NEW p \in Peers, InboundOffer(p) \/ Moderate(p)
         PROVE  FlagHasNegotiator'
    BY <1>0, <1>10, QuietKeepsFlag DEF InboundOffer, Moderate, ClosePeer, taskVars
  <1>11. ASSUME NEW s \in DOMAIN sessions,
                RouteAnswer(s) \/ ChannelOpens(s) \/ ChannelBreaks(s) \/ SessionFails(s)
         PROVE  FlagHasNegotiator'
    BY <1>0, <1>11, QuietKeepsFlag DEF RouteAnswer, ChannelOpens, ChannelBreaks,
       SessionFails, SetState, taskVars
  <1>12. ASSUME UNCHANGED vars
         PROVE  FlagHasNegotiator'
    BY <1>0, <1>12, QuietKeepsFlag DEF vars, taskVars, sessionVars
  <1> QED BY <1>1, <1>2, <1>3, <1>4, <1>5, <1>6, <1>7, <1>8, <1>9, <1>10, <1>11, <1>12
       DEF Next, TaskStep

-----------------------------------------------------------------------------
(* The response senders *)

\* Nobody loses its sender unless the caller has been told.
LEMMA QuietKeepsSender ==
    ASSUME SenderHeld,
           \A r \in Requests : pc'[r] \in TrackedStages /\ outcome'[r] = "none" =>
             /\ pc[r] \in TrackedStages /\ outcome[r] = "none"
             /\ r \in pending => r \in pending'
    PROVE  SenderHeld'
  BY DEF SenderHeld

\* Every step that takes a response sender away tells the caller, or belongs to
\* a request that is not tracked.
LEMMA SenderStep ==
    ASSUME IInv, [Next]_vars
    PROVE  SenderHeld'
  <1>0. SenderHeld
    BY DEF IInv
  <1>t. pc \in [Requests -> Stages] /\ outcome \in [Requests -> Outcomes]
    BY DEF IInv, TypeOK
  <1> USE DEF TrackedStages
  <1>1. ASSUME NEW r \in Requests, NEW p \in Peers,
               RequestDirect(r, p) \/ ConnectApproved(r, p)
        PROVE  SenderHeld'
    BY <1>0, <1>1, <1>t, QuietKeepsSender DEF RequestDirect, ConnectApproved, Goto, Finish,
       Ends, replyVars
  <1>2. ASSUME NEW r \in Requests,
               \/ RequestBrokered(r) \/ ApprovalFails(r) \/ Begin(r) \/ CreateFails(r)
               \/ Timeout(r)
        PROVE  SenderHeld'
    BY <1>0, <1>2, <1>t, QuietKeepsSender DEF RequestBrokered, ApprovalFails, Begin,
       CreateFails, Timeout, Goto, Finish, Ends
  <1>3. ASSUME NEW r \in Requests,
               \/ CheckStale(r) \/ CloseStale(r) \/ CheckReplace(r) \/ CloseReplace(r)
               \/ CheckExists(r) \/ SendOffer(r) \/ InsertSession(r) \/ EndNegotiation(r)
        PROVE  SenderHeld'
    BY <1>0, <1>3, <1>t, QuietKeepsSender DEF CheckStale, CloseStale, CheckReplace,
       CloseReplace, CheckExists, SendOffer, InsertSession, EndNegotiation, Goto, replyVars
  <1>4. ASSUME NEW r \in Requests, Lookup(r)
        PROVE  SenderHeld'
    <2>1. CASE pending' = pending /\ pc' = [pc EXCEPT ![r] = "done"]
      BY <1>0, <1>4, <1>t, <2>1, QuietKeepsSender DEF Lookup, Goto, Finish, Ends
    <2>2. CASE pending' = pending \cup {r} /\ outcome' = outcome
      <3>1. \A q \in Requests : q # r => pc'[q] = pc[q]
        BY <1>4, <1>t DEF Lookup, Goto, Finish
      <3> QED BY <1>0, <2>2, <3>1 DEF SenderHeld
    <2> QED BY <1>4, <2>1, <2>2 DEF Lookup, Goto, Finish
  <1>5. ASSUME NEW r \in Requests, Poll(r) \/ Send(r) \/ SendFails(r) \/ Register(r)
        PROVE  SenderHeld'
    BY <1>0, <1>5, <1>t, QuietKeepsSender DEF Poll, Send, SendFails, Register, Goto, Finish,
       Ends, replyVars
  <1>6. ASSUME NEW r \in Requests, ProviderStep(r)
        PROVE  SenderHeld'
    BY <1>0, <1>6, QuietKeepsSender DEF ProviderStep, ProviderAck, ProviderChunk,
       ProviderFinal, ProviderError, Reply, taskVars, replyVars
  <1>7. ASSUME NEW r \in Requests, OnMessage(r)
        PROVE  SenderHeld'
    <2>1. pc' = pc
      BY <1>7 DEF OnMessage, taskVars
    <2>2. \A q \in Requests : outcome'[q] = "none" =>
             outcome[q] = "none" /\ (q \in pending => q \in pending')
      <3>1. \/ ReportsEnd(r) \/ FailsPending(r)
            \/ pending' = pending /\ (Ends(r, "error") \/ outcome' = outcome)
        BY <1>7 DEF OnMessage, OnPlaintext, OnResponse, OnStreamChunk, FailsPending,
           replyVars
      <3> QED BY <3>1, <1>t DEF ReportsEnd, FailsPending, Ends
    <2> QED BY <1>0, <2>1, <2>2, QuietKeepsSender
  <1>8. ASSUME NEW p \in Peers, InboundOffer(p) \/ Moderate(p)
        PROVE  SenderHeld'
    BY <1>0, <1>8, QuietKeepsSender DEF InboundOffer, Moderate, taskVars, replyVars
  <1>9. ASSUME NEW s \in DOMAIN sessions,
               RouteAnswer(s) \/ ChannelOpens(s) \/ ChannelBreaks(s) \/ SessionFails(s)
        PROVE  SenderHeld'
    BY <1>0, <1>9, QuietKeepsSender DEF RouteAnswer, ChannelOpens, ChannelBreaks,
       SessionFails, SetState, taskVars, replyVars
  <1>10. ASSUME UNCHANGED vars
         PROVE  SenderHeld'
    BY <1>0, <1>10, QuietKeepsSender DEF vars, taskVars, replyVars
  <1> QED BY <1>1, <1>2, <1>3, <1>4, <1>5, <1>6, <1>7, <1>8, <1>9, <1>10
       DEF Next, TaskStep

-----------------------------------------------------------------------------
(* Replies *)

\* Who opened a session never changes, nor does the session of a request that
\* awaits its reply.
InboundKept == \A r \in Requests : pc[r] = "awaiting" /\ OverInbound(r) => OverInbound(r)'

\* The sessions of before keep their direction.
DirKept == \A i \in 1..Len(sessions) : sessions'[i].dir = sessions[i].dir

LEMMA SetStateKeepsDir ==
    ASSUME sessions \in Seq(SessionRecord), NEW i \in 1..Len(sessions), NEW st \in SessionStates,
           sessions' = [sessions EXCEPT ![i].state = st]
    PROVE  DirKept
  <1>1. sessions \in [1..Len(sessions) -> SessionRecord]
    OBVIOUS
  <1>2. \A j \in 1..Len(sessions) : sessions[j] \in SessionRecord
    BY <1>1
  <1>3. sessions'[i].dir = sessions[i].dir
    BY <1>1, <1>2 DEF SessionRecord
  <1>4. \A j \in 1..Len(sessions) : j # i => sessions'[j] = sessions[j]
    BY <1>1
  <1> QED BY <1>3, <1>4 DEF DirKept

LEMMA KeepsInbound ==
    ASSUME TypeOK, DirKept,
           \A r \in Requests : pc[r] = "awaiting" => sess'[r] = sess[r]
    PROVE  InboundKept
  BY DEF InboundKept, DirKept, OverInbound, TypeOK

\* No step changes the direction of a session, or the session of a request
\* that awaits its reply.
LEMMA InboundStays ==
    ASSUME IInv, [Next]_vars
    PROVE  InboundKept
  <1>0. TypeOK /\ TargetKnown
    BY DEF IInv
  <1>t. /\ sess \in [Requests -> 0..Len(sessions)] /\ sessions \in Seq(SessionRecord)
        /\ Len(sessions) \in Nat /\ peers \in [Peers -> 0..Len(sessions)]
    BY <1>0 DEF TypeOK
  <1>s. \A st \in {"closed", "answered", "broken", "open", "failed"} : st \in SessionStates
    BY DEF SessionStates
  <1>1. CASE UNCHANGED <<sess, sessions>>
    BY <1>0, <1>1, KeepsInbound DEF DirKept
  <1>2. ASSUME NEW r \in Requests, SendOffer(r)
        PROVE  InboundKept
    <2> DEFINE rec == [peer |-> target[r], dir |-> "out", state |-> "offered"]
    <2>1. sessions' = Append(sessions, rec) /\ pc[r] = "create" /\ sess' = [sess EXCEPT ![r] = NewSession]
      BY <1>2 DEF SendOffer
    <2> HIDE DEF rec
    <2>2. DirKept
      BY <1>t, <2>1 DEF DirKept
    <2> QED BY <1>0, <1>t, <2>1, <2>2, KeepsInbound
  <1>3. ASSUME NEW r \in Requests, Lookup(r)
        PROVE  InboundKept
    <2>1. pc[r] = "lookup" /\ sessions' = sessions
      BY <1>3 DEF Lookup, sessionVars
    <2>2. sess' = sess \/ sess' = [sess EXCEPT ![r] = peers[target[r]]]
      BY <1>3 DEF Lookup
    <2> QED BY <1>0, <1>t, <2>1, <2>2, KeepsInbound DEF DirKept
  <1>4. ASSUME NEW p \in Peers, sess' = sess,
               sessions' = IF peers[p] = 0 THEN sessions
                           ELSE [sessions EXCEPT ![peers[p]].state = "closed"]
        PROVE  InboundKept
    <2>1. CASE peers[p] = 0
      BY <1>0, <1>4, <2>1, KeepsInbound DEF DirKept
    <2>2. CASE peers[p] # 0
      <3>1. peers[p] \in 1..Len(sessions)
        BY <1>t, <2>2
      <3>2. DirKept
        BY <1>t, <1>s, <1>4, <2>2, <3>1, SetStateKeepsDir
      <3> QED BY <1>0, <1>4, <3>2, KeepsInbound
    <2> QED BY <2>1, <2>2
  <1>5. ASSUME NEW r \in Requests, CloseStale(r) \/ CloseReplace(r) \/ Timeout(r)
        PROVE  InboundKept
    <2>1. target[r] \in Peers
      BY <1>0, <1>5 DEF CloseStale, CloseReplace, Timeout, TargetKnown
    <2>2. sess' = sess
      BY <1>5 DEF CloseStale, CloseReplace, Timeout
    <2> QED BY <1>4, <1>5, <2>1, <2>2 DEF CloseStale, CloseReplace, Timeout, ClosePeer
  <1>6. ASSUME NEW p \in Peers, Moderate(p)
        PROVE  InboundKept
    BY <1>4, <1>6 DEF Moderate, ClosePeer, taskVars
  <1>7. ASSUME NEW p \in Peers, InboundOffer(p)
        PROVE  InboundKept
    <2> DEFINE rec == [peer |-> p, dir |-> "in", state |-> "answered"]
    <2>1. sessions' = Append(sessions, rec) /\ sess' = sess
      BY <1>7 DEF InboundOffer, taskVars
    <2> HIDE DEF rec
    <2>2. DirKept
      BY <1>t, <2>1 DEF DirKept
    <2> QED BY <1>0, <2>1, <2>2, KeepsInbound
  <1>8. ASSUME NEW s \in 1..Len(sessions), NEW st \in SessionStates, sess' = sess,
               sessions' = sessions \/ sessions' = [sessions EXCEPT ![s].state = st]
        PROVE  InboundKept
    <2>1. DirKept
      BY <1>t, <1>8, SetStateKeepsDir DEF DirKept
    <2> QED BY <1>0, <1>8, <2>1, KeepsInbound
  <1>9. ASSUME NEW s \in DOMAIN sessions,
               ChannelOpens(s) \/ ChannelBreaks(s) \/ SessionFails(s)
        PROVE  InboundKept
    <2>1. s \in 1..Len(sessions) /\ sess' = sess
      BY <1>t, <1>9 DEF ChannelOpens, ChannelBreaks, SessionFails, SetState, taskVars
    <2>2. \E st \in SessionStates : sessions' = [sessions EXCEPT ![s].state = st]
      BY <1>s, <1>9 DEF ChannelOpens, ChannelBreaks, SessionFails, SetState
    <2> QED BY <1>8, <2>1, <2>2
  <1>10. ASSUME NEW s \in DOMAIN sessions, RouteAnswer(s)
         PROVE  InboundKept
    <2> DEFINE cur == peers[sessions[s].peer]
    <2>1. sess' = sess
      BY <1>10 DEF RouteAnswer, taskVars
    <2>2. CASE sessions' = sessions
      BY <1>0, <2>1, <2>2, KeepsInbound DEF DirKept
    <2>3. CASE sessions' # sessions
      <3>1. cur # 0 /\ \E st \in SessionStates : sessions' = [sessions EXCEPT ![cur].state = st]
        BY <1>s, <1>10, <2>3 DEF RouteAnswer
      <3>2. sessions[s].peer \in Peers
        <4>1. s \in 1..Len(sessions)
          BY <1>t, <1>10
        <4>2. sessions[s] \in SessionRecord
          BY <1>t, <4>1
        <4> QED BY <4>2 DEF SessionRecord
      <3>3. cur \in 1..Len(sessions)
        BY <1>t, <3>1, <3>2
      <3> HIDE DEF cur
      <3> QED BY <1>8, <2>1, <3>1, <3>3
    <2> QED BY <2>2, <2>3
  <1>11. ASSUME NEW r \in Requests, NEW p \in Peers,
               RequestDirect(r, p) \/ ConnectApproved(r, p)
         PROVE  InboundKept
    BY <1>1, <1>11 DEF RequestDirect, ConnectApproved, sessionVars
  <1>12. ASSUME NEW r \in Requests,
                \/ RequestBrokered(r) \/ ApprovalFails(r)
                \/ CheckStale(r) \/ CheckReplace(r) \/ CheckExists(r)
                \/ Begin(r) \/ CreateFails(r) \/ InsertSession(r) \/ EndNegotiation(r)
         PROVE  InboundKept
    BY <1>1, <1>12 DEF RequestBrokered, ApprovalFails, CheckStale, CheckReplace, CheckExists, Begin,
       CreateFails, InsertSession, EndNegotiation, sessionVars
  <1>13. ASSUME NEW r \in Requests, Poll(r) \/ Send(r) \/ SendFails(r) \/ Register(r)
         PROVE  InboundKept
    BY <1>1, <1>13 DEF Poll, Send, SendFails, Register, sessionVars
  <1>14. ASSUME NEW r \in Requests, ProviderStep(r) \/ OnMessage(r)
         PROVE  InboundKept
    BY <1>1, <1>14 DEF ProviderStep, ProviderAck, ProviderChunk, ProviderFinal,
       ProviderError, Reply, OnMessage, taskVars, sessionVars
  <1>15. CASE UNCHANGED vars
    BY <1>1, <1>15 DEF vars, taskVars, sessionVars
  <1>16. ASSUME NEW r \in Requests, TaskStep(r)
         PROVE  InboundKept
    BY <1>2, <1>3, <1>5, <1>12, <1>13, <1>16 DEF TaskStep
  <1> QED BY <1>6, <1>7, <1>9, <1>10, <1>11, <1>12, <1>14, <1>15, <1>16 DEF Next

Replies3 == SentFirst /\ KeyedAwaits /\ SuccessFinal

\* Requests that are not yet sent stay so, and no reply, key or success is added.
LEMMA QuietKeepsReplies ==
    ASSUME Replies3, InboundKept, UNCHANGED <<inbox, prov>>, enc' \subseteq enc, streams' \subseteq streams,
           \A r \in Requests :
             /\ \/ pc'[r] = pc[r]
                \/ pc[r] \notin {"register", "awaiting"} /\ pc'[r] \notin {"register", "awaiting"}
             /\ outcome'[r] = "ok" => outcome[r] = "ok"
             /\ pc[r] = "awaiting" /\ r \in pending' => r \in pending
             /\ pc[r] = "awaiting" /\ r \in exchanges' => r \in exchanges
    PROVE  Replies3'
  <1>1. SentFirst' /\ KeyedAwaits'
    BY DEF Replies3, SentFirst, KeyedAwaits
  <1>2. ASSUME NEW r \in Requests, outcome'[r] = "ok"
        PROVE  /\ pc'[r] = "awaiting"
               /\ r \notin pending' \cup enc' \cup streams'
               /\ r \in exchanges' => ~E2EE /\ OverInbound(r)'
    <2>1. /\ outcome[r] = "ok" /\ pc[r] = "awaiting" /\ pc'[r] = "awaiting"
          /\ r \notin pending \cup enc \cup streams
          /\ r \in exchanges => ~E2EE /\ OverInbound(r)
      BY <1>2 DEF Replies3, SuccessFinal
    <2>2. OverInbound(r) => OverInbound(r)'
      BY <2>1 DEF InboundKept
    <2> QED BY <2>1, <2>2
  <1> QED BY <1>1, <1>2 DEF Replies3, SuccessFinal

\* A reply that ends well takes the request out of every map, except that of
\* the exchanges for a plaintext reply over an inbound session.
LEMMA EndLeavesNothing ==
    ASSUME SuccessFinal, InboundKept, NEW r \in Requests, pc[r] = "awaiting", pc' = pc,
           outcome \in [Requests -> Outcomes], ReportsEnd(r),
           exchanges' \subseteq exchanges,
           r \in exchanges' => ~E2EE /\ OverInbound(r),
           enc' \subseteq enc, streams' \subseteq streams, r \notin enc' \cup streams'
    PROVE  SuccessFinal'
  <1>1. r \notin pending' /\ (r \in exchanges' => ~E2EE /\ OverInbound(r)')
    BY DEF ReportsEnd, InboundKept
  <1>2. \A q \in Requests : q # r => outcome'[q] = outcome[q]
    BY DEF ReportsEnd, Ends
  <1>3. pending' \subseteq pending
    BY DEF ReportsEnd
  <1>4. ASSUME NEW q \in Requests, q # r, outcome'[q] = "ok"
        PROVE  /\ pc'[q] = "awaiting"
               /\ q \notin pending' \cup enc' \cup streams'
               /\ q \in exchanges' => ~E2EE /\ OverInbound(q)'
    BY <1>2, <1>3, <1>4 DEF SuccessFinal, InboundKept
  <1> QED BY <1>1, <1>4 DEF SuccessFinal

\* Without a new success and without a new entry nothing is left behind.
LEMMA StillFinal ==
    ASSUME SuccessFinal, InboundKept, pc' = pc,
           \A q \in Requests : outcome'[q] = "ok" => outcome[q] = "ok",
           pending' \subseteq pending, exchanges' \subseteq exchanges,
           \A q \in Requests : outcome[q] = "ok" => q \notin enc' \cup streams'
    PROVE  SuccessFinal'
  <1>1. ASSUME NEW q \in Requests, outcome'[q] = "ok"
        PROVE  /\ pc'[q] = "awaiting"
               /\ q \notin pending' \cup enc' \cup streams'
               /\ q \in exchanges' => ~E2EE /\ OverInbound(q)'
    BY <1>1 DEF SuccessFinal, InboundKept
  <1> QED BY <1>1 DEF SuccessFinal

\* A failed reply makes no request succeed.
LEMMA FailLeavesNothing ==
    ASSUME SuccessFinal, InboundKept, NEW r \in Requests, pc' = pc, exchanges' = exchanges,
           outcome \in [Requests -> Outcomes], FailsPending(r),
           enc' \subseteq enc, streams' \subseteq streams
    PROVE  SuccessFinal'
  <1>1. \A q \in Requests : outcome'[q] = "ok" => outcome[q] = "ok"
    BY DEF FailsPending, Ends
  <1>2. pending' \subseteq pending
    BY DEF FailsPending
  <1>3. \A q \in Requests : outcome[q] = "ok" => q \notin enc' \cup streams'
    BY DEF SuccessFinal
  <1> QED BY <1>1, <1>2, <1>3, StillFinal

\* Every step keeps the order of a request's life: sent, keyed, streamed, ended.
LEMMA RepliesStep ==
    ASSUME IInv, [Next]_vars
    PROVE  Replies3'
  <1>0. Replies3
    BY DEF IInv, Replies3
  <1>d. InboundKept
    BY InboundStays
  <1>t. /\ pc \in [Requests -> Stages] /\ outcome \in [Requests -> Outcomes]
        /\ prov \in [Requests -> {"none", "got", "acked", "streamed", "ended"}]
        /\ inbox \in [Requests -> Seq(Messages)]
        /\ pending \subseteq Requests /\ exchanges \subseteq Requests
        /\ enc \subseteq Requests /\ streams \subseteq Requests
    BY DEF IInv, TypeOK
  <1>1. ASSUME NEW r \in Requests, NEW p \in Peers,
               RequestDirect(r, p) \/ ConnectApproved(r, p)
        PROVE  Replies3'
    BY <1>0, <1>1, <1>t, <1>d, QuietKeepsReplies DEF RequestDirect, ConnectApproved, Goto, Finish,
       Ends, replyVars, wireVars
  <1>2. ASSUME NEW r \in Requests,
               \/ RequestBrokered(r) \/ ApprovalFails(r) \/ Begin(r) \/ CreateFails(r)
               \/ Timeout(r)
        PROVE  Replies3'
    BY <1>0, <1>2, <1>t, <1>d, QuietKeepsReplies DEF RequestBrokered, ApprovalFails, Begin,
       CreateFails, Timeout, Goto, Finish, Ends, wireVars
  <1>3. ASSUME NEW r \in Requests,
               \/ CheckStale(r) \/ CloseStale(r) \/ CheckReplace(r) \/ CloseReplace(r)
               \/ CheckExists(r) \/ SendOffer(r) \/ InsertSession(r) \/ EndNegotiation(r)
        PROVE  Replies3'
    BY <1>0, <1>3, <1>t, <1>d, QuietKeepsReplies DEF CheckStale, CloseStale, CheckReplace,
       CloseReplace, CheckExists, SendOffer, InsertSession, EndNegotiation, Goto,
       replyVars, wireVars
  <1>4. ASSUME NEW r \in Requests, Lookup(r) \/ Poll(r) \/ SendFails(r)
        PROVE  Replies3'
    BY <1>0, <1>4, <1>t, <1>d, QuietKeepsReplies DEF Lookup, Poll, SendFails, Goto, Finish, Ends,
       replyVars, wireVars
  <1>5. ASSUME NEW r \in Requests, Send(r)
        PROVE  Replies3'
    <2>1. /\ pc[r] \in {"send", "sendDelayed"} /\ prov' = [prov EXCEPT ![r] = "got"]
          /\ pc' = [pc EXCEPT ![r] = IF E2EE THEN "register" ELSE "awaiting"]
          /\ UNCHANGED <<pending, exchanges, enc, streams, outcome, inbox>>
      BY <1>5 DEF Send, Goto, replyVars
    <2>2. \A q \in Requests : q # r => pc'[q] = pc[q] /\ prov'[q] = prov[q]
      BY <1>t, <2>1
    <2>3. pc'[r] = IF E2EE THEN "register" ELSE "awaiting"
      BY <1>t, <2>1
    <2>4. SentFirst'
      BY <1>0, <2>1, <2>2, <2>3 DEF Replies3, SentFirst
    <2>5. KeyedAwaits'
      BY <1>0, <2>1, <2>2, <2>3 DEF Replies3, KeyedAwaits
    <2>6. SuccessFinal'
      <3>1. ASSUME NEW q \in Requests, outcome'[q] = "ok"
            PROVE  /\ pc'[q] = "awaiting"
                   /\ q \notin pending' \cup enc' \cup streams'
                   /\ q \in exchanges' => ~E2EE /\ OverInbound(q)'
        <4>1. q # r
          BY <1>0, <2>1, <3>1 DEF Replies3, SuccessFinal
        <4> QED BY <1>0, <1>d, <2>1, <2>2, <3>1, <4>1 DEF Replies3, SuccessFinal, InboundKept
      <3> QED BY <3>1 DEF SuccessFinal
    <2> QED BY <2>4, <2>5, <2>6 DEF Replies3
  <1>6. ASSUME NEW r \in Requests, Register(r)
        PROVE  Replies3'
    <2>1. /\ pc[r] = "register" /\ pc' = [pc EXCEPT ![r] = "awaiting"]
          /\ enc' = enc \cup {r}
          /\ UNCHANGED <<pending, exchanges, streams, outcome, inbox, prov>>
      BY <1>6 DEF Register, Goto, wireVars
    <2>2. pc'[r] = "awaiting" /\ \A q \in Requests : q # r => pc'[q] = pc[q]
      BY <1>t, <2>1
    <2>3. SentFirst' /\ KeyedAwaits'
      BY <1>0, <2>1, <2>2 DEF Replies3, SentFirst, KeyedAwaits
    <2>4. SuccessFinal'
      <3>1. ASSUME NEW q \in Requests, outcome'[q] = "ok"
            PROVE  /\ pc'[q] = "awaiting"
                   /\ q \notin pending' \cup enc' \cup streams'
                   /\ q \in exchanges' => ~E2EE /\ OverInbound(q)'
        <4>1. q # r
          BY <1>0, <2>1, <3>1 DEF Replies3, SuccessFinal
        <4> QED BY <1>0, <1>d, <2>1, <2>2, <3>1, <4>1 DEF Replies3, SuccessFinal, InboundKept
      <3> QED BY <3>1 DEF SuccessFinal
    <2> QED BY <2>3, <2>4 DEF Replies3
  <1>7. ASSUME NEW r \in Requests, ProviderStep(r)
        PROVE  Replies3'
    <2>1. PICK m \in Messages, n \in {"acked", "streamed", "ended"} :
             /\ prov[r] # "none"
             /\ prov' = [prov EXCEPT ![r] = n]
             /\ inbox' = [inbox EXCEPT ![r] = Append(@, m)]
             /\ UNCHANGED <<pc, pending, exchanges, enc, streams, outcome>>
      BY <1>7 DEF ProviderStep, ProviderAck, ProviderChunk, ProviderFinal, Streaming,
         ProviderError, Reply, Messages, taskVars, replyVars
    <2>2. SentFirst'
      BY <1>0, <1>t, <2>1 DEF Replies3, SentFirst
    <2>3. KeyedAwaits'
      BY <1>0, <2>1 DEF Replies3, KeyedAwaits
    <2>4. SuccessFinal'
      BY <1>0, <1>d, <2>1, StillFinal DEF Replies3, SuccessFinal
    <2> QED BY <2>2, <2>3, <2>4 DEF Replies3
  <1>8. ASSUME NEW r \in Requests, OnMessage(r)
        PROVE  Replies3'
    <2>1. /\ inbox[r] # <<>> /\ inbox' = [inbox EXCEPT ![r] = Tail(@)]
          /\ UNCHANGED <<pc, prov>>
      BY <1>8 DEF OnMessage, taskVars
    <2>2. pc[r] \in {"register", "awaiting"}
      BY <1>0, <2>1 DEF Replies3, SentFirst
    <2>3. SentFirst'
      BY <1>0, <1>t, <2>1, <2>2 DEF Replies3, SentFirst
    <2>4. PICK m : IF E2EE THEN OnResponse(r, m) \/ OnStreamChunk(r, m)
                           ELSE OnPlaintext(r, m)
      BY <1>8 DEF OnMessage
    <2>5. CASE ~E2EE
      <3>1. pc[r] = "awaiting"
        BY <1>0, <2>2, <2>5 DEF Replies3, SentFirst
      <3>2. OnPlaintext(r, m)
        BY <2>4, <2>5
      <3>3. KeyedAwaits'
        BY <1>0, <2>1, <3>2 DEF OnPlaintext, Replies3, KeyedAwaits
      <3>5. r \notin enc' \cup streams'
        BY <1>0, <2>5, <3>2 DEF OnPlaintext, Replies3, KeyedAwaits
      <3>4. SuccessFinal'
        <4>1. CASE UNCHANGED <<pending, exchanges, outcome>>
          BY <1>0, <1>d, <2>1, <3>2, <4>1, StillFinal DEF OnPlaintext, Replies3, SuccessFinal
        <4>2. CASE /\ ReportsEnd(r)
                   /\ exchanges' = IF OverInbound(r) THEN exchanges ELSE exchanges \ {r}
          BY <1>0, <1>d, <1>t, <2>1, <2>5, <3>1, <3>2, <3>5, <4>2, EndLeavesNothing
             DEF OnPlaintext, Replies3
        <4>3. CASE FailsPending(r) /\ UNCHANGED exchanges
          BY <1>0, <1>d, <1>t, <2>1, <3>2, <4>3, FailLeavesNothing DEF OnPlaintext, Replies3
        <4> QED BY <3>2, <4>1, <4>2, <4>3 DEF OnPlaintext
      <3> QED BY <2>3, <3>3, <3>4 DEF Replies3
    <2>6. CASE E2EE
      <3>1. CASE OnResponse(r, m) /\ m = "ack"
        <4>1. /\ streams' = (IF r \in enc THEN streams \cup {r} ELSE streams)
              /\ UNCHANGED <<enc, outcome, pending, exchanges>>
          BY <3>1 DEF OnResponse
        <4>2. KeyedAwaits'
          BY <1>0, <2>1, <4>1 DEF Replies3, KeyedAwaits
        <4>3. SuccessFinal'
          BY <1>0, <1>d, <2>1, <4>1, StillFinal DEF Replies3, SuccessFinal
        <4> QED BY <2>3, <4>2, <4>3 DEF Replies3
      <3>2. CASE OnResponse(r, m) /\ m # "ack"
        <4>1. /\ enc' = enc \ {r} /\ UNCHANGED <<streams, pending, exchanges>>
              /\ Ends(r, "error") \/ outcome' = outcome
          BY <3>2 DEF OnResponse
        <4>2. \A q \in Requests : outcome'[q] = "ok" => outcome[q] = "ok"
          BY <1>t, <4>1 DEF Ends
        <4>3. KeyedAwaits'
          BY <1>0, <2>1, <4>1 DEF Replies3, KeyedAwaits
        <4>4. SuccessFinal'
          BY <1>0, <1>d, <2>1, <4>1, <4>2, StillFinal DEF Replies3, SuccessFinal
        <4> QED BY <2>3, <4>3, <4>4 DEF Replies3
      <3>3. CASE FailsPending(r) /\ exchanges' = exchanges
                   /\ enc' \subseteq enc /\ streams' \subseteq streams
        <4>1. SuccessFinal'
          BY <1>0, <1>d, <1>t, <2>1, <3>3, FailLeavesNothing DEF Replies3
        <4> QED BY <1>0, <2>1, <2>3, <3>3, <4>1 DEF Replies3, KeyedAwaits
      <3>4. CASE UNCHANGED replyVars
        <4>1. KeyedAwaits'
          BY <1>0, <2>1, <3>4 DEF replyVars, Replies3, KeyedAwaits
        <4>2. SuccessFinal'
          BY <1>0, <1>d, <2>1, <3>4, StillFinal DEF replyVars, Replies3, SuccessFinal
        <4> QED BY <2>3, <4>1, <4>2 DEF Replies3
      <3>5. CASE r \in streams /\ ReportsEnd(r) /\ exchanges' = exchanges \ {r}
                   /\ streams' = streams \ {r} /\ enc' = enc \ {r}
        <4>1. pc[r] = "awaiting"
          BY <1>0, <3>5 DEF Replies3, KeyedAwaits
        <4>2. SuccessFinal'
          BY <1>0, <1>d, <1>t, <2>1, <3>5, <4>1, EndLeavesNothing DEF Replies3
        <4> QED BY <1>0, <2>1, <2>3, <3>5, <4>2 DEF Replies3, KeyedAwaits
      <3> QED BY <2>4, <2>6, <3>1, <3>2, <3>3, <3>4, <3>5 DEF OnStreamChunk
    <2> QED BY <2>5, <2>6
  <1>9. ASSUME NEW p \in Peers, InboundOffer(p) \/ Moderate(p)
        PROVE  Replies3'
    BY <1>0, <1>9, <1>d, QuietKeepsReplies DEF InboundOffer, Moderate, taskVars, replyVars, wireVars
  <1>10. ASSUME NEW s \in DOMAIN sessions,
                RouteAnswer(s) \/ ChannelOpens(s) \/ ChannelBreaks(s) \/ SessionFails(s)
         PROVE  Replies3'
    BY <1>0, <1>10, <1>d, QuietKeepsReplies DEF RouteAnswer, ChannelOpens, ChannelBreaks,
       SessionFails, SetState, taskVars, replyVars, wireVars
  <1>11. ASSUME UNCHANGED vars
         PROVE  Replies3'
    BY <1>0, <1>11, <1>d, QuietKeepsReplies DEF vars, taskVars, replyVars, wireVars
  <1> QED BY <1>1, <1>2, <1>3, <1>4, <1>5, <1>6, <1>7, <1>8, <1>9, <1>10, <1>11
       DEF Next, TaskStep

-----------------------------------------------------------------------------
(* The theorems *)

\* The manager starts with every map empty, so nothing is promised yet.
LEMMA InitIInv == Init => IInv
  <1> SUFFICES ASSUME Init PROVE IInv
    OBVIOUS
  <1> USE ConsumerSessionAssumption DEF Init
  <1>1. TypeOK
    BY DEF TypeOK, Stages, Outcomes
  <1>2. TargetKnown /\ PollsLeft
    BY DEF TargetKnown, PollsLeft
  <1>3. SessionMapSound /\ InsertOwns
    BY DEF SessionMapSound, InsertOwns
  <1>4. FlagHasNegotiator /\ SenderHeld
    BY DEF FlagHasNegotiator, SenderHeld, TrackedStages
  <1>5. SentFirst /\ KeyedAwaits /\ SuccessFinal
    BY DEF SentFirst, KeyedAwaits, SuccessFinal
  <1> QED BY <1>1, <1>2, <1>3, <1>4, <1>5 DEF IInv

\* The invariant holds in every reachable state of every instance.
THEOREM Inductive == Spec => []IInv
  <1>1. ASSUME IInv, [Next]_vars PROVE IInv'
    BY <1>1, StagesStep, MapStep, FlagStep, SenderStep, RepliesStep
       DEF IInv, Stages3, Replies3
  <1> QED BY <1>1, InitIInv, PTL DEF Spec

\* No closer (stale, replace, timeout, moderation) leaves a closed session, or
\* a session with another peer, as the current one of a peer; and every variable
\* of the manager keeps its type.
THEOREM SessionsCorrect == Spec => []SessionsInv
  <1>1. IInv => SessionsInv
    BY DEF IInv, SessionsInv
  <1> QED BY <1>1, Inductive, PTL

\* A peer is in negotiating_peers only while some task will still call
\* end_negotiation for it.
THEOREM FlagCorrect == Spec => []FlagHasNegotiator
  <1>1. IInv => FlagHasNegotiator
    BY DEF IInv
  <1> QED BY <1>1, Inductive, PTL

\* A request the caller has heard nothing of keeps its entry in pending_requests
\* from the moment its exchange is tracked.  One that completed has left no entry
\* in pending_requests, pending_encrypted_consumer or pending_encrypted_streams,
\* nor in active_exchanges unless it went in plaintext over a session the other
\* peer opened.
THEOREM EntriesCorrect == Spec => []EntriesInv
  <1>1. IInv => SenderHeld
    BY DEF IInv
  <1>2. IInv => SuccessLeavesNothing
    BY DEF IInv, SuccessFinal, SuccessLeavesNothing
  <1> QED BY <1>1, <1>2, Inductive, PTL DEF EntriesInv
=============================================================================
