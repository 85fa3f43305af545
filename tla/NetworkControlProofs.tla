------------------------ MODULE NetworkControlProofs ------------------------
(***************************************************************************)
(* The safety of NetworkControl for any memberships, handlers, GPU         *)
(* monitors and bounds.  Neither property is inductive.  That a settled    *)
(* manager leaves no unwanted session needs to say what is true while it   *)
(* is not settled: a session too many, or a list of memberships that is    *)
(* out of date, is never without a notification that is still to come      *)
(* (SessionsSettle).  That a pause is owned needs that a guard which is    *)
(* about to forget its pause has resumed the jobs already (PauseKnown).    *)
(*                                                                         *)
(* And of ChatProxy, for any requests, offers and replies of any length.   *)
(* Where a request goes needs what a handler that has come to a step knows *)
(* of it, by what has been on offer all along (OnItsWay).  That a reply ends*)
(* with [DONE] needs how many lines of it have one while the source has    *)
(* not ended it, and once it has (DoneSeen).                               *)
(***************************************************************************)
EXTENDS NetworkControl, ChatProxy, TLAPS, SequenceTheorems, FiniteSetTheorems,
        WellFoundedInduction

-----------------------------------------------------------------------------
(* The inductive invariant of the network switches *)

Has(plan, k) == \E i \in DOMAIN plan : plan[i] = k

\* What a writer may still have to do, and what a guard may.
Notices == {<<>>, <<"cluster">>, <<"swarm">>, <<"event">>, Both, <<"swarm", "event">>}
GuardPlans ==
    {<<>>, <<"show">>, <<"hide">>,
     <<"cluster", "swarm", "paused">>, <<"swarm", "paused">>, <<"paused">>,
     <<"cluster", "swarm", "resumed">>, <<"swarm", "resumed">>, <<"resumed">>}

\* A guard shows its banner only once it knows of its pause; the others do nothing.
Planned ==
    /\ \A t \in Tasks \ Guards : task[t] \in Notices
    /\ \A g \in Guards : /\ task[g] \in GuardPlans
                         /\ task[g] = <<"show">> => caused[g]
                         /\ g \notin scene.guards => task[g] = <<>>

\* A notification about a kind of network is in its channel, or going to be sent.
Pending(k) == queue[k] > 0 \/ Owed(k)

\* A manager that is not there has no sessions, and none works on the other's.
SessionsOwn ==
    \A k \in Kinds :
      /\ seen[k] \subseteq Of(k)
      /\ manager[k] \in {"off", "start"} => live \cap Of(k) = {}

\* A session that is switched off, and a list a manager works on that names
\* one, are always followed by a notification.
SessionsSettle ==
    failures = 0 => \A k \in Kinds :
      /\ manager[k] \in {"idle", "spawn"} => Pending(k) \/ live \cap Of(k) \subseteq cfg.conn
      /\ manager[k] \in {"reconcile", "spawn"} => Pending(k) \/ seen[k] \subseteq cfg.conn

\* The guard a pause belongs to: it has not resumed the jobs since.
Owns(g) == Has(task[g], "paused") \/ (caused[g] /\ ~Has(task[g], "resumed"))

PauseKnown ==
    clicks = 0 /\ failures = 0 /\ restarts = 0 /\ cfg.acc # cfg.joined
        => \E g \in scene.guards : Owns(g)

IInv ==
    /\ TypeOK /\ scene \in Scenes /\ Planned
    /\ SessionsOwn /\ SessionsSettle
    /\ BannerHasGuard /\ PauseKnown

-----------------------------------------------------------------------------
(* Plans *)

\* What is taken off a plan is no longer in it; the rest still is.
LEMMA TailHas ==
    ASSUME NEW S, NEW plan \in Seq(S), plan # <<>>, NEW k, Has(plan, k), k # Head(plan)
    PROVE  Has(Tail(plan), k)
  <1>1. PICK i \in DOMAIN plan : plan[i] = k
    BY DEF Has
  <1>2. i \in 1..Len(plan) /\ Len(plan) \in Nat /\ i # 1
    BY <1>1
  <1>3. i - 1 \in DOMAIN Tail(plan) /\ Tail(plan)[i - 1] = plan[i]
    BY <1>2
  <1> QED BY <1>1, <1>3 DEF Has

\* The rest of a plan names nothing new.
LEMMA HasTail ==
    ASSUME NEW S, NEW plan \in Seq(S), plan # <<>>, NEW k, Has(Tail(plan), k)
    PROVE  Has(plan, k)
  <1>1. PICK i \in DOMAIN Tail(plan) : Tail(plan)[i] = k
    BY DEF Has
  <1>2. i + 1 \in DOMAIN plan /\ plan[i + 1] = k
    BY <1>1
  <1> QED BY <1>2 DEF Has

\* A notification leaves a plan of a writer.
LEMMA NoticesTail ==
    ASSUME NEW plan \in Notices, plan # <<>>
    PROVE  Tail(plan) \in Notices
  <1>1. CASE plan \in {<<"cluster">>, <<"swarm">>, <<"event">>}
    <2>1. \A x : Tail(<<x>>) = <<>>
      OBVIOUS
    <2>2. Tail(plan) = <<>>
      BY <1>1, <2>1
    <2> QED BY <2>2 DEF Notices
  <1>2. CASE plan = Both
    BY <1>2 DEF Notices, Both
  <1>3. CASE plan = <<"swarm", "event">>
    BY <1>3 DEF Notices
  <1> QED BY <1>1, <1>2, <1>3 DEF Notices

\* A guard's plan is a pause or a resumption, never both, and a guard that is to
\* show or to hide the banner has nothing else to do.
LEMMA GuardPlanFacts ==
    ASSUME NEW plan \in GuardPlans
    PROVE  /\ plan # <<>> /\ Head(plan) \in Channels
               => Tail(plan) \in GuardPlans \ {<<>>, <<"show">>, <<"hide">>}
           /\ plan # <<>> /\ Head(plan) = "paused" => plan = <<"paused">>
           /\ plan # <<>> /\ Head(plan) = "resumed" => plan = <<"resumed">>
           /\ plan # <<>> /\ Head(plan) = "show" => plan = <<"show">>
           /\ plan # <<>> /\ Head(plan) = "hide" => plan = <<"hide">>
  <1>1. CASE plan \in {<<>>, <<"show">>, <<"hide">>, <<"paused">>, <<"resumed">>}
    BY <1>1 DEF Channels, Kinds
  <1>2. CASE plan \in {<<"swarm", "paused">>, <<"swarm", "resumed">>}
    <2>1. \A x : Tail(<<"swarm", x>>) = <<x>> /\ Head(<<"swarm", x>>) = "swarm"
      OBVIOUS
    <2>2. Tail(plan) \in {<<"paused">>, <<"resumed">>} /\ Head(plan) = "swarm"
      BY <1>2, <2>1
    <2>3. {<<"paused">>, <<"resumed">>} \subseteq GuardPlans \ {<<>>, <<"show">>, <<"hide">>}
      <3>1. \A x \in {"paused", "resumed"} : <<x>> # <<>> /\ <<x>> # <<"show">> /\ <<x>> # <<"hide">>
        <4>1. \A x, y : <<x>> = <<y>> => x = y
          OBVIOUS
        <4> QED BY <4>1
      <3> QED BY <3>1 DEF GuardPlans
    <2> QED BY <2>2, <2>3
  <1>3. CASE plan \in {<<"cluster", "swarm", "paused">>, <<"cluster", "swarm", "resumed">>}
    <2>1. CASE plan = <<"cluster", "swarm", "paused">>
      <3>1. Tail(plan) = <<"swarm", "paused">> /\ Head(plan) = "cluster"
        BY <2>1
      <3> QED BY <3>1 DEF GuardPlans
    <2>2. CASE plan = <<"cluster", "swarm", "resumed">>
      <3>1. Tail(plan) = <<"swarm", "resumed">> /\ Head(plan) = "cluster"
        BY <2>2
      <3> QED BY <3>1 DEF GuardPlans
    <2> QED BY <1>3, <2>1, <2>2
  <1> QED BY <1>1, <1>2, <1>3 DEF GuardPlans

\* What the plans of a pause and of a resumption name.
LEMMA PlanMembers ==
    /\ ~Has(<<>>, "paused") /\ ~Has(<<>>, "resumed")
    /\ Has(Append(Both, "paused"), "paused") /\ Append(Both, "paused") \in GuardPlans \ {<<>>, <<"show">>}
    /\ Append(Both, "resumed") \in GuardPlans \ {<<>>, <<"show">>}
    /\ ~Has(<<"show">>, "resumed") /\ ~Has(<<"paused">>, "resumed") /\ ~Has(<<"resumed">>, "paused")
    /\ Has(<<"resumed">>, "resumed")
    /\ \A k \in Kinds : /\ Has(Both, k)
                        /\ Has(Append(Both, "paused"), k) /\ Has(Append(Both, "resumed"), k)
  <1>1. /\ Append(Both, "paused") = <<"cluster", "swarm", "paused">>
        /\ Append(Both, "resumed") = <<"cluster", "swarm", "resumed">>
    <2> SUFFICES ASSUME NEW x \in {"paused", "resumed"}
                 PROVE  Append(<<"cluster", "swarm">>, x) = <<"cluster", "swarm", x>>
      BY DEF Both
    <2> DEFINE S == {"cluster", "swarm", x}
               s == <<"cluster", "swarm">>
               t == <<"cluster", "swarm", x>>
    <2>1. s \in Seq(S) /\ t \in Seq(S) /\ Len(s) = 2 /\ Len(t) = 3 /\ s[1] = t[1] /\ s[2] = t[2] /\ t[3] = x
      OBVIOUS
    <2>2. Append(s, x) \in Seq(S) /\ Len(Append(s, x)) = 3 /\ \A i \in 1..3 : Append(s, x)[i] = t[i]
      BY <2>1, AppendProperties
    <2>3. Append(s, x) = t
      BY <2>1, <2>2, SeqEqual
    <2> QED BY <2>3
  <1>2. Append(Both, "paused") \in GuardPlans \ {<<>>, <<"show">>}
    BY <1>1 DEF GuardPlans
  <1>3. Append(Both, "resumed") \in GuardPlans \ {<<>>, <<"show">>}
    BY <1>1 DEF GuardPlans
  <1>4. /\ ~Has(<<>>, "paused") /\ ~Has(<<>>, "resumed") /\ ~Has(<<"show">>, "resumed")
        /\ ~Has(<<"paused">>, "resumed") /\ ~Has(<<"resumed">>, "paused") /\ Has(<<"resumed">>, "resumed")
    BY DEF Has
  <1>5. /\ 1 \in DOMAIN Both /\ 2 \in DOMAIN Both /\ Both[1] = "cluster" /\ Both[2] = "swarm"
    BY DEF Both
  <1>6. \A k \in Kinds : Has(Both, k)
    BY <1>5 DEF Has, Kinds
  <1>7. ASSUME NEW p \in {"paused", "resumed"}
        PROVE  /\ 1 \in DOMAIN <<"cluster", "swarm", p>> /\ <<"cluster", "swarm", p>>[1] = "cluster"
               /\ 2 \in DOMAIN <<"cluster", "swarm", p>> /\ <<"cluster", "swarm", p>>[2] = "swarm"
               /\ 3 \in DOMAIN <<"cluster", "swarm", p>> /\ <<"cluster", "swarm", p>>[3] = p
    OBVIOUS
  <1>8. \A p \in {"paused", "resumed"} :
          /\ Has(<<"cluster", "swarm", p>>, p)
          /\ \A k \in Kinds : Has(<<"cluster", "swarm", p>>, k)
    BY <1>7 DEF Has, Kinds
  <1> QED BY <1>1, <1>2, <1>3, <1>4, <1>6, <1>8

\* A notification about a membership is about its kind.
LEMMA AboutFacts ==
    ASSUME NEW n \in Networks
    PROVE  /\ About(n) \in Notices
           /\ \A k \in Kinds : n \in Of(k) => Has(About(n), k)
  <1>1. CASE n \in Clusters
    <2>1. About(n) = <<"cluster">> /\ n \notin Swarms
      BY <1>1, NetworkControlAssumption DEF About
    <2>2. Has(<<"cluster">>, "cluster")
      BY DEF Has
    <2> QED BY <2>1, <2>2 DEF Notices, Kinds, Of
  <1>2. CASE n \notin Clusters
    <2>1. About(n) = <<"swarm", "event">>
      BY <1>2 DEF About
    <2>2. Has(<<"swarm", "event">>, "swarm")
      <3>1. 1 \in DOMAIN <<"swarm", "event">> /\ <<"swarm", "event">>[1] = "swarm"
        OBVIOUS
      <3> QED BY <3>1 DEF Has
    <2> QED BY <1>2, <2>1, <2>2 DEF Notices, Kinds, Of
  <1> QED BY <1>1, <1>2

Steps == Channels \cup {"paused", "show", "resumed", "hide"}

\* Plans are sequences of what a task may do.
LEMMA PlansType == Notices \subseteq Seq(Steps) /\ GuardPlans \subseteq Seq(Steps)
  <1>1. \A x \in Steps, y \in Steps, z \in Steps :
          <<>> \in Seq(Steps) /\ <<x>> \in Seq(Steps) /\ <<x, y>> \in Seq(Steps) /\ <<x, y, z>> \in Seq(Steps)
    OBVIOUS
  <1>2. {"cluster", "swarm", "event", "paused", "show", "resumed", "hide"} \subseteq Steps
    BY DEF Steps, Channels, Kinds
  <1>3. Notices \subseteq Seq(Steps)
    BY <1>1, <1>2 DEF Notices, Both
  <1>4. GuardPlans \subseteq Seq(Steps)
    BY <1>1, <1>2 DEF GuardPlans
  <1> QED BY <1>3, <1>4

-----------------------------------------------------------------------------
(* What a step may do to the parts of the invariant *)

\* Sessions and lists of memberships stay as they are, and so do the notifications;
\* what the configuration loses is announced.
LEMMA SettleKept ==
    ASSUME SessionsOwn, SessionsSettle, UNCHANGED managerVars,
           failures' = 0 => /\ failures = 0
                            /\ \A k \in Kinds : Pending(k) => Pending(k)'
                            /\ \A k \in Kinds : Pending(k)' \/ cfg.conn \cap Of(k) \subseteq cfg'.conn
    PROVE  SessionsOwn' /\ SessionsSettle'
  <1>1. SessionsOwn'
    BY DEF SessionsOwn, managerVars, Of
  <1>2. SessionsSettle'
    <2> SUFFICES ASSUME failures' = 0, NEW k \in Kinds
                 PROVE  /\ manager'[k] \in {"idle", "spawn"} => Pending(k)' \/ live' \cap Of(k) \subseteq cfg'.conn
                        /\ manager'[k] \in {"reconcile", "spawn"} => Pending(k)' \/ seen'[k] \subseteq cfg'.conn
      BY DEF SessionsSettle, Of
    <2>1. manager' = manager /\ seen' = seen /\ live' = live
      BY DEF managerVars
    <2>2. CASE Pending(k)'
      BY <2>2
    <2>3. CASE ~Pending(k)'
      <3>1. ~Pending(k) /\ cfg.conn \cap Of(k) \subseteq cfg'.conn /\ seen[k] \subseteq Of(k) /\ failures = 0
        BY <2>3 DEF SessionsOwn
      <3> QED BY <2>1, <3>1 DEF SessionsSettle
    <2> QED BY <2>2, <2>3
  <1> QED BY <1>1, <1>2

\* The banner stays, and no guard that will take it down forgets to.
LEMMA BannerKept ==
    ASSUME BannerHasGuard, banner'.active => banner.active,
           \A g \in Guards : caused[g] \/ task[g] = <<"hide">> => caused'[g] \/ task'[g] = <<"hide">>
    PROVE  BannerHasGuard'
  BY DEF BannerHasGuard

\* Nothing is paused, and no guard that owns a pause lets it go.
LEMMA PauseKept ==
    ASSUME PauseKnown, scene' = scene, scene \in Scenes, clicks' = 0 => clicks = 0, restarts' = 0 => restarts = 0,
           failures' = 0 => /\ failures = 0
                            /\ cfg'.acc # cfg'.joined => cfg.acc # cfg.joined
                            /\ \A g \in Guards : Owns(g) => Owns(g)'
    PROVE  PauseKnown'
  BY NetworkControlAssumption DEF PauseKnown

\* Nothing a writer or a manager knows of changes.
LEMMA AllKept ==
    ASSUME IInv, UNCHANGED <<configVars, task, scene, caused, clicks, restarts>>,
           banner'.active => banner.active
    PROVE  Planned' /\ BannerHasGuard' /\ PauseKnown'
  <1>1. Planned'
    BY DEF IInv, Planned, Tasks
  <1>2. BannerHasGuard'
    BY BannerKept DEF IInv
  <1>3. PauseKnown'
    BY DEF IInv, PauseKnown, configVars, Owns, Has
  <1> QED BY <1>1, <1>2, <1>3

\* A saved change puts its notifications on the plan of the task; a save that fails is
\* counted.
LEMMA CommitCases ==
    ASSUME IInv, scene' = scene, NEW t \in Tasks, NEW rest \in Seq(Steps), cfg' \in Config, Commit(t, rest)
    PROVE  /\ disk' \in Config /\ task' \in [Tasks -> Seq(Steps)] /\ failures' \in 0..scene'.failures
           /\ \/ failures' = failures /\ task' = [task EXCEPT ![t] = rest]
              \/ failures' > 0 /\ task' = task
  <1>1. scene.failures \in Nat /\ failures \in 0..scene.failures /\ task \in [Tasks -> Seq(Steps)] /\ disk \in Config
    BY NetworkControlAssumption DEF IInv, TypeOK, Steps
  <1>2. CASE disk' = cfg' /\ task' = [task EXCEPT ![t] = rest] /\ failures' = failures
    BY <1>1, <1>2
  <1>3. CASE failures < scene.failures /\ failures' = failures + 1 /\ disk' = disk /\ task' = task
    BY <1>1, <1>3
  <1> QED BY <1>2, <1>3 DEF Commit

\* What a task takes on does not lose a notification: it had nothing to do.
LEMMA CommitOwes ==
    ASSUME IInv, NEW t \in Tasks, Idle(t), NEW rest, task' = [task EXCEPT ![t] = rest]
    PROVE  /\ \A k : Owed(k) => Owed(k)'
           /\ \A k : Has(rest, k) => Owed(k)'
  <1>1. task' = [u \in Tasks |-> IF u = t THEN rest ELSE task[u]]
    BY DEF IInv, TypeOK
  <1>2. ASSUME NEW k, Owed(k) PROVE Owed(k)'
    <2>1. PICK u \in Tasks : Has(task[u], k)
      BY <1>2 DEF Owed, Has
    <2>2. u # t
      BY <2>1 DEF Idle, Has
    <2> QED BY <1>1, <2>1, <2>2 DEF Owed, Has
  <1>3. ASSUME NEW k, Has(rest, k) PROVE Owed(k)'
    BY <1>1, <1>3 DEF Owed, Has
  <1> QED BY <1>2, <1>3

\* A writer that announces what it switches off keeps the plans and the sessions.
LEMMA CommitKeeps ==
    ASSUME IInv, NEW t \in Tasks, Idle(t), NEW rest, cfg' \in Config, Commit(t, rest),
           IF t \in Guards THEN t \in scene.guards /\ rest \in GuardPlans \ {<<>>, <<"show">>} ELSE rest \in Notices,
           UNCHANGED <<queue, managerVars, scene, caused>>,
           \A k \in Kinds : Has(rest, k) \/ cfg.conn \cap Of(k) \subseteq cfg'.conn
    PROVE  /\ disk' \in Config /\ task' \in [Tasks -> Seq(Steps)] /\ failures' \in 0..scene'.failures
           /\ Planned' /\ SessionsOwn' /\ SessionsSettle'
           /\ \/ failures' = failures /\ task' = [task EXCEPT ![t] = rest]
              \/ failures' > 0 /\ task' = task
  <1>1. rest \in Seq(Steps)
    BY PlansType
  <1>2. /\ disk' \in Config /\ task' \in [Tasks -> Seq(Steps)] /\ failures' \in 0..scene'.failures
        /\ \/ failures' = failures /\ task' = [task EXCEPT ![t] = rest]
           \/ failures' > 0 /\ task' = task
    BY <1>1, CommitCases
  <1>3. \A u \in Tasks : task'[u] = task[u] \/ (u = t /\ task'[u] = rest)
    BY <1>2 DEF IInv, TypeOK
  <1>4. Planned'
    <2>1. ASSUME NEW u \in Tasks \ Guards PROVE task'[u] \in Notices
      BY <1>3 DEF IInv, Planned
    <2>2. ASSUME NEW g \in Guards
          PROVE  /\ task'[g] \in GuardPlans
                 /\ task'[g] = <<"show">> => caused'[g]
                 /\ g \notin scene'.guards => task'[g] = <<>>
      <3>1. g \in Tasks
        BY DEF Tasks
      <3> QED BY <1>3, <3>1 DEF IInv, Planned
    <2> QED BY <2>1, <2>2 DEF Planned, Tasks
  <1>5. SessionsOwn' /\ SessionsSettle'
    <2>1. CASE failures' > 0
      <3>1. failures' # 0
        BY <2>1
      <3> QED BY <3>1, SettleKept DEF IInv
    <2>2. CASE failures' = failures /\ task' = [task EXCEPT ![t] = rest]
      <3>1. \A k : Owed(k) => Owed(k)'
        BY <2>2, CommitOwes
      <3>2. \A k : Has(rest, k) => Owed(k)'
        BY <2>2, CommitOwes
      <3>3. \A k \in Kinds : Pending(k) => Pending(k)'
        BY <3>1 DEF Pending
      <3>4. \A k \in Kinds : Pending(k)' \/ cfg.conn \cap Of(k) \subseteq cfg'.conn
        BY <3>2 DEF Pending
      <3> QED BY <2>2, <3>3, <3>4, SettleKept DEF IInv
    <2> QED BY <1>2, <2>1, <2>2
  <1> QED BY <1>2, <1>4, <1>5

-----------------------------------------------------------------------------
(* The steps *)

\* A start has nothing to settle.
LEMMA InitInv == Init => IInv
  <1> SUFFICES ASSUME Init PROVE IInv
    OBVIOUS
  <1>1. scene \in Scenes /\ scene.joined \subseteq Networks
    BY NetworkControlAssumption DEF Init
  <1>2. StartConfig \in Config
    BY <1>1 DEF StartConfig, Config
  <1>3. TypeOK
    <2>1. task \in [Tasks -> Seq(Steps)]
      <3>1. <<>> \in Seq(Steps)
        OBVIOUS
      <3> QED BY <3>1 DEF Init
    <2>2. manager \in [Kinds -> {"off", "start", "idle", "spawn", "reconcile"}]
      BY DEF Init, Started
    <2>3. /\ queue \in [Channels -> 0..Cap] /\ over \in [Guards -> 0..(Duration + 1)]
          /\ clicks \in 0..scene.clicks /\ failures \in 0..scene.failures /\ restarts \in 0..scene.restarts
      BY <1>1, NetworkControlAssumption DEF Init
    <2>4. banner \in Banner
      BY DEF Init, NoBanner, Banner
    <2> QED BY <1>2, <2>1, <2>2, <2>3, <2>4 DEF Init, TypeOK, Steps
  <1>4. Planned
    BY DEF Init, Planned, Notices, GuardPlans, Tasks
  <1>5. SessionsOwn /\ SessionsSettle
    BY DEF Init, SessionsOwn, SessionsSettle, Started
  <1>6. BannerHasGuard /\ PauseKnown
    BY DEF Init, BannerHasGuard, PauseKnown, NoBanner, StartConfig
  <1> QED BY <1>1, <1>3, <1>4, <1>5, <1>6 DEF IInv

\* What a click leaves alone.
LEMMA ClickKeeps ==
    ASSUME IInv, NEW h \in Handlers, Click(h), NEW rest \in Notices, cfg' \in Config, Commit(h, rest),
           \A k \in Kinds : Has(rest, k) \/ cfg.conn \cap Of(k) \subseteq cfg'.conn
    PROVE  IInv'
  <1>1. /\ h \in Tasks /\ h \notin Guards /\ Idle(h)
        /\ UNCHANGED <<queue, managerVars, scene, caused, over, banner, inside, temp, guardOn, restarts>>
    BY NetworkControlAssumption DEF Tasks, Click, guardVars
  <1>2. clicks' \in 0..scene'.clicks /\ clicks' > 0
    BY NetworkControlAssumption DEF IInv, TypeOK, Click
  <1>3. /\ disk' \in Config /\ task' \in [Tasks -> Seq(Steps)] /\ failures' \in 0..scene'.failures
        /\ Planned' /\ SessionsOwn' /\ SessionsSettle'
        /\ \/ failures' = failures /\ task' = [task EXCEPT ![h] = rest]
           \/ failures' > 0 /\ task' = task
    BY <1>1, CommitKeeps
  <1>4. TypeOK'
    BY <1>1, <1>2, <1>3 DEF IInv, TypeOK, Steps, managerVars
  <1>5. BannerHasGuard'
    <2>1. ASSUME NEW g \in Guards PROVE task'[g] = task[g]
      BY <1>1, <1>3 DEF IInv, TypeOK, Tasks
    <2> QED BY <1>1, <2>1, BannerKept DEF IInv
  <1>6. PauseKnown'
    BY <1>2 DEF PauseKnown
  <1> QED BY <1>1, <1>3, <1>4, <1>5, <1>6 DEF IInv

\* Switching everything tells both managers.
LEMMA SwitchAllStep == ASSUME IInv, NEW h \in Handlers, SwitchAll(h) PROVE IInv'
  <1>1. cfg' \in Config
    BY DEF SwitchAll, IInv, TypeOK, Config
  <1>2. Both \in Notices /\ \A k \in Kinds : Has(Both, k)
    BY PlanMembers DEF Notices
  <1> QED BY <1>1, <1>2, ClickKeeps DEF SwitchAll

\* What is switched off is of the kind that is told.
LEMMA OtherKind ==
    ASSUME cfg \in Config, NEW n \in Networks, cfg.conn \ {n} \subseteq cfg'.conn
    PROVE  \A k \in Kinds : Has(About(n), k) \/ cfg.conn \cap Of(k) \subseteq cfg'.conn
  BY AboutFacts DEF Config

LEMMA SwitchOneStep == ASSUME IInv, NEW h \in Handlers, NEW n \in Networks, SwitchOne(h, n) PROVE IInv'
  <1>1. cfg \in Config
    BY DEF IInv, TypeOK
  <1>2. cfg' \in Config /\ cfg.conn \ {n} \subseteq cfg'.conn
    BY <1>1 DEF SwitchOne, Config
  <1>3. \A k \in Kinds : Has(About(n), k) \/ cfg.conn \cap Of(k) \subseteq cfg'.conn
    BY <1>1, <1>2, OtherKind
  <1> QED BY <1>2, <1>3, AboutFacts, ClickKeeps DEF SwitchOne

LEMMA JoinStep == ASSUME IInv, NEW h \in Handlers, NEW n \in Networks, Join(h, n) PROVE IInv'
  <1>1. cfg \in Config
    BY DEF IInv, TypeOK
  <1>2. cfg' \in Config /\ cfg.conn \ {n} \subseteq cfg'.conn
    BY <1>1 DEF Join, Config
  <1>3. \A k \in Kinds : Has(About(n), k) \/ cfg.conn \cap Of(k) \subseteq cfg'.conn
    BY <1>1, <1>2, OtherKind
  <1> QED BY <1>2, <1>3, AboutFacts, ClickKeeps DEF Join

LEMMA LeaveStep == ASSUME IInv, NEW h \in Handlers, NEW n \in Networks, Leave(h, n) PROVE IInv'
  <1>1. cfg \in Config
    BY DEF IInv, TypeOK
  <1>2. cfg' \in Config /\ cfg.conn \ {n} \subseteq cfg'.conn
    BY <1>1 DEF Leave, Config
  <1>3. \A k \in Kinds : Has(About(n), k) \/ cfg.conn \cap Of(k) \subseteq cfg'.conn
    BY <1>1, <1>2, OtherKind
  <1> QED BY <1>2, <1>3, AboutFacts, ClickKeeps DEF Leave

\* The scheduler switches connections, never jobs, and tells both managers.
LEMMA ScheduleStep == ASSUME IInv, ApplySchedules PROVE IInv'
  <1>1. /\ Scheduler \in Tasks /\ Scheduler \notin Guards /\ Idle(Scheduler)
        /\ UNCHANGED <<queue, managerVars, scene, caused, over, banner, inside, temp, guardOn, clicks, restarts>>
        /\ Commit(Scheduler, Both) /\ cfg'.acc = cfg.acc /\ cfg'.joined = cfg.joined
    BY NetworkControlAssumption DEF Tasks, ApplySchedules, guardVars, worldVars, IInv, TypeOK, Config
  <1>2. cfg' \in Config
    BY DEF ApplySchedules, IInv, TypeOK, Config
  <1>3. Both \in Notices /\ \A k \in Kinds : Has(Both, k)
    BY PlanMembers DEF Notices
  <1>4. /\ disk' \in Config /\ task' \in [Tasks -> Seq(Steps)] /\ failures' \in 0..scene'.failures
        /\ Planned' /\ SessionsOwn' /\ SessionsSettle'
        /\ \/ failures' = failures /\ task' = [task EXCEPT ![Scheduler] = Both]
           \/ failures' > 0 /\ task' = task
    BY <1>1, <1>2, <1>3, CommitKeeps
  <1>5. TypeOK'
    BY <1>1, <1>2, <1>4 DEF IInv, TypeOK, Steps, managerVars
  <1>6. \A g \in Guards : task'[g] = task[g]
    BY <1>1, <1>4 DEF IInv, TypeOK, Tasks
  <1>7. BannerHasGuard'
    BY <1>1, <1>6, BannerKept DEF IInv
  <1>8. PauseKnown'
    <2>1. failures' = 0 => failures = 0
      BY <1>4 DEF IInv, TypeOK
    <2>2. \A g \in Guards : Owns(g) => Owns(g)'
      BY <1>1, <1>6 DEF Owns, Has
    <2> QED BY <1>1, <2>1, <2>2, PauseKept DEF IInv
  <1> QED BY <1>1, <1>4, <1>5, <1>7, <1>8 DEF IInv

\* A notification goes from the plan of a task into its channel.
LEMMA NotifyStep == ASSUME IInv, NEW t \in Tasks, NEW k \in Channels, Notify(t, k) PROVE IInv'
  <1>1. /\ task[t] # <<>> /\ Head(task[t]) = k /\ queue[k] < Cap /\ queue' = [queue EXCEPT ![k] = @ + 1]
        /\ task' = [task EXCEPT ![t] = Tail(@)]
        /\ UNCHANGED <<configVars, managerVars, guardVars, worldVars>>
    BY DEF Notify
  <1>2. task \in [Tasks -> Seq(Steps)] /\ Tail(task[t]) \in Seq(Steps)
    BY <1>1 DEF IInv, TypeOK, Steps
  <1>3. task' = [u \in Tasks |-> IF u = t THEN Tail(task[t]) ELSE task[u]]
    BY <1>1, <1>2
  <1>4. TypeOK'
    <2>1. queue' \in [Channels -> 0..Cap]
      BY <1>1, NetworkControlAssumption DEF IInv, TypeOK
    <2>2. task' \in [Tasks -> Seq(Steps)]
      BY <1>2, <1>3
    <2> QED BY <1>1, <2>1, <2>2 DEF IInv, TypeOK, Steps, configVars, managerVars, guardVars, worldVars
  <1>5. Planned'
    <2>1. ASSUME NEW u \in Tasks \ Guards PROVE task'[u] \in Notices
      BY <1>1, <1>3, NoticesTail DEF IInv, Planned
    <2>2. ASSUME NEW g \in Guards
          PROVE  /\ task'[g] \in GuardPlans
                 /\ task'[g] = <<"show">> => caused'[g]
                 /\ g \notin scene'.guards => task'[g] = <<>>
      <3>1. g \in Tasks /\ caused' = caused /\ scene' = scene
        BY <1>1 DEF Tasks, guardVars, worldVars
      <3>2. CASE g = t
        BY <1>1, <1>3, <3>1, <3>2, GuardPlanFacts DEF IInv, Planned
      <3>3. CASE g # t
        BY <1>3, <3>1, <3>3 DEF IInv, Planned
      <3> QED BY <3>2, <3>3
    <2> QED BY <2>1, <2>2 DEF Planned, Tasks
  <1>6. ASSUME NEW u \in Tasks, NEW j, Has(task[u], j), j # k PROVE Has(task'[u], j)
    <2>1. CASE u = t
      BY <1>1, <1>2, <1>3, <1>6, <2>1, TailHas
    <2>2. CASE u # t
      BY <1>3, <1>6, <2>2
    <2> QED BY <2>1, <2>2
  <1>7. SessionsOwn' /\ SessionsSettle'
    <2>1. ASSUME NEW j \in Kinds, Pending(j) PROVE Pending(j)'
      <3>1. j \in Channels /\ queue[j] \in Nat /\ queue[k] \in Nat
        BY NetworkControlAssumption DEF Channels, IInv, TypeOK
      <3>2. CASE j = k
        <4>1. queue'[k] = queue[k] + 1
          BY <1>1, <3>1 DEF IInv, TypeOK
        <4> QED BY <3>1, <3>2, <4>1 DEF Pending
      <3>3. CASE j # k /\ queue[j] > 0
        BY <1>1, <3>1, <3>3 DEF IInv, TypeOK, Pending
      <3>4. CASE j # k /\ Owed(j)
        BY <1>6, <3>4 DEF Pending, Owed, Has
      <3> QED BY <2>1, <3>2, <3>3, <3>4 DEF Pending
    <2> QED BY <1>1, <2>1, SettleKept DEF IInv, configVars
  <1>8. BannerHasGuard'
    <2>1. ASSUME NEW g \in Guards, caused[g] \/ task[g] = <<"hide">> PROVE caused'[g] \/ task'[g] = <<"hide">>
      <3>1. g \in Tasks /\ caused' = caused
        BY <1>1 DEF Tasks, guardVars
      <3>2. Head(<<"hide">>) \notin Channels
        BY DEF Channels, Kinds
      <3> QED BY <1>1, <1>3, <2>1, <3>1, <3>2
    <2> QED BY <1>1, <2>1, BannerKept DEF IInv, guardVars
  <1>9. PauseKnown'
    <2>1. ASSUME NEW g \in Guards, Owns(g) PROVE Owns(g)'
      <3>1. g \in Tasks /\ caused' = caused /\ "paused" # k
        BY <1>1 DEF Tasks, guardVars, Channels, Kinds
      <3>2. CASE Has(task[g], "paused")
        BY <1>6, <3>1, <3>2 DEF Owns, Has
      <3>3. CASE caused[g] /\ ~Has(task[g], "resumed")
        <4>1. ~Has(task'[g], "resumed")
          BY <1>1, <1>2, <1>3, <3>1, <3>3, HasTail
        <4> QED BY <3>1, <3>3, <4>1 DEF Owns, Has
      <3> QED BY <2>1, <3>2, <3>3 DEF Owns
    <2> QED BY <1>1, <2>1, PauseKept DEF IInv, configVars, worldVars
  <1> QED BY <1>1, <1>4, <1>5, <1>7, <1>8, <1>9 DEF IInv, worldVars

\* Steps of the world, and of a guard that has nothing to do.
LEMMA WorldStep ==
    ASSUME IInv, \/ ClockTurns \/ TempChanges \/ ToggleGuard
    PROVE  IInv'
  <1>1. UNCHANGED <<configVars, task, queue, managerVars, guardVars, scene, clicks, restarts>>
    BY DEF ClockTurns, TempChanges, ToggleGuard
  <1>2. TypeOK'
    BY <1>1 DEF IInv, TypeOK, configVars, managerVars, guardVars, ClockTurns, TempChanges, ToggleGuard
  <1>3. Planned' /\ BannerHasGuard' /\ PauseKnown'
    BY <1>1, AllKept DEF guardVars
  <1>4. SessionsOwn' /\ SessionsSettle'
    BY <1>1, SettleKept DEF IInv, configVars, Pending, Owed
  <1> QED BY <1>1, <1>2, <1>3, <1>4 DEF IInv

\* After a restart there is no session, no notification and no banner.
LEMMA RestartStep == ASSUME IInv, Restart PROVE IInv'
  <1>1. scene' = scene /\ scene \in Scenes /\ task' = [t \in Tasks |-> <<>>] /\ live' = {}
        /\ manager' = Started(disk) /\ seen' = [k \in Kinds |-> {}] /\ restarts' > 0
        /\ restarts' \in 0..scene.restarts
    BY NetworkControlAssumption DEF IInv, TypeOK, Restart
  <1>2. TypeOK'
    <2>1. task' \in [Tasks -> Seq(Steps)]
      <3>1. <<>> \in Seq(Steps)
        OBVIOUS
      <3> QED BY <1>1, <3>1
    <2>2. manager' \in [Kinds -> {"off", "start", "idle", "spawn", "reconcile"}]
      BY <1>1 DEF Started
    <2>3. queue' \in [Channels -> 0..Cap] /\ over' \in [Guards -> 0..(Duration + 1)]
      BY NetworkControlAssumption DEF Restart
    <2>4. banner' \in Banner /\ caused' \in [Guards -> BOOLEAN]
      BY DEF Restart, NoBanner, Banner
    <2> QED BY <1>1, <2>1, <2>2, <2>3, <2>4 DEF Restart, IInv, TypeOK, Steps
  <1>3. Planned'
    BY <1>1 DEF Planned, Notices, GuardPlans, Tasks
  <1>4. SessionsOwn' /\ SessionsSettle'
    BY <1>1 DEF SessionsOwn, SessionsSettle, Started
  <1>5. BannerHasGuard' /\ PauseKnown'
    BY <1>1 DEF BannerHasGuard, PauseKnown, NoBanner, Restart
  <1> QED BY <1>1, <1>2, <1>3, <1>4, <1>5 DEF IInv

-----------------------------------------------------------------------------
(* The guards *)

\* A guard that switches all jobs off, or on again, and tells both managers.
LEMMA GuardCommits ==
    ASSUME IInv, NEW g \in scene.guards, Idle(g), NEW x \in {"paused", "resumed"},
           NEW jobs \in SUBSET Networks, cfg' = [cfg EXCEPT !.acc = jobs], Commit(g, Append(Both, x)),
           UNCHANGED <<queue, managerVars, worldVars, caused>>, over' \in [Guards -> 0..(Duration + 1)],
           banner' \in Banner, banner'.active => banner.active,
           x = "resumed" => jobs = cfg.joined
    PROVE  IInv'
  <1>1. g \in Guards /\ g \in Tasks /\ scene' = scene /\ cfg \in Config
    BY NetworkControlAssumption DEF IInv, Tasks, worldVars, TypeOK
  <1>2. cfg' \in Config /\ cfg'.conn = cfg.conn /\ cfg'.joined = cfg.joined /\ cfg'.acc = jobs
    BY <1>1 DEF Config
  <1>3. Append(Both, x) \in GuardPlans \ {<<>>, <<"show">>}
    BY PlanMembers
  <1>4. /\ disk' \in Config /\ task' \in [Tasks -> Seq(Steps)] /\ failures' \in 0..scene'.failures
        /\ Planned' /\ SessionsOwn' /\ SessionsSettle'
        /\ \/ failures' = failures /\ task' = [task EXCEPT ![g] = Append(Both, x)]
           \/ failures' > 0 /\ task' = task
    <2>1. \A k \in Kinds : cfg.conn \cap Of(k) \subseteq cfg'.conn
      BY <1>2
    <2> QED BY <1>1, <1>2, <1>3, <2>1, CommitKeeps
  <1>5. TypeOK'
    BY <1>2, <1>4 DEF IInv, TypeOK, Steps, managerVars, worldVars
  <1>6. ASSUME NEW j \in Guards, j # g PROVE task'[j] = task[j]
    BY <1>1, <1>4, <1>6 DEF IInv, TypeOK, Tasks
  <1>7. BannerHasGuard'
    <2>1. ASSUME NEW j \in Guards, caused[j] \/ task[j] = <<"hide">> PROVE caused'[j] \/ task'[j] = <<"hide">>
      BY <1>6, <2>1 DEF Idle
    <2> QED BY <2>1, BannerKept DEF IInv
  <1>8. PauseKnown'
    <2>1. CASE failures' > 0
      <3>1. failures' # 0
        BY <2>1
      <3> QED BY <3>1 DEF PauseKnown
    <2>2. CASE x = "resumed"
      BY <2>2, <1>2 DEF PauseKnown
    <2>3. CASE x = "paused" /\ task' = [task EXCEPT ![g] = Append(Both, x)]
      <3>1. task'[g] = Append(Both, "paused")
        BY <1>1, <2>3 DEF IInv, TypeOK
      <3>2. Owns(g)'
        BY <3>1, PlanMembers DEF Owns, Has
      <3> QED BY <1>1, <3>2 DEF PauseKnown
    <2> QED BY <1>4, <2>1, <2>2, <2>3
  <1> QED BY <1>1, <1>4, <1>5, <1>7, <1>8 DEF IInv

\* A guard that switches nothing.
LEMMA GuardRests ==
    ASSUME IInv, UNCHANGED <<configVars, task, queue, managerVars, worldVars, caused>>,
           over' \in [Guards -> 0..(Duration + 1)], banner' \in Banner, banner'.active => banner.active
    PROVE  IInv'
  <1>1. TypeOK'
    BY DEF IInv, TypeOK, configVars, managerVars, worldVars
  <1>2. Planned' /\ BannerHasGuard' /\ PauseKnown'
    BY AllKept DEF worldVars
  <1>3. SessionsOwn' /\ SessionsSettle'
    BY SettleKept DEF IInv, configVars, Pending, Owed
  <1> QED BY <1>1, <1>2, <1>3 DEF IInv, worldVars

LEMMA InactiveStep == ASSUME IInv, NEW g \in Guards, GuardInactive(g) PROVE IInv'
  <1>1. UNCHANGED <<configVars, task, queue, managerVars, worldVars, caused>> /\ banner' \in {banner, NoBanner}
    BY DEF GuardInactive, Evaluates
  <1>2. over' \in [Guards -> 0..(Duration + 1)]
    BY NetworkControlAssumption DEF GuardInactive, IInv, TypeOK
  <1>3. NoBanner \in Banner /\ ~NoBanner.active /\ banner \in Banner
    BY DEF IInv, TypeOK, NoBanner, Banner
  <1> QED BY <1>1, <1>2, <1>3, GuardRests

LEMMA WarmStep == ASSUME IInv, NEW g \in Guards, GuardWarm(g) PROVE IInv'
  <1>1. UNCHANGED <<configVars, task, queue, managerVars, worldVars, caused, banner>>
    BY DEF GuardWarm, Evaluates
  <1>2. over' \in [Guards -> 0..(Duration + 1)] /\ banner' \in Banner
    BY <1>1, NetworkControlAssumption DEF GuardWarm, IInv, TypeOK
  <1> QED BY <1>1, <1>2, GuardRests

LEMMA HotStep == ASSUME IInv, NEW g \in Guards, GuardHot(g) PROVE IInv'
  <1>1. /\ g \in scene.guards /\ Idle(g) /\ UNCHANGED <<queue, managerVars, worldVars, caused, banner>>
        /\ over' \in [Guards -> 0..(Duration + 1)] /\ banner' \in Banner
    BY NetworkControlAssumption DEF GuardHot, Evaluates, IInv, TypeOK
  <1>2. CASE over'[g] > Duration /\ ~caused[g]
    <2>1. cfg' = [cfg EXCEPT !.acc = {}] /\ Commit(g, Append(Both, "paused"))
      BY <1>2 DEF GuardHot
    <2>2. \A x \in {"paused", "resumed"}, jobs \in SUBSET Networks :
            x = "paused" /\ jobs = {} => x # "resumed"
      OBVIOUS
    <2> QED BY <1>1, <2>1, <2>2, GuardCommits
  <1>3. CASE ~(over'[g] > Duration /\ ~caused[g])
    <2>1. UNCHANGED <<configVars, task>>
      BY <1>3 DEF GuardHot
    <2> QED BY <1>1, <2>1, GuardRests
  <1> QED BY <1>2, <1>3

LEMMA CoolStep == ASSUME IInv, NEW g \in Guards, GuardCool(g) PROVE IInv'
  <1>1. /\ g \in scene.guards /\ Idle(g) /\ UNCHANGED <<queue, managerVars, worldVars, caused>>
        /\ over' \in [Guards -> 0..(Duration + 1)]
    BY NetworkControlAssumption DEF GuardCool, Evaluates, IInv, TypeOK
  <1>2. banner' \in Banner /\ (banner'.active => banner.active)
    BY DEF GuardCool, IInv, TypeOK, Banner
  <1>3. CASE caused[g] /\ scene.autoResume
    <2>1. cfg' = [cfg EXCEPT !.acc = cfg.joined] /\ Commit(g, Append(Both, "resumed"))
      BY <1>3 DEF GuardCool
    <2>2. cfg.joined \in SUBSET Networks
      BY DEF IInv, TypeOK, Config
    <2> QED BY <1>1, <1>2, <2>1, <2>2, GuardCommits
  <1>4. CASE ~(caused[g] /\ scene.autoResume)
    <2>1. UNCHANGED <<configVars, task>>
      BY <1>4 DEF GuardCool
    <2> QED BY <1>1, <1>2, <2>1, GuardRests
  <1> QED BY <1>3, <1>4

\* What a guard does after the notifications is its own: the managers get all of theirs.
LEMMA GuardMoves ==
    ASSUME IInv, NEW g \in Guards, NEW x \in {"paused", "resumed", "show", "hide"},
           task[g] # <<>>, Head(task[g]) = x, NEW next \in {<<>>, <<"show">>, <<"hide">>},
           task' = [task EXCEPT ![g] = next], UNCHANGED <<configVars, queue, managerVars, over, worldVars>>,
           caused' \in [Guards -> BOOLEAN], next = <<"show">> => caused'[g],
           \A j \in Guards : j # g => caused'[j] = caused[j], banner' \in Banner
    PROVE  /\ TypeOK' /\ Planned' /\ SessionsOwn' /\ SessionsSettle' /\ task[g] = <<x>>
           /\ \A u \in Tasks : task'[u] = IF u = g THEN next ELSE task[u]
  <1>1. g \in Tasks /\ task \in [Tasks -> Seq(Steps)] /\ scene' = scene
    BY DEF Tasks, IInv, TypeOK, Steps, worldVars
  <1>2. task[g] = <<x>> /\ g \in scene.guards
    BY GuardPlanFacts DEF IInv, Planned
  <1>3. \A u \in Tasks : task'[u] = IF u = g THEN next ELSE task[u]
    BY <1>1
  <1>4. TypeOK'
    <2>1. next \in Seq(Steps)
      BY PlansType DEF GuardPlans
    <2>2. task' \in [Tasks -> Seq(Steps)]
      BY <1>1, <2>1
    <2> QED BY <2>2 DEF IInv, TypeOK, Steps, configVars, managerVars, worldVars
  <1>5. Planned'
    <2>1. ASSUME NEW u \in Tasks \ Guards PROVE task'[u] \in Notices
      BY <1>3 DEF IInv, Planned
    <2>2. ASSUME NEW j \in Guards
          PROVE  /\ task'[j] \in GuardPlans
                 /\ task'[j] = <<"show">> => caused'[j]
                 /\ j \notin scene'.guards => task'[j] = <<>>
      <3>1. j \in Tasks
        BY DEF Tasks
      <3>2. CASE j = g
        BY <1>1, <1>2, <1>3, <3>1, <3>2 DEF GuardPlans
      <3>3. CASE j # g
        BY <1>1, <1>3, <3>1, <3>3 DEF IInv, Planned
      <3> QED BY <3>2, <3>3
    <2> QED BY <2>1, <2>2 DEF Planned, Tasks
  <1>6. SessionsOwn' /\ SessionsSettle'
    <2>1. ASSUME NEW k \in Kinds, Owed(k) PROVE Owed(k)'
      <3>1. PICK u \in Tasks : Has(task[u], k)
        BY <2>1 DEF Owed, Has
      <3>2. u # g
        <4>1. ~Has(<<x>>, k)
          BY DEF Has, Kinds
        <4> QED BY <1>2, <3>1, <4>1
      <3> QED BY <1>3, <3>1, <3>2 DEF Owed, Has
    <2>2. \A k \in Kinds : Pending(k) => Pending(k)'
      BY <2>1 DEF Pending
    <2> QED BY <2>2, SettleKept DEF IInv, configVars
  <1> QED BY <1>2, <1>3, <1>4, <1>5, <1>6

\* The pause becomes the guard's own before the banner is shown.
LEMMA PausedStep == ASSUME IInv, NEW g \in Guards, GuardPaused(g) PROVE IInv'
  <1>1. /\ task[g] # <<>> /\ Head(task[g]) = "paused" /\ task' = [task EXCEPT ![g] = <<"show">>]
        /\ caused' = [caused EXCEPT ![g] = TRUE]
        /\ UNCHANGED <<configVars, queue, managerVars, over, worldVars, banner>>
    BY DEF GuardPaused
  <1>2. /\ caused' \in [Guards -> BOOLEAN] /\ caused'[g] /\ banner' \in Banner
        /\ \A j \in Guards : j # g => caused'[j] = caused[j]
    BY <1>1 DEF IInv, TypeOK
  <1>3. /\ TypeOK' /\ Planned' /\ SessionsOwn' /\ SessionsSettle' /\ task[g] = <<"paused">>
        /\ \A u \in Tasks : task'[u] = IF u = g THEN <<"show">> ELSE task[u]
    BY <1>1, <1>2, GuardMoves
  <1>4. \A j \in Guards : j # g => task'[j] = task[j]
    BY <1>3 DEF Tasks
  <1>5. BannerHasGuard'
    BY <1>1, <1>2, <1>4, BannerKept DEF IInv
  <1>6. PauseKnown'
    <2>1. ASSUME NEW j \in Guards, Owns(j) PROVE Owns(j)'
      <3>1. CASE j # g
        BY <1>2, <1>4, <2>1, <3>1 DEF Owns, Has
      <3>2. CASE j = g
        <4>1. task'[g] = <<"show">>
          BY <1>3 DEF Tasks
        <4>2. ~Has(task'[g], "resumed")
          BY <4>1, PlanMembers
        <4> QED BY <1>2, <3>2, <4>2 DEF Owns, Has
      <3> QED BY <3>1, <3>2
    <2> QED BY <1>1, <2>1, PauseKept DEF IInv, configVars, worldVars
  <1> QED BY <1>1, <1>3, <1>5, <1>6 DEF IInv, worldVars

LEMMA ShowsStep == ASSUME IInv, NEW g \in Guards, GuardShows(g) PROVE IInv'
  <1>1. /\ task[g] # <<>> /\ Head(task[g]) = "show" /\ task' = [task EXCEPT ![g] = Tail(@)]
        /\ banner' = [active |-> TRUE, caused |-> TRUE]
        /\ UNCHANGED <<configVars, queue, managerVars, over, worldVars, caused>>
    BY DEF GuardShows
  <1>2. task[g] = <<"show">> /\ caused[g]
    BY <1>1, GuardPlanFacts DEF IInv, Planned
  <1>3. Tail(<<"show">>) = <<>>
    OBVIOUS
  <1>4. task' = [task EXCEPT ![g] = <<>>]
    BY <1>1, <1>2, <1>3
  <1>5. /\ caused' \in [Guards -> BOOLEAN] /\ banner' \in Banner
        /\ \A j \in Guards : j # g => caused'[j] = caused[j]
    BY <1>1 DEF IInv, TypeOK, Banner
  <1>6. <<>> # <<"show">>
    OBVIOUS
  <1>7. /\ TypeOK' /\ Planned' /\ SessionsOwn' /\ SessionsSettle'
        /\ \A u \in Tasks : task'[u] = IF u = g THEN <<>> ELSE task[u]
    BY <1>1, <1>4, <1>5, <1>6, GuardMoves
  <1>8. BannerHasGuard'
    BY <1>1, <1>2 DEF BannerHasGuard
  <1>9. PauseKnown'
    <2>1. ASSUME NEW j \in Guards, Owns(j) PROVE Owns(j)'
      <3>1. CASE j # g
        BY <1>1, <1>7, <2>1, <3>1 DEF Owns, Has, Tasks
      <3>2. CASE j = g
        <4>1. task'[g] = <<>>
          BY <1>7 DEF Tasks
        <4>2. ~Has(task'[g], "resumed")
          BY <4>1, PlanMembers
        <4> QED BY <1>1, <1>2, <3>2, <4>2 DEF Owns, Has
      <3> QED BY <3>1, <3>2
    <2> QED BY <1>1, <2>1, PauseKept DEF IInv, configVars, worldVars
  <1> QED BY <1>1, <1>7, <1>8, <1>9 DEF IInv, worldVars

\* What is left is the banner, and the guard knows that it hides it next.
LEMMA ResumedStep == ASSUME IInv, NEW g \in Guards, GuardResumed(g) PROVE IInv'
  <1>1. /\ task[g] # <<>> /\ Head(task[g]) = "resumed" /\ task' = [task EXCEPT ![g] = <<"hide">>]
        /\ caused' = [caused EXCEPT ![g] = FALSE]
        /\ UNCHANGED <<configVars, queue, managerVars, over, worldVars, banner>>
    BY DEF GuardResumed
  <1>2. /\ caused' \in [Guards -> BOOLEAN] /\ banner' \in Banner
        /\ \A j \in Guards : j # g => caused'[j] = caused[j]
    BY <1>1 DEF IInv, TypeOK
  <1>3. <<"hide">> # <<"show">>
    OBVIOUS
  <1>4. /\ TypeOK' /\ Planned' /\ SessionsOwn' /\ SessionsSettle' /\ task[g] = <<"resumed">>
        /\ \A u \in Tasks : task'[u] = IF u = g THEN <<"hide">> ELSE task[u]
    BY <1>1, <1>2, <1>3, GuardMoves
  <1>5. task'[g] = <<"hide">> /\ \A j \in Guards : j # g => task'[j] = task[j]
    BY <1>4 DEF Tasks
  <1>6. BannerHasGuard'
    BY <1>1, <1>2, <1>5, BannerKept DEF IInv
  <1>7. PauseKnown'
    <2>1. ~Owns(g)
      BY <1>4, PlanMembers DEF Owns
    <2>2. \A j \in Guards : Owns(j) => Owns(j)'
      BY <1>2, <1>5, <2>1 DEF Owns, Has
    <2> QED BY <1>1, <2>2, PauseKept DEF IInv, configVars, worldVars
  <1> QED BY <1>1, <1>4, <1>6, <1>7 DEF IInv, worldVars

LEMMA HidesStep == ASSUME IInv, NEW g \in Guards, GuardHides(g) PROVE IInv'
  <1>1. /\ task[g] # <<>> /\ Head(task[g]) = "hide" /\ task' = [task EXCEPT ![g] = Tail(@)]
        /\ banner' = NoBanner
        /\ UNCHANGED <<configVars, queue, managerVars, over, worldVars, caused>>
    BY DEF GuardHides
  <1>2. task[g] = <<"hide">>
    BY <1>1, GuardPlanFacts DEF IInv, Planned
  <1>3. Tail(<<"hide">>) = <<>>
    OBVIOUS
  <1>4. task' = [task EXCEPT ![g] = <<>>]
    BY <1>1, <1>2, <1>3
  <1>5. /\ caused' \in [Guards -> BOOLEAN] /\ banner' \in Banner
        /\ \A j \in Guards : j # g => caused'[j] = caused[j]
    BY <1>1 DEF IInv, TypeOK, Banner, NoBanner
  <1>6. <<>> # <<"show">>
    OBVIOUS
  <1>7. /\ TypeOK' /\ Planned' /\ SessionsOwn' /\ SessionsSettle'
        /\ \A u \in Tasks : task'[u] = IF u = g THEN <<>> ELSE task[u]
    BY <1>1, <1>4, <1>5, <1>6, GuardMoves
  <1>8. BannerHasGuard'
    BY <1>1 DEF BannerHasGuard, NoBanner
  <1>9. PauseKnown'
    <2>1. ASSUME NEW j \in Guards, Owns(j) PROVE Owns(j)'
      <3>1. CASE j # g
        BY <1>1, <1>7, <2>1, <3>1 DEF Owns, Has, Tasks
      <3>2. CASE j = g
        <4>1. task'[g] = <<>> /\ ~Has(<<"hide">>, "paused")
          BY <1>7 DEF Tasks, Has
        <4>2. ~Has(task'[g], "resumed") /\ caused[g]
          BY <1>2, <2>1, <3>2, <4>1, PlanMembers DEF Owns
        <4> QED BY <1>1, <3>2, <4>2 DEF Owns, Has
      <3> QED BY <3>1, <3>2
    <2> QED BY <1>1, <2>1, PauseKept DEF IInv, configVars, worldVars
  <1> QED BY <1>1, <1>7, <1>8, <1>9 DEF IInv, worldVars

-----------------------------------------------------------------------------
(* The managers *)

\* A step of the manager of one kind, and the end of a session, touch no plan, no
\* banner and nothing of the other kind.
LEMMA ManagerKeeps ==
    ASSUME IInv, NEW k \in Kinds, UNCHANGED <<configVars, task, guardVars, worldVars>>,
           manager' \in [Kinds -> {"off", "start", "idle", "spawn", "reconcile"}],
           seen' \in [Kinds -> SUBSET Networks], live' \subseteq Networks, queue' \in [Channels -> 0..Cap],
           \A j \in Kinds : j # k =>
             /\ manager'[j] = manager[j] /\ seen'[j] = seen[j]
             /\ live' \cap Of(j) \subseteq live \cap Of(j) /\ queue'[j] = queue[j],
           seen'[k] \subseteq Of(k), manager'[k] \in {"off", "start"} => live' \cap Of(k) = {},
           failures = 0 =>
             /\ manager'[k] \in {"idle", "spawn"} => Pending(k)' \/ live' \cap Of(k) \subseteq cfg.conn
             /\ manager'[k] \in {"reconcile", "spawn"} => Pending(k)' \/ seen'[k] \subseteq cfg.conn
    PROVE  IInv'
  <1>1. TypeOK'
    BY DEF IInv, TypeOK, configVars, guardVars, worldVars
  <1>2. Planned' /\ BannerHasGuard' /\ PauseKnown'
    BY AllKept DEF guardVars, worldVars
  <1>3. SessionsOwn'
    <2> SUFFICES ASSUME NEW j \in Kinds
                 PROVE  seen'[j] \subseteq Of(j) /\ (manager'[j] \in {"off", "start"} => live' \cap Of(j) = {})
      BY DEF SessionsOwn, Of
    <2> QED BY DEF IInv, SessionsOwn
  <1>4. SessionsSettle'
    <2> SUFFICES ASSUME failures = 0, NEW j \in Kinds
                 PROVE  /\ manager'[j] \in {"idle", "spawn"} => Pending(j)' \/ live' \cap Of(j) \subseteq cfg.conn
                        /\ manager'[j] \in {"reconcile", "spawn"} => Pending(j)' \/ seen'[j] \subseteq cfg.conn
      BY DEF SessionsSettle, Of, configVars
    <2>1. CASE j = k
      BY <2>1
    <2>2. CASE j # k
      <3>1. Pending(j) => Pending(j)'
        BY <2>2 DEF Pending, Owed
      <3> QED BY <2>2, <3>1 DEF IInv, SessionsSettle
    <2> QED BY <2>1, <2>2
  <1> QED BY <1>1, <1>2, <1>3, <1>4 DEF IInv, worldVars

\* A swarm manager that was not there starts without sessions.
LEMMA SwarmsChangedStep == ASSUME IInv, SwarmsChanged PROVE IInv'
  <1>1. /\ "swarm" \in Kinds /\ "event" \notin Kinds /\ "event" \in Channels
        /\ \A j \in Kinds : j \in Channels
    BY DEF Kinds, Channels
  <1>2. UNCHANGED <<configVars, task, seen, live, guardVars, worldVars>>
    BY DEF SwarmsChanged
  <1>3. /\ queue' \in [Channels -> 0..Cap] /\ \A j \in Kinds : queue'[j] = queue[j]
    BY <1>1, NetworkControlAssumption DEF SwarmsChanged, IInv, TypeOK
  <1>4. /\ manager' \in [Kinds -> {"off", "start", "idle", "spawn", "reconcile"}]
        /\ \A j \in Kinds : j # "swarm" => manager'[j] = manager[j]
        /\ \/ manager' = manager
           \/ manager["swarm"] = "off" /\ manager'["swarm"] = "start"
    BY <1>1 DEF SwarmsChanged, IInv, TypeOK
  <1>5. /\ seen["swarm"] \subseteq Of("swarm") /\ (manager'["swarm"] \in {"off", "start"} => live \cap Of("swarm") = {})
    BY <1>1, <1>4 DEF IInv, SessionsOwn
  <1>6. Pending("swarm") => Pending("swarm")'
    BY <1>1, <1>2, <1>3 DEF Pending, Owed
  <1>7. failures = 0 =>
          /\ manager'["swarm"] \in {"idle", "spawn"} => Pending("swarm")' \/ live' \cap Of("swarm") \subseteq cfg.conn
          /\ manager'["swarm"] \in {"reconcile", "spawn"} => Pending("swarm")' \/ seen'["swarm"] \subseteq cfg.conn
    BY <1>1, <1>2, <1>4, <1>6 DEF IInv, SessionsSettle
  <1>8. seen \in [Kinds -> SUBSET Networks] /\ live \subseteq Networks
    BY DEF IInv, TypeOK
  <1> QED BY <1>1, <1>2, <1>3, <1>4, <1>5, <1>7, <1>8, ManagerKeeps

\* Any step of a manager: to another place, with another list, with other sessions.
LEMMA ManagerStepKeeps == ASSUME IInv, NEW k \in Kinds, ManagerStep(k) PROVE IInv'
  <1>1. /\ k \in Channels /\ Of(k) \subseteq Networks
        /\ \A j \in Kinds : j \in Channels /\ (j # k => Of(j) \cap Of(k) = {})
    BY NetworkControlAssumption DEF Kinds, Channels, Of, Networks
  <1>2. /\ cfg.conn \subseteq Networks /\ live \subseteq Networks /\ seen \in [Kinds -> SUBSET Networks]
        /\ manager \in [Kinds -> {"off", "start", "idle", "spawn", "reconcile"}]
        /\ queue \in [Channels -> 0..Cap] /\ Cap \in Nat
    BY NetworkControlAssumption DEF IInv, TypeOK, Config
  <1>3. seen[k] \subseteq Of(k) /\ (manager[k] \in {"off", "start"} => live \cap Of(k) = {})
    BY DEF IInv, SessionsOwn
  <1>4. CASE Run(k)
    <2>1. /\ manager[k] = "start" /\ manager' = [manager EXCEPT ![k] = "spawn"]
          /\ seen' = [seen EXCEPT ![k] = cfg.conn \cap Of(k)]
          /\ UNCHANGED <<configVars, task, queue, live, guardVars, worldVars>>
      BY <1>4 DEF Run
    <2>2. /\ manager' \in [Kinds -> {"off", "start", "idle", "spawn", "reconcile"}] /\ manager'[k] = "spawn"
          /\ seen' \in [Kinds -> SUBSET Networks] /\ seen'[k] = cfg.conn \cap Of(k)
          /\ \A j \in Kinds : j # k => manager'[j] = manager[j] /\ seen'[j] = seen[j]
      BY <1>1, <1>2, <2>1
    <2> QED BY <1>1, <1>2, <1>3, <2>1, <2>2, ManagerKeeps
  <1>5. CASE Notified(k)
    <2>1. /\ manager' = [manager EXCEPT ![k] = "reconcile"] /\ queue[k] > 0
          /\ seen' = [seen EXCEPT ![k] = cfg.conn \cap Of(k)] /\ queue' = [queue EXCEPT ![k] = @ - 1]
          /\ UNCHANGED <<configVars, task, live, guardVars, worldVars>>
      BY <1>5 DEF Notified
    <2>2. /\ manager' \in [Kinds -> {"off", "start", "idle", "spawn", "reconcile"}] /\ manager'[k] = "reconcile"
          /\ seen' \in [Kinds -> SUBSET Networks] /\ seen'[k] = cfg.conn \cap Of(k)
          /\ queue' \in [Channels -> 0..Cap]
          /\ \A j \in Kinds : j # k => manager'[j] = manager[j] /\ seen'[j] = seen[j] /\ queue'[j] = queue[j]
      BY <1>1, <1>2, <2>1
    <2> QED BY <1>1, <1>2, <1>3, <2>1, <2>2, ManagerKeeps
  <1>6. CASE Reconcile(k)
    <2>1. PICK started \in SUBSET (seen[k] \ live) : live' = (live \ (Of(k) \ seen[k])) \cup started
      BY <1>6 DEF Reconcile
    <2>2. /\ manager[k] = "reconcile" /\ manager' = [manager EXCEPT ![k] = "idle"]
          /\ UNCHANGED <<configVars, task, queue, seen, guardVars, worldVars>>
      BY <1>6 DEF Reconcile
    <2>3. /\ manager' \in [Kinds -> {"off", "start", "idle", "spawn", "reconcile"}] /\ manager'[k] = "idle"
          /\ \A j \in Kinds : j # k => manager'[j] = manager[j]
      BY <1>1, <1>2, <2>2
    <2>4. /\ live' \subseteq Networks /\ live' \cap Of(k) \subseteq seen[k]
          /\ \A j \in Kinds : j # k => live' \cap Of(j) \subseteq live \cap Of(j)
      BY <1>1, <1>2, <1>3, <2>1
    <2>5. failures = 0 => Pending(k)' \/ live' \cap Of(k) \subseteq cfg.conn
      <3>1. failures = 0 => Pending(k) \/ seen[k] \subseteq cfg.conn
        BY <2>2 DEF IInv, SessionsSettle
      <3>2. Pending(k) => Pending(k)'
        BY <2>2 DEF Pending, Owed
      <3> QED BY <2>4, <3>1, <3>2
    <2> QED BY <1>1, <1>2, <1>3, <2>2, <2>3, <2>4, <2>5, ManagerKeeps
  <1>7. CASE Tick(k)
    <2>1. /\ manager[k] = "idle" /\ manager' = [manager EXCEPT ![k] = "spawn"]
          /\ seen' = [seen EXCEPT ![k] = cfg.conn \cap Of(k)]
          /\ UNCHANGED <<configVars, task, queue, live, guardVars, worldVars>>
      BY <1>7 DEF Tick
    <2>2. /\ manager' \in [Kinds -> {"off", "start", "idle", "spawn", "reconcile"}] /\ manager'[k] = "spawn"
          /\ seen' \in [Kinds -> SUBSET Networks] /\ seen'[k] = cfg.conn \cap Of(k)
          /\ \A j \in Kinds : j # k => manager'[j] = manager[j] /\ seen'[j] = seen[j]
      BY <1>1, <1>2, <2>1
    <2>3. failures = 0 => Pending(k)' \/ live' \cap Of(k) \subseteq cfg.conn
      <3>1. failures = 0 => Pending(k) \/ live \cap Of(k) \subseteq cfg.conn
        BY <2>1 DEF IInv, SessionsSettle
      <3>2. Pending(k) => Pending(k)'
        BY <2>1 DEF Pending, Owed
      <3> QED BY <2>1, <3>1, <3>2
    <2> QED BY <1>1, <1>2, <1>3, <2>1, <2>2, <2>3, ManagerKeeps
  <1>8. CASE Spawn(k)
    <2>1. PICK started \in SUBSET (seen[k] \ live) : live' = live \cup started
      BY <1>8 DEF Spawn
    <2>2. /\ manager[k] = "spawn" /\ manager' = [manager EXCEPT ![k] = "idle"]
          /\ UNCHANGED <<configVars, task, queue, seen, guardVars, worldVars>>
      BY <1>8 DEF Spawn
    <2>3. /\ manager' \in [Kinds -> {"off", "start", "idle", "spawn", "reconcile"}] /\ manager'[k] = "idle"
          /\ \A j \in Kinds : j # k => manager'[j] = manager[j]
      BY <1>1, <1>2, <2>2
    <2>4. /\ live' \subseteq Networks /\ live' \cap Of(k) \subseteq (live \cap Of(k)) \cup seen[k]
          /\ \A j \in Kinds : j # k => live' \cap Of(j) \subseteq live \cap Of(j)
      BY <1>1, <1>2, <1>3, <2>1
    <2>5. failures = 0 => Pending(k)' \/ live' \cap Of(k) \subseteq cfg.conn
      <3>1. failures = 0 => Pending(k) \/ (seen[k] \subseteq cfg.conn /\ live \cap Of(k) \subseteq cfg.conn)
        BY <2>2 DEF IInv, SessionsSettle
      <3>2. Pending(k) => Pending(k)'
        BY <2>2 DEF Pending, Owed
      <3> QED BY <2>4, <3>1, <3>2
    <2> QED BY <1>1, <1>2, <1>3, <2>2, <2>3, <2>4, <2>5, ManagerKeeps
  <1> QED BY <1>4, <1>5, <1>6, <1>7, <1>8 DEF ManagerStep

\* A session that ends is one less to be unwanted.
LEMMA SessionEndsStep == ASSUME IInv, NEW n \in Networks, SessionEnds(n) PROVE IInv'
  <1>1. live' \subseteq live /\ UNCHANGED <<configVars, task, queue, manager, seen, guardVars, worldVars>>
    BY DEF SessionEnds
  <1>2. "swarm" \in Kinds
    BY DEF Kinds
  <1>3. /\ seen["swarm"] \subseteq Of("swarm") /\ live \subseteq Networks /\ queue \in [Channels -> 0..Cap]
        /\ seen \in [Kinds -> SUBSET Networks] /\ manager \in [Kinds -> {"off", "start", "idle", "spawn", "reconcile"}]
        /\ (manager["swarm"] \in {"off", "start"} => live \cap Of("swarm") = {})
    BY <1>2 DEF IInv, TypeOK, SessionsOwn
  <1>4. Pending("swarm") => Pending("swarm")'
    BY <1>1 DEF Pending, Owed
  <1>5. failures = 0 =>
          /\ manager["swarm"] \in {"idle", "spawn"} => Pending("swarm")' \/ live' \cap Of("swarm") \subseteq cfg.conn
          /\ manager["swarm"] \in {"reconcile", "spawn"} => Pending("swarm")' \/ seen["swarm"] \subseteq cfg.conn
    BY <1>1, <1>2, <1>4 DEF IInv, SessionsSettle
  <1> QED BY <1>1, <1>2, <1>3, <1>5, ManagerKeeps

-----------------------------------------------------------------------------
(* Every step *)

\* No step breaks the inductive invariant.
LEMMA StepInv == IInv /\ [Next]_vars => IInv'
  <1> SUFFICES ASSUME IInv, [Next]_vars PROVE IInv'
    OBVIOUS
  <1>1. ASSUME NEW h \in Handlers, HandlerStep(h) PROVE IInv'
    BY <1>1, SwitchAllStep, SwitchOneStep, JoinStep, LeaveStep DEF HandlerStep
  <1>2. ASSUME NEW t \in Tasks, Notifies(t) PROVE IInv'
    BY <1>2, NotifyStep DEF Notifies
  <1>3. CASE ApplySchedules
    BY <1>3, ScheduleStep
  <1>4. CASE SwarmsChanged
    BY <1>4, SwarmsChangedStep
  <1>5. ASSUME NEW g \in Guards, GuardStep(g) PROVE IInv'
    BY <1>5, InactiveStep, HotStep, PausedStep, ShowsStep, WarmStep, CoolStep, ResumedStep, HidesStep
       DEF GuardStep
  <1>6. ASSUME NEW k \in Kinds, ManagerStep(k) PROVE IInv'
    BY <1>6, ManagerStepKeeps
  <1>7. ASSUME NEW n \in Networks, SessionEnds(n) PROVE IInv'
    BY <1>7, SessionEndsStep
  <1>8. CASE ClockTurns \/ TempChanges \/ ToggleGuard
    BY <1>8, WorldStep
  <1>9. CASE Restart
    BY <1>9, RestartStep
  <1>10. CASE UNCHANGED vars
    <2>1. UNCHANGED <<configVars, task, queue, managerVars, guardVars, worldVars>>
      BY <1>10 DEF vars
    <2>2. TypeOK'
      BY <2>1 DEF IInv, TypeOK, configVars, managerVars, guardVars, worldVars
    <2>3. Planned' /\ BannerHasGuard' /\ PauseKnown'
      BY <2>1, AllKept DEF guardVars, worldVars
    <2>4. SessionsOwn' /\ SessionsSettle'
      BY <2>1, SettleKept DEF IInv, configVars, Pending, Owed
    <2> QED BY <2>1, <2>2, <2>3, <2>4 DEF IInv, worldVars
  <1> QED BY <1>1, <1>2, <1>3, <1>4, <1>5, <1>6, <1>7, <1>8, <1>9, <1>10 DEF Next

\* What the inductive invariant says of a pause: its owner knows of it.
LEMMA OwnersKnow == IInv => GuardsInv
  <1> SUFFICES ASSUME IInv PROVE PauseIsOwned
    BY DEF IInv, GuardsInv
  <1>1. \A g \in scene.guards : Owns(g) => caused[g] \/ "paused" \in {task[g][i] : i \in DOMAIN task[g]}
    BY DEF Owns, Has
  <1> QED BY <1>1 DEF IInv, PauseKnown, PauseIsOwned

\* And of a manager that has nothing left to handle.
LEMMA SettledWanted == IInv => SettledSessionsWanted
  <1> SUFFICES ASSUME IInv, failures = 0, NEW k \in Kinds,
                      queue[k] = 0, manager[k] \in {"off", "idle"}, ~Owed(k)
               PROVE  live \cap Of(k) \subseteq cfg.conn
    BY DEF SettledSessionsWanted
  <1>1. ~Pending(k)
    BY DEF Pending
  <1> QED BY <1>1 DEF IInv, SessionsOwn, SessionsSettle

-----------------------------------------------------------------------------
(* Theorems about the network switches *)

\* The inductive invariant holds in every state: whatever handlers, schedules, GPU
\* monitors, managers, failing saves and restarts do, and in any order.
THEOREM NetworkInductive == Spec => []IInv
  BY InitInv, StepInv, PTL DEF Spec

\* The banner always has a guard that takes it down, and jobs that nobody but a guard
\* has paused have a guard that resumes them (gpu_thermal_guard.rs), for any number of
\* monitors.
THEOREM GuardsCorrect == Spec => []GuardsInv
  BY NetworkInductive, OwnersKnow, PTL

\* When all notifications have been handled no session runs that is not wanted
\* (cluster_manager.rs, swarm_manager.rs), however small the channels and whoever wrote
\* the configuration in the meantime.
THEOREM SettledCorrect == Spec => []SettledSessionsWanted
  BY NetworkInductive, SettledWanted, PTL

-----------------------------------------------------------------------------
(* The inductive invariant of a request to the HTTP proxy *)

Stages == {"new", "require", "ollama", "proxy", "local", "dispatch", "forward", "remote",
           "describe", "describe local", "tags", "tags of servers", "tags of networks",
           "tagged here", "tagged nowhere", "reply", "over", "failed"}
Ends == {"none", "404", "501", "502", "503", "info", "absent", "once", "twice"}
Offered == {o \in Offering : o.routed # "none" => o.routed \in o.servers}

LineKinds == {"text", "tools", "done", "bare", "other", "stop", "call", "broken", "error",
              "aborted"}
Pieces == {Words[i] : i \in DOMAIN Words} \cup {"{", "call", "damaged"}
LineType == [kind : LineKinds, content : Seq(Pieces), finish : BOOLEAN]
HeldType == [held : Seq(Pieces), hold : BOOLEAN]
CutType == [line : LineType, part : {"piece", "character", "line"}]

\* What a request is about, and where its handler stands.
Known ==
  /\ request \in Requests /\ offer \in views /\ views \subseteq Offered
  /\ changes \in Nat /\ pc \in Stages /\ target \in Places \cup Ends
  /\ pc = "reply" => target \in Places
  /\ pc \notin {"reply", "over", "failed"} =>
       sent = <<>> /\ buffer = <<>> /\ state = Released /\ ~done /\ out = <<>>

\* A handler that stands at a step has come there with a request for that step.
AtItsStep ==
  /\ pc = "require" => request.entry \in {"agent", "chat", "embed", "embeddings", "pull"}
  /\ pc = "ollama" => request.entry = "generate"
  /\ pc \in {"proxy", "local"} => request.entry \in {"chat", "generate"}
  /\ pc = "dispatch" => /\ request.entry \in {"agent", "chat", "generate"}
                        /\ \E o \in views : ~o.listed
  /\ pc = "forward" => request.entry \in {"embed", "embeddings", "pull", "show"}
  /\ pc \in {"remote", "describe", "describe local"} => request.entry = "show"
  /\ pc \in {"tags", "tags of servers", "tags of networks", "tagged here", "tagged nowhere"}
       => request.entry = "tags"

\* And with one for a model of a server all along, or of none, only where that leads.
OnItsWay ==
  /\ HostedBy("ollama") => pc \notin {"remote", "describe local"}
  /\ HostedBy("cell") =>
       /\ pc # "remote"
       /\ pc \in {"proxy", "local"} => request.entry = "generate"
       /\ pc = "forward" => \/ request.entry = "embeddings"
                            \/ request.entry = "show" /\ \E o \in views : "ollama" \in o.servers
  /\ HostedBy("ollama") \/ HostedBy("cell") => pc \notin {"tags of networks", "tagged nowhere"}
  /\ Elsewhere => /\ pc \notin {"ollama", "local", "tagged here"}
                  /\ pc = "require" => request.entry \notin {"agent", "chat"}
  /\ Elsewhere /\ Everywhere =>
       /\ pc \notin {"describe", "describe local"}
       /\ pc = "forward" => request.entry # "show"

RouteIInv == Known /\ AtItsStep /\ OnItsWay /\ SentWhereItBelongs /\ ListedAreDescribed

NoDone(lines) == \A i \in DOMAIN lines : lines[i].kind # "done"
\* The only [DONE] is the last line; the only one has at most an error behind it.
DoneLast(lines) ==
  /\ lines # <<>> /\ lines[Len(lines)].kind = "done"
  /\ \A i \in DOMAIN lines : lines[i].kind = "done" => i = Len(lines)
DoneOnce(lines) ==
  \E i \in DOMAIN lines :
    /\ lines[i].kind = "done" /\ (i = Len(lines) \/ lines[i + 1].kind = "error")
    /\ \A j \in DOMAIN lines : lines[j].kind = "done" => j = i

\* The text held back begins with its brace.
Held(s) == /\ s \in HeldType /\ (s.hold <=> s.held # <<>>)
           /\ s.hold => s.held[1] = "{"

\* A stream to an agent is rewritten, wherever it comes from.
Rewriting == request.entry = "agent" /\ request.stream

\* What has arrived of a reply, and what it was made into.
Lined ==
  /\ sent \in Seq(LineType)
  /\ buffer # <<>> =>
       /\ buffer = <<buffer[1]>> /\ buffer[1] \in CutType
       /\ sent # <<>> /\ buffer[1].line = sent[Len(sent)]
       /\ buffer[1].part = "character" => buffer[1].line.content # <<>>
  /\ IF Rewriting THEN Held(state) /\ out \in Seq(LineType) ELSE state = Released

\* The line that ends the source's reply has gone through.
Ended == buffer = <<>> /\ sent # <<>> /\ sent[Len(sent)].kind \in {"done", "bare"}
DoneSeen ==
  IF Ended
    THEN DoneLast(out) /\ state = Released /\ (done \/ (~Remote /\ sent[Len(sent)].kind = "bare"))
    ELSE NoDone(out) /\ ~done

\* A reply has its lines; one to an agent no [DONE] before its source has ended it.
ReplyIInv ==
  /\ pc = "reply" => Lined /\ (Rewriting => DoneSeen)
  /\ pc \in {"over", "failed"} => IF Rewriting THEN Held(state) ELSE state = Released
  /\ EndsWithDone

-----------------------------------------------------------------------------
(* Where a request is sent *)

LEMMA RequestKnown ==
  ASSUME request \in Requests
  PROVE  /\ request.entry \in Entries /\ request.stream \in BOOLEAN
         /\ request.offers \subseteq Offered
         /\ request.changes \in Nat /\ request.lines \in 0..Len(Words)
  BY ChatProxyAssumption DEF Offered

LEMMA ScopeIsPlace ==
  Scope = ScopeOf(offer) /\ Scope \in {"swarm", "cluster", "502"}
  BY DEF Scope, ScopeOf

\* What has been on offer all along is on offer now.
LEMMA StillOffered ==
  ASSUME Known
  PROVE  /\ HostedBy("ollama") => /\ offer.listed /\ offer.merged /\ offer.routed = "ollama"
                                  /\ "ollama" \in offer.servers
         /\ HostedBy("cell") => /\ offer.listed /\ offer.merged /\ offer.routed = "cell"
                                /\ "cell" \in offer.servers
         /\ Elsewhere => ~offer.listed /\ ~offer.merged /\ offer.routed = "none"
         /\ Everywhere => offer.network # {}
         /\ Nowhere => offer.network = {}
  BY DEF Known, Offered, HostedBy, Elsewhere, Everywhere, Nowhere

\* A step of a handler: what it is about stays, the reply has not begun.
Decides == \/ Enter \/ RequireOllama \/ RequireBackend \/ Forward
           \/ ShowRemote \/ Describe \/ DescribeLocal \/ Tags \/ TagsOfServers \/ TagsMerged
           \/ ProxyList \/ ProxyLocal \/ Dispatch

LEMMA DecidesKnown ==
  ASSUME Known, Decides
  PROVE  /\ UNCHANGED <<request, offer, changes, views, sent, buffer, state, done, out>>
         /\ pc \notin {"reply", "over", "failed"}
         /\ pc' \in Stages /\ target' \in Places \cup Ends
         /\ pc' # "failed"
         /\ pc' = "reply" => target' \in Places
         /\ pc' = "over" => target' \in Ends
         /\ pc' \notin {"reply", "over", "failed"} => target' = target
  <1>1. request.entry \in Entries
    BY RequestKnown DEF Known
  <1>2. CASE Enter
    BY <1>1, <1>2 DEF Enter, Go, End, SendTo, Reply, Known, Stages, Places, Ends, Entries, Uses
  <1>3. CASE RequireOllama \/ Forward \/ ShowRemote \/ Describe \/ DescribeLocal
    BY <1>3 DEF RequireOllama, Forward, ShowRemote, Describe, DescribeLocal, Go, End, SendTo,
                Reply, Known, Stages, Places, Ends
  <1>4. CASE RequireBackend
    BY <1>4 DEF RequireBackend, Go, End, SendTo, Reply, Known, Stages, Places, Ends
  <1>5. CASE Tags \/ TagsOfServers
    BY <1>5 DEF Tags, TagsOfServers, Go, Reply, Known, Stages
  <1>6. CASE TagsMerged
    BY <1>6 DEF TagsMerged, Times, End, Reply, Known, Stages, Ends
  <1>7. CASE ProxyList \/ ProxyLocal
    BY <1>7 DEF ProxyList, ProxyLocal, Go, End, SendTo, Reply, Known, Stages, Places, Ends
  <1>8. CASE Dispatch
    BY <1>8, ScopeIsPlace DEF Dispatch, End, SendTo, Reply, Known, Stages, Places, Ends
  <1> QED BY <1>2, <1>3, <1>4, <1>5, <1>6, <1>7, <1>8 DEF Decides

LEMMA DecidesOnItsWay ==
  ASSUME RouteIInv, Decides
  PROVE  AtItsStep' /\ OnItsWay'
  <1>1. /\ request' = request /\ offer' = offer /\ views' = views /\ offer \in views
        /\ request.entry \in Entries
    BY RequestKnown, DecidesKnown DEF RouteIInv, Known
  <1>2. /\ HostedBy("ollama")' = HostedBy("ollama") /\ HostedBy("cell")' = HostedBy("cell")
        /\ Elsewhere' = Elsewhere /\ Everywhere' = Everywhere
    BY <1>1 DEF HostedBy, Elsewhere, Everywhere
  <1>3. AtItsStep /\ OnItsWay
    BY DEF RouteIInv
  <1>4. /\ HostedBy("ollama") => /\ offer.listed /\ offer.merged /\ Routed
                                 /\ offer.routed = "ollama" /\ offer.servers # {}
                                 /\ "ollama" \in offer.servers
        /\ HostedBy("cell") => /\ offer.listed /\ offer.merged /\ Routed
                               /\ offer.routed = "cell" /\ offer.servers # {}
        /\ Elsewhere => ~offer.listed /\ ~offer.merged /\ ~Routed
        /\ Everywhere => offer.network # {}
    BY StillOffered DEF RouteIInv, Routed
  <1>5. CASE Enter
    BY <1>1, <1>2, <1>4, <1>5 DEF Enter, Go, End, AtItsStep, OnItsWay, Entries, Uses
  <1>6. CASE RequireOllama \/ Forward \/ ShowRemote \/ Describe \/ DescribeLocal
    BY <1>1, <1>2, <1>3, <1>4, <1>6 DEF RequireOllama, Forward, ShowRemote, Describe,
         DescribeLocal, Go, End, SendTo, AtItsStep, OnItsWay
  <1>7. CASE RequireBackend
    BY <1>1, <1>2, <1>3, <1>4, <1>7 DEF RequireBackend, Go, End, SendTo, AtItsStep, OnItsWay
  <1>8. CASE Tags \/ TagsOfServers \/ TagsMerged
    BY <1>1, <1>2, <1>3, <1>4, <1>8 DEF Tags, TagsOfServers, TagsMerged, Go, End, AtItsStep,
         OnItsWay
  <1>9. CASE ProxyList \/ ProxyLocal \/ Dispatch
    BY <1>1, <1>2, <1>3, <1>4, <1>9 DEF ProxyList, ProxyLocal, Dispatch, Go, End, SendTo,
         AtItsStep, OnItsWay
  <1> QED BY <1>5, <1>6, <1>7, <1>8, <1>9 DEF Decides

LEMMA DecidesArrives ==
  ASSUME RouteIInv, Decides
  PROVE  SentWhereItBelongs' /\ ListedAreDescribed'
  <1>1. /\ request' = request /\ offer' = offer /\ views' = views /\ offer \in views
        /\ request.entry \in Entries /\ pc \notin {"reply", "over", "failed"}
    BY RequestKnown, DecidesKnown DEF RouteIInv, Known
  <1> DEFINE unhidden == \A o \in views : ~o.hidden
             alone == \A o \in views : "ollama" \notin o.servers
             lacking == \E o \in views : ~o.listed
             scoped(t) == \E o \in views : t = ScopeOf(o)
  <1>2. /\ HostedBy("ollama")' = HostedBy("ollama") /\ HostedBy("cell")' = HostedBy("cell")
        /\ Elsewhere' = Elsewhere /\ Everywhere' = Everywhere /\ Nowhere' = Nowhere
    BY <1>1 DEF HostedBy, Elsewhere, Everywhere, Nowhere
  <1>3. AtItsStep /\ OnItsWay
    BY DEF RouteIInv
  <1>4. /\ HostedBy("ollama") => /\ offer.listed /\ offer.merged /\ Routed
                                 /\ offer.routed = "ollama" /\ offer.servers # {}
                                 /\ "ollama" \in offer.servers
        /\ HostedBy("cell") => /\ offer.listed /\ offer.merged /\ Routed
                               /\ offer.routed = "cell" /\ offer.servers # {}
        /\ Elsewhere => ~offer.listed /\ ~offer.merged /\ ~Routed
        /\ Everywhere => offer.network # {}
        /\ Nowhere => offer.network = {}
    BY StillOffered DEF RouteIInv, Routed
  <1>5. /\ Scope \in {"swarm", "cluster", "502"} /\ scoped(Scope)
        /\ unhidden => ~offer.hidden
        /\ alone => "ollama" \notin offer.servers
        /\ ~offer.listed => lacking
    BY <1>1, ScopeIsPlace
  <1>6. /\ pc = "dispatch" => lacking
        /\ pc = "forward" /\ HostedBy("cell") /\ request.entry = "show" => ~alone
    BY <1>3 DEF AtItsStep, OnItsWay
  <1> SUFFICES ASSUME pc' \in {"reply", "over", "failed"}
               PROVE  /\ request.entry \in Uses =>
                           /\ HostedBy("ollama") => target' = "host"
                           /\ HostedBy("cell") =>
                                /\ request.entry \in {"agent", "chat", "embeddings"} =>
                                     target' = "host"
                                /\ request.entry \in {"embed", "pull"} => target' = "501"
                                /\ request.entry = "generate" => target' \in {"spare", "503"}
                           /\ Elsewhere => IF request.entry \in {"embed", "embeddings", "pull"}
                                           THEN target' = "404" ELSE scoped(target')
                           /\ target' \in {"cluster", "swarm"} => lacking /\ scoped(target')
                      /\ request.entry = "tags" /\ unhidden =>
                           /\ \/ HostedBy("ollama") \/ HostedBy("cell")
                              \/ Elsewhere /\ Everywhere
                              => target' = "once"
                           /\ Elsewhere /\ Nowhere => target' = "absent"
                      /\ request.entry = "show" =>
                           /\ HostedBy("ollama") => target' = "host"
                           /\ HostedBy("cell") /\ alone => target' = "info"
                           /\ Elsewhere /\ Everywhere => target' = "info"
                           /\ Elsewhere /\ Nowhere => target' \in {"404", "503"}
    BY <1>1, <1>2 DEF SentWhereItBelongs, ListedAreDescribed, Decided
  <1> HIDE DEF unhidden, alone, lacking, scoped
  <1>7. CASE Enter
    BY <1>1, <1>4, <1>5, <1>7 DEF Enter, Go, End, Uses
  <1>8. CASE RequireOllama \/ Forward
    BY <1>1, <1>3, <1>4, <1>5, <1>6, <1>8 DEF RequireOllama, Forward, Go, End, SendTo, AtItsStep,
         OnItsWay, Uses
  <1>9. CASE ShowRemote \/ Describe \/ DescribeLocal
    BY <1>1, <1>3, <1>4, <1>5, <1>9 DEF ShowRemote, Describe, DescribeLocal, Go, End, AtItsStep,
         OnItsWay, Uses
  <1>10. CASE RequireBackend
    BY <1>1, <1>3, <1>4, <1>10 DEF RequireBackend, Go, End, SendTo, AtItsStep, OnItsWay, Uses
  <1>11. CASE Tags \/ TagsOfServers
    BY <1>11 DEF Tags, TagsOfServers, Go
  <1>12. CASE TagsMerged
    BY <1>1, <1>3, <1>4, <1>5, <1>12 DEF TagsMerged, Times, End, AtItsStep, OnItsWay, Uses
  <1>13. CASE ProxyList \/ ProxyLocal
    BY <1>1, <1>3, <1>4, <1>13 DEF ProxyList, ProxyLocal, Go, End, SendTo, AtItsStep, OnItsWay,
         Uses
  <1>14. CASE Dispatch
    <2>1. target' = Scope /\ pc = "dispatch"
      BY <1>14 DEF Dispatch, End, SendTo
    <2>2. scoped(target')
      BY <1>5, <2>1 DEF scoped
    <2>3. ~HostedBy("ollama") /\ ~HostedBy("cell")
      BY <1>6, <2>1 DEF lacking, HostedBy
    <2> QED BY <1>3, <1>6, <2>1, <2>2, <2>3 DEF AtItsStep, OnItsWay, Uses
  <1> QED BY <1>7, <1>8, <1>9, <1>10, <1>11, <1>12, <1>13, <1>14 DEF Decides

\* While a reply is on its way nothing of what decides where it goes changes.
Replies == Whole \/ Part \/ Rest \/ SourceEnds \/ SourceFails

LEMMA RepliesKeepRoute ==
  ASSUME RouteIInv, Replies
  PROVE  RouteIInv'
  <1>1. /\ pc = "reply" /\ pc' \in {"reply", "over", "failed"}
        /\ UNCHANGED <<request, offer, changes, views, target>>
    <2>1. CASE Whole
      BY <2>1 DEF Whole, SourceOpen, Arrive
    <2>2. CASE Part
      BY <2>2 DEF Part, SourceOpen
    <2>3. CASE Rest
      BY <2>3 DEF Rest, Arrive
    <2>4. CASE SourceEnds \/ SourceFails
      BY <2>4 DEF SourceEnds, SourceFails
    <2> QED BY <2>1, <2>2, <2>3, <2>4 DEF Replies
  <1>2. Known'
    BY <1>1 DEF RouteIInv, Known, Stages
  <1>3. AtItsStep' /\ OnItsWay'
    BY <1>1 DEF AtItsStep, OnItsWay
  <1>4. /\ Decided' = Decided
        /\ HostedBy("ollama")' = HostedBy("ollama") /\ HostedBy("cell")' = HostedBy("cell")
        /\ Elsewhere' = Elsewhere /\ Everywhere' = Everywhere /\ Nowhere' = Nowhere
    BY <1>1 DEF Decided, HostedBy, Elsewhere, Everywhere, Nowhere
  <1>5. SentWhereItBelongs'
    BY <1>1, <1>4 DEF RouteIInv, SentWhereItBelongs
  <1>6. ListedAreDescribed'
    BY <1>1, <1>4 DEF RouteIInv, ListedAreDescribed
  <1> QED BY <1>2, <1>3, <1>5, <1>6 DEF RouteIInv

\* What changes is on offer no longer all along; what has been the case once, has been.
LEMMA ChangesKeepRoute ==
  ASSUME RouteIInv, OfferChanges
  PROVE  RouteIInv'
  <1>1. /\ pc \notin {"reply", "over", "failed"} /\ changes' = changes + 1 /\ changes \in Nat
        /\ UNCHANGED <<request, pc, target, sent, buffer, state, done, out>>
        /\ offer' \in Offered /\ views' = views \cup {offer'}
    BY RequestKnown DEF OfferChanges, Reply, RouteIInv, Known, Stages, Places
  <1>2. Known'
    BY <1>1 DEF RouteIInv, Known
  <1>3. /\ HostedBy("ollama")' => HostedBy("ollama")
        /\ HostedBy("cell")' => HostedBy("cell")
        /\ Elsewhere' => Elsewhere
        /\ Everywhere' => Everywhere
    BY <1>1 DEF HostedBy, Elsewhere, Everywhere
  <1>4. AtItsStep'
    BY <1>1 DEF RouteIInv, AtItsStep
  <1>5. OnItsWay'
    BY <1>1, <1>3 DEF RouteIInv, OnItsWay
  <1>6. ~Decided'
    BY <1>1 DEF Decided
  <1> QED BY <1>2, <1>4, <1>5, <1>6 DEF RouteIInv, SentWhereItBelongs, ListedAreDescribed

LEMMA RouteStep ==
  ASSUME RouteIInv, [ChatNext]_hvars
  PROVE  RouteIInv'
  <1>1. CASE UNCHANGED hvars
    <2>1. /\ Known' /\ AtItsStep'
          /\ HostedBy("ollama")' = HostedBy("ollama") /\ HostedBy("cell")' = HostedBy("cell")
          /\ Elsewhere' = Elsewhere /\ Everywhere' = Everywhere /\ Nowhere' = Nowhere
          /\ UNCHANGED <<request, pc, target, views>>
      BY <1>1 DEF hvars, RouteIInv, Known, AtItsStep, HostedBy, Elsewhere, Everywhere, Nowhere
    <2>2. OnItsWay'
      BY <2>1 DEF RouteIInv, OnItsWay
    <2>3. SentWhereItBelongs' /\ ListedAreDescribed'
      BY <2>1 DEF RouteIInv, SentWhereItBelongs, ListedAreDescribed, Decided
    <2> QED BY <2>1, <2>2, <2>3 DEF RouteIInv
  <1>2. CASE OfferChanges
    BY <1>2, ChangesKeepRoute
  <1>3. CASE Decides
    <2>1. Known'
      BY <1>3, DecidesKnown DEF RouteIInv, Known
    <2> QED BY <1>3, <2>1, DecidesOnItsWay, DecidesArrives DEF RouteIInv
  <1>4. CASE Replies
    BY <1>4, RepliesKeepRoute
  <1> QED BY <1>1, <1>2, <1>3, <1>4 DEF ChatNext, Decides, Replies

LEMMA RouteStart == ChatInit => RouteIInv
  <1> SUFFICES ASSUME ChatInit PROVE RouteIInv
    OBVIOUS
  <1>1. Known
    BY RequestKnown DEF ChatInit, Known, Stages, Ends, Released
  <1>2. AtItsStep /\ OnItsWay /\ ~Decided
    BY DEF ChatInit, AtItsStep, OnItsWay, Decided
  <1> QED BY <1>1, <1>2 DEF RouteIInv, SentWhereItBelongs, ListedAreDescribed

-----------------------------------------------------------------------------
(* The lines of a rewritten reply *)

LEMMA PlainTyped == \A kind \in LineKinds : Plain(kind) \in LineType
  BY EmptySeq DEF Plain, LineType

LEMMA SingleLine ==
  ASSUME NEW line \in LineType
  PROVE  /\ <<line>> \in Seq(LineType) /\ Len(<<line>>) = 1 /\ <<line>>[1] = line
         /\ line.kind = "done" => DoneLast(<<line>>)
         /\ line.kind # "done" => NoDone(<<line>>)
  <1> DEFINE L == LineType
  <1> HIDE DEF L
  <1>1. line \in L
    BY DEF L
  <1>2. <<line>> \in Seq(L) /\ Len(<<line>>) = 1 /\ <<line>>[1] = line /\ DOMAIN <<line>> = {1}
    BY <1>1
  <1> QED BY <1>2 DEF NoDone, DoneLast, L

LEMMA NoLines == <<>> \in Seq(LineType) /\ NoDone(<<>>)
  BY EmptySeq DEF NoDone

LEMMA Joined ==
  ASSUME NEW s \in Seq(LineType), NEW t \in Seq(LineType)
  PROVE  /\ s \o t \in Seq(LineType)
         /\ NoDone(s) /\ NoDone(t) => NoDone(s \o t)
         /\ NoDone(s) /\ DoneLast(t) => DoneLast(s \o t)
  <1> DEFINE L == LineType
  <1>0. s \in Seq(L) /\ t \in Seq(L)
    OBVIOUS
  <1> HIDE DEF L
  <1>1. /\ s \o t \in Seq(L) /\ Len(s \o t) = Len(s) + Len(t)
        /\ \A i \in 1..(Len(s) + Len(t)) :
             (s \o t)[i] = IF i <= Len(s) THEN s[i] ELSE t[i - Len(s)]
    BY <1>0, ConcatProperties
  <1>2. /\ Len(s) \in Nat /\ Len(t) \in Nat /\ DOMAIN s = 1..Len(s) /\ DOMAIN t = 1..Len(t)
        /\ DOMAIN (s \o t) = 1..(Len(s) + Len(t))
    BY <1>0, <1>1, LenProperties
  <1>3. t # <<>> => Len(t) > 0 /\ s \o t # <<>>
    BY <1>0, <1>1, <1>2, EmptySeq
  <1>4. NoDone(s) /\ NoDone(t) => NoDone(s \o t)
    BY <1>1, <1>2 DEF NoDone
  <1>5. ASSUME NoDone(s), DoneLast(t) PROVE DoneLast(s \o t)
    <2>1. Len(t) > 0 /\ s \o t # <<>> /\ (s \o t)[Len(s \o t)] = t[Len(t)]
      BY <1>1, <1>2, <1>3, <1>5 DEF DoneLast
    <2>2. ASSUME NEW i \in 1..(Len(s) + Len(t)), (s \o t)[i].kind = "done"
          PROVE  i = Len(s \o t)
      <3>1. i > Len(s) /\ (s \o t)[i] = t[i - Len(s)]
        BY <1>1, <1>2, <1>5, <2>2 DEF NoDone
      <3>2. i - Len(s) \in DOMAIN t /\ t[i - Len(s)].kind = "done"
        BY <1>2, <2>2, <3>1
      <3> QED BY <1>1, <1>2, <1>5, <3>2 DEF DoneLast
    <2> QED BY <1>2, <1>5, <2>1, <2>2 DEF DoneLast
  <1> QED BY <1>1, <1>4, <1>5 DEF L

\* Whatever stands before a last [DONE].
LEMMA EndsInDone ==
  ASSUME NEW s \in Seq(LineType), NEW t \in Seq(LineType), DoneLast(t)
  PROVE  s \o t \in Seq(LineType) /\ s \o t # <<>> /\ (s \o t)[Len(s \o t)].kind = "done"
  <1> DEFINE L == LineType
  <1>0. s \in Seq(L) /\ t \in Seq(L)
    OBVIOUS
  <1> HIDE DEF L
  <1>1. /\ s \o t \in Seq(L) /\ Len(s \o t) = Len(s) + Len(t)
        /\ \A i \in 1..(Len(s) + Len(t)) :
             (s \o t)[i] = IF i <= Len(s) THEN s[i] ELSE t[i - Len(s)]
    BY <1>0, ConcatProperties
  <1>2. Len(s) \in Nat /\ Len(t) \in Nat \ {0}
    BY <1>0, LenProperties, EmptySeq DEF DoneLast
  <1>3. (s \o t)[Len(s \o t)] = t[Len(t)] /\ s \o t # <<>>
    BY <1>0, <1>1, <1>2, EmptySeq
  <1> QED BY <1>1, <1>3 DEF DoneLast, L

LEMMA LastIsOnce ==
  ASSUME NEW s \in Seq(LineType), DoneLast(s)
  PROVE  DoneOnce(s) /\ DoneOnce(s \o <<Plain("error")>>)
  <1> DEFINE L == LineType
  <1> DEFINE e == Plain("error")
  <1>0. s \in Seq(L) /\ <<e>> \in Seq(L) /\ Len(<<e>>) = 1 /\ <<e>>[1] = e
    BY SingleLine, PlainTyped DEF LineKinds
  <1>e. e.kind = "error"
    BY DEF Plain
  <1> HIDE DEF L, e
  <1>1. /\ s \o <<e>> \in Seq(L) /\ Len(s \o <<e>>) = Len(s) + 1
        /\ \A i \in 1..(Len(s) + 1) :
             (s \o <<e>>)[i] = IF i <= Len(s) THEN s[i] ELSE <<e>>[i - Len(s)]
    BY <1>0, ConcatProperties
  <1>2. /\ Len(s) \in Nat /\ Len(s) > 0 /\ DOMAIN s = 1..Len(s)
        /\ DOMAIN (s \o <<e>>) = 1..(Len(s) + 1)
    BY <1>0, <1>1, LenProperties, EmptySeq DEF DoneLast
  <1>3. DoneOnce(s)
    BY <1>2 DEF DoneOnce, DoneLast
  <1>4. (s \o <<e>>)[Len(s) + 1] = e /\ \A i \in 1..Len(s) : (s \o <<e>>)[i] = s[i]
    BY <1>0, <1>1, <1>2
  <1>5. /\ (s \o <<e>>)[Len(s)].kind = "done" /\ (s \o <<e>>)[Len(s) + 1].kind = "error"
        /\ \A j \in 1..(Len(s) + 1) : (s \o <<e>>)[j].kind = "done" => j = Len(s)
    <2>1. s[Len(s)].kind = "done" /\ \A i \in 1..Len(s) : s[i].kind = "done" => i = Len(s)
      BY <1>2 DEF DoneLast
    <2>2. (s \o <<e>>)[Len(s)].kind = "done" /\ (s \o <<e>>)[Len(s) + 1].kind = "error"
      <3>1. Len(s) \in 1..Len(s)
        BY <1>2
      <3>2. (s \o <<e>>)[Len(s)] = s[Len(s)]
        BY <1>4, <3>1
      <3> QED BY <1>e, <1>4, <2>1, <3>2
    <2>3. ASSUME NEW j \in 1..(Len(s) + 1), (s \o <<e>>)[j].kind = "done"
          PROVE  j = Len(s)
      <3>1. j # Len(s) + 1
        BY <2>2, <2>3
      <3>2. j \in 1..Len(s)
        BY <1>2, <3>1
      <3> QED BY <1>4, <2>1, <2>3, <3>2
    <2> QED BY <2>2, <2>3
  <1>6. DoneOnce(s \o <<e>>)
    <2>1. Len(s) \in DOMAIN (s \o <<e>>)
      BY <1>2
    <2> QED BY <1>2, <1>5, <2>1 DEF DoneOnce
  <1> QED BY <1>3, <1>6 DEF e

\* A set of natural numbers that is not empty has a least one.
LEMMA Least ==
  ASSUME NEW T \in SUBSET Nat, T # {}
  PROVE  \E x \in T : \A y \in T : x <= y
  <1> DEFINE R == {ss \in Nat \X Nat : ss[1] < ss[2]}
  <1>1. IsWellFoundedOn(R, Nat)
    BY NatLessThanWellFounded DEF OpToRel
  <1> HIDE DEF R
  <1>2. PICK x \in T : \A y \in T : ~ (<<y, x>> \in R)
    BY <1>1, WFMin
  <1>3. \A y \in T : ~(y < x)
    BY <1>2 DEF R
  <1> QED BY <1>2, <1>3

LEMMA Answered ==
  ASSUME NEW s, NEW lines, NEW answer, answer = Answer(s, lines)
  PROVE  answer.state = s /\ answer.lines = lines
  BY DEF Answer

LEMMA FirstOf ==
  ASSUME NEW P, NEW c \in Seq(P), NEW a, NEW n \in DOMAIN c, c[n] = a
  PROVE  \E i \in 1..Len(c) : c[i] = a /\ \A j \in 1..(i - 1) : c[j] # a
  <1> DEFINE T == {i \in 1..Len(c) : c[i] = a}
  <1>1. DOMAIN c = 1..Len(c) /\ Len(c) \in Nat
    BY LenProperties
  <1>2. T \in SUBSET Nat /\ n \in T
    BY <1>1
  <1>3. PICK x \in T : \A y \in T : x <= y
    BY <1>2, Least
  <1>4. x \in 1..Len(c) /\ c[x] = a
    OBVIOUS
  <1>5. ASSUME NEW j \in 1..(x - 1), c[j] = a PROVE FALSE
    <2>1. j \in 1..Len(c) /\ j < x
      BY <1>1, <1>4
    <2>2. x <= j
      BY <1>3, <1>5, <2>1
    <2> QED BY <1>1, <1>4, <2>1, <2>2
  <1> QED BY <1>4, <1>5

LEMMA Parted ==
  ASSUME NEW P, NEW c \in Seq(P), NEW b \in 1..Len(c)
  PROVE  /\ SubSeq(c, 1, b - 1) \in Seq(P) /\ SubSeq(c, b, Len(c)) \in Seq(P)
         /\ SubSeq(c, b, Len(c)) # <<>> /\ SubSeq(c, b, Len(c))[1] = c[b]
  <1>1. Len(c) \in Nat /\ \A i \in 1..Len(c) : c[i] \in P
    BY LenProperties, ElementOfSeq
  <1>2. /\ b \in Int /\ b - 1 \in Int /\ Len(c) \in Int
        /\ \A i \in 1..(b - 1) : c[i] \in P
        /\ \A i \in b..Len(c) : c[i] \in P
    BY <1>1
  <1>3. SubSeq(c, 1, b - 1) \in Seq(P)
    BY <1>2, SubSeqProperties
  <1>4. /\ SubSeq(c, b, Len(c)) \in Seq(P)
        /\ Len(SubSeq(c, b, Len(c))) = IF b <= Len(c) THEN Len(c) - b + 1 ELSE 0
        /\ \A i \in 1..(Len(c) - b + 1) : SubSeq(c, b, Len(c))[i] = c[b + i - 1]
    BY <1>2, SubSeqProperties
  <1>5. 1 \in 1..(Len(c) - b + 1) /\ b + 1 - 1 = b /\ Len(SubSeq(c, b, Len(c))) # 0
    BY <1>1, <1>4
  <1>6. SubSeq(c, b, Len(c))[1] = c[b + 1 - 1]
    BY <1>4, <1>5
  <1> QED BY <1>3, <1>4, <1>5, <1>6, EmptySeq

LEMMA Longer ==
  ASSUME NEW P, NEW c \in Seq(P), NEW d \in Seq(P), c # <<>>
  PROVE  /\ c \o d \in Seq(P) /\ c \o d # <<>> /\ (c \o d)[1] = c[1]
  <1>1. /\ c \o d \in Seq(P) /\ Len(c \o d) = Len(c) + Len(d)
        /\ \A i \in 1..(Len(c) + Len(d)) : (c \o d)[i] = IF i <= Len(c) THEN c[i] ELSE d[i - Len(c)]
    BY ConcatProperties
  <1>2. Len(c) \in Nat \ {0} /\ Len(d) \in Nat
    BY EmptySeq, LenProperties
  <1>3. 1 \in 1..(Len(c) + Len(d)) /\ 1 <= Len(c) /\ Len(c \o d) # 0
    BY <1>1, <1>2
  <1>4. (c \o d)[1] = c[1]
    BY <1>1, <1>3
  <1> QED BY <1>1, <1>3, <1>4, EmptySeq

\* What is held back after a split begins with the brace.
LEMMA SplitTyped ==
  ASSUME NEW s, Held(s), ~s.hold, NEW line \in LineType,
         "{" \in {line.content[i] : i \in DOMAIN line.content}
  PROVE  /\ Held(Split(s, line).state)
         /\ Split(s, line).lines \in Seq(LineType)
         /\ line.kind # "done" => NoDone(Split(s, line).lines)
  <1> DEFINE b == CHOOSE i \in DOMAIN line.content :
                    /\ line.content[i] = "{"
                    /\ \A j \in 1..(i - 1) : line.content[j] # "{"
             before == SubSeq(line.content, 1, b - 1)
             rest == SubSeq(line.content, b, Len(line.content))
  <1>1. line.content \in Seq(Pieces) /\ \E i \in DOMAIN line.content : line.content[i] = "{"
    BY DEF LineType
  <1>2. DOMAIN line.content = 1..Len(line.content)
    BY <1>1, LenProperties
  <1>3. b \in 1..Len(line.content) /\ line.content[b] = "{"
    <2>1. \E i \in DOMAIN line.content :
            line.content[i] = "{" /\ \A j \in 1..(i - 1) : line.content[j] # "{"
      BY <1>1, <1>2, FirstOf
    <2>2. b \in DOMAIN line.content /\ line.content[b] = "{"
      BY <2>1
    <2> QED BY <1>2, <2>2
  <1> HIDE DEF b
  <1>4. before \in Seq(Pieces) /\ rest \in Seq(Pieces) /\ rest # <<>> /\ rest[1] = "{"
    BY <1>1, <1>3, Parted
  <1> DEFINE x == [held |-> s.held \o rest, hold |-> TRUE]
             y == IF before = <<>> THEN <<>> ELSE <<[line EXCEPT !.content = before]>>
  <1>5. Split(s, line).state = x /\ Split(s, line).lines = y
    <2>1. Split(s, line) = Answer(x, y)
      BY DEF Split, b
    <2> HIDE DEF x, y
    <2> DEFINE answer == Split(s, line)
    <2>2. answer = Answer(x, y)
      BY <2>1
    <2> HIDE DEF answer
    <2>3. answer = [state |-> x, lines |-> y]
      BY <2>2, Zenon DEF Answer
    <2>4. answer.state = x
      BY <2>3
    <2>5. answer.lines = y
      BY <2>3
    <2> QED BY <2>4, <2>5 DEF answer
  <1> HIDE DEF before, rest
  <1>6. s.held \o rest = rest
    <2>1. s.held = <<>>
      BY DEF Held
    <2>2. <<>> \o rest = rest
      BY <1>4, ConcatEmptySeq
    <2> QED BY <2>1, <2>2
  <1>7. Held(Split(s, line).state)
    <2>1. Split(s, line).state = [held |-> rest, hold |-> TRUE]
      BY <1>5, <1>6, Zenon
    <2>2. [held |-> rest, hold |-> TRUE] \in HeldType
      BY <1>4 DEF HeldType
    <2>3. [held |-> rest, hold |-> TRUE].held = rest /\ [held |-> rest, hold |-> TRUE].hold = TRUE
      BY Zenon
    <2>4. Held([held |-> rest, hold |-> TRUE])
      BY <1>4, <2>2, <2>3 DEF Held
    <2> QED BY <2>1, <2>4
  <1>8. /\ [line EXCEPT !.content = before] \in LineType
        /\ [line EXCEPT !.content = before].kind = line.kind
    BY <1>4 DEF LineType
  <1> QED BY <1>5, <1>7, <1>8, NoLines, SingleLine

LEMMA ReleasedHeld == Held(Released)
  BY EmptySeq DEF Held, HeldType, Released

LEMMA CompleteTyped ==
  ASSUME NEW s
  PROVE  /\ CompleteSuppressed(s).state = Released
         /\ CompleteSuppressed(s).lines \in Seq(LineType) /\ NoDone(CompleteSuppressed(s).lines)
  <1>1. /\ Plain("call") \in LineType /\ Plain("stop") \in LineType
        /\ Plain("call").kind # "done" /\ Plain("stop").kind # "done"
    BY PlainTyped DEF LineKinds, Plain
  <1> QED BY <1>1, SingleLine DEF CompleteSuppressed, Answer

LEMMA FlushTyped ==
  ASSUME NEW s, Held(s)
  PROVE  /\ Held(FlushOnStreamEnd(s).state)
         /\ FlushOnStreamEnd(s).state = Released
         /\ FlushOnStreamEnd(s).lines \in Seq(LineType) /\ NoDone(FlushOnStreamEnd(s).lines)
         /\ ~s.hold => FlushOnStreamEnd(s).lines = <<>>
  <1>1. CASE s.hold
    BY <1>1, CompleteTyped, ReleasedHeld DEF FlushOnStreamEnd, Held
  <1>2. CASE ~s.hold
    <2>1. s = Released
      BY <1>2 DEF Held, HeldType, Released
    <2> QED BY <1>2, <2>1, NoLines, ReleasedHeld DEF FlushOnStreamEnd, Answer
  <1> QED BY <1>1, <1>2 DEF Held, HeldType

LEMMA TextTyped ==
  ASSUME NEW s, Held(s), NEW line \in LineType, line.kind = "text"
  PROVE  /\ Held(ProcessText(s, line).state)
         /\ ProcessText(s, line).lines \in Seq(LineType) /\ NoDone(ProcessText(s, line).lines)
  <1>1. CASE line.content # <<>> /\ s.hold
    <2> DEFINE held == s.held \o line.content
    <2>1. /\ s.held \in Seq(Pieces) /\ line.content \in Seq(Pieces)
          /\ s.held # <<>> /\ s.held[1] = "{" /\ s.hold = TRUE
      BY <1>1 DEF Held, HeldType, LineType
    <2>2. held \in Seq(Pieces) /\ held # <<>> /\ held[1] = "{"
      BY <2>1, Longer
    <2> HIDE DEF held
    <2>3. /\ [s EXCEPT !.held = held] \in HeldType
          /\ [s EXCEPT !.held = held].held = held
          /\ [s EXCEPT !.held = held].hold
      <3>1. [s EXCEPT !.held = held].hold = s.hold
        BY Zenon DEF Held, HeldType
      <3> QED BY <2>1, <2>2, <3>1 DEF Held, HeldType
    <2>4. Held([s EXCEPT !.held = held])
      BY <2>2, <2>3 DEF Held
    <2> QED BY <1>1, <2>4, NoLines DEF ProcessText, Answer, held
  <1>2. CASE /\ ~(line.content # <<>> /\ s.hold)
             /\ "{" \in {line.content[i] : i \in DOMAIN line.content}
    <2>1. line.content # <<>>
      <3>1. line.content \in Seq(Pieces) /\ DOMAIN line.content = 1..Len(line.content)
        BY LenProperties DEF LineType
      <3>2. ASSUME line.content = <<>> PROVE DOMAIN line.content = {}
        BY <3>1, <3>2, EmptySeq
      <3> QED BY <1>2, <3>2
    <2> QED BY <1>2, <2>1, SplitTyped DEF ProcessText
  <1>3. CASE /\ ~(line.content # <<>> /\ s.hold)
             /\ "{" \notin {line.content[i] : i \in DOMAIN line.content}
    <2>1. CASE line.finish /\ s.hold
      BY <1>3, <2>1, CompleteTyped, ReleasedHeld DEF ProcessText
    <2>2. CASE ~(line.finish /\ s.hold)
      <3>1. Shown(line) \in LineType /\ Shown(line).kind # "done"
        BY PlainTyped DEF Shown, Plain, LineKinds
      <3>2. ProcessText(s, line) = Answer(s, <<Shown(line)>>)
        BY <1>3, <2>2 DEF ProcessText
      <3> QED BY <3>1, <3>2, SingleLine DEF Answer
    <2> QED BY <2>1, <2>2
  <1> QED BY <1>1, <1>2, <1>3

LEMMA LineProcessed ==
  ASSUME NEW s, Held(s), NEW line \in LineType
  PROVE  /\ Held(ProcessLine(s, line).state)
         /\ ProcessLine(s, line).lines \in Seq(LineType)
         /\ IF line.kind \in {"done", "bare"}
              THEN ProcessLine(s, line).state = Released /\ DoneLast(ProcessLine(s, line).lines)
              ELSE NoDone(ProcessLine(s, line).lines)
  <1>1. CASE line.kind = "text"
    BY <1>1, TextTyped DEF ProcessLine
  <1>2. CASE line.kind \in {"done", "bare"}
    <2> DEFINE f == FlushOnStreamEnd(s)
    <2>1. /\ Held(f.state) /\ f.state = Released
          /\ f.lines \in Seq(LineType) /\ NoDone(f.lines)
      BY FlushTyped
    <2>2. ProcessLine(s, line) = Answer(f.state, Append(f.lines, Plain("done")))
      BY <1>2 DEF ProcessLine
    <2>3. /\ Plain("done") \in LineType /\ <<Plain("done")>> \in Seq(LineType)
          /\ DoneLast(<<Plain("done")>>)
      BY PlainTyped, SingleLine DEF LineKinds, Plain
    <2> HIDE DEF f
    <2>4. Append(f.lines, Plain("done")) = f.lines \o <<Plain("done")>>
      <3> DEFINE L == LineType
      <3>1. f.lines \in Seq(L) /\ Plain("done") \in L
        BY <2>1, <2>3
      <3> HIDE DEF L
      <3> QED BY <3>1, AppendIsConcat
    <2>5. f.lines \o <<Plain("done")>> \in Seq(LineType) /\ DoneLast(f.lines \o <<Plain("done")>>)
      BY <2>1, <2>3, Joined
    <2>6. /\ ProcessLine(s, line).state = f.state
          /\ ProcessLine(s, line).lines = f.lines \o <<Plain("done")>>
      BY <2>2, <2>4 DEF Answer
    <2> QED BY <1>2, <2>1, <2>5, <2>6
  <1>3. CASE line.kind \notin {"text", "done", "bare"}
    BY <1>3, SingleLine DEF ProcessLine, Answer
  <1> QED BY <1>1, <1>2, <1>3

-----------------------------------------------------------------------------
(* The end of a rewritten reply *)

LEMMA CarrierKnown ==
  /\ Carrier = "rewrite" <=> Rewriting
  /\ Carrier = "rewrite" => Streamed
  /\ Carrier \in {"rewrite", "collect", "translate", "content", "raw"}
  BY DEF Carrier, Rewriting, Streamed

LEMMA LinesTyped ==
  ASSUME NEW i \in 1..Len(Words)
  PROVE  Lines(i) \subseteq LineType
  <1>1. DOMAIN Words = 1..Len(Words)
    BY ChatProxyAssumption, LenProperties
  <1>2. Words[i] \in Pieces /\ "{" \in Pieces /\ "call" \in Pieces
    BY <1>1 DEF Pieces
  <1>3. /\ <<Words[i]>> \in Seq(Pieces) /\ <<"{">> \in Seq(Pieces) /\ <<Words[i], "{">> \in Seq(Pieces)
        /\ <<"{", "call">> \in Seq(Pieces) /\ <<"call">> \in Seq(Pieces) /\ <<>> \in Seq(Pieces)
    <2> DEFINE P == Pieces
    <2>1. Words[i] \in P /\ "{" \in P /\ "call" \in P
      BY <1>2
    <2> HIDE DEF P
    <2>2. \A a, b \in P : <<a>> \in Seq(P) /\ <<a, b>> \in Seq(P)
      OBVIOUS
    <2>3. <<>> \in Seq(P)
      BY EmptySeq
    <2> QED BY <2>1, <2>2, <2>3 DEF P
  <1>4. \A c \in Seq(Pieces), f \in BOOLEAN : Text(c, f) \in LineType
    BY DEF Text, LineType, LineKinds
  <1> QED BY <1>3, <1>4, PlainTyped DEF Lines, LineKinds

LEMMA NoOtherDone ==
  ASSUME NEW s \in Seq(LineType)
  PROVE  /\ DoneOnce(s) => /\ \E i \in DOMAIN s : /\ s[i].kind = "done"
                                                 /\ (i = Len(s) \/ s[i + 1].kind = "error")
                           /\ Cardinality({i \in DOMAIN s : s[i].kind = "done"}) = 1
         /\ DoneLast(s) => DoneOnce(s)
  <1>1. ASSUME DoneOnce(s)
        PROVE  Cardinality({i \in DOMAIN s : s[i].kind = "done"}) = 1
    <2>1. PICK i \in DOMAIN s :
            s[i].kind = "done" /\ \A j \in DOMAIN s : s[j].kind = "done" => j = i
      BY <1>1 DEF DoneOnce
    <2>2. {j \in DOMAIN s : s[j].kind = "done"} = {i}
      BY <2>1
    <2> QED BY <2>2, FS_Singleton
  <1>2. DoneLast(s) => DoneOnce(s)
    BY LastIsOnce
  <1> QED BY <1>1, <1>2 DEF DoneOnce

\* The rest of the line a reply was broken off in, if all but its newline has arrived.
LEMMA LeftKnown ==
  ASSUME Lined
  PROVE  \/ Left = <<>> /\ buffer = <<>>
         \/ /\ Left = <<Left[1]>> /\ Left[1] \in LineType /\ buffer # <<>>
            /\ \/ Left[1].kind = "broken"
               \/ Left[1] = sent[Len(sent)] /\ sent # <<>>
  <1>1. CASE buffer = <<>>
    BY <1>1 DEF Left
  <1>2. CASE buffer # <<>> /\ buffer[1].part = "line"
    <2>1. Left = <<buffer[1].line>> /\ buffer[1].line \in LineType
      BY <1>2 DEF Left, Lined, CutType
    <2> QED BY <1>2, <2>1 DEF Lined
  <1>3. CASE buffer # <<>> /\ buffer[1].part # "line"
    <2>1. Left = <<Plain("broken")>>
      BY <1>3 DEF Left
    <2> QED BY <1>3, <2>1, PlainTyped DEF LineKinds, Plain
  <1> QED BY <1>1, <1>2, <1>3

\* What finish and finalize_stream make of the end: exactly one [DONE], behind which only an
\* error can come; or, from a local source that wrote its own, a [DONE] at the end.
LEMMA FinishEnds ==
  ASSUME Lined, Rewriting, DoneSeen, NEW before, Finish(before),
         before = <<>> \/ (before = <<Plain("error")>> /\ Remote)
  PROVE  /\ out' \in Seq(LineType)
         /\ \/ DoneOnce(out')
            \/ /\ ~Remote /\ out' # <<>> /\ out'[Len(out')].kind = "done"
               /\ \/ \E i \in DOMAIN sent : sent[i].kind = "bare"
                  \/ Left # <<>> /\ Left[1].kind = "done"
  <1> DEFINE left == IF Left = <<>> THEN Answer(state, <<>>) ELSE Carry(state, Left[1])
             sawDone == done \/ (Remote /\ Left # <<>> /\ SeesDone(Left[1], left.lines))
             flushed == FlushOnStreamEnd(left.state)
             end == IF sawDone THEN <<>> ELSE <<Plain("done")>>
  <1>1. Carrier = "rewrite" /\ Held(state) /\ out \in Seq(LineType)
    BY CarrierKnown DEF Lined
  <1>2. out' = out \o before \o left.lines \o (flushed.lines \o end)
    BY <1>1 DEF Finish, FinalizeStream
  <1>3. before \in Seq(LineType) /\ NoDone(before)
    BY SingleLine, PlainTyped, NoLines DEF LineKinds, Plain
  <1>4. end \in Seq(LineType) /\ (~sawDone => DoneLast(end)) /\ (sawDone => end = <<>>)
    BY SingleLine, PlainTyped, NoLines DEF LineKinds, Plain
  <1>5. sent # <<>> => sent[Len(sent)] \in LineType /\ Len(sent) \in DOMAIN sent
    <2> DEFINE L == LineType
    <2>1. sent \in Seq(L)
      BY DEF Lined
    <2> HIDE DEF L
    <2>2. sent # <<>> => sent[Len(sent)] \in L /\ Len(sent) \in DOMAIN sent
      BY <2>1, EmptySeq, LenProperties, ElementOfSeq
    <2> QED BY <2>2 DEF L
  <1>6. CASE Left = <<>>
    <2>1. buffer = <<>> /\ left = Answer(state, <<>>)
      BY <1>6, LeftKnown
    <2>2. left.state = state /\ left.lines = <<>> /\ (sawDone <=> done)
      BY <1>6, <2>1 DEF Answer
    <2>3. /\ flushed.lines \in Seq(LineType) /\ NoDone(flushed.lines)
          /\ ~state.hold => flushed.lines = <<>>
      BY <1>1, <2>2, FlushTyped
    <2> HIDE DEF left, sawDone, flushed, end
    <2>4. CASE Ended
      <3>1. /\ DoneLast(out) /\ ~state.hold
            /\ done \/ (~Remote /\ sent # <<>> /\ sent[Len(sent)].kind = "bare")
        BY <2>4 DEF DoneSeen, Ended, Released
      <3>2. out' = out \o before \o <<>> \o (<<>> \o end)
        BY <1>2, <2>2, <2>3, <3>1
      <3>3. out' = (out \o before) \o end
        BY <1>1, <1>3, <1>4, <3>2, Joined, ConcatEmptySeq
      <3>4. CASE done
        <4>1. out' = out \o before
          BY <1>1, <1>3, <1>4, <2>2, <3>3, <3>4, Joined, ConcatEmptySeq
        <4>2. CASE before = <<>>
          BY <1>1, <3>1, <4>1, <4>2, LastIsOnce, ConcatEmptySeq
        <4>3. CASE before = <<Plain("error")>>
          BY <1>1, <1>3, <3>1, <4>1, <4>3, LastIsOnce, Joined
        <4> QED BY <4>2, <4>3
      <3>5. CASE ~done
        <4>1. ~Remote /\ before = <<>> /\ \E i \in DOMAIN sent : sent[i].kind = "bare"
          BY <1>5, <3>1, <3>5
        <4>2. out' = out \o end /\ DoneLast(end)
          BY <1>1, <1>4, <2>2, <3>3, <3>5, <4>1, ConcatEmptySeq
        <4>3. out' \in Seq(LineType) /\ out' # <<>> /\ out'[Len(out')].kind = "done"
          BY <1>1, <1>4, <4>2, EndsInDone
        <4> QED BY <4>1, <4>3
      <3> QED BY <3>4, <3>5
    <2>5. CASE ~Ended
      <3>1. NoDone(out) /\ ~sawDone
        BY <2>2, <2>5 DEF DoneSeen
      <3>2. out' = out \o before \o <<>> \o (flushed.lines \o end)
        BY <1>2, <2>2
      <3>3. out \o before \o <<>> \in Seq(LineType) /\ NoDone(out \o before \o <<>>)
        BY <1>1, <1>3, <3>1, Joined, NoLines
      <3>4. flushed.lines \o end \in Seq(LineType) /\ DoneLast(flushed.lines \o end)
        BY <1>4, <2>3, <3>1, Joined
      <3> QED BY <3>2, <3>3, <3>4, Joined, LastIsOnce
    <2> QED BY <2>4, <2>5
  <1>7. CASE Left # <<>>
    <2> DEFINE line == Left[1]
    <2>1. /\ line \in LineType /\ buffer # <<>>
          /\ line.kind = "broken" \/ (line = sent[Len(sent)] /\ sent # <<>>)
      BY <1>7, LeftKnown
    <2>2. left = ProcessLine(state, line)
      BY <1>1, <1>7 DEF Carry
    <2>3. /\ Held(left.state) /\ left.lines \in Seq(LineType)
          /\ IF line.kind \in {"done", "bare"}
               THEN left.state = Released /\ DoneLast(left.lines)
               ELSE NoDone(left.lines)
      BY <1>1, <2>1, <2>2, LineProcessed
    <2>4. NoDone(out) /\ ~done
      BY <2>1 DEF DoneSeen, Ended
    <2>5. /\ flushed.lines \in Seq(LineType) /\ NoDone(flushed.lines)
          /\ ~left.state.hold => flushed.lines = <<>>
      BY <2>3, FlushTyped
    <2>6. sawDone <=> Remote /\ SeesDone(line, left.lines)
      BY <1>7, <2>4
    <2> HIDE DEF left, sawDone, flushed, end
    <2>7. out \o before \in Seq(LineType) /\ NoDone(out \o before)
      BY <1>1, <1>3, <2>4, Joined
    <2>8. CASE line.kind \notin {"done", "bare"}
      <3>1. ~sawDone
        BY <2>3, <2>6, <2>8 DEF SeesDone, NoDone
      <3>2. out \o before \o left.lines \in Seq(LineType) /\ NoDone(out \o before \o left.lines)
        BY <2>3, <2>7, <2>8, Joined
      <3>3. flushed.lines \o end \in Seq(LineType) /\ DoneLast(flushed.lines \o end)
        BY <1>4, <2>5, <3>1, Joined
      <3> QED BY <1>2, <3>2, <3>3, Joined, LastIsOnce
    <2>9. CASE line.kind \in {"done", "bare"}
      <3>1. left.state = Released /\ DoneLast(left.lines) /\ flushed.lines = <<>>
        BY <2>3, <2>5, <2>9 DEF Released
      <3>2. out' = out \o before \o left.lines \o (<<>> \o end)
        BY <1>2, <3>1
      <3>3. /\ out \o before \o left.lines \in Seq(LineType) /\ DoneLast(out \o before \o left.lines)
        BY <2>3, <2>7, <3>1, Joined
      <3>4. out' = (out \o before \o left.lines) \o end
        BY <1>4, <3>2, ConcatEmptySeq
      <3> DEFINE all == out \o before \o left.lines
      <3>5. all \in Seq(LineType) /\ DoneLast(all) /\ out' = all \o end
        BY <3>3, <3>4
      <3> HIDE DEF all
      <3>6. CASE Remote
        <4>1. \E i \in DOMAIN left.lines : left.lines[i].kind = "done"
          BY <2>3, <3>1, LastIsOnce DEF DoneOnce
        <4>2. sawDone
          BY <2>6, <3>6, <4>1 DEF SeesDone
        <4>3. out' = all
          BY <1>4, <3>5, <4>2, ConcatEmptySeq
        <4> QED BY <3>5, <4>3, LastIsOnce
      <3>7. CASE ~Remote
        <4>1. ~sawDone
          BY <2>6, <3>7
        <4>2. out' \in Seq(LineType) /\ out' # <<>> /\ out'[Len(out')].kind = "done"
          BY <1>4, <3>5, <4>1, EndsInDone
        <4>3. line.kind = "bare" => \E i \in DOMAIN sent : sent[i].kind = "bare"
          BY <1>5, <2>1
        <4> QED BY <1>7, <2>9, <3>7, <4>2, <4>3
      <3> QED BY <3>6, <3>7
    <2> QED BY <2>8, <2>9
  <1> QED BY <1>6, <1>7

-----------------------------------------------------------------------------
(* Its steps *)

LEMMA SentLonger ==
  ASSUME Lined, NEW line \in LineType
  PROVE  /\ Append(sent, line) \in Seq(LineType) /\ Append(sent, line) # <<>>
         /\ Append(sent, line)[Len(Append(sent, line))] = line
  <1> DEFINE L == LineType
  <1>1. sent \in Seq(L) /\ line \in L
    BY DEF Lined
  <1> HIDE DEF L
  <1>2. /\ Append(sent, line) \in Seq(L) /\ Append(sent, line) # <<>>
        /\ Append(sent, line)[Len(Append(sent, line))] = line
    BY <1>1, AppendProperties
  <1> QED BY <1>2 DEF L

\* A line goes through while no line has ended the reply.
LEMMA LineArrives ==
  ASSUME Lined, Rewriting => DoneSeen /\ ~Ended, NEW line \in LineType, Arrive(line)
  PROVE  /\ IF Rewriting THEN Held(state') /\ out' \in Seq(LineType) ELSE state' = Released
         /\ Rewriting =>
              /\ pc' = pc
              /\ IF line.kind \in {"done", "bare"}
                   THEN /\ DoneLast(out') /\ state' = Released
                        /\ done' \/ (~Remote /\ line.kind = "bare")
                   ELSE NoDone(out') /\ ~done'
  <1>1. CASE Rewriting
    <2> DEFINE answer == ProcessLine(state, line)
    <2>1. Carrier = "rewrite" /\ Held(state) /\ out \in Seq(LineType) /\ NoDone(out) /\ ~done
      BY <1>1, CarrierKnown DEF Lined, DoneSeen
    <2>2. /\ state' = answer.state /\ out' = out \o answer.lines /\ pc' = pc
          /\ done' = (done \/ SeesDone(line, answer.lines))
      BY <2>1 DEF Arrive, Carry
    <2>3. /\ Held(answer.state) /\ answer.lines \in Seq(LineType)
          /\ IF line.kind \in {"done", "bare"}
               THEN answer.state = Released /\ DoneLast(answer.lines)
               ELSE NoDone(answer.lines)
      BY <2>1, LineProcessed
    <2> HIDE DEF answer
    <2>4. out' \in Seq(LineType)
      BY <2>1, <2>2, <2>3, Joined
    <2>5. CASE line.kind \in {"done", "bare"}
      <3>1. DoneLast(out')
        BY <2>1, <2>2, <2>3, <2>5, Joined
      <3>2. \E i \in DOMAIN answer.lines : answer.lines[i].kind = "done"
        BY <2>3, <2>5, LastIsOnce DEF DoneOnce
      <3>3. done' \/ (~Remote /\ line.kind = "bare")
        BY <2>2, <2>5, <3>2 DEF SeesDone
      <3> QED BY <1>1, <2>2, <2>3, <2>4, <2>5, <3>1, <3>3
    <2>6. CASE line.kind \notin {"done", "bare"}
      <3>1. NoDone(out')
        BY <2>1, <2>2, <2>3, <2>6, Joined
      <3>2. ~SeesDone(line, answer.lines)
        BY <2>3, <2>6 DEF SeesDone, NoDone
      <3> QED BY <1>1, <2>1, <2>2, <2>3, <2>4, <2>6, <3>1, <3>2
    <2> QED BY <2>5, <2>6
  <1>2. CASE ~Rewriting
    <2>1. Carrier # "rewrite" /\ state = Released
      BY <1>2, CarrierKnown DEF Lined
    <2>2. Carry(state, line).state = state
      BY <2>1 DEF Carry, Translate, Answer
    <2> QED BY <1>2, <2>1, <2>2 DEF Arrive
  <1> QED BY <1>1, <1>2

LEMMA WholeLine ==
  ASSUME Known, ReplyIInv, Whole
  PROVE  ReplyIInv'
  <1>1. /\ pc = "reply" /\ buffer = <<>> /\ Lined /\ (Rewriting => DoneSeen)
        /\ UNCHANGED <<request, offer, target, buffer>>
        /\ Len(sent) < request.lines
        /\ \A i \in DOMAIN sent : sent[i].kind \notin {"done", "bare"}
    BY DEF Whole, SourceOpen, ReplyIInv
  <1>2. PICK line \in Lines(Len(sent) + 1) : sent' = Append(sent, line) /\ Arrive(line)
    BY DEF Whole
  <1>3. Len(sent) \in Nat /\ DOMAIN sent = 1..Len(sent) /\ (sent # <<>> => Len(sent) > 0)
    BY <1>1, LenProperties, EmptySeq DEF Lined
  <1>4. line \in LineType
    <2>1. Len(sent) + 1 \in 1..Len(Words)
      BY <1>1, <1>3, RequestKnown DEF Known
    <2> QED BY <1>2, <2>1, LinesTyped
  <1>5. ~Ended
    BY <1>1, <1>3 DEF Ended
  <1>6. Rewriting' = Rewriting /\ Remote' = Remote /\ Carrier' = Carrier
    BY <1>1 DEF Rewriting, Remote, Carrier
  <1>7. /\ sent' \in Seq(LineType) /\ sent' # <<>> /\ sent'[Len(sent')] = line
    BY <1>1, <1>2, <1>4, SentLonger
  <1>8. /\ IF Rewriting THEN Held(state') /\ out' \in Seq(LineType) ELSE state' = Released
        /\ Rewriting =>
              /\ pc' = pc
              /\ IF line.kind \in {"done", "bare"}
                   THEN /\ DoneLast(out') /\ state' = Released
                        /\ done' \/ (~Remote /\ line.kind = "bare")
                   ELSE NoDone(out') /\ ~done'
    BY <1>1, <1>2, <1>4, <1>5, LineArrives
  <1>9. Lined'
    BY <1>1, <1>6, <1>7, <1>8 DEF Lined
  <1>10. Rewriting => DoneSeen'
    BY <1>1, <1>6, <1>7, <1>8 DEF DoneSeen, Ended
  <1>11. EndsWithDone'
    BY <1>1, <1>6, <1>8, CarrierKnown DEF EndsWithDone, Over
  <1> QED BY <1>6, <1>8, <1>9, <1>10, <1>11 DEF ReplyIInv

LEMMA PartOfLine ==
  ASSUME Known, ReplyIInv, Part
  PROVE  ReplyIInv'
  <1>1. /\ pc = "reply" /\ buffer = <<>> /\ Lined /\ (Rewriting => DoneSeen)
        /\ UNCHANGED <<request, offer, pc, target, state, done, out>>
        /\ Len(sent) < request.lines
        /\ \A i \in DOMAIN sent : sent[i].kind \notin {"done", "bare"}
    BY DEF Part, SourceOpen, ReplyIInv
  <1>2. PICK line \in Lines(Len(sent) + 1), part \in {"piece", "character", "line"} :
          /\ part = "character" => line.content # <<>>
          /\ sent' = Append(sent, line) /\ buffer' = <<[line |-> line, part |-> part]>>
    BY DEF Part
  <1>3. Len(sent) \in Nat /\ DOMAIN sent = 1..Len(sent) /\ (sent # <<>> => Len(sent) > 0)
    BY <1>1, LenProperties, EmptySeq DEF Lined
  <1>4. line \in LineType
    <2>1. Len(sent) + 1 \in 1..Len(Words)
      BY <1>1, <1>3, RequestKnown DEF Known
    <2> QED BY <1>2, <2>1, LinesTyped
  <1>5. ~Ended
    BY <1>1, <1>3 DEF Ended
  <1>6. Rewriting' = Rewriting
    BY <1>1 DEF Rewriting
  <1>7. /\ sent' \in Seq(LineType) /\ sent' # <<>> /\ sent'[Len(sent')] = line
    BY <1>1, <1>2, <1>4, SentLonger
  <1>8. /\ buffer' # <<>> /\ buffer' = <<buffer'[1]>> /\ buffer'[1] \in CutType
        /\ buffer'[1].line = line
        /\ buffer'[1].part = "character" => buffer'[1].line.content # <<>>
    BY <1>2, <1>4 DEF CutType
  <1>9. Lined'
    BY <1>1, <1>6, <1>7, <1>8 DEF Lined
  <1>10. Rewriting => DoneSeen'
    BY <1>1, <1>5, <1>8 DEF DoneSeen, Ended
  <1>11. EndsWithDone'
    BY <1>1 DEF EndsWithDone, Over
  <1> QED BY <1>1, <1>6, <1>9, <1>10, <1>11 DEF ReplyIInv

LEMMA DamagedTyped ==
  ASSUME NEW cut \in CutType, cut.part = "character" => cut.line.content # <<>>
  PROVE  Damaged(cut) \in LineType /\ Damaged(cut).kind = cut.line.kind
  <1>1. cut.line \in LineType /\ cut.line.content \in Seq(Pieces)
    BY DEF CutType, LineType
  <1>2. CASE cut.part = "character"
    <2> DEFINE c == cut.line.content
    <2>1. 1 \in 1..Len(c) /\ "damaged" \in Pieces
      <3>1. Len(c) \in Nat \ {0}
        BY <1>1, <1>2, EmptySeq
      <3> QED BY <3>1 DEF Pieces
    <2>2. [c EXCEPT ![1] = "damaged"] \in Seq(Pieces)
      BY <1>1, <2>1, ExceptSeq
    <2>3. [cut.line EXCEPT !.content[1] = "damaged"]
            = [cut.line EXCEPT !.content = [c EXCEPT ![1] = "damaged"]]
      OBVIOUS
    <2> DEFINE d == [c EXCEPT ![1] = "damaged"]
    <2> HIDE DEF d
    <2>4. /\ [cut.line EXCEPT !.content = d] \in LineType
          /\ [cut.line EXCEPT !.content = d].kind = cut.line.kind
      BY <1>1, <2>2 DEF LineType, d
    <2> QED BY <1>1, <2>3, <2>4 DEF Damaged, d
  <1>3. CASE cut.part # "character"
    BY <1>1, <1>3 DEF Damaged
  <1> QED BY <1>2, <1>3

LEMMA RestOfLine ==
  ASSUME Known, ReplyIInv, Rest
  PROVE  ReplyIInv'
  <1> DEFINE line == Damaged(buffer[1])
  <1>1. /\ pc = "reply" /\ buffer # <<>> /\ Lined /\ (Rewriting => DoneSeen)
        /\ UNCHANGED <<request, offer, target, sent>> /\ buffer' = <<>>
        /\ Arrive(line)
    BY DEF Rest, ReplyIInv
  <1>2. line \in LineType /\ line.kind = sent[Len(sent)].kind /\ sent # <<>>
    BY <1>1, DamagedTyped DEF Lined
  <1>3. ~Ended
    BY <1>1 DEF Ended
  <1> HIDE DEF line
  <1>4. Rewriting' = Rewriting /\ Remote' = Remote /\ Carrier' = Carrier
    BY <1>1 DEF Rewriting, Remote, Carrier
  <1>5. /\ IF Rewriting THEN Held(state') /\ out' \in Seq(LineType) ELSE state' = Released
        /\ Rewriting =>
              /\ pc' = pc
              /\ IF line.kind \in {"done", "bare"}
                   THEN /\ DoneLast(out') /\ state' = Released
                        /\ done' \/ (~Remote /\ line.kind = "bare")
                   ELSE NoDone(out') /\ ~done'
    BY <1>1, <1>2, <1>3, LineArrives
  <1>6. Lined'
    BY <1>1, <1>4, <1>5 DEF Lined
  <1>7. Rewriting => DoneSeen'
    BY <1>1, <1>2, <1>4, <1>5 DEF DoneSeen, Ended
  <1>8. EndsWithDone'
    BY <1>1, <1>4, <1>5, CarrierKnown DEF EndsWithDone, Over
  <1> QED BY <1>4, <1>5, <1>6, <1>7, <1>8 DEF ReplyIInv

LEMMA ReplyEnds ==
  ASSUME Known, ReplyIInv, SourceEnds \/ SourceFails
  PROVE  ReplyIInv'
  <1>1. /\ pc = "reply" /\ pc' \in {"over", "failed"} /\ Lined /\ (Rewriting => DoneSeen)
        /\ UNCHANGED <<request, offer, target, sent, buffer, state, done>>
    BY DEF SourceEnds, SourceFails, ReplyIInv
  <1>2. Rewriting' = Rewriting /\ Remote' = Remote /\ Carrier' = Carrier /\ Left' = Left
    BY <1>1 DEF Rewriting, Remote, Carrier, Left
  <1>3. IF Rewriting' THEN Held(state') ELSE state' = Released
    BY <1>1, <1>2 DEF Lined
  <1>4. EndsWithDone'
    <2>1. CASE Carrier # "rewrite"
      BY <1>2, <2>1 DEF EndsWithDone
    <2>2. ASSUME Carrier = "rewrite", NEW before, Finish(before),
                 before = <<>> \/ (before = <<Plain("error")>> /\ Remote)
          PROVE  EndsWithDone'
      <3>1. /\ out' \in Seq(LineType)
            /\ \/ DoneOnce(out')
               \/ /\ ~Remote /\ out' # <<>> /\ out'[Len(out')].kind = "done"
                  /\ \/ \E i \in DOMAIN sent : sent[i].kind = "bare"
                     \/ Left # <<>> /\ Left[1].kind = "done"
        BY <1>1, <2>2, CarrierKnown, FinishEnds
      <3>2. CASE DoneOnce(out')
        BY <3>1, <3>2, NoOtherDone DEF EndsWithDone
      <3>3. CASE /\ ~Remote /\ out' # <<>> /\ out'[Len(out')].kind = "done"
                 /\ \/ \E i \in DOMAIN sent : sent[i].kind = "bare"
                    \/ Left # <<>> /\ Left[1].kind = "done"
        <4>1. Len(out') \in DOMAIN out'
          BY <3>1, <3>3, LenProperties, EmptySeq
        <4> QED BY <1>1, <1>2, <3>3, <4>1 DEF EndsWithDone
      <3> QED BY <3>1, <3>2, <3>3
    <2>3. CASE Carrier = "rewrite" /\ SourceEnds
      <3>1. Finish(<<>>)
        BY <2>3, CarrierKnown DEF SourceEnds
      <3> QED BY <2>2, <2>3, <3>1
    <2>4. CASE Carrier = "rewrite" /\ SourceFails
      <3>1. CASE Remote
        <4>1. Finish(<<Plain("error")>>)
          BY <2>4, <3>1 DEF SourceFails
        <4> QED BY <2>2, <2>4, <3>1, <4>1
      <3>2. CASE ~Remote
        <4>1. out' = Append(out, Plain("aborted")) /\ out \in Seq(LineType)
          BY <1>1, <2>4, <3>2, CarrierKnown DEF SourceFails, Lined
        <4>2. \E i \in DOMAIN out' : out'[i].kind = "aborted"
          <5> DEFINE L == LineType
                     a == Plain("aborted")
          <5>1. a \in L /\ a.kind = "aborted" /\ out \in Seq(L)
            BY <4>1, PlainTyped DEF LineKinds, Plain
          <5> HIDE DEF L, a
          <5>2. /\ Append(out, a) \in Seq(L) /\ Append(out, a)[Len(out) + 1] = a
                /\ Len(Append(out, a)) = Len(out) + 1 /\ Len(out) \in Nat
            BY <5>1, AppendProperties, LenProperties
          <5>3. Len(out) + 1 \in DOMAIN Append(out, a)
            BY <5>2, LenProperties
          <5> QED BY <4>1, <5>1, <5>2, <5>3 DEF a
        <4> QED BY <1>2, <3>2, <4>2 DEF EndsWithDone, Broken
      <3> QED BY <3>1, <3>2
    <2> QED BY <2>1, <2>3, <2>4
  <1> QED BY <1>1, <1>3, <1>4 DEF ReplyIInv

LEMMA ReplyStep ==
  ASSUME Known, ReplyIInv, [ChatNext]_hvars
  PROVE  ReplyIInv'
  <1>1. CASE UNCHANGED hvars
    BY <1>1 DEF hvars, ReplyIInv, Lined, DoneSeen, Ended, Rewriting, EndsWithDone, Over, Broken,
                Remote, Carrier, Left
  <1>2. CASE OfferChanges
    BY <1>2 DEF OfferChanges, ReplyIInv, EndsWithDone, Over
  <1>3. CASE Decides
    <2>1. /\ UNCHANGED <<sent, buffer, state, done, out>>
          /\ sent = <<>> /\ buffer = <<>> /\ state = Released /\ ~done /\ out = <<>>
          /\ pc' \in {"over", "failed"} => target' \in Ends
      BY <1>3, DecidesKnown DEF Known
    <2>2. Lined' /\ DoneSeen'
      BY <2>1, NoLines, ReleasedHeld DEF Lined, DoneSeen, Ended
    <2>3. Held(state') /\ state' = Released
      BY <2>1, ReleasedHeld
    <2>4. EndsWithDone'
      BY <2>1 DEF EndsWithDone, Over, Places, Ends
    <2> QED BY <2>2, <2>3, <2>4 DEF ReplyIInv
  <1>4. CASE Replies
    BY <1>4, WholeLine, PartOfLine, RestOfLine, ReplyEnds DEF Replies
  <1> QED BY <1>1, <1>2, <1>3, <1>4 DEF ChatNext, Decides, Replies

LEMMA ChatStart == ChatInit => RouteIInv /\ ReplyIInv
  <1> SUFFICES ASSUME ChatInit PROVE RouteIInv /\ ReplyIInv
    OBVIOUS
  <1>1. ReplyIInv
    BY DEF ChatInit, ReplyIInv, EndsWithDone, Over
  <1> QED BY <1>1, RouteStart

-----------------------------------------------------------------------------
(* Theorems about a request to the HTTP proxy *)

\* The inductive invariant of a request and its reply holds in every state, whatever the
\* handlers read and wherever the transport cuts the lines.
THEOREM ChatInductive == ChatSpec => [](RouteIInv /\ ReplyIInv)
  <1>1. ChatInit => RouteIInv /\ ReplyIInv
    BY ChatStart
  <1>2. RouteIInv /\ ReplyIInv /\ [ChatNext]_hvars => (RouteIInv /\ ReplyIInv)'
    BY RouteStep, ReplyStep DEF RouteIInv
  <1> QED BY <1>1, <1>2, PTL DEF ChatSpec

\* A request for a model that a server here hosts all along reaches that server, one for a
\* model of other nodes a network that offered it, and none leaves this node but for a model
\* that was not listed here, whatever changes between the steps of its handler; a cell's model
\* is refused or misdirected by the entry points that serve Ollama alone
\* (handle_agent_chat_request, handle_proxy_request), for any requests, offers and changes.
THEOREM RouteCorrect == ChatSpec => []RouteInv
  <1>1. RouteIInv /\ ReplyIInv => RouteInv
    <2> SUFFICES ASSUME RouteIInv, ReplyIInv PROVE RouteInv
      OBVIOUS
    <2>1. IF Rewriting THEN Held(state) ELSE state = Released
      BY ReleasedHeld DEF RouteIInv, Known, ReplyIInv, Lined, Stages
    <2>2. /\ state.hold <=> state.held # <<>>
          /\ state.hold => Carrier = "rewrite" /\ state.held[1] = "{"
      BY <2>1, CarrierKnown, ReleasedHeld DEF Held, Released
    <2>3. ChatTypeOK
      BY <2>2 DEF ChatTypeOK, RouteIInv, Known, Offered, Stages, Places, Ends
    <2> QED BY <2>3 DEF RouteInv, RouteIInv
  <1> QED BY <1>1, ChatInductive, PTL

\* A model that is here or in a network all along is listed once and described, and one that
\* is nowhere is neither, whatever else changes; a cell's model while an Ollama server is
\* attached is left out (list_models, v1_models, show_model_info).
THEOREM ListedCorrect == ChatSpec => []ListedAreDescribed
  <1>1. RouteIInv => ListedAreDescribed
    BY DEF RouteIInv
  <1> QED BY <1>1, ChatInductive, PTL

\* A rewritten stream ends with [DONE], wherever the transport cuts it and however it ends
\* (finalize_stream), for a reply of any number of lines.
THEOREM DoneEndsReply == ChatSpec => []EndsWithDone
  <1>1. ReplyIInv => EndsWithDone
    BY DEF ReplyIInv
  <1> QED BY <1>1, ChatInductive, PTL
=============================================================================
