--------------------------- MODULE NetworkControl ---------------------------
(***************************************************************************)
(* Who switches a peer's networks on and off, and how that reaches the     *)
(* sessions (peer/src/network_actions.rs, network_scheduler.rs,            *)
(* gpu_thermal_guard.rs, cluster_manager.rs, swarm_manager.rs and the      *)
(* membership handlers of api/mod.rs).                                     *)
(*                                                                         *)
(* A writer changes the configuration and saves it under one write guard,  *)
(* then sends an empty notification to the cluster manager, the swarm      *)
(* manager, or both, over channels that hold Cap of them.  A manager reads *)
(* the configuration when it is notified, and on its own tick, and starts  *)
(* and stops sessions.  The swarm manager is started only once the         *)
(* configuration enables the swarm transport.                              *)
(***************************************************************************)
EXTENDS Naturals, Sequences, FiniteSets

CONSTANTS
    Clusters, Swarms,   \* memberships the user may have
    Handlers,           \* HTTP handlers in progress at the same time
    Guards,             \* GPU monitors: one per RuntimeEvent::SetupComplete
    Scheduler,          \* the task of spawn_network_scheduler
    Cap,                \* capacity of the notification channels (8)
    Duration,           \* guard evaluations within gpu_thermal_duration_secs
    Scenes
\* A scene: the memberships the process starts with and those with a daily schedule, the
\* guards that run, gpu_thermal_auto_resume, whether the guard's setting changes, and bounds on
\* what the user switches, on the saves that fail and on restarts of the process.

Networks == Clusters \cup Swarms
Tasks    == Handlers \cup Guards \cup {Scheduler}
Kinds    == {"cluster", "swarm"}
Channels == Kinds \cup {"event"}     \* "event": RuntimeEvent::SwarmsChanged
Of(k)    == IF k = "cluster" THEN Clusters ELSE Swarms

ASSUME NetworkControlAssumption ==
    /\ Clusters \cap Swarms = {}
    /\ Handlers \cap Guards = {} /\ Scheduler \notin Handlers \cup Guards
    /\ Cap \in Nat \ {0} /\ Duration \in Nat
    /\ \A s \in Scenes :
         /\ s.joined \subseteq Networks /\ s.scheduled \subseteq Networks
         /\ s.guards \subseteq Guards /\ s.autoResume \in BOOLEAN /\ s.toggles \in BOOLEAN
         /\ s.clicks \in Nat /\ s.failures \in Nat /\ s.restarts \in Nat

VARIABLES
    scene,
    cfg,                \* client_config, as far as it is about memberships
    disk,               \* client_config.json
    task,               \* what each task still has to do, in order
    queue,              \* messages in each channel
    manager,            \* "off", or what the manager of a kind is doing
    seen,               \* the connected memberships a manager has read
    live,               \* memberships with a session
    inside,             \* the time is inside the daily window
    temp,               \* what the next GPU probe reads
    guardOn,            \* gpu_thermal_guard_enabled, and a GPU is available
    over,               \* evaluations since over_threshold_since, 0 if none
    caused,             \* caused_pause of each guard
    banner,             \* AppState.gpu_thermal_guard
    clicks, failures, restarts

configVars  == <<cfg, disk, failures>>
managerVars == <<manager, seen, live>>
guardVars   == <<over, caused, banner>>
worldVars   == <<scene, inside, temp, guardOn, clicks, restarts>>
vars == <<configVars, task, queue, managerVars, guardVars, worldVars>>

\* The memberships, those connected, those accepting jobs, and p2p_mode.
Config == [joined: SUBSET Networks, conn: SUBSET Networks,
           acc: SUBSET Networks, mode: {"cluster", "swarm", "both"}]
Banner == [active: BOOLEAN, caused: BOOLEAN]
NoBanner == [active |-> FALSE, caused |-> FALSE]

Runs(config, k) == config.mode \in {k, "both"}
-----------------------------------------------------------------------------
StartConfig ==
    [joined |-> scene.joined, conn |-> scene.joined, acc |-> scene.joined,
     mode |-> IF scene.joined \cap Swarms = {} THEN "cluster" ELSE "both"]

\* What start-up makes of a configuration.
Started(config) == [k \in Kinds |-> IF Runs(config, k) THEN "start" ELSE "off"]

Init ==
    /\ scene \in Scenes
    /\ cfg = StartConfig /\ disk = StartConfig
    /\ task = [t \in Tasks |-> <<>>]
    /\ queue = [k \in Channels |-> 0]
    /\ manager = Started(cfg)
    /\ seen = [k \in Kinds |-> {}]
    /\ live = {}
    /\ inside = TRUE /\ temp = "cool" /\ guardOn = TRUE
    /\ over = [g \in Guards |-> 0] /\ caused = [g \in Guards |-> FALSE]
    /\ banner = NoBanner
    /\ clicks = 0 /\ failures = 0 /\ restarts = 0

-----------------------------------------------------------------------------
(* Writers *)

Idle(t) == task[t] = <<>>

\* cfg' is saved and the rest is still to be done; when the save fails the
\* change stays in memory and the task stops there.
Commit(t, rest) ==
    \/ /\ disk' = cfg'
       /\ task' = [task EXCEPT ![t] = rest]
       /\ UNCHANGED failures
    \/ /\ failures < scene.failures /\ failures' = failures + 1
       /\ UNCHANGED <<disk, task>>

Both == <<"cluster", "swarm">>

\* notify_clusters_changed; notify_swarms_changed, which also raises
\* RuntimeEvent::SwarmsChanged.
About(n) == IF n \in Clusters THEN <<"cluster">> ELSE <<"swarm", "event">>

Click(h) ==
    /\ Idle(h)
    /\ clicks < scene.clicks /\ clicks' = clicks + 1
    /\ UNCHANGED <<queue, managerVars, guardVars, scene, inside, temp, guardOn, restarts>>

\* disconnect_all, connect_all and set_pause_all
SwitchAll(h) ==
    /\ Click(h)
    /\ cfg' \in {[cfg EXCEPT !.conn = {}], [cfg EXCEPT !.conn = cfg.joined],
                 [cfg EXCEPT !.acc = {}],  [cfg EXCEPT !.acc = cfg.joined]}
    /\ Commit(h, Both)

\* Connect, disconnect and maintenance of one membership
SwitchOne(h, n) ==
    /\ Click(h)
    /\ n \in cfg.joined
    /\ cfg' \in {[cfg EXCEPT !.conn = @ \cup {n}], [cfg EXCEPT !.conn = @ \ {n}],
                 [cfg EXCEPT !.acc = @ \cup {n}],  [cfg EXCEPT !.acc = @ \ {n}]}
    /\ Commit(h, About(n))

\* Create or join: a new membership is connected and accepts jobs; a known
\* cluster keeps its switches, a known swarm is connected.
Join(h, n) ==
    /\ Click(h)
    /\ cfg' = [joined |-> cfg.joined \cup {n},
               conn   |-> IF n \in cfg.joined \cap Clusters
                          THEN cfg.conn ELSE cfg.conn \cup {n},
               acc    |-> IF n \in cfg.joined THEN cfg.acc ELSE cfg.acc \cup {n},
               mode   |-> IF n \in Swarms /\ cfg.mode = "cluster"
                          THEN IF cfg.joined \cap Clusters = {} THEN "swarm" ELSE "both"
                          ELSE cfg.mode]
    /\ Commit(h, About(n))

\* Variant: a removal tells no manager.
LeaveQuietly(h, n) ==
    /\ Click(h)
    /\ cfg' = [cfg EXCEPT !.joined = @ \ {n}, !.conn = @ \ {n}, !.acc = @ \ {n}]
    /\ Commit(h, <<>>)

Leave(h, n) ==
    /\ Click(h)
    /\ cfg' = [cfg EXCEPT !.joined = @ \ {n}, !.conn = @ \ {n}, !.acc = @ \ {n}]
    /\ Commit(h, About(n))

\* apply_schedules
ApplySchedules ==
    LET scheduled == scene.scheduled \cap cfg.joined
        want == IF inside THEN cfg.conn \cup scheduled ELSE cfg.conn \ scheduled
    IN
    /\ Idle(Scheduler)
    /\ want # cfg.conn
    /\ cfg' = [cfg EXCEPT !.conn = want]
    /\ Commit(Scheduler, Both)
    /\ UNCHANGED <<queue, managerVars, guardVars, worldVars>>

\* A notification waits for room in its channel.
Notify(t, k) ==
    /\ task[t] # <<>> /\ Head(task[t]) = k
    /\ queue[k] < Cap
    /\ queue' = [queue EXCEPT ![k] = @ + 1]
    /\ task' = [task EXCEPT ![t] = Tail(@)]
    /\ UNCHANGED <<configVars, managerVars, guardVars, worldVars>>

\* The event loop: spawn_swarm_manager, unless it runs or need not.
SwarmsChanged ==
    /\ queue["event"] > 0
    /\ queue' = [queue EXCEPT !["event"] = @ - 1]
    /\ manager' = IF manager["swarm"] = "off" /\ Runs(cfg, "swarm")
                  THEN [manager EXCEPT !["swarm"] = "start"] ELSE manager
    /\ UNCHANGED <<configVars, task, seen, live, guardVars, worldVars>>

-----------------------------------------------------------------------------
(* GpuThermalGuardTracker::evaluate, every ten seconds *)

Evaluates(g) ==
    /\ g \in scene.guards /\ Idle(g)
    /\ UNCHANGED <<queue, managerVars, worldVars>>

\* reset_if_inactive
GuardInactive(g) ==
    /\ ~guardOn /\ Evaluates(g)
    /\ over' = [over EXCEPT ![g] = IF caused[g] THEN @ ELSE 0]
    /\ banner' = IF ~caused[g] /\ banner.active /\ ~banner.caused
                 THEN NoBanner ELSE banner
    /\ UNCHANGED <<configVars, task, caused>>

\* Variant: every hot evaluation restarts the clock.
GuardHotRestarts(g) ==
    /\ guardOn /\ temp = "hot" /\ Evaluates(g)
    /\ over' = [over EXCEPT ![g] = 1]
    /\ IF over'[g] > Duration /\ ~caused[g]
       THEN /\ cfg' = [cfg EXCEPT !.acc = {}]
            /\ Commit(g, Append(Both, "paused"))
       ELSE UNCHANGED <<configVars, task>>
    /\ UNCHANGED <<caused, banner>>

\* At or above the threshold: pause everything once it has lasted.
GuardHot(g) ==
    /\ guardOn /\ temp = "hot" /\ Evaluates(g)
    /\ over' = [over EXCEPT ![g] = IF @ > Duration THEN @ ELSE @ + 1]
    /\ IF over'[g] > Duration /\ ~caused[g]
       THEN /\ cfg' = [cfg EXCEPT !.acc = {}]
            /\ Commit(g, Append(Both, "paused"))
       ELSE UNCHANGED <<configVars, task>>
    /\ UNCHANGED <<caused, banner>>

\* Variant: the banner is shown, caused_pause is not set.
GuardPausedShown(g) ==
    /\ task[g] # <<>> /\ Head(task[g]) = "paused"
    /\ task' = [task EXCEPT ![g] = <<"show">>]
    /\ UNCHANGED <<configVars, queue, managerVars, caused, over, banner, worldVars>>

\* caused_pause is set, then the banner under the lock of AppState.
GuardPaused(g) ==
    /\ task[g] # <<>> /\ Head(task[g]) = "paused"
    /\ task' = [task EXCEPT ![g] = <<"show">>]
    /\ caused' = [caused EXCEPT ![g] = TRUE]
    /\ UNCHANGED <<configVars, queue, managerVars, over, banner, worldVars>>

GuardShows(g) ==
    /\ task[g] # <<>> /\ Head(task[g]) = "show"
    /\ task' = [task EXCEPT ![g] = Tail(@)]
    /\ banner' = [active |-> TRUE, caused |-> TRUE]
    /\ UNCHANGED <<configVars, queue, managerVars, over, caused, worldVars>>

\* Between cooldown and threshold
GuardWarm(g) ==
    /\ guardOn /\ temp = "warm" /\ Evaluates(g)
    /\ over' = [over EXCEPT ![g] = 0]
    /\ UNCHANGED <<configVars, task, caused, banner>>

\* Variant: a guard resumes only once no banner is shown.
GuardCoolByBanner(g) ==
    /\ guardOn /\ temp = "cool" /\ Evaluates(g)
    /\ over' = [over EXCEPT ![g] = 0]
    /\ IF caused[g] /\ scene.autoResume /\ ~banner.active
       THEN /\ cfg' = [cfg EXCEPT !.acc = cfg.joined]
            /\ Commit(g, Append(Both, "resumed"))
       ELSE UNCHANGED <<configVars, task>>
    /\ banner' = IF caused[g] /\ ~scene.autoResume THEN [banner EXCEPT !.active = FALSE]
                 ELSE banner
    /\ UNCHANGED caused

GuardCool(g) ==
    /\ guardOn /\ temp = "cool" /\ Evaluates(g)
    /\ over' = [over EXCEPT ![g] = 0]
    /\ IF caused[g] /\ scene.autoResume
       THEN /\ cfg' = [cfg EXCEPT !.acc = cfg.joined]
            /\ Commit(g, Append(Both, "resumed"))
       ELSE UNCHANGED <<configVars, task>>
    /\ banner' = IF caused[g] /\ ~scene.autoResume THEN [banner EXCEPT !.active = FALSE]
                 ELSE banner
    /\ UNCHANGED caused

GuardResumed(g) ==
    /\ task[g] # <<>> /\ Head(task[g]) = "resumed"
    /\ task' = [task EXCEPT ![g] = <<"hide">>]
    /\ caused' = [caused EXCEPT ![g] = FALSE]
    /\ UNCHANGED <<configVars, queue, managerVars, over, banner, worldVars>>

GuardHides(g) ==
    /\ task[g] # <<>> /\ Head(task[g]) = "hide"
    /\ task' = [task EXCEPT ![g] = Tail(@)]
    /\ banner' = NoBanner
    /\ UNCHANGED <<configVars, queue, managerVars, over, caused, worldVars>>

-----------------------------------------------------------------------------
(* ClusterManager::run and SwarmManager::run *)

\* run reads the memberships before its loop.
Run(k) ==
    /\ manager[k] = "start"
    /\ manager' = [manager EXCEPT ![k] = "spawn"]
    /\ seen' = [seen EXCEPT ![k] = cfg.conn \cap Of(k)]
    /\ UNCHANGED <<configVars, task, queue, live, guardVars, worldVars>>

\* The configuration is read, then the sessions are stopped and started.
Notified(k) ==
    /\ manager[k] = "idle" /\ queue[k] > 0
    /\ queue' = [queue EXCEPT ![k] = @ - 1]
    /\ manager' = [manager EXCEPT ![k] = "reconcile"]
    /\ seen' = [seen EXCEPT ![k] = cfg.conn \cap Of(k)]
    /\ UNCHANGED <<configVars, task, live, guardVars, worldVars>>

\* Variant: reconcile starts sessions but stops none.
ReconcileStartsOnly(k) ==
    /\ manager[k] = "reconcile"
    /\ live' = live \cup seen[k]
    /\ manager' = [manager EXCEPT ![k] = "idle"]
    /\ UNCHANGED <<configVars, task, queue, seen, guardVars, worldVars>>

\* reconcile_clusters, reconcile_swarms: a start may fail.
Reconcile(k) ==
    /\ manager[k] = "reconcile"
    /\ \E started \in SUBSET (seen[k] \ live) :
         live' = (live \ (Of(k) \ seen[k])) \cup started
    /\ manager' = [manager EXCEPT ![k] = "idle"]
    /\ UNCHANGED <<configVars, task, queue, seen, guardVars, worldVars>>

\* The 15 s tick only starts what has no session.
Tick(k) ==
    /\ manager[k] = "idle"
    /\ (cfg.conn \cap Of(k)) \ live # {}
    /\ manager' = [manager EXCEPT ![k] = "spawn"]
    /\ seen' = [seen EXCEPT ![k] = cfg.conn \cap Of(k)]
    /\ UNCHANGED <<configVars, task, queue, live, guardVars, worldVars>>

Spawn(k) ==
    /\ manager[k] = "spawn"
    /\ \E started \in SUBSET (seen[k] \ live) : live' = live \cup started
    /\ manager' = [manager EXCEPT ![k] = "idle"]
    /\ UNCHANGED <<configVars, task, queue, seen, guardVars, worldVars>>

\* A session's task ends and is reaped.
SessionEnds(n) ==
    /\ n \in live
    /\ live' = live \ {n}
    /\ UNCHANGED <<configVars, task, queue, manager, seen, guardVars, worldVars>>

-----------------------------------------------------------------------------
(* The world: what nobody reads does not change. *)

ClockTurns ==
    /\ scene.scheduled # {}
    /\ inside' = ~inside
    /\ UNCHANGED <<configVars, task, queue, managerVars, guardVars,
                   scene, temp, guardOn, clicks, restarts>>

TempChanges ==
    /\ scene.guards # {}
    /\ temp' \in IF temp = "warm" THEN {"cool", "hot"} ELSE {"warm"}
    /\ UNCHANGED <<configVars, task, queue, managerVars, guardVars,
                   scene, inside, guardOn, clicks, restarts>>

\* The user changes the guard's setting, or the GPU appears or disappears.
ToggleGuard ==
    /\ scene.guards # {} /\ scene.toggles
    /\ guardOn' = ~guardOn
    /\ UNCHANGED <<configVars, task, queue, managerVars, guardVars,
                   scene, inside, temp, clicks, restarts>>

\* The process ends at any moment and starts again from what it has saved.
Restart ==
    /\ restarts < scene.restarts /\ restarts' = restarts + 1
    /\ cfg' = disk
    /\ task' = [t \in Tasks |-> <<>>]
    /\ queue' = [k \in Channels |-> 0]
    /\ manager' = Started(disk)
    /\ seen' = [k \in Kinds |-> {}]
    /\ live' = {}
    /\ over' = [g \in Guards |-> 0] /\ caused' = [g \in Guards |-> FALSE]
    /\ banner' = NoBanner
    /\ UNCHANGED <<disk, failures, scene, inside, temp, guardOn, clicks>>

-----------------------------------------------------------------------------
HandlerStep(h) ==
    \/ SwitchAll(h)
    \/ \E n \in Networks : SwitchOne(h, n) \/ Join(h, n) \/ Leave(h, n)

Notifies(t) == \E k \in Channels : Notify(t, k)

GuardStep(g) ==
    \/ GuardInactive(g) \/ GuardHot(g) \/ GuardPaused(g) \/ GuardShows(g)
    \/ GuardWarm(g) \/ GuardCool(g) \/ GuardResumed(g) \/ GuardHides(g)

ManagerStep(k) == Run(k) \/ Notified(k) \/ Reconcile(k) \/ Tick(k) \/ Spawn(k)

Next ==
    \/ \E h \in Handlers : HandlerStep(h)
    \/ \E t \in Tasks : Notifies(t)
    \/ ApplySchedules \/ SwarmsChanged
    \/ \E g \in Guards : GuardStep(g)
    \/ \E k \in Kinds : ManagerStep(k)
    \/ \E n \in Networks : SessionEnds(n)
    \/ ClockTurns \/ TempChanges \/ ToggleGuard \/ Restart

Spec == Init /\ [][Next]_vars

\* tokio polls every task, and its channels serve blocked senders in order.
FairSpec ==
    /\ Spec
    /\ \A t \in Tasks : SF_vars(Notifies(t))
    /\ \A g \in Guards : WF_vars(GuardStep(g))
    /\ \A k \in Kinds : SF_vars(Notified(k)) /\ WF_vars(ManagerStep(k))
    /\ WF_vars(ApplySchedules) /\ WF_vars(SwarmsChanged)
-----------------------------------------------------------------------------
(* Properties *)

\* Every variable keeps its type.
TypeOK ==
    /\ cfg \in Config /\ disk \in Config
    /\ task \in [Tasks -> Seq(Channels \cup {"paused", "show", "resumed", "hide"})]
    /\ queue \in [Channels -> 0..Cap]
    /\ manager \in [Kinds -> {"off", "start", "idle", "spawn", "reconcile"}]
    /\ seen \in [Kinds -> SUBSET Networks]
    /\ live \in SUBSET Networks
    /\ inside \in BOOLEAN /\ temp \in {"cool", "warm", "hot"} /\ guardOn \in BOOLEAN
    /\ over \in [Guards -> 0..(Duration + 1)]
    /\ caused \in [Guards -> BOOLEAN]
    /\ banner \in Banner
    /\ clicks \in 0..scene.clicks /\ failures \in 0..scene.failures /\ restarts \in 0..scene.restarts

Owed(k) == \E t \in Tasks : \E i \in DOMAIN task[t] : task[t][i] = k

\* Once every notification about a kind of network has been handled, no
\* session runs that the configuration has switched off or removed, whatever
\* was written while the manager was starting and stopping sessions.  (A writer
\* whose save failed has changed the configuration and tells nobody.)
SettledSessionsWanted ==
    failures = 0 => \A k \in Kinds : queue[k] = 0 /\ manager[k] \in {"off", "idle"} /\ ~Owed(k)
        => live \cap Of(k) \subseteq cfg.conn

\* "GPU thermal protection active" is shown only while some guard is going to
\* take it down again.
BannerHasGuard ==
    banner.active => \E g \in Guards : caused[g] \/ task[g] = <<"hide">>

\* Jobs that no user has paused are paused only while some guard knows that it has paused
\* them, or is at it: else nothing resumes them.  A failed save, and a restart, may lose
\* that knowledge.
PauseIsOwned ==
    clicks = 0 /\ failures = 0 /\ restarts = 0 /\ cfg.acc # cfg.joined
        => \E g \in scene.guards : caused[g] \/ "paused" \in {task[g][i] : i \in DOMAIN task[g]}

\* What the guards have done to the jobs and to the banner, they know of.
GuardsInv == TypeOK /\ BannerHasGuard /\ PauseIsOwned

Overheating == guardOn /\ temp = "hot"

\* A GPU that stays hot under a guard that is not paused or pausing pauses the jobs.
HotPauses ==
    (Overheating /\ \E g \in scene.guards : Idle(g) /\ ~caused[g])
        ~> (cfg.acc = {} \/ ~Overheating)

\* Jobs a guard has paused are resumed once the GPU stays cool, where that is wanted and
\* the process goes on: caused_pause is not saved.
CoolResumes ==
    (scene.autoResume /\ guardOn /\ temp = "cool" /\ \E g \in scene.guards : Idle(g) /\ caused[g])
        ~> (cfg.acc = cfg.joined \/ temp # "cool" \/ ~guardOn \/ restarts > 0)

\* "Only keep clusters & swarms connected during this time window each day."
\* (peer/ui/v2/index.html:996): outside the window the scheduled networks end
\* up without a session, where somebody reads the swarm manager's notifications: the
\* scheduler sends both kinds, and waits for ever on a full channel nobody reads.
OfflineOutside ==
    <>[]~inside => <>[](live \cap scene.scheduled = {} \/ manager["swarm"] = "off")

=============================================================================
