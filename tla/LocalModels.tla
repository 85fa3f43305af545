---------------------------- MODULE LocalModels ----------------------------
(***************************************************************************)
(* The registry of the model servers of this node and what the lobbies of  *)
(* its clusters are told of their models (llm_registry.rs, llm_monitor.rs, *)
(* poll_and_advertise of webrtc_manager.rs and the handlers of api/mod.rs  *)
(* that change servers and models).                                        *)
(*                                                                         *)
(* Five kinds of task share the configuration, the registry, the version   *)
(* and the list of models: the handler that holds the write guard of the   *)
(* configuration ("editor": the guard makes all such handlers one after    *)
(* the other), a handler that works from a copy of the configuration       *)
(* ("copier"), the monitor of the servers ("monitor"), and for every       *)
(* cluster the poll that tells its lobby.  A rebuild of the catalogue is   *)
(* one step for each server listed and one that commits.                   *)
(*                                                                         *)
(* A catalogue is a function from the names of models to the server that   *)
(* offers each and whether it is loaded there.  The status of the GPU,     *)
(* which the hash of an announcement covers as well, stays the same.       *)
(***************************************************************************)
EXTENDS Integers, Sequences, FiniteSets, Functions

CONSTANTS Servers,   \* the model servers that can be configured
          Models,    \* the names of models
          Clusters,  \* the clusters this node may be a member of
          Installed, \* the models each server has, loaded or not
          Cases      \* what may happen and how often, one record for each case

VARIABLES
  case,     \* the case explored; its bounds go down as they are used
  config,   \* llm_servers, hidden_models and accepting_jobs of the clusters
  registry, \* the runtime of each server in use: its order, whether it is connected
  routes,   \* model_routes and merged, which are always written together
  list,     \* local_models_full of the shared state
  hash,     \* last_advertised_hash of the shared state
  version,  \* cluster_state_version
  ready,    \* llm_ready
  loaded,   \* the models each server holds in memory
  up,       \* the servers that answer
  lobby,    \* for each cluster: the session and what its lobby was last told
  task,     \* where each task stands
  revived,  \* history: servers entered from an outdated copy of the configuration
  started,  \* history: clusters whose lobby was last told by a model start
  quiet,    \* history: how many changes there were that raise no version
  listed,   \* history: how many of them there had been when a poll began its listing
  heard     \* history: how many when the listing began that a lobby was last told of

notes == <<quiet, listed, heard>>
mvars == <<case, config, registry, routes, list, hash, version, ready, loaded, up,
          lobby, task, revived, started, notes>>

Handlers == {"editor", "copier", "monitor"}
Workers == Handlers \cup Clusters
NoModels == <<>>
NoCopy == [attached |-> {}, order |-> [s \in Servers |-> 0]]

\* The hash of an announcement: two are equal when the announcements are.
Sum(kind, models) == [kind |-> kind, models |-> models]
NoSum == Sum("none", NoModels)

At(pc) == [pc |-> pc, op |-> "none", todo |-> <<>>, pairs |-> <<>>, copy |-> NoCopy,
           force |-> FALSE, any |-> FALSE, seen |-> 0, last |-> NoSum, out |-> NoModels]
Idle == At("idle")

\* The order of the server attached next.
NextOrder == LET orders == {config.order[s] : s \in config.attached} IN
             IF orders = {} THEN 0 ELSE 1 + CHOOSE n \in orders : \A k \in orders : k <= n

\* The models found, the server asked first winning a name.
Merge(pairs) ==
  LET Offering(m) == {i \in DOMAIN pairs : m \in DOMAIN pairs[i].models}
      First(m) == CHOOSE i \in Offering(m) : \A j \in Offering(m) : i <= j
  IN [m \in {m \in Models : Offering(m) # {}} |->
        [server |-> pairs[First(m)].server, loaded |-> pairs[First(m)].models[m]]]

\* What may be told of a catalogue: the models loaded, neither hidden nor local.
Filter(catalogue) ==
  LET told == {m \in DOMAIN catalogue : /\ catalogue[m].loaded
                                        /\ m \notin config.hidden
                                        /\ catalogue[m].server \notin config.local}
  IN [m \in told |-> catalogue[m].server]
\* The same where the models do not name their server, so that none counts as local.
FilterNames(catalogue) ==
  LET told == {m \in DOMAIN catalogue : catalogue[m].loaded /\ m \notin config.hidden}
  IN [m \in told |-> catalogue[m].server]

\* The servers of the registry in the order they are asked in.
Orders(servers) ==
  {q \in [1..Cardinality(DOMAIN servers) -> DOMAIN servers] :
     \A i, j \in DOMAIN q : i < j => /\ q[i] # q[j]
                                     /\ servers[q[i]].order <= servers[q[j]].order}
Snapshot(s) == [server |-> s, models |-> [m \in Installed[s] |-> m \in loaded[s]]]

\* A case: the clusters joined, the servers attached and their order, the kinds of
\* changes, and how many changes, faults and lost sessions there may be.
ASSUME ModelsAssumption ==
  /\ IsFiniteSet(Servers) /\ Installed \in [Servers -> SUBSET Models]
  /\ Clusters \cap Handlers = {}
  /\ Cases \subseteq [clusters : SUBSET Clusters, attached : SUBSET Servers,
                     order : [Servers -> Nat], ops : SUBSET STRING,
                     changes : Nat, faults : Nat, drops : Nat]

----------------------------------------------------------------------------
\* The process starts: the registry is filled from the configuration before anything else.
InitWith(c) ==
  /\ case = c
  /\ config = [known |-> c.attached, attached |-> c.attached, local |-> {}, hidden |-> {},
               order |-> c.order, accepts |-> Clusters]
  /\ registry = <<>>
  /\ routes = NoModels /\ list = NoModels
  /\ hash = NoSum
  /\ version = 0
  /\ ready = FALSE
  /\ loaded = Installed
  /\ up = Servers
  /\ lobby = [k \in Clusters |->
                [online |-> FALSE, seen |-> 0, models |-> NoModels, accepting |-> FALSE]]
  /\ task = [[t \in Workers |-> Idle] EXCEPT !["editor"] =
               [At("sync") EXCEPT !.copy = [attached |-> c.attached, order |-> c.order]]]
  /\ revived = {} /\ started = {}
  /\ quiet = 0 /\ listed = [k \in Clusters |-> 0] /\ heard = [k \in Clusters |-> 0]

ModelsInit == \E c \in Cases : InitWith(c)

May(op) == op \in case.ops /\ case.changes > 0
Spend == case' = [case EXCEPT !.changes = @ - 1]
Syncing == {"attach", "detach", "delete", "patch"}
Bumping == {"detach", "delete", "patch", "maintenance", "load", "cell"}

\* A change goes by quietly when it is not followed by a new version.
Quietly(op) == /\ quiet' = IF op \in Bumping THEN quiet ELSE quiet + 1
               /\ UNCHANGED <<listed, heard>>
Readable == task["editor"].pc = "idle"    \* nobody holds the write guard

----------------------------------------------------------------------------
\* The handlers that hold the write guard: the change, the save, the sync.
Edit(op, change, pc) ==
  /\ May(op) /\ Spend
  /\ Readable
  /\ config' = change
  /\ task' = [task EXCEPT !["editor"] = [At(pc) EXCEPT !.op = op]]
  /\ Quietly(op)

Rest == UNCHANGED <<list, hash, version, ready, loaded, up, lobby, revived, started>>

AddServer(s) ==
  /\ s \notin config.known
  /\ Edit("add", [config EXCEPT !.known = @ \cup {s}, !.order[s] = NextOrder], "save")
  /\ UNCHANGED <<registry, routes>> /\ Rest

\* A server that does not answer the health check is not attached.
Attach(s) ==
  /\ s \in config.known /\ s \in up
  /\ LET order == IF s \in config.attached THEN config.order[s] ELSE NextOrder IN
       /\ Edit("attach", [config EXCEPT !.attached = @ \cup {s}, !.order[s] = order], "save")
       /\ registry' = [r \in DOMAIN registry \cup {s} |->
                         IF r = s THEN [order |-> order, connected |-> TRUE] ELSE registry[r]]
  /\ UNCHANGED routes /\ Rest

Without(s) == [r \in DOMAIN registry \ {s} |-> registry[r]]

\* A variant that leaves the runtime in the registry.
RemoveRoutes(s, op, change) ==
  /\ Edit(op, change, "save")
  /\ UNCHANGED registry
  /\ routes' = NoModels
  /\ Rest

Remove(s, op, change) ==
  /\ Edit(op, change, "save")
  /\ registry' = Without(s)
  /\ routes' = NoModels
  /\ Rest
Detach(s) ==
  /\ s \in config.attached
  /\ Remove(s, "detach", [config EXCEPT !.attached = @ \ {s}])

DeleteServer(s) ==
  /\ s \in config.known
  /\ Remove(s, "delete", [config EXCEPT !.known = @ \ {s}, !.attached = @ \ {s},
                                        !.local = @ \ {s}])

Flip(x, set) == IF x \in set THEN set \ {x} ELSE set \cup {x}

PatchServer(s) ==
  /\ s \in config.known
  /\ Edit(IF s \in config.attached THEN "patch" ELSE "add",
          [config EXCEPT !.local = Flip(s, @)], "save")
  /\ UNCHANGED <<registry, routes>> /\ Rest

SetVisibility ==
  /\ \/ \E m \in Models : Edit("hide", [config EXCEPT !.hidden = Flip(m, @)], "save")
     \/ Edit("hide", [config EXCEPT !.hidden = {}], "save")
     \/ Edit("hide", [config EXCEPT !.hidden = DOMAIN list], "save")
  /\ UNCHANGED <<registry, routes>> /\ Rest

\* Jobs of one cluster, or of all of them.
Maintenance ==
  /\ \/ \E k \in Clusters : Edit("maintenance", [config EXCEPT !.accepts = Flip(k, @)], "save")
     \/ \E on \in {{}, Clusters} : Edit("pause", [config EXCEPT !.accepts = on], "save")
  /\ UNCHANGED <<registry, routes>> /\ Rest

Copy == [attached |-> config.attached, order |-> config.order]

\* What follows once the list is written, or at once where nothing is synced.
Bump(op) == IF op \in Bumping THEN version + 1 ELSE version

Save ==
  LET op == task["editor"].op IN
  /\ task["editor"].pc = "save"
  /\ \/ /\ task' = [task EXCEPT !["editor"] =
                      IF op \in Syncing
                      THEN [At("sync") EXCEPT !.op = op, !.copy = Copy] ELSE Idle]
        /\ version' = IF op \in Syncing THEN version ELSE Bump(op)
        /\ UNCHANGED <<case, notes>>
     \/ /\ case.faults > 0      \* the file cannot be written: the change stays, nothing follows
        /\ case' = [case EXCEPT !.faults = @ - 1]
        /\ task' = [task EXCEPT !["editor"] = Idle]
        /\ Quietly("none")
        /\ UNCHANGED version
  /\ UNCHANGED <<config, registry, routes, list, hash, ready, loaded, up, lobby, revived,
                 started>>

\* The registry as a copy of the configuration wants it, with some of the missing.
Entered(copy, new) ==
  [s \in (DOMAIN registry \cap copy.attached) \cup new |->
     [order |-> copy.order[s],
      connected |-> IF s \in DOMAIN registry THEN registry[s].connected ELSE TRUE]]

\* With no server left the list is cleared, otherwise the catalogue is rebuilt.  When
\* a backend cannot be built the servers after it are left out, and no list follows.
Sync(t) ==
  LET copy == task[t].copy
      missing == copy.attached \ DOMAIN registry
      Enter(new) ==
        /\ registry' = Entered(copy, new)
        /\ revived' = (revived \cap copy.attached) \cup (new \ config.attached)
  IN
  /\ task[t].pc = "sync"
  /\ \/ /\ Enter(missing)
        /\ IF registry' = <<>>
           THEN task' = [task EXCEPT ![t].pc = "write"]
           ELSE \E q \in Orders(registry') :
                  task' = [task EXCEPT ![t].pc = "list", ![t].todo = q]
        /\ UNCHANGED <<case, version>>
     \/ /\ case.faults > 0
        /\ case' = [case EXCEPT !.faults = @ - 1]
        /\ \E new \in SUBSET missing : Enter(new)
        /\ task' = [task EXCEPT ![t] = Idle]
        /\ version' = Bump(task[t].op)
  /\ Quietly(task[t].op)
  /\ UNCHANGED <<config, routes, list, hash, ready, loaded, up, lobby, started>>

\* A rebuild asks the servers one after the other; one that left is passed over.
List(t) ==
  LET s == Head(task[t].todo) IN
  /\ task[t].pc = "list" /\ task[t].todo # <<>>
  /\ task' = [task EXCEPT ![t].todo = Tail(@),
                          ![t].pairs = IF s \in DOMAIN registry /\ s \in up
                                       THEN Append(@, Snapshot(s)) ELSE @]
  /\ registry' = IF s \in DOMAIN registry
                 THEN [registry EXCEPT ![s].connected = s \in up] ELSE registry
  /\ UNCHANGED <<case, config, routes, list, hash, version, ready, loaded, up, lobby,
                 revived,
                 started, notes>>

Commit(t) ==
  /\ task[t].pc = "list" /\ task[t].todo = <<>>
  /\ routes' = Merge(task[t].pairs)
  /\ task' = [task EXCEPT ![t].pc = IF t \in Handlers THEN "write" ELSE "filter"]
  /\ UNCHANGED <<case, config, registry, list, hash, version, ready, loaded, up, lobby,
                 revived,
                 started, notes>>

\* A handler writes the list and, where it does so, makes every poll tell its lobby.
WriteList(t) ==
  /\ t \in Handlers /\ task[t].pc = "write"
  /\ list' = Merge(task[t].pairs)
  /\ version' = Bump(task[t].op)
  /\ task' = [task EXCEPT ![t] = Idle]
  /\ UNCHANGED <<case, config, registry, routes, hash, ready, loaded, up, lobby, revived,
                 started, notes>>

----------------------------------------------------------------------------
\* The handlers that work from a copy, with no guard held.
Copying(op) ==
  /\ May(op) /\ Spend
  /\ task["copier"].pc = "idle"
  /\ UNCHANGED <<config, registry, routes, list, hash, version, ready, up, lobby, revived,
                 started, notes>>

\* A new key for a server: the backends are built again.
PutApiKey(s) ==
  /\ Readable /\ s \in config.attached
  /\ Copying("key")
  /\ task' = [task EXCEPT !["copier"] = [At("sync") EXCEPT !.op = "key", !.copy = Copy]]
  /\ UNCHANGED loaded

\* A model is loaded or unloaded through the backend that serves it.
LoadModel(m) ==
  /\ m \in DOMAIN routes /\ routes[m].server \in DOMAIN registry \cap up
  /\ Copying("load")
  /\ loaded' = [loaded EXCEPT ![routes[m].server] = Flip(m, @)]
  /\ task' = [task EXCEPT !["copier"] = [At("copy") EXCEPT !.op = "load"]]

TakeCopy ==
  /\ task["copier"].pc = "copy" /\ Readable
  /\ task' = [task EXCEPT !["copier"].pc = "sync", !["copier"].copy = Copy]
  /\ UNCHANGED <<case, config, registry, routes, list, hash, version, ready, loaded, up,
                 lobby, revived,
                 started, notes>>

\* An inference cell is asked at the address in the list: no sync follows.
LoadInCell(m) ==
  /\ Readable
  /\ m \in DOMAIN list /\ list[m].server \in up
  /\ Copying("cell")
  /\ loaded' = [loaded EXCEPT ![list[m].server] = Flip(m, @)]
  /\ \E q \in Orders(registry) :
       task' = [task EXCEPT !["copier"] = [At("list") EXCEPT !.op = "cell", !.todo = q]]

----------------------------------------------------------------------------
\* The monitor: every server in turn, then a new catalogue if anything changed.
MonitorTick ==
  /\ "fail" \in case.ops
  /\ task["monitor"].pc = "idle"
  /\ IF registry = <<>>
     THEN ready' = FALSE /\ UNCHANGED task
     ELSE /\ \E q \in Orders(registry) :
               task' = [task EXCEPT !["monitor"] = [At("probe") EXCEPT !.todo = q]]
          /\ UNCHANGED ready
  /\ UNCHANGED <<case, config, registry, routes, list, hash, version, loaded, up, lobby,
                 revived,
                 started, notes>>

Probe ==
  LET s == Head(task["monitor"].todo)
      there == s \in DOMAIN registry
      ok == s \in up
  IN
  /\ task["monitor"].pc = "probe" /\ task["monitor"].todo # <<>>
  /\ task' = [task EXCEPT !["monitor"].todo = Tail(@),
                          !["monitor"].force = @ \/ (there /\ registry[s].connected # ok),
                          !["monitor"].any = @ \/ (there /\ ok)]
  /\ registry' = IF there THEN [registry EXCEPT ![s].connected = ok] ELSE registry
  /\ UNCHANGED <<case, config, routes, list, hash, version, ready, loaded, up, lobby,
                 revived,
                 started, notes>>

Changed(found) == found.force \/ ready # found.any

Probed ==
  LET found == task["monitor"] IN
  /\ found.pc = "probe" /\ found.todo = <<>>
  /\ ready' = found.any
  /\ IF Changed(found)
     THEN /\ version' = version + 1
          /\ \E q \in Orders(registry) :
               task' = [task EXCEPT !["monitor"] = [At("list") EXCEPT !.todo = q]]
     ELSE /\ task' = [task EXCEPT !["monitor"] = Idle]
          /\ UNCHANGED version
  /\ UNCHANGED <<case, config, registry, routes, list, hash, loaded, up, lobby, revived,
                 started, notes>>

----------------------------------------------------------------------------
\* The session of a cluster and its poll.
Untouched == UNCHANGED <<case, config, registry, routes, version, ready, loaded, up, revived, quiet>>
Unheard == UNCHANGED <<listed, heard>>
Hears(k, when) == heard' = [heard EXCEPT ![k] = when] /\ UNCHANGED listed

\* Registered with the lobby: the first poll is forced.
Register(k) ==
  /\ k \in case.clusters /\ ~lobby[k].online
  /\ lobby' = [lobby EXCEPT ![k].online = TRUE]
  /\ task' = [task EXCEPT ![k] = [At("check") EXCEPT !.force = TRUE, !.seen = version]]
  /\ Untouched /\ Unheard /\ UNCHANGED <<list, hash, started>>

Lose(k) ==
  /\ lobby[k].online /\ case.drops > 0
  /\ case' = [case EXCEPT !.drops = @ - 1]
  /\ lobby' = [lobby EXCEPT ![k] = [online |-> FALSE, seen |-> 0, models |-> NoModels,
                                    accepting |-> FALSE]]
  /\ task' = [task EXCEPT ![k] = Idle]
  /\ started' = started \ {k}
  /\ UNCHANGED <<config, registry, routes, list, hash, version, ready, loaded, up, revived, notes>>

Poll(k) ==
  /\ lobby[k].online /\ task[k].pc = "idle"
  /\ task' = [task EXCEPT ![k] = [At("check") EXCEPT !.force = version # lobby[k].seen,
                                                      !.seen = version]]
  /\ Untouched /\ Unheard /\ UNCHANGED <<list, hash, lobby, started>>

\* Whether a poll tells its lobby what it found.
Tells(k, sum) == task[k].force \/ sum # task[k].last

PollCheck(k) ==
  /\ task[k].pc = "check" /\ Readable
  /\ IF k \notin config.accepts
     THEN /\ IF task[k].force \/ hash.kind # "maintenance"
             THEN /\ hash' = Sum("maintenance", NoModels)
                  /\ task' = [task EXCEPT ![k] = [At("tell") EXCEPT !.op = "maintenance"]]
                  /\ Hears(k, quiet)
             ELSE /\ task' = [task EXCEPT ![k] = Idle]
                  /\ Unheard /\ UNCHANGED hash
     ELSE /\ IF registry = <<>>
             THEN task' = [task EXCEPT ![k].pc = "none"]
             ELSE \E q \in Orders(registry) :
                    task' = [task EXCEPT ![k].pc = "list", ![k].todo = q, ![k].last = hash]
          /\ listed' = [listed EXCEPT ![k] = quiet]
          /\ UNCHANGED <<hash, heard>>
  /\ Untouched /\ UNCHANGED <<list, lobby, started>>

PollNone(k) ==
  /\ task[k].pc = "none"
  /\ IF task[k].force \/ hash.kind # "noservers"
     THEN /\ list' = NoModels
          /\ hash' = Sum("noservers", NoModels)
          /\ lobby' = [lobby EXCEPT ![k].seen = task[k].seen]
          /\ task' = [task EXCEPT ![k] = At("tell")]
          /\ Hears(k, listed[k])
     ELSE /\ task' = [task EXCEPT ![k] = Idle]
          /\ Unheard /\ UNCHANGED <<list, hash, lobby>>
  /\ Untouched /\ UNCHANGED started

PollFilter(k) ==
  LET out == Filter(Merge(task[k].pairs)) IN
  /\ task[k].pc = "filter" /\ Readable
  /\ task' = IF Tells(k, Sum("models", out))
             THEN [task EXCEPT ![k].pc = "store", ![k].out = out]
             ELSE [task EXCEPT ![k] = Idle]
  /\ Untouched /\ Unheard /\ UNCHANGED <<list, hash, lobby, started>>

\* A variant that takes the version once more when it stores it.
PollStoreLatest(k) ==
  /\ task[k].pc = "store"
  /\ list' = Merge(task[k].pairs)
  /\ hash' = Sum("models", task[k].out)
  /\ lobby' = [lobby EXCEPT ![k].seen = version]
  /\ task' = [task EXCEPT ![k] = [At("tell") EXCEPT !.out = task[k].out]]
  /\ Hears(k, listed[k])
  /\ Untouched /\ UNCHANGED started

PollStore(k) ==
  /\ task[k].pc = "store"
  /\ list' = Merge(task[k].pairs)
  /\ hash' = Sum("models", task[k].out)
  /\ lobby' = [lobby EXCEPT ![k].seen = task[k].seen]
  /\ task' = [task EXCEPT ![k] = [At("tell") EXCEPT !.out = task[k].out]]
  /\ Hears(k, listed[k])
  /\ Untouched /\ UNCHANGED started

PollTell(k) ==
  /\ task[k].pc = "tell"
  /\ task[k].op = "maintenance" \/ Readable
  /\ lobby' = [lobby EXCEPT ![k].models = task[k].out,
                            ![k].accepting = task[k].op # "maintenance" /\ k \in config.accepts]
  /\ started' = started \ {k}
  /\ task' = [task EXCEPT ![k] = Idle]
  /\ Untouched /\ Unheard /\ UNCHANGED <<list, hash>>

\* A model started for a peer: its server alone is listed and told, at once.
ModelStarted(k) ==
  /\ May("start") /\ Spend /\ Readable
  /\ lobby[k].online /\ registry # <<>>
  /\ \E q \in Orders(registry) : \E m \in Installed[Head(q)] :
       LET s == Head(q)
           found == [n \in Installed[s] |-> [server |-> s, loaded |-> n \in loaded[s] \cup {m}]]
       IN
       /\ s \in up
       /\ loaded' = [loaded EXCEPT ![s] = @ \cup {m}]
       /\ list' = found
       /\ lobby' = [lobby EXCEPT ![k].models = FilterNames(found), ![k].accepting = TRUE]
  /\ started' = started \cup {k}
  /\ Quietly("start")
  /\ UNCHANGED <<config, registry, routes, hash, version, ready, up, task, revived>>

----------------------------------------------------------------------------
\* The servers themselves: models come and go, a server stops answering or returns.
Backend ==
  /\ \/ /\ May("backend")
        /\ \E s \in Servers : \E m \in Installed[s] : loaded' = [loaded EXCEPT ![s] = Flip(m, @)]
        /\ UNCHANGED up
     \/ /\ May("fail")
        /\ \E s \in Servers : up' = Flip(s, up)
        /\ UNCHANGED loaded
  /\ Spend /\ Quietly("none")
  /\ UNCHANGED <<config, registry, routes, list, hash, version, ready, lobby, task, revived,
                 started>>

Edits ==
  \/ \E s \in Servers : \/ AddServer(s) \/ Attach(s) \/ Detach(s) \/ DeleteServer(s)
                        \/ PatchServer(s)
  \/ SetVisibility \/ Maintenance \/ Save

Copies == \/ \E s \in Servers : PutApiKey(s)
          \/ \E m \in Models : LoadModel(m) \/ LoadInCell(m)
          \/ TakeCopy

Monitors == MonitorTick \/ Probe \/ Probed
Rebuilds == \/ \E t \in {"editor", "copier"} : Sync(t)
            \/ \E t \in Workers : List(t) \/ Commit(t) \/ WriteList(t)
Polls == \E k \in Clusters :
           \/ Register(k) \/ Lose(k) \/ Poll(k) \/ PollCheck(k) \/ PollNone(k)
           \/ PollFilter(k) \/ PollStore(k) \/ PollTell(k) \/ ModelStarted(k)

ModelsNext == Edits \/ Copies \/ Monitors \/ Rebuilds \/ Polls \/ Backend
ModelsSpec == ModelsInit /\ [][ModelsNext]_mvars

----------------------------------------------------------------------------
\* The state is well formed: the registry orders servers, a lobby was told servers of this
\* node, and only the editor saves.  An announcement is kept apart from its hash.
ModelsTypeOK ==
  /\ config.attached \subseteq config.known /\ config.known \subseteq Servers
  /\ config.local \subseteq config.known
  /\ DOMAIN registry \subseteq Servers
  /\ DOMAIN list \subseteq Models /\ DOMAIN routes \subseteq Models
  /\ hash.kind \in {"none", "maintenance", "noservers", "models"}
  /\ \A k \in Clusters : /\ lobby[k].models \in [DOMAIN lobby[k].models -> Servers]
                         /\ lobby[k].seen \in 0..version
  /\ \A t \in Workers : task[t].pc = "save" => t = "editor"

\* What the lobby of a cluster ought to show when all is at rest.
Answering == {s \in DOMAIN registry : s \in up}
Offer ==
  LET q == CHOOSE q \in Orders([s \in Answering |-> registry[s]]) : TRUE IN
  Filter(Merge([i \in DOMAIN q |-> Snapshot(q[i])]))
NextSum(k) == IF k \notin config.accepts THEN Sum("maintenance", NoModels)
              ELSE IF registry = <<>> THEN Sum("noservers", NoModels)
              ELSE Sum("models", Offer)
\* Nothing is under way for a cluster, and its next poll will not tell its lobby.
Settled(k) == /\ lobby[k].online /\ task[k].pc = "idle"
              /\ \A t \in Handlers : task[t].pc = "idle"
              /\ lobby[k].seen = version /\ hash = NextSum(k)

\* Once a poll leaves its lobby alone, the lobby has been told exactly what this node
\* offers: the models of the servers in use that are loaded, answered for, not hidden and
\* not local, or none in maintenance, and invites no jobs in maintenance.  A change may
\* come between any two steps of a poll, and the hash a poll compares with is the one any
\* cluster's poll wrote last (poll_and_advertise, sync_registry_after_config_change,
\* spawn_llm_monitor).  With several clusters this is not so after a change that raises no
\* version: the first poll that notices it stores the hash, and every other one takes its
\* lobby for told.  It is claimed of them when no such change came after the listing their
\* lobby was last told of.  A lobby last told by a model start is left out: that message
\* names one server only.
NothingMissed ==
  \A k \in Clusters :
    Settled(k) /\ k \notin started /\ (case.clusters = {k} \/ heard[k] = quiet) =>
      /\ lobby[k].models = NextSum(k).models
      /\ lobby[k].accepting => k \in config.accepts

\* A server that was detached or deleted has no runtime, so nothing is sent to it any more,
\* unless a handler that works from an outdated copy of the configuration has put it back
\* (LlmServerRegistry::detach, remove_server, sync_from_config).
DetachedUnused == Readable => DOMAIN registry \subseteq config.attached \cup revived

\* The registry, the lists and the configuration fit each other.
ModelsInv == ModelsTypeOK /\ DetachedUnused

=============================================================================
