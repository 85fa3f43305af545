----------------------------- MODULE SwarmCatalog -----------------------------
(***************************************************************************)
(* What a node knows of the models its swarms offer, from a provider's     *)
(* announcement to the list its users see (peer/src/p2p_manager.rs,        *)
(* swarm_manager.rs, network_catalog.rs, peer_ranking.rs).                 *)
(*                                                                         *)
(* Every 30 s a member announces its record to each of its swarms twice:   *)
(* by gossip, cut to what one message holds, and directly to the peers it  *)
(* is connected to. Announcements carry no version; they may be lost and   *)
(* overtake each other. The P2pManager of a swarm caches them by peer,     *)
(* rebuilds its swarm's catalogue, and merges all swarms' catalogues into  *)
(* the list of the shared state. The SwarmManager starts and stops them:   *)
(* an aborted task may go on up to its next suspension.                    *)
(*                                                                         *)
(* A manager's rebuild takes and releases three locks in turn: one action  *)
(* each (Insert, Merge, Write). A record is whether jobs are accepted and  *)
(* the models; load, latency and hardware only order the candidates.       *)
(***************************************************************************)
EXTENDS Naturals, FiniteSets

CONSTANTS
    Swarms,
    Me,             \* this node
    Others,         \* the other members of its swarms
    Models,
    MaxGossip,      \* models one gossip message has room for
    None,
    Cases           \* the swarms that are on, the memberships, the models of each
                    \* member, the blocked peers, and how much may happen

Members == Others \cup {Me}
Tasks   == Swarms \cup {"manager"}      \* the P2pManagers and the SwarmManager
Record  == [accepting : BOOLEAN, models : SUBSET Models]
Via     == {"gossip", "direct"}

\* The models are those a node has heard of, so there are finitely many.
ASSUME SwarmCatalogAssumption ==
    /\ Me \notin Others /\ "manager" \notin Swarms
    /\ IsFiniteSet(Models) /\ MaxGossip \in Nat
    /\ \A c \in Cases : c.has \in [Members -> SUBSET Models]

VARIABLES
    wanted,     \* client_config: the swarm is to be connected
    handle,     \* swarm_handles has a task, swarm_cmd_txs its sender
    task,       \* the P2pManager: "off", "starting", "running", "aborted", "ended"
    offer,      \* what a member offers in a swarm: Record
    air,        \* announcements on their way, as <<via, record>>
    cache,      \* peer_cache of a swarm's manager
    pc,         \* where a task is in its rebuild: "idle", "insert", "merge", "write"
    catalog,    \* swarm_network_models: offers of a swarm, as <<model, peer>>
    view,       \* the merged list a task is about to write
    shown,      \* SharedState.network_models, as <<model, swarm, peer>>
    ask,        \* a request without a target: [at, model, swarm]
    blocked,    \* peers the user has blocked
    joined,     \* who is a member of which swarm, as <<swarm, peer>>
    left        \* bound: changes, switches, failed starts, requests, breaks to come

manager == <<wanted, handle, task>>
lists   == <<pc, catalog, view, shown>>
fixed   == <<blocked, joined>>
cvars   == <<manager, offer, air, cache, lists, ask, fixed, left>>

Asking(at, m, s) == [at |-> at, model |-> m, swarm |-> s]
Idle == Asking("none", None, None)

InitWith(c) ==
    /\ wanted = [s \in Swarms |-> s \in c.on] /\ joined = c.joined
    /\ handle = [s \in Swarms |-> FALSE] /\ task = [s \in Swarms |-> "off"]
    /\ offer = [s \in Swarms |-> [p \in Members |-> [accepting |-> TRUE, models |-> c.has[p]]]]
    /\ air = [s \in Swarms |-> [p \in Others |-> {}]]
    /\ cache = [s \in Swarms |-> [p \in Others |-> None]]
    /\ pc = [t \in Tasks |-> "idle"]
    /\ catalog = [s \in Swarms |-> {}] /\ view = [t \in Tasks |-> {}] /\ shown = {}
    /\ ask = Idle /\ blocked = c.blocked /\ left = c.left

CatalogInit == \E c \in Cases : InitWith(c)

-----------------------------------------------------------------------------
(* The other members *)

\* A member's accepting_jobs flag of a swarm, or the models it serves (which
\* are the same in every swarm), change. A change of this node's own models
\* reaches its catalogues with the next rebuild.
Change(p) ==
    /\ left.changes > 0
    /\ left' = [left EXCEPT !.changes = @ - 1]
    /\ \/ \E s \in Swarms : offer' = [offer EXCEPT ![s][p].accepting = ~@]
       \/ \E ms \in SUBSET Models :
            offer' = [s \in Swarms |-> [offer[s] EXCEPT ![p].models = ms]]
    /\ UNCHANGED <<manager, air, cache, lists, ask, fixed>>

\* How many of n models are left when half of them are dropped at a time until
\* the message fits.
Halved(n) ==
    LET rest[k \in 0..n] == IF k <= MaxGossip THEN k ELSE rest[k \div 2]
    IN  rest[n]

\* fit_catalog_gossip
Cut(r) == [r EXCEPT !.models = CHOOSE ms \in SUBSET @ :
                                 Cardinality(ms) = Halved(Cardinality(@))]

\* Variant: what goes to connected peers is cut as well.
DirectCut(r) == Cut(r)

\* build_catalog_sync
Direct(r) == r

\* publish_catalog of another member. Every record announced takes one place
\* in `air`, however often it is repeated.
Announce(s, p) ==
    /\ <<s, p>> \in joined
    /\ air' = [air EXCEPT ![s][p] = @ \cup {<<"gossip", Cut(offer[s][p])>>,
                                           <<"direct", Direct(offer[s][p])>>}]
    /\ UNCHANGED <<manager, offer, cache, lists, ask, fixed, left>>

\* Gossip is lost at any time, a direct announcement only with its connection.
Lose(s, p) ==
    \E a \in air[s][p] :
        /\ air' = [air EXCEPT ![s][p] = @ \ {a}]
        /\ \/ a[1] = "gossip" /\ UNCHANGED left
           \/ a[1] = "direct" /\ left.breaks > 0 /\ left' = [left EXCEPT !.breaks = @ - 1]
        /\ UNCHANGED <<manager, offer, cache, lists, ask, fixed>>

-----------------------------------------------------------------------------
(* A swarm's P2pManager *)

\* P2pManager::run up to its loop: the first catalogue is built.
StartTask(s) ==
    /\ task[s] = "starting"
    /\ task' = [task EXCEPT ![s] = "running"]
    /\ pc' = [pc EXCEPT ![s] = "insert"]
    /\ UNCHANGED <<wanted, handle, offer, air, cache, catalog, view, shown, ask, fixed, left>>

Dropped(s) == IF ask.at = "queued" /\ ask.swarm = s THEN [ask EXCEPT !.at = "closed"] ELSE ask

\* listen_on, or the key, fails: the task ends, and its receivers with it.
StartFails(s) ==
    /\ task[s] = "starting" /\ left.failures > 0
    /\ left' = [left EXCEPT !.failures = @ - 1]
    /\ task' = [task EXCEPT ![s] = "ended"]
    /\ ask' = Dropped(s)
    /\ UNCHANGED <<wanted, handle, offer, air, cache, lists, fixed>>

InLoop(s) == task[s] = "running" /\ pc[s] = "idle"

\* The 30 s tick: this node announces itself and rebuilds.
Publish(s) ==
    /\ InLoop(s)
    /\ pc' = [pc EXCEPT ![s] = "insert"]
    /\ UNCHANGED <<manager, offer, air, cache, catalog, view, shown, ask, fixed, left>>

\* Variant: the catalogue is rebuilt at the next tick.
RebuildLater(s) == pc

ThenRebuild(s) == [pc EXCEPT ![s] = "insert"]

\* Variant: models are added to those known.
StoredAdded(old, r) == IF old = None THEN r ELSE [r EXCEPT !.models = @ \cup old.models]

Stored(old, r) == r

\* apply_remote_catalog, from gossip or directly.
Receive(s, p, via) ==
    /\ InLoop(s)
    /\ \E a \in air[s][p] :
        /\ a[1] = via
        /\ air' = [air EXCEPT ![s][p] = @ \ {a}]
        /\ cache' = [cache EXCEPT ![s][p] = Stored(@, a[2])]
    /\ pc' = ThenRebuild(s)
    /\ UNCHANGED <<manager, offer, catalog, view, shown, ask, fixed, left>>

\* The record of a member as the manager of s knows it.
Known(s, p) == IF p = Me THEN offer[s][Me] ELSE cache[s][p]

Accepting(s) == {p \in Members : Known(s, p) # None /\ Known(s, p).accepting}

\* rebuild_swarm_catalog: this swarm's offers, one entry per model and peer.
Insert(s) ==
    /\ pc[s] = "insert"
    /\ catalog' = [catalog EXCEPT ![s] = UNION {Known(s, p).models \X {p} : p \in Accepting(s)}]
    /\ pc' = [pc EXCEPT ![s] = "merge"]
    /\ UNCHANGED <<manager, offer, air, cache, view, shown, ask, fixed, left>>

Offers == UNION {{<<o[1], s, o[2]>> : o \in catalog[s]} : s \in Swarms}

\* sync_unified_network_models, up to the release of the maps' locks ...
Merge(t) ==
    /\ pc[t] = "merge"
    /\ view' = [view EXCEPT ![t] = Offers]
    /\ pc' = [pc EXCEPT ![t] = "write"]
    /\ UNCHANGED <<manager, offer, air, cache, catalog, shown, ask, fixed, left>>

\* ... and its end: what was merged is written, whatever was written since.
Write(t) ==
    /\ pc[t] = "write"
    /\ shown' = view[t] /\ view' = [view EXCEPT ![t] = {}]
    /\ pc' = [pc EXCEPT ![t] = "idle"]
    /\ UNCHANGED <<manager, offer, air, cache, catalog, ask, fixed, left>>

\* An aborted task is dropped at a suspension: with its turn, or in a rebuild.
Cancel(s) ==
    /\ task[s] = "aborted"
    /\ task' = [task EXCEPT ![s] = "off"]
    /\ pc' = [pc EXCEPT ![s] = "idle"] /\ view' = [view EXCEPT ![s] = {}]
    /\ cache' = [cache EXCEPT ![s] = [p \in Others |-> None]]
    /\ UNCHANGED <<wanted, handle, offer, air, catalog, shown, ask, fixed, left>>

-----------------------------------------------------------------------------
(* The SwarmManager *)

InManager == pc["manager"] = "idle"

\* A handler saves the switch; the notification is NetworkControl's subject.
Switch(s) ==
    /\ left.switches > 0
    /\ left' = [left EXCEPT !.switches = @ - 1]
    /\ wanted' = [wanted EXCEPT ![s] = ~@]
    /\ UNCHANGED <<handle, task, offer, air, cache, lists, ask, fixed>>

\* spawn_swarm, from a reconcile or the 15 s tick. The aborted task of the same
\* swarm is gone by then: looking up the bootnodes takes longer.
Spawn(s) ==
    /\ InManager /\ wanted[s] /\ ~handle[s] /\ task[s] = "off"
    /\ handle' = [handle EXCEPT ![s] = TRUE]
    /\ task' = [task EXCEPT ![s] = "starting"]
    /\ UNCHANGED <<wanted, offer, air, cache, lists, ask, fixed, left>>

\* stop_swarm: the swarm's catalogue is removed and the list written again.
StopSwarm(s) ==
    /\ InManager /\ ~wanted[s] /\ handle[s]
    /\ handle' = [handle EXCEPT ![s] = FALSE]
    /\ task' = [task EXCEPT ![s] = IF @ = "ended" THEN "off" ELSE "aborted"]
    /\ catalog' = [catalog EXCEPT ![s] = {}]
    /\ pc' = [pc EXCEPT !["manager"] = "merge"]
    /\ ask' = Dropped(s)
    /\ UNCHANGED <<wanted, offer, air, cache, view, shown, fixed, left>>

\* reap_finished_swarm_tasks
Reap(s) ==
    /\ InManager /\ handle[s] /\ task[s] = "ended"
    /\ handle' = [handle EXCEPT ![s] = FALSE]
    /\ task' = [task EXCEPT ![s] = "off"]
    /\ UNCHANGED <<wanted, offer, air, cache, lists, ask, fixed, left>>

-----------------------------------------------------------------------------
(* A request that names neither a swarm nor a peer *)

Count(m, s) == Cardinality({o \in catalog[s] : o[1] = m})

\* find_swarm_for_model: a swarm that counts the most peers, this node and
\* blocked ones included.
Best(m) == {s \in Swarms : Count(m, s) > 0 /\ \A x \in Swarms : Count(m, x) <= Count(m, s)}

\* route_proxy_cmd. A swarm without a sender refuses; one whose task has ended
\* drops the request.
Route(m) ==
    /\ InManager /\ ask.at = "none" /\ left.asks > 0
    /\ left' = [left EXCEPT !.asks = @ - 1]
    /\ \/ Best(m) = {} /\ ask' = Asking("refused", m, None)
       \/ \E s \in Best(m) :
            ask' = Asking(CASE ~handle[s] -> "refused"
                            [] handle[s] /\ task[s] = "ended" -> "closed"
                            [] OTHER -> "queued", m, s)
    /\ UNCHANGED <<manager, offer, air, cache, lists, fixed>>

\* rank_swarm_peers_for_model_with_tee: whom a request may go to.
Candidates(s, m) ==
    {p \in Others \ blocked : cache[s][p] # None /\ cache[s][p].accepting
                              /\ m \in cache[s][p].models}

\* Variant: without a candidate nothing is answered.
RankSilently(s) ==
    /\ InLoop(s) /\ ask.at = "queued" /\ ask.swarm = s
    /\ Candidates(s, ask.model) # {}
    /\ ask' = [ask EXCEPT !.at = "sent"]
    /\ UNCHANGED <<manager, offer, air, cache, lists, fixed, left>>

\* handle_proxy_cmd up to the choice of the peer; SwarmProxy goes on from there.
Rank(s) ==
    /\ InLoop(s) /\ ask.at = "queued" /\ ask.swarm = s
    /\ ask' = [ask EXCEPT !.at = IF Candidates(s, ask.model) = {} THEN "refused" ELSE "sent"]
    /\ UNCHANGED <<manager, offer, air, cache, lists, fixed, left>>

\* The caller has its answer and may ask again.
AskAgain ==
    /\ ask.at \in {"sent", "refused", "closed"}
    /\ ask' = Idle
    /\ UNCHANGED <<manager, offer, air, cache, lists, fixed, left>>

-----------------------------------------------------------------------------

CatalogNext ==
    \/ \E p \in Members : Change(p)
    \/ \E s \in Swarms, p \in Others : Announce(s, p) \/ Lose(s, p)
                                       \/ \E via \in Via : Receive(s, p, via)
    \/ \E s \in Swarms : \/ StartTask(s) \/ StartFails(s) \/ Publish(s) \/ Insert(s) \/ Cancel(s)
                         \/ Switch(s) \/ Spawn(s) \/ StopSwarm(s) \/ Reap(s) \/ Rank(s)
    \/ \E t \in Tasks : Merge(t) \/ Write(t)
    \/ \E m \in Models : Route(m)
    \/ AskAgain

Runs(s)    == StartTask(s) \/ Insert(s) \/ Merge(s) \/ Write(s)
Manages(s) == Spawn(s) \/ StopSwarm(s) \/ Reap(s)

\* The tasks run and take from their queues, the timers tick, and what is sent
\* again and again to a peer whose connection holds is received. Gossip,
\* requests and changes are left to chance.
CatalogFairness ==
    /\ \A s \in Swarms : /\ WF_cvars(Runs(s)) /\ WF_cvars(Cancel(s)) /\ SF_cvars(Publish(s))
                         /\ SF_cvars(Manages(s)) /\ SF_cvars(Rank(s))
    /\ WF_cvars(Merge("manager") \/ Write("manager"))
    /\ \A s \in Swarms, p \in Others :
        WF_cvars(Announce(s, p)) /\ SF_cvars(Receive(s, p, "direct"))

CatalogSpec == CatalogInit /\ [][CatalogNext]_cvars /\ CatalogFairness

-----------------------------------------------------------------------------
(* Properties *)

\* The type invariant of the catalogue.
CatalogTypeOK ==
    /\ wanted \in [Swarms -> BOOLEAN] /\ handle \in [Swarms -> BOOLEAN]
    /\ task \in [Swarms -> {"off", "starting", "running", "aborted", "ended"}]
    /\ offer \in [Swarms -> [Members -> Record]]
    /\ air \in [Swarms -> [Others -> SUBSET (Via \X Record)]]
    /\ \A s \in Swarms, p \in Others : \A a \in air[s][p] :
        a[1] = "gossip" => Cardinality(a[2].models) <= MaxGossip
    /\ cache \in [Swarms -> [Others -> Record \cup {None}]]
    /\ pc \in [Tasks -> {"idle", "insert", "merge", "write"}]
    /\ catalog \in [Swarms -> SUBSET (Models \X Members)]
    /\ view \in [Tasks -> SUBSET (Models \X Swarms \X Members)]
    /\ shown \subseteq Models \X Swarms \X Members
    /\ ask.at \in {"none", "queued", "sent", "refused", "closed"}

\* A manager in its loop has the other members' records and its swarm's
\* catalogue in step: whatever order announcements and stops come in, a request
\* is routed to a swarm by what its manager will rank.
CatalogMatchesCache ==
    \A s \in Swarms : InLoop(s) =>
        {o \in catalog[s] : o[2] # Me}
            = UNION {cache[s][p].models \X {p} :
                     p \in {x \in Others : cache[s][x] # None /\ cache[s][x].accepting}}

\* The lists of a node are in step with its managers.
CatalogInv == CatalogTypeOK /\ CatalogMatchesCache

Up(s) == task[s] = "running"

\* Announcements overtake each other and rebuilds of several swarms overwrite
\* each other's list, but what no longer is on offer disappears: once changes
\* end, a swarm that stays up lists nothing its members do not offer.
OnlyTrueOffers ==
    <>[](\A o \in shown : Up(o[2]) => offer[o[2]][o[3]].accepting
                                      /\ o[1] \in offer[o[2]][o[3]].models)

\* What a member of a swarm that is up offers is listed again and again, though
\* gossip drops models and stops of other swarms write lists of their own.
OffersShown ==
    \A s \in Swarms, p \in Members :
        []<>(Up(s) /\ (p = Me \/ <<s, p>> \in joined) /\ offer[s][p].accepting
             => \A m \in offer[s][p].models : <<m, s, p>> \in shown)

\* A request put into a swarm's queue gets an answer, or its channel is closed,
\* though the swarm may be stopped or fail to start meanwhile.
RequestsEnd == (ask.at = "queued") ~> (ask.at \in {"sent", "refused", "closed"})
=============================================================================
