------------------------------ MODULE LockOrder ------------------------------
(***************************************************************************)
(* The three locks the tasks of a peer hold at the same time: the          *)
(* configuration (a tokio RwLock), AppState and the peer registry (tokio   *)
(* Mutexes).  Each task is the sequence of lock operations of the function *)
(* it runs; guards bound to a variable live to the end of its scope.  Both *)
(* kinds of lock are fair: requests queue up, and a reader queues behind a *)
(* writer that came first.                                                 *)
(***************************************************************************)
EXTENDS Naturals, Sequences, FiniteSets

CONSTANTS
    Tasks,
    Role            \* what each task runs: a function from Tasks to Roles

Roles == {"manager", "session", "remote", "stream", "scheduler", "handler"}
ASSUME LockOrderAssumption == Role \in [Tasks -> Roles]

Locks == {"config", "state", "registry"}

VARIABLES
    ip,             \* the next operation of each task
    queue,          \* requests not yet granted, per lock, oldest first
    held            \* grants, per lock

vars == <<ip, queue, held>>

-----------------------------------------------------------------------------
(* Programs *)

Lock(l)  == [op |-> "lock", on |-> l]
Read(l)  == [op |-> "read", on |-> l]
Write(l) == [op |-> "write", on |-> l]
Free(l)  == [op |-> "free", on |-> l]

\* sync_cluster_status_list, with attach_cluster_models called under its guards
SyncStatus ==
    <<Lock("registry"), Read("config"),
      Lock("state"), Free("state"),             \* thermal_active
      Lock("state"), Free("state"),             \* state.clusters
      Lock("state"), Free("state"),             \* attach_cluster_models
      Free("config"), Free("registry")>>

\* The reconnect tick: reap and respawn, then the status list.
ManagerTick == <<Read("config"), Free("config")>> \o SyncStatus

\* set_cluster_connected, run by every lobby session
SetConnected ==
    <<Read("config"),
      Lock("state"), Free("state"),             \* thermal_active
      Lock("registry"),
      Lock("state"), Free("state"),             \* state.clusters
      Free("registry"), Free("config")>>

\* dispatch_remote_proxy
RemoteProxy ==
    <<Lock("state"), Read("config"), Free("config"), Free("state"),
      Lock("state"), Free("state")>>

\* dispatch_cluster_encrypted_proxy_body: one guard for the whole stream
EncryptedReply == <<Read("config"), Free("config")>>

\* apply_schedules, and most handlers that change the configuration
ApplySchedules == <<Write("config"), Free("config")>>

\* post_llm_server_attach, _detach, patch_llm_server and delete_llm_server, which call
\* sync_registry_after_config_change under the write guard
ServerHandler == <<Write("config"), Lock("state"), Free("state"), Free("config")>>

Program(t) ==
    CASE Role[t] = "manager"   -> ManagerTick
      [] Role[t] = "session"   -> SetConnected
      [] Role[t] = "remote"    -> RemoteProxy
      [] Role[t] = "stream"    -> EncryptedReply
      [] Role[t] = "scheduler" -> ApplySchedules
      [] Role[t] = "handler"   -> ServerHandler

Op(t) == Program(t)[ip[t]]

\* Back to the start when the program is done.
Advance(t) ==
    ip' = [ip EXCEPT ![t] = IF @ = Len(Program(t)) THEN 1 ELSE @ + 1]

-----------------------------------------------------------------------------
Init ==
    /\ ip = [t \in Tasks |-> 1]
    /\ queue = [l \in Locks |-> <<>>]
    /\ held = [l \in Locks |-> {}]

Queued(t, l)  == \E i \in DOMAIN queue[l] : queue[l][i].task = t
Waiting(t)    == \E l \in Locks : Queued(t, l)

\* Variant: every guard is exclusive, as if client_config were a Mutex.
CompatibleAlone(a, b) == FALSE

Compatible(a, b) == a.mode = "read" /\ b.mode = "read"

Ask(t) ==
    LET l == Op(t).on IN
    /\ ~Waiting(t)
    /\ Op(t).op # "free"
    /\ queue' = [queue EXCEPT ![l] = Append(@, [task |-> t, mode |-> Op(t).op])]
    /\ UNCHANGED <<ip, held>>

\* The oldest request is granted when it is compatible with every grant.
Grant(l) ==
    /\ queue[l] # <<>>
    /\ LET req == Head(queue[l]) IN
         /\ \A g \in held[l] : Compatible(g, req)
         /\ held' = [held EXCEPT ![l] = @ \cup {req}]
         /\ queue' = [queue EXCEPT ![l] = Tail(@)]
         /\ Advance(req.task)

Release(t) ==
    LET l == Op(t).on IN
    /\ Op(t).op = "free"
    /\ held' = [held EXCEPT ![l] = {g \in @ : g.task # t}]
    /\ Advance(t)
    /\ UNCHANGED queue

Next ==
    \/ \E t \in Tasks : Ask(t) \/ Release(t)
    \/ \E l \in Locks : Grant(l)

Spec == Init /\ [][Next]_vars

-----------------------------------------------------------------------------
(* Properties *)

\* Every variable keeps its type.
Request == [task: Tasks, mode: {"lock", "read", "write"}]
TypeOK ==
    /\ DOMAIN ip = Tasks /\ \A t \in Tasks : ip[t] \in DOMAIN Program(t)
    /\ queue \in [Locks -> Seq(Request)]
    /\ held \in [Locks -> SUBSET Request]

\* t waits for u: u holds the lock in a mode t cannot share, or asked before.
WaitsFor(t, u) ==
    \E l \in Locks : \E i \in DOMAIN queue[l] :
        /\ queue[l][i].task = t
        /\ \/ \E g \in held[l] : g.task = u /\ ~Compatible(g, queue[l][i])
           \/ \E j \in 1..(i-1) : queue[l][j].task = u

Circular(S) == S # {} /\ \A t \in S : \E u \in S : WaitsFor(t, u)

Writes(t) ==
    \/ \E i \in DOMAIN queue["config"] :
         queue["config"][i].task = t /\ queue["config"][i].mode = "write"
    \/ [task |-> t, mode |-> "write"] \in held["config"]

\* However the status list, the lobby sessions, the proxy requests and the
\* handlers nest their guards, no tasks wait for each other in a circle unless
\* one of them writes the configuration, or waits to.
CircleNeedsWriter ==
    \A S \in SUBSET Tasks : Circular(S) => \E t \in S : Writes(t)

\* A task never asks for a lock it already holds: tokio's locks are not
\* reentrant, and even two reads by one task may be separated by a writer.
NoReentry ==
    \A l \in Locks : \A i \in DOMAIN queue[l] :
        \A g \in held[l] : g.task # queue[l][i].task

\* The discipline of the shared locks (shared_state, registry, client_config).
LockInv == TypeOK /\ NoReentry /\ CircleNeedsWriter

=============================================================================
