------------------------------- MODULE Ledger -------------------------------
(***************************************************************************)
(* What a node remembers of the requests it has made and served: the       *)
(* traffic statistics of its peers (peer_stats.rs), the transactions of    *)
(* its database (tx_db/mod.rs), and the reports to the lobby that settle   *)
(* them (token_usage.rs).                                                  *)
(*                                                                         *)
(* A transaction is written by reading the row, changing the copy and      *)
(* writing it back, on a thread of its own: by the end of a request, and   *)
(* by every loop that fetches the lobby's transactions.  Every completed   *)
(* setup starts another such loop.                                         *)
(***************************************************************************)
EXTENDS Naturals, FiniteSets

\* Exchanges, the peers they are with, and their request ids.  A scene says for each
\* exchange its id, its peer, the role of this node and the network, and how many loops
\* there are; removals and restarts bound what may happen.
CONSTANTS Exchanges, Peers, Ids, Loops, Scenes

ASSUME LedgerAssumption ==
  \A s \in Scenes :
    /\ s.id \in [Exchanges -> Ids] /\ s.with \in [Exchanges -> Peers]
    /\ s.role \in [Exchanges -> {"consumer", "provider"}]
    /\ s.net \in [Exchanges -> {"cluster", "swarm"}]
    /\ s.loops \subseteq Loops /\ s.removals \in Nat /\ s.restarts \in Nat
    /\ s.failures \in Nat /\ s.crowded \in BOOLEAN
ASSUME NamesAssumption == "none" \notin Peers \cup Ids

VARIABLES
  scene,
  pc,         \* where each exchange is
  copy,       \* the row its record has read and changed
  reported,   \* the exchanges whose report has reached the lobby
  lobby,      \* what the lobby says of an id
  pushed,     \* the ids no longer among the newest of the lobby's public list
  rows,       \* PeerTransaction
  loop,       \* what each loop has fetched and still has to write
  active,     \* the peer of each request under way
  gauge,      \* active_requests
  removals, restarts,
  failures,   \* failed fetches and writes of the loops, bounded by the scene
  displaced,  \* history: requests of a peer whose entry was given to another
  born,       \* history: the rows a record has written before any loop was at them
  counted,    \* token_mismatch_count, by the request a count is for
  forgotten   \* history: the requests whose count went with their peer's statistics

recordVars == <<pc, copy, reported>>
dbVars     == <<rows, born>>
counts     == <<counted, forgotten>>
syncVars   == <<loop, counts>>
statsVars  == <<active, gauge, displaced>>
lobbyVars  == <<lobby, pushed>>
boundVars  == <<scene, removals, restarts, failures>>
vars == <<recordVars, lobbyVars, dbVars, syncVars, statsVars, boundVars>>

\* A row: the exchange whose tokens, role and peer it shows, and what the lobby has said.
Verdicts == {"none", "settled", "mismatched"}
NoRow == [own |-> "nobody", verdict |-> "none", exists |-> FALSE]
Row == [own : Exchanges \cup {"nobody"}, verdict : Verdicts, exists : BOOLEAN]
Idle == [stage |-> "wait", told |-> [i \in Ids |-> "none"], todo |-> {}, at |-> "none",
         copy |-> NoRow]

Init ==
  /\ scene \in Scenes
  /\ pc = [e \in Exchanges |-> "idle"] /\ copy = [e \in Exchanges |-> NoRow]
  /\ reported = {}
  /\ lobby = [i \in Ids |-> "none"] /\ pushed = {}
  /\ rows = [i \in Ids |-> NoRow] /\ born = {}
  /\ loop = [l \in Loops |-> Idle] /\ counted = [i \in Ids |-> 0] /\ forgotten = {}
  /\ active = [i \in Ids |-> "none"] /\ gauge = [p \in Peers |-> 0]
  /\ displaced = [p \in Peers |-> 0]
  /\ removals = 0 /\ restarts = 0 /\ failures = 0

Id(e)   == scene.id[e]
With(e) == scene.with[e]

\* A swarm consumer records nothing, and nobody reports a swarm's requests.
Recorded(e) == scene.net[e] = "cluster" \/ scene.role[e] = "provider"
Reports(e)  == scene.net[e] = "cluster"

----------------------------------------------------------------------------
(* PeerStatsTracker *)

\* Whoever had the id under way is displaced; his gauge stays as it is.
Start(e) ==
  /\ pc[e] = "idle"
  /\ pc' = [pc EXCEPT ![e] = "active"]
  /\ gauge' = [gauge EXCEPT ![With(e)] = @ + 1]
  /\ displaced' = IF active[Id(e)] \in Peers
                  THEN [displaced EXCEPT ![active[Id(e)]] = @ + 1] ELSE displaced
  /\ active' = [active EXCEPT ![Id(e)] = With(e)]
  /\ UNCHANGED <<copy, reported, lobbyVars, dbVars, syncVars, boundVars>>

\* on_request_complete and on_request_error: once per entry, whoever it belongs to.
Ended(e) ==
  /\ active' = [active EXCEPT ![Id(e)] = "none"]
  /\ gauge' = IF active[Id(e)] \in Peers
              THEN [gauge EXCEPT ![active[Id(e)]] = IF @ = 0 THEN 0 ELSE @ - 1] ELSE gauge
  /\ UNCHANGED displaced

Complete(e) ==
  /\ pc[e] = "active"
  /\ Ended(e)
  /\ pc' = [pc EXCEPT ![e] = IF Recorded(e) THEN "load" ELSE "over"]
  /\ UNCHANGED <<copy, reported, lobbyVars, dbVars, syncVars, boundVars>>

Fail(e) ==
  /\ pc[e] = "active"
  /\ Ended(e)
  /\ pc' = [pc EXCEPT ![e] = "over"]
  /\ UNCHANGED <<copy, reported, lobbyVars, dbVars, syncVars, boundVars>>

\* What was counted of some requests is lost with their peer's statistics.
Forget(ids) ==
  /\ counted' = [i \in Ids |-> IF i \in ids THEN 0 ELSE counted[i]]
  /\ forgotten' = forgotten \cup {i \in ids : counted[i] # 0}
RequestsWith(p) == {i \in Ids : \E e \in Exchanges : Id(e) = i /\ With(e) = p}

\* A variant leaves the requests under way.
RemoveOnlyPeer(p) ==
  /\ removals < scene.removals /\ removals' = removals + 1
  /\ gauge' = [gauge EXCEPT ![p] = 0]
  /\ displaced' = [displaced EXCEPT ![p] = 0]
  /\ Forget(RequestsWith(p))
  /\ UNCHANGED <<recordVars, lobbyVars, dbVars, loop, active, scene, restarts, failures>>

\* A closed session forgets the peer, what was counted of it and its requests, which end
\* later without a trace.
RemovePeer(p) ==
  /\ removals < scene.removals /\ removals' = removals + 1
  /\ gauge' = [gauge EXCEPT ![p] = 0]
  /\ displaced' = [displaced EXCEPT ![p] = 0]
  /\ active' = [i \in Ids |-> IF active[i] = p THEN "none" ELSE active[i]]
  /\ Forget(RequestsWith(p))
  /\ UNCHANGED <<recordVars, lobbyVars, dbVars, loop, scene, restarts, failures>>

----------------------------------------------------------------------------
(* record_local_report, and the report *)

Load(e) ==
  /\ pc[e] = "load"
  /\ copy' = [copy EXCEPT ![e] = [rows[Id(e)] EXCEPT !.own = e, !.exists = TRUE]]
  /\ pc' = [pc EXCEPT ![e] = "write"]
  /\ UNCHANGED <<reported, lobbyVars, dbVars, syncVars, statsVars, boundVars>>

\* The whole row is replaced, or the write fails.
Write(e) ==
  /\ pc[e] = "write"
  /\ \/ /\ rows' = [rows EXCEPT ![Id(e)] = copy[e]]
        /\ born' = IF rows[Id(e)].exists \/ \E l \in Loops : loop[l].at = Id(e)
                   THEN born ELSE born \cup {Id(e)}
     \/ UNCHANGED dbVars
  /\ pc' = [pc EXCEPT ![e] = "written"]
  /\ UNCHANGED <<copy, reported, lobbyVars, syncVars, statsVars, boundVars>>

\* A provider reports when its record is done, a consumer beside it; a report that is lost
\* is not sent again.
Report(e) ==
  /\ Reports(e) /\ e \notin reported
  /\ pc[e] \in IF scene.role[e] = "provider" THEN {"written"} ELSE {"load", "write", "written"}
  /\ reported' = reported \cup {e}
  /\ UNCHANGED <<pc, copy, lobbyVars, dbVars, syncVars, statsVars, boundVars>>

\* The lobby has both reports of a request, which agree or do not.
Judge(e) ==
  /\ e \in reported /\ lobby[Id(e)] = "none"
  /\ \E verdict \in {"settled", "mismatched"} : lobby' = [lobby EXCEPT ![Id(e)] = verdict]
  /\ UNCHANGED <<recordVars, pushed, dbVars, syncVars, statsVars, boundVars>>

----------------------------------------------------------------------------
(* spawn_transaction_sync *)

\* The requests of all nodes are in one list, of which the newest 200 are read: what others
\* have settled since pushes an id out.
PushOut(i) ==
  /\ scene.crowded /\ lobby[i] # "none" /\ i \notin pushed
  /\ pushed' = pushed \cup {i}
  /\ UNCHANGED <<recordVars, lobby, dbVars, syncVars, statsVars, boundVars>>

Listed == [i \in Ids |-> IF i \in pushed THEN "none" ELSE lobby[i]]
Fetch(l) ==
  /\ l \in scene.loops /\ loop[l].stage = "wait"
  /\ loop' = [loop EXCEPT ![l] = [Idle EXCEPT !.stage = "rows", !.told = Listed,
                                              !.todo = {i \in Ids : Listed[i] # "none"}]]
  /\ UNCHANGED <<recordVars, lobbyVars, dbVars, counts, statsVars, boundVars>>

\* No answer of the lobby, or none that can be read: the loop sleeps again.
FetchFails(l) ==
  /\ l \in scene.loops /\ loop[l].stage = "wait"
  /\ failures < scene.failures /\ failures' = failures + 1
  /\ UNCHANGED <<recordVars, lobbyVars, dbVars, syncVars, statsVars, scene, removals, restarts>>

\* A variant leaves rows alone that are known.
TakeUnknown(l, i) ==
  /\ loop[l].stage = "rows" /\ i \in loop[l].todo
  /\ loop' = IF rows[i].exists THEN [loop EXCEPT ![l].todo = @ \ {i}]
             ELSE [loop EXCEPT ![l].stage = "write", ![l].at = i,
                               ![l].copy = [own |-> "nobody", verdict |-> loop[l].told[i],
                                            exists |-> TRUE]]
  /\ UNCHANGED <<recordVars, lobbyVars, dbVars, counts, statsVars, boundVars>>
\* A variant compares with the verdict after it was entered.
TakeEntered(l, i) ==
  /\ loop[l].stage = "rows" /\ i \in loop[l].todo
  /\ loop' = [loop EXCEPT ![l].stage = "write", ![l].at = i,
                          ![l].copy = [rows[i] EXCEPT !.verdict = loop[l].told[i],
                                                      !.exists = TRUE]]
  /\ UNCHANGED <<recordVars, lobbyVars, dbVars, counts, statsVars, boundVars>>
\* The row is read; a mismatch that it did not show is counted.
Take(l, i) ==
  LET told == loop[l].told[i]
      news == rows[i].exists /\ told = "mismatched" /\ rows[i].verdict # "mismatched"
  IN
  /\ loop[l].stage = "rows" /\ i \in loop[l].todo
  /\ loop' = [loop EXCEPT ![l].stage = "write", ![l].at = i,
                          ![l].copy = [rows[i] EXCEPT !.verdict = told, !.exists = TRUE]]
  /\ counted' = IF news THEN [counted EXCEPT ![i] = @ + 1] ELSE counted
  /\ UNCHANGED <<recordVars, lobbyVars, dbVars, forgotten, statsVars, boundVars>>

\* The whole row is replaced, or the write fails and the loop goes on.
Put(l) ==
  /\ loop[l].stage = "write"
  /\ \/ /\ rows' = [rows EXCEPT ![loop[l].at] = loop[l].copy]
        /\ UNCHANGED failures
     \/ /\ failures < scene.failures /\ failures' = failures + 1
        /\ UNCHANGED rows
  /\ loop' = [loop EXCEPT ![l].stage = "rows", ![l].todo = @ \ {loop[l].at},
                          ![l].at = "none", ![l].copy = NoRow]
  /\ UNCHANGED <<recordVars, lobbyVars, born, counts, statsVars, scene, removals, restarts>>

Rest(l) ==
  /\ loop[l].stage = "rows" /\ loop[l].todo = {}
  /\ loop' = [loop EXCEPT ![l] = Idle]
  /\ UNCHANGED <<recordVars, lobbyVars, dbVars, counts, statsVars, boundVars>>

\* What is not in the database is gone; a report on its way may still arrive, or not.
Restart ==
  /\ restarts < scene.restarts /\ restarts' = restarts + 1
  /\ pc' = [e \in Exchanges |-> IF pc[e] \in {"idle", "written"} THEN pc[e] ELSE "over"]
  /\ copy' = [e \in Exchanges |-> NoRow]
  /\ loop' = [l \in Loops |-> Idle]
  /\ active' = [i \in Ids |-> "none"] /\ gauge' = [p \in Peers |-> 0]
  /\ displaced' = [p \in Peers |-> 0]
  /\ Forget(Ids)
  /\ UNCHANGED <<reported, lobbyVars, dbVars, scene, removals, failures>>

Next ==
  \/ \E e \in Exchanges : Start(e) \/ Complete(e) \/ Fail(e) \/ Load(e) \/ Write(e)
                          \/ Report(e) \/ Judge(e)
  \/ \E p \in Peers : RemovePeer(p)
  \/ \E i \in Ids : PushOut(i)
  \/ \E l \in Loops : Fetch(l) \/ FetchFails(l) \/ Put(l) \/ Rest(l) \/ \E i \in Ids : Take(l, i)
  \/ Restart

Spec == Init /\ [][Next]_vars

\* Threads of the database are run to their end and loops go on; the fetches and writes that
\* fail are finitely many.
FairSpec ==
  /\ Spec
  /\ \A e \in Exchanges : WF_vars(Load(e)) /\ WF_vars(Write(e))
  /\ \A l \in Loops : WF_vars(Fetch(l) \/ Put(l) \/ Rest(l) \/ \E i \in Ids : Take(l, i))

----------------------------------------------------------------------------
(* Properties *)

\* The type invariant: what an exchange has read is in hand only while it is written, and
\* a row that does not exist shows nothing.
TypeOK ==
  /\ pc \in [Exchanges -> {"idle", "active", "load", "write", "written", "over"}]
  /\ copy \in [Exchanges -> Row] /\ reported \subseteq Exchanges
  /\ lobby \in [Ids -> Verdicts] /\ rows \in [Ids -> Row] /\ born \subseteq Ids
  /\ \A i \in Ids : ~rows[i].exists => rows[i] = NoRow
  /\ \A l \in Loops :
       /\ loop[l].stage \in {"wait", "rows", "write"} /\ loop[l].copy \in Row
       /\ loop[l].told \in [Ids -> Verdicts] /\ loop[l].todo \subseteq Ids
       /\ loop[l].at \in Ids \cup {"none"} /\ (loop[l].at \in Ids <=> loop[l].stage = "write")
  /\ counted \in [Ids -> Nat] /\ forgotten \subseteq Ids /\ pushed \subseteq Ids
  /\ active \in [Ids -> Peers \cup {"none"}]
  /\ gauge \in [Peers -> Nat] /\ displaced \in [Peers -> Nat]

\* The "active requests" the pages show of a peer (active_requests) are its requests under
\* way and those whose entry another request of the same id was given: removals, late ends
\* of removed requests and the saturating subtraction add nothing and lose nothing.
GaugeMatches ==
  \A p \in Peers : gauge[p] = Cardinality({i \in Ids : active[i] = p}) + displaced[p]

\* The gauges and the maps they count.
LedgerInv == TypeOK /\ GaugeMatches

\* token_mismatch_count tells of every mismatch of a request that was recorded before the
\* lobby's view of it came in, until the statistics of its peer are dropped: by a session
\* that closes (remove_peer) or a restart.  And it tells of it once, and not again after that:
\* with one loop whose fetches and writes do not fail, for a request of this node as provider
\* (which reports after it has recorded).
Alone(i) ==
  /\ \A l, k \in scene.loops : l = k
  /\ restarts = 0 /\ failures = 0
  /\ \A e, f \in Exchanges : Id(e) = i /\ Id(f) = i => e = f /\ scene.role[e] = "provider"
MismatchCountedOnce ==
  \A i \in Ids :
    /\ i \in born /\ rows[i].verdict = "mismatched" => counted[i] >= 1 \/ i \in forgotten
    /\ Alone(i) => counted[i] <= IF i \in forgotten THEN 0 ELSE 1

\* What the lobby has decided is shown in the end and stays, although the record of a
\* consumer may replace the row by one that was read before: as long as it is among the
\* newest of the lobby's list.  What is pushed out of it between two fetches is never shown,
\* and a row that was replaced after that is not mended.
SettledShown ==
  \A i \in Ids : <>[](lobby[i] # "none" /\ i \notin pushed => rows[i].verdict = lobby[i])
=============================================================================
