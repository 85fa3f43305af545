# TLA+ models of the mtrxAI peer

mtrxAI is a peer-to-peer network for language-model inference.  One process,
the *peer* (`src/peer/src`), is at once a consumer (it forwards local HTTP
requests to other peers) and a provider (it serves other peers from its local
models).  These modules model the parts of the peer whose correctness depends
on interleaving, ordering and failure, check them with TLC, and prove the safety
of every one of them with TLAPS, two statements about folds over lines and one about two
clusters apart (section 4).

`PROJECT.json` lists the components, the runs, the mutants that show each
property can fail, the source lines of every definition, the hazards and the
theorems.

## 1. The system

### Components, their state and how they interact

| component | source | state it keeps | operations | modules |
|---|---|---|---|---|
| WebRTCManager, consumer side | `webrtc_manager.rs` | `peers`, `negotiating_peers`, `pending_connect_approvals`, `pending_requests`, `active_exchanges`, the maps of encrypted requests | proxy commands, brokering, negotiation, the delayed send, replies, moderation | ConsumerSession |
| WebRTCManager, provider side | `webrtc_manager.rs`, `connect_allowance.rs` | `connect_allowances`, `approved_proxy_models`, pending offers, session hints | connect offers, accept/reject, inbound SDP offers, requests | ProviderGate |
| Encrypted reply stream | `cluster_dc_e2ee.rs` | `pending` text, `seq`; `next_seq`, `reorder` | acknowledge, cut, flush, put in order, end | EncryptedStream, ByteStream |
| Cluster supervision | `cluster_manager.rs` | one handle, four command channels and a status per lobby | reconcile, spawn, stop, reap | NetworkControl, LockOrder |
| Network switches | `network_actions.rs`, `network_scheduler.rs`, `gpu_thermal_guard.rs` | `connected` and `accepting_jobs` of each membership, the guard's timer | connect/disconnect/pause all, schedules, thermal pause | NetworkControl |
| Swarm | `swarm_manager.rs`, `p2p_manager.rs`, `p2p_proxy.rs`, `p2p_protocol.rs` | libp2p identities and connections, catalogues, queues of requests and replies, the encrypted slot | presence, gossip, dials, proxy, reverse proxy | SwarmPeers, SwarmCatalog, SwarmProxy |
| Network catalog | `network_catalog.rs`, `peer_ranking.rs` | `network_models` | merge, rank | SwarmCatalog |
| Registry of local models | `llm_registry.rs`, handlers of `api/mod.rs` | runtimes of the servers, `model_routes`, the merged list | attach, detach, probe, rebuild, hide, load | LocalModels |
| Catalog advertiser | `llm_monitor.rs`, `webrtc_manager.rs` | `last_advertised_hash`, `cluster_state_version`, `llm_ready` | poll and advertise | LocalModels |
| HTTP proxy, agent compatibility | `llm_proxy.rs`, `agent_compat.rs` | none of its own; `SseTransformState` per reply | route, list, forward, translate | ChatProxy |
| Statistics, database | `peer_stats.rs`, `tx_db/mod.rs`, `token_usage.rs` | `active_requests`, gauges, transactions, mismatch counts | start, complete, fail, record, report, sync | Ledger |
| HTTP API | `api/mod.rs` | none of its own | thin handlers over the above | in the modules of what they change |
| Configuration | `client_config.rs` | the configuration file | load, normalise, save | the save, in NetworkControl |
| Inference sidecar, cryptography, GPU tools, LLM clients, desktop shell | see `PROJECT.json` | | | not modelled |

The lobby (a server that is not part of the repository's implementation) brokers
connections over a WebSocket: a consumer asks for a peer (`RequestPeerConnect`), the
lobby offers the connection to a provider (`ConnectOffer`), tells the consumer the
result (`ConnectUpdate`) and then routes SDP offers and answers (`Route`)
between the two.  Requests and replies travel over a WebRTC data channel.  In a *swarm*
peers find each other through a bootnode and the lobby's presence list, and requests and
replies are libp2p request-responses.  Inside the process components communicate through
`tokio::mpsc` channels, shared maps behind `tokio::sync::Mutex`, and one configuration
behind `tokio::sync::RwLock`.

How the parts hand a request on: ChatProxy picks a place and, for a remote one, a network;
SwarmCatalog picks the swarm and the peer; ConsumerSession or SwarmProxy carries it; ProviderGate
lets it in at the other end; EncryptedStream (or SwarmProxy) carries the reply back; Ledger
records it.  NetworkControl and SwarmPeers decide which networks and connections exist meanwhile,
LocalModels which models there are.

### What makes it hard

* Every proxy command, lobby message and moderation command runs in a task of
  its own.  Each map has its own mutex, taken for one access; every decision
  that reads two maps, or reads one and later writes it, can be interrupted.
* The peer's id, not the session, is the key of nearly every map, so what a task
  closes, answers or consumes may belong to another task.
* Replies race the registration of the keys that decrypt them; a retry has the id of the
  try before it.
* Admission is granted at one moment and used at another, over another channel.
* Catalogues, lists and rows are copied, changed and written back; announcements carry no
  version.
* Locks are nested in different orders by tasks that run all the time.
* Replies are rewritten while they stream, wherever the transport cuts them.

The `hazards` of `PROJECT.json` list these with their lines.

## 2. Modules

### ConsumerSession (proved: ConsumerSessionProofs)

The consumer half of `WebRTCManager`.  `pc[r]` is where the task of request `r`
is; one action is the work between two lock acquisitions.

| actions | code |
|---|---|
| `RequestDirect`, `RequestBrokered`, `ConnectApproved`, `ApprovalFails` | `handle_proxy_cmd`, `request_brokered_peer`, `ConnectUpdate` |
| `CheckStale`, `CloseStale` | `remove_stale_peer_if_needed` |
| `CheckReplace`, `CloseReplace` | `replace_incomplete_session_if_needed` |
| `CheckExists`, `Begin`, `SendOffer`, `CreateFails`, `InsertSession`, `EndNegotiation` | `connect_and_proxy`, `try_begin_negotiation`, `end_negotiation` |
| `Lookup`, `Poll`, `Timeout`, `Send`, `SendFails`, `Register` | the sending half of `connect_and_proxy` and its delayed task |
| `RouteAnswer`, `InboundOffer`, `Moderate` | `Route` messages, `handle_peer_moderation` |
| `ChannelOpens`, `ChannelBreaks`, `SessionFails` | the WebRTC library (external) |
| `ProviderAck` ... `ProviderError` | the replies a provider can send |
| `OnMessage` | the `on_message` handler of the data channel |

`sessions` remembers every peer connection ever created, also the ones no longer
in `peers`: a delayed task keeps its own, which may no longer be the current one.
The approval waiter is registered before `RequestPeerConnect` is sent and stays when the
send fails (`webrtc_manager.rs:1228`).

Abstractions: the registry's display data and the statistics are left out;
the mutex of one session, held during an immediate send, is not modelled (the
model allows more interleavings); `close_peer_connection` is one step; the
messages of one channel are handled in order, one at a time, as the WebRTC library
calls the handler; the sidecar is off.

Which end of a session serves a request depends on who opened it (`OverInbound`, `Served`).  The
handler of a peer that opened a session is a consumer's and ignores encrypted requests; a
plaintext one is served by either, since only a provider's handler with encryption on refuses it
(`webrtc_manager.rs:2542`).  Its reply then comes to a provider's handler, which forgets the sender but
not the exchange (line 2649): the exception of `SuccessLeavesNothing`.  An error read before the keys
of its request are stored is lost: the premise of `FinalReachesCaller`.

### ByteStream and EncryptedStream (proved: EncryptedStreamProofs)

`ByteStream` is the promise made to the HTTP caller: the text handed over is a prefix of
the pieces the backend produced that were whole UTF-8, and "complete" means all of those.  A piece
that is not, such as one cut within a character, is dropped in mid-stream, and the stream still ends as done
(`cluster_dc_e2ee.rs:793`): `ReadPiece` keeps a piece or loses it, `produced` counts both and `place` says
which characters were kept.  `EncryptedStream` is how
`cluster_dc_e2ee.rs` keeps it, with the provider's task (`Admit` ... `FlushStops`), the
channel, and the consumer (`StoreKeys`, `OnAck`, `OnChunk`, ...).  Characters
have a width in bytes, so that cutting on a character boundary below
`STREAM_CHUNK_BYTES` is a real question; `Ordered` says whether the channel keeps
the order (the code's does; the reorder buffer does not rely on it).

### ProviderGate (proved: ProviderGateProofs)

Who is let in.  Connect offers (`ConnectOfferAuto`, `ConnectOfferManual`,
`UserAccepts`, `UserRejects`, `Respond`), the one-time grants of
`connect_allowance.rs` (`Granting`, `Take`, `Live`, `Matches`), the stages of an inbound
offer (`Route`, `CheckOfferBlocked`, `CheckOfferAccepting`, `CheckOfferAttested`,
`Consume`, `Approve`, `InsertSession`), the user's block and unblock, and the stages of a
request over an admitted session (`Arrive`, `CheckRequestBlocked`,
`CheckRequestAccepting`, `CheckRequestModel`).  Time is a counter, so that a
grant's expiry falls before, on and after its use.  A *scene* says who takes part and for
how long.

The check against the block list fails open: a lookup that fails, in its thread or in the database,
says that the peer is not blocked (`webrtc_manager.rs:548`, `cluster_dc_e2ee.rs:706`,
`tx_db/mod.rs:466`).  `Looks` has both outcomes, `failed` remembers whose lookup failed, and
`UnwelcomeNeverServed` leaves out the blocking of those.

Abstractions: a cluster that is no longer in the configuration accepts jobs
(`webrtc_manager.rs:769`), so it counts as one that accepts; `allow_unattested_peers` is FALSE,
`auto_approve` a free choice per offer;
removing an offer and granting is one step; the sidecar, which skips the request's checks
(`cluster_dc_e2ee.rs:656`), is off.

### LockOrder (proved: LockOrderProofs)

Six kinds of tasks as the sequence of locks each takes and releases: the manager's tick
with `sync_cluster_status_list`, a lobby session's `set_cluster_connected`, a
remote request, an encrypted reply, the scheduler, and the handlers that attach, detach,
change or remove a model server.  `tokio`'s RwLock is fair: a
reader queues behind a waiting writer, which is what closes the circle.

### NetworkControl (proved: NetworkControlProofs)

How a membership is switched on and off, and how that reaches the sessions.
`cfg` is the configuration in memory, `disk` the saved one; `task[t]` lists the sends and
updates that an HTTP handler, a guard or the scheduler still has to do after its
save; `queue` counts the messages in the two notification channels and in the runtime's
event channel; `manager[k]` is where `ClusterManager::run` or `SwarmManager::run` is,
`seen[k]` the memberships it works on and `live` the sessions whose task runs.

| actions | code |
|---|---|
| `SwitchAll`, `SwitchOne`, `Join`, `Leave`, `Commit`, `Notify` | `network_actions.rs` and the membership handlers of `api/mod.rs` |
| `ApplySchedules` | `apply_schedules`, every minute |
| `GuardInactive` ... `GuardHides` | `GpuThermalGuardTracker::evaluate` |
| `SwarmsChanged`, `Started` | `spawn_swarm_manager`, `spawn_cluster_manager` |
| `Run`, `Notified`, `Reconcile`, `Tick`, `Spawn`, `SessionEnds` | the managers' loops, the same in `cluster_manager.rs` and `swarm_manager.rs` |
| `ClockTurns`, `TempChanges`, `ToggleGuard`, `Restart` | the day, the GPU, the guard's setting, the process |

Abstractions: a handler runs to its end (hyper may drop one whose connection is closed, and
its notification with it, `network_actions.rs:45`);
all schedules share one window; a save is all or nothing; starting sessions
is one step in which any of them may fail; the guard's duration is counted in evaluations;
set-up is complete from the start, and further GPU monitors (one per `SetupComplete`) are
members of `Guards`.

### SwarmPeers (proved: SwarmPeersProofs)

Whom a `P2pManager` is connected to: `mtrxai_to_libp2p` and `libp2p_to_mtrxai`
(`libp2pOf`, `nameOf`), the handled peers, the entries of the status page's registry, the
dials and the bootnode's backoff.  A peer's identity is told by its addresses, or derived
from its name if it advertises none; a connection may come before the catalogue that tells
whose it is.  The manager is one task, so each branch of its loop is one action
(`Established`, `Closed`, `DialFails`, `Catalog`, `PresenceTick`, `RendezvousTick`,
`ProxyTo`, `RequestFrom`); `Stop` and `Start` are `SwarmManager`'s.

Abstractions: addresses are either known or not; the provider's own dial of its consumer
is in SwarmProxy; an entry under an identity instead of a name may stay in the registry
after a close, and no property speaks of it.

### SwarmCatalog (proved: SwarmPeersProofs)

From a provider's announcement to the list its users see, and back to the peer a request
is sent to.  `air` holds the announcements on their way, by gossip (halved until at most
`MaxGossip` models are left, `Halved`; freely lost) and direct (lost with the connection only); `cache`,
`catalog`, `view` and `shown` are `peer_cache`, `swarm_network_models`, the merged list a
task is about to write, and `network_models`.  A rebuild is three actions (`Insert`,
`Merge`, `Write`) since it takes three locks in turn.  `Switch`, `Spawn`, `StopSwarm`, `Reap`,
`Cancel` are `SwarmManager` and the abort of its tasks, which nobody waits for: an aborted
manager may put its catalogue back after `stop_swarm` removed it.  `Route` and `Rank` are
`find_swarm_for_model` (which counts this node and blocked peers) and
`rank_swarm_peers_for_model_with_tee`.

Abstractions: load, latency and hardware order the candidates and are left out;
departed peers are never evicted from `peer_cache`, as in the code.

### SwarmProxy (proved: SwarmProxyProofs)

One consumer's requests to one provider through a swarm.  Both `P2pManager`s are one task
each; a served request is a task of `p2p_proxy.rs` with a `stage` and a `fate`, and shares the
slot of the consumer's newest encrypted request.  A reply is an acknowledgement and then
chunks on substreams of their own, in any order.

| actions | code |
|---|---|
| `ProxyCmd`, `ProxyCmdRefused`, `ConsumerConnected`, `ConsumerClosed` | `handle_proxy_cmd`, `flush_pending_proxies_for_peer`, `ConnectionClosed` |
| `OutboundFailure`, `OutboundTimeout`, `Retry` | `handle_proxy_outbound_failure` |
| `HandleResponse`, `HandleChunk`, `Drain` | `handle_proxy_rr_message`, `handle_encrypted_stream_chunk`, `drain_encrypted_stream_chunks` |
| `ReceiveRequest`, `SendResponse`, `SendReverse`, `ProviderConnected`, `ProviderClosed`, `ProviderDials` | the provider's manager |
| `Check`, `Respond`, `Forward`, `ReadPiece`, `ReadEnd`, `Flush`, `SendChunk`, `Final`, `ServePlain` | `dispatch_swarm_encrypted_proxy_request`, `dispatch_swarm_proxy_request` |
| `Break`, `Redial` | libp2p (external) |

The manager's wait for itself (`p2p_manager.rs:2441`: `send_or_queue_reverse_proxy` dials
with `libp2p_to_mtrxai` locked, and the dial takes the same map) is the variable `stuck`.
A piece that is not whole UTF-8 is left out (`p2p_proxy.rs:387`): `dropped` counts those, `produced`
all the backend's stream has brought.
Abstraction: encryption is the attempt a chunk belongs to.

### LocalModels (proved: LockOrderProofs)

The registry of model servers and what the lobbies are told of their models.  Five kinds of
tasks: the handler under the configuration's write guard, a handler that works from a copy of
the configuration, the monitor of the servers, and every cluster's poll (one task per
cluster).  A rebuild of the catalogue is a step for each server listed (`Snapshot`) and one
that commits.  `hash` and `version` are shared by all clusters, as in the code.
`revived` and `started` are histories: servers put back by a sync from an old copy, and
models started at a peer's wish.  Three more say what a lobby can have missed: `quiet` counts the
changes that raise no version, `listed` and `heard` how many there had been when a poll began to
list and when the list began that a lobby was last told.

Abstractions: the status of the GPU, which the hash covers too, is constant; starting a
model is one step; the accepting flag may be told FALSE by a poll that raced its change; the forced
poll on `Registered`, a task of its own in the code, is taken by the cluster's poll, so two polls of
one cluster never overlap.

### ChatProxy (proved: NetworkControlProofs)

Where each entry point of the HTTP proxy sends a request, and what the client sees of the
reply.  The first half (`Enter` ... `Dispatch`, `Tags` ...) reads the list of local models,
the routes and the network models one after another while `OfferChanges` changes them.  The
second half (`Arrive`, `Part`, `Rest`, `Finish`, `SourceEnds`, `SourceFails`) carries a reply of a
few lines, cut anywhere, through `SseTransformState`, the Ollama translation or the
collection of a whole answer.  A text is a sequence of words, an opening brace and the rest
of a tool call.  `views` is a history, of all offers of the model since the request came: what
`SentWhereItBelongs` and `ListedAreDescribed` demand depends on what was so all the while, and on
what was so at some moment, whatever changed in between.

Abstractions: request bodies and the HTTP client's timeouts are left out; the proxy's 502
before the first rebuild is not modelled.

### Ledger (proved: LedgerProofs)

The end of a request in the statistics (`Start`, `Complete`, `Fail`, `RemovePeer`), its
transaction (`Load`, `Write`: the row is read, changed and written back on a thread of its
own), the report and the lobby's verdict (`Report`, `Judge`), and the loops that fetch the
verdicts (`Fetch`, `Take`, `Put`, `Rest`), of which every `SetupComplete` starts another
(`lib.rs:543`).  `displaced` is a history: requests whose entry a request with the same id
took, which happens since swarm ids are `p2p_N`, numbered by each peer for itself.  `forgotten` is
another: mismatches that were counted and went with the statistics of their peer, which
`remove_peer` drops whole when a session closes (`peer_stats.rs:150`), or with the process.  A loop
reads the newest 200 rows of a list of all peers' transactions (`tx_db/mod.rs:654`): `PushOut` takes a row
out of them, for good.  A fetch that fails brings no rows at all (`FetchFails`).

Abstractions: token counts are a verdict; a swarm's encrypted providers and its
consumers record nothing, as in the code.

### The MC modules

Each `MC` module gives the constants of its module: which peers, requests, models and
servers, and the *scenes* (or cases, modes, requests) to explore.  A scene is chosen in
`Init` and bounds what may happen, so that one run covers several small worlds instead of
one that is too large.

## 3. Runs

| run | instance | shows |
|---|---|---|
| `consumer_encrypted` | 2 requests, 1 peer, 2 sessions, 1 inbound offer, encrypted, fair | no caller and no key is left behind; what is still to be read when the keys are stored ends the request |
| `consumer_plain` | 2 requests, 1 peer, 2 sessions, 1 inbound offer, 1 moderation, plaintext, fair | the maps agree; every set-up ends, a flag has its task, the end of a reply arrives; no caller is left behind |
| `stream_reordered` | 5 characters of 1..2 bytes, chunks of 3 bytes, any order of delivery, pieces dropped, fair | implements `ByteStream`; chunks fit; `done` ends the stream |
| `gate` | 2 consumers that share a request id and a grant's expiry; 2 requests for 2 models over 2 sessions, and lookups that fail | admission on a live grant only, once; nobody is served who was blocked all along and could be looked up, nor under maintenance |
| `locks_nesting` | one task of each of the 6 kinds | no re-entry, and a circle needs a writer of the configuration |
| `network` | 8 scenes of 1 cluster and 1 swarm: user and schedule, restart, failed save, two GPU monitors, a guard without auto-resume; fair | what is switched off ends up without a session; overheating pauses and cooling resumes; a pause and its banner have a guard |
| `swarm_proxy` | 5 modes: 1 request over 2 breaks, 1 break and a fault, 2 requests that compete for the slot, plaintext; 2 attempts, 1 full chunk; fair | requests have one home; text in order; done means all that was not dropped; superseded streams stop; callers are answered or silenced |
| `swarm_peers` | a new and an old peer, 2 connections each, 2 catalogues or requests each, 1 stop, fair | the maps agree with each other, the connections and the registry; a lonely manager redials |
| `swarm_catalog` | 5 cases of 1-2 swarms, 1 other member, 2 models, gossip of 1 model; fair | routing and ranking see the same; the list converges to the offers; queued requests end |
| `local_models` | 7 cases of 2 servers with a shared model, 1-2 clusters, 2 changes each, with two clusters also quiet ones | a lobby that is told no more has been told the truth; detached servers are out of use |
| `chat_proxy` | offers of a model with one change, a model that moves with three; replies of up to 4 lines | requests go where the model was all along, or to a network that offered it; what is listed can be described; streams show what was written, whatever the cuts |
| `ledger` | 3 scenes of 2 exchanges: both roles and two loops; a swarm id used twice, with removals and a restart; a failed fetch or write, a removal, a restart and rows pushed out; fair | gauges fit; mismatches are counted until their peer's statistics are dropped, once; verdicts still listed are shown in the end |

**Bounds.**  Two requests to one peer are what every hazard of the consumer needs (one task
closes, answers or overwrites what the other owns), and of two sessions both may be negotiated, or
one be an inbound offer that comes in between; moderation closes sessions in the plaintext run only, and
the proofs, of any number of sessions and closes, cover both; that several peers do not disturb each other
is left to the proofs, which hold for every set of peers.  `MaxPolls` of 1 stands for
`DC_OPEN_MAX_POLLS`: only "not yet last" and "last" differ.  Five characters of up to two
bytes with chunks of three make every case of
`Cut`: an exact fit, a boundary inside the budget, several chunks from one piece,
a short rest and an empty one.  One request id shared by two consumers
is the collision of `connect_req_id`; a TTL of 1 with times 0..1 has a live and an
expired grant.  The notification channels hold one message instead of eight: what matters is
full or not, and one membership of each kind is enough since no handler
relates two of a kind.  The day, the temperature and the guard's setting change
without bound (while a schedule or a guard reads them), clicks and restarts are counted.
SwarmProxy's `MAX_PROXY_SEND_ATTEMPTS` is 1 instead of 2, a retry and no further one, and one full
chunk and a last one can overtake each other and the acknowledgement; two encrypted requests *and*
a broken connection are not explored together.  In SwarmPeers two connections of one
identity make "one closed, another remains"; the old peer's two identities are the same, the new
one's differ.  In SwarmCatalog one other member is enough because the records of two are
independent; two swarms write over each other's list.  In LocalModels every pair of changes that
the handlers can make occurs in some case; two clusters share the hash, and the changes they see
are of both kinds, those that raise the version and those a poll has to notice.  In ChatProxy an offer changes once among all that can be told apart, or three times between six
of a model that comes, goes and changes its server; four lines
hold a brace, a call, a finish and what comes after.  Ledger's two
exchanges meet in a peer, an id or a loop.  `CHECK_DEADLOCK FALSE` is set where the system
may stop: all requests done, or a bound used up.

**Fairness.**  Everywhere it is only that the runtime polls what is ready and timers fire; nothing
is assumed of users, providers, lobbies or the network beyond what is said here.

* `ConsumerSession!FairSpec`: each request's next step (the delayed task's loop sleeps
  100 ms between polls), and the delivery of what the channel accepted.
* `EncryptedStream!FairSpec`: both tasks are polled, and an open channel delivers.
* `NetworkControl!FairSpec`: every task, guard and manager is polled.  Because tokio
  serves the senders waiting on a channel in their order, a sender whose channel has room
  again and again is served (strong fairness of `Notifies`), and a manager's select loop takes
  a waiting notification in the end.  Clock, GPU, user and sessions are not fair.
* `SwarmProxy!Fairness`: some step of the two managers, the tasks or a redial is taken while
  one can be (weak fairness of their disjunction: queues are finite, so this suffices).
* `SwarmPeers!Fairness`: the presence timer, the end of the backoff, the supervisor's tick.
* `SwarmCatalog!CatalogFairness`: rebuilds, announcements (every 30 s), the manager's turns, and
  that a direct announcement sent again and again arrives (strong fairness of its `Receive`);
  gossip may be lost for ever.
* `Ledger!FairSpec`: the threads that record and every loop (every 30 s).
* `ChatProxy!ChatSpec` is weakly fair, but its properties are invariants.

## 4. Proofs

The theorems hold for every value of the constants, from the assumptions named in the modules.
Each component has one inductive invariant (`IInv`, `CatalogIInv`, `ModelsIInv`, `RouteIInv` with
`ReplyIInv`), proved of its initial states and of every action in a lemma of its own; the theorems
follow from it.  Three modules hold the proofs of two components each, which share nothing but the
module; the second one's names are prefixed for that (`CatalogSpec`, `ModelsSpec`, `ChatSpec`).

**ConsumerSessionProofs** (any requests, peers and bounds; `ConsumerSessionAssumption`):
`SessionsCorrect` (a peer's current session is never closed, nor with another
peer), `FlagCorrect` (a negotiation flag has a task that will clear it), `EntriesCorrect` (a tracked
request keeps its sender until the caller was told, and a completed one leaves no entry behind,
apart from the exchange of a plaintext request over an inbound session).
`SessionMapSound` is not inductive: a
task between its offer and `peers.insert` could insert a session somebody closed.
`InsertOwns` says nobody can: until it is inserted no closer, which all
go through `peers`, can reach the session, and no two tasks insert the same one.
`SuccessLeavesNothing` needs to know that keys and streams belong to requests
already sent (`KeyedAwaits`), that replies exist only for those (`SentFirst`), and that a
completed request gets no keys again (`SuccessFinal`).  `TargetKnown` and `PollsLeft`
make the types inductive.

**ProviderGateProofs** (any consumers, models, request ids, handlers, scenes and TTL):
`AdmissionCorrect` (a session is admitted on a grant of its request id, requester and model that was
live then), `SingleUseCorrect`, `UnwelcomeCorrect` (who was blocked all along is not served, nor anybody
under maintenance, unless the lookup failed).  That an admission is justified
needs to know where a live allowance comes from (`AllowancesBacked`); that a grant admits once needs the
allowance in the store counted with the admissions (`Counted`, with the cardinality theorems of the
library); that the unwelcome are not served needs to know which checks a request has
behind it (`Checked`) and that open sessions have a handler (`OpenStarted`).

**SwarmPeersProofs** (any peers, old or new, and any bounds; `SwarmPeersAssumption`,
`NamesAssumption`): `PeersCorrect`.  That the maps agree needs that an identity is only ever
mapped to the peer it belongs to (`Owned`); that a close empties the registry needs that a
peer listed by its name is the one its identity answers to (`Listed`).
Of SwarmCatalog (any swarms, members and cases, a finite set of models, any size of a message;
`SwarmCatalogAssumption`): `CatalogCorrect`.  A swarm's catalogue is rebuilt after the cache has
changed, so the two are in step unless a rebuild is still to come (`InStep`).  That a gossiped
catalogue fits a message is about halving until it does, a recursion: `HalvedFits` takes the
least size for which it might fail.

**LockOrderProofs** (any number of tasks of any of the six kinds): `LocksCorrect`.  The
invariant says which locks a task holds where in its program (`Holding`, shown of each program in
`SmallPrograms` and `ManagerProgram`), and that a queued request is the operation its task is at.  In a circle
without a writer nobody waits for the configuration: the first of them in its queue would
wait for a writer.  So nobody waits for AppState, whose holder could only be waiting for the
configuration, and then nobody for the registry.  (`Least`, from the library's well-founded
induction, gives the first.)
Of LocalModels (any servers, models, clusters and cases; `ModelsAssumption`): `ModelsCorrect` and
`NothingMissedAlone`.  The shapes (`Shapes`) are most of the first: a rebuild's sequence of
snapshots, the routes it yields and what a poll is going to tell are typed through every step.
`Used` says that a runtime has a server in use or was put back.  For the second, `Announced`
follows a change from the shared hash to the lobby: once the hash is that of the models on offer,
the lobby was told them, or a poll that will tell it is between its store and its tell, or was
forced.  The theorem is about runs in which no case has two clusters.  It is false of two, as section 5
says, so the hypothesis cannot be dropped.

**EncryptedStreamProofs** (any text, widths, pieces, chunk size and order of delivery):
`StreamCorrect` (no chunk is longer than `STREAM_CHUNK_BYTES`) and `StreamImplements`: every step
is one of `ByteStream`'s or changes nothing of it.  `Placed` says that the text kept is made of
characters produced, in their order.  The invariant is a fact about cuts: there is
one increasing sequence of positions at which the text was cut; every chunk, in the channel
or parked, lies between two neighbours of it, and the text handed over ends at the cut numbered
`nextSeq`.  What a drain hands over is a fold, about whose length nothing can be proved by
induction here; the lemmas take a least counterexample instead (from the library's well-founded
induction) to say that neighbouring chunks meet and that a chunk is cut where it fits.

**NetworkControlProofs** (any memberships, writers, monitors and channel capacity): `GuardsCorrect`
and `SettledCorrect`.  That a pause has a guard needs to know that a guard about to forget
its pause has resumed the jobs (`PauseKnown`).  That a settled manager runs nothing unwanted needs
what is true before it settles: a session too many, or a list of memberships that is out
of date, is never without a notification still to come, in the channel or in the plan of a
task (`SessionsSettle`, `Planned`).
Of ChatProxy (any requests, any offers in which the server that hosts a model is attached, replies of
any number of lines; `ChatProxyAssumption`): `RouteCorrect`, `ListedCorrect` and `DoneEndsReply`.
A handler that has come to a step has read something on its way: `OnItsWay` says of which of the
offers since the request came (`views`), whatever has changed meanwhile.
That a stream ends with `[DONE]` needs how many of its lines are one: none until the source's own
end has gone through, from then on the last line alone (`DoneSeen`), after which no text is held
back; `FinishEnds` is what the end of the loop and `finalize_stream` add.  `Held`, `SplitTyped`
and `LineProcessed` say what a line is made into.

**SwarmProxyProofs** (any requests, attempts, pieces, breaks and faults; `SwarmProxyAssumption`):
`ProxyCorrect`, `TextCorrect`, `DoneCorrect`, `SupersededCorrect`.
`Housed` says where an unfinished request is kept, `Cleared` that one without a caller is
nowhere.  `Sealed` follows every chunk, wherever it is, back to the task that sealed
it, and `Levels` says what a task's counters are worth at each stage, so that the chunks of one
attempt are the pieces it read, each once; `Counted` adds what it left out.  `Unmade` says that nothing exists of an attempt still
to be made: hence an attempt is served by one task only.  `Told` joins the consumer's text
to that.  `InLineFacts`, `TakenFacts` and `DrainContinues` are what the drain of the reorder buffer
returns: the parked chunks that follow each other without a gap, up to the one marked done.

**LedgerProofs** (any exchanges, peers, ids, loops and scenes; `LedgerAssumption`,
`NamesAssumption`): `LedgerCorrect` and `MismatchCorrect`.  The gauges are cardinalities, which
change by one as an id changes hands (`HandOver`, with the library's theorems).  A mismatch
cannot go uncounted because no row and no copy of it in anybody's hands shows one before the
count (`Recalled`; a copy may be written at any later time), or the count was forgotten with its
peer; it is counted once where one loop works
alone because a provider's record is over before the lobby can judge (`Judged`), so nobody
takes the verdict out of the row again (`Once`).

Only model-checked: liveness, which is out of the prover's reach (`SetupEnds`,
`FinalReachesCaller`, `DoneEndsStream`, `OfflineOutside`, `HotPauses`, `CoolResumes`,
`CallersAnswered`, `IsolatedRedials`, `OnlyTrueOffers`, `OffersShown`, `RequestsEnd`,
`SettledShown`); `ShownAsWritten` and `PlainTextKept` of ChatProxy, which compare all words of a
reply, by folds over its lines, with all words shown, an induction over data that the provers
cannot make; and `NothingMissed` with two clusters, for the changes it holds of.

## 5. What the models show beside the properties

Behaviour of the code that a reader of its comments or documents might not expect.  The
properties are stated so that they hold of the code as it is; where one has an exception, this is
why.

Consumer and provider
* `close_peer_connection` (`webrtc_manager.rs:557`) takes a peer out of `negotiating_peers` although
  another task's negotiation with it goes on; the comment at line 434 calls the set the peers
  "currently going through outbound SDP offer / ICE setup".
* A reply whose bytes were all flushed before the backend ended carries no chunk marked
  `done` (`cluster_dc_e2ee.rs:511`), so the consumer neither ends nor reports it
  (`docs/SECURITY_ARCHITECTURE.md:515`: both report).  A backend error ends a reply as the end of
  its body does, and a piece that is not whole UTF-8 is dropped (line 793): the reply lacks it
and says nothing.
* A peer whose lookup in the block list fails is let in (`unwrap_or(false)`).  A request for a cluster
  that has left the configuration is accepted (`webrtc_manager.rs:769`).
* Plaintext requests are served over sessions of either direction; one that went over an inbound
  session leaves its exchange behind (`webrtc_manager.rs:2649`) and is reported by nobody.  An
  encrypted one over an inbound session is never answered.
* An encrypted error that is read before the keys of its request are stored
  (`webrtc_manager.rs:1544, 2362`) is lost; the caller waits for its own time-out.
* `send_peer_info` is called with `shared_state` still locked (the temporary of an `if let`,
  `webrtc_manager.rs:1676`).

Locks and switches
* Two readers of the configuration and the registry in opposite order, with a queued writer between
  them, wait for each other for ever (`cluster_manager.rs:351`, `webrtc_manager.rs:669`); so do a handler that
  attaches a server and a remote request (`api/mod.rs:234, 1370`, `llm_proxy.rs:728`).  `CircleNeedsWriter`
  says these are the only circles.
* A cluster-only peer never reads the swarm channel: after eight changes the scheduler waits on it
  (`network_scheduler.rs:232`), against `ui/v2/index.html:996`; and `notify_swarms_changed`
  (`api/mod.rs:812`) then stops before the event that would start the swarm manager.
* A failed save leaves the switches changed in memory and tells nobody.  `caused_pause` is lost at a
  restart while the pause is saved; without auto-resume it outlives a manual resume.
* "Resume all remote jobs" may never reach a lobby: `last_advertised_hash` is shared by the
  clusters (`webrtc_manager.rs:863`, `ui/v2/index.html:1033`).  So may any change that is noticed by a
  poll only and does not raise the version (a visibility switched, a backend's models changed): the
  first cluster's poll stores the hash, and the others take their lobby for told until the
  version is raised or the GPU's status changes.  `NothingMissed` therefore leaves out, with two clusters,
  a quiet change that came after the listing a lobby was last told of; `MCLocalModels` has
  both kinds of changes with two clusters.

Swarm
* `send_or_queue_reverse_proxy` may wait for a lock it holds (`p2p_manager.rs:2441`);
  `p2p_proxy.rs:263` purges parked chunks of other requests; a backend's piece that is not whole UTF-8 is left out of a reply
  that ends as done (`p2p_proxy.rs:387`); `pending_ping` entries
  may stay (`p2p_manager.rs:681`).
* An aborted manager may put its catalogue back; departed peers stay in `peer_cache`;
  `find_swarm_for_model` counts this node and blocked peers, so a request may be routed where nobody can
  take it.

Models and proxy
* A sync from a copy of the configuration can put a detached server back into use (`revived`); a
  change of visibility or an attach does not raise the version; models hidden or kept local reach swarm
  peers through `build_catalog_sync` (`llm_registry.rs:686`).
* A streamed answer loses the text after a `{` that opens no tool call; a local stream may carry two
  `[DONE]`; a stream that breaks off is reported as done by the Ollama translation, which also loses a
  last line without newline; a character split between two pieces is damaged.  A whole answer
  of which the read fails becomes an empty answer that is "done" (`llm_proxy.rs:1267`): the exception of
  `PlainTextKept`.
* `chat_completion` and `handle_proxy_request` ask different lists; a generate for a model of an inference cell
  goes to another Ollama server if one is attached, which does not have it; `/api/embed`,
  `/v1/embeddings` and `/api/pull` answer 404 for a model of other nodes, and `/api/pull` and `/api/create` need a
  server that hosts the model already; lists and `/api/show` go by the networks of every mode, also those
  that `p2p_mode` keeps requests from.
* `/api/show` for a model of an inference cell is posted to the cell while an Ollama server is attached
  (`llm_proxy.rs:1637-1648`, `1409`): the cell does not know the path.  `ListedAreDescribed` leaves it out.

Ledger
* A row the lobby creates as mismatched is not counted; with several loops a mismatch may be
  counted more than once, and a failed write is counted again; counts live in memory only, and
  `remove_peer` drops those of a peer whenever a session with it closes, also to be replaced by
  another.
* A verdict that is pushed out of the lobby's newest 200 rows between two fetches is never shown, and a
  row that a late record has overwritten is not mended any more; an error of HTTP or JSON skips
  a fetch without a word (`tx_db/mod.rs:654-663`).
* A consumer's record may overwrite a settled row (the next sync heals it); a record written between a
  loop's read and its write is lost until then.
* `NEXT_REQ_ID` restarts at 1 while the peer's id stays; equal swarm ids leave a gauge raised
  (`peer_stats.rs:75`).

## 6. Not modelled

* `client_config.rs` (parsing, defaults, migration, a file torn by a crash): sequential conversions of
  a large record; the save's effect on the switches is in NetworkControl.
* The inference sidecar: its framing and the life of the sandboxed process.
* `tx_db`'s keys, secrets and queries; the rolling windows, warnings and scores of the statistics and the
  ranking: arithmetic over samples.
* Cryptographic strength, attestation and the security flags (constants or choices here).
* GPU tools' output, HTTP clients of model servers, server discovery, `lobby_monitor.rs` and
  `peer_discovery.rs` (polls for display), the desktop shell and the user interface: I/O.
* Pings, model starts and moderation over a swarm; the least-loaded choice among servers; back
  pressure of a slow HTTP client (`webrtc_manager.rs:2435`).

What would come next: the sidecar's life cycle, the configuration's normalisation as operators,
and a composition of ConsumerSession, the lobby and ProviderGate over one link.
