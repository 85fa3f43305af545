------------------------------ MODULE SwarmPeers ------------------------------
(***************************************************************************)
(* Whom a P2pManager (peer/src/p2p_manager.rs) is connected to: the two    *)
(* maps between peers and libp2p identities, the connections it has        *)
(* handled, the peers listed in the registry behind the status page, the   *)
(* dials by presence, catalogue, request and rendezvous, and the bootnode. *)
(* SwarmManager (swarm_manager.rs) starts the manager and aborts it.       *)
(*                                                                         *)
(* A peer's identity is in the addresses it advertises; without addresses  *)
(* it is taken to be the one older versions derived from the peer's name   *)
(* (resolve_libp2p_peer_id). A connection may come before the catalogue    *)
(* that tells whose it is, and two peers may hold two connections.         *)
(*                                                                         *)
(* The manager is one task: each branch of its loop is one step.           *)
(***************************************************************************)
EXTENDS Naturals, FiniteSets

CONSTANTS
    Peers,          \* the other members of the swarm
    OldPeers,       \* those whose libp2p identity is derived from their name
    Boot,           \* the bootnode
    NoId, NoName,
    MaxConns,       \* bound: connections to one identity
    MaxStops,       \* bound: times the swarm is stopped
    MaxTold         \* bound: catalogues received and requests handled per peer

ASSUME SwarmPeersAssumption ==
    /\ OldPeers \subseteq Peers /\ Boot \notin Peers
    /\ MaxConns \in Nat \ {0} /\ MaxStops \in Nat /\ MaxTold \in Nat

Key(p)    == <<p, IF p \in OldPeers THEN "derived" ELSE "own">>
Derived(p) == <<p, "derived">>
BootId    == <<Boot, "own">>
Ids       == {Key(p) : p \in Peers} \cup {Derived(p) : p \in Peers} \cup {BootId}
Names     == Peers \cup Ids         \* an unknown identity is named by itself

\* A name is never an identity, and the two placeholders are neither.
ASSUME NamesAssumption == Peers \cap Ids = {} /\ NoId \notin Ids /\ NoName \notin Names

VARIABLES
    running,        \* the manager's task runs
    stops,          \* times the swarm was stopped
    conns,          \* connections per identity
    handled,        \* handled_swarm_peers
    libp2pOf,       \* mtrxai_to_libp2p
    nameOf,         \* libp2p_to_mtrxai
    cached,         \* peer_cache: "none", "bare" (no addresses), "addrs"
    registry,       \* names of this swarm's entries in the peer registry
    dialing,        \* identities being dialled
    backoff,        \* bootnode_dial_backoff_until lies ahead
    told            \* catalogues and requests so far, per peer

maps == <<libp2pOf, nameOf>>
vars == <<running, stops, conns, handled, maps, cached, registry, dialing, backoff, told>>

Connected(l) == conns[l] > 0

Init ==
    /\ running = TRUE /\ stops = 0
    /\ conns = [l \in Ids |-> 0] /\ handled = {}
    /\ libp2pOf = [n \in Names |-> NoId] /\ nameOf = [l \in Ids |-> NoName]
    /\ cached = [p \in Peers |-> "none"]
    /\ registry = {} /\ dialing = {BootId} /\ backoff = FALSE
    /\ told = [p \in Peers |-> 0]

\* resolve_libp2p_peer_id
Resolve(p, addrs) == IF addrs THEN Key(p) ELSE Derived(p)

\* Variant: only the way out is recorded.
MapOneWay(n, l) ==
    /\ libp2pOf' = [libp2pOf EXCEPT ![n] = l]
    /\ nameOf' = [nameOf EXCEPT ![l] = IF @ = NoName THEN n ELSE @]

\* The pair of inserts that follows every resolution.
Map(n, l) ==
    /\ libp2pOf' = [libp2pOf EXCEPT ![n] = l]
    /\ nameOf' = [nameOf EXCEPT ![l] = n]

\* swarm.dial, unless connected.
Dials(L) == dialing' = dialing \cup {l \in L : ~Connected(l)}

-----------------------------------------------------------------------------
(* Connections *)

NameFor(l) == IF nameOf[l] = NoName THEN l ELSE nameOf[l]

\* The old peer a new connection turns out to be (map_connected_mtrxai_peer).
OldPeerOf(l) == {p \in Peers : cached[p] # "none" /\ Derived(p) = l}

Ignored(l) == l = BootId \/ l \in handled

\* ConnectionEstablished. A bootnode is only registered with; a further
\* connection to a handled peer changes nothing. Otherwise the peer is tracked
\* under the name its identity has at this moment, and mapped if it is an old
\* peer with a catalogue.
Established(l) ==
    /\ running /\ conns[l] < MaxConns
    /\ l # Derived(l[1]) \/ l[1] \in OldPeers
    /\ conns' = [conns EXCEPT ![l] = @ + 1]
    /\ dialing' = dialing \ {l}
    /\ IF Ignored(l)
       THEN UNCHANGED <<handled, maps, registry>>
       ELSE /\ handled' = handled \cup {l}
            /\ registry' = registry \cup {NameFor(l)}
            /\ libp2pOf' = [n \in Names |-> IF n = NameFor(l) \/ n \in OldPeerOf(l) THEN l
                                            ELSE libp2pOf[n]]
            /\ nameOf' = [nameOf EXCEPT ![l] = IF OldPeerOf(l) = {} THEN NameFor(l) ELSE l[1]]
    /\ UNCHANGED <<running, stops, cached, backoff, told>>

HandledAfter(l) == IF l # BootId /\ conns[l] = 1 THEN handled \ {l} ELSE handled

\* untrack_libp2p_peer
Untrack(l) ==
    /\ nameOf' = [nameOf EXCEPT ![l] = NoName]
    /\ libp2pOf' = [libp2pOf EXCEPT ![NameFor(l)] = NoId]
    /\ registry' = registry \ {NameFor(l)}

\* ConnectionClosed: untracked even while another connection remains.
Closed(l) ==
    /\ running /\ Connected(l)
    /\ conns' = [conns EXCEPT ![l] = @ - 1]
    /\ handled' = HandledAfter(l)
    /\ Untrack(l)
    /\ UNCHANGED <<running, stops, cached, dialing, backoff, told>>

\* OutgoingConnectionError: to a bootnode it starts the backoff.
DialFails(l) ==
    /\ running /\ l \in dialing
    /\ dialing' = dialing \ {l}
    /\ backoff' = (backoff \/ l = BootId)
    /\ UNCHANGED <<running, stops, conns, handled, maps, cached, registry, told>>

-----------------------------------------------------------------------------
(* What is learnt of a peer, and dialling it *)

\* apply_remote_catalog, by gossip or from the peer itself. Catalogues keep
\* coming; only the first ones of a peer are counted.
Catalog(p, addrs) ==
    /\ running /\ told[p] < MaxTold
    /\ told' = [told EXCEPT ![p] = @ + 1]
    /\ Map(p, Resolve(p, addrs))
    /\ IF addrs THEN Dials({Key(p)}) ELSE UNCHANGED dialing
    /\ cached' = [cached EXCEPT ![p] = IF addrs THEN "addrs" ELSE "bare"]
    /\ UNCHANGED <<running, stops, conns, handled, registry, backoff>>

\* Variant: the bootnode is dialled again only after a restart.
BootDialOnce == IF handled = {} /\ ~backoff /\ stops > 0 THEN {BootId} ELSE {}

\* ensure_bootnode_connections: only without a peer in the swarm.
BootDial == IF handled = {} /\ ~backoff THEN {BootId} ELSE {}

\* sync_presence_via_lobby for the peers the lobby lists, which have addresses,
\* and that are not connected; then the bootnode.
PresenceTick(listed) ==
    LET away == {p \in listed : ~Connected(Key(p))} IN
    /\ running
    /\ cached' = [p \in Peers |-> IF p \in listed /\ cached[p] # "none" THEN "addrs" ELSE cached[p]]
    /\ libp2pOf' = [n \in Names |-> IF n \in away THEN Key(n) ELSE libp2pOf[n]]
    /\ nameOf' = [l \in Ids |-> IF \E p \in away : l = Key(p) THEN l[1] ELSE nameOf[l]]
    /\ Dials({Key(p) : p \in away} \cup BootDial)
    /\ UNCHANGED <<running, stops, conns, handled, registry, backoff, told>>

\* ensure_bootnode_connections and rendezvous_discover. What the bootnode, when
\* connected, knows of the swarm comes as a Discovered event, and is dialled.
RendezvousTick(found) ==
    /\ running
    /\ found # {} => Connected(BootId)
    /\ Dials({Key(p) : p \in found} \cup BootDial)
    /\ UNCHANGED <<running, stops, conns, handled, maps, cached, registry, backoff, told>>

\* handle_proxy_cmd for target p: resolve_libp2p_peer keeps a known identity,
\* and a peer with known addresses is dialled.
ProxyTo(p) ==
    LET l == IF libp2pOf[p] # NoId THEN libp2pOf[p] ELSE Resolve(p, cached[p] = "addrs")
        dials == ~Connected(l) /\ cached[p] = "addrs"
    IN
    /\ running /\ cached[p] # "none" /\ told[p] < MaxTold
    /\ told' = [told EXCEPT ![p] = @ + 1]
    /\ libp2pOf' = [libp2pOf EXCEPT ![p] = IF dials THEN Key(p) ELSE l]
    /\ nameOf' = [nameOf EXCEPT ![l] = p, ![Key(p)] = IF dials \/ l = Key(p) THEN p ELSE @]
    /\ IF dials THEN Dials({Key(p)}) ELSE UNCHANGED dialing
    /\ UNCHANGED <<running, stops, conns, handled, cached, registry, backoff>>

\* An encrypted request from a connection renews the mapping of its name.
RequestFrom(l) ==
    /\ running /\ l # BootId /\ Connected(l) /\ told[l[1]] < MaxTold
    /\ told' = [told EXCEPT ![l[1]] = @ + 1]
    /\ Map(NameFor(l), l)
    /\ UNCHANGED <<running, stops, conns, handled, cached, registry, dialing, backoff>>

BackoffEnds ==
    /\ backoff /\ backoff' = FALSE
    /\ UNCHANGED <<running, stops, conns, handled, maps, cached, registry, dialing, told>>

-----------------------------------------------------------------------------
(* SwarmManager *)

\* stop_swarm: the task is aborted with all it knows, and its entries leave the
\* registry. (The abort is not awaited: see the README.)
Stop ==
    /\ running /\ stops < MaxStops
    /\ running' = FALSE /\ stops' = stops + 1
    /\ conns' = [l \in Ids |-> 0] /\ handled' = {}
    /\ libp2pOf' = [n \in Names |-> NoId] /\ nameOf' = [l \in Ids |-> NoName]
    /\ cached' = [p \in Peers |-> "none"]
    /\ registry' = {} /\ dialing' = {} /\ backoff' = FALSE
    /\ told' = [p \in Peers |-> 0]

\* spawn_swarm, P2pManager::run: the bootnodes are dialled at once.
Start ==
    /\ ~running
    /\ running' = TRUE /\ dialing' = {BootId}
    /\ UNCHANGED <<stops, conns, handled, maps, cached, registry, backoff, told>>

-----------------------------------------------------------------------------

Ticks ==
    \/ \E listed \in SUBSET Peers : PresenceTick(listed)
    \/ \E found \in SUBSET Peers : RendezvousTick(found)

Learns ==
    \/ \E p \in Peers : ProxyTo(p) \/ \E addrs \in BOOLEAN : Catalog(p, addrs)
    \/ \E l \in Ids : RequestFrom(l)

Next ==
    \/ \E l \in Ids : Established(l) \/ Closed(l) \/ DialFails(l)
    \/ Ticks \/ Learns \/ BackoffEnds \/ Stop \/ Start

\* Only the timers are fair: presence every 15 s and rendezvous every 60 s, the
\* 120 s of the backoff, and the supervisor's 15 s tick.
Fairness == WF_vars(\E listed \in SUBSET Peers : PresenceTick(listed))
            /\ WF_vars(BackoffEnds) /\ WF_vars(Start)

Spec == Init /\ [][Next]_vars /\ Fairness

-----------------------------------------------------------------------------
(* Properties *)

\* The type invariant of a manager's view of its swarm.
TypeOK ==
    /\ running \in BOOLEAN /\ stops \in 0..MaxStops /\ backoff \in BOOLEAN
    /\ conns \in [Ids -> 0..MaxConns]
    /\ handled \subseteq Ids \ {BootId} /\ dialing \subseteq Ids
    /\ libp2pOf \in [Names -> Ids \cup {NoId}] /\ nameOf \in [Ids -> Names \cup {NoName}]
    /\ cached \in [Peers -> {"none", "bare", "addrs"}]
    /\ registry \subseteq Names
    /\ told \in [Peers -> 0..MaxTold]

\* The identity a peer's requests are sent to answers under that peer's name:
\* through every order of catalogues, presence, requests, connections and
\* closings, what comes back from it is booked for the peer it was sent to.
MapsAgree == \A p \in Peers : libp2pOf[p] # NoId => nameOf[libp2pOf[p]] = p

\* handled_swarm_peers, which keeps the bootnode from being dialled and a second
\* connection from being tracked, is exactly the peers connected, however many
\* connections they open and close.
HandledConnected == handled = {l \in Ids \ {BootId} : Connected(l)}

\* A peer the status page lists by its name is connected.
NamedMeansConnected == \A p \in registry \cap Peers : Connected(Key(p))

\* A manager's maps of its peers agree with each other and with the connections.
PeersInv == TypeOK /\ MapsAgree /\ HandledConnected /\ NamedMeansConnected

\* Without a peer in the swarm the bootnode is dialled sooner or later, failed
\* dials and their backoff, lost connections and restarts notwithstanding.
IsolatedRedials ==
    (handled = {}) ~> (handled # {} \/ BootId \in dialing \/ Connected(BootId))
=============================================================================
