--------------------------- MODULE SwarmPeersProofs ---------------------------
(***************************************************************************)
(* The safety of a swarm's manager: of its maps of peers (SwarmPeers) for  *)
(* any peers, old or new, and any bounds, and of what it makes of their    *)
(* announcements (SwarmCatalog) for any swarms, members and models. The    *)
(* two specifications share no constant and no variable.                   *)
(*                                                                         *)
(* That the two maps agree is not inductive: it needs that an identity is  *)
(* only ever mapped to the peer it belongs to, and back (Owned), and that  *)
(* the registry is emptied by the closing of a connection needs that a     *)
(* peer listed by its name is the one its identity answers to (Listed).    *)
(*                                                                         *)
(* That a catalogue shows what its manager has cached is inductive once it *)
(* is said of every turn of the manager, unless its rebuild is still to    *)
(* come (InStep). That an announcement fits its gossip message rests on    *)
(* what halving the number of its models ends with.                        *)
(***************************************************************************)
EXTENDS SwarmPeers, SwarmCatalog, TLAPS, FiniteSetTheorems, WellFoundedInduction

-----------------------------------------------------------------------------
(* The inductive invariant of a manager's peers *)

\* An identity belongs to its peer, whichever map tells so.
Owned ==
    /\ \A p \in Peers : libp2pOf[p] \in {Key(p), Derived(p), NoId}
    /\ \A l \in Ids : nameOf[l] \in Peers => nameOf[l] = l[1]

\* A peer listed by its name is connected, and its identity answers to that name.
Listed == \A p \in registry \cap Peers : Connected(Key(p)) /\ nameOf[Key(p)] = p

IInv == TypeOK /\ Owned /\ MapsAgree /\ HandledConnected /\ Listed

-----------------------------------------------------------------------------
(* Identities *)

\* The two identities a peer may have are its own.
LEMMA IdsOf ==
    ASSUME NEW p \in Peers
    PROVE  /\ Key(p) \in Ids \ {BootId} /\ Derived(p) \in Ids \ {BootId}
           /\ Key(p)[1] = p /\ Derived(p)[1] = p
           /\ p \in Names /\ p \notin Ids /\ p # NoName
  BY SwarmPeersAssumption, NamesAssumption DEF Ids, Names, Key, Derived, BootId

\* An identity other than the bootnode's is one of its peer's two.
LEMMA PeerOf ==
    ASSUME NEW l \in Ids, l # BootId
    PROVE  l[1] \in Peers /\ l \in {Key(l[1]), Derived(l[1])}
  BY DEF Ids, Key, Derived

\* The bootnode's identity belongs to no peer.
LEMMA BootIsNoPeer == BootId \in Ids /\ BootId[1] \notin Peers
  BY SwarmPeersAssumption DEF Ids, BootId

\* No identity is a name or a placeholder.
LEMMA IdIsName ==
    ASSUME NEW l \in Ids
    PROVE  l \in Names /\ l # NoId /\ l # NoName /\ l \notin Peers
  BY NamesAssumption DEF Names

\* What an identity is called: its peer, if it is called a peer.
LEMMA NameForOwned ==
    ASSUME TypeOK, Owned, NEW l \in Ids
    PROVE  /\ NameFor(l) \in Names
           /\ NameFor(l) \in Peers => NameFor(l) = nameOf[l] /\ NameFor(l) = l[1]
           /\ nameOf[l] \in Peers => NameFor(l) = nameOf[l]
  BY IdIsName, NamesAssumption DEF TypeOK, Owned, NameFor, Names

\* What resolve_libp2p_peer_id answers is one of the peer's two identities.
LEMMA ResolveOwned ==
    ASSUME NEW p \in Peers, NEW addrs \in BOOLEAN
    PROVE  Resolve(p, addrs) \in {Key(p), Derived(p)}
  BY DEF Resolve

-----------------------------------------------------------------------------
(* Steps *)

\* Nothing is known when a manager starts.
LEMMA InitInv == Init => IInv
  <1> SUFFICES ASSUME Init PROVE IInv
    OBVIOUS
  <1>1. BootId \in Ids /\ \A p \in Peers : p \in Names
    BY IdsOf, BootIsNoPeer
  <1>2. TypeOK
    <2>1. 0 \in 0..MaxConns /\ 0 \in 0..MaxStops /\ 0 \in 0..MaxTold
      BY SwarmPeersAssumption
    <2>2. conns \in [Ids -> 0..MaxConns] /\ told \in [Peers -> 0..MaxTold]
      BY <2>1 DEF Init
    <2>3. libp2pOf \in [Names -> Ids \cup {NoId}] /\ nameOf \in [Ids -> Names \cup {NoName}]
      BY DEF Init
    <2> QED BY <1>1, <2>1, <2>2, <2>3 DEF Init, TypeOK
  <1>3. Owned /\ MapsAgree
    BY <1>1, IdsOf, NamesAssumption DEF Init, Owned, MapsAgree, Names
  <1>4. HandledConnected /\ Listed
    BY DEF Init, HandledConnected, Listed, Connected
  <1> QED BY <1>2, <1>3, <1>4 DEF IInv

\* A mapping of a peer to one of its identities and back keeps the maps sound; what the
\* identity was called, it had been called by.
LEMMA MapKeeps ==
    ASSUME IInv, NEW p \in Peers, NEW l \in {Key(p), Derived(p)},
           UNCHANGED <<conns, handled, registry>>, Map(p, l)
    PROVE  /\ libp2pOf' \in [Names -> Ids \cup {NoId}] /\ nameOf' \in [Ids -> Names \cup {NoName}]
           /\ Owned' /\ MapsAgree' /\ HandledConnected' /\ Listed'
  <1>1. l \in Ids /\ l[1] = p /\ p \in Names
    BY IdsOf
  <1>2. libp2pOf' \in [Names -> Ids \cup {NoId}] /\ nameOf' \in [Ids -> Names \cup {NoName}]
    BY <1>1 DEF IInv, TypeOK, Map
  <1>3. \A n \in Names : libp2pOf'[n] = IF n = p THEN l ELSE libp2pOf[n]
    BY <1>1 DEF IInv, TypeOK, Map
  <1>4. \A k \in Ids : nameOf'[k] = IF k = l THEN p ELSE nameOf[k]
    BY <1>1 DEF IInv, TypeOK, Map
  <1>5. Owned'
    <2>1. \A q \in Peers : libp2pOf'[q] \in {Key(q), Derived(q), NoId}
      BY <1>3, IdsOf DEF IInv, Owned
    <2>2. \A k \in Ids : nameOf'[k] \in Peers => nameOf'[k] = k[1]
      BY <1>1, <1>4 DEF IInv, Owned
    <2> QED BY <2>1, <2>2 DEF Owned
  <1>6. MapsAgree'
    <2> SUFFICES ASSUME NEW q \in Peers, libp2pOf'[q] # NoId PROVE nameOf'[libp2pOf'[q]] = q
      BY DEF MapsAgree
    <2>1. CASE q = p
      BY <2>1, <1>1, <1>3, <1>4
    <2>2. CASE q # p
      <3>1. libp2pOf'[q] = libp2pOf[q] /\ libp2pOf[q] \in {Key(q), Derived(q)}
        BY <2>2, <1>3, IdsOf DEF IInv, Owned
      <3>2. libp2pOf[q] \in Ids /\ libp2pOf[q] # l
        BY <3>1, <2>2, <1>1, IdsOf
      <3> QED BY <3>1, <3>2, <1>4 DEF IInv, MapsAgree
    <2> QED BY <2>1, <2>2
  <1>7. HandledConnected'
    BY DEF IInv, HandledConnected, Connected
  <1>8. Listed'
    <2> SUFFICES ASSUME NEW q \in registry' \cap Peers
                 PROVE  Connected(Key(q))' /\ nameOf'[Key(q)] = q
      BY DEF Listed, Connected
    <2>1. Key(q) \in Ids /\ Key(q)[1] = q
      BY IdsOf
    <2> QED BY <1>1, <1>4, <2>1 DEF IInv, Listed, Connected
  <1> QED BY <1>2, <1>5, <1>6, <1>7, <1>8

\* A connection: an ignored one leaves everything as it is, any other is booked under the
\* name its identity has.
LEMMA EstablishedInv ==
    ASSUME IInv, NEW l \in Ids, Established(l)
    PROVE  IInv'
  <1>1. /\ conns' \in [Ids -> 0..MaxConns]
        /\ \A k \in Ids : conns'[k] = IF k = l THEN conns[l] + 1 ELSE conns[k]
        /\ conns[l] \in Nat /\ conns'[l] > 0
    BY SwarmPeersAssumption DEF IInv, TypeOK, Established
  <1>2. CASE Ignored(l)
    <2>1. TypeOK'
      BY <1>1, <1>2 DEF IInv, TypeOK, Established, maps
    <2>2. Owned' /\ MapsAgree'
      BY <1>2 DEF IInv, Established, Owned, MapsAgree, maps
    <2>3. HandledConnected'
      BY <1>1, <1>2 DEF IInv, Established, HandledConnected, Connected, Ignored
    <2>4. Listed'
      <3> SUFFICES ASSUME NEW q \in registry' \cap Peers
                   PROVE  Connected(Key(q))' /\ nameOf'[Key(q)] = q
        BY DEF Listed, Connected
      <3>1. Key(q) \in Ids /\ q \in registry /\ nameOf' = nameOf
        BY IdsOf, <1>2 DEF Established, maps
      <3> QED BY <3>1, <1>1 DEF IInv, Listed, Connected
    <2> QED BY <2>1, <2>2, <2>3, <2>4 DEF IInv
  <1>3. CASE ~Ignored(l)
    <2>1. /\ handled' = handled \cup {l}
          /\ registry' = registry \cup {NameFor(l)}
          /\ libp2pOf' = [n \in Names |-> IF n = NameFor(l) \/ n \in OldPeerOf(l) THEN l
                                          ELSE libp2pOf[n]]
          /\ nameOf' = [nameOf EXCEPT ![l] = IF OldPeerOf(l) = {} THEN NameFor(l) ELSE l[1]]
          /\ l # BootId
      BY <1>3 DEF Established, Ignored
    <2>2. l[1] \in Peers /\ l \in {Key(l[1]), Derived(l[1])} /\ l[1] \in Names
      BY <2>1, PeerOf, IdsOf
    <2>3. l = Key(l[1])
      BY <2>2 DEF Established, Key, Derived
    <2>4. NameFor(l) \in Names /\ (NameFor(l) \in Peers => NameFor(l) = l[1])
      BY NameForOwned DEF IInv
    <2>5. \A p \in OldPeerOf(l) : p \in Peers /\ p = l[1]
      BY IdsOf DEF OldPeerOf
    <2>6. \A k \in Ids : nameOf'[k] = IF k # l THEN nameOf[k]
                                      ELSE IF OldPeerOf(l) = {} THEN NameFor(l) ELSE l[1]
      BY <2>1 DEF IInv, TypeOK
    <2>7. \A n \in Names : libp2pOf'[n] = IF n = NameFor(l) \/ n \in OldPeerOf(l) THEN l
                                          ELSE libp2pOf[n]
      BY <2>1
    <2>8. TypeOK'
      <3>1. handled' \subseteq Ids \ {BootId} /\ registry' \subseteq Names
            /\ dialing' \subseteq Ids
        BY <2>1, <2>4 DEF IInv, TypeOK, Established
      <3>2. libp2pOf' \in [Names -> Ids \cup {NoId}]
        BY <2>1 DEF IInv, TypeOK
      <3>3. nameOf' \in [Ids -> Names \cup {NoName}]
        BY <2>1, <2>2, <2>4 DEF IInv, TypeOK
      <3> QED BY <1>1, <3>1, <3>2, <3>3 DEF IInv, TypeOK, Established
    <2>9. Owned'
      <3>1. \A p \in Peers : libp2pOf'[p] \in {Key(p), Derived(p), NoId}
        BY <2>2, <2>4, <2>5, <2>7, IdsOf DEF IInv, Owned
      <3>2. \A k \in Ids : nameOf'[k] \in Peers => nameOf'[k] = k[1]
        BY <2>4, <2>6 DEF IInv, Owned
      <3> QED BY <3>1, <3>2 DEF Owned
    <2>10. nameOf[l] = l[1] => nameOf'[l] = l[1]
      BY <2>2, <2>6, NameForOwned DEF IInv
    <2>11. MapsAgree'
      <3> SUFFICES ASSUME NEW q \in Peers, libp2pOf'[q] # NoId PROVE nameOf'[libp2pOf'[q]] = q
        BY DEF MapsAgree
      <3>1. CASE q = NameFor(l) \/ q \in OldPeerOf(l)
        <4>1. libp2pOf'[q] = l /\ q = l[1]
          BY <3>1, <2>4, <2>5, <2>7, IdsOf
        <4> QED BY <4>1, <3>1, <2>5, <2>6
      <3>2. CASE ~(q = NameFor(l) \/ q \in OldPeerOf(l))
        <4>1. libp2pOf'[q] = libp2pOf[q] /\ libp2pOf[q] \in Ids /\ nameOf[libp2pOf[q]] = q
          BY <3>2, <2>7, IdsOf DEF IInv, Owned, MapsAgree
        <4>2. libp2pOf[q] # l
          BY <4>1, <3>2, NameForOwned DEF IInv
        <4> QED BY <4>1, <4>2, <2>6
      <3> QED BY <3>1, <3>2
    <2>12. HandledConnected'
      BY <1>1, <2>1 DEF IInv, HandledConnected, Connected
    <2>13. Listed'
      <3> SUFFICES ASSUME NEW q \in registry' \cap Peers
                   PROVE  Connected(Key(q))' /\ nameOf'[Key(q)] = q
        BY DEF Listed, Connected
      <3>1. Key(q) \in Ids
        BY IdsOf
      <3>2. CASE q = NameFor(l)
        <4>1. q = l[1] /\ Key(q) = l
          BY <3>2, <2>3, <2>4
        <4> QED BY <4>1, <3>1, <3>2, <1>1, <2>6 DEF Connected
      <3>3. CASE q # NameFor(l)
        <4>1. q \in registry /\ conns[Key(q)] > 0 /\ nameOf[Key(q)] = q
          BY <3>3, <2>1 DEF IInv, Listed, Connected
        <4>2. Key(q) # l
          BY <4>1, <3>3, NameForOwned DEF IInv
        <4> QED BY <4>1, <4>2, <3>1, <1>1, <2>6 DEF Connected
      <3> QED BY <3>2, <3>3
    <2> QED BY <2>8, <2>9, <2>11, <2>12, <2>13 DEF IInv
  <1> QED BY <1>2, <1>3

\* A connection that closes takes the names of its identity with it, and the listing
\* under them.
LEMMA ClosedInv ==
    ASSUME IInv, NEW l \in Ids, Closed(l)
    PROVE  IInv'
  <1>1. /\ conns' \in [Ids -> 0..MaxConns]
        /\ \A k \in Ids : conns'[k] = IF k = l THEN conns[l] - 1 ELSE conns[k]
        /\ \A k \in Ids : conns[k] \in Nat
        /\ conns[l] > 0
    BY SwarmPeersAssumption DEF IInv, TypeOK, Closed, Connected
  <1>2. /\ NameFor(l) \in Names /\ (NameFor(l) \in Peers => NameFor(l) = l[1])
        /\ nameOf[l] \in Peers => NameFor(l) = nameOf[l]
    BY NameForOwned DEF IInv
  <1>3. /\ \A k \in Ids : nameOf'[k] = IF k = l THEN NoName ELSE nameOf[k]
        /\ \A n \in Names : libp2pOf'[n] = IF n = NameFor(l) THEN NoId ELSE libp2pOf[n]
        /\ registry' = registry \ {NameFor(l)}
        /\ nameOf' \in [Ids -> Names \cup {NoName}]
        /\ libp2pOf' \in [Names -> Ids \cup {NoId}]
    BY <1>2 DEF IInv, TypeOK, Closed, Untrack
  <1>4. TypeOK'
    BY <1>1, <1>3 DEF IInv, TypeOK, Closed, HandledAfter
  <1>5. Owned'
    <2>1. \A p \in Peers : libp2pOf'[p] \in {Key(p), Derived(p), NoId}
      BY <1>3, IdsOf DEF IInv, Owned
    <2>2. \A k \in Ids : nameOf'[k] \in Peers => nameOf'[k] = k[1]
      BY <1>3, NamesAssumption DEF IInv, Owned, Names
    <2> QED BY <2>1, <2>2 DEF Owned
  <1>6. MapsAgree'
    <2> SUFFICES ASSUME NEW q \in Peers, libp2pOf'[q] # NoId PROVE nameOf'[libp2pOf'[q]] = q
      BY DEF MapsAgree
    <2>1. q # NameFor(l) /\ libp2pOf'[q] = libp2pOf[q]
      BY <1>3, IdsOf
    <2>2. libp2pOf[q] \in Ids /\ nameOf[libp2pOf[q]] = q
      BY <2>1, IdsOf DEF IInv, Owned, MapsAgree
    <2>3. libp2pOf[q] # l
      BY <1>2, <2>1, <2>2
    <2> QED BY <1>3, <2>1, <2>2, <2>3
  <1>7. HandledConnected'
    <2>1. handled' = HandledAfter(l)
      BY DEF Closed
    <2>2. CASE l # BootId /\ conns[l] = 1
      BY <1>1, <2>1, <2>2 DEF IInv, HandledConnected, HandledAfter, Connected
    <2>3. CASE ~(l # BootId /\ conns[l] = 1)
      BY <1>1, <2>1, <2>3 DEF IInv, HandledConnected, HandledAfter, Connected
    <2> QED BY <2>2, <2>3
  <1>8. Listed'
    <2> SUFFICES ASSUME NEW q \in registry' \cap Peers
                 PROVE  Connected(Key(q))' /\ nameOf'[Key(q)] = q
      BY DEF Listed, Connected
    <2>1. Key(q) \in Ids /\ q # NameFor(l)
      BY <1>3, IdsOf
    <2>2. conns[Key(q)] > 0 /\ nameOf[Key(q)] = q
      BY <1>3 DEF IInv, Listed, Connected
    <2>3. Key(q) # l
      BY <1>2, <2>1, <2>2
    <2> QED BY <1>1, <1>3, <2>1, <2>2, <2>3 DEF Connected
  <1> QED BY <1>4, <1>5, <1>6, <1>7, <1>8 DEF IInv

\* A dial that fails and a backoff that ends are no matter of the maps.
LEMMA DialInv ==
    ASSUME IInv, BackoffEnds \/ (\E l \in Ids : DialFails(l)) \/ \E found \in SUBSET Peers : RendezvousTick(found)
    PROVE  IInv'
  <1>1. UNCHANGED <<running, stops, conns, handled, libp2pOf, nameOf, cached, registry, told>>
    BY DEF BackoffEnds, DialFails, RendezvousTick, maps
  <1>2. backoff' \in BOOLEAN
    BY DEF IInv, TypeOK, BackoffEnds, DialFails, RendezvousTick
  <1>3. dialing' \subseteq Ids
    <2>1. CASE BackoffEnds \/ \E l \in Ids : DialFails(l)
      BY <2>1 DEF IInv, TypeOK, BackoffEnds, DialFails
    <2>2. CASE \E found \in SUBSET Peers : RendezvousTick(found)
      BY <2>2, IdsOf, BootIsNoPeer DEF IInv, TypeOK, RendezvousTick, Dials, BootDial
    <2> QED BY <2>1, <2>2
  <1>4. TypeOK'
    BY <1>1, <1>2, <1>3 DEF IInv, TypeOK
  <1>5. Owned' /\ MapsAgree' /\ HandledConnected' /\ Listed'
    BY <1>1 DEF IInv, Owned, MapsAgree, HandledConnected, Listed, Connected
  <1> QED BY <1>4, <1>5 DEF IInv

\* A catalogue maps the peer to the identity its addresses speak for.
LEMMA CatalogFromInv ==
    ASSUME IInv, NEW p \in Peers, NEW addrs \in BOOLEAN, Catalog(p, addrs)
    PROVE  IInv'
  <1>1. Resolve(p, addrs) \in {Key(p), Derived(p)}
    BY ResolveOwned
  <1>2. Map(p, Resolve(p, addrs)) /\ UNCHANGED <<conns, handled, registry>>
    BY DEF Catalog
  <1>3. /\ libp2pOf' \in [Names -> Ids \cup {NoId}] /\ nameOf' \in [Ids -> Names \cup {NoName}]
        /\ Owned' /\ MapsAgree' /\ HandledConnected' /\ Listed'
    BY <1>1, <1>2, MapKeeps
  <1>4. dialing' \subseteq Ids
    BY IdsOf DEF IInv, TypeOK, Catalog, Dials
  <1>5. told' \in [Peers -> 0..MaxTold] /\ cached' \in [Peers -> {"none", "bare", "addrs"}]
    BY SwarmPeersAssumption DEF IInv, TypeOK, Catalog
  <1> QED BY <1>3, <1>4, <1>5 DEF IInv, TypeOK, Catalog

\* A request from a connection renews the mapping of a peer, or names the identity by itself.
LEMMA RequestFromInv ==
    ASSUME IInv, NEW l \in Ids, RequestFrom(l)
    PROVE  IInv'
  <1>1. /\ Map(NameFor(l), l) /\ UNCHANGED <<conns, handled, registry>>
        /\ l[1] \in Peers /\ l \in {Key(l[1]), Derived(l[1])}
    BY PeerOf DEF RequestFrom
  <1>2. /\ NameFor(l) \in Names /\ (NameFor(l) \in Peers => NameFor(l) = l[1])
        /\ nameOf[l] \in Peers => NameFor(l) = nameOf[l]
    BY NameForOwned DEF IInv
  <1>3. /\ libp2pOf' \in [Names -> Ids \cup {NoId}] /\ nameOf' \in [Ids -> Names \cup {NoName}]
        /\ Owned' /\ MapsAgree' /\ HandledConnected' /\ Listed'
    <2>1. CASE NameFor(l) \in Peers
      BY <1>1, <1>2, <2>1, MapKeeps
    <2>2. CASE NameFor(l) \notin Peers
      <3>1. /\ \A n \in Names : libp2pOf'[n] = IF n = NameFor(l) THEN l ELSE libp2pOf[n]
            /\ \A k \in Ids : nameOf'[k] = IF k = l THEN NameFor(l) ELSE nameOf[k]
            /\ libp2pOf' \in [Names -> Ids \cup {NoId}]
            /\ nameOf' \in [Ids -> Names \cup {NoName}]
        BY <1>1, <1>2 DEF IInv, TypeOK, Map
      <3>2. \A q \in Peers : libp2pOf'[q] = libp2pOf[q]
        BY <2>2, <3>1, IdsOf
      <3>3. nameOf[l] \notin Peers
        BY <1>2, <2>2
      <3>4. Owned'
        BY <2>2, <3>1, <3>2 DEF IInv, Owned
      <3>5. MapsAgree'
        <4> SUFFICES ASSUME NEW q \in Peers, libp2pOf'[q] # NoId
                     PROVE  nameOf'[libp2pOf'[q]] = q
          BY DEF MapsAgree
        <4>1. libp2pOf[q] \in Ids /\ nameOf[libp2pOf[q]] = q /\ libp2pOf'[q] = libp2pOf[q]
          BY <3>2, IdsOf DEF IInv, Owned, MapsAgree
        <4> QED BY <3>1, <3>3, <4>1
      <3>6. HandledConnected'
        BY <1>1 DEF IInv, HandledConnected, Connected
      <3>7. Listed'
        <4> SUFFICES ASSUME NEW q \in registry' \cap Peers
                     PROVE  Connected(Key(q))' /\ nameOf'[Key(q)] = q
          BY DEF Listed, Connected
        <4>1. Key(q) \in Ids /\ conns'[Key(q)] > 0 /\ nameOf[Key(q)] = q
          BY <1>1, IdsOf DEF IInv, Listed, Connected
        <4> QED BY <3>1, <3>3, <4>1 DEF Connected
      <3> QED BY <3>1, <3>4, <3>5, <3>6, <3>7
    <2> QED BY <2>1, <2>2
  <1>4. told' \in [Peers -> 0..MaxTold]
    BY <1>1, SwarmPeersAssumption DEF IInv, TypeOK, RequestFrom
  <1> QED BY <1>3, <1>4 DEF IInv, TypeOK, RequestFrom

\* The request's target is mapped to the identity known for it, and to the one its
\* addresses speak for when it is dialled.
LEMMA ProxyToInv ==
    ASSUME IInv, NEW p \in Peers, ProxyTo(p)
    PROVE  IInv'
  <1> DEFINE l == IF libp2pOf[p] # NoId THEN libp2pOf[p] ELSE Resolve(p, cached[p] = "addrs")
             d == ~Connected(l) /\ cached[p] = "addrs"
  <1>1. l \in {Key(p), Derived(p)}
    BY ResolveOwned DEF IInv, Owned
  <1>2. l \in Ids /\ l[1] = p /\ Key(p) \in Ids /\ Key(p)[1] = p /\ p \in Names
    BY <1>1, IdsOf
  <1>3. /\ libp2pOf' = [libp2pOf EXCEPT ![p] = IF d THEN Key(p) ELSE l]
        /\ nameOf' = [nameOf EXCEPT ![l] = p, ![Key(p)] = IF d \/ l = Key(p) THEN p ELSE @]
        /\ dialing' = dialing \cup {k \in {Key(p)} : ~Connected(k)} \/ UNCHANGED dialing
        /\ told' = [told EXCEPT ![p] = @ + 1] /\ told[p] < MaxTold
        /\ UNCHANGED <<running, stops, conns, handled, cached, registry, backoff>>
    BY DEF ProxyTo, Dials
  <1> HIDE DEF l, d
  <1>4. \A n \in Names : libp2pOf'[n] = IF n = p THEN IF d THEN Key(p) ELSE l ELSE libp2pOf[n]
    BY <1>2, <1>3 DEF IInv, TypeOK
  <1>5. \A k \in Ids : nameOf'[k] = IF k = l \/ (k = Key(p) /\ d) THEN p ELSE nameOf[k]
    BY <1>2, <1>3 DEF IInv, TypeOK
  <1>6. TypeOK'
    <2>1. libp2pOf' \in [Names -> Ids \cup {NoId}]
      BY <1>2, <1>3 DEF IInv, TypeOK
    <2>2. nameOf' \in [Ids -> Names \cup {NoName}]
      <3>1. nameOf \in [Ids -> Names \cup {NoName}]
        BY DEF IInv, TypeOK
      <3>2. DOMAIN nameOf' = Ids /\ nameOf' = [k \in Ids |-> nameOf'[k]]
        BY <1>2, <1>3, <3>1
      <3> QED BY <1>2, <1>5, <3>1, <3>2
    <2>3. dialing' \subseteq Ids
      BY <1>2, <1>3 DEF IInv, TypeOK
    <2>4. told' \in [Peers -> 0..MaxTold]
      BY <1>3, SwarmPeersAssumption DEF IInv, TypeOK
    <2> QED BY <1>3, <2>1, <2>2, <2>3, <2>4 DEF IInv, TypeOK
  <1>7. Owned'
    <2>1. \A q \in Peers : libp2pOf'[q] \in {Key(q), Derived(q), NoId}
      BY <1>1, <1>4, IdsOf DEF IInv, Owned
    <2>2. \A k \in Ids : nameOf'[k] \in Peers => nameOf'[k] = k[1]
      BY <1>2, <1>5 DEF IInv, Owned
    <2> QED BY <2>1, <2>2 DEF Owned
  <1>8. MapsAgree'
    <2> SUFFICES ASSUME NEW q \in Peers, libp2pOf'[q] # NoId PROVE nameOf'[libp2pOf'[q]] = q
      BY DEF MapsAgree
    <2>1. CASE q = p
      BY <2>1, <1>2, <1>4, <1>5
    <2>2. CASE q # p
      <3>1. libp2pOf'[q] = libp2pOf[q] /\ libp2pOf[q] \in Ids /\ libp2pOf[q][1] = q
            /\ nameOf[libp2pOf[q]] = q
        BY <2>2, <1>4, IdsOf DEF IInv, Owned, MapsAgree
      <3> QED BY <3>1, <2>2, <1>2, <1>5
    <2> QED BY <2>1, <2>2
  <1>9. HandledConnected' /\ Listed'
    <2>1. HandledConnected'
      BY <1>3 DEF IInv, HandledConnected, Connected
    <2>2. ASSUME NEW q \in registry' \cap Peers PROVE Connected(Key(q))' /\ nameOf'[Key(q)] = q
      <3>1. Key(q) \in Ids /\ Key(q)[1] = q
        BY IdsOf
      <3> QED BY <3>1, <1>2, <1>3, <1>5 DEF IInv, Listed, Connected
    <2> QED BY <2>1, <2>2 DEF Listed
  <1> QED BY <1>6, <1>7, <1>8, <1>9 DEF IInv

\* Every peer the lobby lists and that is away is mapped at once.
LEMMA PresenceInv ==
    ASSUME IInv, NEW listed \in SUBSET Peers, PresenceTick(listed)
    PROVE  IInv'
  <1> DEFINE away == {p \in listed : ~Connected(Key(p))}
  <1>1. /\ \A n \in Names : libp2pOf'[n] = IF n \in away THEN Key(n) ELSE libp2pOf[n]
        /\ \A k \in Ids : nameOf'[k] = IF \E p \in away : k = Key(p) THEN k[1] ELSE nameOf[k]
        /\ away \subseteq Peers
        /\ UNCHANGED <<running, stops, conns, handled, registry, backoff, told>>
    BY DEF PresenceTick
  <1>2. TypeOK'
    <2>1. libp2pOf' \in [Names -> Ids \cup {NoId}]
      <3>1. \A n \in Names : (IF n \in away THEN Key(n) ELSE libp2pOf[n]) \in Ids \cup {NoId}
        BY <1>1, IdsOf DEF IInv, TypeOK
      <3> QED BY <3>1 DEF PresenceTick
    <2>2. nameOf' \in [Ids -> Names \cup {NoName}]
      <3>1. \A k \in Ids :
              (IF \E p \in away : k = Key(p) THEN k[1] ELSE nameOf[k]) \in Names \cup {NoName}
        BY <1>1, IdsOf DEF IInv, TypeOK
      <3> QED BY <3>1 DEF PresenceTick
    <2>3. cached' \in [Peers -> {"none", "bare", "addrs"}]
      BY DEF IInv, TypeOK, PresenceTick
    <2>4. dialing' \subseteq Ids
      BY <1>1, IdsOf, BootIsNoPeer DEF IInv, TypeOK, PresenceTick, Dials, BootDial
    <2> QED BY <1>1, <2>1, <2>2, <2>3, <2>4 DEF IInv, TypeOK
  <1> HIDE DEF away
  <1>3. Owned'
    <2>1. \A q \in Peers : libp2pOf'[q] \in {Key(q), Derived(q), NoId}
      BY <1>1, IdsOf DEF IInv, Owned
    <2>2. \A k \in Ids : nameOf'[k] \in Peers => nameOf'[k] = k[1]
      BY <1>1 DEF IInv, Owned
    <2> QED BY <2>1, <2>2 DEF Owned
  <1>4. MapsAgree'
    <2> SUFFICES ASSUME NEW q \in Peers, libp2pOf'[q] # NoId PROVE nameOf'[libp2pOf'[q]] = q
      BY DEF MapsAgree
    <2>1. CASE q \in away
      BY <2>1, <1>1, IdsOf
    <2>2. CASE q \notin away
      <3>1. libp2pOf'[q] = libp2pOf[q] /\ libp2pOf[q] \in Ids /\ libp2pOf[q][1] = q
            /\ nameOf[libp2pOf[q]] = q
        BY <2>2, <1>1, IdsOf DEF IInv, Owned, MapsAgree
      <3> QED BY <3>1, <1>1
    <2> QED BY <2>1, <2>2
  <1>5. HandledConnected' /\ Listed'
    <2>1. HandledConnected'
      BY <1>1 DEF IInv, HandledConnected, Connected
    <2>2. ASSUME NEW q \in registry' \cap Peers PROVE Connected(Key(q))' /\ nameOf'[Key(q)] = q
      <3>1. Key(q) \in Ids /\ Key(q)[1] = q
        BY IdsOf
      <3> QED BY <3>1, <1>1 DEF IInv, Listed, Connected
    <2> QED BY <2>1, <2>2 DEF Listed
  <1> QED BY <1>2, <1>3, <1>4, <1>5 DEF IInv

\* A stop forgets everything, a start knows nothing yet.
LEMMA LifecycleInv ==
    ASSUME IInv, Stop \/ Start
    PROVE  IInv'
  <1>1. CASE Stop
    <2>1. stops' \in 0..MaxStops /\ 0 \in 0..MaxConns /\ 0 \in 0..MaxTold
      BY <1>1, SwarmPeersAssumption DEF IInv, TypeOK, Stop
    <2>2. conns' \in [Ids -> 0..MaxConns] /\ told' \in [Peers -> 0..MaxTold]
          /\ libp2pOf' \in [Names -> Ids \cup {NoId}] /\ nameOf' \in [Ids -> Names \cup {NoName}]
          /\ cached' \in [Peers -> {"none", "bare", "addrs"}]
      BY <1>1, <2>1 DEF Stop
    <2>3. TypeOK'
      BY <1>1, <2>1, <2>2 DEF Stop, TypeOK
    <2>4. Owned' /\ MapsAgree'
      BY <1>1, IdsOf, NamesAssumption DEF Stop, Owned, MapsAgree, Names
    <2>5. HandledConnected' /\ Listed'
      BY <1>1 DEF Stop, HandledConnected, Listed, Connected
    <2> QED BY <2>3, <2>4, <2>5 DEF IInv
  <1>2. CASE Start
    <2>1. TypeOK'
      BY <1>2, BootIsNoPeer DEF Start, IInv, TypeOK, maps
    <2>2. Owned' /\ MapsAgree' /\ HandledConnected' /\ Listed'
      BY <1>2 DEF Start, maps, IInv, Owned, MapsAgree, HandledConnected, Listed, Connected
    <2> QED BY <2>1, <2>2 DEF IInv
  <1> QED BY <1>1, <1>2

\* Every step preserves the invariant.
LEMMA NextInv == IInv /\ [Next]_vars => IInv'
  <1> SUFFICES ASSUME IInv, [Next]_vars PROVE IInv'
    OBVIOUS
  <1>1. CASE \E l \in Ids : Established(l) \/ Closed(l)
    BY <1>1, EstablishedInv, ClosedInv
  <1>2. CASE BackoffEnds \/ (\E l \in Ids : DialFails(l))
             \/ \E found \in SUBSET Peers : RendezvousTick(found)
    BY <1>2, DialInv
  <1>3. CASE \E listed \in SUBSET Peers : PresenceTick(listed)
    BY <1>3, PresenceInv
  <1>4. CASE Learns
    BY <1>4, ProxyToInv, CatalogFromInv, RequestFromInv DEF Learns
  <1>5. CASE Stop \/ Start
    BY <1>5, LifecycleInv
  <1>6. CASE UNCHANGED vars
    BY <1>6 DEF vars, maps, IInv, TypeOK, Owned, MapsAgree, HandledConnected, Listed, Connected
  <1> QED BY <1>1, <1>2, <1>3, <1>4, <1>5, <1>6 DEF Next, Ticks

-----------------------------------------------------------------------------
(* Theorems about a manager's peers *)

\* The inductive invariant holds of every behaviour of a swarm's manager.
THEOREM PeersInductive == Spec => []IInv
  <1>1. Init => IInv
    BY InitInv
  <1>2. IInv /\ [Next]_vars => IInv'
    BY NextInv
  <1> QED BY <1>1, <1>2, PTL DEF Spec

\* A manager's maps of its peers agree with each other and with its connections, through
\* any order of catalogues, ticks, requests, connections, closings and restarts.
THEOREM PeersCorrect == Spec => []PeersInv
  <1>1. IInv => PeersInv
    BY DEF IInv, PeersInv, Listed, NamedMeansConnected
  <1> QED BY <1>1, PeersInductive, PTL

-----------------------------------------------------------------------------
(* The inductive invariant of a manager's catalogue *)

\* The offers of a swarm's other members, as its manager knows them.
Cached(s) == UNION {cache[s][p].models \X {p} :
                    p \in {x \in Others : cache[s][x] # None /\ cache[s][x].accepting}}

\* Unless its rebuild is still to come, a manager's catalogue shows what it has cached.
InStep == \A s \in Swarms : task[s] = "running" /\ pc[s] # "insert" =>
                              {o \in catalog[s] : o[2] # Me} = Cached(s)

Asks == [at : {"none", "queued", "sent", "refused", "closed"},
         model : Models \cup {None}, swarm : Swarms \cup {None}]

CatalogIInv == CatalogTypeOK /\ ask \in Asks /\ InStep

-----------------------------------------------------------------------------
(* What gossip carries *)

\* A set of natural numbers that is not empty has a least one.
LEMMA LeastOf ==
    ASSUME NEW T \in SUBSET Nat, T # {}
    PROVE  \E x \in T : \A y \in T : x <= y
  <1> DEFINE R == {ss \in Nat \X Nat : ss[1] < ss[2]}
  <1>1. IsWellFoundedOn(R, Nat)
    BY NatLessThanWellFounded DEF OpToRel
  <1> HIDE DEF R
  <1>2. PICK x \in T : \A y \in T : ~ (<<y, x>> \in R)
    BY <1>1, WFMin
  <1>3. \A y \in T : ~(y < x)
    BY <1>2 DEF R
  <1> QED
    BY <1>2, <1>3

\* A finite set has a subset of every size up to its own.
LEMMA SubsetOfSize ==
    ASSUME NEW S, IsFiniteSet(S), NEW n \in 0..Cardinality(S)
    PROVE  \E ms \in SUBSET S : Cardinality(ms) = n
  <1> DEFINE T == {k \in Nat : k >= n /\ \E ms \in SUBSET S : Cardinality(ms) = k}
  <1>1. Cardinality(S) \in Nat /\ n \in Nat
    BY FS_CardinalityType
  <1>2. T \in SUBSET Nat /\ T # {}
    <2>1. Cardinality(S) \in T
      BY <1>1
    <2> QED
      BY <2>1
  <1> HIDE DEF T
  <1>3. PICK k \in T : \A j \in T : k <= j
    BY <1>2, LeastOf
  <1>4. k \in Nat /\ k >= n
    BY <1>3 DEF T
  <1>5. PICK ms \in SUBSET S : Cardinality(ms) = k
    BY <1>3 DEF T
  <1>6. CASE k = n
    BY <1>5, <1>6
  <1>7. CASE k # n
    <2>1. IsFiniteSet(ms)
      BY FS_Subset
    <2>2. ms # {}
      BY <1>4, <1>5, <1>7, <1>1, FS_EmptySet
    <2>3. PICK x : x \in ms
      BY <2>2
    <2>4. Cardinality(ms \ {x}) = k - 1
      BY <2>1, <2>3, <1>5, FS_RemoveElement
    <2>5. k - 1 \in T
      BY <2>4, <1>1, <1>4, <1>7 DEF T
    <2> QED
      BY <2>5, <1>3, <1>4
  <1> QED
    BY <1>6, <1>7

\* Halving ends with what a message has room for.
LEMMA HalvedFits ==
    ASSUME NEW c \in Nat, MaxGossip \in Nat
    PROVE  Halved(c) \in 0..c /\ Halved(c) <= MaxGossip
  <1> DEFINE Half(rest, k) == IF k <= MaxGossip THEN k ELSE rest[k \div 2]
             Has(n) == \E f : f = [k \in 0..n |-> Half(f, k)]
             T == {n \in Nat : ~Has(n)}
  <1>1. ASSUME T # {} PROVE FALSE
    <2>1. T \in SUBSET Nat
      OBVIOUS
    <2> HIDE DEF T
    <2>2. PICK n \in T : \A m \in T : n <= m
      BY <1>1, <2>1, LeastOf
    <2>3. n \in Nat /\ ~Has(n) /\ \A m \in Nat : m < n => Has(m)
      BY <2>2 DEF T
    <2>4. CASE n = 0
      <3>1. [k \in 0..0 |-> 0] = [k \in 0..0 |-> Half([j \in 0..0 |-> 0], k)]
        OBVIOUS
      <3> QED
        BY <3>1, <2>3, <2>4
    <2>5. CASE n # 0
      <3>1. PICK f : f = [k \in 0..(n - 1) |-> Half(f, k)]
        <4>1. Has(n - 1)
          BY <2>3, <2>5
        <4> QED
          BY <4>1
      <3> DEFINE g == [k \in 0..n |-> IF k = n THEN Half(f, n) ELSE f[k]]
      <3>2. \A k \in 0..n : g[k] = Half(g, k)
        <4>1. ASSUME NEW k \in 0..n PROVE g[k] = Half(g, k)
          <5>1. CASE k <= MaxGossip /\ k = n
            BY <5>1, <2>3
          <5>2. CASE k <= MaxGossip /\ k # n
            <6>1. g[k] = f[k] /\ f[k] = Half(f, k)
              BY <5>2, <3>1, <2>3, <2>5
            <6> QED
              BY <6>1, <5>2
          <5>3. CASE ~(k <= MaxGossip)
            <6>1. k \div 2 \in 0..n /\ k \div 2 # n
              BY <5>3, <2>3
            <6>2. g[k \div 2] = f[k \div 2]
              BY <6>1
            <6>3. g[k] = Half(f, k)
              <7>1. CASE k = n
                BY <7>1
              <7>2. CASE k # n
                BY <7>2, <3>1, <2>3, <2>5
              <7> QED
                BY <7>1, <7>2
            <6> QED
              BY <6>2, <6>3, <5>3
          <5> QED
            BY <5>1, <5>2, <5>3
        <4> QED
          BY <4>1
      <3>3. g = [k \in 0..n |-> Half(g, k)]
        <4> HIDE DEF Half
        <4> QED
          BY <3>2
      <3> QED
        BY <3>3, <2>3
    <2> QED
      BY <2>4, <2>5
  <1>2. PICK f : f = [k \in 0..c |-> Half(f, k)]
    BY <1>1
  <1> DEFINE h == CHOOSE rest : rest = [k \in 0..c |->
                                        IF k <= MaxGossip THEN k ELSE rest[k \div 2]]
  <1>3. h = [k \in 0..c |-> IF k <= MaxGossip THEN k ELSE h[k \div 2]]
    BY <1>2
  <1>4. Halved(c) = h[c]
    BY DEF Halved
  <1> HIDE DEF h
  <1> DEFINE U == {k \in 0..c : ~(h[k] \in 0..k /\ h[k] <= MaxGossip)}
  <1>5. ASSUME U # {} PROVE FALSE
    <2>1. U \in SUBSET Nat
      OBVIOUS
    <2> HIDE DEF U
    <2>2. PICK k \in U : \A m \in U : k <= m
      BY <1>5, <2>1, LeastOf
    <2>3. /\ k \in 0..c /\ ~(h[k] \in 0..k /\ h[k] <= MaxGossip)
          /\ \A m \in 0..c : m < k => h[m] \in 0..m /\ h[m] <= MaxGossip
      BY <2>2 DEF U
    <2>4. h[k] = IF k <= MaxGossip THEN k ELSE h[k \div 2]
      BY <1>3, <2>3
    <2>5. ~(k <= MaxGossip)
      BY <2>3, <2>4
    <2>6. k \div 2 \in 0..c /\ k \div 2 < k
      BY <2>3, <2>5
    <2> QED
      BY <2>3, <2>4, <2>5, <2>6
  <1> QED
    BY <1>4, <1>5

\* What is announced by gossip is a record, and has room in a message.
LEMMA CutIsRecord ==
    ASSUME NEW r \in Record
    PROVE  Cut(r) \in Record /\ Cardinality(Cut(r).models) <= MaxGossip
  <1> DEFINE n == Halved(Cardinality(r.models))
             ms == CHOOSE ms \in SUBSET r.models : Cardinality(ms) = n
  <1>1. r.models \in SUBSET Models /\ IsFiniteSet(r.models)
    BY FS_Subset, SwarmCatalogAssumption DEF Record
  <1>2. Cardinality(r.models) \in Nat
    BY <1>1, FS_CardinalityType
  <1>3. n \in 0..Cardinality(r.models) /\ n <= MaxGossip
    BY <1>2, HalvedFits, SwarmCatalogAssumption
  <1>4. \E m \in SUBSET r.models : Cardinality(m) = n
    BY <1>1, <1>3, SubsetOfSize
  <1>5. ms \in SUBSET r.models /\ Cardinality(ms) = n
    BY <1>4
  <1>6. Cut(r) = [r EXCEPT !.models = ms]
    BY DEF Cut
  <1> HIDE DEF ms, n
  <1> QED
    BY <1>1, <1>3, <1>5, <1>6 DEF Record

-----------------------------------------------------------------------------
(* The lists and the caches *)

\* Steps that leave the caches and the catalogues alone, and end no rebuild.
LEMMA InStepKeeps ==
    ASSUME InStep, UNCHANGED <<cache, catalog, None, Me>>,
           \A s \in Swarms : /\ task'[s] = "running" => task[s] = "running" \/ pc'[s] = "insert"
                             /\ pc[s] = "insert" => pc'[s] = "insert" \/ task'[s] # "running"
    PROVE  InStep'
  BY DEF InStep, Cached

LEMMA CatalogStarts == CatalogInit => CatalogIInv
  <1> SUFFICES ASSUME CatalogInit PROVE CatalogIInv
    OBVIOUS
  <1>1. PICK c \in Cases : InitWith(c)
    BY DEF CatalogInit
  <1>2. c.has \in [Members -> SUBSET Models]
    BY SwarmCatalogAssumption
  <1>3. offer \in [Swarms -> [Members -> Record]]
    BY <1>1, <1>2 DEF InitWith, Record
  <1>4. /\ \A s \in Swarms, p \in Others : \A a \in air[s][p] :
             a[1] = "gossip" => Cardinality(a[2].models) <= MaxGossip
        /\ air \in [Swarms -> [Others -> SUBSET (Via \X Record)]]
        /\ cache \in [Swarms -> [Others -> Record \cup {None}]]
    BY <1>1 DEF InitWith
  <1>5. CatalogTypeOK
    BY <1>1, <1>3, <1>4 DEF CatalogTypeOK, InitWith, Idle, Asking, Tasks
  <1>6. ask \in Asks
    BY <1>1 DEF InitWith, Idle, Asking, Asks
  <1>7. InStep
    BY <1>1 DEF InitWith, InStep
  <1> QED
    BY <1>5, <1>6, <1>7 DEF CatalogIInv

-----------------------------------------------------------------------------
(* The other members *)

LEMMA ChangeStep ==
    ASSUME CatalogIInv, NEW p \in Members, Change(p)
    PROVE  CatalogIInv'
  <1> USE DEF manager, lists, fixed
  <1>1. \A s \in Swarms, q \in Members : offer[s][q] \in Record
    BY DEF CatalogIInv, CatalogTypeOK
  <1>2. offer \in [Swarms -> [Members -> Record]]
    BY DEF CatalogIInv, CatalogTypeOK
  <1>3. offer' \in [Swarms -> [Members -> Record]]
    <2>1. ASSUME NEW s \in Swarms, offer' = [offer EXCEPT ![s][p].accepting = ~@]
          PROVE  offer' \in [Swarms -> [Members -> Record]]
      <3> DEFINE r == [offer[s][p] EXCEPT !.accepting = ~@]
      <3>1. r \in Record
        BY <1>1 DEF Record
      <3>2. offer' = [offer EXCEPT ![s] = [offer[s] EXCEPT ![p] = r]]
        BY <1>2, <2>1
      <3> HIDE DEF r
      <3> QED
        BY <1>2, <3>1, <3>2
    <2>2. ASSUME NEW ms \in SUBSET Models,
                 offer' = [s \in Swarms |-> [offer[s] EXCEPT ![p].models = ms]]
          PROVE  offer' \in [Swarms -> [Members -> Record]]
      <3>1. ASSUME NEW s \in Swarms
            PROVE  [offer[s] EXCEPT ![p].models = ms] \in [Members -> Record]
        <4> DEFINE r == [offer[s][p] EXCEPT !.models = ms]
        <4>1. r \in Record
          BY <1>1 DEF Record
        <4>2. [offer[s] EXCEPT ![p].models = ms] = [offer[s] EXCEPT ![p] = r]
          BY <1>2
        <4> HIDE DEF r
        <4> QED
          BY <1>2, <4>1, <4>2
      <3> QED
        BY <2>2, <3>1
    <2> QED
      BY <2>1, <2>2 DEF Change
  <1>4. InStep'
    BY InStepKeeps DEF CatalogIInv, Change
  <1> QED
    BY <1>3, <1>4 DEF CatalogIInv, CatalogTypeOK, Change

LEMMA AnnounceStep ==
    ASSUME CatalogIInv, NEW s \in Swarms, NEW p \in Others, Announce(s, p)
    PROVE  CatalogIInv'
  <1> USE DEF manager, lists, fixed
  <1> DEFINE r == offer[s][p]
             new == {<<"gossip", Cut(r)>>, <<"direct", Direct(r)>>}
  <1>1. r \in Record /\ Direct(r) = r
    BY DEF CatalogIInv, CatalogTypeOK, Members, Direct
  <1>2. Cut(r) \in Record /\ Cardinality(Cut(r).models) <= MaxGossip
    BY <1>1, CutIsRecord DEF CatalogIInv
  <1>3. air' = [air EXCEPT ![s][p] = @ \cup new]
    BY DEF Announce
  <1>4. /\ new \in SUBSET (Via \X Record)
        /\ \A a \in new : a[1] = "gossip" => Cardinality(a[2].models) <= MaxGossip
    BY <1>1, <1>2 DEF Via
  <1> HIDE DEF new, r
  <1>5. /\ air' \in [Swarms -> [Others -> SUBSET (Via \X Record)]]
        /\ \A t \in Swarms, q \in Others : \A a \in air'[t][q] : a \in air[t][q] \cup new
    BY <1>3, <1>4 DEF CatalogIInv, CatalogTypeOK
  <1>6. \A t \in Swarms, q \in Others : \A a \in air'[t][q] :
          a[1] = "gossip" => Cardinality(a[2].models) <= MaxGossip
    BY <1>4, <1>5 DEF CatalogIInv, CatalogTypeOK
  <1>7. InStep'
    BY InStepKeeps DEF CatalogIInv, Announce
  <1> QED
    BY <1>5, <1>6, <1>7 DEF CatalogIInv, CatalogTypeOK, Announce

LEMMA LoseStep ==
    ASSUME CatalogIInv, NEW s \in Swarms, NEW p \in Others, Lose(s, p)
    PROVE  CatalogIInv'
  <1> USE DEF manager, lists, fixed
  <1>1. PICK b \in air[s][p] : air' = [air EXCEPT ![s][p] = @ \ {b}]
    BY DEF Lose
  <1>2. /\ air' \in [Swarms -> [Others -> SUBSET (Via \X Record)]]
        /\ \A t \in Swarms, q \in Others : air'[t][q] \subseteq air[t][q]
    BY <1>1 DEF CatalogIInv, CatalogTypeOK
  <1>3. \A t \in Swarms, q \in Others : \A a \in air'[t][q] :
          a[1] = "gossip" => Cardinality(a[2].models) <= MaxGossip
    BY <1>2 DEF CatalogIInv, CatalogTypeOK
  <1>4. InStep'
    BY InStepKeeps DEF CatalogIInv, Lose
  <1> QED
    BY <1>2, <1>3, <1>4 DEF CatalogIInv, CatalogTypeOK, Lose

-----------------------------------------------------------------------------
(* A swarm's manager *)

\* Steps that change no record and no list but only where tasks and requests stand.
LEMMA TurnStep ==
    ASSUME CatalogIInv, NEW s \in Swarms,
           \/ StartTask(s) \/ StartFails(s) \/ Publish(s) \/ Switch(s)
           \/ Spawn(s) \/ Reap(s) \/ Rank(s)
    PROVE  CatalogIInv'
  <1> USE DEF manager, lists, fixed
  <1>1. Dropped(s) \in Asks
    BY DEF CatalogIInv, Asks, Dropped
  <1>2. ask' \in Asks
    <2>1. CASE Rank(s)
      BY <2>1 DEF CatalogIInv, Asks, Rank
    <2> QED
      BY <1>1, <2>1 DEF CatalogIInv, StartTask, StartFails, Publish, Switch, Spawn, Reap
  <1>3. /\ wanted' \in [Swarms -> BOOLEAN] /\ handle' \in [Swarms -> BOOLEAN]
        /\ task' \in [Swarms -> {"off", "starting", "running", "aborted", "ended"}]
        /\ pc' \in [Tasks -> {"idle", "insert", "merge", "write"}]
    BY DEF CatalogIInv, CatalogTypeOK, Tasks, StartTask, StartFails, Publish, Switch,
           Spawn, Reap, Rank
  <1>4. UNCHANGED <<offer, air, cache, catalog, view, shown>>
    BY DEF StartTask, StartFails, Publish, Switch,
           Spawn, Reap, Rank
  <1>5. \A t \in Swarms : /\ task'[t] = "running" => task[t] = "running" \/ pc'[t] = "insert"
                          /\ pc[t] = "insert" => pc'[t] = "insert" \/ task'[t] # "running"
    BY DEF CatalogIInv, CatalogTypeOK, Tasks, StartTask, StartFails, Publish, Switch,
           Spawn, Reap, Rank
  <1>6. InStep'
    BY <1>4, <1>5, InStepKeeps DEF CatalogIInv
  <1>7. ask'.at \in {"none", "queued", "sent", "refused", "closed"}
    BY <1>2 DEF Asks
  <1> QED
    BY <1>2, <1>3, <1>4, <1>6, <1>7 DEF CatalogIInv, CatalogTypeOK

LEMMA ReceiveStep ==
    ASSUME CatalogIInv, NEW s \in Swarms, NEW p \in Others, NEW via \in Via, Receive(s, p, via)
    PROVE  CatalogIInv'
  <1> USE DEF manager, fixed
  <1>1. PICK b \in air[s][p] : /\ air' = [air EXCEPT ![s][p] = @ \ {b}]
                               /\ cache' = [cache EXCEPT ![s][p] = Stored(@, b[2])]
    BY DEF Receive
  <1>2. b[2] \in Record
    BY DEF CatalogIInv, CatalogTypeOK
  <1>3. /\ air' \in [Swarms -> [Others -> SUBSET (Via \X Record)]]
        /\ \A t \in Swarms, q \in Others : air'[t][q] \subseteq air[t][q]
    BY <1>1 DEF CatalogIInv, CatalogTypeOK
  <1>4. \A t \in Swarms, q \in Others : \A a \in air'[t][q] :
          a[1] = "gossip" => Cardinality(a[2].models) <= MaxGossip
    BY <1>3 DEF CatalogIInv, CatalogTypeOK
  <1>5. /\ cache' \in [Swarms -> [Others -> Record \cup {None}]]
        /\ \A t \in Swarms : t # s => cache'[t] = cache[t]
    BY <1>1, <1>2 DEF CatalogIInv, CatalogTypeOK, Stored
  <1>6. /\ pc' \in [Tasks -> {"idle", "insert", "merge", "write"}]
        /\ pc'[s] = "insert" /\ \A t \in Swarms : t # s => pc'[t] = pc[t]
    BY DEF CatalogIInv, CatalogTypeOK, Tasks, Receive, ThenRebuild
  <1>7. InStep'
    BY <1>5, <1>6 DEF CatalogIInv, InStep, Cached, Receive
  <1> QED
    BY <1>3, <1>4, <1>5, <1>6, <1>7 DEF CatalogIInv, CatalogTypeOK, Receive

\* The rebuild lists what the manager has cached, beside this node's own models.
LEMMA InsertStep ==
    ASSUME CatalogIInv, NEW s \in Swarms, Insert(s)
    PROVE  CatalogIInv'
  <1> USE DEF manager, fixed
  <1> DEFINE new == UNION {Known(s, p).models \X {p} : p \in Accepting(s)}
  <1>1. catalog' = [catalog EXCEPT ![s] = new]
    BY DEF Insert
  <1>2. \A p \in Members : Known(s, p) \in Record \cup {None}
    BY DEF CatalogIInv, CatalogTypeOK, Known, Members
  <1>3. \A p \in Accepting(s) : p \in Members /\ Known(s, p).models \in SUBSET Models
    BY <1>2 DEF Accepting, Record
  <1>4. new \in SUBSET (Models \X Members)
    BY <1>3
  <1>5. {o \in new : o[2] # Me} = Cached(s)
    <2>1. \A p \in Others : p # Me /\ Known(s, p) = cache[s][p] /\ p \in Members
      BY SwarmCatalogAssumption DEF CatalogIInv, Known, Members
    <2>2. \A p \in Accepting(s) : p # Me => p \in Others
      BY DEF Accepting, Members
    <2>3. \A p \in Others :
            p \in Accepting(s) <=>
              p \in {x \in Others : cache[s][x] # None /\ cache[s][x].accepting}
      BY <2>1 DEF Accepting
    <2> QED
      BY <2>1, <2>2, <2>3 DEF Cached
  <1> HIDE DEF new
  <1>6. /\ catalog' \in [Swarms -> SUBSET (Models \X Members)]
        /\ catalog'[s] = new /\ \A t \in Swarms : t # s => catalog'[t] = catalog[t]
    BY <1>1, <1>4 DEF CatalogIInv, CatalogTypeOK
  <1>7. /\ pc' \in [Tasks -> {"idle", "insert", "merge", "write"}]
        /\ \A t \in Swarms : t # s => pc'[t] = pc[t]
    BY DEF CatalogIInv, CatalogTypeOK, Tasks, Insert
  <1>8. \A t \in Swarms : Cached(t)' = Cached(t)
    BY DEF Cached, Insert
  <1>9. InStep'
    BY <1>5, <1>6, <1>7, <1>8 DEF CatalogIInv, InStep, Insert
  <1> QED
    BY <1>6, <1>7, <1>9 DEF CatalogIInv, CatalogTypeOK, Insert

LEMMA MergeStep ==
    ASSUME CatalogIInv, NEW t \in Tasks, Merge(t)
    PROVE  CatalogIInv'
  <1> USE DEF manager, fixed
  <1>1. Offers \in SUBSET (Models \X Swarms \X Members)
    BY DEF CatalogIInv, CatalogTypeOK, Offers
  <1>2. view' \in [Tasks -> SUBSET (Models \X Swarms \X Members)]
    BY <1>1 DEF CatalogIInv, CatalogTypeOK, Merge
  <1>3. /\ pc' \in [Tasks -> {"idle", "insert", "merge", "write"}]
        /\ \A s \in Swarms : pc[s] = "insert" => pc'[s] = "insert"
    BY DEF CatalogIInv, CatalogTypeOK, Tasks, Merge
  <1>4. InStep'
    BY <1>3, InStepKeeps DEF CatalogIInv, Merge
  <1> QED
    BY <1>2, <1>3, <1>4 DEF CatalogIInv, CatalogTypeOK, Merge

LEMMA WriteStep ==
    ASSUME CatalogIInv, NEW t \in Tasks, Write(t)
    PROVE  CatalogIInv'
  <1> USE DEF manager, fixed
  <1>1. /\ view' \in [Tasks -> SUBSET (Models \X Swarms \X Members)]
        /\ shown' \subseteq Models \X Swarms \X Members
    BY DEF CatalogIInv, CatalogTypeOK, Write
  <1>2. /\ pc' \in [Tasks -> {"idle", "insert", "merge", "write"}]
        /\ \A s \in Swarms : pc[s] = "insert" => pc'[s] = "insert"
    BY DEF CatalogIInv, CatalogTypeOK, Tasks, Write
  <1>3. InStep'
    BY <1>2, InStepKeeps DEF CatalogIInv, Write
  <1> QED
    BY <1>1, <1>2, <1>3 DEF CatalogIInv, CatalogTypeOK, Write

LEMMA CancelStep ==
    ASSUME CatalogIInv, NEW s \in Swarms, Cancel(s)
    PROVE  CatalogIInv'
  <1> USE DEF manager, fixed
  <1>1. /\ cache' \in [Swarms -> [Others -> Record \cup {None}]]
        /\ \A t \in Swarms : t # s => cache'[t] = cache[t]
    BY DEF CatalogIInv, CatalogTypeOK, Cancel
  <1>2. /\ pc' \in [Tasks -> {"idle", "insert", "merge", "write"}]
        /\ task' \in [Swarms -> {"off", "starting", "running", "aborted", "ended"}]
        /\ view' \in [Tasks -> SUBSET (Models \X Swarms \X Members)]
        /\ \A t \in Swarms : t # s => pc'[t] = pc[t] /\ task'[t] = task[t]
        /\ task'[s] = "off"
    BY DEF CatalogIInv, CatalogTypeOK, Tasks, Cancel
  <1>3. InStep'
    BY <1>1, <1>2 DEF CatalogIInv, InStep, Cached, Cancel
  <1> QED
    BY <1>1, <1>2, <1>3 DEF CatalogIInv, CatalogTypeOK, Cancel

-----------------------------------------------------------------------------
(* The swarms' manager, and requests *)

LEMMA StopStep ==
    ASSUME CatalogIInv, NEW s \in Swarms, StopSwarm(s)
    PROVE  CatalogIInv'
  <1> USE DEF manager, fixed
  <1>1. Dropped(s) \in Asks
    BY DEF CatalogIInv, Asks, Dropped
  <1>2. /\ handle' \in [Swarms -> BOOLEAN]
        /\ task' \in [Swarms -> {"off", "starting", "running", "aborted", "ended"}]
        /\ pc' \in [Tasks -> {"idle", "insert", "merge", "write"}]
        /\ catalog' \in [Swarms -> SUBSET (Models \X Members)]
    BY DEF CatalogIInv, CatalogTypeOK, Tasks, StopSwarm
  <1>3. /\ \A t \in Swarms : pc'[t] = pc[t]
        /\ \A t \in Swarms : t # s => task'[t] = task[t] /\ catalog'[t] = catalog[t]
        /\ task'[s] # "running"
    BY SwarmCatalogAssumption DEF CatalogIInv, CatalogTypeOK, Tasks, StopSwarm
  <1>4. InStep'
    BY <1>3 DEF CatalogIInv, InStep, Cached, StopSwarm
  <1>5. ask' \in Asks /\ ask'.at \in {"none", "queued", "sent", "refused", "closed"}
    BY <1>1 DEF StopSwarm, Asks
  <1> QED
    BY <1>2, <1>4, <1>5 DEF CatalogIInv, CatalogTypeOK, StopSwarm

LEMMA RouteStep ==
    ASSUME CatalogIInv,
           AskAgain \/ \E m \in Models : Route(m)
    PROVE  CatalogIInv'
  <1> USE DEF manager, lists, fixed
  <1>1. ask' \in Asks
    <2>1. CASE AskAgain
      BY <2>1 DEF AskAgain, Idle, Asking, Asks
    <2>2. ASSUME NEW m \in Models, Route(m)
          PROVE  ask' \in Asks
      BY <2>2 DEF Route, Best, Asking, Asks
    <2> QED
      BY <2>1, <2>2
  <1>2. ask'.at \in {"none", "queued", "sent", "refused", "closed"}
    BY <1>1 DEF Asks
  <1>3. UNCHANGED <<manager, offer, air, cache, lists>>
    BY DEF AskAgain, Route
  <1>4. InStep'
    BY <1>3, InStepKeeps DEF CatalogIInv
  <1> QED
    BY <1>1, <1>2, <1>3, <1>4 DEF CatalogIInv, CatalogTypeOK

LEMMA CatalogStep == CatalogIInv /\ [CatalogNext]_cvars => CatalogIInv'
  <1> SUFFICES ASSUME CatalogIInv, [CatalogNext]_cvars PROVE CatalogIInv'
    OBVIOUS
  <1>1. CASE UNCHANGED cvars
    <2>1. InStep'
      BY <1>1, InStepKeeps DEF CatalogIInv, cvars, manager, lists
    <2> QED
      BY <1>1, <2>1 DEF CatalogIInv, CatalogTypeOK, cvars, manager, lists, fixed
  <1>2. CASE CatalogNext
    BY <1>2, ChangeStep, AnnounceStep, LoseStep, TurnStep, ReceiveStep, InsertStep, MergeStep,
       WriteStep, CancelStep, StopStep, RouteStep DEF CatalogNext
  <1> QED
    BY <1>1, <1>2

\* The inductive invariant of a node's view of its swarms' models holds throughout.
THEOREM CatalogInductive == CatalogSpec => []CatalogIInv
  BY CatalogStarts, CatalogStep, PTL DEF CatalogSpec

\* A manager in its loop has its swarm's catalogue and its records of the other members in
\* step, and gossip has room in its message, for any swarms, members and models
\* (apply_remote_catalog, rebuild_swarm_catalog, stop_swarm, fit_catalog_gossip).
THEOREM CatalogCorrect == CatalogSpec => []CatalogInv
  <1>1. CatalogIInv => CatalogInv
    BY DEF CatalogIInv, CatalogInv, CatalogMatchesCache, InStep, Cached, InLoop
  <1> QED
    BY <1>1, CatalogInductive, PTL
=============================================================================
