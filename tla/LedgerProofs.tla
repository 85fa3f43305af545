---------------------------- MODULE LedgerProofs ----------------------------
(***************************************************************************)
(* The safety of Ledger for any exchanges, peers, request ids, loops and   *)
(* scenes.  That the gauges fit needs the requests under way of a peer to  *)
(* be finitely many (Finite).  That a mismatch is counted needs that       *)
(* nobody has read a mismatched row before it was counted (Recalled),      *)
(* since a copy may be written at any later time; that it is counted once  *)
(* needs that a provider's record is over before the lobby can judge       *)
(* (Judged), so that nobody takes the verdict out of the row again.        *)
(***************************************************************************)
EXTENDS Ledger, FiniteSetTheorems, TLAPS

-----------------------------------------------------------------------------
(* The inductive invariant *)

LoopType == [stage : {"wait", "rows", "write"}, told : [Ids -> Verdicts], todo : SUBSET Ids,
             at : Ids \cup {"none"}, copy : Row]

Types ==
    /\ TypeOK
    /\ scene \in Scenes /\ removals \in Nat /\ restarts \in Nat /\ failures \in Nat
    /\ loop \in [Loops -> LoopType]

\* The requests of a peer that are under way.
Under(p) == {i \in Ids : active[i] = p}

Finite == \A p \in Peers : IsFiniteSet(Under(p))

\* The records that are at a row, having read it and not yet written it.
Recording(i) == {e \in Exchanges : pc[e] = "write" /\ Id(e) = i}

\* Whoever writes a row has a row to write.
Filled ==
    /\ \A i \in Ids : \A e \in Recording(i) : copy[e].exists
    /\ \A l \in Loops : loop[l].stage = "write" => loop[l].copy.exists

\* A row that does not exist has never existed, and whoever has read it saw no verdict.
Fresh ==
    /\ \A i \in Ids : ~rows[i].exists => \A e \in Recording(i) : copy[e].verdict = "none"
    /\ \A i \in born : rows[i].exists

\* A mismatch of a request has been counted, whatever became of the count, and once at most.
Noted(i) == counted[i] # 0 \/ i \in forgotten
Single(i) == counted[i] = IF i \in forgotten THEN 0 ELSE 1

\* Until its mismatch is counted no row and no copy of it shows one.
Recalled ==
    \A i \in born : ~Noted(i) =>
      /\ rows[i].verdict # "mismatched"
      /\ \A e \in Recording(i) : copy[e].verdict # "mismatched"
      /\ \A l \in Loops : loop[l].at = i => loop[l].copy.verdict # "mismatched"

\* A loop repeats what the lobby has decided, which stays.
Told ==
    \A l \in Loops :
      /\ \A i \in Ids : loop[l].told[i] # "none" => loop[l].told[i] = lobby[i]
      /\ \A i \in loop[l].todo : loop[l].told[i] # "none"
      /\ \A i \in Ids : loop[l].at = i => loop[l].copy.verdict = lobby[i] /\ lobby[i] # "none"
      /\ loop[l].stage # "wait" => l \in scene.loops

\* The lobby judges what was reported, and a provider reports when its record is over.
Judged ==
    /\ \A i \in Ids : lobby[i] # "none" => \E e \in reported : Id(e) = i
    /\ \A e \in reported : scene.role[e] = "provider" => pc[e] = "written"

\* What was counted is in the row, or about to be.
Once ==
    \A i \in Ids : Alone(i) =>
      \/ ~Noted(i)
      \/ /\ Single(i) /\ lobby[i] = "mismatched"
         /\ rows[i].verdict = "mismatched" \/ \E l \in Loops : loop[l].at = i

IInv == Types /\ Finite /\ GaugeMatches /\ Filled /\ Fresh /\ Recalled /\ Told /\ Judged /\ Once

-----------------------------------------------------------------------------
(* The constants *)

\* An exchange of a scene has an id and a peer.
LEMMA SceneFacts ==
    ASSUME Types
    PROVE  /\ \A e \in Exchanges : Id(e) \in Ids /\ With(e) \in Peers
           /\ "none" \notin Ids /\ "none" \notin Peers
           /\ NoRow \in Row /\ NoRow.verdict = "none" /\ ~NoRow.exists
  BY LedgerAssumption, NamesAssumption DEF Types, Id, With, NoRow, Row, Verdicts

\* Every type invariant of a loop that TypeOK states field by field, in one.
LEMMA LoopFacts ==
    ASSUME Types, NEW l \in Loops
    PROVE  /\ loop[l] \in LoopType
           /\ loop[l].stage \in {"wait", "rows", "write"} /\ loop[l].copy \in Row
           /\ loop[l].told \in [Ids -> Verdicts] /\ loop[l].todo \subseteq Ids
           /\ loop[l].at \in Ids \cup {"none"}
           /\ loop[l].at \in Ids <=> loop[l].stage = "write"
  BY DEF Types, TypeOK, LoopType

\* A loop that waits has nothing in hand.
LEMMA IdleFacts ==
    ASSUME Types
    PROVE  /\ Idle \in LoopType /\ Idle.stage = "wait" /\ Idle.at = "none" /\ Idle.todo = {}
           /\ Idle.copy = NoRow /\ Idle.told = [i \in Ids |-> "none"]
  BY SceneFacts DEF Idle, LoopType, Verdicts

-----------------------------------------------------------------------------
(* The start *)

LEMMA InitIInv == Init => IInv
  <1> SUFFICES ASSUME Init PROVE IInv
    OBVIOUS
  <1>1. Idle \in LoopType /\ NoRow \in Row
    BY DEF Idle, LoopType, Verdicts, NoRow, Row
  <1>2. Types
    BY <1>1, LedgerAssumption, NamesAssumption
    DEF Init, Types, TypeOK, Idle, Verdicts, NoRow
  <1>3. \A p \in Peers : Under(p) = {}
    BY NamesAssumption DEF Init, Under
  <1>4. Finite /\ GaugeMatches
    BY <1>3, FS_EmptySet DEF Init, Finite, GaugeMatches, Under
  <1>5. \A i \in Ids : Recording(i) = {}
    BY DEF Init, Recording
  <1>6. Filled /\ Fresh /\ Recalled /\ Told /\ Judged
    BY <1>5, NamesAssumption DEF Init, Filled, Fresh, Recalled, Told, Judged, Idle
  <1>7. Once
    BY DEF Init, Once, Noted
  <1> QED
    BY <1>2, <1>4, <1>6, <1>7 DEF IInv

-----------------------------------------------------------------------------
(* The gauges *)

\* One id changes hands: the requests of its old peer lose it, those of its new peer win it.
LEMMA HandOver ==
    ASSUME Types, Finite, NEW i \in Ids, NEW p \in Peers \cup {"none"},
           active' = [active EXCEPT ![i] = p], NEW q \in Peers
    PROVE  /\ IsFiniteSet(Under(q)') /\ Cardinality(Under(q)) \in Nat
           /\ active[i] = p => Under(q)' = Under(q)
           /\ active[i] # p /\ q = p => Cardinality(Under(q)') = Cardinality(Under(q)) + 1
           /\ active[i] # p /\ q = active[i] =>
                /\ Cardinality(Under(q)') = Cardinality(Under(q)) - 1
                /\ Cardinality(Under(q)) >= 1
           /\ q # p /\ q # active[i] => Under(q)' = Under(q)
  <1>1. /\ \A j \in Ids : active'[j] = IF j = i THEN p ELSE active[j]
        /\ IsFiniteSet(Under(q)) /\ Cardinality(Under(q)) \in Nat
    BY FS_CardinalityType DEF Types, TypeOK, Finite
  <1>2. active[i] = p => Under(q)' = Under(q)
    BY <1>1 DEF Under
  <1>3. q # p /\ q # active[i] => Under(q)' = Under(q)
    BY <1>1 DEF Under
  <1>4. CASE active[i] # p /\ q = p
    <2>1. Under(q)' = Under(q) \cup {i} /\ i \notin Under(q)
      BY <1>1, <1>4 DEF Under
    <2> QED
      BY <1>1, <1>2, <1>3, <1>4, <2>1, FS_AddElement
  <1>5. CASE active[i] # p /\ q = active[i]
    <2>1. Under(q)' = Under(q) \ {i} /\ i \in Under(q)
      BY <1>1, <1>5 DEF Under
    <2>2. IsFiniteSet(Under(q)') /\ Cardinality(Under(q)') = Cardinality(Under(q)) - 1
      BY <1>1, <2>1, FS_RemoveElement
    <2>3. Cardinality(Under(q)') \in Nat
      BY <2>2, FS_CardinalityType
    <2> QED
      BY <1>1, <1>2, <1>3, <1>5, <2>2, <2>3
  <1> QED
    BY <1>1, <1>2, <1>3, <1>4, <1>5

\* A request starts: its peer's gauge is raised, and whoever had the id is displaced.
LEMMA StartGauge ==
    ASSUME IInv, NEW e \in Exchanges, Start(e)
    PROVE  Finite' /\ GaugeMatches'
  <1> DEFINE i == Id(e)
             p == With(e)
  <1>1. i \in Ids /\ p \in Peers /\ Types /\ Finite
    BY SceneFacts DEF IInv
  <1>2. active' = [active EXCEPT ![i] = p]
    BY DEF Start
  <1>3. /\ \A q \in Peers : gauge'[q] = IF q = p THEN gauge[q] + 1 ELSE gauge[q]
        /\ \A q \in Peers : displaced'[q] = IF q = active[i] THEN displaced[q] + 1
                                            ELSE displaced[q]
        /\ \A q \in Peers : displaced[q] \in Nat /\ gauge[q] \in Nat
    BY <1>1 DEF Start, Types, TypeOK
  <1>4. \A q \in Peers : gauge[q] = Cardinality(Under(q)) + displaced[q]
    BY DEF IInv, GaugeMatches, Under
  <1> HIDE DEF i, p
  <1>5. ASSUME NEW q \in Peers
        PROVE  IsFiniteSet(Under(q)') /\ gauge'[q] = Cardinality(Under(q)') + displaced'[q]
    <2>1. /\ IsFiniteSet(Under(q)') /\ Cardinality(Under(q)) \in Nat
          /\ active[i] = p => Under(q)' = Under(q)
          /\ active[i] # p /\ q = p => Cardinality(Under(q)') = Cardinality(Under(q)) + 1
          /\ active[i] # p /\ q = active[i] =>
               Cardinality(Under(q)') = Cardinality(Under(q)) - 1
          /\ q # p /\ q # active[i] => Under(q)' = Under(q)
      BY <1>1, <1>2, HandOver
    <2>2. CASE active[i] = p
      BY <1>3, <1>4, <2>1, <2>2
    <2>3. CASE active[i] # p /\ q = p
      BY <1>3, <1>4, <2>1, <2>3
    <2>4. CASE active[i] # p /\ q = active[i]
      BY <1>3, <1>4, <2>1, <2>4
    <2>5. CASE q # p /\ q # active[i]
      BY <1>3, <1>4, <2>1, <2>5
    <2> QED
      BY <2>2, <2>3, <2>4, <2>5
  <1> QED
    BY <1>5 DEF Finite, GaugeMatches, Under

\* A request ends: the gauge of whoever had its id is lowered, and was not at zero.
LEMMA EndedGauge ==
    ASSUME IInv, NEW e \in Exchanges, Ended(e)
    PROVE  Finite' /\ GaugeMatches'
  <1> DEFINE i == Id(e)
  <1>1. i \in Ids /\ Types /\ Finite
    BY SceneFacts DEF IInv
  <1>2. active' = [active EXCEPT ![i] = "none"]
    BY DEF Ended
  <1>3. /\ \A q \in Peers : gauge'[q] = IF q = active[i] /\ gauge[q] # 0 THEN gauge[q] - 1
                                        ELSE gauge[q]
        /\ \A q \in Peers : displaced'[q] = displaced[q]
        /\ \A q \in Peers : displaced[q] \in Nat /\ gauge[q] \in Nat /\ q # "none"
    BY <1>1, SceneFacts DEF Ended, Types, TypeOK
  <1>4. \A q \in Peers : gauge[q] = Cardinality(Under(q)) + displaced[q]
    BY DEF IInv, GaugeMatches, Under
  <1> HIDE DEF i
  <1>5. ASSUME NEW q \in Peers
        PROVE  IsFiniteSet(Under(q)') /\ gauge'[q] = Cardinality(Under(q)') + displaced'[q]
    <2>1. IsFiniteSet(Under(q)') /\ Cardinality(Under(q)) \in Nat
      BY <1>1, <1>2, HandOver
    <2>2. CASE q = active[i]
      <3>1. /\ Cardinality(Under(q)') = Cardinality(Under(q)) - 1
            /\ Cardinality(Under(q)) >= 1
        BY <1>1, <1>2, <1>3, <2>2, HandOver
      <3> QED
        BY <1>3, <1>4, <2>1, <2>2, <3>1
    <2>3. CASE q # active[i]
      <3>1. Under(q)' = Under(q)
        <4>1. q # "none"
          BY <1>3
        <4> QED
          BY <1>1, <1>2, <2>3, <4>1, HandOver
      <3> QED
        BY <1>3, <1>4, <2>1, <2>3, <3>1
    <2> QED
      BY <2>2, <2>3
  <1> QED
    BY <1>5 DEF Finite, GaugeMatches, Under

\* A peer is removed, and with it its requests.
LEMMA RemovedGauge ==
    ASSUME IInv, NEW p \in Peers, RemovePeer(p)
    PROVE  Finite' /\ GaugeMatches'
  <1>1. \A q \in Peers : q # "none" /\ (q # p => Under(q)' = Under(q)) /\ Under(p)' = {}
    BY SceneFacts DEF IInv, Types, TypeOK, RemovePeer, Under
  <1>2. /\ \A q \in Peers : q # p => gauge'[q] = gauge[q] /\ displaced'[q] = displaced[q]
        /\ gauge'[p] = 0 /\ displaced'[p] = 0
    BY DEF IInv, Types, TypeOK, RemovePeer
  <1>3. \A q \in Peers : /\ gauge[q] = Cardinality(Under(q)) + displaced[q]
                         /\ IsFiniteSet(Under(q))
    BY DEF IInv, GaugeMatches, Under, Finite
  <1>4. \A q \in Peers : IsFiniteSet(Under(q)')
    BY <1>1, <1>3, FS_EmptySet
  <1>5. \A q \in Peers : gauge'[q] = Cardinality(Under(q)') + displaced'[q]
    BY <1>1, <1>2, <1>3, FS_EmptySet
  <1> QED
    BY <1>4, <1>5 DEF Finite, GaugeMatches, Under

\* Where the statistics are left alone the gauges stay right.
LEMMA SameGauge ==
    ASSUME Finite, GaugeMatches, UNCHANGED statsVars
    PROVE  Finite' /\ GaugeMatches'
  BY DEF Finite, GaugeMatches, Under, statsVars

-----------------------------------------------------------------------------
(* Steps of the statistics *)

\* A step that neither starts nor ends a record and leaves the database, the lobby and the
\* loops alone.
Apart ==
    /\ UNCHANGED <<copy, reported, lobby, rows, born, loop, scene, restarts, failures>>
    /\ \A i \in Ids : (Noted(i)' <=> Noted(i)) /\ (Single(i) => Single(i)')
    /\ \A e \in Exchanges : /\ pc'[e] = "write" <=> pc[e] = "write"
                            /\ pc[e] = "written" => pc'[e] = "written"

\* Where no count changes, what has been counted stays.
LEMMA SameCounts ==
    ASSUME UNCHANGED counts
    PROVE  \A i : Noted(i)' = Noted(i) /\ Single(i)' = Single(i)
  BY DEF counts, Noted, Single

\* Counts that are forgotten have been counted all the same.
LEMMA ForgetKeeps ==
    ASSUME Types, NEW ids \in SUBSET Ids, Forget(ids)
    PROVE  /\ \A i \in Ids : (Noted(i)' <=> Noted(i)) /\ (Single(i) => Single(i)')
           /\ counted' \in [Ids -> Nat] /\ forgotten' \subseteq Ids
  <1>1. /\ counted' \in [Ids -> Nat] /\ counted \in [Ids -> Nat]
        /\ \A i \in Ids : counted'[i] = IF i \in ids THEN 0 ELSE counted[i]
        /\ \A i \in Ids : i \in forgotten' <=> i \in forgotten \/ (i \in ids /\ counted[i] # 0)
        /\ forgotten' \subseteq Ids
    BY DEF Forget, Types, TypeOK
  <1>2. ASSUME NEW i \in Ids
        PROVE  (Noted(i)' <=> Noted(i)) /\ (Single(i) => Single(i)')
    BY <1>1, <1>2 DEF Noted, Single
  <1> QED
    BY <1>1, <1>2

LEMMA ApartKeeps ==
    ASSUME IInv, Apart
    PROVE  Filled' /\ Fresh' /\ Recalled' /\ Told' /\ Judged' /\ Once'
  <1>1. \A i \in Ids : Recording(i)' = Recording(i)
    BY DEF Apart, Recording, Id
  <1>2. \A e \in Exchanges : Id(e)' = Id(e)
    BY DEF Apart, Id
  <1>3. reported \subseteq Exchanges /\ born \subseteq Ids
    BY DEF IInv, Types, TypeOK
  <1>4. Filled'
    BY <1>1 DEF IInv, Filled, Apart
  <1>5. Fresh'
    BY <1>1 DEF IInv, Fresh, Apart
  <1>6. Recalled'
    BY <1>1, <1>3 DEF IInv, Recalled, Apart
  <1>7. Told'
    BY DEF IInv, Told, Apart
  <1>8. Judged'
    BY <1>2, <1>3 DEF IInv, Judged, Apart
  <1>9. \A i \in Ids : Alone(i)' <=> Alone(i)
    BY <1>2 DEF Apart, Alone
  <1>10. Once'
    BY <1>9 DEF IInv, Once, Apart
  <1> QED
    BY <1>4, <1>5, <1>6, <1>7, <1>8, <1>10

LEMMA StartIInv ==
    ASSUME IInv, NEW e \in Exchanges, Start(e)
    PROVE  IInv'
  <1>1. Id(e) \in Ids /\ With(e) \in Peers
    BY SceneFacts DEF IInv
  <1>2. Types'
    BY <1>1 DEF IInv, Types, TypeOK, Start, dbVars, syncVars, counts, lobbyVars, boundVars
  <1>3. Apart
    BY SameCounts DEF IInv, Types, TypeOK, Start, Apart, dbVars, syncVars, counts, lobbyVars,
                      boundVars
  <1> QED
    BY <1>2, <1>3, ApartKeeps, StartGauge DEF IInv

LEMMA EndIInv ==
    ASSUME IInv, NEW e \in Exchanges, Complete(e) \/ Fail(e)
    PROVE  IInv'
  <1>1. Id(e) \in Ids
    BY SceneFacts DEF IInv
  <1>2. Ended(e) /\ pc[e] = "active"
    BY DEF Complete, Fail
  <1>3. active' \in [Ids -> Peers \cup {"none"}]
    BY <1>1, <1>2 DEF IInv, Types, TypeOK, Ended
  <1>4. gauge' \in [Peers -> Nat] /\ displaced' \in [Peers -> Nat]
    <2>1. gauge \in [Peers -> Nat] /\ displaced \in [Peers -> Nat]
      BY DEF IInv, Types, TypeOK
    <2>2. CASE active[Id(e)] \in Peers
      <3> DEFINE q == active[Id(e)]
      <3>1. gauge' = [gauge EXCEPT ![q] = IF gauge[q] = 0 THEN 0 ELSE gauge[q] - 1]
        BY <1>2, <2>2 DEF Ended
      <3>2. (IF gauge[q] = 0 THEN 0 ELSE gauge[q] - 1) \in Nat
        BY <2>1, <2>2
      <3> QED
        BY <1>2, <2>1, <3>1, <3>2 DEF Ended
    <2>3. CASE active[Id(e)] \notin Peers
      BY <1>2, <2>1, <2>3 DEF Ended
    <2> QED
      BY <2>2, <2>3
  <1>5. pc' \in [Exchanges -> {"idle", "active", "load", "write", "written", "over"}]
    BY DEF IInv, Types, TypeOK, Complete, Fail
  <1>6. UNCHANGED <<copy, reported, lobbyVars, dbVars, syncVars, boundVars>>
    BY DEF Complete, Fail
  <1>7. Types'
    BY <1>3, <1>4, <1>5, <1>6 DEF IInv, Types, TypeOK, dbVars, syncVars, counts, lobbyVars, boundVars
  <1>8. Apart
    BY <1>2, <1>6, SameCounts DEF IInv, Types, TypeOK, Complete, Fail, Apart, dbVars, syncVars,
                                  counts, lobbyVars, boundVars
  <1> QED
    BY <1>2, <1>7, <1>8, ApartKeeps, EndedGauge DEF IInv

LEMMA RemovePeerIInv ==
    ASSUME IInv, NEW p \in Peers, RemovePeer(p)
    PROVE  IInv'
  <1>1. /\ Types /\ RequestsWith(p) \in SUBSET Ids /\ Forget(RequestsWith(p))
        /\ UNCHANGED <<pc, copy, reported, lobby, pushed, rows, born, loop, scene, restarts,
                       failures>>
    BY DEF IInv, RemovePeer, RequestsWith, recordVars, dbVars, lobbyVars
  <1>2. /\ \A i \in Ids : (Noted(i)' <=> Noted(i)) /\ (Single(i) => Single(i)')
        /\ counted' \in [Ids -> Nat] /\ forgotten' \subseteq Ids
    BY <1>1, ForgetKeeps
  <1>3. Types'
    BY <1>1, <1>2 DEF Types, TypeOK, RemovePeer
  <1>4. Apart
    BY <1>1, <1>2 DEF Apart
  <1> QED
    BY <1>3, <1>4, ApartKeeps, RemovedGauge DEF IInv

-----------------------------------------------------------------------------
(* Steps of a record *)

\* A record reads the row of its request.
LEMMA LoadIInv ==
    ASSUME IInv, NEW e \in Exchanges, Load(e)
    PROVE  IInv'
  <1> USE DEF dbVars, syncVars, boundVars, counts, lobbyVars
  <1>1. Id(e) \in Ids /\ rows[Id(e)] \in Row
    BY SceneFacts DEF IInv, Types, TypeOK
  <1>2. /\ copy'[e] = [rows[Id(e)] EXCEPT !.own = e, !.exists = TRUE]
        /\ \A f \in Exchanges : f # e => copy'[f] = copy[f] /\ pc'[f] = pc[f]
        /\ pc[e] = "load" /\ pc'[e] = "write"
    BY DEF IInv, Types, TypeOK, Load
  <1>3. copy'[e].exists /\ copy'[e].verdict = rows[Id(e)].verdict /\ copy'[e] \in Row
    BY <1>1, <1>2 DEF Row
  <1>4. Types'
    <2>1. copy' \in [Exchanges -> Row]
      BY <1>2, <1>3 DEF IInv, Types, TypeOK, Load
    <2>2. pc' \in [Exchanges -> {"idle", "active", "load", "write", "written", "over"}]
      BY DEF IInv, Types, TypeOK, Load
    <2> QED
      BY <2>1, <2>2 DEF IInv, Types, TypeOK, Load, statsVars
  <1>5. \A f \in Exchanges : Id(f)' = Id(f)
    BY DEF Load, Id
  <1>6. \A i \in Ids : \A f \in Recording(i)' : IF f = e THEN i = Id(e) ELSE f \in Recording(i)
    <2>1. \A i \in Ids : \A f \in Recording(i)' : f \in Exchanges /\ pc'[f] = "write" /\ Id(f) = i
      BY <1>5 DEF Recording
    <2>2. ASSUME NEW i \in Ids, NEW f \in Recording(i)'
          PROVE  IF f = e THEN i = Id(e) ELSE f \in Recording(i)
      <3>1. f \in Exchanges /\ pc'[f] = "write" /\ Id(f) = i
        BY <2>1
      <3>2. f # e => pc[f] = "write"
        BY <3>1, <1>2
      <3> QED
        BY <3>1, <3>2 DEF Recording
    <2> QED
      BY <2>2
  <1>7. Filled'
    BY <1>2, <1>3, <1>6 DEF IInv, Filled, Load, Recording
  <1>8. Fresh'
    <2>1. \A i \in Ids : ~rows[i].exists => rows[i].verdict = "none"
      BY SceneFacts DEF IInv, Types, TypeOK
    <2> QED
      BY <2>1, <1>2, <1>3, <1>6 DEF IInv, Fresh, Load, Recording
  <1>9. Recalled'
    <2>1. born \subseteq Ids /\ born' = born /\ rows' = rows /\ loop' = loop
          /\ \A i : Noted(i)' = Noted(i) /\ Single(i)' = Single(i)
      BY SameCounts DEF IInv, Types, TypeOK, Load
    <2>2. ASSUME NEW i \in born, ~Noted(i), NEW f \in Recording(i)'
          PROVE  copy'[f].verdict # "mismatched"
      <3>1. i \in Ids /\ rows[i].verdict # "mismatched"
        BY <2>1, <2>2 DEF IInv, Recalled
      <3>2. CASE f = e
        BY <3>1, <3>2, <1>3, <1>6
      <3>3. CASE f # e
        <4>1. f \in Recording(i) /\ f \in Exchanges
          BY <3>1, <3>3, <1>6 DEF Recording
        <4> QED
          BY <4>1, <3>3, <2>2, <1>2 DEF IInv, Recalled
      <3> QED
        BY <3>2, <3>3
    <2> QED
      BY <2>1, <2>2 DEF IInv, Recalled
  <1>10. Told'
    BY DEF IInv, Told, Load
  <1>11. Judged'
    <2>1. reported \subseteq Exchanges /\ UNCHANGED <<reported, lobby, scene>>
      BY DEF IInv, Types, TypeOK, Load
    <2> QED
      BY <2>1, <1>2, <1>5 DEF IInv, Judged
  <1>12. Once'
    <2>1. \A i \in Ids : Alone(i)' <=> Alone(i)
      BY <1>5 DEF Load, Alone
    <2> QED
      BY <2>1, SameCounts DEF IInv, Once, Load
  <1> QED
    BY <1>4, <1>7, <1>8, <1>9, <1>10, <1>11, <1>12, SameGauge DEF IInv, Load

\* A record writes the row it has read, or fails.
LEMMA WriteIInv ==
    ASSUME IInv, NEW e \in Exchanges, Write(e)
    PROVE  IInv'
  <1> USE DEF dbVars, syncVars, boundVars, counts, lobbyVars
  <1> DEFINE n == Id(e)
  <1>1. n \in Ids /\ copy[e] \in Row /\ e \in Recording(n) /\ born \subseteq Ids
    BY SceneFacts DEF IInv, Types, TypeOK, Write, Recording
  <1>2. /\ \A f \in Exchanges : f # e => pc'[f] = pc[f]
        /\ pc[e] = "write" /\ pc'[e] = "written"
        /\ UNCHANGED <<copy, reported, lobby, loop, scene, restarts, failures>>
        /\ \A i : Noted(i)' = Noted(i) /\ Single(i)' = Single(i)
    BY SameCounts DEF IInv, Types, TypeOK, Write
  <1>3. \/ /\ \A i \in Ids : i # n => rows'[i] = rows[i]
           /\ rows'[n] = copy[e] /\ rows' \in [Ids -> Row]
           /\ born' \subseteq born \cup {n} /\ born \subseteq born'
           /\ n \in born' \ born => ~rows[n].exists /\ \A l \in Loops : loop[l].at # n
        \/ rows' = rows /\ born' = born
    <2>1. CASE UNCHANGED dbVars
      BY <2>1
    <2>2. CASE rows' = [rows EXCEPT ![n] = copy[e]]
               /\ born' = IF rows[n].exists \/ \E l \in Loops : loop[l].at = n
                          THEN born ELSE born \cup {n}
      <3>1. rows \in [Ids -> Row]
        BY DEF IInv, Types, TypeOK
      <3>2. /\ \A i \in Ids : i # n => rows'[i] = rows[i]
            /\ rows'[n] = copy[e] /\ rows' \in [Ids -> Row]
        BY <1>1, <2>2, <3>1
      <3>3. /\ born' \subseteq born \cup {n} /\ born \subseteq born'
            /\ n \in born' \ born => ~rows[n].exists /\ \A l \in Loops : loop[l].at # n
        <4> HIDE DEF n
        <4> QED
          BY ONLY <2>2
      <3> QED
        BY <3>2, <3>3
    <2> QED
      BY <2>1, <2>2 DEF Write
  <1>4. copy[e].exists
    BY <1>1 DEF IInv, Filled
  <1>5. \A f \in Exchanges : Id(f)' = Id(f)
    BY <1>2 DEF Id
  <1>6. \A i \in Ids : \A f \in Recording(i)' : f \in Recording(i) /\ f # e
    BY <1>2, <1>5 DEF Recording
  <1> HIDE DEF n
  <1>7. Types'
    <2>1. pc' \in [Exchanges -> {"idle", "active", "load", "write", "written", "over"}]
      BY DEF IInv, Types, TypeOK, Write
    <2>2. rows' \in [Ids -> Row] /\ born' \subseteq Ids
      BY <1>1, <1>3 DEF IInv, Types, TypeOK
    <2>3. \A i \in Ids : ~rows'[i].exists => rows'[i] = NoRow
      BY <1>3, <1>4 DEF IInv, Types, TypeOK
    <2> QED
      BY <2>1, <2>2, <2>3 DEF IInv, Types, TypeOK, Write, statsVars
  <1>8. Filled'
    BY <1>2, <1>6 DEF IInv, Filled
  <1>9. Fresh'
    <2>1. \A i \in Ids : rows[i].exists => rows'[i].exists
      BY <1>3, <1>4
    <2>2. \A i \in born' : rows'[i].exists
      BY <2>1, <1>1, <1>3, <1>4 DEF IInv, Fresh
    <2>3. \A i \in Ids : ~rows'[i].exists => \A f \in Recording(i)' : copy'[f].verdict = "none"
      BY <2>1, <1>2, <1>6 DEF IInv, Fresh
    <2> QED
      BY <2>2, <2>3 DEF Fresh
  <1>10. Recalled'
    <2> SUFFICES ASSUME NEW i \in born', ~Noted(i)'
                 PROVE  /\ rows'[i].verdict # "mismatched"
                        /\ \A f \in Recording(i)' : copy'[f].verdict # "mismatched"
                        /\ \A l \in Loops : loop'[l].at = i => loop'[l].copy.verdict # "mismatched"
      BY DEF Recalled
    <2>1. i \in Ids /\ ~Noted(i)
      BY <1>1, <1>2, <1>3
    <2>2. CASE i \in born
      BY <2>1, <2>2, <1>1, <1>2, <1>3, <1>6 DEF IInv, Recalled
    <2>3. CASE i \notin born
      <3>1. i = n /\ ~rows[n].exists /\ (\A l \in Loops : loop[l].at # n) /\ rows'[n] = copy[e]
        BY <2>3, <1>3
      <3>2. \A f \in Recording(n) : copy[f].verdict = "none"
        BY <3>1, <1>1 DEF IInv, Fresh
      <3> QED
        BY <3>1, <3>2, <1>1, <1>2, <1>6
    <2> QED
      BY <2>2, <2>3
  <1>11. Told'
    BY <1>2 DEF IInv, Told
  <1>12. Judged'
    <2>1. reported \subseteq Exchanges
      BY DEF IInv, Types, TypeOK
    <2> QED
      BY <2>1, <1>2, <1>5 DEF IInv, Judged
  <1>13. Once'
    <2> SUFFICES ASSUME NEW i \in Ids, Alone(i)'
                 PROVE  \/ ~Noted(i)
                        \/ /\ Single(i) /\ lobby[i] = "mismatched"
                           /\ \/ rows'[i].verdict = "mismatched"
                              \/ \E l \in Loops : loop[l].at = i
      BY <1>2 DEF Once
    <2>1. Alone(i)
      BY <1>2, <1>5 DEF Alone
    <2>2. CASE i # n
      BY <2>1, <2>2, <1>3 DEF IInv, Once
    <2>3. CASE i = n
      <3>1. \A f \in Exchanges : Id(f) = n => f = e /\ scene.role[f] = "provider"
        BY <2>1, <2>3 DEF Alone, n
      <3>2. \A f \in reported : f \in Exchanges /\ (scene.role[f] = "provider" => pc[f] = "written")
        BY DEF IInv, Judged, Types, TypeOK
      <3>3. lobby[n] = "none"
        BY <3>1, <3>2, <1>1, <1>2 DEF IInv, Judged
      <3> QED
        BY <2>1, <2>3, <3>3 DEF IInv, Once
    <2> QED
      BY <2>2, <2>3
  <1> QED
    BY <1>7, <1>8, <1>9, <1>10, <1>11, <1>12, <1>13, SameGauge DEF IInv, Write

-----------------------------------------------------------------------------
(* Reports and verdicts *)

LEMMA ReportIInv ==
    ASSUME IInv, NEW e \in Exchanges, Report(e)
    PROVE  IInv'
  <1> USE DEF dbVars, syncVars, boundVars, counts, lobbyVars
  <1>1. /\ reported' = reported \cup {e}
        /\ scene.role[e] = "provider" => pc[e] = "written"
        /\ UNCHANGED <<pc, copy, lobbyVars, rows, born, loop, counts, scene, restarts, failures>>
        /\ UNCHANGED <<statsVars, boundVars>>
        /\ \A i : Noted(i)' = Noted(i) /\ Single(i)' = Single(i)
    BY SameCounts DEF Report
  <1>2. Types'
    BY <1>1 DEF IInv, Types, TypeOK, statsVars
  <1>3. \A i \in Ids : Recording(i)' = Recording(i) /\ (Alone(i)' <=> Alone(i))
    BY <1>1 DEF Recording, Id, Alone
  <1>4. Filled' /\ Fresh' /\ Told' /\ Once'
    BY <1>1, <1>3 DEF IInv, Filled, Fresh, Told, Once
  <1>5. Recalled'
    BY <1>1, <1>3 DEF IInv, Recalled, Types, TypeOK
  <1>6. Judged'
    <2>1. \A f \in Exchanges : Id(f)' = Id(f)
      BY <1>1 DEF Id
    <2> QED
      BY <2>1, <1>1 DEF IInv, Judged, Types, TypeOK
  <1> QED
    BY <1>1, <1>2, <1>4, <1>5, <1>6, SameGauge DEF IInv

\* What the lobby has decided stays.
LEMMA JudgeIInv ==
    ASSUME IInv, NEW e \in Exchanges, Judge(e)
    PROVE  IInv'
  <1> USE DEF dbVars, syncVars, boundVars, counts, lobbyVars
  <1>1. /\ e \in reported /\ lobby[Id(e)] = "none"
        /\ UNCHANGED <<pc, copy, reported, pushed, rows, born, loop, counts, scene, restarts,
                       failures>>
        /\ UNCHANGED <<statsVars, boundVars>>
        /\ \A i : Noted(i)' = Noted(i) /\ Single(i)' = Single(i)
    BY SameCounts DEF Judge, recordVars
  <1>2. Id(e) \in Ids
    BY SceneFacts DEF IInv
  <1>3. /\ lobby' \in [Ids -> Verdicts]
        /\ \A i \in Ids : lobby[i] # "none" => lobby'[i] = lobby[i]
        /\ \A i \in Ids : i # Id(e) => lobby'[i] = lobby[i]
    BY <1>1, <1>2 DEF IInv, Types, TypeOK, Judge, Verdicts
  <1>4. Types'
    BY <1>1, <1>3 DEF IInv, Types, TypeOK, statsVars
  <1>5. \A i \in Ids : Recording(i)' = Recording(i) /\ (Alone(i)' <=> Alone(i))
    BY <1>1 DEF Recording, Id, Alone
  <1>6. Filled' /\ Fresh'
    BY <1>1, <1>5 DEF IInv, Filled, Fresh
  <1>7. Recalled'
    BY <1>1, <1>5 DEF IInv, Recalled, Types, TypeOK
  <1>8. Told'
    <2>1. ASSUME NEW l \in Loops, NEW i \in Ids
          PROVE  /\ loop[l].told[i] # "none" => loop[l].told[i] = lobby'[i]
                 /\ loop[l].at = i => loop[l].copy.verdict = lobby'[i] /\ lobby'[i] # "none"
      <3>1. /\ loop[l].told[i] # "none" => loop[l].told[i] = lobby[i]
            /\ loop[l].at = i => loop[l].copy.verdict = lobby[i] /\ lobby[i] # "none"
        BY DEF IInv, Told
      <3> QED
        BY <3>1, <1>3
    <2> QED
      BY <2>1, <1>1 DEF IInv, Told
  <1>9. Judged'
    <2>1. \A f \in Exchanges : Id(f)' = Id(f)
      BY <1>1 DEF Id
    <2>2. reported \subseteq Exchanges
      BY DEF IInv, Types, TypeOK
    <2>3. \A i \in Ids : lobby'[i] # "none" => \E f \in reported : Id(f) = i
      BY <1>1, <1>3 DEF IInv, Judged
    <2> QED
      BY <2>1, <2>2, <2>3, <1>1 DEF IInv, Judged
  <1>10. Once'
    BY <1>1, <1>3, <1>5 DEF IInv, Once
  <1> QED
    BY <1>1, <1>4, <1>6, <1>7, <1>8, <1>9, <1>10, SameGauge DEF IInv

-----------------------------------------------------------------------------
(* Steps of a loop *)

\* A loop that is at no row, before and after, changes only what it has to do.
Turn(l) ==
    /\ l \in Loops /\ l \in scene.loops
    /\ loop' \in [Loops -> LoopType]
    /\ \A k \in Loops : k # l => loop'[k] = loop[k]
    /\ loop[l].at = "none" /\ loop'[l].at = "none" /\ loop'[l].stage # "write"
    /\ \A i \in Ids : loop'[l].told[i] # "none" => loop'[l].told[i] = lobby[i]
    /\ \A i \in loop'[l].todo : loop'[l].told[i] # "none"
    /\ UNCHANGED <<recordVars, lobbyVars, dbVars, counts, statsVars, boundVars>>

LEMMA TurnKeeps ==
    ASSUME IInv, NEW l, Turn(l)
    PROVE  IInv'
  <1> USE DEF dbVars, recordVars, boundVars, counts, lobbyVars
  <1>1. "none" \notin Ids
    BY NamesAssumption
  <1>2. \A k \in Loops : loop'[k].at = loop[k].at /\ (loop'[k].stage = "write" => k # l)
    BY DEF Turn
  <1>3. Types'
    <2>1. \A k \in Loops :
            /\ loop'[k].stage \in {"wait", "rows", "write"} /\ loop'[k].copy \in Row
            /\ loop'[k].told \in [Ids -> Verdicts] /\ loop'[k].todo \subseteq Ids
            /\ loop'[k].at \in Ids \cup {"none"}
      BY DEF Turn, LoopType
    <2>2. \A k \in Loops : loop'[k].at \in Ids <=> loop'[k].stage = "write"
      <3>1. \A k \in Loops : loop[k].at \in Ids <=> loop[k].stage = "write"
        BY DEF IInv, Types, TypeOK
      <3> QED
        BY <3>1, <1>1 DEF Turn
    <2> QED
      BY <2>1, <2>2 DEF IInv, Types, TypeOK, Turn, statsVars
  <1>4. \A i \in Ids : Recording(i)' = Recording(i) /\ (Alone(i)' <=> Alone(i))
    BY DEF Recording, Id, Alone, Turn
  <1>5. Filled' /\ Fresh'
    BY <1>2, <1>4 DEF IInv, Filled, Fresh, Turn
  <1>6. Recalled'
    <2>1. \A k \in Loops : loop'[k].at \in Ids => loop'[k] = loop[k]
      BY <1>1 DEF Turn
    <2> QED
      BY <2>1, <1>4, SameCounts DEF IInv, Recalled, Turn, Types, TypeOK
  <1>7. Told'
    <2>1. ASSUME NEW k \in Loops, k = l
          PROVE  /\ \A i \in Ids : loop'[k].told[i] # "none" => loop'[k].told[i] = lobby'[i]
                 /\ \A i \in loop'[k].todo : loop'[k].told[i] # "none"
                 /\ \A i \in Ids : loop'[k].at # i
                 /\ k \in scene'.loops
      BY <2>1, <1>1 DEF Turn
    <2>2. ASSUME NEW k \in Loops, k # l
          PROVE  loop'[k] = loop[k] /\ lobby' = lobby /\ scene' = scene
      BY <2>2 DEF Turn
    <2> QED
      BY <2>1, <2>2 DEF IInv, Told
  <1>8. Judged'
    <2>1. \A f \in Exchanges : Id(f)' = Id(f)
      BY DEF Id, Turn
    <2> QED
      BY <2>1 DEF IInv, Judged, Turn, Types, TypeOK
  <1>9. Once'
    BY <1>2, <1>4, SameCounts DEF IInv, Once, Turn
  <1> QED
    BY <1>3, <1>5, <1>6, <1>7, <1>8, <1>9, SameGauge DEF IInv, Turn

\* A loop fetches what the lobby lists of what it has decided.
LEMMA FetchIInv ==
    ASSUME IInv, NEW l \in Loops, Fetch(l)
    PROVE  IInv'
  <1>1. /\ loop \in [Loops -> LoopType] /\ Listed \in [Ids -> Verdicts]
        /\ loop[l].at \notin Ids /\ loop[l].at \in Ids \cup {"none"}
        /\ \A i \in Ids : Listed[i] # "none" => Listed[i] = lobby[i]
    BY DEF IInv, Types, TypeOK, Fetch, Listed, Verdicts
  <1> DEFINE new == [Idle EXCEPT !.stage = "rows", !.told = Listed,
                                 !.todo = {i \in Ids : Listed[i] # "none"}]
  <1>2. loop' = [loop EXCEPT ![l] = new]
    BY DEF Fetch
  <1>3. /\ new \in LoopType /\ new.stage = "rows" /\ new.told = Listed /\ new.at = "none"
        /\ new.todo = {i \in Ids : Listed[i] # "none"}
    BY <1>1, SceneFacts DEF IInv, LoopType, Idle
  <1> HIDE DEF new
  <1>4. Turn(l)
    BY <1>1, <1>2, <1>3 DEF Turn, Fetch
  <1> QED
    BY <1>4, TurnKeeps

\* The lobby's list moves on, or cannot be read.
LEMMA ListIInv ==
    ASSUME IInv, (\E i \in Ids : PushOut(i)) \/ (\E l \in Loops : FetchFails(l))
    PROVE  IInv'
  <1>1. /\ UNCHANGED <<pc, copy, reported, lobby, rows, born, loop, counted, forgotten, active,
                       gauge, displaced, scene, removals, restarts>>
        /\ pushed' \subseteq Ids /\ failures' \in Nat
        /\ failures' = 0 => failures = 0
    BY DEF PushOut, FetchFails, IInv, Types, TypeOK, recordVars, dbVars, syncVars, counts,
           statsVars, lobbyVars, boundVars
  <1>2. Types'
    BY <1>1 DEF IInv, Types, TypeOK
  <1>3. /\ \A i : Noted(i)' = Noted(i) /\ Single(i)' = Single(i)
        /\ \A i \in Ids : Recording(i)' = Recording(i) /\ (Alone(i)' => Alone(i))
    BY <1>1 DEF Noted, Single, Recording, Id, Alone
  <1>4. Filled' /\ Fresh'
    BY <1>1, <1>3 DEF IInv, Filled, Fresh
  <1>5. Recalled'
    BY <1>1, <1>3 DEF IInv, Recalled, Types, TypeOK
  <1>6. Told'
    BY <1>1 DEF IInv, Told
  <1>7. Judged'
    <2>1. \A f \in Exchanges : Id(f)' = Id(f)
      BY <1>1 DEF Id
    <2> QED
      BY <2>1, <1>1 DEF IInv, Judged, Types, TypeOK
  <1>8. Once'
    BY <1>1, <1>3 DEF IInv, Once
  <1>9. UNCHANGED statsVars
    BY <1>1 DEF statsVars
  <1> QED
    BY <1>2, <1>4, <1>5, <1>6, <1>7, <1>8, <1>9, SameGauge DEF IInv

\* A loop that has nothing left to do waits.
LEMMA RestIInv ==
    ASSUME IInv, NEW l \in Loops, Rest(l)
    PROVE  IInv'
  <1>1. /\ loop \in [Loops -> LoopType] /\ loop[l].at \notin Ids
        /\ loop[l].at \in Ids \cup {"none"} /\ l \in scene.loops
    BY DEF IInv, Types, TypeOK, Told, Rest
  <1>2. Idle \in LoopType /\ Idle.stage = "wait" /\ Idle.at = "none" /\ Idle.todo = {}
        /\ Idle.told = [i \in Ids |-> "none"]
    BY IdleFacts DEF IInv
  <1>3. loop' = [loop EXCEPT ![l] = Idle]
    BY DEF Rest
  <1>4. Turn(l)
    BY <1>1, <1>2, <1>3 DEF Turn, Rest
  <1> QED
    BY <1>4, TurnKeeps

\* A loop reads the row of a request the lobby has judged, and counts a mismatch that the
\* row did not show.
LEMMA TakeIInv ==
    ASSUME IInv, NEW l \in Loops, NEW n \in Ids, Take(l, n)
    PROVE  IInv'
  <1> USE DEF dbVars, boundVars, counts, lobbyVars
  <1> DEFINE told == loop[l].told[n]
             row == [rows[n] EXCEPT !.verdict = told, !.exists = TRUE]
             news == rows[n].exists /\ told = "mismatched" /\ rows[n].verdict # "mismatched"
  <1>1. /\ n # "none" /\ rows[n] \in Row /\ loop \in [Loops -> LoopType]
        /\ told \in Verdicts /\ n \in loop[l].todo /\ loop[l].stage = "rows"
        /\ loop[l].at \notin Ids /\ counted \in [Ids -> Nat]
    BY NamesAssumption, LoopFacts DEF IInv, Types, TypeOK, Take
  <1>2. told = lobby[n] /\ told # "none" /\ l \in scene.loops
    BY <1>1 DEF IInv, Told
  <1>3. row \in Row /\ row.exists /\ row.verdict = told
    BY <1>1 DEF Row
  <1>4. /\ loop' = [loop EXCEPT ![l] = [loop[l] EXCEPT !.stage = "write", !.at = n, !.copy = row]]
        /\ counted' = IF news THEN [counted EXCEPT ![n] = @ + 1] ELSE counted
        /\ UNCHANGED <<pc, copy, reported, lobby, pushed, rows, born, forgotten, scene, removals,
                       restarts, failures>>
        /\ UNCHANGED statsVars
    BY <1>1 DEF Take, recordVars
  <1>5. /\ loop' \in [Loops -> LoopType]
        /\ \A k \in Loops : k # l => loop'[k] = loop[k]
        /\ loop'[l].at = n /\ loop'[l].stage = "write" /\ loop'[l].copy = row
        /\ loop'[l].told = loop[l].told /\ loop'[l].todo = loop[l].todo
    <2> HIDE DEF row
    <2> QED
      BY <1>1, <1>3, <1>4 DEF LoopType
  <1>6. /\ counted' \in [Ids -> Nat]
        /\ \A i \in Ids : i # n => counted'[i] = counted[i]
        /\ news => counted'[n] = counted[n] + 1
        /\ ~news => counted'[n] = counted[n]
    <2> HIDE DEF news
    <2> QED
      BY <1>1, <1>4
  <1>14. /\ \A i \in Ids : Noted(i) => Noted(i)'
         /\ news => Noted(n)' /\ (~Noted(n) => Single(n)')
         /\ \A i \in Ids : ~(i = n /\ news) => Noted(i)' = Noted(i) /\ Single(i)' = Single(i)
    <2>1. counted[n] \in Nat /\ n \in Ids /\ forgotten' = forgotten
      BY <1>1, <1>4
    <2> HIDE DEF news
    <2> QED
      BY <2>1, <1>6 DEF Noted, Single
  <1> HIDE DEF row
  <1>7. Types'
    <2>1. \A k \in Loops :
            /\ loop'[k].stage \in {"wait", "rows", "write"} /\ loop'[k].copy \in Row
            /\ loop'[k].told \in [Ids -> Verdicts] /\ loop'[k].todo \subseteq Ids
            /\ loop'[k].at \in Ids \cup {"none"}
      BY <1>5 DEF LoopType
    <2>2. \A k \in Loops : loop'[k].at \in Ids <=> loop'[k].stage = "write"
      BY <1>5 DEF IInv, Types, TypeOK
    <2> QED
      BY <2>1, <2>2, <1>4, <1>5, <1>6 DEF IInv, Types, TypeOK, statsVars
  <1>8. \A i \in Ids : Recording(i)' = Recording(i) /\ (Alone(i)' <=> Alone(i))
    BY <1>4 DEF Recording, Id, Alone
  <1>9. Filled' /\ Fresh'
    BY <1>3, <1>4, <1>5, <1>8 DEF IInv, Filled, Fresh
  <1>10. Recalled'
    <2> SUFFICES ASSUME NEW i \in born, ~Noted(i)'
                 PROVE  /\ rows[i].verdict # "mismatched"
                        /\ \A e \in Recording(i) : copy[e].verdict # "mismatched"
                        /\ \A k \in Loops : loop'[k].at = i => loop'[k].copy.verdict # "mismatched"
      <3>1. \A i \in born : i \in Ids
        BY DEF IInv, Types, TypeOK
      <3> QED
        BY <3>1, <1>4, <1>8 DEF Recalled
    <2>1. i \in Ids /\ ~Noted(i) /\ rows[i].exists
      BY <1>14 DEF IInv, Types, TypeOK, Fresh
    <2>2. /\ rows[i].verdict # "mismatched"
          /\ \A e \in Recording(i) : copy[e].verdict # "mismatched"
          /\ \A k \in Loops : loop[k].at = i => loop[k].copy.verdict # "mismatched"
      BY <2>1 DEF IInv, Recalled
    <2>3. i = n => told # "mismatched"
      BY <2>1, <2>2, <1>14
    <2>4. \A k \in Loops : loop'[k].at = i => loop'[k].copy.verdict # "mismatched"
      BY <2>2, <2>3, <1>3, <1>5
    <2> QED
      BY <2>2, <2>4
  <1>11. Told'
    <2>1. ASSUME NEW k \in Loops, k = l
          PROVE  /\ \A i \in Ids : loop'[k].told[i] # "none" => loop'[k].told[i] = lobby'[i]
                 /\ \A i \in loop'[k].todo : loop'[k].told[i] # "none"
                 /\ \A i \in Ids : loop'[k].at = i =>
                      loop'[k].copy.verdict = lobby'[i] /\ lobby'[i] # "none"
                 /\ k \in scene'.loops
      BY <2>1, <1>2, <1>3, <1>4, <1>5 DEF IInv, Told
    <2>2. ASSUME NEW k \in Loops, k # l
          PROVE  loop'[k] = loop[k] /\ lobby' = lobby /\ scene' = scene
      BY <2>2, <1>4, <1>5
    <2> QED
      BY <2>1, <2>2 DEF IInv, Told
  <1>12. Judged'
    <2>1. \A f \in Exchanges : Id(f)' = Id(f)
      BY <1>4 DEF Id
    <2> QED
      BY <2>1, <1>4 DEF IInv, Judged, Types, TypeOK
  <1>13. Once'
    <2> SUFFICES ASSUME NEW i \in Ids, Alone(i), Noted(i)'
                 PROVE  /\ Single(i)' /\ lobby[i] = "mismatched"
                        /\ rows[i].verdict = "mismatched" \/ \E k \in Loops : loop'[k].at = i
      BY <1>4, <1>8 DEF Once
    <2>1. \A k \in Loops : loop[k].at \notin Ids
      <3>1. \A k \in Loops : loop[k].at \in Ids => k \in scene.loops
        BY DEF IInv, Types, TypeOK, Told
      <3> QED
        BY <3>1, <1>1, <1>2 DEF Alone
    <2>2. Noted(i) =>
            Single(i) /\ lobby[i] = "mismatched" /\ rows[i].verdict = "mismatched"
      BY <2>1 DEF IInv, Once
    <2>3. CASE i = n /\ news
      BY <2>2, <2>3, <1>1, <1>2, <1>5, <1>14
    <2>4. CASE ~(i = n /\ news)
      BY <2>2, <2>4, <1>14
    <2> QED
      BY <2>3, <2>4
  <1> QED
    BY <1>4, <1>7, <1>9, <1>10, <1>11, <1>12, <1>13, SameGauge DEF IInv

\* A loop writes the row it has read, or fails, which is counted.
LEMMA PutIInv ==
    ASSUME IInv, NEW l \in Loops, Put(l)
    PROVE  IInv'
  <1> USE DEF dbVars, boundVars, counts, lobbyVars
  <1> DEFINE n == loop[l].at
             c == loop[l].copy
  <1>1. n \in Ids /\ c \in Row /\ c.exists /\ n # "none" /\ NoRow \in Row
    BY NamesAssumption, SceneFacts, LoopFacts DEF IInv, Filled, Put
  <1>2. c.verdict = lobby[n] /\ lobby[n] # "none" /\ l \in scene.loops
    BY <1>1 DEF IInv, Told, Put
  <1>3. /\ UNCHANGED <<pc, copy, reported, lobbyVars, born, counts, scene, removals, restarts>>
        /\ UNCHANGED statsVars
        /\ \A i : Noted(i)' = Noted(i) /\ Single(i)' = Single(i)
    BY SameCounts DEF Put, recordVars
  <1>4. /\ loop' \in [Loops -> LoopType]
        /\ \A k \in Loops : k # l => loop'[k] = loop[k]
        /\ loop'[l].at = "none" /\ loop'[l].stage = "rows"
        /\ loop'[l].told = loop[l].told /\ loop'[l].todo \subseteq loop[l].todo
    <2>1. loop \in [Loops -> LoopType]
      BY DEF IInv, Types
    <2>2. loop' = [loop EXCEPT ![l] = [loop[l] EXCEPT !.stage = "rows",
                                         !.todo = loop[l].todo \ {n}, !.at = "none",
                                         !.copy = NoRow]]
      BY <2>1 DEF Put
    <2> QED
      BY <2>1, <2>2, <1>1 DEF LoopType
  <1>5. \/ /\ \A i \in Ids : i # n => rows'[i] = rows[i]
           /\ rows'[n] = c /\ rows' \in [Ids -> Row] /\ failures' = failures
        \/ rows' = rows /\ failures' = failures + 1
    <2>1. rows \in [Ids -> Row]
      BY DEF IInv, Types, TypeOK
    <2> QED
      BY <2>1, <1>1 DEF Put
  <1>6. failures \in Nat /\ failures' \in Nat /\ (failures' = 0 => failures = 0)
    BY <1>5 DEF IInv, Types
  <1> HIDE DEF n, c
  <1>7. Types'
    <2>1. \A k \in Loops :
            /\ loop'[k].stage \in {"wait", "rows", "write"} /\ loop'[k].copy \in Row
            /\ loop'[k].told \in [Ids -> Verdicts] /\ loop'[k].todo \subseteq Ids
            /\ loop'[k].at \in Ids \cup {"none"}
      BY <1>4 DEF LoopType
    <2>2. \A k \in Loops : loop'[k].at \in Ids <=> loop'[k].stage = "write"
      BY <1>4, SceneFacts DEF IInv, Types, TypeOK
    <2>3. rows' \in [Ids -> Row]
      BY <1>5 DEF IInv, Types, TypeOK
    <2>4. \A i \in Ids : ~rows'[i].exists => rows'[i] = NoRow
      BY <1>1, <1>5 DEF IInv, Types, TypeOK
    <2> QED
      BY <2>1, <2>2, <2>3, <2>4, <1>3, <1>4, <1>6 DEF IInv, Types, TypeOK, statsVars
  <1>8. \A i \in Ids : Recording(i)' = Recording(i)
    BY <1>3 DEF Recording, Id
  <1>9. \A k \in Loops : loop'[k].at \in Ids => k # l /\ loop'[k] = loop[k]
    BY <1>4, SceneFacts DEF IInv
  <1>10. Filled'
    <2>1. \A k \in Loops : loop'[k].stage = "write" => loop'[k] = loop[k]
      BY <1>4
    <2> QED
      BY <2>1, <1>3, <1>8 DEF IInv, Filled
  <1>11. Fresh'
    <2>1. \A i \in Ids : rows[i].exists => rows'[i].exists
      BY <1>1, <1>5
    <2> QED
      BY <2>1, <1>3, <1>8 DEF IInv, Fresh, Types, TypeOK
  <1>12. Recalled'
    <2> SUFFICES ASSUME NEW i \in born, ~Noted(i)
                 PROVE  /\ rows'[i].verdict # "mismatched"
                        /\ \A e \in Recording(i) : copy[e].verdict # "mismatched"
                        /\ \A k \in Loops : loop'[k].at = i => loop'[k].copy.verdict # "mismatched"
      <3>1. \A i \in born : i \in Ids
        BY DEF IInv, Types, TypeOK
      <3> QED
        BY <3>1, <1>3, <1>8 DEF Recalled
    <2>1. /\ rows[i].verdict # "mismatched"
          /\ \A e \in Recording(i) : copy[e].verdict # "mismatched"
          /\ \A k \in Loops : loop[k].at = i => loop[k].copy.verdict # "mismatched"
          /\ i \in Ids
      BY DEF IInv, Recalled, Types, TypeOK
    <2>2. i = n => c.verdict # "mismatched"
      BY <2>1 DEF n, c
    <2> QED
      BY <2>1, <2>2, <1>5, <1>9
  <1>13. Told'
    <2>1. ASSUME NEW k \in Loops, k = l
          PROVE  /\ \A i \in Ids : loop'[k].told[i] # "none" => loop'[k].told[i] = lobby'[i]
                 /\ \A i \in loop'[k].todo : loop'[k].told[i] # "none"
                 /\ \A i \in Ids : loop'[k].at # i
                 /\ k \in scene'.loops
      BY <2>1, <1>2, <1>3, <1>4, SceneFacts DEF IInv, Told
    <2>2. ASSUME NEW k \in Loops, k # l
          PROVE  loop'[k] = loop[k] /\ lobby' = lobby /\ scene' = scene
      BY <2>2, <1>3, <1>4
    <2> QED
      BY <2>1, <2>2 DEF IInv, Told
  <1>14. Judged'
    <2>1. \A f \in Exchanges : Id(f)' = Id(f)
      BY <1>3 DEF Id
    <2> QED
      BY <2>1, <1>3 DEF IInv, Judged, Types, TypeOK
  <1>15. Once'
    <2> SUFFICES ASSUME NEW i \in Ids, Alone(i)', Noted(i)
                 PROVE  Single(i) /\ lobby[i] = "mismatched" /\ rows'[i].verdict = "mismatched"
      BY <1>3 DEF Once
    <2>1. failures' = 0
      BY DEF Alone
    <2>2. Alone(i) /\ (\A k, j \in scene.loops : k = j)
      BY <2>1, <1>3, <1>6 DEF Alone, Id
    <2>3. /\ rows'[n] = c /\ \A j \in Ids : j # n => rows'[j] = rows[j]
      BY <2>1, <1>5, <1>6
    <2>4. /\ Single(i) /\ lobby[i] = "mismatched"
          /\ rows[i].verdict = "mismatched" \/ \E k \in Loops : loop[k].at = i
      BY <2>2 DEF IInv, Once
    <2>5. ASSUME NEW k \in Loops, loop[k].at = i
          PROVE  i = n
      <3>1. loop[k].stage # "wait"
        BY <2>5 DEF IInv, Types, TypeOK
      <3>2. k \in scene.loops
        BY <3>1 DEF IInv, Told
      <3> QED
        BY <3>2, <2>2, <2>5, <1>2 DEF n
    <2>6. CASE i = n
      BY <2>3, <2>4, <2>6, <1>2
    <2>7. CASE i # n
      BY <2>3, <2>4, <2>5, <2>7
    <2> QED
      BY <2>6, <2>7
  <1> QED
    BY <1>3, <1>7, <1>10, <1>11, <1>12, <1>13, <1>14, <1>15, SameGauge DEF IInv

-----------------------------------------------------------------------------
(* The whole *)

\* A restart forgets everything but the database, what the lobby knows and the counts.
LEMMA RestartIInv ==
    ASSUME IInv, Restart
    PROVE  IInv'
  <1> USE DEF dbVars, counts, lobbyVars
  <1>1. /\ Idle \in LoopType /\ Idle.stage = "wait" /\ Idle.at = "none" /\ Idle.todo = {}
        /\ Idle.told = [i \in Ids |-> "none"] /\ NoRow \in Row
    BY IdleFacts, SceneFacts DEF IInv
  <1>2. /\ loop' = [l \in Loops |-> Idle] /\ restarts' = restarts + 1
        /\ UNCHANGED <<reported, lobby, pushed, rows, born, scene, removals, failures>>
    BY DEF Restart
  <1>11. /\ \A i \in Ids : Noted(i)' <=> Noted(i)
         /\ counted' \in [Ids -> Nat] /\ forgotten' \subseteq Ids
    BY ForgetKeeps DEF IInv, Restart
  <1>3. \A l \in Loops : loop'[l] = Idle
    BY <1>2
  <1>4. Types'
    <2>1. \A l \in Loops :
            /\ Idle.stage \in {"wait", "rows", "write"} /\ Idle.copy \in Row
            /\ Idle.told \in [Ids -> Verdicts] /\ Idle.todo \subseteq Ids
            /\ Idle.at \in Ids \cup {"none"} /\ (Idle.at \in Ids <=> Idle.stage = "write")
      BY <1>1, SceneFacts DEF IInv, LoopType
    <2>2. loop' \in [Loops -> LoopType]
      BY <1>1, <1>2
    <2>3. /\ pc' \in [Exchanges -> {"idle", "active", "load", "write", "written", "over"}]
          /\ copy' \in [Exchanges -> Row]
      BY <1>1 DEF IInv, Types, TypeOK, Restart
    <2>4. /\ active' \in [Ids -> Peers \cup {"none"}]
          /\ gauge' \in [Peers -> Nat] /\ displaced' \in [Peers -> Nat]
      BY DEF Restart
    <2> QED
      BY <1>2, <1>3, <1>11, <2>1, <2>2, <2>3, <2>4 DEF IInv, Types, TypeOK
  <1>5. Finite' /\ GaugeMatches'
    <2>1. \A p \in Peers : Under(p)' = {}
      BY SceneFacts DEF IInv, Restart, Under
    <2>2. \A p \in Peers : gauge'[p] = 0 /\ displaced'[p] = 0
      BY DEF Restart
    <2> QED
      BY <2>1, <2>2, FS_EmptySet DEF Finite, GaugeMatches, Under
  <1>6. \A i \in Ids : Recording(i)' = {}
    <2>1. \A e \in Exchanges : pc'[e] # "write"
      BY DEF Restart
    <2> QED
      BY <2>1 DEF Recording
  <1>7. Filled' /\ Fresh' /\ Recalled'
    <2>1. \A l \in Loops : loop'[l].stage # "write" /\ loop'[l].at \notin Ids
      BY <1>1, <1>3, SceneFacts DEF IInv
    <2> QED
      BY <2>1, <1>2, <1>6, <1>11 DEF IInv, Filled, Fresh, Recalled, Types, TypeOK
  <1>8. Told'
    BY <1>1, <1>3, SceneFacts DEF IInv, Told
  <1>9. Judged'
    <2>1. \A f \in Exchanges : Id(f)' = Id(f) /\ (pc[f] = "written" => pc'[f] = "written")
      BY <1>2 DEF Id, Restart
    <2> QED
      BY <2>1, <1>2 DEF IInv, Judged, Types, TypeOK
  <1>10. Once'
    <2>1. restarts' # 0
      BY <1>2 DEF IInv, Types
    <2> QED
      BY <2>1 DEF Once, Alone
  <1> QED
    BY <1>4, <1>5, <1>7, <1>8, <1>9, <1>10 DEF IInv

LEMMA StutterIInv ==
    ASSUME IInv, UNCHANGED vars
    PROVE  IInv'
  <1>1. Apart /\ UNCHANGED statsVars /\ UNCHANGED removals
    BY SameCounts DEF vars, recordVars, dbVars, syncVars, counts, lobbyVars, statsVars, boundVars, Apart
  <1>2. Types'
    BY DEF IInv, Types, TypeOK, vars, recordVars, dbVars, syncVars, counts, lobbyVars, statsVars, boundVars
  <1> QED
    BY <1>1, <1>2, ApartKeeps, SameGauge DEF IInv

LEMMA NextIInv ==
    ASSUME IInv, [Next]_vars
    PROVE  IInv'
  BY StartIInv, EndIInv, RemovePeerIInv, LoadIInv, WriteIInv, ReportIInv, JudgeIInv,
     FetchIInv, ListIInv, TakeIInv, PutIInv, RestIInv, RestartIInv, StutterIInv DEF Next

\* The inductive invariant holds throughout.
THEOREM LedgerInductive == Spec => []IInv
  <1>1. Init => IInv
    BY InitIInv
  <1>2. IInv /\ [Next]_vars => IInv'
    BY NextIInv
  <1> QED
    BY <1>1, <1>2, PTL DEF Spec

\* The gauge of a peer is the number of its requests under way, and of those whose id another
\* request took, whatever ends late, twice or not at all (on_request_start,
\* on_request_complete, on_request_error, remove_peer).
THEOREM LedgerCorrect == Spec => []LedgerInv
  <1>1. IInv => LedgerInv
    BY DEF IInv, Types, LedgerInv
  <1> QED
    BY <1>1, LedgerInductive, PTL

\* token_mismatch_count tells of a mismatch of a request that was recorded in time until the
\* session with its peer is closed or the node restarts, with any number of loops and records
\* that write over each other; and it counts it once where one loop works alone
\* (upsert_from_lobby, record_local_report, remove_peer).
THEOREM MismatchCorrect == Spec => []MismatchCountedOnce
  <1>1. IInv => MismatchCountedOnce
    <2> SUFFICES ASSUME IInv, NEW i \in Ids
                 PROVE  /\ i \in born /\ rows[i].verdict = "mismatched" =>
                             counted[i] >= 1 \/ i \in forgotten
                        /\ Alone(i) => counted[i] <= IF i \in forgotten THEN 0 ELSE 1
      BY DEF MismatchCountedOnce
    <2>1. counted[i] \in Nat
      BY DEF IInv, Types, TypeOK
    <2>2. i \in born /\ rows[i].verdict = "mismatched" => Noted(i)
      BY DEF IInv, Recalled
    <2>3. Alone(i) => ~Noted(i) \/ Single(i)
      BY DEF IInv, Once
    <2> QED
      BY <2>1, <2>2, <2>3 DEF Noted, Single
  <1> QED
    BY <1>1, LedgerInductive, PTL

=============================================================================
