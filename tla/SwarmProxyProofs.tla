-------------------------- MODULE SwarmProxyProofs --------------------------
(***************************************************************************)
(* The safety of SwarmProxy for any requests, attempts, pieces, breaks and *)
(* faults.  What a caller is given cannot be judged from the caller's side *)
(* alone: the invariant follows every chunk back to the task that sealed   *)
(* it (Genuine), wherever the chunk is, and says what the task's counters  *)
(* are worth at each of its stages (Level).  That a task is served once    *)
(* rests on the order of attempts: no request is under way, and no task    *)
(* exists, of an attempt that is still to be made (Unmade).                *)
(***************************************************************************)
EXTENDS SwarmProxy, TLAPS, FiniteSetTheorems, FunctionTheorems,
        SequenceTheorems, NaturalsInduction, WellFoundedInduction

-----------------------------------------------------------------------------
(* The inductive invariant *)

Attempts == 0..MaxAttempts
Id(w)    == [req |-> w.req, att |-> w.att]

Word     == [kind: {"request"} \cup Answers, req: Reqs, att: Attempts]
Packet   == [kind: {"chunk"}, req: Reqs, att: Attempts, seq: Seqs, text: Seqs, done: BOOLEAN]
Position == [att: Attempts, next: 0..(Pieces + 1)]
Piece    == [att: Attempts, text: Seqs]
Progress == [stage: Stages, read: 0..Pieces, seq: 0..(Pieces + 1), fate: Fates]

LinkTypes ==
    /\ mode \in Modes /\ up \in BOOLEAN /\ cUp \in BOOLEAN /\ pUp \in BOOLEAN
    /\ breaks \in 0..mode.breaks /\ faults \in 0..mode.faults
    /\ mapped \in BOOLEAN /\ stuck \in BOOLEAN /\ cut \subseteq Reqs

ConsumerTypes ==
    /\ outcome \in [Reqs -> {"new", "waiting", "done", "error"}]
    /\ queued \subseteq Try /\ IsFiniteSet(queued)
    /\ outstanding \subseteq Try /\ failing \subseteq outstanding
    /\ stream \in [Reqs -> {NoStream} \cup Position]
    /\ reorder \in [Reqs -> SUBSET Chunk] /\ early \in [Reqs -> SUBSET Chunk]
    /\ got \in [Reqs -> Seq(Piece)]

ManagerTypes ==
    /\ channels \subseteq Try
    /\ rrq \in Seq(Word) /\ revq \in Seq(Chunk) /\ parked \in Seq(Chunk)

TaskTypes ==
    /\ slot \in Try \cup {NoTry}
    /\ task \in [Try -> Progress] /\ late \in [Try -> Nat]

Types == LinkTypes /\ ConsumerTypes /\ ManagerTypes /\ TaskTypes /\ wire \subseteq Word \cup Packet

\* The provider's responses are answers; only an unsealed request is answered with a
\* body, by a task of its own.
Responses ==
    /\ \A i \in DOMAIN rrq : rrq[i].kind \in Answers /\ (mode.sealed => rrq[i].kind # "body")
    /\ \A w \in wire : mode.sealed => w.kind # "body"
    /\ \A x \in Try : mode.sealed => task[x].stage # "plain"

Home == queued \cup outstanding

\* Where an unfinished request is kept.
Housed ==
    /\ \A x \in Home : Waiting(x.req) /\ stream[x.req] = NoStream
    /\ \A x \in Home, y \in Home : x.req = y.req => x = y
    /\ queued \cap outstanding = {}
    /\ \A r \in Reqs : stream[r] # NoStream => Waiting(r)
    /\ \A r \in Reqs : Waiting(r) => stream[r] # NoStream \/ \E x \in Home : x.req = r

\* A broken connection carries nothing, and what libp2p calls failed is not answered.
Cleared ==
    /\ ~up => wire = {} /\ channels = {}
    /\ \A x \in failing : x \notin channels /\ \A w \in wire : Id(w) = x => w.kind = "chunk"

\* The attempts that may still be made.
Ahead(x) ==
    \/ outcome[x.req] = "new"
    \/ x \in queued
    \/ \E y \in Home : y.req = x.req /\ y.att < x.att

Unmade ==
    /\ \A x \in Try : Ahead(x) => task[x].stage = "none" /\ Message("request", x) \notin wire
    /\ \A w \in wire : w.kind = "request" => task[Id(w)].stage = "none"

\* What a task t has read and sent at each stage; "holds" says that it has the slot, "n"
\* what it sent without. One that lost the slot does not get it back, and sends at most
\* the chunk it was at.
Level(t, n, holds) ==
    /\ t.stage \in {"none", "claim", "check", "ack", "refuse", "forward", "plain"} => t.read = 0 /\ t.seq = 0
    /\ t.stage \in {"flush", "send"} => t.seq < t.read
    /\ t.stage \in {"read", "final", "sendLast"} => t.seq <= t.read
    /\ t.stage = "end" => t.seq <= t.read + 1
    /\ t.fate # "crypto" =>
         /\ t.stage \in {"flush", "send"} => t.read = t.seq + 1
         /\ t.stage \in {"read", "final"} => t.seq = t.read \/ ~holds
         /\ t.stage = "sendLast" => t.seq = t.read
    /\ n = 0 \/ (n = 1 /\ ~holds /\ t.stage \in {"read", "final", "end"})

Levels == \A x \in Try : Level(task[x], late[x], slot = x)

\* A chunk and the task t that sealed it.
Genuine(c, t) ==
    /\ c.seq < t.seq /\ c.text <= t.read
    /\ c.done <=> c.text = 0
    /\ c.done => t.stage = "end"
    /\ t.fate # "crypto" => IF c.done THEN c.seq = t.read ELSE c.text = c.seq + 1

Sealed ==
    /\ \A i \in DOMAIN revq : Genuine(revq[i], task[Id(revq[i])])
    /\ \A i \in DOMAIN parked : Genuine(parked[i], task[Id(parked[i])])
    /\ \A w \in wire : w.kind = "chunk" => Genuine(w, task[Id(w)])
    /\ \A r \in Reqs : \A c \in reorder[r] \cup early[r] : Genuine(c, task[Id(c)])

\* Of each number a map keeps one chunk, and of its own request.
Distinct(r, map) == /\ \A c \in map : c.req = r
                    /\ \A c \in map, d \in map : c.seq = d.seq => c = d

MapsDistinct == \A r \in Reqs : Distinct(r, reorder[r]) /\ Distinct(r, early[r])

\* The i-th of n pieces a caller was given, and the task t it is from.
Given(p, i, n, t) ==
    /\ i <= t.seq /\ p.text <= t.read
    /\ p.text = 0 => i = n /\ t.stage = "end"
    /\ t.fate # "crypto" => IF p.text = 0 THEN i = t.read + 1 ELSE p.text = i

\* What the caller of r was given, g, when its stream is s and its outcome o.
Answer(r, g, s, o, tasks) ==
    /\ \A i \in DOMAIN g : g[i].att = g[1].att /\ Given(g[i], i, Len(g), tasks[[req |-> r, att |-> g[i].att]])
    /\ s # NoStream => /\ Len(g) = s.next
                       /\ \A i \in DOMAIN g : g[i].att = s.att /\ g[i].text # 0
    /\ o = "new" \/ (o = "waiting" /\ s = NoStream) => g = <<>>
    /\ o = "done" /\ mode.sealed => g # <<>> /\ g[Len(g)].text = 0

Told == \A r \in Reqs : Answer(r, got[r], stream[r], outcome[r], task)

\* What the backend's stream brought was kept or left out.
Counted ==
    /\ produced \in [Try -> 0..Pieces] /\ dropped \in [Try -> Nat]
    /\ \A x \in Try : task[x].read + dropped[x] = produced[x]

IInv ==
    /\ Types /\ Responses
    /\ Housed /\ Cleared /\ Unmade
    /\ Levels /\ Sealed /\ MapsDistinct /\ Told

-----------------------------------------------------------------------------
(* Natural numbers, chunks in a row *)

\* A set of natural numbers that is not empty has a least one.
LEMMA Least ==
    ASSUME NEW T \in SUBSET Nat, T # {}
    PROVE  \E x \in T : \A y \in T : x <= y
  <1> DEFINE R == {ss \in Nat \X Nat : ss[1] < ss[2]}
  <1>1. IsWellFoundedOn(R, Nat)
    BY NatLessThanWellFounded DEF OpToRel
  <1> HIDE DEF R
  <1>2. PICK x \in T : \A y \in T : ~ (<<y, x>> \in R)
    BY <1>1, WFMin
  <1>3. \A y \in T : ~(y < x)
    BY <1>2 DEF R
  <1> QED BY <1>2, <1>3

\* A bounded set of natural numbers that is not empty has a greatest one.
LEMMA Greatest ==
    ASSUME NEW N \in Nat, NEW T \in SUBSET (0..N), T # {}
    PROVE  \E x \in T : \A y \in T : y <= x
  <1> DEFINE U == {N - y : y \in T}
  <1>1. U \in SUBSET Nat /\ U # {}
    <2>1. \A y \in T : y \in 0..N /\ N - y \in Nat
      OBVIOUS
    <2> QED BY <2>1
  <1> HIDE DEF U
  <1>2. PICK u \in U : \A v \in U : u <= v
    BY <1>1, Least
  <1>3. PICK x \in T : u = N - x
    BY <1>2 DEF U
  <1>4. \A y \in T : N - x <= N - y
    BY <1>2, <1>3 DEF U
  <1> QED BY <1>4

\* Chunks whose numbers run from "next" without a gap are taken in their order.
LEMMA InLineFacts ==
    ASSUME NEW S \in SUBSET Chunk, NEW next \in Nat,
           \A c \in S : c.seq >= next /\ \A k \in next..c.seq : \E d \in S : d.seq = k,
           \A c \in S, d \in S : c.seq = d.seq => c = d
    PROVE  /\ IsFiniteSet(S) /\ Cardinality(S) \in Nat /\ Len(InLine(S, next)) = Cardinality(S)
           /\ DOMAIN InLine(S, next) = 1..Cardinality(S)
           /\ \A i \in 1..Cardinality(S) : InLine(S, next)[i] \in S /\ InLine(S, next)[i].seq = next + i - 1
           /\ \A c \in S : c.seq - next + 1 \in 1..Cardinality(S) /\ InLine(S, next)[c.seq - next + 1] = c
  <1>1. \A c \in S : c.seq \in Nat /\ c.seq \in 0..Pieces
    BY SwarmProxyAssumption DEF Chunk, Seqs
  <1>2. \E k \in Nat : /\ \A c \in S : c.seq - next + 1 \in 1..k
                      /\ \A i \in 1..k : \E c \in S : c.seq = next + i - 1
    <2>1. CASE S = {}
      BY <2>1
    <2>2. CASE S # {}
      <3> DEFINE T == {c.seq : c \in S}
      <3>1. T \in SUBSET (0..Pieces) /\ T # {}
        BY <1>1, <2>2
      <3>2. PICK m \in T : \A y \in T : y <= m
        <4> HIDE DEF T
        <4> QED BY <3>1, Greatest, SwarmProxyAssumption
      <3>3. PICK c \in S : c.seq = m
        BY <3>2
      <3>4. m \in Nat /\ m >= next /\ \A d \in S : d.seq <= m
        BY <1>1, <3>2, <3>3
      <3>5. m - next + 1 \in Nat
        BY <3>4
      <3>6. \A d \in S : d.seq - next + 1 \in 1..(m - next + 1)
        BY <1>1, <3>4
      <3>7. ASSUME NEW i \in 1..(m - next + 1) PROVE \E d \in S : d.seq = next + i - 1
        <4>1. next + i - 1 \in next..c.seq
          BY <3>3, <3>4
        <4> QED BY <4>1
      <3> QED BY <3>5, <3>6, <3>7
    <2> QED BY <2>1, <2>2
  <1>3. PICK k \in Nat : /\ \A c \in S : c.seq - next + 1 \in 1..k
                       /\ \A i \in 1..k : \E c \in S : c.seq = next + i - 1
    BY <1>2
  <1> DEFINE at == [i \in 1..k |-> CHOOSE c \in S : c.seq = next + i - 1]
  <1>4. \A i \in 1..k : at[i] \in S /\ at[i].seq = next + i - 1
    BY <1>3
  <1>5. \A c \in S : c.seq - next + 1 \in 1..k /\ at[c.seq - next + 1] = c
    <2> SUFFICES ASSUME NEW c \in S PROVE c.seq - next + 1 \in 1..k /\ at[c.seq - next + 1] = c
      OBVIOUS
    <2>1. c.seq - next + 1 \in 1..k /\ next + (c.seq - next + 1) - 1 = c.seq
      BY <1>1, <1>3
    <2>2. at[c.seq - next + 1] \in S /\ at[c.seq - next + 1].seq = c.seq
      <3> HIDE DEF at
      <3> QED BY <1>4, <2>1
    <2> HIDE DEF at
    <2> QED BY <2>1, <2>2
  <1>6. at \in Bijection(1..k, S)
    <2>1. at \in [1..k -> S]
      BY <1>4
    <2>2. \A i, j \in 1..k : at[i] = at[j] => i = j
      <3> HIDE DEF at
      <3> QED BY <1>4
    <2>3. \A c \in S : \E i \in 1..k : at[i] = c
      <3> HIDE DEF at
      <3> QED BY <1>5
    <2> HIDE DEF at
    <2> QED BY <2>1, <2>2, <2>3, Fun_IsBij
  <1>7. IsFiniteSet(S) /\ Cardinality(S) = k
    <2>1. ExistsBijection(1..k, S)
      BY <1>6 DEF ExistsBijection
    <2>2. IsFiniteSet(1..k) /\ Cardinality(1..k) = k
      BY FS_Interval
    <2> QED BY <2>1, <2>2, FS_Bijection
  <1>8. InLine(S, next) = at
    BY <1>7 DEF InLine
  <1>9. DOMAIN InLine(S, next) = 1..k /\ Len(InLine(S, next)) = k
    BY <1>7 DEF InLine
  <1> HIDE DEF at
  <1> QED BY <1>4, <1>5, <1>7, <1>8, <1>9

-----------------------------------------------------------------------------
(* Records *)

\* Tries are what the identity of a message is; no stream is no position in one.
LEMMA Records ==
    /\ \A w \in Word \cup Packet \cup Chunk : Id(w) \in Try /\ Id(w).req = w.req /\ Id(w).att = w.att
    /\ \A x \in Try : Id(x) = x /\ x.req \in Reqs /\ x.att \in Attempts
    /\ \A x \in Try, y \in Try : x.req = y.req /\ x.att = y.att => x = y
    /\ \A r \in Reqs, a \in Attempts : [req |-> r, att |-> a] \in Try
    /\ NoStream \notin Position
    /\ \A k : \A x \in Try : Id(Message(k, x)) = x /\ Message(k, x).kind = k /\ Message(k, x).req = x.req /\ Message(k, x).att = x.att
    /\ \A x \in Try, k \in {"request"} \cup Answers : Message(k, x) \in Word
    /\ \A w \in Word : w = Message(w.kind, Id(w))
    /\ \A w \in Word : w \notin Packet /\ w.kind # "chunk"
    /\ \A w \in Packet : w.kind = "chunk" /\ ChunkOf(w) \in Chunk /\ Id(ChunkOf(w)) = Id(w)
    /\ \A c \in Chunk : OnWire(c) \in Packet /\ Id(OnWire(c)) = Id(c)
  <1>1. /\ \A w \in Word \cup Packet \cup Chunk : Id(w) \in Try /\ Id(w).req = w.req /\ Id(w).att = w.att
        /\ \A x \in Try : Id(x) = x /\ x.req \in Reqs /\ x.att \in Attempts
        /\ \A x \in Try, y \in Try : x.req = y.req /\ x.att = y.att => x = y
        /\ \A r \in Reqs, a \in Attempts : [req |-> r, att |-> a] \in Try
    BY DEF Id, Try, Word, Packet, Chunk, Attempts
  <1>2. NoStream \notin Position
    <2>1. DOMAIN NoStream = {"att"}
      BY DEF NoStream
    <2>2. \A s \in Position : DOMAIN s = {"att", "next"}
      BY DEF Position
    <2>3. {"att"} # {"att", "next"}
      OBVIOUS
    <2> QED BY <2>1, <2>2, <2>3
  <1>3. /\ \A k : \A x \in Try : Id(Message(k, x)) = x /\ Message(k, x).kind = k /\ Message(k, x).req = x.req /\ Message(k, x).att = x.att
        /\ \A x \in Try, k \in {"request"} \cup Answers : Message(k, x) \in Word
        /\ \A w \in Word : w = Message(w.kind, Id(w))
    BY DEF Id, Message, Try, Word, Attempts
  <1>4. /\ \A w \in Word : w \notin Packet /\ w.kind # "chunk"
        /\ \A w \in Packet : w.kind = "chunk"
    BY DEF Word, Packet, Answers
  <1>5. \A w \in Packet : ChunkOf(w) \in Chunk /\ Id(ChunkOf(w)) = Id(w)
    BY DEF Packet, ChunkOf, Chunk, Id, Attempts
  <1>6. \A c \in Chunk : OnWire(c) \in Packet /\ Id(OnWire(c)) = Id(c)
    BY DEF Packet, OnWire, Chunk, Id, Attempts
  <1> QED BY <1>1, <1>2, <1>3, <1>4, <1>5, <1>6

-----------------------------------------------------------------------------
(* Tasks that go on *)

\* What a task t can become: it never reads or sends less, an encryption that failed has
\* failed, and an end is the end.
Grown(t, u) ==
    /\ t.seq <= u.seq /\ t.read <= u.read
    /\ t.fate = "crypto" => u.fate = "crypto"
    /\ t.stage = "end" => u = t

\* A chunk stays what it is while its task goes on.
LEMMA GenuineGrows ==
    ASSUME NEW t \in Progress, NEW u \in Progress, Grown(t, u), NEW c \in Chunk \cup Packet, Genuine(c, t)
    PROVE  Genuine(c, u)
  <1>1. /\ t.seq \in Nat /\ u.seq \in Nat /\ t.read \in Nat /\ u.read \in Nat
        /\ c.seq \in Nat /\ c.text \in Nat
    BY SwarmProxyAssumption DEF Progress, Chunk, Packet, Seqs
  <1> QED BY <1>1 DEF Grown, Genuine

\* So does what a caller was given.
LEMMA AnswerGrows ==
    ASSUME NEW tasks \in [Try -> Progress], NEW tasks2 \in [Try -> Progress],
           \A x \in Try : Grown(tasks[x], tasks2[x]),
           NEW r \in Reqs, NEW g \in Seq(Piece), NEW s, NEW o, Answer(r, g, s, o, tasks)
    PROVE  Answer(r, g, s, o, tasks2)
  <1>1. ASSUME NEW i \in DOMAIN g
        PROVE  Given(g[i], i, Len(g), tasks2[[req |-> r, att |-> g[i].att]])
    <2>1. g[i] \in Piece /\ i \in Nat
      BY <1>1
    <2> DEFINE x == [req |-> r, att |-> g[i].att]
    <2>2. x \in Try /\ g[i].text \in Nat
      BY <2>1, SwarmProxyAssumption DEF Piece, Try, Attempts, Seqs
    <2> HIDE DEF x
    <2>3. Given(g[i], i, Len(g), tasks[x]) /\ Grown(tasks[x], tasks2[x]) /\ tasks[x] \in Progress /\ tasks2[x] \in Progress
      BY <2>2 DEF Answer, x
    <2>4. /\ tasks[x].seq \in Nat /\ tasks2[x].seq \in Nat /\ tasks[x].read \in Nat /\ tasks2[x].read \in Nat
      BY <2>3, SwarmProxyAssumption DEF Progress
    <2>5. Given(g[i], i, Len(g), tasks2[x])
      BY <2>1, <2>2, <2>3, <2>4 DEF Given, Grown
    <2> QED BY <2>5 DEF x
  <1> QED BY <1>1 DEF Answer

-----------------------------------------------------------------------------
(* What the consumer's manager drains *)

\* The chunks it takes: in a row from "next", of one attempt, and of those only the last
\* may be marked done.
Stops(ready, att) == {c \in ready : c.done \/ ~Opens(c, att)}
First(stops)      == {c \in stops : \A d \in stops : c.seq <= d.seq}
Taken(ready, att, first) == {c \in ready : Opens(c, att) /\ \A s \in first : c.seq <= s.seq}

LEMMA TakenFacts ==
    ASSUME NEW r \in Reqs, NEW att \in Attempts, NEW next \in Nat, NEW map \in SUBSET Chunk, Distinct(r, map),
           NEW ready, ready = Ready(map, next), NEW stops, stops = Stops(ready, att),
           NEW first, first = First(stops), NEW taken, taken = Taken(ready, att, first)
    PROVE  /\ taken \in SUBSET map
           /\ \A c \in taken : c.req = r /\ c.att = att
           /\ \A c \in taken : c.seq >= next /\ \A k \in next..c.seq : \E d \in taken : d.seq = k
           /\ \A c \in taken, d \in taken : c.seq = d.seq => c = d
           /\ \A c \in taken : c.done => first = {c} /\ \A d \in taken : d.seq <= c.seq
           /\ first # {} /\ first \subseteq taken => \E c \in taken : c.done
  <1>1. \A c \in map : c.seq \in Nat /\ c.seq \in 0..Pieces
    BY SwarmProxyAssumption DEF Chunk, Seqs
  <1>2. ready \in SUBSET map /\ stops \in SUBSET ready /\ first \in SUBSET stops /\ taken \in SUBSET ready
    BY DEF Ready, Stops, First, Taken
  <1>3. \A c \in map, d \in map : c.seq = d.seq => c = d
    BY DEF Distinct
  <1>4. stops # {} => first # {}
    <2> SUFFICES ASSUME stops # {} PROVE \E c \in stops : \A d \in stops : c.seq <= d.seq
      BY DEF First
    <2> DEFINE T == {c.seq : c \in stops}
    <2>1. T \in SUBSET Nat /\ T # {}
      BY <1>1, <1>2
    <2>2. PICK m \in T : \A y \in T : m <= y
      <3> HIDE DEF T
      <3> QED BY <2>1, Least
    <2>3. PICK c \in stops : c.seq = m
      BY <2>2
    <2>4. \A d \in stops : c.seq <= d.seq
      BY <2>2, <2>3
    <2> QED BY <2>4
  <1>5. \A c \in first, d \in first : c = d
    <2>1. \A c \in first, d \in first : c.seq <= d.seq /\ d.seq <= c.seq
      BY DEF First
    <2> QED BY <1>1, <1>2, <1>3, <2>1
  <1>6. \A c \in taken : c.req = r /\ c.att = att
    BY <1>2 DEF Distinct, Taken, Opens
  <1>7. ASSUME NEW c \in taken, NEW k \in next..c.seq PROVE \E d \in taken : d.seq = k
    <2>1. c \in ready /\ c \in map /\ c.seq \in Nat /\ k \in Nat /\ Opens(c, att)
      BY <1>1, <1>2 DEF Taken
    <2>2. \A j \in next..c.seq : \E d \in map : d.seq = j
      BY <2>1 DEF Ready
    <2>3. PICK d \in map : d.seq = k
      BY <2>2
    <2>4. d \in ready
      <3>1. \A j \in next..d.seq : j \in next..c.seq
        BY <2>1, <2>3
      <3>2. d.seq >= next
        BY <2>1, <2>3
      <3> QED BY <2>2, <3>1, <3>2 DEF Ready
    <2>5. \A s \in first : c.seq <= s.seq /\ s.seq \in Nat
      BY <1>1, <1>2 DEF Taken
    <2>6. \A s \in first : d.seq <= s.seq
      BY <2>1, <2>3, <2>5
    <2>7. Opens(d, att)
      <3> SUFFICES ASSUME ~Opens(d, att) PROVE FALSE
        OBVIOUS
      <3>1. d \in stops
        BY <2>4 DEF Stops
      <3>2. PICK s \in first : TRUE
        BY <1>4, <3>1
      <3>3. s.seq <= d.seq
        BY <3>1, <3>2 DEF First
      <3>4. d.seq = c.seq
        BY <2>1, <2>3, <2>5, <3>2, <3>3
      <3>5. d = c
        BY <1>3, <2>1, <2>3, <3>4
      <3> QED BY <2>1, <3>5
    <2> QED BY <2>3, <2>4, <2>6, <2>7 DEF Taken
  <1>8. \A c \in taken : c.seq >= next
    BY <1>2 DEF Ready
  <1>9. ASSUME NEW c \in taken, c.done PROVE first = {c} /\ \A d \in taken : d.seq <= c.seq
    <2>1. c \in stops
      BY <1>2, <1>9 DEF Stops
    <2>2. PICK s \in first : TRUE
      BY <1>4, <2>1
    <2>3. s.seq <= c.seq /\ c.seq <= s.seq /\ s \in map /\ c \in map
      BY <1>2, <2>1, <2>2 DEF First, Taken
    <2>4. s = c
      BY <1>1, <1>3, <2>3
    <2>5. first = {c}
      BY <1>5, <2>2, <2>4
    <2>6. \A d \in taken : d.seq <= c.seq
      BY <2>2, <2>4 DEF Taken
    <2> QED BY <2>5, <2>6
  <1>10. first # {} /\ first \subseteq taken => \E c \in taken : c.done
    BY <1>2 DEF Stops, Taken
  <1> QED BY <1>2, <1>3, <1>6, <1>7, <1>8, <1>9, <1>10

\* One chunk, given as the next piece.
LEMMA GivenByChunk ==
    ASSUME NEW c \in Chunk, NEW t \in Progress, Genuine(c, t), NEW p \in Piece, p.text = c.text,
           NEW n \in Nat, c.done => c.seq + 1 = n
    PROVE  Given(p, c.seq + 1, n, t)
  <1>1. c.seq \in Nat /\ c.text \in Nat /\ t.seq \in Nat /\ t.read \in Nat
    BY SwarmProxyAssumption DEF Chunk, Seqs, Progress
  <1> QED BY <1>1 DEF Given, Genuine

\* The text that a drain adds for its caller.
Drained(taken, next) ==
    LET text == InLine(taken, next) IN
    [i \in 1..Len(text) |-> [att |-> text[i].att, text |-> text[i].text]]

\* A drain of a map at position "next": g was given before, h is given with it.
Draining(r, att, next, map, tasks, g, ready, stops, first, taken, h) ==
    /\ r \in Reqs /\ att \in Attempts /\ next \in 0..(Pieces + 1)
    /\ map \in SUBSET Chunk /\ Distinct(r, map)
    /\ tasks \in [Try -> Progress] /\ \A c \in map : Genuine(c, tasks[Id(c)])
    /\ g \in Seq(Piece) /\ Len(g) = next
    /\ \A i \in DOMAIN g : /\ g[i].att = att /\ g[i].text # 0
                           /\ Given(g[i], i, Len(g), tasks[[req |-> r, att |-> att]])
    /\ ready = Ready(map, next) /\ stops = Stops(ready, att) /\ first = First(stops)
    /\ taken = Taken(ready, att, first) /\ h = g \o Drained(taken, next)

\* What a caller was given, a drain continues: the pieces are the tasks' in order.
LEMMA DrainContinues ==
    ASSUME NEW r, NEW att, NEW next, NEW map, NEW tasks, NEW g, NEW ready, NEW stops, NEW first, NEW taken, NEW h,
           Draining(r, att, next, map, tasks, g, ready, stops, first, taken, h)
    PROVE  /\ h \in Seq(Piece) /\ Len(InLine(taken, next)) \in Nat
           /\ Len(h) = next + Len(InLine(taken, next)) /\ Len(h) \in 0..(Pieces + 1)
           /\ \A i \in DOMAIN h : h[i].att = att /\ Given(h[i], i, Len(h), tasks[[req |-> r, att |-> att]])
           /\ first = {} => \A i \in DOMAIN h : h[i].text # 0
           /\ first # {} /\ first \subseteq taken => h # <<>> /\ h[Len(h)].text = 0
  <1> DEFINE x == [req |-> r, att |-> att]
             n == Cardinality(taken)
             text == InLine(taken, next)
             more == Drained(taken, next)
  <1> USE DEF Draining
  <1>1. /\ next \in Nat /\ x \in Try
    BY SwarmProxyAssumption, Records
  <1>2. /\ taken \in SUBSET map /\ taken \in SUBSET Chunk
        /\ \A c \in taken : c.req = r /\ c.att = att
        /\ \A c \in taken : c.seq >= next /\ \A k \in next..c.seq : \E d \in taken : d.seq = k
        /\ \A c \in taken, d \in taken : c.seq = d.seq => c = d
        /\ \A c \in taken : c.done => first = {c} /\ \A d \in taken : d.seq <= c.seq
        /\ first # {} /\ first \subseteq taken => \E c \in taken : c.done
    BY <1>1, TakenFacts
  <1>3. /\ n \in Nat /\ Len(text) = n
        /\ \A i \in 1..n : text[i] \in taken /\ text[i].seq = next + i - 1
        /\ \A c \in taken : c.seq - next + 1 \in 1..n /\ text[c.seq - next + 1] = c
    BY <1>1, <1>2, InLineFacts
  <1>4. \A c \in taken : c \in Chunk /\ c.seq \in Nat /\ Id(c) = x /\ Genuine(c, tasks[x])
    <2>1. \A c \in taken : c \in Chunk /\ c.seq \in Nat
      BY <1>2, SwarmProxyAssumption DEF Chunk, Seqs
    <2>2. \A c \in taken : Id(c) = x
      BY <1>2 DEF Id
    <2>3. \A c \in taken : Genuine(c, tasks[Id(c)])
      BY <1>2
    <2> QED BY <2>1, <2>2, <2>3
  <1>5. more \in Seq(Piece) /\ Len(more) = n /\ \A i \in 1..n : more[i] = [att |-> text[i].att, text |-> text[i].text]
    <2>1. \A c \in taken : [att |-> c.att, text |-> c.text] \in Piece
      BY ONLY <1>4 DEF Piece, Chunk, Attempts
    <2>3. \A i \in 1..n : text[i] \in taken
      BY <1>3
    <2>4. \A i \in 1..n : [att |-> text[i].att, text |-> text[i].text] \in Piece
      <3> HIDE DEF more, text, n, Draining
      <3> QED BY ONLY <2>1, <2>3
    <2>2. more = [i \in 1..n |-> [att |-> text[i].att, text |-> text[i].text]]
      BY <1>3 DEF Drained
    <2> HIDE DEF more, text, n, Draining
    <2> QED BY <1>3, <2>4, <2>2
  <1> HIDE DEF more, text, n
  <1>6. /\ h \in Seq(Piece) /\ Len(h) = next + n
        /\ \A i \in 1..(next + n) : h[i] = IF i <= next THEN g[i] ELSE more[i - next]
    <2>1. h = g \o more
      BY DEF more
    <2> QED BY <1>1, <1>3, <1>5, <2>1, ConcatProperties
  <1>7. DOMAIN h = 1..(next + n) /\ DOMAIN g = 1..next
    BY <1>1, <1>6
  <1>8. ASSUME NEW i \in 1..(next + n), i > next
        PROVE  \E c \in taken : i = c.seq + 1 /\ h[i] = [att |-> att, text |-> c.text]
    <2>1. i - next \in 1..n
      BY <1>1, <1>3, <1>8
    <2>2. text[i - next] \in taken /\ text[i - next].seq = next + (i - next) - 1
      BY <1>3, <2>1
    <2>3. h[i] = more[i - next]
      <3>1. h[i] = IF i <= next THEN g[i] ELSE more[i - next]
        BY <1>6
      <3>2. ~(i <= next)
        BY <1>1, <1>3, <1>8
      <3> QED BY <3>1, <3>2
    <2>4. h[i] = [att |-> text[i - next].att, text |-> text[i - next].text]
      BY <1>5, <2>1, <2>3
    <2>5. text[i - next].att = att /\ i = text[i - next].seq + 1
      BY <1>1, <1>2, <2>2
    <2> QED BY <2>2, <2>4, <2>5
  <1>9. ASSUME NEW i \in DOMAIN h PROVE h[i].att = att /\ Given(h[i], i, Len(h), tasks[x])
    <2>1. CASE i <= next
      <3>1. i \in DOMAIN g /\ h[i] = g[i]
        BY <1>1, <1>3, <1>6, <1>7, <2>1
      <3>2. g[i].att = att /\ g[i].text # 0 /\ Given(g[i], i, Len(g), tasks[x])
        BY <3>1
      <3>3. Given(g[i], i, Len(h), tasks[x])
        BY <3>2 DEF Given
      <3> QED BY <3>1, <3>2, <3>3
    <2>2. CASE i > next
      <3>0. i \in 1..(next + n)
        BY <1>7
      <3>1. PICK c \in taken : i = c.seq + 1 /\ h[i] = [att |-> att, text |-> c.text]
        BY <1>8, <2>2, <3>0
      <3>2. c.done => c.seq + 1 = next + n
        <4> SUFFICES ASSUME c.done, c.seq + 1 # next + n PROVE FALSE
          OBVIOUS
        <4>1. n \in 1..n
          BY <1>1, <1>3, <1>7, <2>2
        <4>2. text[n] \in taken /\ text[n].seq = next + n - 1
          BY <1>3, <4>1
        <4>3. text[n].seq <= c.seq
          BY <1>2, <4>2
        <4>4. c.seq - next + 1 <= n
          BY <1>3
        <4> QED BY <1>1, <1>3, <1>4, <4>2, <4>3, <4>4
      <3>3. h[i] \in Piece /\ Len(h) \in Nat /\ h[i].text = c.text /\ h[i].att = att
        BY <1>6, <3>1
      <3> QED BY <1>1, <1>4, <1>6, <3>1, <3>2, <3>3, GivenByChunk
    <2> QED BY <1>1, <1>3, <1>7, <2>1, <2>2
  <1>10. Len(h) \in 0..(Pieces + 1)
    <2>1. CASE next + n = 0
      BY <1>6, <2>1, SwarmProxyAssumption
    <2>2. CASE next + n # 0
      <3>1. next + n \in DOMAIN h
        BY <1>1, <1>3, <1>7, <2>2
      <3>2. next + n <= tasks[x].seq /\ tasks[x].seq \in 0..(Pieces + 1)
        BY <1>1, <1>9, <3>1 DEF Given, Progress
      <3> QED BY <1>1, <1>3, <1>6, <3>2, SwarmProxyAssumption
    <2> QED BY <2>1, <2>2
  <1>11. ASSUME first = {}, NEW i \in DOMAIN h PROVE h[i].text # 0
    <2>1. CASE i <= next
      BY <1>1, <1>3, <1>6, <1>7, <2>1
    <2>2. CASE i > next
      <3>0. i \in 1..(next + n)
        BY <1>7
      <3>1. PICK c \in taken : i = c.seq + 1 /\ h[i] = [att |-> att, text |-> c.text]
        BY <1>8, <2>2, <3>0
      <3>2. ~c.done
        BY <1>2, <1>11
      <3>3. c.text # 0
        BY <1>4, <3>1, <3>2 DEF Genuine
      <3> QED BY <3>1, <3>3
    <2> QED BY <1>1, <1>3, <1>7, <2>1, <2>2
  <1>12. ASSUME first # {}, first \subseteq taken PROVE h # <<>> /\ h[Len(h)].text = 0
    <2>1. PICK c \in taken : c.done
      BY <1>2, <1>12
    <2>2. c.seq - next + 1 \in 1..n
      BY <1>3
    <2>3. next + n \in 1..(next + n) /\ next + n > next
      BY <1>1, <1>3, <2>2
    <2>4. PICK d \in taken : next + n = d.seq + 1 /\ h[next + n] = [att |-> att, text |-> d.text]
      BY <1>8, <2>3
    <2>5. d.seq <= c.seq
      BY <1>2, <2>1, <2>4
    <2>6. d = c
      <3>1. c.seq \in Nat /\ d.seq \in Nat
        BY <1>4
      <3>2. c.seq = d.seq
        <4>1. next \in Nat /\ n \in Nat
          BY <1>1, <1>3
        <4>2. c.seq - next + 1 <= n /\ next + n = d.seq + 1
          BY <2>2, <2>4
        <4> QED BY <2>5, <3>1, <4>1, <4>2
      <3> QED BY <1>2, <3>2
    <2>7. c.text = 0
      BY <1>4, <2>1 DEF Genuine
    <2> QED BY <1>6, <1>7, <2>3, <2>4, <2>6, <2>7
  <1> QED BY <1>3, <1>6, <1>9, <1>10, <1>11, <1>12 DEF x, text

\* The step itself: the stream goes on where the text ends, or the request ends with it.
LEMMA DrainStep ==
    ASSUME Types, NEW r \in Reqs, NEW att \in Attempts, NEW next \in 0..(Pieces + 1), NEW map \in SUBSET Chunk,
           Distinct(r, map), \A c \in map : Genuine(c, task[Id(c)]), Waiting(r),
           NEW g, g = got[r], Len(g) = next, \A i \in DOMAIN g : g[i].att = att /\ g[i].text # 0,
           \A i \in DOMAIN g : Given(g[i], i, Len(g), task[[req |-> r, att |-> att]]),
           Drain(r, att, next, map)
    PROVE  /\ outcome' \in [Reqs -> {"new", "waiting", "done", "error"}]
           /\ stream' \in [Reqs -> {NoStream} \cup Position] /\ got' \in [Reqs -> Seq(Piece)]
           /\ reorder' \in [Reqs -> SUBSET Chunk] /\ early' \in [Reqs -> SUBSET Chunk]
           /\ \A q \in Reqs : q # r => /\ outcome'[q] = outcome[q] /\ stream'[q] = stream[q] /\ got'[q] = got[q]
                                       /\ reorder'[q] = reorder[q] /\ early'[q] = early[q]
           /\ reorder'[r] \subseteq map /\ early'[r] = {}
           /\ stream'[r] # NoStream => outcome'[r] = "waiting"
           /\ stream'[r] = NoStream => outcome'[r] \in {"done", "error"}
           /\ Answer(r, got'[r], stream'[r], outcome'[r], task)
  <1>1. PICK ready : ready = Ready(map, next)
    OBVIOUS
  <1>2. PICK stops : stops = Stops(ready, att)
    OBVIOUS
  <1>3. PICK first : first = First(stops)
    OBVIOUS
  <1>4. PICK taken : taken = Taken(ready, att, first)
    OBVIOUS
  <1>5. PICK h : h = g \o Drained(taken, next)
    OBVIOUS
  <1>6. PICK n : n = next + Len(InLine(taken, next))
    OBVIOUS
  <1>7. /\ got' = [got EXCEPT ![r] = @ \o Drained(taken, next)]
        /\ IF first # {}
           THEN /\ outcome' = [outcome EXCEPT ![r] = IF first \subseteq taken THEN "done" ELSE "error"]
                /\ stream' = [stream EXCEPT ![r] = NoStream]
                /\ reorder' = [reorder EXCEPT ![r] = {}]
                /\ early' = [early EXCEPT ![r] = {}]
           ELSE /\ stream' = [stream EXCEPT ![r] = [att |-> att, next |-> n]]
                /\ reorder' = [reorder EXCEPT ![r] = map \ taken]
                /\ early' = [early EXCEPT ![r] = {}]
                /\ UNCHANGED outcome
    BY <1>1, <1>2, <1>3, <1>4, <1>6 DEF Drain, Stops, First, Taken, Drained
  <1>8. /\ outcome \in [Reqs -> {"new", "waiting", "done", "error"}] /\ outcome[r] = "waiting"
        /\ stream \in [Reqs -> {NoStream} \cup Position] /\ got \in [Reqs -> Seq(Piece)] /\ g \in Seq(Piece)
        /\ reorder \in [Reqs -> SUBSET Chunk] /\ early \in [Reqs -> SUBSET Chunk] /\ task \in [Try -> Progress]
    BY DEF Types, ConsumerTypes, TaskTypes, Waiting
  <1>9. /\ h \in Seq(Piece) /\ Len(h) = n /\ Len(h) \in 0..(Pieces + 1)
        /\ \A i \in DOMAIN h : h[i].att = att /\ Given(h[i], i, Len(h), task[[req |-> r, att |-> att]])
        /\ first = {} => \A i \in DOMAIN h : h[i].text # 0
        /\ first # {} /\ first \subseteq taken => h # <<>> /\ h[Len(h)].text = 0
    <2>1. PICK tk : tk = task
      OBVIOUS
    <2>2. Draining(r, att, next, map, tk, g, ready, stops, first, taken, h)
      BY <1>1, <1>2, <1>3, <1>4, <1>5, <1>8, <2>1 DEF Draining
    <2>3. /\ h \in Seq(Piece) /\ Len(h) = next + Len(InLine(taken, next)) /\ Len(h) \in 0..(Pieces + 1)
          /\ \A i \in DOMAIN h : h[i].att = att /\ Given(h[i], i, Len(h), tk[[req |-> r, att |-> att]])
          /\ first = {} => \A i \in DOMAIN h : h[i].text # 0
          /\ first # {} /\ first \subseteq taken => h # <<>> /\ h[Len(h)].text = 0
      BY <2>2, DrainContinues
    <2> QED BY <1>6, <2>1, <2>3
  <1>10. got'[r] = h /\ got' \in [Reqs -> Seq(Piece)] /\ \A q \in Reqs : q # r => got'[q] = got[q]
    BY <1>5, <1>7, <1>8, <1>9
  <1>11. \A i \in DOMAIN h : /\ h[i].att = h[1].att /\ h[i].att = att
                            /\ Given(h[i], i, Len(h), task[[req |-> r, att |-> h[i].att]])
    <2>1. \A i \in DOMAIN h : 1 \in DOMAIN h
      BY <1>9
    <2> QED BY <1>9, <2>1
  <1>12. CASE first # {}
    <2>1. /\ outcome'[r] = IF first \subseteq taken THEN "done" ELSE "error"
          /\ stream'[r] = NoStream /\ reorder'[r] = {} /\ early'[r] = {}
          /\ \A q \in Reqs : q # r => /\ outcome'[q] = outcome[q] /\ stream'[q] = stream[q]
                                      /\ reorder'[q] = reorder[q] /\ early'[q] = early[q]
          /\ outcome' \in [Reqs -> {"new", "waiting", "done", "error"}]
          /\ stream' \in [Reqs -> {NoStream} \cup Position]
          /\ reorder' \in [Reqs -> SUBSET Chunk] /\ early' \in [Reqs -> SUBSET Chunk]
      BY <1>7, <1>8, <1>12
    <2>2. Answer(r, h, stream'[r], outcome'[r], task)
      BY <1>9, <1>11, <1>12, <2>1 DEF Answer
    <2> QED BY <1>10, <2>1, <2>2
  <1>13. CASE first = {}
    <2>1. n \in 0..(Pieces + 1) /\ [att |-> att, next |-> n] \in Position
      BY <1>9 DEF Position
    <2>2. /\ outcome' = outcome
          /\ stream'[r] = [att |-> att, next |-> n] /\ reorder'[r] = map \ taken /\ early'[r] = {}
          /\ \A q \in Reqs : q # r => /\ stream'[q] = stream[q]
                                      /\ reorder'[q] = reorder[q] /\ early'[q] = early[q]
          /\ stream' \in [Reqs -> {NoStream} \cup Position]
          /\ reorder' \in [Reqs -> SUBSET Chunk] /\ early' \in [Reqs -> SUBSET Chunk]
      <3>1. /\ stream' = [stream EXCEPT ![r] = [att |-> att, next |-> n]]
            /\ reorder' = [reorder EXCEPT ![r] = map \ taken]
            /\ early' = [early EXCEPT ![r] = {}]
            /\ outcome' = outcome
        BY <1>7, <1>13
      <3>2. map \ taken \in SUBSET Chunk
        OBVIOUS
      <3>3. /\ reorder'[r] = map \ taken /\ reorder' \in [Reqs -> SUBSET Chunk]
            /\ \A q \in Reqs : q # r => reorder'[q] = reorder[q]
        BY <1>8, <3>1, <3>2
      <3>4. early'[r] = {} /\ early' \in [Reqs -> SUBSET Chunk] /\ \A q \in Reqs : q # r => early'[q] = early[q]
        BY <1>8, <3>1
      <3>5. PICK p \in Position : p = [att |-> att, next |-> n]
        BY <2>1
      <3>6. /\ stream'[r] = p /\ stream' \in [Reqs -> {NoStream} \cup Position]
            /\ \A q \in Reqs : q # r => stream'[q] = stream[q]
        BY <1>8, <3>1, <3>5
      <3> QED BY <3>1, <3>3, <3>4, <3>5, <3>6
    <2>3. stream'[r] # NoStream /\ stream'[r].att = att /\ stream'[r].next = n
      BY <2>1, <2>2, Records
    <2>4. Answer(r, h, stream'[r], outcome'[r], task)
      BY <1>8, <1>9, <1>11, <1>13, <2>2, <2>3 DEF Answer
    <2> QED BY <1>8, <1>10, <2>2, <2>3, <2>4
  <1> QED BY <1>12, <1>13

-----------------------------------------------------------------------------
(* Steps of the consumer *)

\* Tries of different requests that wait for nothing yet get another place (moved), or
\* none, because their request ends (lost); every other request stays where it is.
Moving(moved, lost) ==
    /\ UNCHANGED <<mode, up, breaks, pUp, stream, got, mapped, stuck, rrq, revq, parked, serving, cut>>
    /\ cUp' \in BOOLEAN /\ faults' \in 0..mode.faults
    /\ moved \subseteq Try /\ lost \subseteq moved
    /\ \A x \in moved, y \in moved : x.req = y.req => x = y
    /\ \A x \in moved \ lost : Ahead(x)
    /\ \A x \in moved : stream[x.req] = NoStream /\ got[x.req] = <<>>
    /\ queued' \subseteq Try /\ IsFiniteSet(queued') /\ outstanding' \subseteq Try
    /\ queued' \cap outstanding' = {}
    /\ \A y \in queued' \cup outstanding' : y \in moved \ lost \/ (y \in Home /\ y.req \notin ReqsOf(moved))
    /\ \A y \in queued' : y \in queued \/ y \in moved \ lost
    /\ moved \ lost \subseteq queued' \cup outstanding'
    /\ \A y \in Home : y \in queued' \cup outstanding' \/ y.req \in ReqsOf(moved)
    /\ failing' \subseteq failing /\ failing' \subseteq outstanding' /\ failing' \cap moved = {}
    /\ \A w \in wire' : w \in wire \/ (up /\ \E x \in (moved \ lost) \ queued' : w = Message("request", x))
    /\ channels' \subseteq channels
    /\ outcome' \in [Reqs -> {"new", "waiting", "done", "error"}]
    /\ \A r \in Reqs :
         /\ r \in ReqsOf(lost) => outcome'[r] = "error" \/ (outcome'[r] = "done" /\ ~mode.sealed)
         /\ r \in ReqsOf(moved \ lost) => outcome'[r] = "waiting"
         /\ r \notin ReqsOf(moved) => outcome'[r] = outcome[r]
    /\ reorder' \in [Reqs -> SUBSET Chunk] /\ early' \in [Reqs -> SUBSET Chunk]
    /\ \A r \in Reqs : reorder'[r] \subseteq reorder[r] /\ early'[r] \subseteq early[r]

\* Told after a step, request by request.
LEMMA ToldNext ==
    ASSUME mode' = mode, \A r \in Reqs : Answer(r, got'[r], stream'[r], outcome'[r], task')
    PROVE  Told'
  BY DEF Told, Answer, Given

\* A request that was moved keeps one place, and its try is under way at most once.
LEMMA MovingKeeps == ASSUME IInv, NEW moved, NEW lost, Moving(moved, lost) PROVE IInv'
  <1>1. Types'
    <2>1. wire' \subseteq Word \cup Packet
      <3>1. \A x \in moved : Message("request", x) \in Word
        BY Records DEF Moving
      <3> QED BY <3>1 DEF Moving, IInv, Types
    <2> QED BY <2>1 DEF Moving, IInv, Types, LinkTypes, ConsumerTypes, ManagerTypes, TaskTypes, serving
  <1>2. Responses'
    <2>1. \A x \in moved : Message("request", x).kind = "request"
      BY Records DEF Moving
    <2> QED BY <2>1 DEF Moving, IInv, Responses, serving
  <1>3. \A x \in moved : x \in Try /\ x.req \in Reqs
    BY Records DEF Moving
  <1>4. \A r \in ReqsOf(moved) : r \in ReqsOf(lost) \/ r \in ReqsOf(moved \ lost)
    BY DEF ReqsOf
  <1>5. ReqsOf(moved \ lost) \cap ReqsOf(lost) = {} /\ ReqsOf(moved) \subseteq Reqs
    BY <1>3 DEF Moving, ReqsOf
  <1>6. Housed'
    <2>1. \A x \in Home' : Waiting(x.req)' /\ stream'[x.req] = NoStream
      <3> SUFFICES ASSUME NEW x \in Home' PROVE outcome'[x.req] = "waiting" /\ stream[x.req] = NoStream
        BY DEF Waiting, Moving
      <3>1. CASE x \in moved \ lost
        BY <1>3, <3>1 DEF Moving, ReqsOf
      <3>2. CASE x \in Home /\ x.req \notin ReqsOf(moved)
        <4>1. x.req \in Reqs
          BY <3>2, Records DEF Home, IInv, Types, ConsumerTypes
        <4> QED BY <3>2, <4>1 DEF Moving, IInv, Housed, Waiting
      <3> QED BY <3>1, <3>2 DEF Home, Moving
    <2>2. \A x \in Home', y \in Home' : x.req = y.req => x = y
      BY DEF Home, Moving, IInv, Housed, ReqsOf
    <2>3. ASSUME NEW r \in Reqs, stream'[r] # NoStream PROVE Waiting(r)'
      <3>1. r \notin ReqsOf(moved)
        BY <2>3 DEF Moving, ReqsOf
      <3> QED BY <2>3, <3>1 DEF Moving, IInv, Housed, Waiting
    <2>4. ASSUME NEW r \in Reqs, Waiting(r)' PROVE stream'[r] # NoStream \/ \E x \in Home' : x.req = r
      <3>1. CASE r \in ReqsOf(moved)
        <4>1. r \in ReqsOf(moved \ lost)
          BY <1>4, <2>4, <3>1 DEF Moving, Waiting
        <4> QED BY <4>1 DEF Moving, ReqsOf, Home
      <3>2. CASE r \notin ReqsOf(moved)
        <4>1. stream[r] # NoStream \/ \E x \in Home : x.req = r
          BY <2>4, <3>2 DEF Moving, Waiting, IInv, Housed
        <4> QED BY <3>2, <4>1 DEF Moving, Home
      <3> QED BY <3>1, <3>2
    <2> QED BY <2>1, <2>2, <2>3, <2>4 DEF Housed, Moving
  <1>7. Cleared'
    <2>1. ~up' => wire' = {} /\ channels' = {}
      BY DEF Moving, IInv, Cleared
    <2>2. ASSUME NEW x \in failing', NEW w \in wire', Id(w) = x PROVE w.kind = "chunk"
      <3>1. w \in wire
        <4>1. \A y \in moved : Id(Message("request", y)) = y
          BY Records DEF Moving
        <4> QED BY <2>2, <4>1 DEF Moving
      <3> QED BY <2>2, <3>1 DEF Moving, IInv, Cleared
    <2> QED BY <2>1, <2>2 DEF Moving, IInv, Cleared
  <1>8. Unmade'
    <2>1. \A x \in Try, y \in Try : Message("request", x) = Message("request", y) => x = y
      BY Records
    <2>2. ASSUME NEW x \in Try, Ahead(x)'
          PROVE  Ahead(x) /\ (x \in moved => x \in queued')
      <3>1. CASE outcome'[x.req] = "new"
        <4>1. x.req \in Reqs /\ x.req \notin ReqsOf(moved)
          BY <1>4, <3>1, Records DEF Moving
        <4> QED BY <3>1, <4>1 DEF Moving, Ahead, ReqsOf
      <3>2. CASE x \in queued'
        BY <3>2 DEF Moving, Ahead
      <3>3. CASE \E y \in Home' : y.req = x.req /\ y.att < x.att
        <4>1. PICK y \in Home' : y.req = x.req /\ y.att < x.att
          BY <3>3
        <4>2. y \in Try /\ y.att \in Nat /\ x.att \in Nat
          BY <4>1, Records, SwarmProxyAssumption DEF Home, Moving, Attempts
        <4>3. CASE y \in moved \ lost
          <5>1. Ahead(y) /\ x \notin moved
            BY <4>1, <4>2, <4>3 DEF Moving
          <5>2. Ahead(x)
            <6>1. CASE outcome[y.req] = "new"
              BY <4>1, <6>1 DEF Ahead
            <6>2. CASE y \in queued
              BY <4>1, <6>2 DEF Ahead, Home
            <6>3. CASE \E z \in Home : z.req = y.req /\ z.att < y.att
              <7>1. PICK z \in Home : z.req = y.req /\ z.att < y.att
                BY <6>3
              <7>2. z.att \in Nat
                BY <7>1, Records, SwarmProxyAssumption DEF Home, IInv, Types, ConsumerTypes, Attempts
              <7>3. z.req = x.req /\ z.att < x.att
                BY <4>1, <4>2, <7>1, <7>2
              <7> QED BY <7>1, <7>3 DEF Ahead
            <6> QED BY <5>1, <6>1, <6>2, <6>3 DEF Ahead
          <5> QED BY <5>1, <5>2
        <4>4. CASE y \in Home /\ y.req \notin ReqsOf(moved)
          BY <4>1, <4>4 DEF Ahead, ReqsOf
        <4> QED BY <4>1, <4>3, <4>4 DEF Home, Moving
      <3> QED BY <2>2, <3>1, <3>2, <3>3 DEF Ahead
    <2>3. ASSUME NEW x \in Try, Ahead(x)'
          PROVE  task'[x].stage = "none" /\ Message("request", x)' \notin wire'
      <3>1. Ahead(x) /\ (x \in moved => x \in queued')
        BY <2>2, <2>3
      <3>2. task[x].stage = "none" /\ Message("request", x) \notin wire
        BY <3>1 DEF IInv, Unmade
      <3>3. Message("request", x)' = Message("request", x)
        BY DEF Message
      <3>4. Message("request", x) \notin wire'
        BY <2>1, <3>1, <3>2 DEF Moving
      <3> QED BY <3>2, <3>3, <3>4 DEF Moving, serving
    <2>4. ASSUME NEW w \in wire', w.kind = "request" PROVE task'[Id(w)].stage = "none"
      <3>1. CASE w \in wire
        BY <2>4, <3>1 DEF IInv, Unmade, Moving, serving
      <3>2. CASE \E x \in moved \ lost : w = Message("request", x)
        BY <1>3, <3>2, Records DEF IInv, Unmade, Moving, serving
      <3> QED BY <2>4, <3>1, <3>2 DEF Moving
    <2> QED BY <2>3, <2>4 DEF Unmade, Id
  <1>9. Levels' /\ MapsDistinct'
    BY DEF Moving, IInv, Levels, Level, MapsDistinct, Distinct, serving
  <1>10. Sealed'
    <2>1. ASSUME NEW w \in wire', w.kind = "chunk" PROVE w \in wire
      <3>1. \A x \in moved : Message("request", x).kind = "request"
        BY Records DEF Moving
      <3> QED BY <2>1, <3>1 DEF Moving
    <2> QED BY <2>1 DEF Moving, IInv, Sealed, Genuine, serving, Id
  <1>11. Told'
    <2>1. ASSUME NEW r \in Reqs PROVE Answer(r, got'[r], stream'[r], outcome'[r], task')
      <3>1. Answer(r, got[r], stream[r], outcome[r], task) /\ got'[r] = got[r] /\ stream'[r] = stream[r] /\ task' = task
        BY DEF IInv, Told, Moving, serving
      <3>2. CASE r \notin ReqsOf(moved)
        BY <3>1, <3>2 DEF Moving
      <3>3. CASE r \in ReqsOf(moved)
        <4>1. stream[r] = NoStream /\ got[r] = <<>> /\ DOMAIN got[r] = {}
          BY <3>3 DEF Moving, ReqsOf
        <4>2. outcome'[r] = "done" => ~mode.sealed
          BY <1>4, <3>3 DEF Moving
        <4> QED BY <3>1, <4>1, <4>2 DEF Answer
      <3> QED BY <3>2, <3>3
    <2> QED BY <2>1, ToldNext DEF Moving
  <1> QED BY <1>1, <1>2, <1>6, <1>7, <1>8, <1>9, <1>10, <1>11 DEF IInv

\* Requests that nobody answered and that have no stream were given nothing.
LEMMA HomeFacts ==
    ASSUME IInv
    PROVE  /\ \A x \in Home : x \in Try /\ x.req \in Reqs /\ outcome[x.req] = "waiting"
                              /\ stream[x.req] = NoStream /\ got[x.req] = <<>>
           /\ \A r \in Reqs : outcome[r] = "new" =>
                                stream[r] = NoStream /\ got[r] = <<>> /\ \A x \in Home : x.req # r
  <1>1. \A x \in Home : x \in Try /\ x.req \in Reqs /\ outcome[x.req] = "waiting" /\ stream[x.req] = NoStream
    BY Records DEF IInv, Types, ConsumerTypes, Home, Housed, Waiting
  <1>2. \A r \in Reqs : outcome[r] = "new" => stream[r] = NoStream /\ \A x \in Home : x.req # r
    BY <1>1 DEF IInv, Housed, Waiting
  <1>3. \A r \in Reqs : Answer(r, got[r], stream[r], outcome[r], task)
    BY DEF IInv, Told
  <1> QED BY <1>1, <1>2, <1>3 DEF Answer

\* What send_outbound_proxy does for requests without a stream.
Streamless(going, bad) ==
    /\ going \subseteq Try /\ bad \subseteq going /\ IsFiniteSet(bad)
    /\ \A x \in going : stream[x.req] = NoStream

LEMMA SendKeeps ==
    ASSUME Types, NEW going, NEW bad, NEW out, Streamless(going, bad), Send(going, bad, out)
    PROVE  /\ stream' = stream /\ faults' \in 0..mode.faults /\ outstanding' = out \cup (going \ bad)
           /\ reorder' \in [Reqs -> SUBSET Chunk] /\ early' \in [Reqs -> SUBSET Chunk]
           /\ \A r \in Reqs : reorder'[r] \subseteq reorder[r] /\ early'[r] \subseteq early[r]
           /\ \A w \in wire' : w \in wire \/ (up /\ \E x \in going \ bad : w = Message("request", x))
  <1>1. faults' \in 0..mode.faults
    <2>1. Cardinality(bad) \in Nat /\ faults \in Nat /\ mode.faults \in Nat
      BY FS_CardinalityType, SwarmProxyAssumption DEF Streamless, Types, LinkTypes
    <2> QED BY <2>1 DEF Send
  <1>2. \A w \in wire' : w \in wire \/ (up /\ \E x \in going \ bad : w = Message("request", x))
    BY DEF Send
  <1>3. /\ stream' = stream
        /\ reorder' \in [Reqs -> SUBSET Chunk] /\ early' \in [Reqs -> SUBSET Chunk]
        /\ \A r \in Reqs : reorder'[r] \subseteq reorder[r] /\ early'[r] \subseteq early[r]
    <2>1. CASE mode.sealed
      <3>1. \A r \in Reqs : (IF r \in ReqsOf(going) THEN NoStream ELSE stream[r]) = stream[r]
        BY DEF ReqsOf, Streamless
      <3>2. /\ stream' = [r \in Reqs |-> IF r \in ReqsOf(going) THEN NoStream ELSE stream[r]]
            /\ reorder' = [r \in Reqs |-> IF r \in ReqsOf(going) THEN {} ELSE reorder[r]]
            /\ early' = [r \in Reqs |-> IF r \in ReqsOf(going) THEN {} ELSE early[r]]
        BY <2>1 DEF Send
      <3>3. stream' = stream
        BY <3>1, <3>2 DEF Types, ConsumerTypes
      <3> QED BY <3>2, <3>3 DEF Types, ConsumerTypes
    <2>2. CASE ~mode.sealed
      BY <2>2 DEF Send, Types, ConsumerTypes
    <2> QED BY <2>1, <2>2
  <1> QED BY <1>1, <1>2, <1>3 DEF Send

LEMMA ProxyCmdKeeps == ASSUME IInv, NEW r \in Reqs, ProxyCmd(r) PROVE IInv'
  <1>1. PICK x : x = [req |-> r, att |-> 0]
    OBVIOUS
  <1>2. x \in Try /\ x.req = r /\ outcome[r] = "new" /\ Ahead(x)
    BY <1>1, SwarmProxyAssumption DEF Try, ProxyCmd, Ahead
  <1>3. stream[r] = NoStream /\ got[r] = <<>> /\ \A y \in Home : y.req # r
    BY <1>2, HomeFacts
  <1>4. x \notin Home
    BY <1>2, <1>3
  <1>5. /\ UNCHANGED <<mode, up, breaks, cUp, pUp, failing, got, mapped, stuck, rrq, revq, parked, channels, serving, cut>>
    BY DEF ProxyCmd, link, manager
  <1>6. /\ outcome \in [Reqs -> {"new", "waiting", "done", "error"}] /\ queued \subseteq Try /\ IsFiniteSet(queued)
        /\ outstanding \subseteq Try /\ failing \subseteq outstanding /\ queued \cap outstanding = {} /\ cUp \in BOOLEAN
        /\ faults \in 0..mode.faults /\ reorder \in [Reqs -> SUBSET Chunk] /\ early \in [Reqs -> SUBSET Chunk]
    BY DEF IInv, Types, LinkTypes, ConsumerTypes, Housed
  <1>7. CASE cUp
    <2>1. PICK bad \in SUBSET {x} : /\ Send({x}, bad, outstanding)
                                    /\ outcome' = [outcome EXCEPT ![r] = IF bad = {} THEN "waiting" ELSE "error"]
                                    /\ queued' = queued
      BY <1>1, <1>7 DEF ProxyCmd
    <2>2. Types /\ Streamless({x}, bad)
      BY <1>2, <1>3, FS_Singleton, FS_Subset DEF IInv, Streamless
    <2>3. /\ stream' = stream /\ faults' \in 0..mode.faults /\ outstanding' = outstanding \cup ({x} \ bad)
          /\ reorder' \in [Reqs -> SUBSET Chunk] /\ early' \in [Reqs -> SUBSET Chunk]
          /\ \A q \in Reqs : reorder'[q] \subseteq reorder[q] /\ early'[q] \subseteq early[q]
          /\ \A w \in wire' : w \in wire \/ (up /\ \E y \in {x} \ bad : w = Message("request", y))
      BY <2>1, <2>2, SendKeeps
    <2>4. /\ outcome' \in [Reqs -> {"new", "waiting", "done", "error"}]
          /\ \A q \in Reqs : q # r => outcome'[q] = outcome[q]
          /\ outcome'[r] = IF bad = {} THEN "waiting" ELSE "error"
      BY <1>6, <2>1
    <2>5. bad = {} \/ bad = {x}
      BY <2>1
    <2>6. Moving({x}, bad)
      BY <1>2, <1>3, <1>4, <1>5, <1>6, <2>1, <2>3, <2>4, <2>5 DEF Moving, Home, ReqsOf
    <2> QED BY <2>6, MovingKeeps
  <1>8. CASE ~cUp
    <2>1. /\ queued' = queued \cup {x} /\ outcome' = [outcome EXCEPT ![r] = "waiting"]
          /\ UNCHANGED <<faults, stream, reorder, early, outstanding, wire>>
      BY <1>1, <1>8 DEF ProxyCmd
    <2>2. IsFiniteSet(queued')
      BY <1>6, <2>1, FS_AddElement
    <2>3. /\ outcome' \in [Reqs -> {"new", "waiting", "done", "error"}]
          /\ \A q \in Reqs : q # r => outcome'[q] = outcome[q]
          /\ outcome'[r] = "waiting"
      BY <1>6, <2>1
    <2>4. Moving({x}, {})
      BY <1>2, <1>3, <1>4, <1>5, <1>6, <2>1, <2>2, <2>3 DEF Moving, Home, ReqsOf
    <2> QED BY <2>4, MovingKeeps
  <1> QED BY <1>7, <1>8

LEMMA ProxyCmdRefusedKeeps == ASSUME IInv, NEW r \in Reqs, ProxyCmdRefused(r) PROVE IInv'
  <1>1. PICK x \in Try : x.req = r
    <2>1. [req |-> r, att |-> 0] \in Try
      BY SwarmProxyAssumption DEF Try
    <2> QED BY <2>1
  <1>2. stream[r] = NoStream /\ got[r] = <<>> /\ \A y \in Home : y.req # r
    BY HomeFacts DEF ProxyCmdRefused
  <1>3. /\ UNCHANGED <<mode, up, breaks, cUp, pUp, wire, faults, queued, outstanding, failing, stream, reorder,
                       early, got, mapped, stuck, channels, rrq, revq, parked, serving, cut>>
        /\ outcome' = [outcome EXCEPT ![r] = "error"]
    BY DEF ProxyCmdRefused, link, manager
  <1>4. /\ outcome \in [Reqs -> {"new", "waiting", "done", "error"}] /\ queued \subseteq Try /\ IsFiniteSet(queued)
        /\ outstanding \subseteq Try /\ failing \subseteq outstanding /\ queued \cap outstanding = {} /\ cUp \in BOOLEAN
        /\ faults \in 0..mode.faults /\ reorder \in [Reqs -> SUBSET Chunk] /\ early \in [Reqs -> SUBSET Chunk]
    BY DEF IInv, Types, LinkTypes, ConsumerTypes, Housed
  <1>5. /\ outcome' \in [Reqs -> {"new", "waiting", "done", "error"}] /\ outcome'[r] = "error"
        /\ \A q \in Reqs : q # r => outcome'[q] = outcome[q]
    BY <1>3, <1>4
  <1>6. x \notin Home
    BY <1>1, <1>2
  <1>7. Moving({x}, {x})
    BY <1>1, <1>2, <1>3, <1>4, <1>5, <1>6 DEF Moving, Home, ReqsOf
  <1> QED BY <1>7, MovingKeeps

\* The answer a set of requests gets.
LEMMA AnsweredFacts ==
    ASSUME outcome \in [Reqs -> {"new", "waiting", "done", "error"}], NEW S, NEW how \in {"done", "error"},
           outcome' = Answered(S, how)
    PROVE  /\ outcome' \in [Reqs -> {"new", "waiting", "done", "error"}]
           /\ \A r \in Reqs : /\ r \in S /\ outcome[r] = "waiting" => outcome'[r] = how
                              /\ r \notin S => outcome'[r] = outcome[r]
  BY DEF Answered, Waiting

LEMMA ConsumerConnectedKeeps == ASSUME IInv, ConsumerConnected PROVE IInv'
  <1>1. PICK bad \in SUBSET queued : Send(queued, bad, outstanding) /\ outcome' = Answered(ReqsOf(bad), "error")
    BY DEF ConsumerConnected
  <1>2. /\ UNCHANGED <<mode, up, breaks, pUp, failing, got, mapped, stuck, channels, rrq, revq, parked, serving, cut>>
        /\ cUp' = TRUE /\ queued' = {}
    BY DEF ConsumerConnected, manager
  <1>3. /\ outcome \in [Reqs -> {"new", "waiting", "done", "error"}] /\ queued \subseteq Try /\ IsFiniteSet(queued)
        /\ outstanding \subseteq Try /\ failing \subseteq outstanding /\ queued \cap outstanding = {}
        /\ \A x \in Home, y \in Home : x.req = y.req => x = y
    BY DEF IInv, Types, LinkTypes, ConsumerTypes, Housed
  <1>4. \A x \in queued : /\ x \in Home /\ x.req \in Reqs /\ stream[x.req] = NoStream /\ got[x.req] = <<>>
                          /\ outcome[x.req] = "waiting"
    BY HomeFacts DEF Home
  <1>5. /\ stream' = stream /\ faults' \in 0..mode.faults /\ outstanding' = outstanding \cup (queued \ bad)
        /\ reorder' \in [Reqs -> SUBSET Chunk] /\ early' \in [Reqs -> SUBSET Chunk]
        /\ \A q \in Reqs : reorder'[q] \subseteq reorder[q] /\ early'[q] \subseteq early[q]
        /\ \A w \in wire' : w \in wire \/ (up /\ \E y \in queued \ bad : w = Message("request", y))
    <2>1. PICK q : q = queued
      OBVIOUS
    <2>2. PICK o : o = outstanding
      OBVIOUS
    <2>3. Types /\ Streamless(q, bad)
      BY <1>3, <1>4, <2>1, FS_Subset DEF IInv, Streamless
    <2>4. Send(q, bad, o)
      BY <1>1, <2>1, <2>2
    <2>5. /\ stream' = stream /\ faults' \in 0..mode.faults /\ outstanding' = o \cup (q \ bad)
          /\ reorder' \in [Reqs -> SUBSET Chunk] /\ early' \in [Reqs -> SUBSET Chunk]
          /\ \A r \in Reqs : reorder'[r] \subseteq reorder[r] /\ early'[r] \subseteq early[r]
          /\ \A w \in wire' : w \in wire \/ (up /\ \E y \in q \ bad : w = Message("request", y))
      BY <2>3, <2>4, SendKeeps, Zenon
    <2> QED BY <2>1, <2>2, <2>5
  <1>6. /\ outcome' \in [Reqs -> {"new", "waiting", "done", "error"}]
        /\ \A r \in Reqs : /\ r \in ReqsOf(bad) /\ outcome[r] = "waiting" => outcome'[r] = "error"
                           /\ r \notin ReqsOf(bad) => outcome'[r] = outcome[r]
    BY <1>1, <1>3, AnsweredFacts
  <1>7. \A r \in ReqsOf(bad) : outcome[r] = "waiting"
    BY <1>4 DEF ReqsOf
  <1>8. \A r \in ReqsOf(queued \ bad) : r \notin ReqsOf(bad) /\ outcome[r] = "waiting"
    BY <1>3, <1>4 DEF ReqsOf
  <1>9. PICK q : q = queued
    OBVIOUS
  <1>10. \A y \in outstanding : y \in Home /\ y.req \notin ReqsOf(q)
    BY <1>3, <1>9 DEF Home, ReqsOf
  <1>11. \A y \in Home : y \in outstanding' \/ y.req \in ReqsOf(q)
    BY <1>5, <1>9 DEF Home, ReqsOf
  <1>12. \A x \in q : Ahead(x)
    BY <1>9 DEF Ahead
  <1>13. \A r \in Reqs : r \notin ReqsOf(q) => r \notin ReqsOf(bad)
    BY <1>9 DEF ReqsOf
  <1>14. failing' \subseteq outstanding' /\ failing' \cap q = {}
    BY <1>2, <1>3, <1>5, <1>9
  <1>15. IsFiniteSet({})
    BY FS_EmptySet
  <1>16. Moving(q, bad)
    BY <1>2, <1>3, <1>4, <1>5, <1>6, <1>7, <1>8, <1>9, <1>10, <1>11, <1>12, <1>13, <1>14, <1>15 DEF Moving
  <1> QED BY <1>16, MovingKeeps

\* A try that leaves its place because its request ends.
LEMMA EndKeeps ==
    ASSUME IInv, NEW x \in outstanding, x \notin failing', failing' \subseteq failing,
           UNCHANGED <<link, queued, stream, reorder, early, got, mapped, stuck, rrq, revq, parked, serving, cut>>,
           outstanding' = outstanding \ {x}, channels' \subseteq channels, wire' \subseteq wire,
           faults' \in 0..mode.faults,
           NEW how \in {"done", "error"}, how = "done" => ~mode.sealed, outcome' = Answered({x.req}, how)
    PROVE  IInv'
  <1>1. /\ outcome \in [Reqs -> {"new", "waiting", "done", "error"}] /\ queued \subseteq Try /\ IsFiniteSet(queued)
        /\ outstanding \subseteq Try /\ failing \subseteq outstanding /\ queued \cap outstanding = {} /\ cUp \in BOOLEAN
        /\ reorder \in [Reqs -> SUBSET Chunk] /\ early \in [Reqs -> SUBSET Chunk]
        /\ \A z \in Home, y \in Home : z.req = y.req => z = y
    BY DEF IInv, Types, LinkTypes, ConsumerTypes, Housed
  <1>2. /\ x \in Home /\ x \in Try /\ x.req \in Reqs /\ outcome[x.req] = "waiting" /\ stream[x.req] = NoStream
        /\ got[x.req] = <<>> /\ x \notin queued
    BY <1>1, HomeFacts DEF Home
  <1>3. /\ outcome' \in [Reqs -> {"new", "waiting", "done", "error"}] /\ outcome'[x.req] = how
        /\ \A q \in Reqs : q # x.req => outcome'[q] = outcome[q]
    BY <1>1, <1>2 DEF Answered, Waiting
  <1>4. /\ UNCHANGED <<mode, up, breaks, cUp, pUp, queued, stream, reorder, early, got, mapped, stuck, rrq, revq,
                       parked, serving, cut>>
    BY DEF link
  <1>5. ReqsOf({x}) = {x.req} /\ {x} \ {x} = {} /\ ReqsOf({}) = {}
    BY DEF ReqsOf
  <1>6. /\ \A y \in queued' \cup outstanding' : y \in Home /\ y.req \notin {x.req}
        /\ \A y \in Home : y \in queued' \cup outstanding' \/ y.req \in {x.req}
        /\ queued' \cap outstanding' = {} /\ outstanding' \subseteq Try /\ failing' \subseteq outstanding'
    BY <1>1, <1>2, <1>4 DEF Home
  <1>7. Moving({x}, {x})
    BY <1>1, <1>2, <1>3, <1>4, <1>5, <1>6 DEF Moving
  <1> QED BY <1>7, MovingKeeps

LEMMA OutboundTimeoutKeeps == ASSUME IInv, NEW x \in Try, OutboundTimeout(x) PROVE IInv'
  <1>1. faults' \in 0..mode.faults
    BY SwarmProxyAssumption DEF OutboundTimeout, IInv, Types, LinkTypes
  <1> QED BY <1>1, EndKeeps DEF OutboundTimeout

LEMMA OutboundFailureKeeps == ASSUME IInv, NEW x \in Try, OutboundFailure(x) PROVE IInv'
  <1>1. /\ outcome \in [Reqs -> {"new", "waiting", "done", "error"}] /\ queued \subseteq Try /\ IsFiniteSet(queued)
        /\ outstanding \subseteq Try /\ failing \subseteq outstanding /\ queued \cap outstanding = {} /\ cUp \in BOOLEAN
        /\ faults \in 0..mode.faults /\ reorder \in [Reqs -> SUBSET Chunk] /\ early \in [Reqs -> SUBSET Chunk]
        /\ \A z \in Home, y \in Home : z.req = y.req => z = y
    BY DEF IInv, Types, LinkTypes, ConsumerTypes, Housed
  <1>2. /\ x \in Home /\ x.req \in Reqs /\ outcome[x.req] = "waiting" /\ stream[x.req] = NoStream
        /\ got[x.req] = <<>> /\ x \notin queued /\ x \in outstanding
    BY <1>1, HomeFacts DEF Home, OutboundFailure
  <1>3. /\ UNCHANGED <<mode, up, breaks, cUp, pUp, got, mapped, stuck, channels, rrq, revq, parked, serving, cut>>
        /\ failing' = failing \ {x}
    BY DEF OutboundFailure, link, manager
  <1>4. CASE ~MayRetry(x)
    <2>1. /\ outstanding' = outstanding \ {x} /\ outcome' = Answered({x.req}, "error")
          /\ UNCHANGED <<queued, wire, faults, stream, reorder, early, link>>
      BY <1>4 DEF OutboundFailure
    <2> QED BY <1>1, <1>2, <1>3, <2>1, EndKeeps
  <1>5. CASE MayRetry(x)
    <2>1. PICK y : y = [x EXCEPT !.att = @ + 1]
      OBVIOUS
    <2>2. y \in Try /\ y.req = x.req /\ y.att = x.att + 1 /\ [y EXCEPT !.att = @ - 1] = x /\ x.att < y.att
      <3>1. x.att \in 0..MaxAttempts /\ x.att < MaxAttempts /\ x = [req |-> x.req, att |-> x.att]
        BY <1>5 DEF MayRetry, Try
      <3>2. y = [req |-> x.req, att |-> x.att + 1]
        BY <2>1, <3>1
      <3>3. x.att + 1 \in 0..MaxAttempts /\ (x.att + 1) - 1 = x.att
        BY <3>1, SwarmProxyAssumption
      <3>4. [y EXCEPT !.att = @ - 1] = [req |-> x.req, att |-> (x.att + 1) - 1]
        BY <3>2
      <3> QED BY <1>2, <3>1, <3>2, <3>3, <3>4, SwarmProxyAssumption DEF Try
    <2>3. Ahead(y) /\ y # x
      BY <1>2, <2>2, SwarmProxyAssumption DEF Ahead, Try
    <2>4. PICK rest : rest = outstanding \ {x}
      OBVIOUS
    <2>5. y \notin Home /\ \A z \in Home : z # x => z.req # x.req
      BY <1>1, <1>2, <2>2, <2>3
    <2>6. Retry(y)
      BY <1>5, <2>1 DEF OutboundFailure
    <2>7. failing' \subseteq rest /\ y \notin failing /\ rest \subseteq outstanding
      BY <1>1, <1>3, <2>4, <2>5 DEF Home
    <2>8. CASE cUp
      <3>1. PICK bad \in SUBSET {y} : /\ Send({y}, bad, rest) /\ outcome' = Answered(ReqsOf(bad), "error")
                                      /\ queued' = queued
        BY <2>2, <2>4, <2>6, <2>8 DEF Retry
      <3>2. Types /\ Streamless({y}, bad)
        BY <1>2, <2>2, FS_Singleton, FS_Subset DEF IInv, Streamless
      <3>3. /\ stream' = stream /\ faults' \in 0..mode.faults /\ outstanding' = rest \cup ({y} \ bad)
            /\ reorder' \in [Reqs -> SUBSET Chunk] /\ early' \in [Reqs -> SUBSET Chunk]
            /\ \A q \in Reqs : reorder'[q] \subseteq reorder[q] /\ early'[q] \subseteq early[q]
            /\ \A w \in wire' : w \in wire \/ (up /\ \E z \in {y} \ bad : w = Message("request", z))
        BY <3>1, <3>2, SendKeeps
      <3>4. bad = {} \/ bad = {y}
        BY <3>1
      <3>5. /\ outcome' \in [Reqs -> {"new", "waiting", "done", "error"}]
            /\ outcome'[x.req] = IF bad = {} THEN "waiting" ELSE "error"
            /\ \A q \in Reqs : q # x.req => outcome'[q] = outcome[q]
        <4>1. /\ outcome' \in [Reqs -> {"new", "waiting", "done", "error"}]
              /\ \A r \in Reqs : /\ r \in ReqsOf(bad) /\ outcome[r] = "waiting" => outcome'[r] = "error"
                                 /\ r \notin ReqsOf(bad) => outcome'[r] = outcome[r]
          BY <1>1, <3>1, AnsweredFacts
        <4>2. ReqsOf(bad) = IF bad = {} THEN {} ELSE {x.req}
          BY <2>2, <3>4 DEF ReqsOf
        <4> QED BY <1>2, <3>4, <4>1, <4>2
      <3>6. /\ \A z \in queued' \cup outstanding' : z \in {y} \ bad \/ (z \in Home /\ z.req # x.req)
            /\ \A z \in Home : z \in queued' \cup outstanding' \/ z.req = x.req
            /\ queued' \cap outstanding' = {} /\ outstanding' \subseteq Try
        BY <1>1, <1>2, <2>2, <2>4, <2>5, <3>1, <3>3 DEF Home
      <3>7. ReqsOf({y}) = {x.req} /\ ReqsOf(bad) \subseteq {x.req} /\ (bad = {} => ReqsOf(bad) = {})
            /\ (bad # {} => {y} \ bad = {} /\ ReqsOf({y} \ bad) = {})
        BY <2>2, <3>4 DEF ReqsOf
      <3>8. /\ \A r \in Reqs : /\ r \in ReqsOf(bad) => outcome'[r] = "error"
                             /\ r \in ReqsOf({y} \ bad) => outcome'[r] = "waiting"
            /\ {y} \ bad \subseteq queued' \cup outstanding'
            /\ failing' \subseteq outstanding' /\ failing' \subseteq failing /\ failing' \cap {y} = {}
        BY <1>3, <2>7, <3>3, <3>4, <3>5, <3>7
      <3>9. /\ \A z \in {y} : stream[z.req] = NoStream /\ got[z.req] = <<>> /\ z \in Try /\ Ahead(z)
            /\ \A w \in wire' : w \in wire \/ (up /\ \E z \in ({y} \ bad) \ queued' : w = Message("request", z))
        BY <1>2, <2>2, <2>3, <2>5, <3>1, <3>3 DEF Home
      <3>10. Moving({y}, bad)
        BY <1>1, <1>3, <3>1, <3>3, <3>5, <3>6, <3>7, <3>8, <3>9 DEF Moving
      <3> QED BY <3>10, MovingKeeps
    <2>9. CASE ~cUp
      <3>1. /\ queued' = queued \cup {y} /\ outstanding' = rest
            /\ UNCHANGED <<wire, faults, outcome, stream, reorder, early>>
        BY <2>2, <2>4, <2>6, <2>9 DEF Retry
      <3>2. IsFiniteSet(queued')
        BY <1>1, <3>1, FS_AddElement
      <3>3. ReqsOf({y}) = {x.req} /\ ReqsOf({}) = {} /\ {y} \ {} = {y}
        BY <2>2 DEF ReqsOf
      <3>4. /\ \A z \in queued' \cup outstanding' : z \in {y} \/ (z \in Home /\ z.req # x.req)
            /\ \A z \in Home : z \in queued' \cup outstanding' \/ z.req = x.req
            /\ queued' \cap outstanding' = {} /\ outstanding' \subseteq Try
        BY <1>1, <1>2, <2>2, <2>4, <2>5, <3>1 DEF Home
      <3>5. Moving({y}, {})
        BY <1>1, <1>2, <1>3, <2>2, <2>3, <2>7, <3>1, <3>2, <3>3, <3>4 DEF Moving
      <3> QED BY <3>5, MovingKeeps
    <2> QED BY <2>8, <2>9
  <1> QED BY <1>4, <1>5

\* The manager takes something for request r from the wire.
Receiving(r) ==
    /\ r \in Reqs
    /\ UNCHANGED <<mode, up, breaks, cUp, pUp, faults, queued, failing, mapped, stuck, channels, rrq, revq,
                   parked, serving, cut>>
    /\ wire' \subseteq wire /\ outstanding' \subseteq outstanding /\ failing \subseteq outstanding'
    /\ outcome' \in [Reqs -> {"new", "waiting", "done", "error"}]
    /\ stream' \in [Reqs -> {NoStream} \cup Position] /\ got' \in [Reqs -> Seq(Piece)]
    /\ reorder' \in [Reqs -> SUBSET Chunk] /\ early' \in [Reqs -> SUBSET Chunk]
    /\ \A q \in Reqs : q # r => /\ outcome'[q] = outcome[q] /\ stream'[q] = stream[q] /\ got'[q] = got[q]
                                /\ reorder'[q] = reorder[q] /\ early'[q] = early[q]
    /\ outcome'[r] = "new" => outcome[r] = "new"
    /\ Distinct(r, reorder'[r]) /\ Distinct(r, early'[r])
    /\ \A c \in reorder'[r] \cup early'[r] : Genuine(c, task[Id(c)])
    /\ Answer(r, got'[r], stream'[r], outcome'[r], task)

LEMMA ReceivingKeeps == ASSUME IInv, NEW r, Receiving(r), Housed' PROVE IInv'
  <1>1. Types'
    BY DEF Receiving, IInv, Types, LinkTypes, ConsumerTypes, ManagerTypes, TaskTypes, serving
  <1>2. Responses'
    BY DEF Receiving, IInv, Responses, serving
  <1>3. Cleared'
    BY DEF Receiving, IInv, Cleared
  <1>4. Unmade'
    <2>1. ASSUME NEW x \in Try, Ahead(x)' PROVE Ahead(x)
      <3>1. x.req \in Reqs
        BY Records
      <3> QED BY <2>1, <3>1 DEF Ahead, Home, Receiving
    <2>2. \A x \in Try : Message("request", x)' = Message("request", x)
      BY DEF Message
    <2> QED BY <2>1, <2>2 DEF Receiving, IInv, Unmade, serving, Id
  <1>5. Levels'
    BY DEF Receiving, IInv, Levels, Level, serving
  <1>6. MapsDistinct'
    <2>1. \A q \in Reqs : Distinct(q, reorder'[q]) /\ Distinct(q, early'[q])
      BY DEF Receiving, IInv, MapsDistinct
    <2> QED BY <2>1 DEF MapsDistinct, Distinct
  <1>7. Sealed'
    <2>1. \A q \in Reqs : \A c \in reorder'[q] \cup early'[q] : Genuine(c, task[Id(c)])
      BY DEF Receiving, IInv, Sealed
    <2>2. \A w \in wire' : w.kind = "chunk" => Genuine(w, task[Id(w)])
      BY DEF Receiving, IInv, Sealed
    <2>3. /\ task' = task /\ revq' = revq /\ parked' = parked
      BY DEF Receiving, serving
    <2> QED BY <2>1, <2>2, <2>3 DEF IInv, Sealed, Genuine, Id
  <1>8. Told'
    <2>1. ASSUME NEW q \in Reqs PROVE Answer(q, got'[q], stream'[q], outcome'[q], task')
      <3>1. task' = task /\ Answer(q, got[q], stream[q], outcome[q], task)
        BY DEF Receiving, serving, IInv, Told
      <3> QED BY <3>1 DEF Receiving
    <2> QED BY <2>1, ToldNext DEF Receiving
  <1> QED BY <1>1, <1>2, <1>3, <1>4, <1>5, <1>6, <1>7, <1>8 DEF IInv

\* The stream of request r is at "next" and the map is drained.
Drains(r, att, next, map) ==
    /\ r \in Reqs /\ att \in Attempts /\ next \in 0..(Pieces + 1) /\ map \in SUBSET Chunk /\ Distinct(r, map)
    /\ \A c \in map : Genuine(c, task[Id(c)])
    /\ Waiting(r) /\ Len(got[r]) = next /\ \A i \in DOMAIN got[r] : got[r][i].att = att /\ got[r][i].text # 0
    /\ Drain(r, att, next, map)
    /\ UNCHANGED <<link, faults, queued, failing, manager, serving, cut>>
    /\ wire' \subseteq wire /\ outstanding' \subseteq outstanding /\ failing \subseteq outstanding'
    /\ \A y \in queued \cup outstanding' : y.req # r
    /\ \A y \in outstanding : y \in outstanding' \/ y.req = r

\* Drained, a request has a stream or an answer, as its caller was told.
LEMMA DrainKeeps ==
    ASSUME IInv, NEW r, NEW att, NEW next, NEW map, Drains(r, att, next, map)
    PROVE  IInv'
  <1>1. PICK g : g = got[r]
    OBVIOUS
  <1>2. /\ Types /\ r \in Reqs /\ att \in Attempts /\ next \in 0..(Pieces + 1) /\ map \in SUBSET Chunk
        /\ Distinct(r, map) /\ \A c \in map : Genuine(c, task[Id(c)])
        /\ Waiting(r) /\ Len(g) = next /\ \A i \in DOMAIN g : g[i].att = att /\ g[i].text # 0
        /\ Drain(r, att, next, map)
    BY <1>1 DEF Drains, IInv
  <1>3. \A i \in DOMAIN g : Given(g[i], i, Len(g), task[[req |-> r, att |-> att]])
    <2>1. Answer(r, g, stream[r], outcome[r], task)
      BY <1>1, <1>2 DEF IInv, Told
    <2> QED BY <1>2, <2>1 DEF Answer
  <1>4. /\ outcome' \in [Reqs -> {"new", "waiting", "done", "error"}]
        /\ stream' \in [Reqs -> {NoStream} \cup Position] /\ got' \in [Reqs -> Seq(Piece)]
        /\ reorder' \in [Reqs -> SUBSET Chunk] /\ early' \in [Reqs -> SUBSET Chunk]
        /\ \A q \in Reqs : q # r => /\ outcome'[q] = outcome[q] /\ stream'[q] = stream[q] /\ got'[q] = got[q]
                                    /\ reorder'[q] = reorder[q] /\ early'[q] = early[q]
        /\ reorder'[r] \subseteq map /\ early'[r] = {}
        /\ stream'[r] # NoStream => outcome'[r] = "waiting"
        /\ stream'[r] = NoStream => outcome'[r] \in {"done", "error"}
        /\ Answer(r, got'[r], stream'[r], outcome'[r], task)
    BY <1>1, <1>2, <1>3, DrainStep
  <1>5. Receiving(r)
    <2>1. outcome'[r] # "new"
      BY <1>4
    <2>2. Distinct(r, reorder'[r]) /\ Distinct(r, early'[r])
      BY <1>2, <1>4 DEF Distinct
    <2>3. \A c \in reorder'[r] \cup early'[r] : Genuine(c, task[Id(c)])
      BY <1>2, <1>4
    <2>4. /\ UNCHANGED <<mode, up, breaks, cUp, pUp, faults, queued, failing, mapped, stuck, channels, rrq, revq,
                         parked, serving, cut>>
          /\ wire' \subseteq wire /\ outstanding' \subseteq outstanding /\ failing \subseteq outstanding'
      BY DEF Drains, link, manager
    <2> QED BY <1>2, <1>4, <2>1, <2>2, <2>3, <2>4 DEF Receiving
  <1>6. Housed'
    <2>1. /\ \A y \in Home' : y \in Home /\ y.req # r
          /\ \A y \in Home : y \in Home' \/ y.req = r
          /\ queued' \cap outstanding' = {}
      BY DEF Drains, Home, IInv, Housed
    <2>2. \A y \in Home : y.req \in Reqs
      BY HomeFacts
    <2>3. \A y \in Home' : Waiting(y.req)' /\ stream'[y.req] = NoStream
      BY <1>4, <2>1, <2>2 DEF IInv, Housed, Waiting
    <2>4. \A q \in Reqs : stream'[q] # NoStream => Waiting(q)'
      BY <1>4 DEF IInv, Housed, Waiting
    <2>5. \A q \in Reqs : Waiting(q)' => stream'[q] # NoStream \/ \E y \in Home' : y.req = q
      BY <1>4, <2>1 DEF IInv, Housed, Waiting
    <2>6. \A x \in Home', y \in Home' : x.req = y.req => x = y
      BY <2>1 DEF IInv, Housed
    <2> QED BY <2>1, <2>3, <2>4, <2>5, <2>6 DEF Housed
  <1> QED BY <1>5, <1>6, ReceivingKeeps

LEMMA HandleResponseKeeps == ASSUME IInv, NEW w \in wire, HandleResponse(w) PROVE IInv'
  <1>1. PICK x : x = Id(w)
    OBVIOUS
  <1>2. /\ cUp /\ w.kind \in Answers /\ x \in outstanding /\ wire' = wire \ {w} /\ outstanding' = outstanding \ {x}
        /\ UNCHANGED <<link, faults, queued, failing, manager, serving, cut>>
        /\ IF w.kind = "stream" THEN Acknowledged(x)
           ELSE /\ outcome' = Answered({x.req}, IF w.kind = "body" THEN "done" ELSE "error")
                /\ UNCHANGED <<stream, reorder, early, got>>
    BY <1>1 DEF HandleResponse, Id
  <1>3. x \notin failing
    <2>1. \A k \in Answers : k # "chunk"
      BY DEF Answers
    <2> QED BY <1>1, <1>2, <2>1 DEF IInv, Cleared
  <1>4. CASE w.kind # "stream"
    <2>1. PICK how \in {"done", "error"} : how = (IF w.kind = "body" THEN "done" ELSE "error")
      OBVIOUS
    <2>2. how = "done" => ~mode.sealed
      BY <2>1 DEF IInv, Responses
    <2>3. outcome' = Answered({x.req}, how)
      BY <1>2, <1>4, <2>1
    <2>4. /\ UNCHANGED <<link, queued, stream, reorder, early, got, mapped, stuck, rrq, revq, parked, serving, cut>>
          /\ channels' \subseteq channels /\ wire' \subseteq wire
          /\ failing' \subseteq failing /\ x \notin failing'
      BY <1>2, <1>3, <1>4 DEF manager
    <2>5. faults' \in 0..mode.faults
      BY <1>2 DEF IInv, Types, LinkTypes
    <2> QED BY <1>2, <2>2, <2>3, <2>4, <2>5, EndKeeps
  <1>5. CASE w.kind = "stream"
    <2>1. x \in Home
      BY <1>2 DEF Home
    <2>2. /\ x \in Try /\ x.req \in Reqs /\ outcome[x.req] = "waiting"
          /\ stream[x.req] = NoStream /\ got[x.req] = <<>>
      BY <2>1, HomeFacts
    <2>3. PICK map : map = early[x.req]
      OBVIOUS
    <2>4. Drain(x.req, x.att, 0, map)
      BY <1>2, <1>5, <2>2, <2>3 DEF Acknowledged, Waiting
    <2>5. /\ map \in SUBSET Chunk /\ Distinct(x.req, map) /\ \A c \in map : Genuine(c, task[Id(c)])
      BY <2>2, <2>3 DEF IInv, Types, ConsumerTypes, MapsDistinct, Sealed
    <2>6. /\ x.att \in Attempts /\ 0 \in 0..(Pieces + 1) /\ Len(got[x.req]) = 0 /\ DOMAIN got[x.req] = {}
      BY <2>2, Records, SwarmProxyAssumption
    <2>7. /\ \A y \in Home, z \in Home : y.req = z.req => y = z
          /\ queued \cap outstanding = {} /\ failing \subseteq outstanding
      BY DEF IInv, Housed, Types, ConsumerTypes
    <2>8. /\ \A y \in queued \cup outstanding' : y.req # x.req
          /\ \A y \in outstanding : y \in outstanding' \/ y.req = x.req
          /\ failing \subseteq outstanding' /\ outstanding' \subseteq outstanding /\ wire' \subseteq wire
      BY <1>2, <1>3, <2>1, <2>7 DEF Home
    <2>9. Drains(x.req, x.att, 0, map)
      BY <1>2, <2>2, <2>4, <2>5, <2>6, <2>8 DEF Drains, Waiting
    <2> QED BY <2>9, DrainKeeps
  <1> QED BY <1>4, <1>5

\* A chunk that is put into a map.
LEMMA IntoFacts ==
    ASSUME NEW r, NEW map, Distinct(r, map), NEW c, c.req = r
    PROVE  Distinct(r, Into(map, {c})) /\ \A d \in Into(map, {c}) : d \in map \/ d = c
  BY DEF Distinct, Into

LEMMA HandleChunkKeeps == ASSUME IInv, NEW w \in wire, HandleChunk(w) PROVE IInv'
  <1>1. PICK r : r = w.req
    OBVIOUS
  <1>2. PICK c : c = ChunkOf(w)
    OBVIOUS
  <1>3. /\ w.kind = "chunk" /\ wire' = wire \ {w}
        /\ UNCHANGED <<link, faults, queued, outstanding, failing, manager, serving, cut>>
        /\ IF ~Waiting(r) THEN UNCHANGED <<outcome, stream, reorder, early, got>>
           ELSE IF stream[r] # NoStream
           THEN Drain(r, stream[r].att, stream[r].next, Into(reorder[r], {c}))
           ELSE /\ early' = [early EXCEPT ![r] = Into(@, {c})]
                /\ UNCHANGED <<outcome, stream, reorder, got>>
    BY <1>1, <1>2 DEF HandleChunk
  <1>4. w \in Packet /\ r \in Reqs /\ c \in Chunk /\ c.req = r /\ Id(c) = Id(w)
    <2>1. w \in Packet
      BY <1>3, Records DEF IInv, Types
    <2> QED BY <1>1, <1>2, <2>1, Records DEF Packet, ChunkOf
  <1>5. Genuine(c, task[Id(c)])
    <2>1. Genuine(w, task[Id(w)])
      BY <1>3 DEF IInv, Sealed
    <2>2. c.seq = w.seq /\ c.text = w.text /\ c.done = w.done
      BY <1>2 DEF ChunkOf
    <2> QED BY <1>4, <2>1, <2>2 DEF Genuine
  <1>6. /\ Distinct(r, reorder[r]) /\ Distinct(r, early[r]) /\ Answer(r, got[r], stream[r], outcome[r], task)
        /\ \A d \in reorder[r] \cup early[r] : Genuine(d, task[Id(d)])
        /\ reorder[r] \in SUBSET Chunk /\ early[r] \in SUBSET Chunk
        /\ outcome \in [Reqs -> {"new", "waiting", "done", "error"}]
        /\ stream \in [Reqs -> {NoStream} \cup Position] /\ got \in [Reqs -> Seq(Piece)]
        /\ reorder \in [Reqs -> SUBSET Chunk] /\ early \in [Reqs -> SUBSET Chunk]
        /\ failing \subseteq outstanding
    BY <1>4 DEF IInv, MapsDistinct, Told, Sealed, Types, ConsumerTypes
  <1>7. /\ UNCHANGED <<mode, up, breaks, cUp, pUp, faults, queued, failing, mapped, stuck, channels, rrq, revq,
                       parked, serving, cut, outstanding>>
        /\ wire' \subseteq wire
    BY <1>3 DEF link, manager
  <1>8. CASE ~Waiting(r)
    <2>1. UNCHANGED <<outcome, stream, reorder, early, got>>
      BY <1>3, <1>8
    <2>2. Receiving(r)
      BY <1>4, <1>6, <1>7, <2>1 DEF Receiving
    <2>3. Housed'
      BY <1>7, <2>1 DEF IInv, Housed, Home, Waiting
    <2> QED BY <2>2, <2>3, ReceivingKeeps
  <1>9. CASE Waiting(r) /\ stream[r] = NoStream
    <2>1. early' = [early EXCEPT ![r] = Into(@, {c})] /\ UNCHANGED <<outcome, stream, reorder, got>>
      BY <1>3, <1>9
    <2>2. PICK m : m = Into(early[r], {c})
      OBVIOUS
    <2>3. Distinct(r, m) /\ \A d \in m : d \in early[r] \/ d = c
      BY <1>4, <1>6, <2>2, IntoFacts
    <2>4. m \in SUBSET Chunk /\ \A d \in m : Genuine(d, task[Id(d)])
      BY <1>4, <1>5, <1>6, <2>3
    <2>5. early'[r] = m /\ early' \in [Reqs -> SUBSET Chunk] /\ \A q \in Reqs : q # r => early'[q] = early[q]
      BY <1>4, <1>6, <2>1, <2>2, <2>4
    <2>6. \A d \in reorder'[r] \cup early'[r] : Genuine(d, task[Id(d)])
      BY <1>6, <2>1, <2>4, <2>5
    <2>7. Receiving(r)
      BY <1>4, <1>6, <1>7, <2>1, <2>3, <2>5, <2>6 DEF Receiving
    <2>8. Housed'
      BY <1>7, <2>1 DEF IInv, Housed, Home, Waiting
    <2> QED BY <2>7, <2>8, ReceivingKeeps
  <1>10. CASE Waiting(r) /\ stream[r] # NoStream
    <2>1. PICK att, next : att = stream[r].att /\ next = stream[r].next
      OBVIOUS
    <2>2. PICK m : m = Into(reorder[r], {c})
      OBVIOUS
    <2>3. Distinct(r, m) /\ \A d \in m : d \in reorder[r] \/ d = c
      BY <1>4, <1>6, <2>2, IntoFacts
    <2>4. m \in SUBSET Chunk /\ \A d \in m : Genuine(d, task[Id(d)])
      BY <1>4, <1>5, <1>6, <2>3
    <2>5. Drain(r, att, next, m)
      BY <1>3, <1>10, <2>1, <2>2
    <2>6. att \in Attempts /\ next \in 0..(Pieces + 1)
      <3>1. stream[r] \in Position
        BY <1>4, <1>6, <1>10
      <3> QED BY <2>1, <3>1 DEF Position
    <2>7. Len(got[r]) = next /\ \A i \in DOMAIN got[r] : got[r][i].att = att /\ got[r][i].text # 0
      BY <1>6, <1>10, <2>1 DEF Answer
    <2>8. \A y \in Home : y.req # r
      BY <1>10 DEF IInv, Housed
    <2>9. /\ \A y \in queued \cup outstanding' : y.req # r
          /\ \A y \in outstanding : y \in outstanding' \/ y.req = r
          /\ failing \subseteq outstanding' /\ outstanding' \subseteq outstanding
      BY <1>6, <1>7, <2>8 DEF Home
    <2>10. Drains(r, att, next, m)
      BY <1>3, <1>4, <1>7, <1>10, <2>3, <2>4, <2>5, <2>6, <2>7, <2>9 DEF Drains
    <2> QED BY <2>10, DrainKeeps
  <1> QED BY <1>8, <1>9, <1>10

-----------------------------------------------------------------------------
(* Steps of the connection and of the provider *)

\* The chunks that wait at the provider.
Waits == {revq[i] : i \in DOMAIN revq} \cup {parked[i] : i \in DOMAIN parked}

\* The consumer's maps stay; tasks go on, and one is begun only for a request that was
\* under way; chunks come from the task that seals them, or move on to the wire.
Serves ==
    /\ UNCHANGED <<mode, outcome, queued, outstanding, stream, reorder, early, got>>
    /\ \A x \in Try : Grown(task[x], task'[x])
    /\ \A x \in Try : task[x].stage = "none" /\ task'[x].stage # "none" =>
                        Message("request", x) \in wire /\ Message("request", x) \notin wire'
    /\ \A w \in wire' : w \in wire \/ w.kind \in Answers \/ \E c \in Waits : w = OnWire(c)
    /\ \A i \in DOMAIN revq' : revq'[i] \in Waits \/ Genuine(revq'[i], task'[Id(revq'[i])])
    /\ \A i \in DOMAIN parked' : parked'[i] \in Waits

LEMMA ServesKeeps == ASSUME IInv, Serves, Types', Responses', Cleared', Levels' PROVE IInv'
  <1>1. /\ task \in [Try -> Progress] /\ task' \in [Try -> Progress] /\ got \in [Reqs -> Seq(Piece)]
        /\ reorder \in [Reqs -> SUBSET Chunk] /\ early \in [Reqs -> SUBSET Chunk]
        /\ wire \subseteq Word \cup Packet /\ wire' \subseteq Word \cup Packet
        /\ revq \in Seq(Chunk) /\ parked \in Seq(Chunk)
    BY DEF IInv, Types, ConsumerTypes, ManagerTypes, TaskTypes
  <1>2. \A k \in Answers : k # "chunk" /\ k # "request"
    BY DEF Answers
  <1>3. \A c : OnWire(c).kind = "chunk"
    BY DEF OnWire
  <1>4. ASSUME NEW c \in Chunk \cup Packet, Genuine(c, task[Id(c)])
        PROVE  Genuine(c, task'[Id(c)])
    <2>1. Id(c) \in Try
      BY Records
    <2>2. /\ task[Id(c)] \in Progress /\ task'[Id(c)] \in Progress /\ Grown(task[Id(c)], task'[Id(c)])
      BY <1>1, <2>1 DEF Serves
    <2>3. PICK t, u : t = task[Id(c)] /\ u = task'[Id(c)]
      OBVIOUS
    <2> QED BY <1>4, <2>2, <2>3, GenuineGrows
  <1>5. Waits \subseteq Chunk /\ \A c \in Waits : Genuine(c, task'[Id(c)])
    <2>1. Waits \subseteq Chunk /\ \A c \in Waits : Genuine(c, task[Id(c)])
      BY <1>1 DEF Waits, IInv, Sealed
    <2> QED BY <1>4, <2>1
  <1>6. Housed'
    BY DEF Serves, IInv, Housed, Home, Waiting
  <1>7. Unmade'
    <2>1. \A x : Message("request", x)' = Message("request", x)
      BY DEF Message
    <2>2. ASSUME NEW x \in Try, Ahead(x)' PROVE task'[x].stage = "none" /\ Message("request", x) \notin wire'
      <3>1. Ahead(x)
        BY <2>2 DEF Ahead, Home, Serves
      <3>2. task[x].stage = "none" /\ Message("request", x) \notin wire
        BY <3>1 DEF IInv, Unmade
      <3>3. Message("request", x).kind = "request"
        BY DEF Message
      <3> QED BY <1>2, <1>3, <3>2, <3>3 DEF Serves
    <2>3. ASSUME NEW w \in wire', w.kind = "request" PROVE task'[Id(w)].stage = "none"
      <3>1. w \in wire
        BY <1>2, <1>3, <2>3 DEF Serves
      <3>2. task[Id(w)].stage = "none" /\ Id(w) \in Try
        BY <1>1, <2>3, <3>1, Records DEF IInv, Unmade
      <3>3. w = Message("request", Id(w))
        <4>1. w \in Word
          BY <1>1, <2>3, <3>1, Records
        <4> QED BY <2>3, <4>1, Records
      <3> QED BY <3>2, <3>3 DEF Serves
    <2> QED BY <2>1, <2>2, <2>3 DEF Unmade, Id
  <1>8. Sealed'
    <2>1. \A i \in DOMAIN revq' : Genuine(revq'[i], task'[Id(revq'[i])])
      BY <1>5 DEF Serves
    <2>2. \A i \in DOMAIN parked' : Genuine(parked'[i], task'[Id(parked'[i])])
      BY <1>5 DEF Serves
    <2>3. ASSUME NEW w \in wire', w.kind = "chunk" PROVE Genuine(w, task'[Id(w)])
      <3>1. CASE w \in wire
        <4>1. Genuine(w, task[Id(w)]) /\ w \in Packet
          BY <1>1, <2>3, <3>1, Records DEF IInv, Sealed
        <4> QED BY <1>4, <4>1
      <3>2. CASE \E c \in Waits : w = OnWire(c)
        <4>1. PICK c \in Waits : w = OnWire(c)
          BY <3>2
        <4>2. Genuine(c, task'[Id(c)]) /\ Id(w) = Id(c)
          BY <1>5, <4>1, Records
        <4>3. w.seq = c.seq /\ w.text = c.text /\ w.done = c.done
          BY <4>1 DEF OnWire
        <4> QED BY <4>2, <4>3 DEF Genuine
      <3> QED BY <1>2, <2>3, <3>1, <3>2 DEF Serves
    <2>4. ASSUME NEW r \in Reqs, NEW c \in reorder'[r] \cup early'[r] PROVE Genuine(c, task'[Id(c)])
      <3>1. c \in Chunk /\ Genuine(c, task[Id(c)])
        BY <1>1 DEF Serves, IInv, Sealed
      <3> QED BY <1>4, <3>1
    <2> QED BY <2>1, <2>2, <2>3, <2>4 DEF Sealed, Genuine, Id
  <1>9. MapsDistinct'
    BY DEF Serves, IInv, MapsDistinct, Distinct
  <1>10. Told'
    <2>1. ASSUME NEW r \in Reqs PROVE Answer(r, got'[r], stream'[r], outcome'[r], task')
      <3>1. Answer(r, got[r], stream[r], outcome[r], task)
        BY DEF IInv, Told
      <3>2. PICK g, t, u : g = got[r] /\ t = task /\ u = task'
        OBVIOUS
      <3>3. g \in Seq(Piece) /\ t \in [Try -> Progress] /\ u \in [Try -> Progress] /\ \A x \in Try : Grown(t[x], u[x])
        BY <1>1, <3>2 DEF Serves
      <3>4. Answer(r, g, stream[r], outcome[r], u)
        BY <3>1, <3>2, <3>3, AnswerGrows
      <3> QED BY <3>2, <3>4 DEF Serves
    <2> QED BY <2>1, ToldNext DEF Serves
  <1> QED BY <1>6, <1>7, <1>8, <1>9, <1>10 DEF IInv

\* Nothing is served in this step.
LEMMA ServingSame ==
    ASSUME IInv, UNCHANGED serving
    PROVE  /\ \A x \in Try : Grown(task[x], task'[x]) /\ task'[x] = task[x]
           /\ Levels' /\ TaskTypes'
           /\ mode' = mode => \A x \in Try : mode'.sealed => task'[x].stage # "plain"
  <1>1. ASSUME NEW x \in Try PROVE Grown(task[x], task'[x]) /\ task'[x] = task[x]
    <2>1. task[x].seq \in Nat /\ task[x].read \in Nat /\ task' = task
      BY SwarmProxyAssumption DEF IInv, Types, TaskTypes, Progress, serving
    <2> QED BY <2>1 DEF Grown
  <1>2. Levels' /\ TaskTypes'
    BY DEF IInv, Types, TaskTypes, Levels, Level, serving
  <1> QED BY <1>1, <1>2 DEF IInv, Responses, serving

LEMMA LinkKeeps == ASSUME IInv, ConsumerClosed \/ Break \/ Redial PROVE IInv'
  <1>1. /\ UNCHANGED <<mode, outcome, queued, outstanding, stream, reorder, early, got, mapped, stuck, rrq, revq, parked>>
        /\ UNCHANGED serving /\ UNCHANGED faults
        /\ up' \in BOOLEAN /\ cUp' \in BOOLEAN /\ pUp' = pUp /\ breaks' \in 0..mode.breaks /\ cut' \subseteq Reqs
        /\ wire' \subseteq wire /\ channels' \subseteq channels /\ failing' \subseteq outstanding
        /\ ~up' => wire' = {} /\ channels' = {}
        /\ failing' = failing \/ (wire' = {} /\ channels' = {})
    <2>1. /\ up \in BOOLEAN /\ cUp \in BOOLEAN /\ breaks \in 0..mode.breaks /\ mode.breaks \in Nat /\ cut \subseteq Reqs
          /\ failing \subseteq outstanding
      BY SwarmProxyAssumption DEF IInv, Types, LinkTypes, ConsumerTypes
    <2>2. CASE ConsumerClosed
      BY <2>1, <2>2 DEF ConsumerClosed, manager, IInv, Cleared
    <2>3. CASE Break
      <3>1. breaks' \in 0..mode.breaks
        BY <2>1, <2>3 DEF Break
      <3>2. cut' \subseteq Reqs
        BY <2>1, <2>3 DEF Break
      <3> QED BY <2>1, <2>3, <3>1, <3>2 DEF Break, consumer
    <2>4. CASE Redial
      BY <2>1, <2>4 DEF Redial, consumer, manager, IInv, Cleared
    <2> QED BY <2>2, <2>3, <2>4
  <1>2. Types'
    BY <1>1, ServingSame DEF IInv, Types, LinkTypes, ConsumerTypes, ManagerTypes
  <1>3. Responses'
    BY <1>1, ServingSame DEF IInv, Responses
  <1>4. Cleared'
    BY <1>1 DEF IInv, Cleared
  <1>5. Serves
    BY <1>1, ServingSame DEF Serves, Waits
  <1> QED BY <1>1, <1>2, <1>3, <1>4, <1>5, ServingSame, ServesKeeps

LEMMA ProviderLinkKeeps == ASSUME IInv, ProviderConnected \/ ProviderClosed \/ ProviderDials PROVE IInv'
  <1>1. /\ UNCHANGED <<mode, breaks, cUp, up, faults, consumer, stuck, channels, rrq, revq, serving, cut>>
        /\ pUp' \in BOOLEAN /\ mapped' \in BOOLEAN
        /\ \/ wire' = wire /\ parked' = parked
           \/ up /\ wire' = wire \cup {OnWire(parked[i]) : i \in DOMAIN parked} /\ parked' = <<>>
    <2>1. pUp \in BOOLEAN /\ mapped \in BOOLEAN
      BY DEF IInv, Types, LinkTypes
    <2>2. CASE ProviderConnected
      BY <2>2 DEF ProviderConnected
    <2>3. CASE ProviderClosed
      BY <2>3 DEF ProviderClosed
    <2>4. CASE ProviderDials
      BY <2>1, <2>4 DEF ProviderDials, link
    <2> QED BY <2>2, <2>3, <2>4
  <1>2. /\ UNCHANGED <<outcome, queued, outstanding, failing, stream, reorder, early, got>> /\ UNCHANGED serving
    BY <1>1 DEF consumer
  <1>3. parked \in Seq(Chunk) /\ \A w \in wire' : w \in wire \/ (up /\ \E i \in DOMAIN parked : w = OnWire(parked[i]))
    BY <1>1 DEF IInv, Types, ManagerTypes
  <1>4. \A i \in DOMAIN parked : parked[i] \in Chunk
    BY <1>3
  <1>5. \A c : OnWire(c).kind = "chunk"
    BY DEF OnWire
  <1>6. Types'
    <2>1. wire' \subseteq Word \cup Packet
      BY <1>3, <1>4, Records DEF IInv, Types
    <2>2. parked' \in Seq(Chunk)
      <3>1. <<>> \in Seq(Chunk)
        OBVIOUS
      <3> QED BY <1>1, <1>3, <3>1
    <2> QED BY <1>1, <1>2, <2>1, <2>2, ServingSame DEF IInv, Types, LinkTypes, ConsumerTypes, ManagerTypes
  <1>7. Responses'
    BY <1>1, <1>2, <1>3, <1>5, ServingSame DEF IInv, Responses
  <1>8. Cleared'
    BY <1>1, <1>2, <1>3, <1>5 DEF IInv, Cleared, Id
  <1>9. Serves
    <2>1. \A w \in wire' : w \in wire \/ \E c \in Waits : w = OnWire(c)
      BY <1>3 DEF Waits
    <2>2. \A i \in DOMAIN parked' : parked'[i] \in Waits
      BY <1>1 DEF Waits
    <2>3. \A i \in DOMAIN revq' : revq'[i] \in Waits
      BY <1>1 DEF Waits
    <2> QED BY <1>1, <1>2, <2>1, <2>2, <2>3, ServingSame DEF Serves
  <1> QED BY <1>2, <1>6, <1>7, <1>8, <1>9, ServingSame, ServesKeeps

LEMMA SendResponseKeeps == ASSUME IInv, SendResponse PROVE IInv'
  <1>1. /\ UNCHANGED <<link, faults, consumer, mapped, stuck, revq, parked, serving, cut>>
        /\ rrq # <<>> /\ rrq' = Tail(rrq)
    BY DEF SendResponse
  <1>2. /\ UNCHANGED <<mode, up, breaks, cUp, pUp>> /\ UNCHANGED serving
        /\ UNCHANGED <<outcome, queued, outstanding, failing, stream, reorder, early, got>>
    BY <1>1 DEF link, consumer
  <1>3. PICK w : w = Head(rrq)
    OBVIOUS
  <1>4. /\ wire' = IF Id(w) \in channels THEN wire \cup {w} ELSE wire
        /\ channels' = channels \ {Id(w)}
    BY <1>3 DEF SendResponse, Id
  <1>5. rrq \in Seq(Word) /\ rrq' \in Seq(Word) /\ w = rrq[1] /\ 1 \in DOMAIN rrq /\ w \in Word
    <2>1. rrq \in Seq(Word)
      BY DEF IInv, Types, ManagerTypes
    <2> QED BY <1>1, <1>3, <2>1
  <1>6. \A i \in DOMAIN rrq' : i + 1 \in DOMAIN rrq /\ rrq'[i] = rrq[i + 1]
    BY <1>1, <1>5
  <1>7. w.kind \in Answers /\ (mode.sealed => w.kind # "body")
    BY <1>5 DEF IInv, Responses
  <1>8. Types'
    BY <1>1, <1>2, <1>4, <1>5, ServingSame DEF IInv, Types, LinkTypes, ConsumerTypes, ManagerTypes
  <1>9. Responses'
    BY <1>2, <1>4, <1>6, <1>7, ServingSame DEF IInv, Responses
  <1>10. Cleared'
    BY <1>2, <1>4 DEF IInv, Cleared, Id
  <1>11. Serves
    BY <1>1, <1>2, <1>4, <1>7, ServingSame DEF Serves, Waits
  <1> QED BY <1>2, <1>8, <1>9, <1>10, <1>11, ServingSame, ServesKeeps

LEMMA SendReverseKeeps == ASSUME IInv, SendReverse PROVE IInv'
  <1>1. /\ UNCHANGED <<link, faults, consumer, mapped, channels, rrq, serving, cut>>
        /\ revq # <<>> /\ revq' = Tail(revq)
    BY DEF SendReverse
  <1>2. /\ UNCHANGED <<mode, up, breaks, cUp, pUp>> /\ UNCHANGED serving
        /\ UNCHANGED <<outcome, queued, outstanding, failing, stream, reorder, early, got>>
    BY <1>1 DEF link, consumer
  <1>3. PICK c : c = Head(revq)
    OBVIOUS
  <1>4. /\ wire' = wire \/ (up /\ wire' = wire \cup {OnWire(c)})
        /\ parked' = parked \/ parked' = Append(parked, c)
        /\ stuck' \in BOOLEAN
    <2>1. stuck \in BOOLEAN
      BY DEF IInv, Types, LinkTypes
    <2> QED BY <1>3, <2>1 DEF SendReverse
  <1>5. /\ revq \in Seq(Chunk) /\ revq' \in Seq(Chunk) /\ c = revq[1] /\ 1 \in DOMAIN revq /\ c \in Chunk
        /\ parked \in Seq(Chunk)
    <2>1. revq \in Seq(Chunk) /\ parked \in Seq(Chunk)
      BY DEF IInv, Types, ManagerTypes
    <2> QED BY <1>1, <1>3, <2>1
  <1>6. \A i \in DOMAIN revq' : i + 1 \in DOMAIN revq /\ revq'[i] = revq[i + 1]
    BY <1>1, <1>5
  <1>7. parked' \in Seq(Chunk) /\ \A i \in DOMAIN parked' : parked'[i] = c \/ (i \in DOMAIN parked /\ parked'[i] = parked[i])
    <2>1. CASE parked' = parked
      BY <1>5, <2>1
    <2>2. CASE parked' = Append(parked, c)
      BY <1>5, <2>2, AppendProperties
    <2> QED BY <1>4, <2>1, <2>2
  <1>8. OnWire(c) \in Packet /\ OnWire(c).kind = "chunk"
    BY <1>5, Records
  <1>9. Types'
    BY <1>1, <1>2, <1>4, <1>5, <1>7, <1>8, ServingSame DEF IInv, Types, LinkTypes, ConsumerTypes, ManagerTypes
  <1>10. Responses'
    BY <1>1, <1>2, <1>4, <1>8, ServingSame DEF IInv, Responses
  <1>11. Cleared'
    BY <1>1, <1>2, <1>4, <1>8 DEF IInv, Cleared, Id
  <1>12. Serves
    <2>1. c \in Waits /\ \A i \in DOMAIN revq' : revq'[i] \in Waits
      BY <1>5, <1>6 DEF Waits
    <2>2. \A i \in DOMAIN parked' : parked'[i] \in Waits
      BY <1>7, <2>1 DEF Waits
    <2> QED BY <1>2, <1>4, <2>1, <2>2, ServingSame DEF Serves
  <1> QED BY <1>2, <1>9, <1>10, <1>11, <1>12, ServingSame, ServesKeeps

LEMMA ReceiveRequestKeeps ==
    ASSUME IInv, NEW w \in wire, NEW admitted \in BOOLEAN, ReceiveRequest(w, admitted)
    PROVE  IInv'
  <1>1. PICK x : x = Id(w)
    OBVIOUS
  <1>2. /\ UNCHANGED <<link, consumer, stuck, rrq, revq, parked, slot, late, cut>>
        /\ w.kind = "request" /\ (admitted \/ faults < mode.faults)
        /\ faults' = faults + (IF admitted THEN 0 ELSE 1)
        /\ mapped' = (mapped \/ (mode.sealed /\ admitted))
        /\ \/ /\ wire' = (wire \ {w}) \cup {Message("refused", x)}
              /\ UNCHANGED <<channels, task>>
           \/ /\ wire' = wire \ {w} /\ channels' = channels \cup {x}
              /\ task' = [task EXCEPT ![x].stage = IF mode.sealed THEN "claim" ELSE "plain"]
    BY <1>1 DEF ReceiveRequest, At, Id
  <1>3. /\ UNCHANGED <<mode, up, breaks, cUp, pUp>>
        /\ UNCHANGED <<outcome, queued, outstanding, failing, stream, reorder, early, got>>
    BY <1>2 DEF link, consumer
  <1>4. w \in Word /\ x \in Try /\ w = Message("request", x) /\ task[x].stage = "none"
    <2>1. w \in Word
      BY <1>2, Records DEF IInv, Types
    <2> QED BY <1>1, <1>2, <2>1, Records DEF IInv, Unmade
  <1>5. /\ Message("refused", x) \in Word /\ Message("refused", x).kind = "refused" /\ Id(Message("refused", x)) = x
        /\ "refused" \in Answers /\ Message("request", x) # Message("refused", x)
    <2>1. "refused" \in Answers
      BY DEF Answers
    <2>2. \A k \in {"request"} \cup Answers : Message(k, x) \in Word
      BY <1>4, Records
    <2>3. \A k : Message(k, x).kind = k /\ Id(Message(k, x)) = x
      BY <1>4, Records
    <2>4. Message("request", x) # Message("refused", x)
      BY <2>3
    <2> QED BY <2>1, <2>2, <2>3, <2>4
  <1>6. up /\ x \notin failing
    BY <1>1, <1>2 DEF IInv, Cleared
  <1>7. /\ task \in [Try -> Progress] /\ late \in [Try -> Nat] /\ Level(task[x], late[x], slot = x)
    BY <1>4 DEF IInv, Types, TaskTypes, Levels
  <1>8. PICK s : s = (IF mode.sealed THEN "claim" ELSE "plain")
    OBVIOUS
  <1>9. /\ task' \in [Try -> Progress]
        /\ \A y \in Try : Grown(task[y], task'[y]) /\ (y # x => task'[y] = task[y])
        /\ task'[x] = task[x] \/ (wire' = wire \ {w} /\ task'[x] = [task[x] EXCEPT !.stage = s])
    <2>1. \A y \in Try : task[y].seq \in Nat /\ task[y].read \in Nat
      BY <1>7, SwarmProxyAssumption DEF Progress
    <2>2. CASE UNCHANGED task
      BY <1>7, <2>1, <2>2 DEF Grown
    <2>3. CASE task' = [task EXCEPT ![x].stage = s] /\ wire' = wire \ {w}
      <3>1. task[x] \in Progress /\ s \in Stages
        BY <1>4, <1>7, <1>8 DEF Stages
      <3>2. PICK u : u = [task[x] EXCEPT !.stage = s]
        OBVIOUS
      <3>3. u \in Progress /\ u.seq = task[x].seq /\ u.read = task[x].read /\ u.fate = task[x].fate
        BY <3>1, <3>2 DEF Progress
      <3>4. task' = [task EXCEPT ![x] = u]
        BY <2>3, <3>2
      <3>5. Grown(task[x], u)
        BY <1>4, <2>1, <3>3 DEF Grown
      <3>6. \A y \in Try : Grown(task[y], task[y])
        BY <2>1 DEF Grown
      <3> QED BY <1>4, <1>7, <2>3, <3>2, <3>3, <3>4, <3>5, <3>6
    <2> QED BY <1>2, <1>8, <2>2, <2>3
  <1>10. task'[x] = task[x] \/ (/\ task'[x].stage = s /\ task'[x].read = task[x].read /\ task'[x].seq = task[x].seq
                                /\ task'[x].fate = task[x].fate /\ wire' = wire \ {w})
    <2>1. task[x] \in Progress
      BY <1>4, <1>7
    <2> QED BY <1>9, <2>1 DEF Progress
  <1>11. Types'
    <2>1. faults' \in 0..mode.faults /\ mapped' \in BOOLEAN
      <3>1. faults \in 0..mode.faults /\ mode.faults \in Nat /\ mapped \in BOOLEAN /\ mode.sealed \in BOOLEAN
        BY SwarmProxyAssumption DEF IInv, Types, LinkTypes
      <3> QED BY <1>2, <3>1
    <2>2. wire' \subseteq Word \cup Packet /\ channels' \subseteq Try
      BY <1>2, <1>4, <1>5 DEF IInv, Types, ManagerTypes
    <2> QED BY <1>2, <1>3, <1>9, <2>1, <2>2 DEF IInv, Types, LinkTypes, ConsumerTypes, ManagerTypes, TaskTypes
  <1>12. Responses'
    <2>1. \A y \in Try : mode.sealed => task'[y].stage # "plain"
      BY <1>4, <1>8, <1>9, <1>10 DEF IInv, Responses
    <2> QED BY <1>2, <1>3, <1>5, <2>1 DEF IInv, Responses
  <1>13. Cleared'
    BY <1>2, <1>3, <1>5, <1>6 DEF IInv, Cleared, Id
  <1>14. Levels'
    <2>1. Level(task'[x], late[x], slot = x)
      <3>1. s \in {"claim", "plain"}
        BY <1>8
      <3> QED BY <1>4, <1>7, <1>10, <3>1 DEF Level
    <2>2. \A y \in Try : Level(task'[y], late[y], slot = y)
      BY <1>9, <2>1 DEF IInv, Levels
    <2> QED BY <1>2, <2>2 DEF Levels, Level
  <1>15. Serves
    <2>1. \A y \in Try : task[y].stage = "none" /\ task'[y].stage # "none" =>
                           Message("request", y) \in wire /\ Message("request", y) \notin wire'
      BY <1>4, <1>9, <1>10
    <2>2. \A v \in wire' : v \in wire \/ v.kind \in Answers
      BY <1>2, <1>5
    <2> QED BY <1>2, <1>3, <1>9, <2>1, <2>2 DEF Serves, Waits
  <1> QED BY <1>11, <1>12, <1>13, <1>14, <1>15, ServesKeeps

-----------------------------------------------------------------------------
(* Steps of the tasks *)

\* The task of x becomes u.
Works(x, u) ==
    /\ x \in Try /\ u \in Progress /\ task' = [task EXCEPT ![x] = u] /\ Grown(task[x], u)
    /\ task[x].stage # "none" /\ u.stage # "plain"
    /\ UNCHANGED <<link, consumer, mapped, stuck, cut>>
    /\ faults' \in 0..mode.faults
    /\ slot' = slot \/ slot' = x
    /\ late' \in [Try -> Nat] /\ \A y \in Try : y # x => late'[y] = late[y]
    /\ Level(u, late'[x], slot' = x)
    /\ rrq' = rrq \/ \E k \in Answers : (mode.sealed => k # "body") /\ rrq' = Append(rrq, Message(k, x))
    /\ revq' = revq \/ \E c \in Chunk : Id(c) = x /\ Genuine(c, u) /\ revq' = Append(revq, c)
    /\ parked' = parked \/ parked' = <<>>
    /\ channels' \subseteq channels
    /\ wire' = wire \/ (up /\ x \in channels /\ wire' = wire \cup {Message("refused", x)})

LEMMA WorksKeeps == ASSUME IInv, NEW x, NEW u, Works(x, u) PROVE IInv'
  <1>1. /\ UNCHANGED <<mode, up, breaks, cUp, pUp, outcome, queued, outstanding, failing, stream, reorder, early, got>>
        /\ x \in Try
    BY DEF Works, link, consumer
  <1>2. /\ task \in [Try -> Progress] /\ late \in [Try -> Nat] /\ slot \in Try \cup {NoTry}
        /\ rrq \in Seq(Word) /\ revq \in Seq(Chunk) /\ parked \in Seq(Chunk) /\ <<>> \in Seq(Chunk)
    BY DEF IInv, Types, TaskTypes, ManagerTypes
  <1>3. /\ task' \in [Try -> Progress] /\ task'[x] = u /\ \A y \in Try : y # x => task'[y] = task[y]
        /\ \A y \in Try : Grown(task[y], task'[y])
    <2>1. /\ task' \in [Try -> Progress] /\ task'[x] = u /\ \A y \in Try : y # x => task'[y] = task[y]
      BY <1>1, <1>2 DEF Works
    <2>2. \A y \in Try : task[y].seq \in Nat /\ task[y].read \in Nat
      BY <1>2, SwarmProxyAssumption DEF Progress
    <2>3. \A y \in Try : Grown(task[y], task[y])
      BY <2>2 DEF Grown
    <2>4. Grown(task[x], u)
      BY DEF Works
    <2> QED BY <2>1, <2>3, <2>4
  <1>4. /\ Message("refused", x) \in Word /\ Message("refused", x).kind = "refused" /\ Id(Message("refused", x)) = x
        /\ "refused" \in Answers
        /\ \A k \in Answers : Message(k, x) \in Word /\ Message(k, x).kind = k
    BY <1>1, Records DEF Answers
  <1>5. /\ rrq' \in Seq(Word)
        /\ \A i \in DOMAIN rrq' : rrq'[i].kind \in Answers /\ (mode.sealed => rrq'[i].kind # "body")
    <2>1. \A i \in DOMAIN rrq : rrq[i].kind \in Answers /\ (mode.sealed => rrq[i].kind # "body")
      BY DEF IInv, Responses
    <2>2. CASE rrq' = rrq
      BY <1>2, <2>1, <2>2
    <2>3. CASE \E k \in Answers : (mode.sealed => k # "body") /\ rrq' = Append(rrq, Message(k, x))
      <3>1. PICK k \in Answers : (mode.sealed => k # "body") /\ rrq' = Append(rrq, Message(k, x))
        BY <2>3
      <3>2. PICK m \in Word : m = Message(k, x)
        BY <1>4
      <3>3. m.kind = k /\ rrq' = Append(rrq, m)
        BY <1>4, <3>1, <3>2
      <3>4. rrq' \in Seq(Word) /\ \A i \in DOMAIN rrq' : rrq'[i] = m \/ (i \in DOMAIN rrq /\ rrq'[i] = rrq[i])
        BY <1>2, <3>3, AppendProperties
      <3> QED BY <2>1, <3>1, <3>3, <3>4
    <2> QED BY <2>2, <2>3 DEF Works
  <1>6. /\ revq' \in Seq(Chunk)
        /\ \A i \in DOMAIN revq' : revq'[i] \in Waits \/ Genuine(revq'[i], task'[Id(revq'[i])])
    <2>1. \A i \in DOMAIN revq : revq[i] \in Waits
      BY DEF Waits
    <2>2. CASE revq' = revq
      BY <1>2, <2>1, <2>2
    <2>3. CASE \E c \in Chunk : Id(c) = x /\ Genuine(c, u) /\ revq' = Append(revq, c)
      <3>1. PICK c \in Chunk : Id(c) = x /\ Genuine(c, u) /\ revq' = Append(revq, c)
        BY <2>3
      <3>2. revq' \in Seq(Chunk) /\ \A i \in DOMAIN revq' : revq'[i] = c \/ (i \in DOMAIN revq /\ revq'[i] = revq[i])
        BY <1>2, <3>1, AppendProperties
      <3> QED BY <1>3, <2>1, <3>1, <3>2
    <2> QED BY <2>2, <2>3 DEF Works
  <1>7. Types'
    <2>1. wire' \subseteq Word \cup Packet
      BY <1>4 DEF Works, IInv, Types
    <2>2. slot' \in Try \cup {NoTry} /\ late' \in [Try -> Nat]
      BY <1>1, <1>2 DEF Works
    <2>3. channels' \subseteq Try /\ parked' \in Seq(Chunk)
      BY <1>2 DEF Works, IInv, Types, ManagerTypes
    <2>4. faults' \in 0..mode.faults /\ UNCHANGED <<mapped, stuck, cut>>
      BY DEF Works
    <2> QED BY <1>1, <1>3, <1>5, <1>6, <2>1, <2>2, <2>3, <2>4
            DEF IInv, Types, LinkTypes, ConsumerTypes, ManagerTypes, TaskTypes
  <1>8. Responses'
    <2>1. \A w \in wire' : mode.sealed => w.kind # "body"
      BY <1>4 DEF Works, IInv, Responses
    <2>2. \A y \in Try : mode.sealed => task'[y].stage # "plain"
      BY <1>3 DEF Works, IInv, Responses
    <2> QED BY <1>1, <1>5, <2>1, <2>2 DEF Responses
  <1>9. Cleared'
    <2>1. x \in channels => x \notin failing
      BY DEF IInv, Cleared
    <2> QED BY <1>1, <1>4, <2>1 DEF Works, IInv, Cleared, Id
  <1>10. Levels'
    <2>1. ASSUME NEW y \in Try PROVE Level(task'[y], late'[y], slot' = y)
      <3>1. CASE y = x
        BY <1>3, <3>1 DEF Works
      <3>2. CASE y # x
        <4>1. task'[y] = task[y] /\ late'[y] = late[y] /\ Level(task[y], late[y], slot = y)
          BY <1>3, <3>2 DEF Works, IInv, Levels
        <4>2. slot' = y => slot = y
          BY <3>2 DEF Works
        <4> QED BY <4>1, <4>2 DEF Level
      <3> QED BY <3>1, <3>2
    <2> QED BY <2>1 DEF Levels, Level
  <1>11. Serves
    <2>1. \A y \in Try : task[y].stage = "none" => task'[y].stage = "none"
      BY <1>3 DEF Works
    <2>2. \A w \in wire' : w \in wire \/ w.kind \in Answers
      BY <1>4 DEF Works
    <2>3. \A i \in DOMAIN parked' : parked'[i] \in Waits
      BY DEF Works, Waits
    <2> QED BY <1>1, <1>3, <1>6, <2>1, <2>2, <2>3 DEF Serves
  <1> QED BY <1>7, <1>8, <1>9, <1>10, <1>11, ServesKeeps

LEMMA TaskFacts ==
    ASSUME IInv, NEW x \in Try
    PROVE  /\ task \in [Try -> Progress] /\ task[x] \in Progress /\ late \in [Try -> Nat] /\ late[x] \in Nat
           /\ task[x].stage \in Stages /\ task[x].fate \in Fates
           /\ task[x].seq \in Nat /\ task[x].read \in Nat /\ task[x].read \in 0..Pieces /\ Pieces \in Nat
           /\ Level(task[x], late[x], slot = x) /\ Grown(task[x], task[x])
           /\ faults \in 0..mode.faults /\ mode.faults \in Nat
           /\ \A d \in {0, 1} : (d = 0 \/ faults < mode.faults) => faults + d \in 0..mode.faults
  <1>1. /\ task \in [Try -> Progress] /\ task[x] \in Progress /\ late \in [Try -> Nat] /\ late[x] \in Nat
        /\ Level(task[x], late[x], slot = x) /\ faults \in 0..mode.faults /\ mode.faults \in Nat
    BY SwarmProxyAssumption DEF IInv, Types, TaskTypes, LinkTypes, Levels
  <1>2. /\ task[x].stage \in Stages /\ task[x].fate \in Fates
        /\ task[x].seq \in Nat /\ task[x].read \in Nat /\ task[x].read \in 0..Pieces /\ Pieces \in Nat
    BY <1>1, SwarmProxyAssumption DEF Progress
  <1>3. \A d \in {0, 1} : (d = 0 \/ faults < mode.faults) => faults + d \in 0..mode.faults
    BY <1>1
  <1>4. Grown(task[x], task[x])
    BY <1>2 DEF Grown
  <1> QED BY <1>1, <1>2, <1>3, <1>4

LEMMA AtFacts ==
    ASSUME task \in [Try -> Progress], NEW x \in Try, NEW s \in Stages, At(x, s)
    PROVE  \E u \in Progress : /\ task' = [task EXCEPT ![x] = u] /\ u.stage = s /\ u.read = task[x].read
                               /\ u.seq = task[x].seq /\ u.fate = task[x].fate
  <1>1. task[x] \in Progress
    OBVIOUS
  <1>2. PICK u : u = [task[x] EXCEPT !.stage = s]
    OBVIOUS
  <1>3. u \in Progress /\ u.stage = s /\ u.read = task[x].read /\ u.seq = task[x].seq /\ u.fate = task[x].fate
    BY <1>1, <1>2 DEF Progress
  <1>4. task' = [task EXCEPT ![x] = u]
    BY <1>2 DEF At
  <1> QED BY <1>3, <1>4

LEMMA EndsFacts ==
    ASSUME task \in [Try -> Progress], NEW x \in Try, NEW f \in Fates, Ends(x, f)
    PROVE  \E u \in Progress : /\ task' = [task EXCEPT ![x] = u] /\ u.stage = "end" /\ u.read = task[x].read
                               /\ u.seq = task[x].seq /\ u.fate = IF task[x].fate = "crypto" THEN "crypto" ELSE f
  <1>1. task[x] \in Progress
    OBVIOUS
  <1>2. PICK g \in Fates : g = IF task[x].fate = "crypto" THEN "crypto" ELSE f
    BY DEF Fates
  <1>3. PICK u : u = [task[x] EXCEPT !.stage = "end", !.fate = g]
    OBVIOUS
  <1>4. u \in Progress /\ u.stage = "end" /\ u.read = task[x].read /\ u.seq = task[x].seq /\ u.fate = g
    <2>1. "end" \in Stages
      BY DEF Stages
    <2> QED BY <1>1, <1>3, <2>1 DEF Progress
  <1>5. task' = [task EXCEPT ![x] = u]
    BY <1>1, <1>2, <1>3 DEF Ends, Progress
  <1> QED BY <1>2, <1>4, <1>5

LEMMA ClaimKeeps == ASSUME IInv, NEW x \in Try, Claim(x) PROVE IInv'
  <1>1. PICK u \in Progress : /\ task' = [task EXCEPT ![x] = u] /\ u.stage = "check" /\ u.read = task[x].read
                              /\ u.seq = task[x].seq /\ u.fate = task[x].fate
    BY TaskFacts, AtFacts DEF Claim, Stages
  <1>2. Level(u, late[x], TRUE) /\ Grown(task[x], u)
    BY <1>1, TaskFacts DEF Claim, Level, Grown
  <1>3. Works(x, u)
    BY <1>1, <1>2, TaskFacts DEF Works, Claim, Frame
  <1> QED BY <1>3, WorksKeeps

LEMMA CheckKeeps == ASSUME IInv, NEW x \in Try, NEW ok \in BOOLEAN, Check(x, ok) PROVE IInv'
  <1>1. PICK s : s = (IF ok THEN "ack" ELSE "refuse")
    OBVIOUS
  <1>2. PICK u \in Progress : /\ task' = [task EXCEPT ![x] = u] /\ u.stage = s /\ u.read = task[x].read
                              /\ u.seq = task[x].seq /\ u.fate = task[x].fate
    <2>1. At(x, s) /\ s \in Stages
      BY <1>1 DEF Check, Stages
    <2> QED BY <2>1, TaskFacts, AtFacts
  <1>3. s \in {"ack", "refuse"}
    BY <1>1
  <1>4. Level(u, late[x], slot = x) /\ Grown(task[x], u)
    BY <1>2, <1>3, TaskFacts DEF Check, Level, Grown
  <1>5. faults' \in 0..mode.faults
    BY TaskFacts DEF Check
  <1>6. Works(x, u)
    BY <1>2, <1>3, <1>4, <1>5, TaskFacts DEF Works, Check, Frame
  <1> QED BY <1>6, WorksKeeps

LEMMA RespondKeeps == ASSUME IInv, NEW x \in Try, Respond(x) PROVE IInv'
  <1>1. PICK kind \in {"stream", "refused"} : kind = (IF task[x].stage = "ack" THEN "stream" ELSE "refused")
    OBVIOUS
  <1>2. PICK u \in Progress : /\ task' = [task EXCEPT ![x] = u] /\ u.stage \in {"forward", "end"} /\ u.read = task[x].read
                              /\ u.seq = task[x].seq /\ (task[x].fate = "crypto" => u.fate = "crypto")
    <2>1. CASE kind = "stream"
      <3>1. At(x, "forward") /\ "forward" \in Stages
        BY <1>1, <2>1 DEF Respond, Stages
      <3> QED BY <3>1, TaskFacts, AtFacts
    <2>2. CASE kind = "refused"
      <3>1. PICK f \in Fates : f = ""
        BY DEF Fates
      <3>2. Ends(x, f)
        BY <1>1, <2>2, <3>1, Zenon DEF Respond
      <3> QED BY <3>2, TaskFacts, EndsFacts
    <2> QED BY <2>1, <2>2
  <1>4. task[x].stage \in {"ack", "refuse"}
    BY DEF Respond
  <1>5. Level(u, late[x], slot = x) /\ Grown(task[x], u)
    BY <1>2, <1>4, TaskFacts DEF Level, Grown
  <1>6. /\ UNCHANGED <<faults, revq, parked, slot, late>>
        /\ UNCHANGED <<link, consumer, mapped, stuck, cut>>
        /\ \/ rrq' = Append(rrq, Message(kind, x)) /\ UNCHANGED <<wire, channels>>
           \/ /\ wire' = wire \/ (up /\ x \in channels /\ wire' = wire \cup {Message("refused", x)})
              /\ channels' = channels \ {x} /\ UNCHANGED rrq
    BY <1>1 DEF Respond, Frame, Reply
  <1>7. kind \in Answers /\ kind # "body"
    BY <1>1 DEF Answers
  <1>8. Works(x, u)
    BY <1>2, <1>4, <1>5, <1>6, <1>7, TaskFacts DEF Works
  <1> QED BY <1>8, WorksKeeps

LEMMA ForwardKeeps == ASSUME IInv, NEW x \in Try, NEW ok \in BOOLEAN, Forward(x, ok) PROVE IInv'
  <1>1. PICK u \in Progress : /\ task' = [task EXCEPT ![x] = u] /\ u.stage \in {"read", "end"} /\ u.read = task[x].read
                              /\ u.seq = task[x].seq /\ (task[x].fate = "crypto" => u.fate = "crypto")
    <2>1. CASE ok
      <3>1. At(x, "read") /\ "read" \in Stages
        BY <2>1 DEF Forward, Stages
      <3> QED BY <3>1, TaskFacts, AtFacts
    <2>2. CASE ~ok
      <3>1. PICK f \in Fates : f = "upstream"
        BY DEF Fates
      <3>2. Ends(x, f)
        BY <2>2, <3>1 DEF Forward
      <3> QED BY <3>2, TaskFacts, EndsFacts
    <2> QED BY <2>1, <2>2
  <1>2. task[x].stage = "forward"
    BY DEF Forward
  <1>3. Level(u, late[x], slot = x) /\ Grown(task[x], u)
    BY <1>1, <1>2, TaskFacts DEF Level, Grown
  <1>4. faults' \in 0..mode.faults
    BY TaskFacts DEF Forward
  <1>5. Works(x, u)
    BY <1>1, <1>2, <1>3, <1>4, TaskFacts DEF Works, Forward, Frame
  <1> QED BY <1>5, WorksKeeps

\* A step of a task that nobody else sees.
LEMMA AloneKeeps ==
    ASSUME IInv, NEW x \in Try, NEW u \in Progress, task' = [task EXCEPT ![x] = u], Grown(task[x], u),
           task[x].stage # "none", u.stage # "plain", Level(u, late[x], slot = x),
           Frame, UNCHANGED <<wire, channels, rrq, revq, parked, slot, late>>, faults' \in 0..mode.faults
    PROVE  IInv'
  <1>1. Works(x, u)
    BY TaskFacts DEF Works, Frame
  <1> QED BY <1>1, WorksKeeps

LEMMA ReadPieceKeeps ==
    ASSUME IInv, Counted, NEW x \in Try, NEW whole \in BOOLEAN, ReadPiece(x, whole) PROVE IInv'
  <1>1. task[x].stage = "read" /\ task[x].read < Pieces
    <2>1. task[x].stage = "read" /\ produced[x] < Pieces
      BY DEF ReadPiece
    <2>2. task[x].read \in Nat /\ dropped[x] \in Nat /\ task[x].read + dropped[x] = produced[x] /\ Pieces \in Nat
      BY TaskFacts DEF Counted
    <2> QED BY <2>1, <2>2
  <1>2. Frame /\ UNCHANGED <<wire, channels, rrq, revq, parked, slot, late>>
    BY DEF ReadPiece, Alone
  <1>3. CASE slot = x /\ whole
    <2>1. task' = [task EXCEPT ![x].stage = "flush", ![x].read = @ + 1] /\ faults' = faults
      BY <1>3 DEF ReadPiece, Active
    <2>2. PICK n \in 0..Pieces : n = task[x].read + 1
      BY <1>1, TaskFacts
    <2>3. PICK u : u = [task[x] EXCEPT !.stage = "flush", !.read = n]
      OBVIOUS
    <2>4. u \in Progress /\ u.stage = "flush" /\ u.read = n /\ u.seq = task[x].seq /\ u.fate = task[x].fate
      <3>1. task[x] \in Progress /\ "flush" \in Stages
        BY TaskFacts DEF Stages
      <3> QED BY <2>3, <3>1 DEF Progress
    <2>5. task' = [task EXCEPT ![x] = u]
      <3>1. task[x] \in Progress
        BY TaskFacts
      <3> QED BY <2>1, <2>2, <2>3, <3>1 DEF Progress
    <2>6. Level(u, late[x], slot = x) /\ Grown(task[x], u)
      BY <1>1, <1>3, <2>2, <2>4, TaskFacts DEF Level, Grown
    <2>7. faults' \in 0..mode.faults
      BY <2>1, TaskFacts
    <2> QED BY <1>1, <1>2, <2>4, <2>5, <2>6, <2>7, AloneKeeps
  <1>4. CASE slot = x /\ ~whole
    <2>1. task' = task /\ faults < mode.faults /\ faults' = faults + 1
      BY <1>4 DEF ReadPiece, Active
    <2>2. task' = [task EXCEPT ![x] = task[x]]
      BY <2>1, TaskFacts
    <2>3. faults' \in 0..mode.faults
      BY <2>1, TaskFacts
    <2>4. task[x] \in Progress /\ Level(task[x], late[x], slot = x) /\ Grown(task[x], task[x])
      BY TaskFacts
    <2> QED BY <1>1, <1>2, <2>2, <2>3, <2>4, AloneKeeps
  <1>5. CASE slot # x
    <2>1. PICK f \in Fates : f = "superseded"
      BY DEF Fates
    <2>2. Ends(x, f) /\ faults' = faults
      BY <1>5, <2>1 DEF ReadPiece, Active
    <2>3. PICK u \in Progress : /\ task' = [task EXCEPT ![x] = u] /\ u.stage = "end" /\ u.read = task[x].read
                                /\ u.seq = task[x].seq /\ u.fate = IF task[x].fate = "crypto" THEN "crypto" ELSE f
      BY <2>2, TaskFacts, EndsFacts
    <2>4. Level(u, late[x], slot = x) /\ Grown(task[x], u)
      BY <1>1, <1>5, <2>3, TaskFacts DEF Level, Grown
    <2>5. faults' \in 0..mode.faults
      BY <2>2, TaskFacts
    <2> QED BY <1>1, <1>2, <2>3, <2>4, <2>5, AloneKeeps
  <1> QED BY <1>3, <1>4, <1>5

LEMMA ReadEndKeeps == ASSUME IInv, NEW x \in Try, NEW broken \in BOOLEAN, ReadEnd(x, broken) PROVE IInv'
  <1>1. task[x].stage = "read"
    BY DEF ReadEnd
  <1>2. Frame /\ UNCHANGED <<wire, channels, rrq, revq, parked, slot, late>> /\ faults' \in 0..mode.faults
    BY TaskFacts DEF ReadEnd
  <1>3. CASE broken /\ slot # x
    <2>1. PICK f \in Fates : f = "superseded"
      BY DEF Fates
    <2>2. Ends(x, f)
      BY <1>3, <2>1 DEF ReadEnd, Active
    <2>3. PICK u \in Progress : /\ task' = [task EXCEPT ![x] = u] /\ u.stage = "end" /\ u.read = task[x].read
                                /\ u.seq = task[x].seq /\ u.fate = IF task[x].fate = "crypto" THEN "crypto" ELSE f
      BY <2>2, TaskFacts, EndsFacts
    <2>4. Level(u, late[x], slot = x) /\ Grown(task[x], u)
      BY <1>1, <1>3, <2>3, TaskFacts DEF Level, Grown
    <2> QED BY <1>1, <1>2, <2>3, <2>4, AloneKeeps
  <1>4. CASE ~(broken /\ slot # x)
    <2>1. task' = [task EXCEPT ![x].stage = "final",
                               ![x].fate = IF broken /\ @ # "crypto" THEN "truncated" ELSE @]
      BY <1>4 DEF ReadEnd, Active
    <2>2. PICK f \in Fates : f = IF broken /\ task[x].fate # "crypto" THEN "truncated" ELSE task[x].fate
      BY TaskFacts DEF Fates
    <2>3. PICK u : u = [task[x] EXCEPT !.stage = "final", !.fate = f]
      OBVIOUS
    <2>4. u \in Progress /\ u.stage = "final" /\ u.read = task[x].read /\ u.seq = task[x].seq /\ u.fate = f
      <3>1. task[x] \in Progress /\ "final" \in Stages
        BY TaskFacts DEF Stages
      <3> QED BY <2>3, <3>1 DEF Progress
    <2>5. task' = [task EXCEPT ![x] = u]
      <3>1. task[x] \in Progress
        BY TaskFacts
      <3> QED BY <2>1, <2>2, <2>3, <3>1 DEF Progress
    <2>6. Level(u, late[x], slot = x) /\ Grown(task[x], u)
      BY <1>1, <2>2, <2>4, TaskFacts DEF Level, Grown
    <2> QED BY <1>1, <1>2, <2>4, <2>5, <2>6, AloneKeeps
  <1> QED BY <1>3, <1>4

LEMMA FlushKeeps == ASSUME IInv, NEW x \in Try, Flush(x) PROVE IInv'
  <1>1. task[x].stage = "flush"
    BY DEF Flush
  <1>2. Frame /\ UNCHANGED <<wire, faults, channels, rrq, revq, parked, slot, late>> /\ faults' \in 0..mode.faults
    BY TaskFacts DEF Flush, TaskOnly, Alone
  <1>3. PICK s \in Stages : s = IF slot = x THEN "send" ELSE "read"
    BY DEF Stages
  <1>4. PICK u \in Progress : /\ task' = [task EXCEPT ![x] = u] /\ u.stage = s /\ u.read = task[x].read
                              /\ u.seq = task[x].seq /\ u.fate = task[x].fate
    <2>1. At(x, s)
      BY <1>3 DEF Flush, Active
    <2> QED BY <2>1, TaskFacts, AtFacts
  <1>5. Level(u, late[x], slot = x) /\ Grown(task[x], u)
    BY <1>1, <1>3, <1>4, TaskFacts DEF Level, Grown
  <1>6. u.stage # "plain"
    BY <1>3, <1>4
  <1> QED BY <1>1, <1>2, <1>4, <1>5, <1>6, AloneKeeps

LEMMA FinalKeeps == ASSUME IInv, NEW x \in Try, NEW rest \in BOOLEAN, Final(x, rest) PROVE IInv'
  <1>1. task[x].stage = "final"
    BY DEF Final
  <1>2. Frame /\ UNCHANGED <<wire, faults, channels, rrq, revq, parked, slot, late>> /\ faults' \in 0..mode.faults
    BY TaskFacts DEF Final, TaskOnly, Alone
  <1>3. CASE slot = x /\ rest
    <2>1. At(x, "sendLast") /\ "sendLast" \in Stages
      BY <1>3 DEF Final, Active, Stages
    <2>2. PICK u \in Progress : /\ task' = [task EXCEPT ![x] = u] /\ u.stage = "sendLast" /\ u.read = task[x].read
                                /\ u.seq = task[x].seq /\ u.fate = task[x].fate
      BY <2>1, TaskFacts, AtFacts
    <2>3. Level(u, late[x], slot = x) /\ Grown(task[x], u)
      BY <1>1, <1>3, <2>2, TaskFacts DEF Level, Grown
    <2> QED BY <1>1, <1>2, <2>2, <2>3, AloneKeeps
  <1>4. CASE ~(slot = x /\ rest)
    <2>1. PICK f \in Fates : f = IF slot # x THEN "superseded" ELSE "empty"
      BY DEF Fates
    <2>2. Ends(x, f)
      BY <1>4, <2>1 DEF Final, Active
    <2>3. PICK u \in Progress : /\ task' = [task EXCEPT ![x] = u] /\ u.stage = "end" /\ u.read = task[x].read
                                /\ u.seq = task[x].seq /\ u.fate = IF task[x].fate = "crypto" THEN "crypto" ELSE f
      BY <2>2, TaskFacts, EndsFacts
    <2>4. Level(u, late[x], slot = x) /\ Grown(task[x], u)
      BY <1>1, <2>3, TaskFacts DEF Level, Grown
    <2> QED BY <1>1, <1>2, <2>3, <2>4, AloneKeeps
  <1> QED BY <1>3, <1>4

\* A chunk is the piece it was read as, or the rest; without the slot it is the one chunk late.
LEMMA SendChunkKeeps == ASSUME IInv, NEW x \in Try, NEW ok \in BOOLEAN, SendChunk(x, ok) PROVE IInv'
  <1>1. PICK last \in BOOLEAN : last = (task[x].stage = "sendLast")
    OBVIOUS
  <1>2. PICK s \in Stages : s = IF last THEN "end" ELSE "read"
    BY DEF Stages
  <1>3. PICK t : t = task[x]
    OBVIOUS
  <1>4. /\ t \in Progress /\ t.seq \in Nat /\ t.read \in Nat /\ t.read \in 0..Pieces /\ Pieces \in Nat
        /\ Level(t, late[x], slot = x) /\ late \in [Try -> Nat] /\ task \in [Try -> Progress]
    BY <1>3, TaskFacts
  <1>5. t.stage = (IF last THEN "sendLast" ELSE "send") /\ (ok \/ faults < mode.faults)
    BY <1>1, <1>3 DEF SendChunk
  <1>6. faults' \in 0..mode.faults
    BY TaskFacts DEF SendChunk
  <1>7. late[x] = 0 /\ (IF last THEN t.seq <= t.read ELSE t.seq < t.read)
        /\ (t.fate # "crypto" => IF last THEN t.seq = t.read ELSE t.read = t.seq + 1)
    BY <1>4, <1>5 DEF Level
  <1>8. /\ UNCHANGED <<link, consumer, mapped, stuck, cut>>
        /\ UNCHANGED <<wire, channels, rrq, parked, slot>>
    BY DEF SendChunk, Frame
  <1>9. CASE ok
    <2>1. PICK n : n = t.seq + 1
      OBVIOUS
    <2>2. n \in 0..(Pieces + 1) /\ t.seq \in 0..Pieces /\ n \in Nat
      BY <1>4, <1>7, <2>1
    <2>3. PICK u : u = [t EXCEPT !.seq = n, !.stage = s]
      OBVIOUS
    <2>4. u \in Progress /\ u.stage = s /\ u.read = t.read /\ u.seq = n /\ u.fate = t.fate
      BY <1>4, <2>2, <2>3 DEF Progress
    <2>5. task' = [task EXCEPT ![x] = u]
      <3>1. task' = [task EXCEPT ![x].seq = @ + 1, ![x].stage = IF last THEN "end" ELSE "read"]
        BY <1>1, <1>9 DEF SendChunk
      <3> QED BY <1>2, <1>3, <1>4, <2>1, <2>3, <3>1 DEF Progress
    <2>6. PICK c : c = ChunkFrom(x, last)
      OBVIOUS
    <2>7. c = [req |-> x.req, att |-> x.att, seq |-> t.seq, text |-> IF last THEN 0 ELSE t.read, done |-> last]
      BY <1>3, <2>6 DEF ChunkFrom
    <2>8. c \in Chunk /\ Id(c) = x
      <3>1. x.req \in Reqs /\ x.att \in 0..MaxAttempts /\ x = [req |-> x.req, att |-> x.att]
        BY DEF Try
      <3>2. (IF last THEN 0 ELSE t.read) \in 0..Pieces
        BY <1>4
      <3>3. c \in Chunk
        BY <1>1, <2>2, <2>7, <3>1, <3>2 DEF Chunk, Seqs
      <3> QED BY <2>7, <3>1, <3>3 DEF Id
    <2>9. Genuine(c, u)
      <3>1. c.seq = t.seq /\ c.done = last /\ c.text = IF last THEN 0 ELSE t.read
        BY <2>7
      <3>2. CASE last
        BY <1>2, <1>4, <1>7, <2>1, <2>4, <3>1, <3>2 DEF Genuine
      <3>3. CASE ~last
        BY <1>2, <1>4, <1>7, <2>1, <2>4, <3>1, <3>3 DEF Genuine
      <3> QED BY <3>2, <3>3
    <2>10. revq' = Append(revq, c) /\ late' = [late EXCEPT ![x] = IF slot = x THEN @ ELSE @ + 1]
      BY <1>1, <1>9, <2>6 DEF SendChunk
    <2>11. /\ late' \in [Try -> Nat] /\ late'[x] = (IF slot = x THEN 0 ELSE 1)
           /\ \A y \in Try : y # x => late'[y] = late[y]
      BY <1>4, <1>7, <2>10
    <2>12. Level(u, late'[x], slot' = x)
      <3>1. PICK m : m = late'[x]
        OBVIOUS
      <3>2. m = 0 \/ (m = 1 /\ ~(slot' = x))
        BY <1>8, <2>11, <3>1
      <3>3. Level(u, m, slot' = x)
        <4>1. CASE last
          BY <1>2, <1>4, <1>7, <2>1, <2>4, <3>2, <4>1 DEF Level
        <4>2. CASE ~last
          BY <1>2, <1>4, <1>7, <2>1, <2>4, <3>2, <4>2 DEF Level
        <4> QED BY <4>1, <4>2
      <3> QED BY <3>1, <3>3
    <2>13. Grown(task[x], u) /\ task[x].stage # "none" /\ u.stage # "plain"
      BY <1>2, <1>3, <1>4, <1>5, <2>1, <2>4 DEF Grown
    <2>14. Works(x, u)
      BY <1>6, <1>8, <2>4, <2>5, <2>8, <2>9, <2>10, <2>11, <2>12, <2>13 DEF Works
    <2> QED BY <2>14, WorksKeeps
  <1>10. CASE ~ok
    <2>1. PICK u : u = [t EXCEPT !.fate = "crypto", !.stage = s]
      OBVIOUS
    <2>2. u \in Progress /\ u.stage = s /\ u.read = t.read /\ u.seq = t.seq /\ u.fate = "crypto"
      <3>1. "crypto" \in Fates
        BY DEF Fates
      <3> QED BY <1>4, <2>1, <3>1 DEF Progress
    <2>3. task' = [task EXCEPT ![x] = u] /\ UNCHANGED <<revq, late>>
      <3>1. task' = [task EXCEPT ![x].fate = "crypto", ![x].stage = IF last THEN "end" ELSE "read"]
        BY <1>1, <1>10 DEF SendChunk
      <3>2. UNCHANGED <<revq, late>>
        BY <1>1, <1>10 DEF SendChunk
      <3> QED BY <1>2, <1>3, <1>4, <2>1, <3>1, <3>2 DEF Progress
    <2>4. Level(u, late[x], slot = x) /\ Grown(task[x], u) /\ task[x].stage # "none" /\ u.stage # "plain"
      BY <1>2, <1>3, <1>4, <1>5, <1>7, <2>2 DEF Level, Grown
    <2> QED BY <1>6, <1>8, <2>2, <2>3, <2>4, AloneKeeps DEF Frame
  <1> QED BY <1>9, <1>10

LEMMA ServePlainKeeps == ASSUME IInv, NEW x \in Try, NEW ok \in BOOLEAN, ServePlain(x, ok) PROVE IInv'
  <1>1. PICK k \in Answers : k = (IF ok THEN "body" ELSE "refused")
    BY DEF Answers
  <1>2. task[x].stage = "plain" /\ ~mode.sealed
    BY DEF ServePlain, IInv, Responses
  <1>3. PICK f \in Fates : f = ""
    BY DEF Fates
  <1>4. Ends(x, f)
    BY <1>3, Zenon DEF ServePlain
  <1>5. PICK u \in Progress : /\ task' = [task EXCEPT ![x] = u] /\ u.stage = "end" /\ u.read = task[x].read
                              /\ u.seq = task[x].seq /\ u.fate = IF task[x].fate = "crypto" THEN "crypto" ELSE f
    BY <1>4, TaskFacts, EndsFacts
  <1>6. Level(u, late[x], slot = x) /\ Grown(task[x], u)
    BY <1>2, <1>5, TaskFacts DEF Level, Grown
  <1>7. faults' \in 0..mode.faults
    <2>1. faults' = faults + (IF ok THEN 0 ELSE 1) /\ (ok \/ faults < mode.faults)
      BY Zenon DEF ServePlain
    <2> QED BY <2>1, TaskFacts
  <1>8. /\ rrq' = Append(rrq, Message(k, x))
        /\ UNCHANGED <<link, consumer, mapped, stuck, cut>>
        /\ UNCHANGED <<wire, channels, revq, parked, slot, late>>
    BY <1>1, Zenon DEF ServePlain, Frame
  <1>9. Works(x, u)
    BY <1>2, <1>5, <1>6, <1>7, <1>8, TaskFacts DEF Works
  <1> QED BY <1>9, WorksKeeps

-----------------------------------------------------------------------------
(* Theorems *)

\* Nothing is under way or kept at the start.
LEMMA InitInv == ASSUME Init PROVE IInv
  <1> USE SwarmProxyAssumption
  <1>1. /\ task \in [Try -> Progress] /\ late \in [Try -> Nat]
        /\ \A x \in Try : /\ task[x].stage = "none" /\ task[x].read = 0 /\ task[x].seq = 0 /\ late[x] = 0
                          /\ task[x].fate # "crypto"
    <2>1. \E f \in Fates : f # "crypto" /\ task = [x \in Try |-> [stage |-> "none", read |-> 0, seq |-> 0, fate |-> f]]
      BY Zenon DEF Init, Fates
    <2>2. PICK f \in Fates : f # "crypto" /\ task = [x \in Try |-> [stage |-> "none", read |-> 0, seq |-> 0, fate |-> f]]
      BY <2>1
    <2>3. late = [x \in Try |-> 0]
      BY Zenon DEF Init
    <2>4. "none" \in Stages
      BY DEF Stages
    <2>5. PICK p : p = [stage |-> "none", read |-> 0, seq |-> 0, fate |-> f]
      OBVIOUS
    <2>6. p \in Progress /\ p.stage = "none" /\ p.read = 0 /\ p.seq = 0 /\ p.fate # "crypto"
      BY <2>2, <2>4, <2>5 DEF Progress
    <2>7. task = [x \in Try |-> p]
      BY <2>2, <2>5
    <2> QED BY <2>3, <2>6, <2>7
  <1>2. /\ mode \in Modes /\ up = TRUE /\ breaks = 0 /\ cUp = TRUE /\ pUp = TRUE /\ wire = {} /\ faults = 0
        /\ outcome = [r \in Reqs |-> "new"] /\ queued = {} /\ outstanding = {} /\ failing = {}
        /\ stream = [r \in Reqs |-> NoStream] /\ reorder = [r \in Reqs |-> {}] /\ early = [r \in Reqs |-> {}]
        /\ got = [r \in Reqs |-> <<>>] /\ mapped = TRUE /\ stuck = FALSE /\ channels = {} /\ slot = NoTry
        /\ rrq = <<>> /\ revq = <<>> /\ parked = <<>> /\ cut = {}
    BY Zenon DEF Init
  <1>3. Types
    <2>1. <<>> \in Seq(Word) /\ <<>> \in Seq(Chunk) /\ <<>> \in Seq(Piece)
      OBVIOUS
    <2>2. LinkTypes
      <3>1. mode \in Modes /\ mode.breaks \in Nat /\ mode.faults \in Nat
        BY <1>2
      <3>2. 0 \in 0..mode.breaks /\ 0 \in 0..mode.faults
        BY <3>1
      <3> QED BY <1>2, <3>2 DEF LinkTypes
    <2>3. ConsumerTypes
      BY <1>2, <2>1, FS_EmptySet DEF ConsumerTypes
    <2> QED BY <1>1, <1>2, <2>1, <2>2, <2>3 DEF Types, ManagerTypes, TaskTypes
  <1>4. Responses
    BY <1>1, <1>2 DEF Responses
  <1>5. Housed /\ Cleared /\ Unmade
    BY <1>1, <1>2 DEF Housed, Home, Waiting, Cleared, Unmade
  <1>6. Levels
    BY <1>1 DEF Levels, Level
  <1>7. Sealed /\ MapsDistinct
    BY <1>2 DEF Sealed, MapsDistinct, Distinct
  <1>8. Told
    BY <1>2 DEF Told, Answer
  <1> QED BY <1>3, <1>4, <1>5, <1>6, <1>7, <1>8 DEF IInv

\* Every step keeps the invariant.
LEMMA NextKeeps == ASSUME IInv, Counted, [Next]_vars PROVE IInv'
  <1>1. CASE UNCHANGED vars
    <2>1. /\ UNCHANGED <<mode, up, breaks, cUp, pUp, wire, faults, mapped, stuck, channels, rrq, revq, parked, cut>>
          /\ UNCHANGED <<outcome, queued, outstanding, failing, stream, reorder, early, got>> /\ UNCHANGED serving
      BY <1>1 DEF vars, link, consumer, manager
    <2>2. Types'
      BY <2>1, ServingSame DEF IInv, Types, LinkTypes, ConsumerTypes, ManagerTypes
    <2>3. Responses' /\ Cleared'
      BY <2>1, ServingSame DEF IInv, Responses, Cleared, Id
    <2>4. Serves
      BY <2>1, ServingSame DEF Serves, Waits
    <2> QED BY <2>1, <2>2, <2>3, <2>4, ServingSame, ServesKeeps
  <1>2. CASE ConsumerStep
    BY <1>2, ConsumerConnectedKeeps, LinkKeeps, OutboundFailureKeeps, HandleResponseKeeps, HandleChunkKeeps
       DEF ConsumerStep
  <1>3. CASE ProviderStep
    BY <1>3, ProviderLinkKeeps, SendResponseKeeps, SendReverseKeeps, ReceiveRequestKeeps DEF ProviderStep
  <1>4. CASE TaskStep
    BY <1>4, ClaimKeeps, CheckKeeps, RespondKeeps, ForwardKeeps, ReadPieceKeeps, ReadEndKeeps, FlushKeeps,
       FinalKeeps, SendChunkKeeps, ServePlainKeeps DEF TaskStep
  <1>5. CASE Redial
    BY <1>5, LinkKeeps
  <1>6. CASE Environment
    <2>1. mode.reqs \subseteq Reqs
      BY SwarmProxyAssumption DEF IInv, Types, LinkTypes
    <2> QED BY <1>6, <2>1, ProxyCmdKeeps, ProxyCmdRefusedKeeps, OutboundTimeoutKeeps, LinkKeeps, ProviderLinkKeeps
            DEF Environment
  <1> QED BY <1>1, <1>2, <1>3, <1>4, <1>5, <1>6 DEF Next

\* Of a task only its next piece changes what it has read.
LEMMA CountedSame ==
    ASSUME Counted, UNCHANGED source, \A x \in Try : task'[x].read = task[x].read
    PROVE  Counted'
  BY DEF Counted, source

LEMMA ReadsSame ==
    ASSUME IInv, NEW x \in Try,
           \/ \E s \in Stages : At(x, s)
           \/ \E f \in Fates : Ends(x, f)
    PROVE  \A y \in Try : task'[y].read = task[y].read
  <1>1. task \in [Try -> Progress]
    BY TaskFacts
  <1>2. PICK u \in Progress : task' = [task EXCEPT ![x] = u] /\ u.read = task[x].read
    <2>1. ASSUME NEW s \in Stages, At(x, s)
          PROVE  \E u \in Progress : task' = [task EXCEPT ![x] = u] /\ u.read = task[x].read
      BY <1>1, <2>1, AtFacts
    <2>2. ASSUME NEW f \in Fates, Ends(x, f)
          PROVE  \E u \in Progress : task' = [task EXCEPT ![x] = u] /\ u.read = task[x].read
      BY <1>1, <2>2, EndsFacts
    <2> QED BY <2>1, <2>2
  <1> QED BY <1>1, <1>2

\* A piece is kept or left out.
LEMMA ReadPieceCounts ==
    ASSUME IInv, Counted, NEW x \in Try, NEW whole \in BOOLEAN, ReadPiece(x, whole) PROVE Counted'
  <1>1. /\ task \in [Try -> Progress] /\ Pieces \in Nat
        /\ produced \in [Try -> 0..Pieces] /\ dropped \in [Try -> Nat]
        /\ \A y \in Try : task[y].read + dropped[y] = produced[y] /\ task[y].read \in Nat
    BY TaskFacts DEF Counted
  <1>2. CASE slot = x /\ whole
    <2>1. /\ task' = [task EXCEPT ![x].stage = "flush", ![x].read = @ + 1]
          /\ produced' = [produced EXCEPT ![x] = @ + 1] /\ dropped' = dropped /\ produced[x] < Pieces
      BY <1>2 DEF ReadPiece, Active
    <2>2. task'[x].read = task[x].read + 1 /\ \A y \in Try : y # x => task'[y] = task[y]
      BY <1>1, <2>1 DEF Progress
    <2> QED BY <1>1, <2>1, <2>2 DEF Counted
  <1>3. CASE slot = x /\ ~whole
    <2>1. /\ task' = task /\ produced[x] < Pieces
          /\ produced' = [produced EXCEPT ![x] = @ + 1] /\ dropped' = [dropped EXCEPT ![x] = @ + 1]
      BY <1>3 DEF ReadPiece, Active
    <2> QED BY <1>1, <2>1 DEF Counted
  <1>4. CASE slot # x
    <2>1. PICK f \in Fates : f = "superseded"
      BY DEF Fates
    <2>2. Ends(x, f) /\ UNCHANGED source
      BY <1>4, <2>1 DEF ReadPiece, Active, source
    <2> QED BY <2>2, ReadsSame, CountedSame
  <1> QED BY <1>2, <1>3, <1>4

\* The other steps of a task read nothing.
LEMMA TaskCounts ==
    ASSUME IInv, Counted, NEW x \in Try, NEW ok \in BOOLEAN,
           \/ Claim(x) \/ Respond(x) \/ Flush(x) \/ Check(x, ok) \/ Forward(x, ok) \/ ServePlain(x, ok)
           \/ ReadEnd(x, ok) \/ Final(x, ok) \/ SendChunk(x, ok)
    PROVE  Counted'
  <1>1. UNCHANGED source
    BY DEF Claim, Respond, Flush, Check, Forward, ServePlain, ReadEnd, Final, SendChunk, TaskOnly
  <1>2. task \in [Try -> Progress] /\ task[x] \in Progress
    BY TaskFacts
  <1>3. /\ {"check", "ack", "refuse", "forward", "read", "send", "sendLast"} \subseteq Stages
        /\ {"", "upstream", "superseded", "empty"} \subseteq Fates
    BY DEF Stages, Fates
  <1>4. CASE ReadEnd(x, ok) /\ ~(ok /\ ~Active(x))
    <2>1. task' = [task EXCEPT ![x].stage = "final", ![x].fate = IF ok /\ @ # "crypto" THEN "truncated" ELSE @]
      BY <1>4 DEF ReadEnd
    <2>2. \A y \in Try : task'[y].read = task[y].read
      BY <1>2, <2>1 DEF Progress
    <2> QED BY <1>1, <2>2, CountedSame
  <1>5. CASE SendChunk(x, ok)
    <2>1. \/ \E s : task' = [task EXCEPT ![x].seq = @ + 1, ![x].stage = s]
          \/ \E s : task' = [task EXCEPT ![x].fate = "crypto", ![x].stage = s]
      BY <1>5 DEF SendChunk
    <2>2. \A y \in Try : task'[y].read = task[y].read
      BY <1>2, <2>1 DEF Progress
    <2> QED BY <1>1, <2>2, CountedSame
  <1>6. CASE \/ Claim(x) \/ Respond(x) \/ Flush(x) \/ Check(x, ok) \/ Forward(x, ok) \/ ServePlain(x, ok)
             \/ ReadEnd(x, ok) /\ ok /\ ~Active(x)
             \/ Final(x, ok)
    <2>1. (\E s \in Stages : At(x, s)) \/ \E f \in Fates : Ends(x, f)
      BY <1>3, <1>6 DEF Claim, Respond, Flush, Check, Forward, ServePlain, ReadEnd, Final
    <2> QED BY <1>1, <2>1, ReadsSame, CountedSame
  <1> QED BY <1>4, <1>5, <1>6

LEMMA CountedKeeps == ASSUME IInv, Counted, [Next]_vars PROVE Counted'
  <1>1. CASE \E x \in Try, ok \in BOOLEAN :
               \/ Claim(x) \/ Respond(x) \/ Flush(x) \/ Check(x, ok) \/ Forward(x, ok) \/ ServePlain(x, ok)
               \/ ReadEnd(x, ok) \/ Final(x, ok) \/ SendChunk(x, ok)
    BY <1>1, TaskCounts
  <1>2. CASE \E x \in Try, whole \in BOOLEAN : ReadPiece(x, whole)
    BY <1>2, ReadPieceCounts
  <1>3. CASE UNCHANGED serving
    BY <1>3, CountedSame DEF serving
  <1>4. CASE \E w \in wire, admitted \in BOOLEAN : ReceiveRequest(w, admitted)
    <2>1. PICK w \in wire, admitted \in BOOLEAN : ReceiveRequest(w, admitted)
      BY <1>4
    <2>2. UNCHANGED source
      BY <2>1 DEF ReceiveRequest
    <2>3. w \in Word \cup Packet
      BY DEF IInv, Types
    <2>4. Id(w) \in Try
      BY <2>3, Records
    <2>5. {"claim", "plain"} \subseteq Stages
      BY DEF Stages
    <2>6. UNCHANGED task \/ \E s \in Stages : At(Id(w), s)
      BY <2>1, <2>5 DEF ReceiveRequest, Id
    <2> QED BY <2>2, <2>4, <2>6, ReadsSame, CountedSame
  <1>5. CASE UNCHANGED vars
    BY <1>3, <1>5 DEF vars
  <1>6. CASE TaskStep
    BY <1>1, <1>2, <1>6 DEF TaskStep
  <1>7. CASE ConsumerStep
    <2>1. UNCHANGED serving
      BY <1>7 DEF ConsumerStep, ConsumerConnected, ConsumerClosed, OutboundFailure, HandleResponse, HandleChunk
    <2> QED BY <1>3, <2>1
  <1>8. CASE Redial \/ Environment
    <2>1. UNCHANGED serving
      BY <1>8 DEF Redial, Environment, ProxyCmd, ProxyCmdRefused, OutboundTimeout, Break, ProviderDials
    <2> QED BY <1>3, <2>1
  <1>9. CASE ProviderStep
    <2>1. CASE ProviderConnected \/ ProviderClosed \/ SendResponse \/ SendReverse
      <3>1. UNCHANGED serving
        BY <2>1 DEF ProviderConnected, ProviderClosed, SendResponse, SendReverse
      <3> QED BY <1>3, <3>1
    <2> QED BY <1>4, <1>9, <2>1 DEF ProviderStep
  <1> QED BY <1>5, <1>6, <1>7, <1>8, <1>9 DEF Next

\* The pieces a caller of r was given are those of one task, whose counters bound them.
LEMMA GivenFacts ==
    ASSUME IInv, NEW r \in Reqs, NEW i \in DOMAIN got[r]
    PROVE  /\ got[r] \in Seq(Piece) /\ got[r][i] \in Piece /\ i \in Nat /\ 1 \in DOMAIN got[r] /\ Len(got[r]) \in DOMAIN got[r]
           /\ got[r][i].att = got[r][1].att /\ got[r][i].text \in Nat
           /\ Given(got[r][i], i, Len(got[r]), TaskOf(r))
           /\ TaskOf(r).seq \in 0..(Pieces + 1) /\ TaskOf(r).read \in Nat
  <1>1. got[r] \in Seq(Piece) /\ task \in [Try -> Progress] /\ Answer(r, got[r], stream[r], outcome[r], task)
    BY DEF IInv, Types, ConsumerTypes, TaskTypes, Told
  <1>2. got[r][i] \in Piece /\ i \in Nat /\ 1 \in DOMAIN got[r] /\ Len(got[r]) \in DOMAIN got[r] /\ got[r][1] \in Piece
    BY <1>1
  <1>3. got[r][i].att = got[r][1].att /\ Given(got[r][i], i, Len(got[r]), task[[req |-> r, att |-> got[r][i].att]])
    BY <1>1 DEF Answer
  <1>4. got[r][i].text \in Nat /\ got[r][1].att \in Attempts
    BY <1>2, SwarmProxyAssumption DEF Piece, Seqs
  <1>5. TaskOf(r) \in Progress
    <2>1. [req |-> r, att |-> got[r][1].att] \in Try
      BY <1>4, Records
    <2> QED BY <1>1, <2>1 DEF TaskOf, TryOf
  <1>6. TaskOf(r).seq \in 0..(Pieces + 1) /\ TaskOf(r).read \in Nat
    BY <1>5, SwarmProxyAssumption DEF Progress
  <1> QED BY <1>1, <1>2, <1>3, <1>4, <1>6 DEF TaskOf, TryOf

LEMMA TypesCorrect == ASSUME IInv PROVE TypeOK
  <1>1. ASSUME NEW r \in Reqs PROVE Len(got[r]) <= Pieces + 1
    <2>1. got[r] \in Seq(Piece)
      BY DEF IInv, Types, ConsumerTypes
    <2>2. CASE got[r] = <<>>
      BY <2>2, SwarmProxyAssumption
    <2>3. CASE got[r] # <<>>
      <3>1. PICK n : n = Len(got[r])
        OBVIOUS
      <3>2. n \in DOMAIN got[r] /\ n \in Nat
        BY <2>1, <2>3, <3>1
      <3>3. n <= TaskOf(r).seq /\ TaskOf(r).seq \in 0..(Pieces + 1)
        BY <3>1, <3>2, GivenFacts DEF Given
      <3> QED BY <3>1, <3>2, <3>3, SwarmProxyAssumption
    <2> QED BY <2>2, <2>3
  <1>2. \A r \in Reqs : stream[r] = NoStream
                          \/ (stream[r].att \in 0..MaxAttempts /\ stream[r].next \in 0..Pieces + 1)
    BY DEF IInv, Types, ConsumerTypes, Position, Attempts
  <1>3. \A x \in Try : task[x].stage \in Stages /\ task[x].fate \in Fates
    BY TaskFacts
  <1>4. (\A i \in DOMAIN revq : revq[i] \in Chunk) /\ \A i \in DOMAIN parked : parked[i] \in Chunk
    BY DEF IInv, Types, ManagerTypes
  <1> QED BY <1>1, <1>2, <1>3, <1>4 DEF TypeOK, IInv, Types, LinkTypes, ConsumerTypes, ManagerTypes, TaskTypes

LEMMA HomesCorrect == ASSUME IInv PROVE OneHome
  <1> SUFFICES ASSUME NEW r \in Reqs PROVE Homes(r) = IF Waiting(r) THEN 1 ELSE 0
    BY DEF OneHome
  <1>1. PICK Q, O : Q = {x \in queued : x.req = r} /\ O = {x \in outstanding : x.req = r}
    OBVIOUS
  <1>2. Homes(r) = Cardinality(Q) + Cardinality(O) + (IF stream[r] # NoStream THEN 1 ELSE 0)
    BY <1>1 DEF Homes
  <1>3. Cardinality({}) = 0 /\ \A x : Cardinality({x}) = 1
    BY FS_EmptySet, FS_Singleton
  <1>4. CASE \A x \in Home : x.req # r
    <2>1. Q = {} /\ O = {}
      BY <1>1, <1>4 DEF Home
    <2>2. Waiting(r) <=> stream[r] # NoStream
      BY <1>4 DEF IInv, Housed
    <2> QED BY <1>2, <1>3, <2>1, <2>2
  <1>5. ASSUME NEW x \in Home, x.req = r PROVE Homes(r) = IF Waiting(r) THEN 1 ELSE 0
    <2>1. Waiting(r) /\ stream[r] = NoStream
      BY <1>5 DEF IInv, Housed
    <2>2. \A y \in Home : y.req = r => y = x
      BY <1>5 DEF IInv, Housed
    <2>3. (Q = {x} /\ O = {}) \/ (Q = {} /\ O = {x})
      <3>1. queued \cap outstanding = {}
        BY DEF IInv, Housed
      <3> QED BY <1>1, <1>5, <2>2, <3>1 DEF Home
    <2> QED BY <1>2, <1>3, <2>1, <2>3
  <1> QED BY <1>4, <1>5

LEMMA TextFromInv == ASSUME IInv PROVE TextInOrder
  <1> SUFFICES ASSUME NEW r \in Reqs, NEW i \in DOMAIN got[r]
               PROVE  /\ got[r][i].att = got[r][1].att
                      /\ got[r][i].text = 0 => i = Len(got[r])
                      /\ TaskOf(r).fate # "crypto" =>
                           got[r][i].text = (IF i = TaskOf(r).read + 1 THEN 0 ELSE i)
    BY DEF TextInOrder
  <1>1. /\ got[r][i].att = got[r][1].att /\ got[r][i].text \in Nat /\ i \in Nat
        /\ Given(got[r][i], i, Len(got[r]), TaskOf(r)) /\ TaskOf(r).read \in Nat
    BY GivenFacts
  <1> QED BY <1>1 DEF Given

LEMMA DoneFromInv == ASSUME IInv, Counted PROVE DoneMeansAll
  <1> SUFFICES ASSUME NEW r \in Reqs, outcome[r] = "done", mode.sealed
               PROVE  /\ got[r] # <<>> /\ Last(got[r]).text = 0
                      /\ TaskOf(r).stage = "end"
                      /\ TaskOf(r).fate # "crypto" => Len(got[r]) + LeftOut(r) = Brought(r) + 1
    BY DEF DoneMeansAll
  <1>1. got[r] # <<>> /\ got[r][Len(got[r])].text = 0 /\ got[r] \in Seq(Piece)
    BY DEF IInv, Told, Answer, Types, ConsumerTypes
  <1>2. PICK n : n = Len(got[r])
    OBVIOUS
  <1>3. n \in DOMAIN got[r]
    BY <1>1, <1>2
  <1>4. Given(got[r][n], n, n, TaskOf(r))
    BY <1>2, <1>3, GivenFacts
  <1>5. /\ Last(got[r]).text = 0 /\ TaskOf(r).stage = "end"
        /\ TaskOf(r).fate # "crypto" => n = TaskOf(r).read + 1
    BY <1>1, <1>2, <1>4 DEF Given, Last
  <1>6. TryOf(r) \in Try
    <2>1. got[r][1] \in Piece
      BY <1>3, GivenFacts
    <2> QED BY <2>1, Records DEF TryOf, Piece
  <1>7. /\ TaskOf(r).read + LeftOut(r) = Brought(r)
        /\ TaskOf(r).read \in Nat /\ LeftOut(r) \in Nat
    BY <1>6, TaskFacts DEF Counted, TaskOf, LeftOut, Brought
  <1> QED BY <1>1, <1>2, <1>5, <1>7

\* The inductive invariant holds in every state.
THEOREM ProxyInductive == Spec => [](IInv /\ Counted)
  <1>1. Init => IInv /\ Counted
    <2>1. ASSUME Init PROVE Counted
      <3>1. IInv
        BY <2>1, InitInv
      <3>2. produced = [x \in Try |-> 0] /\ dropped = [x \in Try |-> 0]
        BY <2>1 DEF Init
      <3>3. \A x \in Try : task[x].read = 0
        BY <2>1 DEF Init
      <3> QED BY <3>2, <3>3, SwarmProxyAssumption DEF Counted
    <2> QED BY <2>1, InitInv
  <1>2. IInv /\ Counted /\ [Next]_vars => (IInv /\ Counted)'
    BY NextKeeps, CountedKeeps
  <1> QED BY <1>1, <1>2, PTL DEF Spec

\* The maps of both managers are in step: a request with a caller is in exactly one of
\* the three maps of the consumer's manager, one without a caller in none.
THEOREM ProxyCorrect == Spec => []ProxyInv
  <1>1. IInv => ProxyInv
    BY TypesCorrect, HomesCorrect DEF ProxyInv
  <1> QED BY <1>1, ProxyInductive, PTL

\* What the chunk handling gives a caller is the text of one attempt, in its order.
THEOREM TextCorrect == Spec => []TextInOrder
  <1>1. IInv => TextInOrder
    BY TextFromInv
  <1> QED BY <1>1, ProxyInductive, PTL

\* A sealed reply that is done leaves out nothing the backend brought but the pieces that
\* were not whole UTF-8 and, where an encryption failed, the chunk that was lost.
THEOREM DoneCorrect == Spec => []DoneMeansAll
  <1>1. IInv /\ Counted => DoneMeansAll
    BY DoneFromInv
  <1> QED BY <1>1, ProxyInductive, PTL

\* A task that lost the slot sends at most the chunk it was at.
THEOREM SupersededCorrect == Spec => []SupersededStops
  <1>1. IInv => SupersededStops
    BY DEF IInv, Levels, Level, SupersededStops
  <1> QED BY <1>1, ProxyInductive, PTL

=============================================================================
