--------------------------- MODULE LockOrderProofs ----------------------------
(***************************************************************************)
(* The tasks that share this node's state: the discipline of their locks   *)
(* (LockOrder) for any number of tasks of any roles, and what they make of *)
(* the registry and the lists of models (LocalModels) for any servers,     *)
(* models, clusters and changes. The two share no constant and no          *)
(* variable.                                                               *)
(*                                                                         *)
(* A circle of waiting tasks has a writer of the configuration in it.      *)
(* The invariant says which locks a task holds where in its program, and   *)
(* that a queued request is the operation its task is at.  In a circle     *)
(* without a writer nobody waits for the configuration: the first of them  *)
(* in its queue would wait for a writer.  So nobody waits for AppState,    *)
(* whose holder could only be waiting for the configuration, and then      *)
(* nobody waits for the registry, whose holder waits for one of the two.   *)
(*                                                                         *)
(* A lobby the next poll will leave alone was told what this node offers:  *)
(* the invariant follows an announcement from the hash that stands for it  *)
(* to the lobby (Announced).                                               *)
(***************************************************************************)
EXTENDS LockOrder, LocalModels, FiniteSetTheorems, WellFoundedInduction, TLAPS

-----------------------------------------------------------------------------
(* Programs *)

\* The locks held before each operation of a role's program.
Holding(r) ==
    CASE r = "manager"   -> <<{}, {"config"}, {}, {"registry"}, {"registry", "config"},
                              {"registry", "config", "state"}, {"registry", "config"},
                              {"registry", "config", "state"}, {"registry", "config"},
                              {"registry", "config", "state"}, {"registry", "config"},
                              {"registry"}>>
      [] r = "session"   -> <<{}, {"config"}, {"config", "state"}, {"config"},
                              {"config", "registry"}, {"config", "registry", "state"},
                              {"config", "registry"}, {"config"}>>
      [] r = "remote"    -> <<{}, {"state"}, {"state", "config"}, {"state"}, {}, {"state"}>>
      [] r = "stream"    -> <<{}, {"config"}>>
      [] r = "scheduler" -> <<{}, {"config"}>>
      [] r = "handler"   -> <<{}, {"config"}, {"config", "state"}, {"config"}>>

\* What operation o, between holding h and holding n, may be.
Disciplined(o, h, n) ==
    /\ \/ o.op \in {"read", "write"} /\ o.on = "config"
       \/ o.op = "lock" /\ o.on \in {"state", "registry"}
       \/ o.op = "free" /\ o.on \in Locks
    /\ IF o.op = "free" THEN n = h \ {o.on} ELSE o.on \notin h /\ n = h \cup {o.on}
    /\ "state" \in h /\ o.op # "free" => o.on = "config"
    /\ "registry" \in h /\ o.op # "free" => o.on # "registry"

\* A program p that holds what h says at every operation.
Follows(p, h, n) ==
    /\ DOMAIN p = 1..n /\ Len(p) = n /\ h[1] = {}
    /\ \A i \in 1..n : Disciplined(p[i], h[i], h[IF i = n THEN 1 ELSE i + 1])

\* A sequence after two elements.
LEMMA AfterTwo ==
    ASSUME NEW S, NEW a \in S, NEW b \in S, NEW s \in Seq(S)
    PROVE  /\ Len(<<a, b>> \o s) = Len(s) + 2 /\ DOMAIN (<<a, b>> \o s) = 1..(Len(s) + 2)
           /\ (<<a, b>> \o s)[1] = a /\ (<<a, b>> \o s)[2] = b
           /\ \A i \in 1..Len(s) : (<<a, b>> \o s)[i + 2] = s[i]
  <1>1. <<a, b>> \in Seq(S) /\ Len(<<a, b>>) = 2
    OBVIOUS
  <1> QED BY <1>1

LEMMA SmallPrograms ==
    /\ Follows(SetConnected, Holding("session"), 8)
    /\ Follows(RemoteProxy, Holding("remote"), 6)
    /\ Follows(EncryptedReply, Holding("stream"), 2)
    /\ Follows(ApplySchedules, Holding("scheduler"), 2)
    /\ Follows(ServerHandler, Holding("handler"), 4)
  <1>1. Follows(SetConnected, Holding("session"), 8)
    BY DEF SetConnected, Holding, Follows, Disciplined, Lock, Read, Write, Free, Locks
  <1>2. Follows(RemoteProxy, Holding("remote"), 6)
    BY DEF RemoteProxy, Holding, Follows, Disciplined, Lock, Read, Write, Free, Locks
  <1>3. Follows(EncryptedReply, Holding("stream"), 2)
    BY DEF EncryptedReply, Holding, Follows, Disciplined, Lock, Read, Write, Free, Locks
  <1>4. Follows(ApplySchedules, Holding("scheduler"), 2)
    BY DEF ApplySchedules, Holding, Follows, Disciplined, Lock, Read, Write, Free, Locks
  <1>5. Follows(ServerHandler, Holding("handler"), 4)
    BY DEF ServerHandler, Holding, Follows, Disciplined, Lock, Read, Write, Free, Locks
  <1> QED BY <1>1, <1>2, <1>3, <1>4, <1>5

\* The reconnect tick: the two operations before the status list, then those of it.
LEMMA ManagerProgram == Follows(ManagerTick, Holding("manager"), 12)
  <1> DEFINE Ops == [op: {"lock", "read", "write", "free"}, on: Locks]
             h == Holding("manager")
  <1>1. /\ SyncStatus \in Seq(Ops) /\ Len(SyncStatus) = 10
        /\ Read("config") \in Ops /\ Free("config") \in Ops
    BY DEF SyncStatus, Lock, Read, Free, Locks
  <1> HIDE DEF Ops
  <1>2. /\ Len(ManagerTick) = 12 /\ DOMAIN ManagerTick = 1..12
        /\ ManagerTick[1] = Read("config") /\ ManagerTick[2] = Free("config")
        /\ \A i \in 1..10 : ManagerTick[i + 2] = SyncStatus[i]
    <2>1. /\ Len(ManagerTick) = Len(SyncStatus) + 2
          /\ DOMAIN ManagerTick = 1..(Len(SyncStatus) + 2)
          /\ ManagerTick[1] = Read("config") /\ ManagerTick[2] = Free("config")
          /\ \A i \in 1..Len(SyncStatus) : ManagerTick[i + 2] = SyncStatus[i]
      <3> DEFINE a == Read("config")
                 b == Free("config")
      <3>1. a \in Ops /\ b \in Ops /\ SyncStatus \in Seq(Ops)
        BY <1>1
      <3>2. ManagerTick = <<a, b>> \o SyncStatus
        BY DEF ManagerTick
      <3> HIDE DEF a, b
      <3>3. /\ Len(ManagerTick) = Len(SyncStatus) + 2
            /\ DOMAIN ManagerTick = 1..(Len(SyncStatus) + 2)
            /\ ManagerTick[1] = a /\ ManagerTick[2] = b
            /\ \A i \in 1..Len(SyncStatus) : ManagerTick[i + 2] = SyncStatus[i]
        BY <3>1, <3>2, AfterTwo
      <3> QED BY <3>3 DEF a, b
    <2> QED BY <1>1, <2>1
  <1>3. \A i \in 3..12 : ManagerTick[i] = SyncStatus[i - 2]
    <2> SUFFICES ASSUME NEW i \in 3..12 PROVE ManagerTick[i] = SyncStatus[i - 2]
      OBVIOUS
    <2>1. i - 2 \in 1..10 /\ (i - 2) + 2 = i
      OBVIOUS
    <2> QED BY <1>2, <2>1
  <1>4. \A i \in 1..2 : Disciplined(ManagerTick[i], h[i], h[i + 1])
    BY <1>2 DEF Disciplined, Holding, Read, Free, Locks
  <1>5. \A i \in 3..12 : Disciplined(ManagerTick[i], h[i], h[IF i = 12 THEN 1 ELSE i + 1])
    <2>1. \A i \in 1..10 : Disciplined(SyncStatus[i], h[i + 2], h[IF i = 10 THEN 1 ELSE i + 3])
      BY DEF Disciplined, Holding, SyncStatus, Lock, Read, Free, Locks
    <2> HIDE DEF h
    <2> SUFFICES ASSUME NEW i \in 3..12
                 PROVE  Disciplined(ManagerTick[i], h[i], h[IF i = 12 THEN 1 ELSE i + 1])
      OBVIOUS
    <2>2. /\ i - 2 \in 1..10 /\ (i - 2) + 2 = i
          /\ (IF i - 2 = 10 THEN 1 ELSE (i - 2) + 3) = (IF i = 12 THEN 1 ELSE i + 1)
      OBVIOUS
    <2>3. Disciplined(SyncStatus[i - 2], h[(i - 2) + 2],
                      h[IF i - 2 = 10 THEN 1 ELSE (i - 2) + 3])
      BY <2>1, <2>2
    <2> QED BY <1>3, <2>2, <2>3
  <1>6. h[1] = {}
    BY DEF Holding
  <1> HIDE DEF h
  <1>7. \A i \in 1..12 : Disciplined(ManagerTick[i], h[i], h[IF i = 12 THEN 1 ELSE i + 1])
    <2> SUFFICES ASSUME NEW i \in 1..12
                 PROVE  Disciplined(ManagerTick[i], h[i], h[IF i = 12 THEN 1 ELSE i + 1])
      OBVIOUS
    <2>1. CASE i \in 1..2
      <3>1. (IF i = 12 THEN 1 ELSE i + 1) = i + 1
        BY <2>1
      <3> QED BY <1>4, <2>1, <3>1
    <2>2. CASE i \in 3..12
      BY <1>5, <2>2
    <2> QED BY <2>1, <2>2
  <1> QED BY <1>2, <1>6, <1>7 DEF Follows, h

\* The locks a task holds before its next operation.
Held(t) == Holding(Role[t])[ip[t]]

\* Whatever a task runs, it follows the discipline.
LEMMA TaskFollows ==
    ASSUME NEW t \in Tasks
    PROVE  Follows(Program(t), Holding(Role[t]), Len(Program(t))) /\ Len(Program(t)) \in Nat \ {0}
  <1>1. Role[t] \in Roles
    BY LockOrderAssumption
  <1>2. CASE Role[t] = "manager"
    <2>1. Program(t) = ManagerTick
      BY <1>2 DEF Program
    <2>2. Len(ManagerTick) \in Nat \ {0} /\ Follows(ManagerTick, Holding(Role[t]), Len(ManagerTick))
      BY <1>2, ManagerProgram DEF Follows
    <2> QED BY <2>1, <2>2
  <1>3. CASE Role[t] = "session"
    <2>1. Program(t) = SetConnected
      BY <1>3 DEF Program
    <2>2. Len(SetConnected) \in Nat \ {0} /\ Follows(SetConnected, Holding(Role[t]), Len(SetConnected))
      BY <1>3, SmallPrograms DEF Follows
    <2> QED BY <2>1, <2>2
  <1>4. CASE Role[t] = "remote"
    <2>1. Program(t) = RemoteProxy
      BY <1>4 DEF Program
    <2>2. Len(RemoteProxy) \in Nat \ {0} /\ Follows(RemoteProxy, Holding(Role[t]), Len(RemoteProxy))
      BY <1>4, SmallPrograms DEF Follows
    <2> QED BY <2>1, <2>2
  <1>5. CASE Role[t] = "stream"
    <2>1. Program(t) = EncryptedReply
      BY <1>5 DEF Program
    <2>2. Len(EncryptedReply) \in Nat \ {0} /\ Follows(EncryptedReply, Holding(Role[t]), Len(EncryptedReply))
      BY <1>5, SmallPrograms DEF Follows
    <2> QED BY <2>1, <2>2
  <1>6. CASE Role[t] = "scheduler"
    <2>1. Program(t) = ApplySchedules
      BY <1>6 DEF Program
    <2>2. Len(ApplySchedules) \in Nat \ {0} /\ Follows(ApplySchedules, Holding(Role[t]), Len(ApplySchedules))
      BY <1>6, SmallPrograms DEF Follows
    <2> QED BY <2>1, <2>2
  <1>7. CASE Role[t] = "handler"
    <2>1. Program(t) = ServerHandler
      BY <1>7 DEF Program
    <2>2. Len(ServerHandler) \in Nat \ {0} /\ Follows(ServerHandler, Holding(Role[t]), Len(ServerHandler))
      BY <1>7, SmallPrograms DEF Follows
    <2> QED BY <2>1, <2>2
  <1> QED BY <1>1, <1>2, <1>3, <1>4, <1>5, <1>6, <1>7 DEF Roles

-----------------------------------------------------------------------------
(* The inductive invariant of the locks *)

\* Who was granted a lock holds it where he is in his program; the configuration is a
\* lock of readers and writers.
GrantsHeld ==
    \A l \in Locks : \A g \in held[l] :
        l \in Held(g.task) /\ (l = "config" => g.mode # "lock")

\* A queued request is the operation its task is at.
QueuedIsNext ==
    \A l \in Locks : \A i \in DOMAIN queue[l] :
        LET q == queue[l][i] IN Op(q.task).on = l /\ Op(q.task).op = q.mode

\* A task is in a queue once.
QueuedOnce ==
    \A l \in Locks : \A i, j \in DOMAIN queue[l] :
        queue[l][i].task = queue[l][j].task => i = j

IInv == TypeOK /\ GrantsHeld /\ QueuedIsNext /\ QueuedOnce

\* The operation a task is at, and what it holds before and after.
LEMMA AtOp ==
    ASSUME TypeOK, NEW t \in Tasks
    PROVE  /\ Op(t).on \in Locks
           /\ Op(t).op \in {"lock", "read", "write", "free"}
           /\ Op(t).on = "config" => Op(t).op # "lock"
           /\ Op(t).op # "free" => Op(t).on \notin Held(t)
           /\ "state" \in Held(t) /\ Op(t).op # "free" => Op(t).on = "config"
           /\ "registry" \in Held(t) /\ Op(t).op # "free" => Op(t).on # "registry"
  <1> DEFINE n == Len(Program(t))
             i == ip[t]
  <1>1. Follows(Program(t), Holding(Role[t]), n)
    BY TaskFollows
  <1>2. i \in 1..n
    BY <1>1 DEF TypeOK, Follows
  <1>3. Disciplined(Program(t)[i], Holding(Role[t])[i],
                    Holding(Role[t])[IF i = n THEN 1 ELSE i + 1])
    BY <1>1, <1>2 DEF Follows
  <1> QED BY <1>3 DEF Disciplined, Held, Op, Locks

\* Advancing keeps a task in its program, takes or leaves the lock of its operation, and
\* moves no other task.
LEMMA Advances ==
    ASSUME TypeOK, NEW t \in Tasks, Advance(t)
    PROVE  /\ DOMAIN ip' = Tasks /\ \A u \in Tasks : ip'[u] \in DOMAIN Program(u)
           /\ \A u \in Tasks \ {t} : Held(u)' = Held(u) /\ Op(u)' = Op(u)
           /\ Held(t)' = IF Op(t).op = "free" THEN Held(t) \ {Op(t).on}
                                              ELSE Held(t) \cup {Op(t).on}
  <1> DEFINE n == Len(Program(t))
             i == ip[t]
             j == IF i = n THEN 1 ELSE i + 1
  <1>1. Follows(Program(t), Holding(Role[t]), n) /\ n \in Nat \ {0}
    BY TaskFollows
  <1>2. i \in 1..n /\ j \in 1..n
    <2>1. ip[t] \in DOMAIN Program(t) /\ DOMAIN Program(t) = 1..n
      BY <1>1 DEF TypeOK, Follows
    <2> HIDE DEF n
    <2> QED BY <1>1, <2>1
  <1>3. Disciplined(Program(t)[i], Holding(Role[t])[i], Holding(Role[t])[j])
    BY <1>1, <1>2 DEF Follows
  <1>4. /\ ip' = [ip EXCEPT ![t] = j] /\ DOMAIN ip' = Tasks
        /\ \A u \in Tasks : ip[u] \in DOMAIN Program(u)
    BY DEF Advance, TypeOK
  <1>5. \A u \in Tasks : ip'[u] = IF u = t THEN j ELSE ip[u]
    BY <1>4 DEF TypeOK
  <1>6. DOMAIN Program(t) = 1..n
    BY <1>1 DEF Follows
  <1>7. \A u \in Tasks : ip'[u] \in DOMAIN Program(u)
    BY <1>2, <1>4, <1>5, <1>6
  <1>8. \A u \in Tasks \ {t} : Held(u)' = Held(u) /\ Op(u)' = Op(u)
    BY <1>5 DEF Held, Op, Program
  <1>9. Held(t)' = Holding(Role[t])[j] /\ Held(t) = Holding(Role[t])[i]
        /\ Op(t) = Program(t)[i]
    BY <1>5 DEF Held, Op
  <1>10. Held(t)' = IF Op(t).op = "free" THEN Held(t) \ {Op(t).on} ELSE Held(t) \cup {Op(t).on}
    BY <1>3, <1>9 DEF Disciplined
  <1> QED BY <1>4, <1>7, <1>8, <1>10

\* Nothing is held or queued at the start.
LEMMA InitInv == Init => IInv
  <1> SUFFICES ASSUME Init PROVE IInv
    OBVIOUS
  <1>1. \A t \in Tasks : 1 \in DOMAIN Program(t)
    BY TaskFollows DEF Follows
  <1>2. TypeOK
    BY <1>1 DEF Init, TypeOK
  <1>3. GrantsHeld /\ QueuedIsNext /\ QueuedOnce
    BY DEF Init, GrantsHeld, QueuedIsNext, QueuedOnce
  <1> QED BY <1>2, <1>3 DEF IInv

\* Asking enqueues the task's operation, behind what was queued.
LEMMA AskInv ==
    ASSUME IInv, NEW t \in Tasks, Ask(t)
    PROVE  IInv'
  <1> DEFINE l == Op(t).on
             r == [task |-> t, mode |-> Op(t).op]
             n == Len(queue[l])
  <1>1. /\ l \in Locks /\ r \in Request /\ ~Waiting(t)
        /\ queue' = [queue EXCEPT ![l] = Append(queue[l], r)] /\ ip' = ip /\ held' = held
    <2>1. l \in Locks /\ Op(t).op \in {"lock", "read", "write"} /\ ~Waiting(t)
      BY AtOp DEF IInv, Ask
    <2> QED BY <2>1 DEF Ask, Request
  <1>2. /\ queue \in [Locks -> Seq(Request)] /\ queue[l] \in Seq(Request) /\ n \in Nat
        /\ queue' \in [Locks -> Seq(Request)]
        /\ queue'[l] = Append(queue[l], r)
        /\ \A k \in Locks \ {l} : queue'[k] = queue[k]
    <2>1. queue \in [Locks -> Seq(Request)] /\ queue[l] \in Seq(Request)
      BY <1>1 DEF IInv, TypeOK
    <2>2. Append(queue[l], r) \in Seq(Request) /\ n \in Nat
      BY <1>1, <2>1
    <2> HIDE DEF l, r
    <2> QED BY <1>1, <2>1, <2>2
  <1> HIDE DEF r
  <1>3. /\ DOMAIN queue'[l] = 1..(n + 1) /\ DOMAIN queue[l] = 1..n
        /\ queue'[l][n + 1] = r /\ \A i \in 1..n : queue'[l][i] = queue[l][i]
    BY <1>1, <1>2
  <1>4. r.task = t /\ r.mode = Op(t).op
    BY DEF r
  <1>5. \A k \in Locks : \A i \in DOMAIN queue[k] : queue[k][i].task # t
    BY <1>1 DEF Waiting, Queued
  <1> HIDE DEF l, n
  <1>6. TypeOK'
    BY <1>1, <1>2 DEF IInv, TypeOK, Program
  <1>7. GrantsHeld'
    BY <1>1 DEF IInv, GrantsHeld, Held
  <1>8. QueuedIsNext'
    <2> SUFFICES ASSUME NEW k \in Locks, NEW i \in DOMAIN queue'[k]
                 PROVE  /\ Op(queue'[k][i].task).on = k
                        /\ Op(queue'[k][i].task).op = queue'[k][i].mode
      BY <1>1 DEF QueuedIsNext, Op
    <2>1. CASE k = l /\ i = n + 1
      BY <2>1, <1>3, <1>4 DEF l
    <2>2. CASE ~(k = l /\ i = n + 1)
      <3>1. i \in DOMAIN queue[k] /\ queue'[k][i] = queue[k][i]
        BY <2>2, <1>2, <1>3
      <3> QED BY <3>1 DEF IInv, QueuedIsNext
    <2> QED BY <2>1, <2>2
  <1>9. QueuedOnce'
    <2> SUFFICES ASSUME NEW k \in Locks, NEW i \in DOMAIN queue'[k], NEW j \in DOMAIN queue'[k],
                        queue'[k][i].task = queue'[k][j].task
                 PROVE  i = j
      BY DEF QueuedOnce
    <2>1. CASE k # l
      BY <2>1, <1>2 DEF IInv, QueuedOnce
    <2>2. CASE k = l
      <3>1. CASE i \in 1..n /\ j \in 1..n
        <4>1. /\ i \in DOMAIN queue[l] /\ j \in DOMAIN queue[l]
              /\ queue[l][i].task = queue[l][j].task
          BY <2>2, <3>1, <1>3
        <4> QED BY <4>1, <1>1 DEF IInv, QueuedOnce
      <3>2. CASE i \notin 1..n \/ j \notin 1..n
        <4>1. \A m \in 1..n : queue'[l][m].task # t
          BY <1>1, <1>3, <1>5
        <4>2. \A m \in DOMAIN queue'[l] : m \in 1..n \/ m = n + 1
          BY <1>2, <1>3
        <4> QED BY <2>2, <3>2, <4>1, <4>2, <1>3, <1>4
      <3> QED BY <3>1, <3>2
    <2> QED BY <2>1, <2>2
  <1> QED BY <1>6, <1>7, <1>8, <1>9 DEF IInv

\* A release is the operation of a task that is in no queue.
LEMMA ReleaseInv ==
    ASSUME IInv, NEW t \in Tasks, Release(t)
    PROVE  IInv'
  <1> DEFINE l == Op(t).on
  <1>1. /\ l \in Locks /\ Op(t).op = "free" /\ Advance(t) /\ queue' = queue
        /\ held' = [held EXCEPT ![l] = {g \in held[l] : g.task # t}]
        /\ held \in [Locks -> SUBSET Request]
    BY AtOp DEF IInv, TypeOK, Release
  <1> HIDE DEF l
  <1>2. /\ DOMAIN ip' = Tasks /\ \A u \in Tasks : ip'[u] \in DOMAIN Program(u)
        /\ \A u \in Tasks \ {t} : Held(u)' = Held(u) /\ Op(u)' = Op(u)
        /\ Held(t)' = Held(t) \ {l}
    BY <1>1, Advances DEF IInv, l
  <1>3. /\ held'[l] = {g \in held[l] : g.task # t}
        /\ \A k \in Locks \ {l} : held'[k] = held[k]
        /\ held' \in [Locks -> SUBSET Request]
    BY <1>1
  <1>4. TypeOK'
    BY <1>1, <1>2, <1>3 DEF IInv, TypeOK, Program
  <1>5. GrantsHeld'
    <2> SUFFICES ASSUME NEW k \in Locks, NEW g \in held'[k]
                 PROVE  k \in Held(g.task)' /\ (k = "config" => g.mode # "lock")
      BY DEF GrantsHeld
    <2>1. /\ g \in held[k] /\ g.task \in Tasks /\ k \in Held(g.task)
          /\ k = "config" => g.mode # "lock"
      BY <1>1, <1>3 DEF IInv, GrantsHeld, Request
    <2>2. CASE g.task = t
      BY <2>1, <2>2, <1>2, <1>3
    <2>3. CASE g.task # t
      BY <2>1, <2>3, <1>2
    <2> QED BY <2>2, <2>3
  <1>6. QueuedIsNext'
    <2> SUFFICES ASSUME NEW k \in Locks, NEW i \in DOMAIN queue[k],
                        NEW u, u = queue[k][i].task
                 PROVE  Op(u)'.on = k /\ Op(u)'.op = queue[k][i].mode
      BY <1>1 DEF QueuedIsNext, Op
    <2>1. queue[k][i] \in Request /\ Op(u).on = k /\ Op(u).op = queue[k][i].mode
      BY DEF IInv, QueuedIsNext, TypeOK
    <2>2. u \in Tasks \ {t}
      BY <2>1, <1>1 DEF Request
    <2> QED BY <2>1, <2>2, <1>2
  <1>7. QueuedOnce'
    BY <1>1 DEF IInv, QueuedOnce
  <1> QED BY <1>4, <1>5, <1>6, <1>7 DEF IInv

\* A grant goes to the task of the oldest request, which is in no other queue.
LEMMA GrantInv ==
    ASSUME IInv, NEW l \in Locks, Grant(l)
    PROVE  IInv'
  <1> PICK r : r = Head(queue[l])
    OBVIOUS
  <1> PICK t : t = r.task
    OBVIOUS
  <1> DEFINE n == Len(queue[l])
  <1>1. /\ queue \in [Locks -> Seq(Request)] /\ held \in [Locks -> SUBSET Request]
        /\ queue[l] \in Seq(Request) /\ queue[l] # <<>> /\ n \in Nat \ {0}
        /\ r \in Request /\ r = queue[l][1] /\ 1 \in DOMAIN queue[l] /\ DOMAIN queue[l] = 1..n
        /\ t \in Tasks
    <2>1. queue \in [Locks -> Seq(Request)] /\ held \in [Locks -> SUBSET Request]
          /\ queue[l] \in Seq(Request) /\ queue[l] # <<>>
      BY DEF IInv, TypeOK, Grant
    <2>2. n \in Nat \ {0} /\ r = queue[l][1] /\ DOMAIN queue[l] = 1..n /\ r \in Request
      BY <2>1
    <2> QED BY <2>1, <2>2 DEF Request
  <1>2. /\ held' = [held EXCEPT ![l] = held[l] \cup {r}]
        /\ queue' = [queue EXCEPT ![l] = Tail(queue[l])]
        /\ Advance(t)
    BY DEF Grant
  <1>3. Op(t).on = l /\ Op(t).op = r.mode /\ Op(t).op # "free"
    <2>1. Op(t).on = l /\ Op(t).op = r.mode
      BY <1>1 DEF IInv, QueuedIsNext
    <2> QED BY <2>1, <1>1 DEF Request
  <1>4. /\ DOMAIN ip' = Tasks /\ \A u \in Tasks : ip'[u] \in DOMAIN Program(u)
        /\ \A u \in Tasks \ {t} : Held(u)' = Held(u) /\ Op(u)' = Op(u)
        /\ Held(t)' = Held(t) \cup {l}
    BY <1>1, <1>2, <1>3, Advances DEF IInv
  <1>5. /\ queue'[l] = Tail(queue[l]) /\ held'[l] = held[l] \cup {r}
        /\ \A k \in Locks \ {l} : queue'[k] = queue[k] /\ held'[k] = held[k]
    BY <1>1, <1>2
  <1>6. /\ Tail(queue[l]) \in Seq(Request) /\ DOMAIN queue'[l] = 1..(n - 1)
        /\ \A i \in 1..(n - 1) : queue'[l][i] = queue[l][i + 1]
    BY <1>1, <1>5
  <1>7. /\ queue' \in [Locks -> Seq(Request)] /\ held' \in [Locks -> SUBSET Request]
    BY <1>1, <1>2, <1>6
  <1> HIDE DEF n
  <1>8. TypeOK'
    BY <1>4, <1>7 DEF TypeOK, Program
  <1>9. GrantsHeld'
    <2> SUFFICES ASSUME NEW k \in Locks, NEW g \in held'[k]
                 PROVE  k \in Held(g.task)' /\ (k = "config" => g.mode # "lock")
      BY DEF GrantsHeld
    <2>1. g \in Request
      BY <1>7
    <2>2. CASE g \in held[k]
      <3>1. k \in Held(g.task) /\ g.task \in Tasks /\ (k = "config" => g.mode # "lock")
        BY <2>1, <2>2 DEF IInv, GrantsHeld, Request
      <3> QED BY <3>1, <1>4
    <2>3. CASE g \notin held[k]
      <3>1. k = l /\ g = r
        BY <2>3, <1>5
      <3>2. k = "config" => g.mode # "lock"
        BY <3>1, <1>1, <1>3, AtOp DEF IInv
      <3> QED BY <3>1, <3>2, <1>1, <1>4
    <2> QED BY <2>2, <2>3
  \* What is still queued was queued before, of another task.
  <1>10. ASSUME NEW k \in Locks, NEW i \in DOMAIN queue'[k]
         PROVE  \E j \in DOMAIN queue[k] :
                  /\ queue'[k][i] = queue[k][j] /\ queue[k][j].task \in Tasks \ {t}
                  /\ j = IF k = l THEN i + 1 ELSE i
    <2>1. CASE k = l
      <3>1. i + 1 \in DOMAIN queue[l] /\ i + 1 # 1 /\ queue'[l][i] = queue[l][i + 1]
        BY <2>1, <1>1, <1>6
      <3>2. queue[l][i + 1].task # queue[l][1].task
        BY <3>1, <1>1 DEF IInv, QueuedOnce
      <3>3. queue[l][i + 1].task \in Tasks
        <4>1. queue[l][i + 1] \in Request
          BY <3>1, <1>1
        <4> QED BY <4>1 DEF Request
      <3> QED BY <2>1, <3>1, <3>2, <3>3, <1>1
    <2>2. CASE k # l
      <3>1. i \in DOMAIN queue[k] /\ queue'[k] = queue[k]
        BY <2>2, <1>5
      <3>2. Op(queue[k][i].task).on = k /\ queue[k][i].task \in Tasks
        <4>1. queue[k][i] \in Request
          BY <3>1, <1>1
        <4> QED BY <3>1, <4>1 DEF IInv, QueuedIsNext, Request
      <3> QED BY <2>2, <3>1, <3>2, <1>3
    <2> QED BY <2>1, <2>2
  <1>11. QueuedIsNext'
    <2> SUFFICES ASSUME NEW k \in Locks, NEW i \in DOMAIN queue'[k],
                        NEW u, u = queue'[k][i].task
                 PROVE  Op(u)'.on = k /\ Op(u)'.op = queue'[k][i].mode
      BY DEF QueuedIsNext, Op
    <2>1. PICK j \in DOMAIN queue[k] :
            queue'[k][i] = queue[k][j] /\ queue[k][j].task \in Tasks \ {t}
      BY <1>10
    <2>2. u \in Tasks \ {t} /\ Op(u).on = k /\ Op(u).op = queue'[k][i].mode
      BY <2>1 DEF IInv, QueuedIsNext
    <2> QED BY <2>2, <1>4
  <1>12. QueuedOnce'
    <2> SUFFICES ASSUME NEW k \in Locks, NEW i \in DOMAIN queue'[k], NEW j \in DOMAIN queue'[k],
                        queue'[k][i].task = queue'[k][j].task
                 PROVE  i = j
      BY DEF QueuedOnce
    <2>1. CASE k # l
      BY <2>1, <1>5 DEF IInv, QueuedOnce
    <2>2. CASE k = l
      <3>1. /\ i + 1 \in DOMAIN queue[l] /\ j + 1 \in DOMAIN queue[l] /\ i \in Nat /\ j \in Nat
            /\ queue[l][i + 1].task = queue[l][j + 1].task
        BY <2>2, <1>1, <1>6
      <3>2. i + 1 = j + 1
        BY <3>1 DEF IInv, QueuedOnce
      <3> QED BY <3>1, <3>2
    <2> QED BY <2>1, <2>2
  <1> QED BY <1>8, <1>9, <1>11, <1>12 DEF IInv

\* Every step preserves the invariant.
LEMMA NextInv == IInv /\ [Next]_vars => IInv'
  <1> SUFFICES ASSUME IInv, [Next]_vars PROVE IInv'
    OBVIOUS
  <1>1. CASE \E t \in Tasks : Ask(t) \/ Release(t)
    BY <1>1, AskInv, ReleaseInv
  <1>2. CASE \E l \in Locks : Grant(l)
    BY <1>2, GrantInv
  <1>3. CASE UNCHANGED vars
    <2>1. ip' = ip /\ queue' = queue /\ held' = held
      BY <1>3 DEF vars
    <2>2. TypeOK'
      BY <2>1 DEF IInv, TypeOK
    <2>3. GrantsHeld'
      BY <2>1 DEF IInv, GrantsHeld, Held
    <2>4. QueuedIsNext' /\ QueuedOnce'
      BY <2>1 DEF IInv, QueuedIsNext, Op, QueuedOnce
    <2> QED BY <2>2, <2>3, <2>4 DEF IInv
  <1> QED BY <1>1, <1>2, <1>3 DEF Next

-----------------------------------------------------------------------------
(* The circle *)

\* A set of natural numbers that is not empty has a least one.
LEMMA Least ==
    ASSUME NEW T \in SUBSET Nat, T # {}
    PROVE  \E x \in T : \A y \in T : x <= y
  <1> DEFINE R == {ss \in Nat \X Nat : ss[1] < ss[2]}
  <1>1. IsWellFoundedOn(R, Nat)
    BY NatLessThanWellFounded DEF OpToRel
  <1> HIDE DEF R
  <1>2. PICK x \in T : \A y \in T : ~ (<<y, x>> \in R)
    BY <1>1, WFMin
  <1>3. \A y \in T : ~(y < x)
    BY <1>2 DEF R
  <1> QED BY <1>2, <1>3

\* The first of a circle in a queue waits for a member of the circle that holds the lock.
LEMMA FirstWaitsForHolder ==
    ASSUME IInv, NEW S \in SUBSET Tasks, Circular(S),
           NEW l \in Locks, \E t \in S : Queued(t, l)
    PROVE  \E i \in DOMAIN queue[l] : \E g \in held[l] :
             /\ queue[l][i].task \in S /\ g.task \in S
             /\ ~Compatible(g, queue[l][i])
  <1> DEFINE T == {i \in DOMAIN queue[l] : queue[l][i].task \in S}
  <1>1. queue[l] \in Seq(Request) /\ DOMAIN queue[l] = 1..Len(queue[l]) /\ Len(queue[l]) \in Nat
    BY DEF IInv, TypeOK
  <1>2. T # {} /\ T \in SUBSET Nat
    BY <1>1 DEF Queued
  <1>3. PICK i \in T : \A j \in T : i <= j
    BY <1>2, Least
  <1>4. PICK u \in S : WaitsFor(queue[l][i].task, u)
    BY <1>3 DEF Circular
  <1>5. PICK k \in Locks : \E m \in DOMAIN queue[k] :
          /\ queue[k][m].task = queue[l][i].task
          /\ \/ \E g \in held[k] : g.task = u /\ ~Compatible(g, queue[k][m])
             \/ \E j \in 1..(m-1) : queue[k][j].task = u
    BY <1>4 DEF WaitsFor
  <1>6. PICK m \in DOMAIN queue[k] :
          /\ queue[k][m].task = queue[l][i].task
          /\ \/ \E g \in held[k] : g.task = u /\ ~Compatible(g, queue[k][m])
             \/ \E j \in 1..(m-1) : queue[k][j].task = u
    BY <1>5
  <1>7. k = l /\ m = i
    <2>1. k = l
      BY <1>3, <1>6 DEF IInv, QueuedIsNext
    <2> QED BY <2>1, <1>3, <1>6 DEF IInv, QueuedOnce
  <1>8. ~ \E j \in 1..(i-1) : queue[l][j].task = u
    <2> SUFFICES ASSUME NEW j \in 1..(i-1), queue[l][j].task = u PROVE FALSE
      OBVIOUS
    <2>1. j \in T /\ i \in Nat /\ j < i /\ j \in Nat
      BY <1>1, <1>3
    <2> QED BY <2>1, <1>3
  <1> QED BY <1>3, <1>4, <1>6, <1>7, <1>8

\* What a task of a circle that holds a lock waits for is another lock.
LEMMA HolderWaits ==
    ASSUME IInv, NEW S \in SUBSET Tasks, Circular(S),
           NEW l \in Locks, NEW g \in held[l], g.task \in S
    PROVE  \E k \in Locks :
             /\ Queued(g.task, k) /\ k # l
             /\ l = "state" => k = "config"
  <1>1. PICK k \in Locks : Queued(g.task, k)
    BY DEF Circular, WaitsFor, Queued
  <1>2. PICK i \in DOMAIN queue[k] : queue[k][i].task = g.task
    BY <1>1 DEF Queued
  <1>3. queue[k][i] \in Request /\ Op(g.task).on = k /\ Op(g.task).op = queue[k][i].mode
    BY <1>2 DEF IInv, TypeOK, QueuedIsNext
  <1>4. Op(g.task).op # "free"
    BY <1>3 DEF Request
  <1>5. l \in Held(g.task)
    BY DEF IInv, GrantsHeld
  <1> QED BY <1>1, <1>3, <1>4, <1>5, AtOp DEF IInv

\* A circle without a writer of the configuration does not wait for anything.
LEMMA NoCircle == IInv => CircleNeedsWriter
  <1> SUFFICES ASSUME IInv, NEW S \in SUBSET Tasks, Circular(S), \A t \in S : ~Writes(t)
               PROVE  FALSE
    BY DEF CircleNeedsWriter
  <1>1. ASSUME NEW t \in S, Queued(t, "config") PROVE FALSE
    <2>1. "config" \in Locks
      BY DEF Locks
    <2>2. PICK i \in DOMAIN queue["config"], g \in held["config"] :
            /\ queue["config"][i].task \in S /\ g.task \in S
            /\ ~Compatible(g, queue["config"][i])
      BY <1>1, <2>1, FirstWaitsForHolder
    <2>3. g \in Request /\ queue["config"][i] \in Request
      BY <2>1, <2>2 DEF IInv, TypeOK
    <2>4. g.mode # "write" /\ queue["config"][i].mode # "write"
      BY <2>2, <2>3 DEF Writes, Request
    <2>5. PICK u \in Tasks : u = queue["config"][i].task
      BY <2>3 DEF Request
    <2>6. queue["config"][i].mode # "lock"
      BY <2>1, <2>2, <2>5, AtOp DEF IInv, QueuedIsNext
    <2>7. g.mode # "lock"
      BY <2>1, <2>2 DEF IInv, GrantsHeld
    <2> QED BY <2>2, <2>3, <2>4, <2>6, <2>7 DEF Compatible, Request
  <1>2. ASSUME NEW t \in S, Queued(t, "state") PROVE FALSE
    <2>1. "state" \in Locks
      BY DEF Locks
    <2>2. PICK g \in held["state"] : g.task \in S
      BY <1>2, <2>1, FirstWaitsForHolder
    <2>3. Queued(g.task, "config")
      BY <2>1, <2>2, HolderWaits
    <2> QED BY <1>1, <2>2, <2>3
  <1>3. ASSUME NEW t \in S, Queued(t, "registry") PROVE FALSE
    <2>1. "registry" \in Locks
      BY DEF Locks
    <2>2. PICK g \in held["registry"] : g.task \in S
      BY <1>3, <2>1, FirstWaitsForHolder
    <2>3. \E k \in Locks : Queued(g.task, k) /\ k # "registry"
      BY <2>1, <2>2, HolderWaits
    <2> QED BY <1>1, <1>2, <2>2, <2>3 DEF Locks
  <1>4. PICK t \in S : \E l \in Locks : Queued(t, l)
    BY DEF Circular, WaitsFor, Queued
  <1> QED BY <1>1, <1>2, <1>3, <1>4 DEF Locks

-----------------------------------------------------------------------------
(* Theorems about the locks *)

\* The inductive invariant holds of every behaviour, however many tasks run.
THEOREM LockInductive == Spec => []IInv
  <1> QED BY InitInv, NextInv, PTL DEF Spec

\* No task waits for itself, and tasks that wait for each other in a circle have a writer
\* of the configuration among them, whatever the number of lobby sessions, requests,
\* handlers and managers.
THEOREM LocksCorrect == Spec => []LockInv
  <1>1. IInv => NoReentry
    <2> SUFFICES ASSUME IInv, NEW l \in Locks, NEW i \in DOMAIN queue[l], NEW g \in held[l],
                        g.task = queue[l][i].task
                 PROVE  FALSE
      BY DEF NoReentry
    <2>1. queue[l][i] \in Request /\ l \in Held(g.task)
      BY DEF IInv, TypeOK, GrantsHeld
    <2>2. Op(g.task).on = l /\ Op(g.task).op = queue[l][i].mode
      BY DEF IInv, QueuedIsNext
    <2>3. g.task \in Tasks /\ Op(g.task).op # "free"
      BY <2>1, <2>2 DEF Request
    <2> QED BY <2>1, <2>2, <2>3, AtOp DEF IInv
  <1>2. IInv => LockInv
    BY <1>1, NoCircle DEF IInv, LockInv
  <1> QED BY <1>2, LockInductive, PTL

-----------------------------------------------------------------------------
(* The inductive invariant of the registry and the lists *)

Bools(S)   == UNION {[D -> BOOLEAN] : D \in SUBSET S}
Told       == UNION {[D -> Servers] : D \in SUBSET Models}
Catalogues == UNION {[D -> [server : Servers, loaded : BOOLEAN]] : D \in SUBSET Models}
Pairs      == Seq([server : Servers, models : Bools(Models)])
Sums       == [kind : {"none", "maintenance", "noservers", "models"}, models : Told]
CopyType    == [attached : SUBSET Servers, order : [Servers -> Nat]]

Ops == {"none", "add", "attach", "detach", "delete", "patch", "hide", "maintenance", "pause",
        "key", "load", "cell"}

TaskType == [pc : {"idle", "save", "sync", "list", "write", "copy", "probe", "check", "none",
                 "filter", "store", "tell"},
           op : Ops, todo : Seq(Servers), pairs : Pairs, copy : CopyType,
           force : BOOLEAN, any : BOOLEAN, seen : Nat, last : Sums, out : Told]

CaseType   == [clusters : SUBSET Clusters, attached : SUBSET Servers,
               order : [Servers -> Nat], ops : SUBSET STRING,
               changes : Nat, faults : Nat, drops : Nat]
ConfigType == [known : SUBSET Servers, attached : SUBSET Servers, local : SUBSET Servers,
               hidden : SUBSET Models, order : [Servers -> Nat], accepts : SUBSET Clusters]
LobbyType  == [online : BOOLEAN, seen : Nat, models : Told, accepting : BOOLEAN]

\* The types of all variables but the servers' own (loaded, up).
Shapes ==
  /\ case \in CaseType /\ config \in ConfigType
  /\ DOMAIN registry \subseteq Servers
  /\ routes \in Catalogues /\ list \in Catalogues
  /\ hash \in Sums /\ version \in Nat
  /\ lobby \in [Clusters -> LobbyType]
  /\ task \in [Workers -> TaskType]

\* A runtime has a server in use, or was put back.
Used ==
  /\ config.attached \subseteq config.known /\ config.local \subseteq config.known
  /\ DOMAIN registry \subseteq config.attached \cup revived

\* The versions noted are past ones, and only the editor saves.
Dated ==
  /\ \A t \in Workers : task[t].seen <= version /\ (task[t].pc = "save" => t = "editor")
  /\ \A k \in Clusters : lobby[k].seen <= version

ModelsIInv == Shapes /\ Used /\ Dated

-----------------------------------------------------------------------------
(* Catalogues and orders *)

\* A finite set of natural numbers that is not empty has a greatest one.
LEMMA GreatestIn ==
    ASSUME NEW S \in SUBSET Nat, IsFiniteSet(S), S # {}
    PROVE  \E x \in S : \A y \in S : y <= x
  <1> DEFINE Bad(T) == T \in SUBSET S /\ T # {} /\ ~ \E x \in T : \A y \in T : y <= x
             Sizes == {n \in Nat : \E T \in SUBSET S : Bad(T) /\ Cardinality(T) = n}
  <1>1. ASSUME Bad(S) PROVE FALSE
    <2>1. Sizes \in SUBSET Nat /\ Sizes # {}
      BY <1>1, FS_CardinalityType
    <2>2. PICK n \in Sizes : \A m \in Sizes : n <= m
      <3> HIDE DEF Sizes
      <3> QED
        BY <2>1, Least
    <2>3. PICK T \in SUBSET S : Bad(T) /\ Cardinality(T) = n
      BY <2>2
    <2>4. PICK x \in T : TRUE
      BY <2>3
    <2>5. IsFiniteSet(T) /\ n \in Nat
      BY FS_Subset, <2>2
    <2>6. IsFiniteSet(T \ {x}) /\ Cardinality(T \ {x}) = n - 1 /\ n - 1 \in Nat
      <3>1. IsFiniteSet(T \ {x}) /\ Cardinality(T \ {x}) = n - 1
        BY <2>3, <2>4, <2>5, FS_RemoveElement
      <3> QED
        BY <3>1, FS_CardinalityType
    <2>7. ~Bad(T \ {x})
      <3>1. ASSUME Bad(T \ {x}) PROVE n - 1 \in Sizes
        BY <3>1, <2>6
      <3> HIDE DEF Sizes, Bad
      <3> QED
        BY <3>1, <2>2, <2>5, <2>6
    <2>8. CASE T = {x}
      BY <2>8, <2>3
    <2>9. CASE T # {x}
      <3>1. PICK z \in T \ {x} : \A y \in T \ {x} : y <= z
        BY <2>7, <2>9, <2>4
      <3>2. x \in Nat /\ z \in Nat
        BY <3>1
      <3>3. CASE x <= z
        BY <3>1, <3>3, <2>3
      <3>4. CASE z <= x
        <4>1. \A y \in T : y <= x
          BY <3>1, <3>2, <3>4
        <4> QED
          BY <4>1, <2>3
      <3> QED
        BY <3>2, <3>3, <3>4
    <2> QED
      BY <2>8, <2>9
  <1> QED
    BY <1>1

\* The order of a server attached next is one.
LEMMA NextOrderIsNat ==
    ASSUME Shapes
    PROVE  NextOrder \in Nat
  <1> DEFINE orders == {config.order[s] : s \in config.attached}
             n == CHOOSE n \in orders : \A k \in orders : k <= n
  <1>1. IsFiniteSet(config.attached) /\ config.attached \in SUBSET Servers
        /\ config.order \in [Servers -> Nat]
    BY ModelsAssumption, FS_Subset DEF Shapes, ConfigType
  <1>2. IsFiniteSet(orders) /\ orders \in SUBSET Nat
    <2> DEFINE f == [s \in config.attached |-> config.order[s]]
    <2>1. f \in Surjection(config.attached, orders) /\ orders \in SUBSET Nat
      BY <1>1 DEF Surjection
    <2> HIDE DEF f, orders
    <2> QED
      BY <1>1, <2>1, FS_Surjection
  <1>3. ASSUME orders # {} PROVE n \in Nat
    <2> HIDE DEF orders
    <2>1. \E x \in orders : \A y \in orders : y <= x
      BY <1>2, <1>3, GreatestIn
    <2> QED
      BY <2>1, <1>2
  <1>4. NextOrder = IF orders = {} THEN 0 ELSE 1 + n
    BY DEF NextOrder
  <1> HIDE DEF orders, n
  <1> QED
    BY <1>3, <1>4

\* Nothing, as a catalogue or as what is told of one.
LEMMA NothingTold == NoModels \in Told /\ NoModels \in Catalogues /\ NoModels \in Pairs
  <1>1. NoModels \in [{} -> Servers] /\ NoModels \in [{} -> [server : Servers, loaded : BOOLEAN]]
    BY DEF NoModels
  <1>2. NoModels \in Pairs
    <2> DEFINE X == [server : Servers, models : Bools(Models)]
    <2>1. NoModels \in Seq(X)
      <3> HIDE DEF X
      <3> QED
        BY DEF NoModels
    <2> QED
      BY <2>1 DEF Pairs
  <1> QED
    BY <1>1, <1>2 DEF Told, Catalogues

\* What was found at the servers makes a catalogue.
LEMMA MergeIsCatalogue ==
    ASSUME NEW pairs \in Pairs
    PROVE  Merge(pairs) \in Catalogues
  <1> DEFINE Offering(m) == {i \in DOMAIN pairs : m \in DOMAIN pairs[i].models}
             First(m) == CHOOSE i \in Offering(m) : \A j \in Offering(m) : i <= j
             entry(m) == [server |-> pairs[First(m)].server,
                          loaded |-> pairs[First(m)].models[m]]
             D == {m \in Models : Offering(m) # {}}
  <1>1. /\ pairs \in [1..Len(pairs) -> [server : Servers, models : Bools(Models)]]
        /\ Len(pairs) \in Nat
    <2> DEFINE X == [server : Servers, models : Bools(Models)]
    <2>1. pairs \in Seq(X)
      BY DEF Pairs
    <2>2. pairs \in [1..Len(pairs) -> X] /\ Len(pairs) \in Nat
      <3> HIDE DEF X
      <3> QED
        BY <2>1
    <2> QED
      BY <2>2
  <1>2. ASSUME NEW m \in D
        PROVE  entry(m) \in [server : Servers, loaded : BOOLEAN]
    <2>1. Offering(m) \in SUBSET Nat /\ Offering(m) # {}
      BY <1>1
    <2>2. First(m) \in Offering(m)
      <3> HIDE DEF Offering
      <3>1. \E i \in Offering(m) : \A j \in Offering(m) : i <= j
        BY <2>1, Least
      <3> QED
        BY <3>1
    <2>3. /\ First(m) \in DOMAIN pairs /\ m \in DOMAIN pairs[First(m)].models
          /\ pairs[First(m)] \in [server : Servers, models : Bools(Models)]
      <3> HIDE DEF First
      <3> QED
        BY <1>1, <2>2
    <2> HIDE DEF First, Offering
    <2>4. pairs[First(m)].models[m] \in BOOLEAN
      BY <2>3 DEF Bools
    <2> QED
      BY <2>3, <2>4
  <1>3. Merge(pairs) = [m \in D |-> entry(m)]
    BY DEF Merge
  <1> HIDE DEF D, entry
  <1>4. Merge(pairs) \in [D -> [server : Servers, loaded : BOOLEAN]]
    BY <1>2, <1>3
  <1>5. D \in SUBSET Models
    BY DEF D
  <1> QED
    BY <1>4, <1>5 DEF Catalogues

\* What is told of a catalogue names servers of this node.
LEMMA FilterIsTold ==
    ASSUME NEW c \in Catalogues
    PROVE  Filter(c) \in Told /\ FilterNames(c) \in Told
  <1>1. PICK D \in SUBSET Models : c \in [D -> [server : Servers, loaded : BOOLEAN]]
    BY DEF Catalogues
  <1> DEFINE F == {m \in DOMAIN c : /\ c[m].loaded /\ m \notin config.hidden
                                    /\ c[m].server \notin config.local}
             G == {m \in DOMAIN c : c[m].loaded /\ m \notin config.hidden}
  <1>2. F \in SUBSET Models /\ G \in SUBSET Models
    BY <1>1
  <1>3. [m \in F |-> c[m].server] \in [F -> Servers] /\ [m \in G |-> c[m].server] \in [G -> Servers]
    BY <1>1
  <1>4. Filter(c) = [m \in F |-> c[m].server] /\ FilterNames(c) = [m \in G |-> c[m].server]
    BY DEF Filter, FilterNames
  <1> HIDE DEF F, G
  <1> QED
    BY <1>2, <1>3, <1>4 DEF Told

\* The servers of a registry in order.
LEMMA OrdersAreSeqs ==
    ASSUME NEW servers, DOMAIN servers \subseteq Servers, NEW q \in Orders(servers)
    PROVE  q \in Seq(Servers)
  <1>1. IsFiniteSet(DOMAIN servers)
    BY ModelsAssumption, FS_Subset
  <1>2. Cardinality(DOMAIN servers) \in Nat
    BY <1>1, FS_CardinalityType
  <1>3. q \in [1..Cardinality(DOMAIN servers) -> DOMAIN servers]
    BY DEF Orders
  <1> QED
    BY <1>2, <1>3

\* What a server has when it is asked.
LEMMA SnapshotInPairs ==
    ASSUME NEW s \in Servers
    PROVE  Snapshot(s) \in [server : Servers, models : Bools(Models)]
  <1>1. [m \in Installed[s] |-> m \in loaded[s]] \in [Installed[s] -> BOOLEAN]
    OBVIOUS
  <1>2. Installed[s] \in SUBSET Models
    BY ModelsAssumption
  <1> QED
    BY <1>1, <1>2 DEF Snapshot, Bools

-----------------------------------------------------------------------------
(* Where a task stands *)

\* Where a task begins.
LEMMA AtIsTask ==
    ASSUME NEW pc \in {"idle", "save", "sync", "list", "write", "copy", "probe", "check", "none",
                       "filter", "store", "tell"}
    PROVE  /\ At(pc) \in TaskType /\ At(pc).pc = pc /\ At(pc).seen = 0 /\ At(pc).op = "none"
           /\ ~At(pc).force /\ At(pc).out = NoModels
  <1>1. NoSum \in Sums /\ NoCopy \in CopyType
    BY NothingTold DEF NoSum, Sum, Sums, NoCopy, CopyType
  <1>2. /\ <<>> \in Seq(Servers)
        /\ NoModels \in Pairs /\ NoModels \in Told /\ NoModels = <<>>
    BY NothingTold DEF NoModels
  <1> HIDE DEF Sums, CopyType, Pairs, Told, NoSum, NoCopy
  <1> QED
    BY <1>1, <1>2 DEF At, TaskType, Ops

\* One task goes on.
LEMMA TaskSet ==
    ASSUME Shapes, Dated, NEW t \in Workers, NEW r \in TaskType,
           task' = [task EXCEPT ![t] = r],
           version' \in Nat, version <= version', r.seen <= version',
           r.pc = "save" => t = "editor"
    PROVE  /\ task' \in [Workers -> TaskType] /\ task'[t] = r
           /\ \A u \in Workers : u # t => task'[u] = task[u]
           /\ \A u \in Workers : task'[u].seen <= version' /\ (task'[u].pc = "save" => u = "editor")
  <1>1. /\ task' \in [Workers -> TaskType] /\ task'[t] = r
        /\ \A u \in Workers : u # t => task'[u] = task[u]
    BY DEF Shapes
  <1>2. \A u \in Workers : task[u].seen \in Nat /\ r.seen \in Nat
    BY DEF Shapes, TaskType
  <1>3. ASSUME NEW u \in Workers
        PROVE  task'[u].seen <= version' /\ (task'[u].pc = "save" => u = "editor")
    <2>1. CASE u = t
      BY <2>1, <1>1
    <2>2. CASE u # t
      BY <2>2, <1>1, <1>2 DEF Dated, Shapes
    <2> QED
      BY <2>1, <2>2
  <1> QED
    BY <1>1, <1>3

\* A change of the configuration that is saved.
LEMMA EditedTask ==
    ASSUME ModelsIInv, NEW op \in Ops, NEW change, Edit(op, change, "save"),
           UNCHANGED <<version, lobby>>
    PROVE  case' \in CaseType /\ task' \in [Workers -> TaskType] /\ Dated'
  <1>1. case' \in CaseType
    BY DEF Edit, May, Spend, ModelsIInv, Shapes, CaseType
  <1> DEFINE r == [At("save") EXCEPT !.op = op]
  <1>2. r \in TaskType /\ r.seen = 0
    BY AtIsTask DEF TaskType
  <1>3. task' = [task EXCEPT !["editor"] = r] /\ "editor" \in Workers
    BY DEF Edit, Workers, Handlers
  <1> HIDE DEF r
  <1>4. version \in Nat /\ version' = version
    BY DEF ModelsIInv, Shapes
  <1>5. /\ task' \in [Workers -> TaskType]
        /\ \A u \in Workers : task'[u].seen <= version' /\ (task'[u].pc = "save" => u = "editor")
    <2>1. version' \in Nat /\ version <= version' /\ r.seen <= version' /\ Shapes /\ Dated
      BY <1>2, <1>4 DEF ModelsIInv
    <2> QED
      BY <1>2, <1>3, <2>1, TaskSet
  <1>6. Dated'
    BY <1>4, <1>5 DEF ModelsIInv, Dated
  <1> QED
    BY <1>1, <1>5, <1>6

-----------------------------------------------------------------------------
(* The handlers that hold the write guard *)

LEMMA AddServerStep ==
    ASSUME ModelsIInv, NEW s \in Servers, AddServer(s)
    PROVE  ModelsIInv'
  <1> DEFINE change == [config EXCEPT !.known = @ \cup {s}, !.order[s] = NextOrder]
  <1>1. Edit("add", change, "save") /\ config' = change
    BY DEF AddServer, Edit
  <1>2. /\ change \in ConfigType
        /\ change.known = config.known \cup {s} /\ change.attached = config.attached
        /\ change.local = config.local
    BY NextOrderIsNat DEF ModelsIInv, Shapes, ConfigType
  <1> HIDE DEF change
  <1>3. UNCHANGED <<registry, routes, list, hash, version, lobby, revived>>
    BY DEF AddServer, Rest
  <1>4. case' \in CaseType /\ task' \in [Workers -> TaskType] /\ Dated'
    <2>1. "add" \in Ops
      BY DEF Ops
    <2> QED
      BY <2>1, <1>1, <1>3, EditedTask
  <1>5. Used'
    BY <1>1, <1>2, <1>3 DEF ModelsIInv, Used
  <1> QED
    BY <1>1, <1>2, <1>3, <1>4, <1>5 DEF ModelsIInv, Shapes

LEMMA AttachStep ==
    ASSUME ModelsIInv, NEW s \in Servers, Attach(s)
    PROVE  ModelsIInv'
  <1> DEFINE order == IF s \in config.attached THEN config.order[s] ELSE NextOrder
             change == [config EXCEPT !.attached = @ \cup {s}, !.order[s] = order]
  <1>1. order \in Nat
    BY NextOrderIsNat DEF ModelsIInv, Shapes, ConfigType
  <1>2. /\ Edit("attach", change, "save") /\ config' = change /\ s \in config.known
        /\ registry' = [r \in DOMAIN registry \cup {s} |->
                          IF r = s THEN [order |-> order, connected |-> TRUE] ELSE registry[r]]
    BY DEF Attach, Edit
  <1> HIDE DEF order
  <1>3. /\ change \in ConfigType
        /\ change.known = config.known /\ change.attached = config.attached \cup {s}
        /\ change.local = config.local
    BY <1>1 DEF ModelsIInv, Shapes, ConfigType
  <1> HIDE DEF change
  <1>4. UNCHANGED <<routes, list, hash, version, lobby, revived>>
    BY DEF Attach, Rest
  <1>5. case' \in CaseType /\ task' \in [Workers -> TaskType] /\ Dated'
    <2>1. "attach" \in Ops
      BY DEF Ops
    <2> QED
      BY <2>1, <1>2, <1>4, EditedTask
  <1>6. DOMAIN registry' = DOMAIN registry \cup {s}
    BY <1>2
  <1>7. Used'
    BY <1>2, <1>3, <1>4, <1>6 DEF ModelsIInv, Used
  <1> QED
    BY <1>2, <1>3, <1>4, <1>5, <1>6, <1>7 DEF ModelsIInv, Shapes

LEMMA RemoveStep ==
    ASSUME ModelsIInv, NEW s \in Servers, Detach(s) \/ DeleteServer(s)
    PROVE  ModelsIInv'
  <1>1. PICK op \in Ops, change \in ConfigType :
          /\ Remove(s, op, change)
          /\ change.attached = config.attached \ {s}
          /\ \/ change.known = config.known /\ change.local = config.local
             \/ change.known = config.known \ {s} /\ change.local = config.local \ {s}
    <2>1. CASE Detach(s)
      <3> DEFINE change == [config EXCEPT !.attached = @ \ {s}]
      <3>1. /\ change \in ConfigType /\ change.attached = config.attached \ {s}
            /\ change.known = config.known /\ change.local = config.local
        BY DEF ModelsIInv, Shapes, ConfigType
      <3>2. Remove(s, "detach", change)
        BY <2>1 DEF Detach
      <3>3. "detach" \in Ops
        BY DEF Ops
      <3> HIDE DEF change
      <3> QED
        BY <3>1, <3>2, <3>3
    <2>2. CASE DeleteServer(s)
      <3> DEFINE change == [config EXCEPT !.known = @ \ {s}, !.attached = @ \ {s},
                                          !.local = @ \ {s}]
      <3>1. /\ change \in ConfigType /\ change.attached = config.attached \ {s}
            /\ change.known = config.known \ {s} /\ change.local = config.local \ {s}
        BY DEF ModelsIInv, Shapes, ConfigType
      <3>2. Remove(s, "delete", change)
        BY <2>2 DEF DeleteServer
      <3>3. "delete" \in Ops
        BY DEF Ops
      <3> HIDE DEF change
      <3> QED
        BY <3>1, <3>2, <3>3
    <2> QED
      BY <2>1, <2>2
  <1>2. /\ Edit(op, change, "save") /\ config' = change
        /\ DOMAIN registry' = DOMAIN registry \ {s}
        /\ routes' = NoModels /\ UNCHANGED <<list, hash, version, lobby, revived>>
    BY <1>1 DEF Remove, Edit, Without, Rest
  <1>3. case' \in CaseType /\ task' \in [Workers -> TaskType] /\ Dated'
    BY <1>2, EditedTask
  <1>4. Used'
    BY <1>1, <1>2 DEF ModelsIInv, Used
  <1> QED
    BY <1>1, <1>2, <1>3, <1>4, NothingTold DEF ModelsIInv, Shapes

LEMMA SettingsStep ==
    ASSUME ModelsIInv, SetVisibility \/ Maintenance \/ \E s \in Servers : PatchServer(s)
    PROVE  ModelsIInv'
  <1>1. PICK op \in Ops, change \in ConfigType :
          /\ Edit(op, change, "save") /\ change.attached = config.attached
          /\ change.known = config.known /\ change.local \subseteq config.known
    <2>1. DOMAIN list \in SUBSET Models
      BY DEF ModelsIInv, Shapes, Catalogues
    <2>2. \A hidden \in SUBSET Models :
            /\ [config EXCEPT !.hidden = hidden] \in ConfigType
            /\ [config EXCEPT !.hidden = hidden].attached = config.attached
            /\ [config EXCEPT !.hidden = hidden].known = config.known
            /\ [config EXCEPT !.hidden = hidden].local \subseteq config.known
      BY DEF ModelsIInv, Shapes, Used, ConfigType
    <2>3. \A accepts \in SUBSET Clusters :
            /\ [config EXCEPT !.accepts = accepts] \in ConfigType
            /\ [config EXCEPT !.accepts = accepts].attached = config.attached
            /\ [config EXCEPT !.accepts = accepts].known = config.known
            /\ [config EXCEPT !.accepts = accepts].local \subseteq config.known
      BY DEF ModelsIInv, Shapes, Used, ConfigType
    <2>4. CASE SetVisibility
      <3>1. PICK hidden \in SUBSET Models : Edit("hide", [config EXCEPT !.hidden = hidden], "save")
        <4>1. \A m \in Models : Flip(m, config.hidden) \in SUBSET Models
          BY DEF Flip, ModelsIInv, Shapes, ConfigType
        <4>2. {} \in SUBSET Models
          OBVIOUS
        <4> QED
          BY <2>1, <2>4, <4>1, <4>2 DEF SetVisibility
      <3> QED
        BY <2>2, <3>1 DEF Ops
    <2>5. CASE Maintenance
      <3>1. PICK accepts \in SUBSET Clusters, op \in {"maintenance", "pause"} :
              Edit(op, [config EXCEPT !.accepts = accepts], "save")
        <4>1. \A k \in Clusters : Flip(k, config.accepts) \in SUBSET Clusters
          BY DEF Flip, ModelsIInv, Shapes, ConfigType
        <4>2. {{}, Clusters} \subseteq SUBSET Clusters
          OBVIOUS
        <4> QED
          BY <2>5, <4>1, <4>2 DEF Maintenance
      <3>2. op \in Ops
        BY DEF Ops
      <3> QED
        BY <2>3, <3>1, <3>2
    <2>6. ASSUME NEW s \in Servers, PatchServer(s)
          PROVE  \E op \in Ops, change \in ConfigType :
                   /\ Edit(op, change, "save") /\ change.attached = config.attached
                   /\ change.known = config.known /\ change.local \subseteq config.known
      <3> DEFINE op == IF s \in config.attached THEN "patch" ELSE "add"
                 change == [config EXCEPT !.local = Flip(s, @)]
      <3>1. /\ change \in ConfigType /\ change.attached = config.attached
            /\ change.known = config.known /\ change.local \subseteq config.known
        BY <2>6 DEF PatchServer, Flip, ModelsIInv, Shapes, Used, ConfigType
      <3>2. Edit(op, change, "save") /\ op \in Ops
        BY <2>6 DEF PatchServer, Ops
      <3> HIDE DEF op, change
      <3> QED
        BY <3>1, <3>2
    <2> QED
      BY <2>4, <2>5, <2>6
  <1>2. /\ config' = change
        /\ UNCHANGED <<registry, routes, list, hash, version, lobby, revived>>
    BY <1>1 DEF Edit, SetVisibility, Maintenance, PatchServer, Rest
  <1>3. case' \in CaseType /\ task' \in [Workers -> TaskType] /\ Dated'
    BY <1>1, <1>2, EditedTask
  <1>4. Used'
    BY <1>1, <1>2 DEF ModelsIInv, Used
  <1> QED
    BY <1>1, <1>2, <1>3, <1>4 DEF ModelsIInv, Shapes

-----------------------------------------------------------------------------
(* The rebuilds *)

\* Steps that leave the configuration alone and take one task on.
LEMMA Moved ==
    ASSUME ModelsIInv, NEW t \in Workers, NEW r \in TaskType,
           task' = [task EXCEPT ![t] = r], r.pc # "save",
           r.seen = 0 \/ r.seen = task[t].seen \/ r.seen = version,
           version' = version \/ version' = version + 1,
           lobby' \in [Clusters -> LobbyType], \A k \in Clusters : lobby'[k].seen <= version
    PROVE  version' \in Nat /\ task' \in [Workers -> TaskType] /\ Dated'
  <1>1. version \in Nat /\ version' \in Nat /\ version <= version'
    BY DEF ModelsIInv, Shapes
  <1>2. task[t].seen \in Nat /\ task[t].seen <= version
    BY DEF ModelsIInv, Shapes, Dated, TaskType
  <1>3. r.seen <= version' /\ Shapes /\ Dated
    BY <1>1, <1>2 DEF ModelsIInv
  <1>4. /\ task' \in [Workers -> TaskType]
        /\ \A u \in Workers : task'[u].seen <= version' /\ (task'[u].pc = "save" => u = "editor")
    BY <1>1, <1>3, TaskSet
  <1>5. \A k \in Clusters : lobby'[k].seen \in Nat
    BY DEF LobbyType
  <1>6. Dated'
    BY <1>1, <1>4, <1>5 DEF Dated
  <1> QED
    BY <1>1, <1>4, <1>6

\* What a version becomes is the next one at most.
LEMMA BumpIsNext == \A op : Bump(op) = version \/ Bump(op) = version + 1
  BY DEF Bump

LEMMA WorkersAre ==
    /\ "editor" \in Workers /\ "copier" \in Workers /\ "monitor" \in Workers
    /\ \A k \in Clusters : k \in Workers /\ k \notin Handlers
  BY ModelsAssumption DEF Workers, Handlers

\* The copy of the configuration taken, and the lobbies, as they are.
LEMMA CopyTyped ==
    ASSUME ModelsIInv
    PROVE  /\ Copy \in CopyType
           /\ lobby \in [Clusters -> LobbyType] /\ \A k \in Clusters : lobby[k].seen <= version
  BY DEF ModelsIInv, Shapes, Dated, ConfigType, Copy, CopyType

LEMMA SaveStep ==
    ASSUME ModelsIInv, Save
    PROVE  ModelsIInv'
  <1>1. PICK r \in TaskType : task' = [task EXCEPT !["editor"] = r] /\ r.seen = 0 /\ r.pc # "save"
    <2>1. Idle \in TaskType /\ Idle.pc = "idle" /\ Idle.seen = 0
      BY AtIsTask DEF Idle
    <2>2. task["editor"].op \in Ops
      BY WorkersAre DEF ModelsIInv, Shapes, TaskType
    <2> DEFINE s == [At("sync") EXCEPT !.op = task["editor"].op, !.copy = Copy]
    <2>3. s \in TaskType /\ s.pc = "sync" /\ s.seen = 0
      BY <2>2, AtIsTask, CopyTyped DEF TaskType
    <2>4. \/ task' = [task EXCEPT !["editor"] = Idle]
          \/ task' = [task EXCEPT !["editor"] = s]
      BY DEF Save
    <2> HIDE DEF s
    <2> QED
      BY <2>1, <2>3, <2>4
  <1>2. version' = version \/ version' = version + 1
    BY BumpIsNext DEF Save
  <1>3. /\ UNCHANGED <<config, registry, routes, list, hash, lobby, revived>>
        /\ case' \in CaseType
    BY DEF Save, ModelsIInv, Shapes, CaseType
  <1>4. version' \in Nat /\ task' \in [Workers -> TaskType] /\ Dated'
    BY <1>1, <1>2, <1>3, Moved, CopyTyped, WorkersAre
  <1>5. Used'
    BY <1>3 DEF ModelsIInv, Used
  <1> QED
    BY <1>3, <1>4, <1>5 DEF ModelsIInv, Shapes

LEMMA SyncStep ==
    ASSUME ModelsIInv, NEW t \in Workers, Sync(t)
    PROVE  ModelsIInv'
  <1> DEFINE copy == task[t].copy
             missing == copy.attached \ DOMAIN registry
             Enter(new) == /\ registry' = Entered(copy, new)
                           /\ revived' = (revived \cap copy.attached) \cup (new \ config.attached)
  <1>1. task[t] \in TaskType /\ copy \in CopyType
    BY DEF ModelsIInv, Shapes, TaskType
  <1>2. PICK new \in SUBSET missing : Enter(new)
    BY DEF Sync
  <1>3. /\ DOMAIN registry' = (DOMAIN registry \cap copy.attached) \cup new
        /\ revived' = (revived \cap copy.attached) \cup (new \ config.attached)
    BY <1>2 DEF Entered
  <1>4. DOMAIN registry' \subseteq Servers
    BY <1>1, <1>3 DEF CopyType
  <1>5. DOMAIN registry' \subseteq config.attached \cup revived'
    BY <1>3 DEF ModelsIInv, Used
  <1> HIDE DEF copy, missing, Enter
  <1>6. PICK r \in TaskType : task' = [task EXCEPT ![t] = r] /\ r.pc # "save"
                              /\ (r.seen = 0 \/ r.seen = task[t].seen)
    <2>1. Idle \in TaskType /\ Idle.pc = "idle" /\ Idle.seen = 0
      BY AtIsTask DEF Idle
    <2>2. CASE task' = [task EXCEPT ![t] = Idle]
      BY <2>1, <2>2
    <2>3. CASE task' = [task EXCEPT ![t].pc = "write"]
      <3> DEFINE r == [task[t] EXCEPT !.pc = "write"]
      <3>1. task' = [task EXCEPT ![t] = r]
        BY <2>3
      <3>2. r \in TaskType /\ r.pc = "write" /\ r.seen = task[t].seen
        BY <1>1 DEF TaskType
      <3> HIDE DEF r
      <3> QED
        BY <3>1, <3>2
    <2>4. ASSUME NEW q \in Orders(registry'), task' = [task EXCEPT ![t].pc = "list", ![t].todo = q]
          PROVE  \E r \in TaskType : task' = [task EXCEPT ![t] = r] /\ r.pc # "save"
                                     /\ (r.seen = 0 \/ r.seen = task[t].seen)
      <3> DEFINE r == [task[t] EXCEPT !.pc = "list", !.todo = q]
      <3>1. task' = [task EXCEPT ![t] = r]
        BY <2>4 DEF ModelsIInv, Shapes
      <3>2. q \in Seq(Servers)
        BY <1>4, OrdersAreSeqs
      <3>3. r \in TaskType /\ r.pc = "list" /\ r.seen = task[t].seen
        BY <1>1, <3>2 DEF TaskType
      <3> HIDE DEF r
      <3> QED
        BY <3>1, <3>3
    <2> QED
      BY <2>2, <2>3, <2>4 DEF Sync
  <1>7. version' = version \/ version' = version + 1
    BY BumpIsNext DEF Sync
  <1>8. UNCHANGED <<config, routes, list, hash, lobby>> /\ case' \in CaseType
    <2>1. case \in CaseType
      BY DEF ModelsIInv, Shapes
    <2>2. case' = case \/ (case.faults > 0 /\ case' = [case EXCEPT !.faults = @ - 1])
      BY DEF Sync
    <2>3. UNCHANGED <<config, routes, list, hash, lobby>>
      BY DEF Sync
    <2> QED
      BY <2>1, <2>2, <2>3 DEF CaseType
  <1>9. version' \in Nat /\ task' \in [Workers -> TaskType] /\ Dated'
    BY <1>6, <1>7, <1>8, Moved, CopyTyped
  <1>10. Used'
    BY <1>5, <1>8 DEF ModelsIInv, Used
  <1> QED
    BY <1>4, <1>8, <1>9, <1>10 DEF ModelsIInv, Shapes

\* The catalogue is asked for, and written, from what the task has found.
LEMMA ListStep ==
    ASSUME ModelsIInv, NEW t \in Workers, List(t)
    PROVE  ModelsIInv'
  <1> DEFINE s == Head(task[t].todo)
             found == IF s \in DOMAIN registry /\ s \in up
                      THEN Append(task[t].pairs, Snapshot(s)) ELSE task[t].pairs
             r == [task[t] EXCEPT !.todo = Tail(@), !.pairs = found]
  <1>1. task[t] \in TaskType
    BY DEF ModelsIInv, Shapes
  <1>2. task[t].todo \in Seq(Servers) /\ task[t].pairs \in Pairs /\ task[t].todo # <<>>
        /\ task[t].pc = "list"
    BY <1>1 DEF TaskType, List
  <1>3. found \in Pairs
    <2>1. CASE s \in DOMAIN registry /\ s \in up
      <3>1. Snapshot(s) \in [server : Servers, models : Bools(Models)]
        BY <2>1, SnapshotInPairs DEF ModelsIInv, Shapes
      <3> DEFINE X == [server : Servers, models : Bools(Models)]
      <3>2. Append(task[t].pairs, Snapshot(s)) \in Seq(X)
        <4>1. task[t].pairs \in Seq(X) /\ Snapshot(s) \in X
          BY <1>2, <3>1 DEF Pairs
        <4> HIDE DEF X
        <4> QED
          BY <4>1
      <3> QED
        BY <2>1, <3>2 DEF Pairs
    <2>2. CASE ~(s \in DOMAIN registry /\ s \in up)
      BY <1>2, <2>2
    <2> QED
      BY <2>1, <2>2
  <1>4. Tail(task[t].todo) \in Seq(Servers)
    BY <1>2
  <1>5. task' = [task EXCEPT ![t] = r]
    BY DEF List, ModelsIInv, Shapes
  <1>6. DOMAIN registry' = DOMAIN registry
    BY DEF List
  <1> HIDE DEF found
  <1>7. r \in TaskType /\ r.pc = "list" /\ r.seen = task[t].seen
    BY <1>1, <1>2, <1>3, <1>4 DEF TaskType
  <1> HIDE DEF r
  <1>8. UNCHANGED <<case, config, routes, list, hash, version, lobby, revived>>
    BY DEF List
  <1>9. version' \in Nat /\ task' \in [Workers -> TaskType] /\ Dated'
    BY <1>5, <1>7, <1>8, Moved, CopyTyped
  <1>10. Used'
    BY <1>6, <1>8 DEF ModelsIInv, Used
  <1> QED
    BY <1>6, <1>8, <1>9, <1>10 DEF ModelsIInv, Shapes

LEMMA CommitStep ==
    ASSUME ModelsIInv, NEW t \in Workers, Commit(t) \/ WriteList(t)
    PROVE  ModelsIInv'
  <1>1. task[t] \in TaskType /\ task[t].pairs \in Pairs
    BY DEF ModelsIInv, Shapes, TaskType
  <1>2. Merge(task[t].pairs) \in Catalogues
    BY <1>1, MergeIsCatalogue
  <1>3. PICK r \in TaskType : task' = [task EXCEPT ![t] = r] /\ r.pc # "save"
                              /\ (r.seen = 0 \/ r.seen = task[t].seen)
    <2>1. CASE Commit(t)
      <3> DEFINE pc == IF t \in Handlers THEN "write" ELSE "filter"
                 r == [task[t] EXCEPT !.pc = pc]
      <3>1. task' = [task EXCEPT ![t] = r]
        BY <2>1 DEF Commit
      <3>2. r \in TaskType /\ r.pc # "save" /\ r.seen = task[t].seen
        BY <1>1 DEF TaskType
      <3> HIDE DEF r
      <3> QED
        BY <3>1, <3>2
    <2>2. CASE WriteList(t)
      <3>1. Idle \in TaskType /\ Idle.pc = "idle" /\ Idle.seen = 0
        BY AtIsTask DEF Idle
      <3> QED
        BY <2>2, <3>1 DEF WriteList
    <2> QED
      BY <2>1, <2>2
  <1>4. version' = version \/ version' = version + 1
    BY BumpIsNext DEF Commit, WriteList
  <1>5. /\ UNCHANGED <<case, config, registry, hash, lobby, revived>>
        /\ routes' \in Catalogues /\ list' \in Catalogues
    BY <1>2 DEF Commit, WriteList, ModelsIInv, Shapes
  <1>6. version' \in Nat /\ task' \in [Workers -> TaskType] /\ Dated'
    BY <1>3, <1>4, <1>5, Moved, CopyTyped
  <1>7. Used'
    BY <1>5 DEF ModelsIInv, Used
  <1> QED
    BY <1>5, <1>6, <1>7 DEF ModelsIInv, Shapes

-----------------------------------------------------------------------------
(* The handlers with a copy, the monitor and the servers *)

\* A handler or the monitor that starts to ask the servers in order.
LEMMA Asks ==
    ASSUME ModelsIInv, NEW pc \in {"list", "probe"}, NEW op \in Ops, NEW q \in Orders(registry)
    PROVE  [At(pc) EXCEPT !.op = op, !.todo = q] \in TaskType
  <1>1. q \in Seq(Servers)
    BY OrdersAreSeqs DEF ModelsIInv, Shapes
  <1>2. At(pc) \in TaskType
    BY AtIsTask
  <1> QED
    BY <1>1, <1>2 DEF TaskType

LEMMA CopierStep ==
    ASSUME ModelsIInv,
           \/ TakeCopy \/ \E s \in Servers : PutApiKey(s)
           \/ \E m \in Models : LoadModel(m) \/ LoadInCell(m)
    PROVE  ModelsIInv'
  <1> USE DEF Copying
  <1>1. task["copier"] \in TaskType /\ "copier" \in Workers
    BY WorkersAre DEF ModelsIInv, Shapes
  <1>2. PICK r \in TaskType : task' = [task EXCEPT !["copier"] = r] /\ r.pc # "save"
                              /\ (r.seen = 0 \/ r.seen = task["copier"].seen)
    <2>1. ASSUME NEW s \in Servers, PutApiKey(s)
          PROVE  \E r \in TaskType : task' = [task EXCEPT !["copier"] = r] /\ r.pc # "save"
                                     /\ (r.seen = 0 \/ r.seen = task["copier"].seen)
      <3> DEFINE r == [At("sync") EXCEPT !.op = "key", !.copy = Copy]
      <3>1. r \in TaskType /\ r.pc = "sync" /\ r.seen = 0
        BY AtIsTask, CopyTyped DEF TaskType, Ops
      <3>2. task' = [task EXCEPT !["copier"] = r]
        BY <2>1 DEF PutApiKey
      <3> HIDE DEF r
      <3> QED
        BY <3>1, <3>2
    <2>2. ASSUME NEW m \in Models, LoadModel(m)
          PROVE  \E r \in TaskType : task' = [task EXCEPT !["copier"] = r] /\ r.pc # "save"
                                     /\ (r.seen = 0 \/ r.seen = task["copier"].seen)
      <3> DEFINE r == [At("copy") EXCEPT !.op = "load"]
      <3>1. r \in TaskType /\ r.pc = "copy" /\ r.seen = 0
        BY AtIsTask DEF TaskType, Ops
      <3>2. task' = [task EXCEPT !["copier"] = r]
        BY <2>2 DEF LoadModel
      <3> HIDE DEF r
      <3> QED
        BY <3>1, <3>2
    <2>3. ASSUME NEW m \in Models, LoadInCell(m)
          PROVE  \E r \in TaskType : task' = [task EXCEPT !["copier"] = r] /\ r.pc # "save"
                                     /\ (r.seen = 0 \/ r.seen = task["copier"].seen)
      <3>1. PICK q \in Orders(registry) :
              task' = [task EXCEPT !["copier"] = [At("list") EXCEPT !.op = "cell", !.todo = q]]
        BY <2>3 DEF LoadInCell
      <3> DEFINE r == [At("list") EXCEPT !.op = "cell", !.todo = q]
      <3>2. r \in TaskType
        BY Asks DEF Ops
      <3>3. r.pc = "list" /\ r.seen = 0
        BY AtIsTask DEF TaskType
      <3> HIDE DEF r
      <3> QED
        BY <3>1, <3>2, <3>3 DEF r
    <2>4. CASE TakeCopy
      <3> DEFINE r == [task["copier"] EXCEPT !.pc = "sync", !.copy = Copy]
      <3>1. r \in TaskType /\ r.pc = "sync" /\ r.seen = task["copier"].seen
        BY <1>1, CopyTyped DEF TaskType
      <3>2. task' = [task EXCEPT !["copier"] = r]
        BY <2>4 DEF TakeCopy, ModelsIInv, Shapes
      <3> HIDE DEF r
      <3> QED
        BY <3>1, <3>2
    <2> QED
      BY <2>1, <2>2, <2>3, <2>4
  <1>3. /\ UNCHANGED <<config, registry, routes, list, hash, version, lobby, revived>>
        /\ case' \in CaseType
    <2>1. /\ UNCHANGED <<config, registry, routes, list, hash, version, lobby, revived>>
          /\ case' = case \/ (case.changes > 0 /\ case' = [case EXCEPT !.changes = @ - 1])
      BY DEF TakeCopy, PutApiKey, LoadModel, LoadInCell, May, Spend
    <2>2. case \in CaseType
      BY DEF ModelsIInv, Shapes
    <2> QED
      BY <2>1, <2>2 DEF CaseType
  <1>4. version' \in Nat /\ task' \in [Workers -> TaskType] /\ Dated'
    BY <1>1, <1>2, <1>3, Moved, CopyTyped
  <1>5. Used'
    BY <1>3 DEF ModelsIInv, Used
  <1> QED
    BY <1>3, <1>4, <1>5 DEF ModelsIInv, Shapes

LEMMA MonitorStep ==
    ASSUME ModelsIInv, Monitors
    PROVE  ModelsIInv'
  <1>1. task["monitor"] \in TaskType /\ "monitor" \in Workers
    BY WorkersAre DEF ModelsIInv, Shapes
  <1>2. PICK r \in TaskType : task' = [task EXCEPT !["monitor"] = r] /\ r.pc # "save"
                              /\ (r.seen = 0 \/ r.seen = task["monitor"].seen)
    <2>1. \A pc \in {"probe", "list"}, q \in Orders(registry) :
            /\ [At(pc) EXCEPT !.todo = q] \in TaskType
            /\ [At(pc) EXCEPT !.todo = q].pc # "save" /\ [At(pc) EXCEPT !.todo = q].seen = 0
      <3>1. ASSUME NEW pc \in {"probe", "list"}, NEW q \in Orders(registry)
            PROVE  /\ [At(pc) EXCEPT !.todo = q] \in TaskType
                   /\ [At(pc) EXCEPT !.todo = q].pc # "save" /\ [At(pc) EXCEPT !.todo = q].seen = 0
        <4>1. q \in Seq(Servers)
          BY OrdersAreSeqs DEF ModelsIInv, Shapes
        <4>2. At(pc) \in TaskType /\ At(pc).pc = pc /\ At(pc).seen = 0
          BY AtIsTask
        <4> QED
          BY <4>1, <4>2 DEF TaskType
      <3> QED
        BY <3>1
    <2>2. CASE MonitorTick
      <3>1. CASE UNCHANGED task
        <4>1. task["monitor"].pc = "idle" /\ task' = [task EXCEPT !["monitor"] = task["monitor"]]
          BY <2>2, <3>1 DEF MonitorTick, ModelsIInv, Shapes
        <4> QED
          BY <1>1, <4>1
      <3>2. CASE \E q \in Orders(registry) :
                   task' = [task EXCEPT !["monitor"] = [At("probe") EXCEPT !.todo = q]]
        BY <2>1, <3>2
      <3> QED
        BY <2>2, <3>1, <3>2 DEF MonitorTick
    <2>3. CASE Probed
      <3>1. Idle \in TaskType /\ Idle.pc = "idle" /\ Idle.seen = 0
        BY AtIsTask DEF Idle
      <3>2. CASE task' = [task EXCEPT !["monitor"] = Idle]
        BY <3>1, <3>2
      <3>3. CASE \E q \in Orders(registry) :
                   task' = [task EXCEPT !["monitor"] = [At("list") EXCEPT !.todo = q]]
        BY <2>1, <3>3
      <3> QED
        BY <2>3, <3>2, <3>3 DEF Probed
    <2>4. CASE Probe
      <3> DEFINE s == Head(task["monitor"].todo)
                 force == task["monitor"].force
                            \/ (s \in DOMAIN registry /\ registry[s].connected # (s \in up))
                 any == task["monitor"].any \/ (s \in DOMAIN registry /\ s \in up)
                 r == [task["monitor"] EXCEPT !.todo = Tail(@), !.force = force, !.any = any]
      <3>1. task' = [task EXCEPT !["monitor"] = r] /\ task["monitor"].pc = "probe"
            /\ task["monitor"].todo # <<>>
        BY <2>4 DEF Probe, ModelsIInv, Shapes
      <3>2. Tail(task["monitor"].todo) \in Seq(Servers)
        BY <1>1, <3>1 DEF TaskType
      <3>3. force \in BOOLEAN /\ any \in BOOLEAN
        OBVIOUS
      <3> HIDE DEF force, any
      <3>4. r \in TaskType /\ r.pc = "probe" /\ r.seen = task["monitor"].seen
        BY <1>1, <3>1, <3>2, <3>3 DEF TaskType
      <3> HIDE DEF r
      <3> QED
        BY <3>1, <3>4
    <2> QED
      BY <2>2, <2>3, <2>4 DEF Monitors
  <1>3. version' = version \/ version' = version + 1
    BY DEF Monitors, MonitorTick, Probe, Probed
  <1>4. /\ UNCHANGED <<case, config, routes, list, hash, lobby, revived>>
        /\ DOMAIN registry' = DOMAIN registry
    BY DEF Monitors, MonitorTick, Probe, Probed
  <1>5. version' \in Nat /\ task' \in [Workers -> TaskType] /\ Dated'
    BY <1>1, <1>2, <1>3, <1>4, Moved, CopyTyped
  <1>6. Used'
    BY <1>4 DEF ModelsIInv, Used
  <1> QED
    BY <1>4, <1>5, <1>6 DEF ModelsIInv, Shapes

LEMMA BackendStep ==
    ASSUME ModelsIInv, Backend
    PROVE  ModelsIInv'
  <1>1. /\ UNCHANGED <<config, registry, routes, list, hash, version, lobby, task, revived>>
        /\ case' = [case EXCEPT !.changes = @ - 1] /\ case.changes > 0
    BY DEF Backend, May, Spend
  <1>2. case' \in CaseType
    BY <1>1 DEF ModelsIInv, Shapes, CaseType
  <1>3. Used' /\ Dated'
    BY <1>1 DEF ModelsIInv, Used, Dated
  <1> QED
    BY <1>1, <1>2, <1>3 DEF ModelsIInv, Shapes

-----------------------------------------------------------------------------
(* The clusters' polls *)

\* A cluster's task and lobby, and what the hash of an announcement is.
LEMMA PollTyped ==
    ASSUME ModelsIInv, NEW k \in Clusters
    PROVE  /\ k \in Workers /\ task[k] \in TaskType
           /\ task[k].seen \in Nat /\ task[k].seen <= version /\ task[k].out \in Told
           /\ task[k].pairs \in Pairs
           /\ lobby[k] \in LobbyType /\ lobby[k].seen \in Nat
           /\ lobby \in [Clusters -> LobbyType]
           /\ \A j \in Clusters : lobby[j] \in LobbyType /\ lobby[j].seen <= version
           /\ version \in Nat /\ hash \in Sums
  BY WorkersAre DEF ModelsIInv, Shapes, Dated, TaskType, LobbyType

\* An announcement of nothing, or of some models.
LEMMA SumTyped ==
    ASSUME NEW out \in Told, NEW kind \in {"none", "maintenance", "noservers", "models"}
    PROVE  Sum(kind, out) \in Sums /\ Sum(kind, out).models = out /\ Sum(kind, out).kind = kind
  BY DEF Sum, Sums

\* Steps of a poll leave the configuration, the registry and the version alone.
LEMMA Polled ==
    ASSUME ModelsIInv, NEW k \in Clusters, NEW r \in TaskType, NEW l \in LobbyType,
           task' = [task EXCEPT ![k] = r], r.pc # "save",
           r.seen = 0 \/ r.seen = task[k].seen \/ r.seen = version,
           lobby' = [lobby EXCEPT ![k] = l], l.seen <= version,
           list' \in Catalogues, hash' \in Sums, case' \in CaseType,
           UNCHANGED <<config, registry, routes, version, revived>>
    PROVE  ModelsIInv'
  <1>1. lobby' \in [Clusters -> LobbyType] /\ \A j \in Clusters : lobby'[j].seen <= version
    BY PollTyped
  <1>2. version' \in Nat /\ task' \in [Workers -> TaskType] /\ Dated'
    BY <1>1, PollTyped, Moved
  <1>3. Used'
    BY DEF ModelsIInv, Used
  <1> QED
    BY <1>1, <1>2, <1>3 DEF ModelsIInv, Shapes

LEMMA SessionStep ==
    ASSUME ModelsIInv, NEW k \in Clusters, Register(k) \/ Lose(k) \/ Poll(k)
    PROVE  ModelsIInv'
  <1>1. CASE Register(k)
    <2> DEFINE r == [At("check") EXCEPT !.force = TRUE, !.seen = version]
               l == [lobby[k] EXCEPT !.online = TRUE]
    <2>1. r \in TaskType /\ r.pc = "check" /\ r.seen = version
      BY AtIsTask, PollTyped DEF TaskType
    <2>2. l \in LobbyType /\ l.seen <= version
      BY PollTyped DEF LobbyType
    <2>3. task' = [task EXCEPT ![k] = r] /\ lobby' = [lobby EXCEPT ![k] = l]
      BY <1>1 DEF Register
    <2> HIDE DEF r, l
    <2>4. UNCHANGED <<case, config, registry, routes, version, revived, list, hash>>
      BY <1>1 DEF Register, Untouched
    <2>5. list' \in Catalogues /\ hash' \in Sums /\ case' \in CaseType
      BY <2>4 DEF ModelsIInv, Shapes
    <2> QED
      BY <2>1, <2>2, <2>3, <2>4, <2>5, Polled
  <1>2. CASE Lose(k)
    <2> DEFINE l == [online |-> FALSE, seen |-> 0, models |-> NoModels, accepting |-> FALSE]
    <2>1. Idle \in TaskType /\ Idle.pc = "idle" /\ Idle.seen = 0
      BY AtIsTask DEF Idle
    <2>2. l \in LobbyType /\ l.seen <= version
      BY PollTyped, NothingTold DEF LobbyType
    <2>3. task' = [task EXCEPT ![k] = Idle] /\ lobby' = [lobby EXCEPT ![k] = l]
      BY <1>2 DEF Lose
    <2> HIDE DEF l
    <2>4. /\ UNCHANGED <<config, registry, routes, version, revived, list, hash>>
          /\ case.drops > 0 /\ case' = [case EXCEPT !.drops = @ - 1]
      BY <1>2 DEF Lose
    <2>5. list' \in Catalogues /\ hash' \in Sums /\ case' \in CaseType
      BY <2>4 DEF ModelsIInv, Shapes, CaseType
    <2> QED
      BY <2>1, <2>2, <2>3, <2>4, <2>5, Polled
  <1>3. CASE Poll(k)
    <2> DEFINE force == version # lobby[k].seen
               r == [At("check") EXCEPT !.force = force, !.seen = version]
    <2>1. r \in TaskType /\ r.pc = "check" /\ r.seen = version
      BY AtIsTask, PollTyped DEF TaskType
    <2>2. lobby[k] \in LobbyType /\ lobby[k].seen <= version
      BY PollTyped
    <2>3. task' = [task EXCEPT ![k] = r] /\ lobby' = [lobby EXCEPT ![k] = lobby[k]]
      BY <1>3, PollTyped DEF Poll
    <2> HIDE DEF r
    <2>4. UNCHANGED <<case, config, registry, routes, version, revived, list, hash>>
      BY <1>3 DEF Poll, Untouched
    <2>5. list' \in Catalogues /\ hash' \in Sums /\ case' \in CaseType
      BY <2>4 DEF ModelsIInv, Shapes
    <2> QED
      BY <2>1, <2>2, <2>3, <2>4, <2>5, Polled
  <1> QED
    BY <1>1, <1>2, <1>3

LEMMA PollCheckStep ==
    ASSUME ModelsIInv, NEW k \in Clusters, PollCheck(k) \/ PollFilter(k)
    PROVE  ModelsIInv'
  <1>1. PICK r \in TaskType : task' = [task EXCEPT ![k] = r] /\ r.pc # "save"
                              /\ (r.seen = 0 \/ r.seen = task[k].seen)
    <2>1. Idle \in TaskType /\ Idle.pc = "idle" /\ Idle.seen = 0
      BY AtIsTask DEF Idle
    <2>2. CASE task' = [task EXCEPT ![k] = Idle]
      BY <2>1, <2>2
    <2>3. CASE task' = [task EXCEPT ![k] = [At("tell") EXCEPT !.op = "maintenance"]]
      <3> DEFINE r == [At("tell") EXCEPT !.op = "maintenance"]
      <3>1. r \in TaskType /\ r.pc = "tell" /\ r.seen = 0
        BY AtIsTask DEF TaskType, Ops
      <3> HIDE DEF r
      <3> QED
        BY <2>3, <3>1 DEF r
    <2>4. CASE task' = [task EXCEPT ![k].pc = "none"]
      <3> DEFINE r == [task[k] EXCEPT !.pc = "none"]
      <3>1. r \in TaskType /\ r.pc = "none" /\ r.seen = task[k].seen
        BY PollTyped DEF TaskType
      <3>2. task' = [task EXCEPT ![k] = r]
        BY <2>4
      <3> HIDE DEF r
      <3> QED
        BY <3>1, <3>2
    <2>5. ASSUME NEW q \in Orders(registry),
                 task' = [task EXCEPT ![k].pc = "list", ![k].todo = q, ![k].last = hash]
          PROVE  \E r \in TaskType : task' = [task EXCEPT ![k] = r] /\ r.pc # "save"
                                     /\ (r.seen = 0 \/ r.seen = task[k].seen)
      <3> DEFINE r == [task[k] EXCEPT !.pc = "list", !.todo = q, !.last = hash]
      <3>1. q \in Seq(Servers)
        BY OrdersAreSeqs DEF ModelsIInv, Shapes
      <3>2. r \in TaskType /\ r.pc = "list" /\ r.seen = task[k].seen
        BY PollTyped, <3>1 DEF TaskType
      <3>3. task' = [task EXCEPT ![k] = r]
        BY <2>5, PollTyped DEF ModelsIInv, Shapes
      <3> HIDE DEF r
      <3> QED
        BY <3>2, <3>3
    <2>6. CASE PollFilter(k)
      <3> DEFINE out == Filter(Merge(task[k].pairs))
                 r == [task[k] EXCEPT !.pc = "store", !.out = out]
      <3>1. out \in Told
        BY PollTyped, MergeIsCatalogue, FilterIsTold
      <3> HIDE DEF out
      <3>2. r \in TaskType /\ r.pc = "store" /\ r.seen = task[k].seen
        BY PollTyped, <3>1 DEF TaskType
      <3>3. \/ task' = [task EXCEPT ![k] = r]
            \/ task' = [task EXCEPT ![k] = Idle]
        BY <2>6, PollTyped DEF PollFilter, ModelsIInv, Shapes, out
      <3> HIDE DEF r
      <3> QED
        BY <3>2, <3>3, <2>2
    <2>7. CASE PollCheck(k)
      <3>1. \/ task' = [task EXCEPT ![k] = [At("tell") EXCEPT !.op = "maintenance"]]
            \/ task' = [task EXCEPT ![k] = Idle]
            \/ task' = [task EXCEPT ![k].pc = "none"]
            \/ \E q \in Orders(registry) :
                 task' = [task EXCEPT ![k].pc = "list", ![k].todo = q, ![k].last = hash]
        BY <2>7 DEF PollCheck
      <3> QED
        BY <3>1, <2>2, <2>3, <2>4, <2>5
    <2> QED
      BY <2>6, <2>7
  <1>2. /\ UNCHANGED <<case, config, registry, routes, version, revived, list, lobby>>
        /\ hash' = hash \/ hash' = Sum("maintenance", NoModels)
    BY DEF PollCheck, PollFilter, Untouched
  <1>3. list' \in Catalogues /\ hash' \in Sums /\ case' \in CaseType
    BY <1>2, SumTyped, NothingTold DEF ModelsIInv, Shapes
  <1>4. lobby' = [lobby EXCEPT ![k] = lobby[k]] /\ lobby[k] \in LobbyType /\ lobby[k].seen <= version
    BY <1>2, PollTyped
  <1> QED
    BY <1>1, <1>2, <1>3, <1>4, Polled

LEMMA PollTellStep ==
    ASSUME ModelsIInv, NEW k \in Clusters, PollNone(k) \/ PollStore(k) \/ PollTell(k)
    PROVE  ModelsIInv'
  <1>1. /\ Idle \in TaskType /\ Idle.pc = "idle" /\ Idle.seen = 0
        /\ At("tell") \in TaskType /\ At("tell").pc = "tell" /\ At("tell").seen = 0
    BY AtIsTask DEF Idle
  <1>2. UNCHANGED <<case, config, registry, routes, version, revived>>
    BY DEF PollNone, PollStore, PollTell, Untouched
  <1>3. case' \in CaseType /\ list \in Catalogues /\ hash \in Sums
    BY <1>2 DEF ModelsIInv, Shapes
  <1>4. CASE PollNone(k)
    <2> DEFINE l == [lobby[k] EXCEPT !.seen = task[k].seen]
    <2>1. l \in LobbyType /\ l.seen <= version
      BY PollTyped DEF LobbyType
    <2>2. CASE UNCHANGED <<list, hash, lobby>>
      <3>1. task' = [task EXCEPT ![k] = Idle] \/ task' = [task EXCEPT ![k] = At("tell")]
        BY <1>4 DEF PollNone
      <3>2. lobby' = [lobby EXCEPT ![k] = lobby[k]]
        BY <2>2, PollTyped
      <3> QED
        BY <1>1, <1>2, <1>3, <2>2, <3>1, <3>2, PollTyped, Polled
    <2>3. CASE /\ list' = NoModels /\ hash' = Sum("noservers", NoModels)
               /\ lobby' = [lobby EXCEPT ![k].seen = task[k].seen]
               /\ task' = [task EXCEPT ![k] = At("tell")]
      <3>1. list' \in Catalogues /\ hash' \in Sums
        BY <2>3, NothingTold, SumTyped
      <3>2. lobby' = [lobby EXCEPT ![k] = l]
        BY <2>3
      <3> HIDE DEF l
      <3> QED
        BY <1>1, <1>2, <1>3, <2>1, <2>3, <3>1, <3>2, Polled
    <2> QED
      BY <1>4, <2>2, <2>3 DEF PollNone
  <1>5. CASE PollStore(k)
    <2> DEFINE l == [lobby[k] EXCEPT !.seen = task[k].seen]
               r == [At("tell") EXCEPT !.out = task[k].out]
    <2>1. l \in LobbyType /\ l.seen <= version /\ lobby' = [lobby EXCEPT ![k] = l]
      BY <1>5, PollTyped DEF LobbyType, PollStore
    <2>2. r \in TaskType /\ r.pc = "tell" /\ r.seen = 0 /\ task' = [task EXCEPT ![k] = r]
      BY <1>1, <1>5, PollTyped DEF TaskType, PollStore
    <2> HIDE DEF l, r
    <2>3. list' \in Catalogues /\ hash' \in Sums
      BY <1>5, PollTyped, MergeIsCatalogue, SumTyped DEF PollStore
    <2> QED
      BY <1>2, <1>3, <2>1, <2>2, <2>3, Polled
  <1>6. CASE PollTell(k)
    <2> DEFINE accepting == task[k].op # "maintenance" /\ k \in config.accepts
               l == [lobby[k] EXCEPT !.models = task[k].out, !.accepting = accepting]
    <2>1. l \in LobbyType /\ l.seen <= version
      BY PollTyped DEF LobbyType
    <2>2. lobby' = [lobby EXCEPT ![k] = l] /\ task' = [task EXCEPT ![k] = Idle]
      BY <1>6, PollTyped DEF PollTell, LobbyType
    <2> HIDE DEF l
    <2>3. list' \in Catalogues /\ hash' \in Sums
      BY <1>3, <1>6 DEF PollTell
    <2> QED
      BY <1>1, <1>2, <1>3, <2>1, <2>2, <2>3, Polled
  <1> QED
    BY <1>4, <1>5, <1>6

LEMMA ModelStartedStep ==
    ASSUME ModelsIInv, up \subseteq Servers, NEW k \in Clusters, ModelStarted(k)
    PROVE  ModelsIInv'
  <1>1. PICK q \in Orders(registry) : \E m \in Installed[Head(q)] :
          LET s == Head(q)
              found == [n \in Installed[s] |-> [server |-> s, loaded |-> n \in loaded[s] \cup {m}]]
          IN /\ s \in up /\ list' = found
             /\ lobby' = [lobby EXCEPT ![k].models = FilterNames(found), ![k].accepting = TRUE]
    BY DEF ModelStarted
  <1> DEFINE s == Head(q)
  <1>2. PICK m \in Installed[s] :
          LET found == [n \in Installed[s] |-> [server |-> s, loaded |-> n \in loaded[s] \cup {m}]]
          IN /\ s \in up /\ list' = found
             /\ lobby' = [lobby EXCEPT ![k].models = FilterNames(found), ![k].accepting = TRUE]
    BY <1>1
  <1> DEFINE found == [n \in Installed[s] |-> [server |-> s, loaded |-> n \in loaded[s] \cup {m}]]
             l == [lobby[k] EXCEPT !.models = FilterNames(found), !.accepting = TRUE]
  <1>3. s \in Servers /\ list' = found /\ Installed[s] \in SUBSET Models
    BY <1>2, ModelsAssumption
  <1> HIDE DEF s
  <1>4. found \in [Installed[s] -> [server : Servers, loaded : BOOLEAN]]
    BY <1>3
  <1>5. found \in Catalogues
    BY <1>3, <1>4 DEF Catalogues
  <1>6. lobby' = [lobby EXCEPT ![k] = l]
    BY <1>2, PollTyped DEF s, LobbyType
  <1> HIDE DEF found
  <1>7. l \in LobbyType /\ l.seen <= version
    BY <1>5, FilterIsTold, PollTyped DEF LobbyType
  <1> HIDE DEF l
  <1>8. /\ UNCHANGED <<config, registry, routes, hash, version, task, revived>>
        /\ case' = [case EXCEPT !.changes = @ - 1] /\ case.changes > 0
    BY DEF ModelStarted, May, Spend
  <1>9. list' \in Catalogues /\ hash' \in Sums /\ case' \in CaseType
    BY <1>3, <1>5, <1>8, PollTyped DEF ModelsIInv, Shapes, CaseType
  <1>10. lobby' \in [Clusters -> LobbyType] /\ \A j \in Clusters : lobby'[j].seen <= version
    BY <1>6, <1>7, PollTyped
  <1>11. Used' /\ Dated'
    BY <1>8, <1>10 DEF ModelsIInv, Used, Dated
  <1> QED
    BY <1>8, <1>9, <1>10, <1>11 DEF ModelsIInv, Shapes

-----------------------------------------------------------------------------
(* The registry and the lists fit *)

\* Only servers of this node answer.
LEMMA ServersAnswer ==
    ASSUME up \subseteq Servers, ModelsNext
    PROVE  up' \subseteq Servers
  <1>1. CASE Edits
    BY <1>1 DEF Edits, AddServer, Attach, Detach, DeleteServer, Remove, PatchServer,
       SetVisibility, Maintenance, Save, Rest
  <1>2. CASE Copies \/ Monitors
    BY <1>2 DEF Copies, PutApiKey, LoadModel, LoadInCell, TakeCopy, Copying, Monitors,
       MonitorTick, Probe, Probed
  <1>3. CASE Rebuilds
    BY <1>3 DEF Rebuilds, Sync, List, Commit, WriteList
  <1>4. CASE Polls
    BY <1>4 DEF Polls, Register, Lose, Poll, PollCheck, PollNone, PollFilter, PollStore,
       PollTell, ModelStarted, Untouched
  <1>5. CASE Backend
    BY <1>5 DEF Backend, Flip
  <1> QED
    BY <1>1, <1>2, <1>3, <1>4, <1>5 DEF ModelsNext

LEMMA ModelsStart == ModelsInit => ModelsIInv /\ up \subseteq Servers
  <1> SUFFICES ASSUME ModelsInit PROVE ModelsIInv /\ up \subseteq Servers
    OBVIOUS
  <1>1. PICK c \in Cases : InitWith(c)
    BY DEF ModelsInit
  <1>2. c \in CaseType
    BY ModelsAssumption DEF CaseType
  <1>3. /\ Idle \in TaskType /\ Idle.pc = "idle" /\ Idle.seen = 0
    BY AtIsTask DEF Idle
  <1> DEFINE r == [At("sync") EXCEPT !.copy = [attached |-> c.attached, order |-> c.order]]
  <1>4. r \in TaskType /\ r.pc = "sync" /\ r.seen = 0
    BY <1>2, AtIsTask DEF TaskType, CopyType, CaseType
  <1>5. task = [[t \in Workers |-> Idle] EXCEPT !["editor"] = r]
    BY <1>1 DEF InitWith
  <1> HIDE DEF r
  <1>6. /\ task \in [Workers -> TaskType]
        /\ \A t \in Workers : task[t].seen = 0 /\ task[t].pc # "save"
    BY <1>3, <1>4, <1>5
  <1>7. /\ lobby \in [Clusters -> LobbyType] /\ \A k \in Clusters : lobby[k].seen = 0
        /\ hash \in Sums /\ routes \in Catalogues /\ list \in Catalogues
        /\ version = 0 /\ up = Servers /\ case = c
    BY <1>1, NothingTold, SumTyped DEF InitWith, LobbyType, NoSum
  <1>8. config \in ConfigType /\ config.attached = config.known /\ config.local = {}
    BY <1>1, <1>2 DEF InitWith, ConfigType, CaseType
  <1>9. DOMAIN registry = {}
    BY <1>1 DEF InitWith
  <1> QED
    BY <1>2, <1>6, <1>7, <1>8, <1>9 DEF ModelsIInv, Shapes, Used, Dated

LEMMA ModelsStep ==
    ASSUME ModelsIInv, up \subseteq Servers, [ModelsNext]_mvars
    PROVE  ModelsIInv' /\ (up \subseteq Servers)'
  <1>1. CASE UNCHANGED mvars
    BY <1>1 DEF mvars, ModelsIInv, Shapes, Used, Dated
  <1>2. CASE Edits
    BY <1>2, ServersAnswer, AddServerStep, AttachStep, RemoveStep, SettingsStep, SaveStep
       DEF Edits, ModelsNext
  <1>3. CASE Copies \/ Monitors \/ Backend
    BY <1>3, ServersAnswer, CopierStep, MonitorStep, BackendStep DEF Copies, ModelsNext
  <1>4. CASE Rebuilds
    BY <1>4, ServersAnswer, WorkersAre, SyncStep, ListStep, CommitStep DEF Rebuilds, ModelsNext
  <1>5. CASE Polls
    BY <1>5, ServersAnswer, SessionStep, PollCheckStep, PollTellStep, ModelStartedStep
       DEF Polls, ModelsNext
  <1> QED
    BY <1>1, <1>2, <1>3, <1>4, <1>5 DEF ModelsNext

\* The inductive invariant of the local models holds throughout.
THEOREM ModelsInductive == ModelsSpec => [](ModelsIInv /\ up \subseteq Servers)
  BY ModelsStart, ModelsStep, PTL DEF ModelsSpec

\* The registry, the lists and the configuration fit each other, for any servers, models,
\* clusters and changes: a server detached or deleted has no runtime, unless an outdated copy
\* has put it back (LlmServerRegistry::detach, sync_from_config).
THEOREM ModelsCorrect == ModelsSpec => []ModelsInv
  <1>1. ModelsIInv => ModelsInv
    <2> SUFFICES ASSUME ModelsIInv PROVE ModelsInv
      OBVIOUS
    <2>1. DOMAIN list \subseteq Models /\ DOMAIN routes \subseteq Models
      BY DEF ModelsIInv, Shapes, Catalogues
    <2>2. \A k \in Clusters : lobby[k].models \in [DOMAIN lobby[k].models -> Servers]
      BY PollTyped DEF LobbyType, Told
    <2>3. \A k \in Clusters : lobby[k].seen \in 0..version
      BY PollTyped
    <2>4. /\ config.attached \subseteq config.known /\ config.known \subseteq Servers
          /\ config.local \subseteq config.known /\ DOMAIN registry \subseteq Servers
          /\ hash.kind \in {"none", "maintenance", "noservers", "models"}
          /\ \A t \in Workers : task[t].pc = "save" => t = "editor"
      BY DEF ModelsIInv, Shapes, Used, Dated, ConfigType, Sums
    <2>5. DetachedUnused
      BY DEF ModelsIInv, Used, DetachedUnused
    <2> QED
      BY <2>1, <2>2, <2>3, <2>4, <2>5 DEF ModelsInv, ModelsTypeOK
  <1> QED
    BY <1>1, ModelsInductive, PTL

-----------------------------------------------------------------------------
(* What the lobby of a single cluster was told *)

\* The hash is that of one cluster's announcements, and no other one's poll runs.
Alone ==
  /\ \A j, k \in case.clusters : j = k
  /\ \A k \in Clusters : k \in case.clusters \/ (~lobby[k].online /\ task[k].pc = "idle")

\* The lobby shows what the hash stands for.
Agrees(k) == /\ lobby[k].models = hash.models
             /\ lobby[k].accepting => hash.kind # "maintenance"

\* An announcement on its way is what the hash stands for; otherwise the lobby shows it, or a
\* poll that tells its lobby in any case is under way, or a model start was told last.
Announced(k) ==
  IF task[k].pc = "tell"
  THEN /\ task[k].out = hash.models
       /\ task[k].op # "maintenance" => hash.kind # "maintenance"
  ELSE \/ task[k].pc = "store"
       \/ task[k].force /\ task[k].pc \in {"check", "none", "list", "filter"}
       \/ k \in started
       \/ Agrees(k)

ToldIInv == Alone /\ \A k \in Clusters : lobby[k].online => Announced(k)

\* Steps that concern neither the hash nor a lobby, and no poll.
LEMMA Untold ==
    ASSUME ModelsIInv, ToldIInv, UNCHANGED <<hash, lobby, started>>,
           case'.clusters = case.clusters, \A k \in Clusters : task'[k] = task[k]
    PROVE  ToldIInv'
  BY DEF ToldIInv, Alone, Announced, Agrees

\* A poll is that of the only cluster.
LEMMA OnlyPoll ==
    ASSUME ToldIInv, NEW k \in Clusters, k \in case.clusters, case'.clusters = case.clusters,
           \A j \in Clusters \ {k} : task'[j] = task[j] /\ lobby'[j] = lobby[j],
           lobby'[k].online => Announced(k)'
    PROVE  ToldIInv'
  <1>1. \A j \in Clusters \ {k} : j \notin case.clusters
    BY DEF ToldIInv, Alone
  <1>2. Alone'
    BY DEF ToldIInv, Alone
  <1>3. \A j \in Clusters \ {k} : ~lobby'[j].online
    BY <1>1 DEF ToldIInv, Alone
  <1> QED
    BY <1>2, <1>3 DEF ToldIInv

\* A case's clusters stay the same when a bound goes down.
LEMMA SameClusters ==
    ASSUME ModelsIInv, ModelsNext
    PROVE  case'.clusters = case.clusters
  <1>1. \/ UNCHANGED case \/ case' = [case EXCEPT !.changes = @ - 1]
        \/ case' = [case EXCEPT !.faults = @ - 1] \/ case' = [case EXCEPT !.drops = @ - 1]
    <2>1. CASE Edits
      BY <2>1 DEF Edits, AddServer, Attach, Detach, DeleteServer, Remove, PatchServer,
         SetVisibility, Maintenance, Save, Rest, Edit, Spend
    <2>2. CASE Copies \/ Monitors
      BY <2>2 DEF Copies, PutApiKey, LoadModel, LoadInCell, TakeCopy, Copying, Spend, Monitors,
         MonitorTick, Probe, Probed
    <2>3. CASE Rebuilds
      BY <2>3 DEF Rebuilds, Sync, List, Commit, WriteList
    <2>4. CASE Polls
      BY <2>4 DEF Polls, Register, Lose, Poll, PollCheck, PollNone, PollFilter, PollStore,
         PollTell, ModelStarted, Untouched, Spend
    <2>5. CASE Backend
      BY <2>5 DEF Backend, Spend
    <2> QED
      BY <2>1, <2>2, <2>3, <2>4, <2>5 DEF ModelsNext
  <1> QED
    BY <1>1 DEF ModelsIInv, Shapes, CaseType

LEMMA HandlersTold ==
    ASSUME ModelsIInv, ToldIInv, ModelsNext,
           \/ Edits \/ Copies \/ Monitors \/ Backend
           \/ \E t \in {"editor", "copier"} : Sync(t)
           \/ \E t \in Workers : WriteList(t)
    PROVE  ToldIInv'
  <1>1. UNCHANGED <<hash, lobby, started>>
    BY DEF Edits, AddServer, Attach, Detach, DeleteServer, Remove, PatchServer,
       SetVisibility, Maintenance, Save, Rest, Copies, PutApiKey, LoadModel, LoadInCell,
       TakeCopy, Copying, Monitors, MonitorTick, Probe, Probed, Backend, Sync, WriteList
  <1>2. \E t \in Handlers : \A u \in Workers : u # t => task'[u] = task[u]
    <2>1. task \in [Workers -> TaskType] /\ {"editor", "copier", "monitor"} = Handlers
      BY DEF ModelsIInv, Shapes, Handlers
    <2>2. CASE Edits
      BY <2>1, <2>2 DEF Edits, AddServer, Attach, Detach, DeleteServer, Remove, PatchServer,
         SetVisibility, Maintenance, Save, Edit
    <2>3. CASE Copies
      BY <2>1, <2>3 DEF Copies, PutApiKey, LoadModel, LoadInCell, TakeCopy
    <2>4. CASE Monitors \/ Backend
      BY <2>1, <2>4 DEF Monitors, MonitorTick, Probe, Probed, Backend
    <2>5. ASSUME NEW t \in {"editor", "copier"}, Sync(t)
          PROVE  \A u \in Workers : u # t => task'[u] = task[u]
      BY <2>1, <2>5 DEF Sync
    <2>6. ASSUME NEW t \in Workers, WriteList(t)
          PROVE  t \in Handlers /\ \A u \in Workers : u # t => task'[u] = task[u]
      BY <2>1, <2>6 DEF WriteList
    <2> QED
      BY <2>1, <2>2, <2>3, <2>4, <2>5, <2>6
  <1> QED
    BY <1>1, <1>2, SameClusters, WorkersAre, Untold

LEMMA RebuildTold ==
    ASSUME ModelsIInv, ToldIInv, ModelsNext, NEW t \in Workers, List(t) \/ Commit(t)
    PROVE  ToldIInv'
  <1>1. /\ UNCHANGED <<hash, lobby, started>> /\ task \in [Workers -> TaskType]
        /\ \A u \in Workers : u # t => task'[u] = task[u]
    BY DEF List, Commit, ModelsIInv, Shapes
  <1>2. CASE t \notin Clusters
    BY <1>1, <1>2, SameClusters, WorkersAre, Untold
  <1>3. CASE t \in Clusters
    <2>1. /\ task[t].pc = "list" /\ task'[t].pc \in {"list", "filter"}
          /\ task'[t].force = task[t].force
      <3>1. task[t] \in TaskType /\ t \notin Handlers
        BY <1>3, <1>1, WorkersAre
      <3> QED
        BY <1>1, <3>1 DEF List, Commit, TaskType
    <2>2. t \in case.clusters
      BY <1>3, <2>1 DEF ToldIInv, Alone
    <2>3. lobby'[t].online => Announced(t)'
      BY <1>1, <1>3, <2>1 DEF ToldIInv, Announced, Agrees
    <2>4. \A j \in Clusters \ {t} : task'[j] = task[j] /\ lobby'[j] = lobby[j]
      BY <1>1, WorkersAre
    <2> QED
      BY <1>3, <2>2, <2>3, <2>4, SameClusters, OnlyPoll
  <1> QED
    BY <1>2, <1>3

LEMMA PollTold ==
    ASSUME ModelsIInv, ToldIInv, ModelsNext, NEW k \in Clusters,
           \/ Register(k) \/ Lose(k) \/ Poll(k) \/ PollCheck(k) \/ PollNone(k)
           \/ PollFilter(k) \/ PollStore(k) \/ PollTell(k) \/ ModelStarted(k)
    PROVE  ToldIInv'
  <1>1. /\ task[k] \in TaskType /\ lobby[k] \in LobbyType /\ hash \in Sums
        /\ task \in [Workers -> TaskType] /\ lobby \in [Clusters -> LobbyType]
        /\ \A j \in Clusters : j \in Workers
    BY PollTyped, WorkersAre DEF ModelsIInv, Shapes
  <1>2. k \in case.clusters
    BY DEF ToldIInv, Alone, Register, Lose, Poll, PollCheck, PollNone, PollFilter, PollStore,
       PollTell, ModelStarted
  <1>3. \A j \in Clusters \ {k} : task'[j] = task[j] /\ lobby'[j] = lobby[j]
    BY <1>1 DEF Register, Lose, Poll, PollCheck, PollNone, PollFilter, PollStore, PollTell,
       ModelStarted
  <1>4. lobby'[k].online => Announced(k)'
    <2> SUFFICES ASSUME lobby'[k].online PROVE Announced(k)'
      OBVIOUS
    <2>1. /\ Idle.pc = "idle" /\ Idle \in TaskType
          /\ \A pc \in {"check", "tell"} : At(pc) \in TaskType /\ At(pc).pc = pc
                                           /\ At(pc).op = "none" /\ At(pc).out = NoModels
      BY AtIsTask DEF Idle
    <2>2. CASE Register(k)
      <3>1. task'[k].pc = "check" /\ task'[k].force
        BY <1>1, <2>1, <2>2, PollTyped DEF Register, TaskType
      <3> QED
        BY <3>1 DEF Announced
    <2>3. CASE Lose(k)
      BY <1>1, <2>3 DEF Lose
    <2>4. CASE Poll(k)
      <3>1. /\ task'[k].pc = "check" /\ task[k].pc = "idle"
            /\ UNCHANGED <<hash, lobby, started>>
        BY <1>1, <2>1, <2>4, PollTyped DEF Poll, TaskType
      <3> QED
        BY <3>1 DEF ToldIInv, Announced, Agrees
    <2>5. CASE PollCheck(k)
      <3>1. UNCHANGED <<lobby, started>> /\ task[k].pc = "check"
        BY <2>5 DEF PollCheck
      <3>2. CASE /\ hash' = Sum("maintenance", NoModels)
                 /\ task' = [task EXCEPT ![k] = [At("tell") EXCEPT !.op = "maintenance"]]
        <4>1. task'[k].pc = "tell" /\ task'[k].op = "maintenance" /\ task'[k].out = NoModels
          BY <1>1, <2>1, <3>2 DEF TaskType
        <4>2. hash'.models = NoModels
          BY <3>2 DEF Sum
        <4> QED
          BY <4>1, <4>2 DEF Announced
      <3>3. CASE hash' = hash /\ task' = [task EXCEPT ![k] = Idle] /\ ~task[k].force
        BY <1>1, <2>1, <3>1, <3>3 DEF ToldIInv, Announced, Agrees
      <3>4. CASE /\ hash' = hash
                 /\ \/ task' = [task EXCEPT ![k].pc = "none"]
                    \/ \E q \in Orders(registry) :
                         task' = [task EXCEPT ![k].pc = "list", ![k].todo = q, ![k].last = hash]
        <4>1. task'[k].pc \in {"none", "list"} /\ task'[k].force = task[k].force
          <5>1. CASE task' = [task EXCEPT ![k].pc = "none"]
            BY <1>1, <5>1 DEF TaskType
          <5>2. ASSUME NEW q \in Orders(registry),
                       task' = [task EXCEPT ![k].pc = "list", ![k].todo = q, ![k].last = hash]
                PROVE  task'[k].pc = "list" /\ task'[k].force = task[k].force
            <6>1. task'[k] = [task[k] EXCEPT !.pc = "list", !.todo = q, !.last = hash]
              BY <1>1, <5>2
            <6> QED
              BY <1>1, <6>1 DEF TaskType
          <5> QED
            BY <3>4, <5>1, <5>2
        <4> QED
          BY <3>1, <3>4, <4>1 DEF ToldIInv, Announced, Agrees
      <3> QED
        BY <2>5, <3>2, <3>3, <3>4 DEF PollCheck
    <2>6. CASE PollNone(k)
      <3>1. UNCHANGED started /\ task[k].pc = "none"
        BY <2>6 DEF PollNone
      <3>2. CASE hash' = Sum("noservers", NoModels) /\ task' = [task EXCEPT ![k] = At("tell")]
        <4>1. task'[k].pc = "tell" /\ task'[k].out = NoModels
          BY <1>1, <2>1, <3>2
        <4>2. hash'.models = NoModels /\ hash'.kind = "noservers"
          BY <3>2 DEF Sum
        <4> QED
          BY <4>1, <4>2 DEF Announced
      <3>3. CASE UNCHANGED <<hash, lobby>> /\ task' = [task EXCEPT ![k] = Idle] /\ ~task[k].force
        BY <1>1, <2>1, <3>1, <3>3 DEF ToldIInv, Announced, Agrees
      <3> QED
        BY <2>6, <3>2, <3>3 DEF PollNone
    <2>7. CASE PollFilter(k)
      <3> DEFINE out == Filter(Merge(task[k].pairs))
      <3>1. UNCHANGED <<hash, lobby, started>> /\ task[k].pc = "filter"
        BY <2>7 DEF PollFilter
      <3>2. CASE task' = [task EXCEPT ![k].pc = "store", ![k].out = out]
        <4>1. task'[k].pc = "store"
          BY <1>1, <3>2 DEF TaskType
        <4> QED
          BY <4>1 DEF Announced
      <3>3. CASE task' = [task EXCEPT ![k] = Idle] /\ ~Tells(k, Sum("models", out))
        <4>1. ~task[k].force
          BY <3>3 DEF Tells
        <4> QED
          BY <1>1, <2>1, <3>1, <3>3, <4>1 DEF ToldIInv, Announced, Agrees
      <3> QED
        BY <2>7, <3>2, <3>3 DEF PollFilter
    <2>8. CASE PollStore(k)
      <3>1. task'[k].pc = "tell" /\ task'[k].out = task[k].out
        BY <1>1, <2>1, <2>8 DEF PollStore, TaskType
      <3>2. hash'.models = task[k].out /\ hash'.kind = "models"
        BY <2>8 DEF PollStore, Sum
      <3> QED
        BY <3>1, <3>2 DEF Announced
    <2>9. CASE PollTell(k)
      <3>1. /\ lobby'[k].models = task[k].out
            /\ lobby'[k].accepting => task[k].op # "maintenance"
            /\ lobby'[k].online = lobby[k].online
            /\ hash' = hash /\ task[k].pc = "tell" /\ task'[k].pc = "idle"
        BY <1>1, <2>1, <2>9 DEF PollTell, LobbyType
      <3> QED
        BY <3>1 DEF ToldIInv, Announced, Agrees
    <2>10. CASE ModelStarted(k)
      <3>1. k \in started' /\ hash' = hash /\ task' = task /\ lobby[k].online
        BY <2>10 DEF ModelStarted
      <3> QED
        BY <3>1 DEF ToldIInv, Announced
    <2> QED
      BY <2>2, <2>3, <2>4, <2>5, <2>6, <2>7, <2>8, <2>9, <2>10
  <1> QED
    BY <1>2, <1>3, <1>4, SameClusters, OnlyPoll

LEMMA ToldStep ==
    ASSUME ModelsIInv, ToldIInv, [ModelsNext]_mvars
    PROVE  ToldIInv'
  <1>1. CASE UNCHANGED mvars
    BY <1>1 DEF mvars, ToldIInv, Alone, Announced, Agrees
  <1>2. CASE ModelsNext
    <2>1. CASE \/ Edits \/ Copies \/ Monitors \/ Backend
               \/ \E t \in {"editor", "copier"} : Sync(t)
               \/ \E t \in Workers : WriteList(t)
      BY <1>2, <2>1, HandlersTold
    <2>2. CASE \E t \in Workers : List(t) \/ Commit(t)
      BY <1>2, <2>2, RebuildTold
    <2>3. CASE Polls
      BY <1>2, <2>3, PollTold DEF Polls
    <2> QED
      BY <1>2, <2>1, <2>2, <2>3 DEF ModelsNext, Rebuilds
  <1> QED
    BY <1>1, <1>2

\* In a single cluster, a lobby that the next poll will leave alone was told exactly what this
\* node offers, whatever changes came between the steps of which poll or rebuild
\* (poll_and_advertise, sync_registry_after_config_change). With several clusters, which share
\* the hash, it needs the version and that no change came without one.
THEOREM NothingMissedAlone ==
    (\A c \in Cases : \A j, k \in c.clusters : j = k) /\ ModelsSpec => []NothingMissed
  <1>1. (\A c \in Cases : \A j, k \in c.clusters : j = k) /\ ModelsInit => ToldIInv
    <2> SUFFICES ASSUME \A c \in Cases : \A j, k \in c.clusters : j = k, ModelsInit
                 PROVE  ToldIInv
      OBVIOUS
    <2>1. PICK c \in Cases : InitWith(c)
      BY DEF ModelsInit
    <2>2. \A k \in Clusters : ~lobby[k].online /\ task[k].pc = "idle"
      <3>1. Idle.pc = "idle"
        BY AtIsTask DEF Idle
      <3>2. \A k \in Clusters : k \in Workers /\ k # "editor"
        BY WorkersAre DEF Handlers
      <3> QED
        BY <2>1, <3>1, <3>2 DEF InitWith
    <2>3. \A j, k \in case.clusters : j = k
      BY <2>1 DEF InitWith
    <2> QED
      BY <2>2, <2>3 DEF ToldIInv, Alone
  <1>2. ToldIInv => NothingMissed
    <2> SUFFICES ASSUME ToldIInv, NEW k \in Clusters, Settled(k), k \notin started
                 PROVE  /\ lobby[k].models = NextSum(k).models
                        /\ lobby[k].accepting => k \in config.accepts
      BY DEF NothingMissed
    <2>1. Agrees(k) /\ hash = NextSum(k)
      BY DEF ToldIInv, Announced, Settled
    <2>2. k \notin config.accepts => NextSum(k).kind = "maintenance"
      BY DEF NextSum, Sum
    <2> QED
      BY <2>1, <2>2 DEF Agrees
  <1> QED
    BY <1>1, <1>2, ToldStep, ModelsInductive, PTL DEF ModelsSpec

=============================================================================
