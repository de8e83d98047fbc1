------------------------- MODULE SessionLoginProofs -------------------------
(* Two more invariants of SessionLifecycle that need a strengthening of     *)
(* their own: a chat handler finds its Player, and the session counter is   *)
(* never too high.  Both rest on the inductive invariant IInv.              *)
EXTENDS SessionLifecycleProofs, FiniteSetTheorems

\* A login of connection u is queued before place n, or is being handled, or
\* has been handled; or u is out of the SessionManager, for good.
LoginBefore(u, n) ==
  LET q == queue[WorkerOf(u)]  r == router[WorkerOf(u)] IN
  \/ \E m \in 1 .. Len(q) : m < n /\ q[m].uid = u /\ q[m].kind = "login"
  \/ r.kind = "login" /\ r.uid = u
  \/ \E o \in Obj : uid[o] = u /\ players[o] # {}
  \/ registry[u] = NoObj

\* Queued items belong to issued UIDs of the worker's own.
QueuedWhereOwned ==
  \A w \in Worker : \A n \in 1 .. Len(queue[w]) :
    WorkerOf(queue[w][n].uid) = w /\ queue[w][n].uid < nextUid

\* So does the item being handled; an idle worker holds no session.
BusyWithOwned ==
  \A w \in Worker :
    /\ router[w].kind = "none" => router[w].obj = NoObj
    /\ router[w].kind # "none" => /\ router[w].obj # NoObj
                                  /\ WorkerOf(router[w].uid) = w

\* Every queued chat message has its login before it.
ChatAfterLogin ==
  \A w \in Worker : \A n \in 1 .. Len(queue[w]) :
    queue[w][n].kind = "chat" => LoginBefore(queue[w][n].uid, n)

\* A chat client that was read from has its login queued or handled.
ReadAfterLogin ==
  \A o \in Obj : uid[o] # NoUid /\ client[o] = "chat" /\ reads[o] > 0 =>
    LoginBefore(uid[o], Len(queue[WorkerOf(uid[o])]) + 1)

LoginInv ==
  /\ QueuedWhereOwned /\ BusyWithOwned
  /\ ChatAfterLogin /\ ReadAfterLogin /\ ChatFindsPlayer

-----------------------------------------------------------------------------
\* What IInv says of the queues and workers, in the form used below.
LEMMA QueueFacts ==
  ASSUME IInv
  PROVE  /\ \A w \in Worker : /\ queue[w] \in Seq(Item) /\ Len(queue[w]) \in Nat
                              /\ \A n \in 1 .. Len(queue[w]) :
                                   queue[w][n] \in Item /\ queue[w][n].uid \in Uid
         /\ \A u \in Uid : WorkerOf(u) \in Worker
         /\ Uid \subseteq Nat /\ nextUid \in Nat
<1>1. queue \in [Worker -> Seq(Item)] /\ nextUid \in Nat
  BY ConstantsOK DEF IInv, TypeOK
<1>2. ASSUME NEW w \in Worker
      PROVE  /\ queue[w] \in Seq(Item) /\ Len(queue[w]) \in Nat
             /\ \A n \in 1 .. Len(queue[w]) :
                  queue[w][n] \in Item /\ queue[w][n].uid \in Uid
  <2>1. queue[w] \in Seq(Item)
    BY <1>1
  <2>2. \A n \in 1 .. Len(queue[w]) : queue[w][n] \in Item
    BY <2>1
  <2>3. QED
    BY <2>1, <2>2 DEF Item
<1>3. \A u \in Uid : WorkerOf(u) \in Worker
  BY ConstantsOK DEF Uid, Worker, WorkerOf
<1>4. QED
  BY <1>1, <1>2, <1>3, ConstantsOK DEF Uid

\* A step that leaves queues, workers, Players and reads alone and registers
\* nothing keeps the login invariant.
LEMMA QuietStep ==
  ASSUME LoginInv,
         UNCHANGED <<queue, router, players, uid, nextUid, client, reads>>,
         \A u \in Uid : registry[u] = NoObj => registry'[u] = NoObj,
         \A w \in Worker : \A n \in 1 .. Len(queue[w]) : queue[w][n].uid \in Uid,
         \A o \in Obj : uid[o] \in Uid \cup {NoUid}
  PROVE  LoginInv'
<1>1. \A u \in Uid : \A n : LoginBefore(u, n) => LoginBefore(u, n)'
  BY DEF LoginBefore, WorkerOf
<1>2. QueuedWhereOwned' /\ BusyWithOwned' /\ ChatFindsPlayer'
  BY DEF LoginInv, QueuedWhereOwned, BusyWithOwned, ChatFindsPlayer, WorkerOf
<1>3. ChatAfterLogin'
  BY <1>1 DEF LoginInv, ChatAfterLogin
<1>4. ReadAfterLogin'
  BY <1>1 DEF LoginInv, ReadAfterLogin, WorkerOf
<1>5. QED
  BY <1>2, <1>3, <1>4 DEF LoginInv

\* The rest of the asio and TaskQueue steps are of that kind.
LEMMA QuietSteps ==
  ASSUME IInv, LoginInv,
         \/ \E t \in IoThread : \/ PoolExhausted(t)
                                \/ \E o \in Obj : \/ ReadFails(t, o)
                                                  \/ WriteDone(t, o)
                                                  \/ WriteFails(t, o)
                                                  \/ MarkAndPush(t, o)
         \/ \E k \in TaskThread : TaskStep(k)
         \/ \E o \in Obj : PeerCloses(o)
  PROVE  LoginInv'
<1>1. UNCHANGED <<queue, router, players, uid, nextUid, client, reads>>
  BY ZenonT(60) DEF PoolExhausted, ReadFails, WriteDone, WriteFails, MarkAndPush, TaskStep,
         TaskPop, CloseBegin, CloseEnd, PeerCloses
<1>2. registry' = registry \/ \E o \in Obj : registry' = [registry EXCEPT ![uid[o]] = NoObj]
  BY ZenonT(60) DEF PoolExhausted, ReadFails, WriteDone, WriteFails, MarkAndPush, TaskStep,
         TaskPop, CloseBegin, CloseEnd, PeerCloses
<1>3. \A u \in Uid : registry[u] = NoObj => registry'[u] = NoObj
  <2>1. DOMAIN registry = Uid
    BY DEF IInv, TypeOK
  <2>2. QED
    BY <1>2, <2>1
<1>4. \A o \in Obj : uid[o] \in Uid \cup {NoUid}
  BY DEF IInv, TypeOK
<1>5. \A w \in Worker : \A n \in 1 .. Len(queue[w]) : queue[w][n].uid \in Uid
  BY QueueFacts
<1>6. QED
  BY <1>1, <1>3, <1>4, <1>5, QuietStep

\* An accepted session was read from never; the old UIDs keep their logins.
LEMMA AcceptLogin ==
  ASSUME IInv, LoginInv, NEW t \in IoThread, NEW o \in Obj, HandleAccept(t, o)
  PROVE  LoginInv'
<1>1. players[o] = {} /\ \A w \in Worker : router[w].obj # o
  BY DEF HandleAccept, IInv, PooledIsUnowned, Referenced
<1>2. /\ UNCHANGED <<queue, router, players>>
      /\ nextUid' = nextUid + 1 /\ nextUid \in Uid
      /\ \A p \in Obj : p # o => uid'[p] = uid[p] /\ client'[p] = client[p] /\ reads'[p] = reads[p]
      /\ uid'[o] = nextUid /\ reads'[o] = 0
      /\ \A u \in Uid : u < nextUid => registry'[u] = registry[u]
  BY ConstantsOK DEF HandleAccept, IInv, TypeOK, Uid
<1>3. \A u \in Uid : \A n : u < nextUid /\ LoginBefore(u, n) => LoginBefore(u, n)'
  <2> SUFFICES ASSUME NEW u \in Uid, NEW n, u < nextUid, LoginBefore(u, n)
               PROVE  LoginBefore(u, n)'
    OBVIOUS
  <2>1. CASE \E p \in Obj : uid[p] = u /\ players[p] # {}
    BY <1>1, <1>2, <2>1 DEF LoginBefore
  <2>2. CASE ~ \E p \in Obj : uid[p] = u /\ players[p] # {}
    BY <1>2, <2>2 DEF LoginBefore, WorkerOf
  <2>3. QED
    BY <2>1, <2>2
<1>4. QueuedWhereOwned'
  BY <1>2, QueueFacts DEF LoginInv, QueuedWhereOwned, WorkerOf
<1>5. BusyWithOwned' /\ ChatFindsPlayer'
  BY <1>1, <1>2 DEF LoginInv, BusyWithOwned, ChatFindsPlayer, WorkerOf
<1>6. ChatAfterLogin'
  BY <1>2, <1>3, QueueFacts DEF LoginInv, ChatAfterLogin, QueuedWhereOwned
<1>7. ReadAfterLogin'
  <2> SUFFICES ASSUME NEW p \in Obj, uid'[p] # NoUid, client'[p] = "chat", reads'[p] > 0,
                      NEW u, u = uid'[p], NEW n, n = Len(queue'[WorkerOf(u)]) + 1
               PROVE  LoginBefore(u, n)'
    BY DEF ReadAfterLogin, LoginBefore, WorkerOf
  <2>1. p # o /\ u = uid[p] /\ n = Len(queue[WorkerOf(u)]) + 1
    BY <1>2
  <2>2. u \in Uid /\ u < nextUid
    BY <1>2, <2>1 DEF IInv, TypeOK, UidsIssued
  <2>3. LoginBefore(u, n)
    BY <1>2, <2>1 DEF LoginInv, ReadAfterLogin
  <2>4. QED
    BY <1>3, <2>2, <2>3
<1>8. QED
  BY <1>4, <1>5, <1>6, <1>7 DEF LoginInv

\* Only a connection that was read from before sends a chat message, so its
\* login is queued or handled already.
LEMMA ReadLogin ==
  ASSUME IInv, LoginInv, NEW t \in IoThread, NEW o \in Obj, ReadPacket(t, o)
  PROVE  LoginInv'
<1> DEFINE v == WorkerOf(uid[o])
           len == Len(queue[v])
<1>1. uid[o] \in Uid /\ uid[o] < nextUid /\ uid[o] # NoUid
  <2>1. uid[o] \in Uid
    BY OwnedHasUid DEF ReadPacket, Referenced
  <2>2. QED
    BY <2>1, ConstantsOK DEF IInv, UidsIssued, Uid, NoUid
<1>2. v \in Worker /\ queue[v] \in Seq(Item) /\ len \in Nat
  BY <1>1, QueueFacts
<1>3. PICK k \in Sendable(o) : Dispatch(uid[o], k)
  BY DEF ReadPacket
<1> DEFINE i == [uid |-> uid[o], kind |-> k]
<1>4. /\ queue' = [queue EXCEPT ![v] = Append(queue[v], i)]
      /\ reads' = [reads EXCEPT ![o] = @ + 1]
      /\ UNCHANGED <<router, players, uid, nextUid, client, registry>>
  BY <1>3 DEF ReadPacket, Dispatch
<1> HIDE DEF v, i
<1>5. /\ \A w \in Worker : w # v => queue'[w] = queue[w]
      /\ queue'[v] = Append(queue[v], i)
      /\ Len(queue'[v]) = len + 1 /\ queue'[v][len + 1] = i
      /\ \A n \in 1 .. len : queue'[v][n] = queue[v][n]
      /\ i.uid = uid[o] /\ i.kind = k
  <2>1. queue'[v] = Append(queue[v], i) /\ \A w \in Worker : w # v => queue'[w] = queue[w]
    BY <1>2, <1>4 DEF IInv, TypeOK
  <2>2. QED
    BY <1>2, <2>1 DEF i
<1>6. \A w \in Worker : /\ Len(queue[w]) \in Nat /\ Len(queue'[w]) >= Len(queue[w])
                        /\ \A n \in 1 .. Len(queue[w]) : queue'[w][n] = queue[w][n]
  BY <1>2, <1>5, QueueFacts
<1>7. \A u \in Uid : \A n : LoginBefore(u, n) => LoginBefore(u, n)'
  <2> SUFFICES ASSUME NEW u \in Uid, NEW n, LoginBefore(u, n) PROVE LoginBefore(u, n)'
    OBVIOUS
  <2>1. WorkerOf(u) \in Worker /\ WorkerOf(u)' = WorkerOf(u)
    BY QueueFacts DEF WorkerOf
  <2>2. CASE \E m \in 1 .. Len(queue[WorkerOf(u)]) :
               /\ m < n /\ queue[WorkerOf(u)][m].uid = u
               /\ queue[WorkerOf(u)][m].kind = "login"
    <3>1. PICK m \in 1 .. Len(queue[WorkerOf(u)]) :
               /\ m < n /\ queue[WorkerOf(u)][m].uid = u
               /\ queue[WorkerOf(u)][m].kind = "login"
      BY <2>2
    <3>2. m \in 1 .. Len(queue'[WorkerOf(u)])
          /\ queue'[WorkerOf(u)][m] = queue[WorkerOf(u)][m]
      BY <1>6, <2>1, QueueFacts
    <3>3. QED
      BY <2>1, <3>1, <3>2 DEF LoginBefore
  <2>3. CASE ~ \E m \in 1 .. Len(queue[WorkerOf(u)]) :
               /\ m < n /\ queue[WorkerOf(u)][m].uid = u
               /\ queue[WorkerOf(u)][m].kind = "login"
    BY <1>4, <2>1, <2>3 DEF LoginBefore
  <2>4. QED
    BY <2>2, <2>3
<1>8. QueuedWhereOwned'
  <2> SUFFICES ASSUME NEW w \in Worker, NEW n \in 1 .. Len(queue'[w])
               PROVE  WorkerOf(queue'[w][n].uid) = w /\ queue'[w][n].uid < nextUid
    BY <1>4 DEF QueuedWhereOwned, WorkerOf
  <2>1. CASE w = v /\ n = len + 1
    BY <1>1, <1>5, <2>1 DEF v
  <2>2. CASE n \in 1 .. Len(queue[w])
    BY <1>6, <2>2 DEF LoginInv, QueuedWhereOwned
  <2>3. QED
    BY <1>2, <1>5, <2>1, <2>2
<1>9. BusyWithOwned' /\ ChatFindsPlayer'
  BY <1>4 DEF LoginInv, BusyWithOwned, ChatFindsPlayer, WorkerOf
<1>10. ChatAfterLogin'
  <2> SUFFICES ASSUME NEW w \in Worker, NEW n \in 1 .. Len(queue'[w]), queue'[w][n].kind = "chat",
                      NEW u, u = queue'[w][n].uid
               PROVE  LoginBefore(u, n)'
    BY DEF ChatAfterLogin, LoginBefore, WorkerOf
  <2>1. CASE w = v /\ n = len + 1
    <3>1. k = "chat" /\ u = uid[o]
      BY <1>5, <2>1
    <3>2. client[o] = "chat" /\ reads[o] > 0
      BY <1>3, <3>1 DEF Sendable, IInv, TypeOK
    <3>3. LoginBefore(uid[o], len + 1)
      BY <1>1, <3>2 DEF LoginInv, ReadAfterLogin, v
    <3>4. QED
      BY <1>1, <1>7, <2>1, <3>1, <3>3
  <2>2. CASE n \in 1 .. Len(queue[w])
    <3>1. u = queue[w][n].uid /\ queue[w][n].kind = "chat" /\ u \in Uid
      BY <1>6, <2>2, QueueFacts
    <3>2. LoginBefore(u, n)
      BY <2>2, <3>1 DEF LoginInv, ChatAfterLogin
    <3>3. QED
      BY <1>7, <3>1, <3>2
  <2>3. QED
    BY <1>2, <1>5, <2>1, <2>2
<1>11. ReadAfterLogin'
  <2> SUFFICES ASSUME NEW p \in Obj, uid[p] # NoUid, client[p] = "chat", reads'[p] > 0,
                      NEW u, u = uid[p], NEW n, n = Len(queue'[WorkerOf(u)]) + 1
               PROVE  LoginBefore(u, n)'
    BY <1>4 DEF ReadAfterLogin, LoginBefore, WorkerOf
  <2>1. u \in Uid /\ WorkerOf(u) \in Worker
    BY QueueFacts DEF IInv, TypeOK
  <2>2. CASE reads[p] > 0
    <3> DEFINE old == Len(queue[WorkerOf(u)]) + 1
    <3>1. LoginBefore(u, old)
      BY <2>2 DEF LoginInv, ReadAfterLogin
    <3>2. n >= old /\ n \in Nat /\ old \in Nat
      BY <1>2, <1>5, <1>6, <2>1
    <3>3. LoginBefore(u, n)
      BY <2>1, <3>1, <3>2, QueueFacts DEF LoginBefore
    <3>4. QED
      BY <1>7, <2>1, <3>3
  <2>3. CASE ~(reads[p] > 0)
    <3>1. p = o /\ reads[o] = 0
      BY <1>4, <2>3 DEF IInv, TypeOK
    <3>2. k = "login"
      BY <1>3, <3>1 DEF Sendable
    <3>3. /\ WorkerOf(u) = v /\ len + 1 \in 1 .. Len(queue'[v]) /\ len + 1 < n
          /\ queue'[v][len + 1].uid = u /\ queue'[v][len + 1].kind = "login"
      BY <1>2, <1>5, <3>1, <3>2 DEF v
    <3>4. QED
      BY <3>3 DEF LoginBefore, WorkerOf
  <2>4. QED
    BY <2>2, <2>3
<1>12. QED
  BY <1>8, <1>9, <1>10, <1>11 DEF LoginInv

\* An overflow happens to a connection that was read from before.
LEMMA OverflowLogin ==
  ASSUME IInv, LoginInv, NEW t \in IoThread, NEW o \in Obj, ReadOverflows(t, o)
  PROVE  LoginInv'
<1>1. /\ UNCHANGED <<queue, router, players, uid, nextUid, client, registry>>
      /\ \A p \in Obj : reads'[p] > 0 => reads[p] > 0
  BY DEF ReadOverflows, IInv, TypeOK
<1>2. \A u \in Uid : \A n : LoginBefore(u, n) => LoginBefore(u, n)'
  BY <1>1 DEF LoginBefore, WorkerOf
<1>3. QueuedWhereOwned' /\ BusyWithOwned' /\ ChatFindsPlayer'
  BY <1>1, Zenon DEF LoginInv, QueuedWhereOwned, BusyWithOwned, ChatFindsPlayer, WorkerOf
<1>4. ChatAfterLogin'
  BY <1>1 DEF LoginInv, ChatAfterLogin, LoginBefore, WorkerOf
<1>5. ReadAfterLogin'
  BY <1>1 DEF LoginInv, ReadAfterLogin, LoginBefore, WorkerOf
<1>6. QED
  BY <1>3, <1>4, <1>5 DEF LoginInv

\* A worker takes the head of its queue.  A login it takes is now being
\* handled (or its session is gone), a chat it takes had its login before it:
\* handled, by this worker, for this connection.
LEMMA PopLogin ==
  ASSUME IInv, LoginInv, NEW w \in Worker, RouterPop(w)
  PROVE  LoginInv'
<1> DEFINE q == queue[w]
           i == Head(q)
           o == registry[i.uid]
           held == [obj |-> o, uid |-> i.uid, kind |-> i.kind]
<1>1. /\ q \in Seq(Item) /\ q # <<>> /\ Len(q) \in Nat \ {0}
      /\ i = q[1] /\ i \in Item /\ i.uid \in Uid /\ i.kind \in Kind
  <2>1. q \in Seq(Item) /\ q # <<>>
    BY QueueFacts DEF RouterPop
  <2>2. Len(q) \in Nat \ {0} /\ i = q[1]
    BY <2>1
  <2>3. QED
    BY <2>1, <2>2, QueueFacts DEF Item
<1>2. /\ queue' = [queue EXCEPT ![w] = Tail(q)]
      /\ UNCHANGED <<players, uid, nextUid, client, reads, registry>>
      /\ router[w] = IdleRouter
      /\ router' = IF o = NoObj THEN router ELSE [router EXCEPT ![w] = held]
  BY DEF RouterPop
<1> HIDE DEF q, i
<1>3. /\ \A x \in Worker : x # w => queue'[x] = queue[x] /\ router'[x] = router[x]
      /\ queue'[w] = Tail(q)
      /\ router[w].kind = "none" /\ router[w].obj = NoObj
      /\ IF o = NoObj THEN router'[w] = router[w]
         ELSE router'[w].obj = o /\ router'[w].uid = i.uid /\ router'[w].kind = i.kind
  BY <1>2 DEF IInv, TypeOK, IdleRouter
<1>4. /\ Len(queue'[w]) = Len(q) - 1
      /\ \A n \in 1 .. Len(q) - 1 : queue'[w][n] = q[n + 1]
  <2>1. queue'[w] = Tail(q)
    BY <1>3
  <2>2. QED
    BY <1>1, <2>1
<1>5. \A u \in Uid : WorkerOf(u) # w => \A n : LoginBefore(u, n) => LoginBefore(u, n)'
  BY <1>2, <1>3, QueueFacts DEF LoginBefore, WorkerOf
<1>6. \A u \in Uid : WorkerOf(u) = w =>
        \A n \in Nat : LoginBefore(u, n + 1) => LoginBefore(u, n)'
  <2> SUFFICES ASSUME NEW u \in Uid, WorkerOf(u) = w, NEW n \in Nat, LoginBefore(u, n + 1)
               PROVE  LoginBefore(u, n)'
    OBVIOUS
  <2>1. CASE \E m \in 1 .. Len(q) : m < n + 1 /\ q[m].uid = u /\ q[m].kind = "login"
    <3>1. PICK m \in 1 .. Len(q) : m < n + 1 /\ q[m].uid = u /\ q[m].kind = "login"
      BY <2>1
    <3>2. CASE m = 1
      <4>1. o = NoObj => registry'[u] = NoObj
        BY <1>1, <1>2, <3>1, <3>2
      <4>2. o # NoObj => router'[w].kind = "login" /\ router'[w].uid = u
        BY <1>1, <1>3, <3>1, <3>2
      <4>3. QED
        BY <4>1, <4>2 DEF LoginBefore, WorkerOf
    <3>3. CASE m # 1
      <4>1. /\ m - 1 \in 1 .. Len(queue'[w]) /\ m - 1 < n
            /\ queue'[w][m - 1].uid = u /\ queue'[w][m - 1].kind = "login"
        <5>1. m - 1 \in 1 .. Len(q) - 1 /\ (m - 1) + 1 = m
          BY <1>1, <3>1, <3>3
        <5>2. queue'[w][m - 1] = q[m]
          BY <1>4, <5>1
        <5>3. QED
          BY <1>4, <3>1, <5>1, <5>2
      <4>2. QED
        BY <4>1 DEF LoginBefore, WorkerOf
    <3>4. QED
      BY <3>2, <3>3
  <2>2. CASE \/ \E p \in Obj : uid[p] = u /\ players[p] # {}
             \/ registry[u] = NoObj
    BY <1>2, <2>2 DEF LoginBefore
  <2>3. QED
    BY <1>3, <2>1, <2>2 DEF LoginBefore, q
<1>7. QueuedWhereOwned'
  <2> SUFFICES ASSUME NEW x \in Worker, NEW n \in 1 .. Len(queue'[x])
               PROVE  WorkerOf(queue'[x][n].uid) = x /\ queue'[x][n].uid < nextUid
    BY <1>2 DEF QueuedWhereOwned, WorkerOf
  <2>1. CASE x = w
    <3>1. n + 1 \in 1 .. Len(q) /\ queue'[x][n] = q[n + 1]
      BY <1>1, <1>4, <2>1
    <3>2. QED
      BY <2>1, <3>1 DEF LoginInv, QueuedWhereOwned, q
  <2>2. CASE x # w
    BY <1>3, <2>2 DEF LoginInv, QueuedWhereOwned
  <2>3. QED
    BY <2>1, <2>2
<1>8. WorkerOf(i.uid) = w
  BY <1>1 DEF LoginInv, QueuedWhereOwned, q
<1>9. BusyWithOwned'
  BY <1>1, <1>3, <1>8 DEF LoginInv, BusyWithOwned, WorkerOf, Kind
<1>10. ChatFindsPlayer'
  <2>1. ASSUME o # NoObj, i.kind = "chat" PROVE players[o] # {}
    <3>1. LoginBefore(i.uid, 1)
      BY <1>1, <2>1 DEF LoginInv, ChatAfterLogin, q
    <3>2. PICK p \in Obj : uid[p] = i.uid /\ players[p] # {}
      BY <1>3, <1>8, <2>1, <3>1 DEF LoginBefore
    <3>3. o \in Obj /\ uid[o] = i.uid
      BY <1>1, <2>1 DEF IInv, TypeOK, Maybe, RegistryCoherent
    <3>4. i.uid # NoUid
      BY <1>1, ConstantsOK DEF Uid, NoUid
    <3>5. p = o
      BY <3>2, <3>3, <3>4 DEF IInv, UidsDistinct
    <3>6. QED
      BY <3>2, <3>5
  <2>2. ASSUME NEW x \in Worker, router'[x].kind = "chat" PROVE players[router'[x].obj] # {}
    <3>1. CASE x = w
      BY <1>3, <2>1, <2>2, <3>1
    <3>2. CASE x # w
      BY <1>3, <2>2, <3>2 DEF LoginInv, ChatFindsPlayer
    <3>3. QED
      BY <3>1, <3>2
  <2>3. QED
    BY <1>2, <2>2 DEF ChatFindsPlayer
<1>11. ChatAfterLogin'
  <2> SUFFICES ASSUME NEW x \in Worker, NEW n \in 1 .. Len(queue'[x]), queue'[x][n].kind = "chat",
                      NEW u, u = queue'[x][n].uid
               PROVE  LoginBefore(u, n)'
    BY DEF ChatAfterLogin, LoginBefore, WorkerOf
  <2>1. CASE x = w
    <3>1. n \in Nat /\ n + 1 \in 1 .. Len(q) /\ queue'[x][n] = q[n + 1]
      BY <1>1, <1>4, <2>1
    <3>2. u \in Uid /\ WorkerOf(u) = w /\ LoginBefore(u, n + 1)
      BY <2>1, <3>1, QueueFacts DEF LoginInv, ChatAfterLogin, QueuedWhereOwned, q
    <3>3. QED
      BY <1>6, <3>1, <3>2
  <2>2. CASE x # w
    <3>1. u \in Uid /\ WorkerOf(u) # w /\ LoginBefore(u, n)
      BY <1>3, <2>2, QueueFacts DEF LoginInv, ChatAfterLogin, QueuedWhereOwned
    <3>2. QED
      BY <1>5, <3>1
  <2>3. QED
    BY <2>1, <2>2
<1>12. ReadAfterLogin'
  <2> SUFFICES ASSUME NEW p \in Obj, uid[p] # NoUid, client[p] = "chat", reads[p] > 0,
                      NEW u, u = uid[p], NEW n, n = Len(queue'[WorkerOf(u)]) + 1
               PROVE  LoginBefore(u, n)'
    BY <1>2, Zenon DEF ReadAfterLogin, LoginBefore, WorkerOf
  <2>1. u \in Uid /\ LoginBefore(u, Len(queue[WorkerOf(u)]) + 1)
    BY DEF IInv, TypeOK, LoginInv, ReadAfterLogin
  <2>2. CASE WorkerOf(u) = w
    <3>1. n \in Nat /\ n + 1 = Len(queue[WorkerOf(u)]) + 1
      BY <1>1, <1>4, <2>2 DEF q
    <3>2. QED
      BY <1>6, <2>1, <2>2, <3>1
  <2>3. CASE WorkerOf(u) # w
    <3>1. n = Len(queue[WorkerOf(u)]) + 1
      BY <1>3, <2>1, <2>3, QueueFacts
    <3>2. QED
      BY <1>5, <2>1, <2>3, <3>1
  <2>4. QED
    BY <2>2, <2>3
<1>13. QED
  BY <1>7, <1>9, <1>10, <1>11, <1>12 DEF LoginInv

\* A handler ends: its worker is idle again, and a login has left its Player.
LEMMA HandlerLogin ==
  ASSUME IInv, LoginInv, NEW w \in Worker, NEW o \in Obj,
         HandleLogin(w, o) \/ HandleDummy(w, o) \/ HandleChat(w, o)
  PROVE  LoginInv'
<1>1. /\ UNCHANGED <<queue, uid, nextUid, client, reads, registry>>
      /\ router' = [router EXCEPT ![w] = IdleRouter]
      /\ router[w].obj = o
      /\ players' = IF router[w].kind = "login"
                    THEN [players EXCEPT ![o] = @ \cup {uid[o]}] ELSE players
  BY DEF HandleLogin, HandleDummy, HandleChat
<1>2. /\ \A x \in Worker : x # w => router'[x] = router[x]
      /\ router'[w].kind = "none" /\ router'[w].obj = NoObj
      /\ \A p \in Obj : players[p] # {} => players'[p] # {}
      /\ router[w].kind = "login" => players'[o] # {}
  BY <1>1 DEF IInv, TypeOK, IdleRouter
<1>3. router[w].uid = uid[o]
  BY <1>1, ConstantsOK DEF IInv, HandlerKeepsItsSession
<1>4. \A u \in Uid : \A n : LoginBefore(u, n) => LoginBefore(u, n)'
  <2> SUFFICES ASSUME NEW u \in Uid, NEW n, LoginBefore(u, n) PROVE LoginBefore(u, n)'
    OBVIOUS
  <2>1. CASE \E p \in Obj : uid[p] = u /\ players[p] # {}
    BY <1>1, <1>2, <2>1 DEF LoginBefore
  <2>2. CASE router[WorkerOf(u)].kind = "login" /\ router[WorkerOf(u)].uid = u
    <3>1. CASE WorkerOf(u) = w
      BY <1>1, <1>2, <1>3, <2>2, <3>1 DEF LoginBefore
    <3>2. CASE WorkerOf(u) # w
      BY <1>2, <2>2, <3>2, QueueFacts DEF LoginBefore, WorkerOf
    <3>3. QED
      BY <3>1, <3>2
  <2>3. QED
    BY <1>1, <2>1, <2>2 DEF LoginBefore, WorkerOf
<1>5. QueuedWhereOwned' /\ BusyWithOwned'
  BY <1>1, <1>2 DEF LoginInv, QueuedWhereOwned, BusyWithOwned, WorkerOf
<1>6. ChatFindsPlayer'
  <2> SUFFICES ASSUME NEW x \in Worker, router'[x].kind = "chat"
               PROVE  players'[router'[x].obj] # {}
    BY DEF ChatFindsPlayer
  <2>1. x # w /\ router'[x] = router[x]
    BY <1>2
  <2>2. router[x].obj \in Obj /\ players[router[x].obj] # {}
    BY <2>1 DEF LoginInv, BusyWithOwned, ChatFindsPlayer, IInv, TypeOK, Maybe
  <2>3. QED
    BY <1>2, <2>1, <2>2
<1>7. ChatAfterLogin'
  <2> SUFFICES ASSUME NEW x \in Worker, NEW n \in 1 .. Len(queue'[x]), queue'[x][n].kind = "chat"
               PROVE  LoginBefore(queue[x][n].uid, n)'
    BY Zenon DEF ChatAfterLogin
  <2> DEFINE u == queue[x][n].uid
  <2>1. queue' = queue
    BY <1>1
  <2>2. u \in Uid /\ LoginBefore(u, n)
    BY <2>1, QueueFacts DEF LoginInv, ChatAfterLogin
  <2>3. \A v : v = u => LoginBefore(v, n)'
    BY <1>4, <2>2, Zenon
  <2>4. u' = u
    BY <2>1
  <2>5. QED
    BY <2>3, <2>4, Zenon DEF LoginBefore
<1>8. ReadAfterLogin'
  <2> SUFFICES ASSUME NEW p \in Obj, uid[p] # NoUid, client[p] = "chat", reads[p] > 0,
                      NEW u, u = uid[p], NEW n, n = Len(queue[WorkerOf(u)]) + 1
               PROVE  LoginBefore(u, n)'
    BY <1>1 DEF ReadAfterLogin, LoginBefore, WorkerOf
  <2>1. u \in Uid /\ LoginBefore(u, n)
    BY DEF IInv, TypeOK, LoginInv, ReadAfterLogin
  <2>2. QED
    BY <1>4, <2>1
<1>9. QED
  BY <1>5, <1>6, <1>7, <1>8 DEF LoginInv

LEMMA LoginInit == Init => LoginInv
<1> SUFFICES ASSUME Init PROVE LoginInv
  OBVIOUS
<1>1. \A w \in Worker : queue[w] = <<>> /\ router[w] = IdleRouter
  BY DEF Init
<1>2. QueuedWhereOwned /\ ChatAfterLogin
  BY <1>1 DEF QueuedWhereOwned, ChatAfterLogin
<1>3. BusyWithOwned /\ ChatFindsPlayer
  BY <1>1 DEF BusyWithOwned, ChatFindsPlayer, IdleRouter
<1>4. ReadAfterLogin
  BY DEF Init, ReadAfterLogin
<1>5. QED
  BY <1>2, <1>3, <1>4 DEF LoginInv

LEMMA LoginStep == IInv /\ LoginInv /\ [Next]_vars => LoginInv'
<1> SUFFICES ASSUME IInv, LoginInv, [Next]_vars PROVE LoginInv'
  OBVIOUS
<1>1. ASSUME NEW t \in IoThread, IoStep(t) PROVE LoginInv'
  BY <1>1, AcceptLogin, ReadLogin, OverflowLogin, QuietSteps, SMTT(30) DEF IoStep
<1>2. ASSUME NEW k \in TaskThread, TaskStep(k) PROVE LoginInv'
  BY <1>2, QuietSteps
<1>3. ASSUME NEW w \in Worker, RouterStep(w) PROVE LoginInv'
  BY <1>3, PopLogin, HandlerLogin DEF RouterStep
<1>4. ASSUME NEW o \in Obj, PeerCloses(o) PROVE LoginInv'
  BY <1>4, QuietSteps, Zenon
<1>5. CASE UNCHANGED vars
  BY <1>5 DEF vars, LoginInv, QueuedWhereOwned, BusyWithOwned, ChatAfterLogin,
              ReadAfterLogin, ChatFindsPlayer, LoginBefore, WorkerOf
<1>6. QED
  BY <1>1, <1>2, <1>3, <1>4, <1>5 DEF Next

\* HandleChatReq never finds m_Player empty: whatever closes, reconnects and
\* races, the login of the same connection was handled before its chat.
THEOREM ChatSafe == Spec => []ChatFindsPlayer
<1>1. LoginInv => ChatFindsPlayer
  BY DEF LoginInv
<1>2. QED
  BY <1>1, LoginInit, LoginStep, Invariance, PTL DEF Spec

-----------------------------------------------------------------------------
\* The sessions held are finitely many, and never fewer than are counted.
CountInv == IsFiniteSet(sessions) /\ CountNeverAbove

\* An accept adds a session the service does not hold yet.
LEMMA AcceptCount ==
  ASSUME IInv, CountInv, NEW t \in IoThread, NEW o \in Obj, HandleAccept(t, o)
  PROVE  CountInv'
<1>1. o \notin sessions /\ sessions' = sessions \cup {o} /\ sessionCount' = sessionCount + 1
  BY DEF HandleAccept, IInv, PooledIsUnowned, Referenced
<1>2. IsFiniteSet(sessions') /\ Cardinality(sessions') = Cardinality(sessions) + 1
  BY <1>1, FS_AddElement DEF CountInv
<1>3. Cardinality(sessions) \in Nat /\ sessionCount \in Int
  BY FS_CardinalityType DEF CountInv, IInv, TypeOK
<1>4. QED
  BY <1>1, <1>2, <1>3 DEF CountInv, CountNeverAbove

\* A close counts one down and releases at most one session.
LEMMA CloseCount ==
  ASSUME IInv, CountInv, NEW k \in TaskThread, NEW o \in Obj, CloseEnd(k, o)
  PROVE  CountInv'
<1>1. sessions' = sessions \ {o} /\ sessionCount' = sessionCount - 1
  BY DEF CloseEnd
<1>2. IsFiniteSet(sessions') /\ Cardinality(sessions') >= Cardinality(sessions) - 1
  <2>1. IsFiniteSet(sessions) /\ Cardinality(sessions) \in Nat
    BY FS_CardinalityType DEF CountInv
  <2>2. /\ IsFiniteSet(sessions \ {o})
        /\ Cardinality(sessions \ {o}) =
             IF o \in sessions THEN Cardinality(sessions) - 1 ELSE Cardinality(sessions)
    BY <2>1, FS_RemoveElement
  <2>3. QED
    BY <1>1, <2>1, <2>2
<1>3. Cardinality(sessions) \in Nat /\ Cardinality(sessions') \in Nat /\ sessionCount \in Int
  BY <1>2, FS_CardinalityType DEF CountInv, IInv, TypeOK
<1>4. QED
  BY <1>1, <1>2, <1>3 DEF CountInv, CountNeverAbove

LEMMA CountStep == IInv /\ CountInv /\ [Next]_vars => CountInv'
<1> SUFFICES ASSUME IInv, CountInv, [Next]_vars PROVE CountInv'
  OBVIOUS
<1>1. CASE \/ \E t \in IoThread, o \in Obj : HandleAccept(t, o)
           \/ \E k \in TaskThread, o \in Obj : CloseEnd(k, o)
  BY <1>1, AcceptCount, CloseCount
<1>2. CASE ~ (\/ \E t \in IoThread, o \in Obj : HandleAccept(t, o)
              \/ \E k \in TaskThread, o \in Obj : CloseEnd(k, o))
  <2>1. UNCHANGED <<sessions, sessionCount>>
    <3>1. ASSUME NEW t \in IoThread, IoStep(t) PROVE UNCHANGED <<sessions, sessionCount>>
      BY <1>2, <3>1 DEF IoStep, ReadPacket, ReadFails, ReadOverflows, WriteDone,
                        WriteFails, MarkAndPush, PoolExhausted
    <3>2. ASSUME NEW k \in TaskThread, TaskStep(k) PROVE UNCHANGED <<sessions, sessionCount>>
      BY <1>2, <3>2 DEF TaskStep, TaskPop, CloseBegin
    <3>3. ASSUME NEW w \in Worker, RouterStep(w) PROVE UNCHANGED <<sessions, sessionCount>>
      BY <3>3 DEF RouterStep, RouterPop, HandleLogin, HandleDummy, HandleChat
    <3>4. ASSUME NEW o \in Obj, PeerCloses(o) PROVE UNCHANGED <<sessions, sessionCount>>
      BY <3>4 DEF PeerCloses
    <3>5. CASE UNCHANGED vars
      BY <3>5 DEF vars
    <3>6. QED
      BY <3>1, <3>2, <3>3, <3>4, <3>5 DEF Next
  <2>2. QED
    BY <2>1 DEF CountInv, CountNeverAbove
<1>3. QED
  BY <1>1, <1>2

\* Whatever closes in parallel, m_SessionCount never exceeds the sessions held.
THEOREM CountSafe == Spec => []CountNeverAbove
<1>1. Init => CountInv
  BY FS_EmptySet DEF Init, CountInv, CountNeverAbove
<1>2. CountInv => CountNeverAbove
  BY DEF CountInv
<1>3. QED
  BY <1>1, <1>2, CountStep, Invariance, PTL DEF Spec

-----------------------------------------------------------------------------
\* No session is being closed by two TaskQueue workers at once.
ClosesAlone ==
  \A j, k \in TaskThread :
    tasker[j].obj = tasker[k].obj /\ tasker[j].obj # NoObj => j = k

\* A session a TaskQueue worker closes is still held by the service.
ClosingIsHeld ==
  \A k \in TaskThread : tasker[k].obj # NoObj => tasker[k].obj \in sessions

ExactInv == IsFiniteSet(sessions) /\ CountExact /\ ClosingIsHeld

LEMMA AcceptExact ==
  ASSUME IInv, ExactInv, NEW t \in IoThread, NEW o \in Obj, HandleAccept(t, o)
  PROVE  ExactInv'
<1>1. /\ o \notin sessions /\ sessions' = sessions \cup {o}
      /\ sessionCount' = sessionCount + 1 /\ tasker' = tasker
  BY DEF HandleAccept, IInv, PooledIsUnowned, Referenced
<1>2. IsFiniteSet(sessions') /\ Cardinality(sessions') = Cardinality(sessions) + 1
  BY <1>1, FS_AddElement DEF ExactInv
<1>3. QED
  BY <1>1, <1>2 DEF ExactInv, CountExact, ClosingIsHeld

\* A session that closes alone is erased and counted down together.
LEMMA CloseExact ==
  ASSUME IInv, ExactInv, ClosesAlone, NEW k \in TaskThread, NEW o \in Obj, CloseEnd(k, o)
  PROVE  ExactInv'
<1>1. /\ tasker[k].obj = o /\ sessions' = sessions \ {o}
      /\ sessionCount' = sessionCount - 1 /\ tasker' = [tasker EXCEPT ![k] = IdleTasker]
  BY DEF CloseEnd
<1>2. o # NoObj
  BY ConstantsOK
<1>3. o \in sessions
  BY <1>1, <1>2 DEF ExactInv, ClosingIsHeld
<1>4. IsFiniteSet(sessions') /\ Cardinality(sessions') = Cardinality(sessions) - 1
  BY <1>1, <1>3, FS_RemoveElement DEF ExactInv
<1>5. ClosingIsHeld'
  <2> SUFFICES ASSUME NEW j \in TaskThread, tasker'[j].obj # NoObj
               PROVE  tasker'[j].obj \in sessions'
    BY DEF ClosingIsHeld
  <2>1. j # k /\ tasker'[j] = tasker[j]
    BY <1>1 DEF IInv, TypeOK, IdleTasker
  <2>2. tasker[j].obj # o
    BY <1>1, <1>2, <2>1 DEF ClosesAlone
  <2>3. QED
    BY <1>1, <2>1, <2>2 DEF ExactInv, ClosingIsHeld
<1>6. QED
  BY <1>1, <1>4, <1>5 DEF ExactInv, CountExact

\* A worker takes its session from the SessionManager, where it is live.
LEMMA PopExact ==
  ASSUME IInv, ExactInv, NEW k \in TaskThread, TaskPop(k)
  PROVE  ExactInv'
<1>1. UNCHANGED <<sessions, sessionCount>>
  BY DEF TaskPop
<1>2. Head(tasks) \in Uid
  BY DEF TaskPop, IInv, TypeOK
<1>3. registry[Head(tasks)] # NoObj => registry[Head(tasks)] \in sessions
  BY <1>2 DEF IInv, RegistryCoherent
<1>4. ClosingIsHeld'
  <2> SUFFICES ASSUME NEW j \in TaskThread, tasker'[j].obj # NoObj
               PROVE  tasker'[j].obj \in sessions
    BY <1>1 DEF ClosingIsHeld
  <2>1. CASE tasker'[j] = tasker[j]
    BY <2>1 DEF ExactInv, ClosingIsHeld
  <2>2. CASE tasker'[j] # tasker[j]
    BY <1>3, <2>2 DEF TaskPop, IInv, TypeOK
  <2>3. QED
    BY <2>1, <2>2
<1>5. QED
  BY <1>1, <1>4 DEF ExactInv, CountExact

LEMMA ExactStep == IInv /\ ExactInv /\ ClosesAlone /\ [Next]_vars => ExactInv'
<1> SUFFICES ASSUME IInv, ExactInv, ClosesAlone, [Next]_vars PROVE ExactInv'
  OBVIOUS
<1>1. ASSUME NEW k \in TaskThread, NEW o \in Obj, CloseBegin(k, o) PROVE ExactInv'
  <2>1. UNCHANGED <<sessions, sessionCount>>
    BY <1>1 DEF CloseBegin
  <2>2. \A j \in TaskThread : tasker'[j].obj = tasker[j].obj
    BY <1>1 DEF CloseBegin, IInv, TypeOK
  <2>3. QED
    BY <2>1, <2>2 DEF ExactInv, CountExact, ClosingIsHeld
<1>2. CASE \/ \E t \in IoThread, o \in Obj : HandleAccept(t, o)
           \/ \E k \in TaskThread : TaskStep(k)
  BY <1>1, <1>2, AcceptExact, CloseExact, PopExact DEF TaskStep
<1>3. CASE ~ (\/ \E t \in IoThread, o \in Obj : HandleAccept(t, o)
              \/ \E k \in TaskThread : TaskStep(k))
  <2>1. UNCHANGED <<sessions, sessionCount, tasker>>
    <3>1. ASSUME NEW t \in IoThread, IoStep(t) PROVE UNCHANGED <<sessions, sessionCount, tasker>>
      BY <1>3, <3>1 DEF IoStep, ReadPacket, ReadFails, ReadOverflows, WriteDone,
                        WriteFails, MarkAndPush, PoolExhausted
    <3>2. ASSUME NEW w \in Worker, RouterStep(w) PROVE UNCHANGED <<sessions, sessionCount, tasker>>
      BY <3>2 DEF RouterStep, RouterPop, HandleLogin, HandleDummy, HandleChat
    <3>3. ASSUME NEW o \in Obj, PeerCloses(o) PROVE UNCHANGED <<sessions, sessionCount, tasker>>
      BY <3>3 DEF PeerCloses
    <3>4. CASE UNCHANGED vars
      BY <3>4 DEF vars
    <3>5. QED
      BY <1>3, <3>1, <3>2, <3>3, <3>4 DEF Next
  <2>2. QED
    BY <2>1 DEF ExactInv, CountExact, ClosingIsHeld
<1>4. QED
  BY <1>2, <1>3

LEMMA ExactInit == Init => ExactInv
BY FS_EmptySet DEF Init, ExactInv, CountExact, ClosingIsHeld, IdleTasker

\* m_SessionCount drifts from the sessions held only when two TaskQueue
\* workers close one session at the same time: whatever else connects, closes
\* and is recycled, a behaviour without such a close keeps it exact.
THEOREM CountExactWithoutRace == Spec /\ []ClosesAlone => []CountExact
<1>1. ExactInv => CountExact
  BY DEF ExactInv
<1>2. QED
  BY <1>1, ExactInit, ExactStep, Invariance, PTL DEF Spec

\* With a single TaskQueue worker m_SessionCount is always the number of
\* sessions the service holds.
THEOREM CountExactOneWorker ==
  ASSUME \A j, k \in TaskThread : j = k
  PROVE  Spec => []CountExact
<1>1. ClosesAlone
  BY DEF ClosesAlone
<1>2. QED
  BY <1>1, CountExactWithoutRace, PTL

=============================================================================
