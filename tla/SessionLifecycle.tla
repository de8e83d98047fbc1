-------------------------- MODULE SessionLifecycle --------------------------
(***************************************************************************)
(* The life of a server session: a GameSession object is popped from the   *)
(* ObjectPool when a connection is accepted, gets a UID, is registered     *)
(* with the SessionManager, is held by the handlers that asio, the         *)
(* TaskQueue and the PacketRouter run on their own threads, is closed      *)
(* through a Disconnect task, and goes back to the pool when the last      *)
(* shared_ptr to it goes away.                                             *)
(*                                                                         *)
(* Sources: src/ServerCore AsioAcceptor, AsioService, AsioSession,         *)
(* SessionManager, TaskQueue, PacketRouter, Pool.h; src/GameServer         *)
(* GameServer, GameSession, ClientPacketHandler, Player.                   *)
(*                                                                         *)
(* Grain.  One action is one step between two points where another thread  *)
(* can see or change the same state.  Steps merged into one action commute *)
(* with everything the other threads do (README, "Grain of atomicity").    *)
(* Bytes, buffers and rooms are other modules: here a packet is its kind.  *)
(***************************************************************************)
EXTENDS Integers, Sequences, FiniteSets

CONSTANTS
  Obj,          \* the GameSession objects InitPool creates
  NoObj,        \* nullptr
  IoThread,     \* the threads in io_context::run
  TaskThread,   \* the TaskQueue's workers
  NumWorkers,   \* the PacketRouter's m_NumWorkers
  MaxConn,      \* bound: connections accepted in a behaviour
  MaxRead,      \* bound: packets one connection sends
  MaxWrite      \* bound: async_writes in flight on one session

ASSUME ConstantsOK ==
  /\ NoObj \notin Obj
  /\ IoThread \cap TaskThread = {}
  /\ NumWorkers \in Nat \ {0}
  /\ MaxConn \in Nat
  /\ MaxRead \in Nat
  /\ MaxWrite \in Nat

VARIABLES
  pool,         \* the free objects of the ObjectPool's stack
  netState,     \* m_NetState of each object
  uid,          \* m_SessionUID of each object, NoUid before the first one
  players,      \* the m_PlayerUID of every Player in an object's m_Player
  link,         \* what the object's socket is connected to
  client,       \* what the peer of the object's connection runs
  reads,        \* packets read from the object's connection
  readArmed,    \* objects an async_read_some handler holds
  writes,       \* async_write handlers that hold each object
  io,           \* what each asio thread does
  sessions,     \* AsioService::m_Sessions
  sessionCount, \* AsioService::m_SessionCount
  nextUid,      \* AsioService::m_SessionUID
  registry,     \* SessionManager::m_Sessions
  tasks,        \* TaskQueue::m_TaskQueue: UIDs to disconnect
  tasker,       \* what each TaskQueue worker does
  queue,        \* PacketRouter::m_PacketQueue, one queue per worker
  router,       \* the item each PacketRouter worker handles
  up            \* the process runs

vars == <<pool, netState, uid, players, link, client, reads, readArmed,
          writes, io, sessions, sessionCount, nextUid, registry, tasks,
          tasker, queue, router, up>>

NoUid  == -1
Uid    == 0 .. MaxConn - 1
Worker == 0 .. NumWorkers - 1
Maybe  == Obj \cup {NoObj}

IdleIo     == [pc |-> "idle", obj |-> NoObj, rearm |-> FALSE]
IdleTasker == [pc |-> "idle", obj |-> NoObj]
IdleRouter == [obj |-> NoObj, uid |-> NoUid, kind |-> "none"]

Kind == {"login", "chat", "dummy"}
Item == [uid : Uid, kind : Kind]

\* Types of every variable; a UID the TaskQueue or a router queue carries is
\* one the service has issued a slot for.
TypeOK ==
  /\ pool \in SUBSET Obj
  /\ netState \in [Obj -> {"None", "Disconnect"}]
  /\ uid \in [Obj -> Uid \cup {NoUid}]
  /\ players \in [Obj -> SUBSET Uid]
  /\ link \in [Obj -> {"none", "open", "lost", "closed"}]
  /\ client \in [Obj -> {"chat", "dummy"}]
  /\ reads \in [Obj -> 0 .. MaxRead]
  /\ readArmed \in SUBSET Obj
  /\ writes \in [Obj -> 0 .. MaxWrite]
  /\ io \in [IoThread -> [pc : {"idle", "mark"}, obj : Maybe, rearm : BOOLEAN]]
  /\ sessions \in SUBSET Obj
  /\ sessionCount \in Int
  /\ nextUid \in 0 .. MaxConn
  /\ registry \in [Uid -> Maybe]
  /\ tasks \in Seq(Uid)
  /\ tasker \in [TaskThread -> [pc : {"idle", "close", "release"}, obj : Maybe]]
  /\ queue \in [Worker -> Seq(Item)]
  /\ router \in [Worker -> [obj : Maybe, uid : Uid \cup {NoUid},
                            kind : Kind \cup {"none"}]]
  /\ up \in BOOLEAN

-----------------------------------------------------------------------------
\* Mutant: a PacketRouter worker keeps a raw pointer to its session.
ReferencedWithoutRouters(o) ==
  \/ o \in sessions
  \/ \E u \in Uid : registry[u] = o
  \/ o \in readArmed
  \/ writes[o] > 0
  \/ \E t \in IoThread : io[t].obj = o
  \/ \E k \in TaskThread : tasker[k].obj = o
  \/ players[o] # {}

\* Mutant: Player::ownerSession is a weak reference.
ReferencedWithoutPlayers(o) ==
  \/ o \in sessions
  \/ \E u \in Uid : registry[u] = o
  \/ o \in readArmed
  \/ writes[o] > 0
  \/ \E t \in IoThread : io[t].obj = o
  \/ \E k \in TaskThread : tasker[k].obj = o
  \/ \E w \in Worker : router[w].obj = o

\* Every way the program keeps a shared_ptr to session object o.  A Player's
\* ownerSession points back to the session whose m_Player holds that Player.
Referenced(o) ==
  \/ o \in sessions
  \/ \E u \in Uid : registry[u] = o
  \/ o \in readArmed
  \/ writes[o] > 0
  \/ \E t \in IoThread : io[t].obj = o
  \/ \E k \in TaskThread : tasker[k].obj = o
  \/ \E w \in Worker : router[w].obj = o
  \/ players[o] # {}

\* The pool's custom deleter: when a step drops the last reference to o, the
\* object is pushed back, with the members it has.
Settle(o) ==
  pool' = IF ~Referenced(o)' THEN pool \cup {o} ELSE pool

Init ==
  /\ pool = Obj
  /\ netState = [o \in Obj |-> "None"]
  /\ uid = [o \in Obj |-> NoUid]
  /\ players = [o \in Obj |-> {}]
  /\ link = [o \in Obj |-> "none"]
  /\ client = [o \in Obj |-> "dummy"]
  /\ reads = [o \in Obj |-> 0]
  /\ readArmed = {}
  /\ writes = [o \in Obj |-> 0]
  /\ io = [t \in IoThread |-> IdleIo]
  /\ sessions = {}
  /\ sessionCount = 0
  /\ nextUid = 0
  /\ registry = [u \in Uid |-> NoObj]
  /\ tasks = <<>>
  /\ tasker = [k \in TaskThread |-> IdleTasker]
  /\ queue = [w \in Worker |-> <<>>]
  /\ router = [w \in Worker |-> IdleRouter]
  /\ up = TRUE

-----------------------------------------------------------------------------
(* asio threads *)

\* Mutant: the session count serves as the next UID.
HandleAcceptCountAsUid(t, o) ==
  /\ nextUid < MaxConn
  /\ io[t] = IdleIo
  /\ o \in pool
  /\ pool' = pool \ {o}
  /\ link' = [link EXCEPT ![o] = "open"]
  /\ \E c \in {"chat", "dummy"} : client' = [client EXCEPT ![o] = c]
  /\ reads' = [reads EXCEPT ![o] = 0]
  /\ sessions' = sessions \cup {o}
  /\ sessionCount' = sessionCount + 1
  /\ uid' = [uid EXCEPT ![o] = sessionCount]
  /\ nextUid' = nextUid + 1
  /\ registry' = IF registry[sessionCount] = NoObj
                 THEN [registry EXCEPT ![sessionCount] = o] ELSE registry
  /\ readArmed' = readArmed \cup {o}
  /\ UNCHANGED <<netState, players, writes, io, tasks, tasker, queue, router, up>>

\* HandleAccept: CreateSession pops an object, InitSession gives it the new
\* socket, the service counts it and numbers it; then OnConnected registers
\* it and DoRead starts the first read.  netState and players are kept.
HandleAccept(t, o) ==
  /\ nextUid < MaxConn
  /\ io[t] = IdleIo
  /\ o \in pool
  /\ pool' = pool \ {o}
  /\ link' = [link EXCEPT ![o] = "open"]
  /\ \E c \in {"chat", "dummy"} : client' = [client EXCEPT ![o] = c]
  /\ reads' = [reads EXCEPT ![o] = 0]
  /\ sessions' = sessions \cup {o}
  /\ sessionCount' = sessionCount + 1
  /\ uid' = [uid EXCEPT ![o] = nextUid]
  /\ nextUid' = nextUid + 1
  /\ registry' = IF registry[nextUid] = NoObj
                 THEN [registry EXCEPT ![nextUid] = o] ELSE registry
  /\ readArmed' = readArmed \cup {o}
  /\ UNCHANGED <<netState, players, writes, io, tasks, tasker, queue, router, up>>

\* The pool is empty: Pop logs GetSize() while it holds m_Mutex, the second
\* lock of that std::mutex throws, and nothing on the asio thread catches it.
PoolExhausted(t) ==
  /\ nextUid < MaxConn
  /\ io[t] = IdleIo
  /\ pool = {}
  /\ up' = FALSE
  /\ UNCHANGED <<pool, netState, uid, players, link, client, reads, readArmed,
                 writes, io, sessions, sessionCount, nextUid, registry, tasks,
                 tasker, queue, router>>

\* The queue of the worker that owns a session UID.
WorkerOf(u) == u % NumWorkers

\* Mutant: a packet goes to the worker with the shortest queue.
DispatchToShortest(u, k) ==
  \E w \in Worker :
    /\ \A v \in Worker : Len(queue[w]) <= Len(queue[v])
    /\ queue' = [queue EXCEPT ![w] = Append(@, [uid |-> u, kind |-> k])]

\* Dispatch of one packet of session u.
Dispatch(u, k) ==
  queue' = [queue EXCEPT ![WorkerOf(u)] = Append(@, [uid |-> u, kind |-> k])]

\* What the peer may send next: the chat client logs in before it chats (and
\* may log in again), the dummy client only sends dummy packets.
Sendable(o) ==
  IF client[o] = "dummy" THEN {"dummy"}
  ELSE IF reads[o] = 0 THEN {"login"} ELSE {"login", "chat"}

\* HandleRead without error: the packet read is dispatched and DoRead arms
\* the next read.  A read that completed before a close is still delivered.
ReadPacket(t, o) ==
  /\ io[t] = IdleIo
  /\ o \in readArmed
  /\ reads[o] < MaxRead
  /\ reads' = [reads EXCEPT ![o] = @ + 1]
  /\ \E k \in Sendable(o) : Dispatch(uid[o], k)
  /\ UNCHANGED <<pool, netState, uid, players, link, client, readArmed, writes,
                 io, sessions, sessionCount, nextUid, registry, tasks, tasker,
                 router, up>>

\* ProcessDisconnect up to the test of m_NetState, by the handler of a
\* completion on o; a handler that goes on holds o until MarkAndPush.
StartDisconnect(t, o, rearm) ==
  io' = IF netState[o] = "Disconnect" THEN io
        ELSE [io EXCEPT ![t] = [pc |-> "mark", obj |-> o, rearm |-> rearm]]

\* Mutant: a read error ends the handler without ProcessDisconnect.
ReadFailsSilently(t, o) ==
  /\ io[t] = IdleIo
  /\ o \in readArmed
  /\ link[o] \in {"lost", "closed"}
  /\ readArmed' = readArmed \ {o}
  /\ UNCHANGED <<netState, uid, players, link, client, reads, writes, io,
                 sessions, sessionCount, nextUid, registry, tasks, tasker,
                 queue, router, up>>
  /\ Settle(o)

\* HandleRead with an error: end of file or reset by the peer, or aborted by
\* our own close.  No further read is armed.
ReadFails(t, o) ==
  /\ io[t] = IdleIo
  /\ o \in readArmed
  /\ link[o] \in {"lost", "closed"}
  /\ readArmed' = readArmed \ {o}
  /\ StartDisconnect(t, o, FALSE)
  /\ UNCHANGED <<netState, uid, players, link, client, reads, writes, sessions,
                 sessionCount, nextUid, registry, tasks, tasker, queue, router, up>>
  /\ Settle(o)

\* HandleRead whose bytes do not fit behind the earlier ones in the session's
\* packet buffer (an empty one holds any read): AddData calls
\* ProcessDisconnect, drops them, and HandleRead still re-arms the read.
ReadOverflows(t, o) ==
  /\ io[t] = IdleIo
  /\ o \in readArmed
  /\ reads[o] \in 1 .. MaxRead - 1
  /\ reads' = [reads EXCEPT ![o] = @ + 1]
  /\ StartDisconnect(t, o, TRUE)
  /\ readArmed' = IF netState[o] = "Disconnect" THEN readArmed ELSE readArmed \ {o}
  /\ UNCHANGED <<pool, netState, uid, players, link, client, writes, sessions,
                 sessionCount, nextUid, registry, tasks, tasker, queue, router, up>>

\* HandleWrite without error.
WriteDone(t, o) ==
  /\ io[t] = IdleIo
  /\ writes[o] > 0
  /\ writes' = [writes EXCEPT ![o] = @ - 1]
  /\ UNCHANGED <<netState, uid, players, link, client, reads, readArmed, io,
                 sessions, sessionCount, nextUid, registry, tasks, tasker,
                 queue, router, up>>
  /\ Settle(o)

\* HandleWrite with an error.
WriteFails(t, o) ==
  /\ io[t] = IdleIo
  /\ writes[o] > 0
  /\ link[o] \in {"lost", "closed"}
  /\ writes' = [writes EXCEPT ![o] = @ - 1]
  /\ StartDisconnect(t, o, FALSE)
  /\ UNCHANGED <<netState, uid, players, link, client, reads, readArmed,
                 sessions, sessionCount, nextUid, registry, tasks, tasker,
                 queue, router, up>>
  /\ Settle(o)

\* Mutant: a default IoTask is pushed, whose UID is -1.
MarkAndPushDefault(t, o) ==
  /\ io[t].pc = "mark"
  /\ io[t].obj = o
  /\ netState' = [netState EXCEPT ![o] = "Disconnect"]
  /\ tasks' = Append(tasks, NoUid)
  /\ readArmed' = IF io[t].rearm THEN readArmed \cup {o} ELSE readArmed
  /\ io' = [io EXCEPT ![t] = IdleIo]
  /\ UNCHANGED <<uid, players, link, client, reads, writes, sessions,
                 sessionCount, nextUid, registry, tasker, queue, router, up>>
  /\ Settle(o)

\* The rest of ProcessDisconnect: SetNetState and PushTask; then the handler
\* ends (or, after an overflow, arms the next read).
MarkAndPush(t, o) ==
  /\ io[t].pc = "mark"
  /\ io[t].obj = o
  /\ netState' = [netState EXCEPT ![o] = "Disconnect"]
  /\ tasks' = Append(tasks, uid[o])
  /\ readArmed' = IF io[t].rearm THEN readArmed \cup {o} ELSE readArmed
  /\ io' = [io EXCEPT ![t] = IdleIo]
  /\ UNCHANGED <<uid, players, link, client, reads, writes, sessions,
                 sessionCount, nextUid, registry, tasker, queue, router, up>>
  /\ Settle(o)

-----------------------------------------------------------------------------
(* TaskQueue workers *)

\* WorkerThread takes a task and ProcessIoTask looks its session up; a UID
\* that is not registered any more ends the task.
TaskPop(k) ==
  /\ tasker[k] = IdleTasker
  /\ tasks # <<>>
  /\ tasks' = Tail(tasks)
  /\ tasker' = IF registry[Head(tasks)] = NoObj THEN tasker
               ELSE [tasker EXCEPT ![k] = [pc |-> "close", obj |-> registry[Head(tasks)]]]
  /\ UNCHANGED <<pool, netState, uid, players, link, client, reads, readArmed,
                 writes, io, sessions, sessionCount, nextUid, registry, queue,
                 router, up>>

\* Mutant: CloseSession without OnDisconnected.
CloseBeginStaysRegistered(k, o) ==
  /\ tasker[k].pc = "close"
  /\ tasker[k].obj = o
  /\ \A j \in TaskThread : tasker[j].obj = o => tasker[j].pc # "release"
  /\ tasker' = [tasker EXCEPT ![k].pc = "release"]
  /\ UNCHANGED <<pool, netState, uid, players, link, client, reads, readArmed,
                 writes, io, sessions, sessionCount, nextUid, registry, tasks,
                 queue, router, up>>

\* CloseSession takes the session's m_Mutex; OnDisconnected removes the
\* registry entry of the session's UID.
CloseBegin(k, o) ==
  /\ tasker[k].pc = "close"
  /\ tasker[k].obj = o
  /\ \A j \in TaskThread : tasker[j].obj = o => tasker[j].pc # "release"
  /\ registry' = [registry EXCEPT ![uid[o]] = NoObj]
  /\ tasker' = [tasker EXCEPT ![k].pc = "release"]
  /\ UNCHANGED <<pool, netState, uid, players, link, client, reads, readArmed,
                 writes, io, sessions, sessionCount, nextUid, tasks, queue,
                 router, up>>

\* Mutant: CloseSession pushes the object into the pool itself.
CloseEndPushes(k, o) ==
  /\ tasker[k].pc = "release"
  /\ tasker[k].obj = o
  /\ link' = [link EXCEPT ![o] = "closed"]
  /\ sessions' = sessions \ {o}
  /\ sessionCount' = sessionCount - 1
  /\ tasker' = [tasker EXCEPT ![k] = IdleTasker]
  /\ pool' = pool \cup {o}
  /\ UNCHANGED <<netState, uid, players, client, reads, readArmed, writes, io,
                 nextUid, registry, tasks, queue, router, up>>

\* Mutant: ReleaseSession erases the session without counting it down.
CloseEndKeepsCount(k, o) ==
  /\ tasker[k].pc = "release"
  /\ tasker[k].obj = o
  /\ link' = [link EXCEPT ![o] = "closed"]
  /\ sessions' = sessions \ {o}
  /\ tasker' = [tasker EXCEPT ![k] = IdleTasker]
  /\ UNCHANGED <<netState, uid, players, client, reads, readArmed, writes, io,
                 sessionCount, nextUid, registry, tasks, queue, router, up>>
  /\ Settle(o)

\* The rest of CloseSession: cancel, shutdown and close of the socket, then
\* ReleaseSession; m_Socket keeps its value.
CloseEnd(k, o) ==
  /\ tasker[k].pc = "release"
  /\ tasker[k].obj = o
  /\ link' = [link EXCEPT ![o] = "closed"]
  /\ sessions' = sessions \ {o}
  /\ sessionCount' = sessionCount - 1
  /\ tasker' = [tasker EXCEPT ![k] = IdleTasker]
  /\ UNCHANGED <<netState, uid, players, client, reads, readArmed, writes, io,
                 nextUid, registry, tasks, queue, router, up>>
  /\ Settle(o)

-----------------------------------------------------------------------------
(* PacketRouter workers *)

\* Run takes an item and looks its session up; an item of a session that is
\* gone is dropped.
RouterPop(w) ==
  LET i == Head(queue[w]) IN
  /\ router[w] = IdleRouter
  /\ queue[w] # <<>>
  /\ queue' = [queue EXCEPT ![w] = Tail(@)]
  /\ router' = IF registry[i.uid] = NoObj THEN router
               ELSE [router EXCEPT ![w] =
                       [obj |-> registry[i.uid], uid |-> i.uid, kind |-> i.kind]]
  /\ UNCHANGED <<pool, netState, uid, players, link, client, reads, readArmed,
                 writes, io, sessions, sessionCount, nextUid, registry, tasks,
                 tasker, up>>

\* The sessions in T get one more async_write each.
SendTo(T) ==
  /\ \A o \in T : writes[o] < MaxWrite
  /\ writes' = [o \in Obj |-> IF o \in T THEN writes[o] + 1 ELSE writes[o]]

\* HandleLoginReq: a new Player whose ownerSession is the session joins
\* m_Player, and the reply is sent.
HandleLogin(w, o) ==
  /\ router[w].kind = "login"
  /\ router[w].obj = o
  /\ players' = [players EXCEPT ![o] = @ \cup {uid[o]}]
  /\ SendTo({o})
  /\ router' = [router EXCEPT ![w] = IdleRouter]
  /\ UNCHANGED <<pool, netState, uid, link, client, reads, readArmed, io,
                 sessions, sessionCount, nextUid, registry, tasks, tasker,
                 queue, up>>

\* HandleDummyPacketReq: the reply is sent.
HandleDummy(w, o) ==
  /\ router[w].kind = "dummy"
  /\ router[w].obj = o
  /\ SendTo({o})
  /\ router' = [router EXCEPT ![w] = IdleRouter]
  /\ UNCHANGED <<netState, uid, players, link, client, reads, readArmed, io,
                 sessions, sessionCount, nextUid, registry, tasks, tasker,
                 queue, up>>
  /\ Settle(o)

\* HandleChatReq: the message goes to the ownerSession of every Player in a
\* room, any set of sessions that logged in (rooms are module ChatRooms).
HandleChat(w, o) ==
  /\ router[w].kind = "chat"
  /\ router[w].obj = o
  /\ \E T \in SUBSET {p \in Obj : players[p] # {}} : SendTo(T)
  /\ router' = [router EXCEPT ![w] = IdleRouter]
  /\ UNCHANGED <<netState, uid, players, link, client, reads, readArmed, io,
                 sessions, sessionCount, nextUid, registry, tasks, tasker,
                 queue, up>>
  /\ Settle(o)

-----------------------------------------------------------------------------
(* The peer *)

\* The peer closes or loses its end of the connection.
PeerCloses(o) ==
  /\ link[o] = "open"
  /\ link' = [link EXCEPT ![o] = "lost"]
  /\ UNCHANGED <<pool, netState, uid, players, client, reads, readArmed, writes,
                 io, sessions, sessionCount, nextUid, registry, tasks, tasker,
                 queue, router, up>>

IoStep(t) ==
  \/ \E o \in Obj : \/ HandleAccept(t, o)
                    \/ ReadPacket(t, o)
                    \/ ReadFails(t, o)
                    \/ ReadOverflows(t, o)
                    \/ WriteDone(t, o)
                    \/ WriteFails(t, o)
                    \/ MarkAndPush(t, o)
  \/ PoolExhausted(t)

TaskStep(k) ==
  \/ TaskPop(k)
  \/ \E o \in Obj : CloseBegin(k, o) \/ CloseEnd(k, o)

RouterStep(w) ==
  \/ RouterPop(w)
  \/ \E o \in Obj : HandleLogin(w, o) \/ HandleDummy(w, o) \/ HandleChat(w, o)

Next ==
  /\ up
  /\ \/ \E t \in IoThread : IoStep(t)
     \/ \E k \in TaskThread : TaskStep(k)
     \/ \E w \in Worker : RouterStep(w)
     \/ \E o \in Obj : PeerCloses(o)

Spec == Init /\ [][Next]_vars

-----------------------------------------------------------------------------
(* Properties *)

\* A pooled object has no owner left: nothing that still holds a session (a
\* pending read or write, a worker, a Player) can find it handed out again.
PooledIsUnowned == \A o \in pool : ~Referenced(o)

\* SessionManager's entry of a UID is the live session with that UID, also
\* while objects are recycled under new UIDs and close in parallel.
RegistryCoherent ==
  \A u \in Uid : registry[u] # NoObj =>
    uid[registry[u]] = u /\ registry[u] \in sessions

\* The session a router worker looked up stays the session the packet came
\* from, whatever closes or connects before the handler ends.
HandlerKeepsItsSession ==
  \A w \in Worker : router[w].obj # NoObj => uid[router[w].obj] = router[w].uid

\* m_Player never holds a Player of an earlier connection of the object:
\* InitSession does not clear it, and the handlers use m_Player[0].
PlayerOfThisConnection == \A o \in Obj : players[o] \subseteq {uid[o]}

\* HandleChatReq finds m_Player[0]: the login of the same connection was
\* handled before, because one worker handles all packets of a UID in order.
ChatFindsPlayer ==
  \A w \in Worker : router[w].kind = "chat" => players[router[w].obj] # {}

\* Closing twice can only undercount: m_SessionCount never exceeds the number
\* of sessions the service holds.
CountNeverAbove == sessionCount <= Cardinality(sessions)

\* m_SessionCount is the number of sessions the service holds (with a single
\* TaskQueue worker, the other one can no longer close in parallel).
CountExact == sessionCount = Cardinality(sessions)

\* No two live sessions share a UID, and every live one has a UID the service
\* issued.
UidUnique ==
  \A o, p \in sessions : /\ uid[o] \in 0 .. nextUid - 1
                        /\ uid[o] = uid[p] => o = p

\* A UID that was issued and is not registered is never registered again, and
\* an entry never moves to another object: late tasks and packets of a dead
\* session cannot reach a new one.
DeadUidStaysDead ==
  [][\A u \in Uid : u < nextUid => registry'[u] \in {registry[u], NoObj}]_vars

\* A registered session whose flag is clear and whose connection is lost is
\* eventually taken out of the SessionManager (or the process ended).
LossIsNoticed ==
  \A u \in Uid :
    (registry[u] # NoObj /\ link[registry[u]] = "lost"
       /\ netState[registry[u]] = "None")
      ~> (registry[u] = NoObj \/ ~up)

-----------------------------------------------------------------------------
(* What comments and messages of the code say, and the code does not do *)

\* m_NetState = Disconnect says the connection is already being disconnected:
\* its task is queued or taken, or it is out of the SessionManager.
DisconnectFlagTruthful ==
  \A o \in sessions : netState[o] = "Disconnect" =>
    \/ \E i \in 1 .. Len(tasks) : tasks[i] = uid[o]
    \/ \E k \in TaskThread : tasker[k].obj = o
    \/ registry[uid[o]] # o

-----------------------------------------------------------------------------
(* Fairness: asio runs every completion handler it queued, the threads are  *)
(* scheduled, and a TaskQueue worker that finds the queue empty sleeps      *)
(* 100 ms and looks again.  Nothing obliges peers to connect or to send.    *)
Fairness ==
  /\ \A o \in Obj : WF_vars(up /\ \E t \in IoThread : ReadFails(t, o))
  /\ \A t \in IoThread : WF_vars(up /\ \E o \in Obj : MarkAndPush(t, o))
  /\ \A k \in TaskThread : WF_vars(up /\ TaskStep(k))

FairSpec == Spec /\ Fairness

=============================================================================
