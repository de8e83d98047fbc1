-------------------------- MODULE ServiceShutdown --------------------------
(***************************************************************************)
(* Starting and stopping the server: main starts the input thread, then    *)
(* the TaskQueue's workers, then the asio threads, and joins them; the     *)
(* input thread closes the service and shuts the TaskQueue down, while     *)
(* workers close sessions and a connection may be in the middle of its     *)
(* accept.  Two mutexes matter: AsioService::m_Mutex and every session's.  *)
(*                                                                         *)
(* A session is its UID and is accepted once (recycling is                 *)
(* SessionLifecycle's).  The asio threads count as one, which accepts: the *)
(* next accept is only armed at the end of HandleAccept.                   *)
(*                                                                         *)
(* Sources: src/GameServer GameServer.cpp, src/ServerCore AsioService,     *)
(* AsioAcceptor, AsioSession, TaskQueue.                                   *)
(***************************************************************************)
EXTENDS Naturals, Sequences, FiniteSets

CONSTANTS
  Session,     \* sessions, by UID
  TaskThread,  \* the workers Initialize spawns
  Input,       \* the input thread, as owner of a mutex
  None,        \* no session, no owner
  MaxEnds      \* bound: error completions of a session (a read and writes)

ASSUME ConstantsOK ==
  /\ IsFiniteSet(Session) /\ IsFiniteSet(TaskThread)
  /\ Input \notin TaskThread /\ None \notin Session \cup TaskThread \cup {Input}
  /\ MaxEnds \in Nat

VARIABLES
  main,       \* main's progress
  input,      \* the input thread: its progress and the session it disconnects
  accepting,  \* the session HandleAccept is about to add
  accepted,   \* sessions accepted so far
  acceptor,   \* the acceptor is open
  stopped,    \* the io_context was stopped
  sessions,   \* m_Sessions
  registry,   \* UIDs the SessionManager finds
  ends,       \* error completions of each session so far
  serviceMutex,  \* owner of AsioService::m_Mutex
  sessionMutex,  \* owner of each session's m_Mutex
  running,    \* m_IsRunning of the TaskQueue
  threads,    \* m_WorkerThreads
  tasks,      \* m_TaskQueue
  worker,     \* each worker: its progress and the task's session
  up          \* the process runs

net     == <<accepting, accepted, acceptor, stopped, ends>>
service == <<sessions, registry>>
mutexes == <<serviceMutex, sessionMutex>>
queue   == <<running, threads, tasks, worker>>
vars == <<main, input, accepting, accepted, acceptor, stopped, sessions, registry,
          ends, serviceMutex, sessionMutex, running, threads, tasks, worker, up>>

Spawned == {k \in TaskThread : worker[k].pc # "none"}

\* The session whose mutex worker k holds.
Holds(k, s) == worker[k].pc = "release" /\ worker[k].obj = s

\* A task: the session to close, or None in the empty ones of Shutdown.
Task == Session \cup {None}

InputType == [pc : {"wait", "close", "sweep", "disconnect", "queue", "join", "stop", "done"},
              obj : Session \cup {None}]
WorkerType == [pc : {"none", "test", "pop", "close", "release", "exited"},
               obj : Session \cup {None}]

ThreadsOK ==
  /\ main \in {"init", "spawn", "asio", "input", "final", "exited"}
  /\ input \in InputType /\ up \in BOOLEAN

SessionsOK ==
  /\ accepting \in accepted \cup {None} /\ accepted \subseteq Session
  /\ acceptor \in BOOLEAN /\ stopped \in BOOLEAN
  /\ sessions \subseteq accepted /\ registry \subseteq accepted
  /\ ends \in [Session -> 0 .. MaxEnds]

\* A mutex is owned exactly where the code holds it.
MutexesOK ==
  /\ serviceMutex \in {None, Input}
  /\ serviceMutex = Input <=> input.pc \in {"sweep", "disconnect"}
  /\ sessionMutex \in [Session -> TaskThread \cup {None}]
  /\ \A s \in Session, k \in TaskThread : sessionMutex[s] = k <=> Holds(k, s)

QueueOK ==
  /\ running \in BOOLEAN /\ threads \subseteq Spawned
  /\ tasks \in Seq(Task)
  /\ worker \in [TaskThread -> WorkerType]

TypeOK == ThreadsOK /\ SessionsOK /\ MutexesOK /\ QueueOK

At(pc, s) == [pc |-> pc, obj |-> s]

Init ==
  /\ main = "init" /\ input = At("wait", None)
  /\ accepting = None /\ accepted = {} /\ acceptor = TRUE /\ stopped = FALSE
  /\ sessions = {} /\ registry = {} /\ ends = [s \in Session |-> 0]
  /\ serviceMutex = None /\ sessionMutex = [s \in Session |-> None]
  /\ running = FALSE /\ threads = {} /\ tasks = <<>>
  /\ worker = [k \in TaskThread |-> At("none", None)]
  /\ up = TRUE

-----------------------------------------------------------------------------
(* main *)

\* TaskQueue::Initialize sets m_IsRunning.
InitializeBegin ==
  /\ main = "init"
  /\ running' = TRUE
  /\ main' = "spawn"
  /\ UNCHANGED <<input, net, service, mutexes, threads, tasks, worker, up>>

\* One emplace_back of Initialize.  Beside Shutdown's loop over the vector it
\* is a data race, which may also crash.
Spawn(k) ==
  /\ main = "spawn"
  /\ k \notin Spawned
  /\ worker' = [worker EXCEPT ![k] = At("test", None)]
  /\ threads' = threads \cup {k}
  /\ up' \in IF input.pc = "join" THEN {TRUE, FALSE} ELSE {TRUE}
  /\ UNCHANGED <<main, input, net, service, mutexes, running, tasks>>

\* All workers run; main starts the asio threads and joins them.
StartAsio ==
  /\ main = "spawn" /\ Spawned = TaskThread
  /\ main' = "asio"
  /\ UNCHANGED <<input, net, service, mutexes, queue, up>>

\* io_context::run has returned in every asio thread.
JoinAsio ==
  /\ main = "asio"
  /\ stopped /\ accepting = None
  /\ main' = "input"
  /\ UNCHANGED <<input, net, service, mutexes, queue, up>>

\* Mutant: m_IsRunning keeps its value.
KeepRunning(r) == r

\* Shutdown's m_IsRunning = false.
Stop(r) == FALSE

\* main joins the input thread and returns.  The TaskQueue's destructor calls
\* Shutdown, which does nothing once m_IsRunning is false: a thread that is
\* still in the vector is then destroyed joinable, which ends the process.
Exit ==
  /\ main = "input" /\ input.pc = "done"
  /\ \/ running /\ running' = Stop(running) /\ main' = "final" /\ UNCHANGED up
     \/ ~running /\ threads = {} /\ main' = "exited" /\ UNCHANGED <<running, up>>
     \/ ~running /\ threads # {} /\ up' = FALSE /\ UNCHANGED <<running, main>>
  /\ UNCHANGED <<input, net, service, mutexes, threads, tasks, worker>>

\* Mutant: Shutdown does not join.
NoJoin == TRUE

\* Shutdown's join of the threads in m_WorkerThreads returns.
Joined == \A k \in threads : worker[k].pc = "exited"

\* The destructor is done: the threads are joined, and the process ends.
Exited ==
  /\ main = "final" /\ Joined
  /\ main' = "exited" /\ threads' = {} /\ tasks' = <<>>
  /\ UNCHANGED <<input, net, service, mutexes, running, worker, up>>

-----------------------------------------------------------------------------
(* asio thread *)

\* Mutant: AddSession and ReleaseSession take no lock.
UnlockedService == TRUE

\* AsioService::m_Mutex can be locked.
ServiceFree == serviceMutex = None

Serving == main = "asio" /\ ~stopped

\* A connection: HandleAccept pops and initialises a session.
AcceptBegin(s) ==
  /\ Serving /\ acceptor
  /\ accepting = None /\ s \notin accepted
  /\ accepting' = s
  /\ accepted' = accepted \cup {s}
  /\ UNCHANGED <<main, input, acceptor, stopped, ends, service, mutexes, queue, up>>

\* The rest of HandleAccept: AddSession under the service's mutex, and
\* OnConnected registers the session; then the next accept is armed.
AcceptEnd ==
  /\ accepting # None
  /\ ServiceFree
  /\ sessions' = sessions \cup {accepting}
  /\ registry' = registry \cup {accepting}
  /\ accepting' = None
  /\ UNCHANGED <<main, input, accepted, acceptor, stopped, ends, mutexes, queue, up>>

\* A completion with an error: ProcessDisconnect pushes a task, if the queue
\* runs.
Lose(s) ==
  /\ Serving
  /\ s \in accepted /\ s # accepting
  /\ ends[s] < MaxEnds
  /\ ends' = [ends EXCEPT ![s] = @ + 1]
  /\ tasks' = IF running THEN Append(tasks, s) ELSE tasks
  /\ UNCHANGED <<main, input, accepting, accepted, acceptor, stopped, service,
                 mutexes, running, threads, worker, up>>

-----------------------------------------------------------------------------
(* TaskQueue worker *)

\* The loop's test of m_IsRunning.
Test(k) ==
  /\ worker[k].pc = "test"
  /\ worker' = [worker EXCEPT ![k] = At(IF running THEN "pop" ELSE "exited", None)]
  /\ UNCHANGED <<main, input, net, service, mutexes, running, threads, tasks, up>>

\* try_pop and the lookup; a task whose session is gone, and Shutdown's empty
\* task, do nothing.
TryPop(k) ==
  /\ worker[k].pc = "pop"
  /\ \/ /\ tasks = <<>>
        /\ worker' = [worker EXCEPT ![k] = At("test", None)]
        /\ UNCHANGED tasks
     \/ /\ tasks # <<>>
        /\ tasks' = Tail(tasks)
        /\ worker' = [worker EXCEPT ![k] =
             IF Head(tasks) \in registry THEN At("close", Head(tasks)) ELSE At("test", None)]
  /\ UNCHANGED <<main, input, net, service, mutexes, running, threads, up>>

\* CloseSession locks the session, and OnDisconnected unregisters it.
CloseBegin(k, s) ==
  /\ worker[k] = At("close", s)
  /\ sessionMutex[s] = None
  /\ sessionMutex' = [sessionMutex EXCEPT ![s] = k]
  /\ registry' = registry \ {s}
  /\ worker' = [worker EXCEPT ![k] = At("release", s)]
  /\ UNCHANGED <<main, input, net, sessions, serviceMutex, running, threads, tasks, up>>

\* Mutant: the session's mutex stays locked.
KeepLocked(s) == sessionMutex

\* The session's mutex is released at the end of CloseSession.
Unlock(s) == [sessionMutex EXCEPT ![s] = None]

\* ReleaseSession under the service's mutex, and CloseSession ends.
CloseEnd(k, s) ==
  /\ worker[k] = At("release", s)
  /\ ServiceFree
  /\ sessions' = sessions \ {s}
  /\ sessionMutex' = Unlock(s)
  /\ worker' = [worker EXCEPT ![k] = At("test", None)]
  /\ UNCHANGED <<main, input, net, registry, serviceMutex, running, threads, tasks, up>>

-----------------------------------------------------------------------------
(* input thread *)

\* The command 0: the acceptor is closed.
Command ==
  /\ input.pc = "wait"
  /\ input' = At("close", None)
  /\ acceptor' = FALSE
  /\ UNCHANGED <<main, accepting, accepted, stopped, ends, service, mutexes, queue, up>>

\* CloseService locks its mutex for all of its loop.
LockService ==
  /\ input.pc = "close"
  /\ ServiceFree
  /\ serviceMutex' = Input
  /\ input' = At("sweep", None)
  /\ UNCHANGED <<main, net, service, sessionMutex, queue, up>>

\* The loop's next session: Disconnect, whose OnDisconnected unregisters it.
Disconnect(s) ==
  /\ input.pc = "sweep"
  /\ s \in sessions
  /\ registry' = registry \ {s}
  /\ input' = At("disconnect", s)
  /\ UNCHANGED <<main, net, sessions, mutexes, queue, up>>

\* Disconnect's CloseSession locks the session and calls ReleaseSession, which
\* locks the mutex CloseService holds: std::mutex::lock throws, and nothing on
\* the input thread catches it.
RelockService ==
  /\ input.pc = "disconnect"
  /\ sessionMutex[input.obj] = None
  /\ up' = FALSE
  /\ UNCHANGED <<main, input, net, service, mutexes, queue>>

\* CloseService without (further) sessions: the io_context is stopped and the
\* mutex released.
ServiceClosed ==
  /\ input.pc = "sweep" /\ sessions = {}
  /\ stopped' = TRUE
  /\ serviceMutex' = None
  /\ input' = At("queue", None)
  /\ UNCHANGED <<main, accepting, accepted, acceptor, ends, service, sessionMutex, queue, up>>

\* TaskQueue::Shutdown: no more work, and one empty task for each thread;
\* nothing at all if the queue was not started yet.
ShutdownQueue ==
  /\ input.pc = "queue"
  /\ \/ /\ ~running
        /\ input' = At("stop", None)
        /\ UNCHANGED <<running, tasks>>
     \/ /\ running
        /\ running' = Stop(running)
        /\ tasks' = tasks \o [n \in 1 .. Cardinality(threads) |-> None]
        /\ input' = At("join", None)
  /\ UNCHANGED <<main, net, service, mutexes, threads, worker, up>>

\* Shutdown has joined the threads in the vector and empties vector and queue.
JoinWorkers ==
  /\ input.pc = "join" /\ Joined
  /\ threads' = {} /\ tasks' = <<>>
  /\ input' = At("stop", None)
  /\ UNCHANGED <<main, net, service, mutexes, running, worker, up>>

\* The input thread's last steps: PacketPool::Clear and io_context::stop.
Finish ==
  /\ input.pc = "stop"
  /\ input' = At("done", None)
  /\ stopped' = TRUE
  /\ UNCHANGED <<main, accepting, accepted, acceptor, ends, service, mutexes, queue, up>>

-----------------------------------------------------------------------------
MainStep == InitializeBegin \/ (\E k \in TaskThread : Spawn(k)) \/ StartAsio
            \/ JoinAsio \/ Exit \/ Exited

AsioStep == AcceptEnd \/ \E s \in Session : AcceptBegin(s) \/ Lose(s)

WorkerStep(k) == Test(k) \/ TryPop(k) \/ \E s \in Session : CloseBegin(k, s) \/ CloseEnd(k, s)

InputStep == LockService \/ (\E s \in Session : Disconnect(s)) \/ RelockService
             \/ ServiceClosed \/ ShutdownQueue \/ JoinWorkers \/ Finish

Next ==
  up /\ (MainStep \/ AsioStep \/ (\E k \in TaskThread : WorkerStep(k)) \/ Command \/ InputStep)

Spec == Init /\ [][Next]_vars

\* Fairness: every thread runs on; the operator and the network need not.
FairSpec ==
  /\ Spec
  /\ WF_vars(up /\ MainStep) /\ WF_vars(up /\ AcceptEnd) /\ WF_vars(up /\ InputStep)
  /\ \A k \in TaskThread : WF_vars(up /\ WorkerStep(k))

-----------------------------------------------------------------------------
(* Properties *)

\* While CloseService iterates over m_Sessions, AddSession and ReleaseSession on
\* other threads do not touch it.
SweepIsStable ==
  [][serviceMutex = Input /\ serviceMutex' = Input => sessions' = sessions]_vars

\* A process that ends by itself has no thread left: every worker of the
\* TaskQueue was joined, and no accept is under way.
ExitIsClean ==
  main = "exited" => accepting = None /\ \A k \in TaskThread : worker[k].pc = "exited"

\* CloseService holds the service's mutex and wants a session's; a worker
\* holds that one and wants the service's.
Deadlocked == input.pc = "disconnect" /\ \E k \in TaskThread : Holds(k, input.obj)

\* Workers and accepts take the two mutexes in an order that never blocks:
\* a close that began ends, unless CloseService is in the way.
CloseFinishes ==
  \A k \in TaskThread :
    worker[k].pc \in {"close", "release"} ~>
      (worker[k].pc \in {"test", "pop", "exited"} \/ Deadlocked \/ ~up)

\* With no session left CloseService and Shutdown come to their end, and the
\* server stops, also if a worker is still in a second close of a session or
\* a connection waits to be added.
EmptyServerStops ==
  (input.pc = "sweep" /\ sessions = {} /\ main = "asio") ~> (main = "exited")

\* A shutdown ends in one of three ways: the server stops, the process is
\* ended, or CloseService and a worker block each other.
ShutdownSettles == (input.pc = "close") ~> (main = "exited" \/ Deadlocked \/ ~up)

-----------------------------------------------------------------------------
(* What a log line says, and the code does not do *)

\* CloseService comes to its "Session Clear", and the TaskQueue is shut down.
SessionsCleared == (input.pc = "close") ~> (input.pc = "queue")

=============================================================================
