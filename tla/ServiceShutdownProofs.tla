----------------------- MODULE ServiceShutdownProofs -----------------------
(***************************************************************************)
(* For any number of sessions and workers: the types and the ownership of  *)
(* the two kinds of mutexes, the set CloseService iterates over, that no   *)
(* thread outlives a process that ends by itself, and that the deadlock of *)
(* CloseService with a worker is the only one, and final.                  *)
(***************************************************************************)
EXTENDS ServiceShutdown, FiniteSetTheorems, SequenceTheorems, TLAPS

\* The asio threads are over when main has joined them.
AsioIsOver == main \in {"input", "final", "exited"} => accepting = None

\* main gets past Initialize with all workers spawned.
AllSpawned == main \in {"asio", "input", "final", "exited"} => Spawned = TaskThread

\* A worker leaves m_WorkerThreads only by a join.
LeftIsJoined == \A k \in Spawned \ threads : worker[k].pc = "exited"

\* The destructor, when it is done, has emptied the vector.
ExitIsJoined == main = "exited" => threads = {}

JoinOK == AsioIsOver /\ AllSpawned /\ LeftIsJoined /\ ExitIsJoined

\* The inductive invariant.
IInv == TypeOK /\ JoinOK

-----------------------------------------------------------------------------
\* Initially no thread but main and the input thread runs.
LEMMA InitInv == Init => IInv
<1> SUFFICES ASSUME Init PROVE IInv
  OBVIOUS
<1> USE ConstantsOK
<1>1. ThreadsOK
  BY DEF Init, ThreadsOK, InputType, At
<1>2. SessionsOK
  <2>1. ends \in [Session -> 0 .. MaxEnds]
    BY DEF Init
  <2>2. accepting = None /\ accepted = {} /\ sessions = {} /\ registry = {}
    BY DEF Init
  <2>3. acceptor \in BOOLEAN /\ stopped \in BOOLEAN
    BY DEF Init
  <2>4. QED
    BY <2>1, <2>2, <2>3 DEF SessionsOK
<1>3. MutexesOK
  BY DEF Init, MutexesOK, Holds, At
<1>4. QueueOK
  <2>1. worker \in [TaskThread -> WorkerType]
    BY DEF Init, WorkerType, At
  <2>2. tasks \in Seq(Task)
    BY EmptySeq DEF Init
  <2>3. running \in BOOLEAN /\ threads = {}
    BY DEF Init
  <2>4. QED
    BY <2>1, <2>2, <2>3 DEF QueueOK
<1>5. JoinOK
  BY DEF Init, JoinOK, AsioIsOver, AllSpawned, LeftIsJoined, ExitIsJoined, Spawned, At
<1>6. QED
  BY <1>1, <1>2, <1>3, <1>4, <1>5 DEF IInv, TypeOK

\* A step of main and the input thread alone, or of the sessions.
LEMMA SameQueue ==
  ASSUME IInv, worker' = worker, threads' = threads, tasks' = tasks, running' \in BOOLEAN
  PROVE  QueueOK' /\ LeftIsJoined' /\ Spawned' = Spawned
  BY DEF IInv, TypeOK, JoinOK, QueueOK, LeftIsJoined, Spawned

\* A step of a worker that changes no mutex.
LEMMA SameMutexes ==
  ASSUME IInv, input' = input, serviceMutex' = serviceMutex, sessionMutex' = sessionMutex,
         \A s \in Session, k \in TaskThread : Holds(k, s)' <=> Holds(k, s)
  PROVE  MutexesOK'
  BY DEF IInv, TypeOK, MutexesOK

\* Initialize, the joins and the end of main.
LEMMA MainInv == ASSUME IInv, MainStep PROVE IInv'
<1> USE ConstantsOK
<1>1. SessionsOK' /\ input' = input /\ sessionMutex' = sessionMutex /\ serviceMutex' = serviceMutex
  BY DEF IInv, TypeOK, SessionsOK, MainStep, InitializeBegin, Spawn, StartAsio, JoinAsio,
     Exit, Exited, net, service, mutexes
<1>2. CASE InitializeBegin \/ StartAsio \/ JoinAsio \/ Exit
  <2>1. ThreadsOK' /\ worker' = worker /\ threads' = threads /\ tasks' = tasks
    BY <1>2 DEF IInv, TypeOK, ThreadsOK, InitializeBegin, StartAsio, JoinAsio, Exit, queue
  <2>2. running' \in BOOLEAN
    BY <1>2 DEF IInv, TypeOK, QueueOK, InitializeBegin, StartAsio, JoinAsio, Exit, Stop, queue
  <2>3. QueueOK' /\ LeftIsJoined' /\ Spawned' = Spawned
    BY <2>1, <2>2, SameQueue
  <2>4. MutexesOK'
    BY <1>1, <2>1, SameMutexes DEF Holds
  <2>5. AsioIsOver' /\ AllSpawned' /\ ExitIsJoined'
    BY <1>2, <2>1, <2>3 DEF IInv, JoinOK, AsioIsOver, AllSpawned, ExitIsJoined,
       InitializeBegin, StartAsio, JoinAsio, Exit, net
  <2>6. QED
    BY <1>1, <2>1, <2>3, <2>4, <2>5 DEF IInv, TypeOK, JoinOK
<1>3. ASSUME NEW k \in TaskThread, Spawn(k) PROVE IInv'
  <2>1. worker' \in [TaskThread -> WorkerType]
    BY <1>3 DEF IInv, TypeOK, QueueOK, WorkerType, Spawn, At
  <2>2. Spawned' = Spawned \cup {k}
    BY <1>3 DEF IInv, TypeOK, QueueOK, Spawn, Spawned, At
  <2>3. \A s \in Session, j \in TaskThread : Holds(j, s)' <=> Holds(j, s)
    BY <1>3 DEF IInv, TypeOK, QueueOK, Spawn, Spawned, Holds, At
  <2>4. MutexesOK'
    BY <1>1, <2>3, SameMutexes
  <2>5. QueueOK'
    BY <1>3, <2>1, <2>2 DEF IInv, TypeOK, QueueOK, Spawn
  <2>6. ThreadsOK'
    BY <1>3 DEF IInv, TypeOK, ThreadsOK, Spawn
  <2>7. LeftIsJoined'
    BY <1>3, <2>2 DEF IInv, TypeOK, QueueOK, JoinOK, LeftIsJoined, Spawn, Spawned
  <2>8. AsioIsOver' /\ AllSpawned' /\ ExitIsJoined'
    BY <1>3 DEF AsioIsOver, AllSpawned, ExitIsJoined, Spawn
  <2>9. QED
    BY <1>1, <2>4, <2>5, <2>6, <2>7, <2>8 DEF IInv, TypeOK, JoinOK
<1>4. CASE Exited
  <2>1. worker' = worker /\ Spawned' = Spawned
    BY <1>4 DEF Exited, Spawned
  <2>2. QueueOK'
    BY <1>4, <2>1 DEF IInv, TypeOK, QueueOK, Exited
  <2>3. MutexesOK'
    BY <1>1, <2>1, SameMutexes DEF Holds
  <2>4. ThreadsOK'
    BY <1>4 DEF IInv, TypeOK, ThreadsOK, Exited
  <2>5. JoinOK'
    BY <1>4, <2>1 DEF IInv, JoinOK, AsioIsOver, AllSpawned, LeftIsJoined, ExitIsJoined,
       Exited, Joined, net
  <2>6. QED
    BY <1>1, <2>2, <2>3, <2>4, <2>5 DEF IInv, TypeOK
<1>5. QED
  BY <1>2, <1>3, <1>4 DEF MainStep

\* Accepting and losing connections touches no thread.
LEMMA AsioInv == ASSUME IInv, AsioStep PROVE IInv'
<1> USE ConstantsOK
<1>1. /\ main' = main /\ input' = input /\ up' = up
      /\ serviceMutex' = serviceMutex /\ sessionMutex' = sessionMutex
      /\ worker' = worker /\ threads' = threads /\ running' = running
  BY DEF AsioStep, AcceptBegin, AcceptEnd, Lose, mutexes, queue
<1>2. ThreadsOK' /\ MutexesOK'
  BY <1>1, SameMutexes DEF IInv, TypeOK, ThreadsOK, Holds
<1>3. tasks' \in Seq(Task)
  BY DEF IInv, TypeOK, QueueOK, AsioStep, AcceptBegin, AcceptEnd, Lose, queue, Task
<1>4. QueueOK' /\ AllSpawned' /\ LeftIsJoined' /\ ExitIsJoined'
  BY <1>1, <1>3 DEF IInv, TypeOK, QueueOK, JoinOK, AllSpawned, LeftIsJoined, ExitIsJoined,
     Spawned
<1>5. SessionsOK'
  <2>1. CASE AcceptEnd
    BY <2>1 DEF IInv, TypeOK, SessionsOK, AcceptEnd
  <2>2. ASSUME NEW s \in Session, AcceptBegin(s) PROVE SessionsOK'
    BY <2>2 DEF IInv, TypeOK, SessionsOK, AcceptBegin, service
  <2>3. ASSUME NEW s \in Session, Lose(s) PROVE SessionsOK'
    BY <2>3 DEF IInv, TypeOK, SessionsOK, Lose, service
  <2>4. QED
    BY <2>1, <2>2, <2>3 DEF AsioStep
<1>6. AsioIsOver'
  BY <1>1 DEF IInv, JoinOK, AsioIsOver, AsioStep, AcceptBegin, AcceptEnd, Lose, Serving
<1>7. QED
  BY <1>2, <1>4, <1>5, <1>6 DEF IInv, TypeOK, JoinOK

\* A worker that has been spawned stays so, and one that has ended too; the
\* mutex of a session changes hands with the worker's progress.
LEMMA WorkerInv == ASSUME IInv, NEW k \in TaskThread, WorkerStep(k) PROVE IInv'
<1> USE ConstantsOK
<1>1. /\ main' = main /\ input' = input /\ up' = up /\ serviceMutex' = serviceMutex
      /\ threads' = threads /\ running' = running /\ accepting' = accepting
  BY DEF WorkerStep, Test, TryPop, CloseBegin, CloseEnd, net, mutexes
<1>2. worker[k].pc \notin {"none", "exited"}
  <2>1. CASE Test(k) \/ TryPop(k)
    BY <2>1 DEF Test, TryPop
  <2>2. ASSUME NEW s \in Session, CloseBegin(k, s) \/ CloseEnd(k, s)
        PROVE  worker[k].pc \notin {"none", "exited"}
    BY <2>2 DEF CloseBegin, CloseEnd, At
  <2>3. QED
    BY <2>1, <2>2 DEF WorkerStep
<1>3. PICK pc \in {"test", "pop", "close", "release", "exited"}, o \in Task :
        worker' = [worker EXCEPT ![k] = At(pc, o)]
  <2>1. CASE Test(k)
    BY <2>1 DEF Test, Task
  <2>2. CASE TryPop(k)
    <3>1. tasks # <<>> => Head(tasks) \in Task
      BY DEF IInv, TypeOK, QueueOK
    <3>2. QED
      BY <2>2, <3>1 DEF TryPop, Task
  <2>3. ASSUME NEW s \in Session, CloseBegin(k, s)
        PROVE  worker' = [worker EXCEPT ![k] = At("release", s)]
    BY <2>3 DEF CloseBegin
  <2>4. ASSUME NEW s \in Session, CloseEnd(k, s)
        PROVE  worker' = [worker EXCEPT ![k] = At("test", None)]
    BY <2>4 DEF CloseEnd
  <2>5. QED
    BY <2>1, <2>2, <2>3, <2>4 DEF WorkerStep, Task
<1>4. worker' \in [TaskThread -> WorkerType] /\ Spawned' = Spawned
  <2>1. worker \in [TaskThread -> WorkerType]
    BY DEF IInv, TypeOK, QueueOK
  <2>2. PICK v \in WorkerType : worker' = [worker EXCEPT ![k] = v] /\ v.pc # "none"
    <3>1. At(pc, o) \in WorkerType /\ At(pc, o).pc # "none"
      BY DEF WorkerType, Task, At
    <3>2. QED
      BY <1>3, <3>1
  <2>3. \A j \in TaskThread : worker'[j].pc = "none" <=> worker[j].pc = "none"
    BY <1>2, <2>1, <2>2
  <2>4. QED
    BY <2>1, <2>2, <2>3 DEF Spawned
<1>5. tasks' \in Seq(Task)
  <2>1. tasks \in Seq(Task)
    BY DEF IInv, TypeOK, QueueOK
  <2>2. CASE TryPop(k)
    <3>1. tasks' = tasks \/ (tasks # <<>> /\ tasks' = Tail(tasks))
      BY <2>2, Zenon DEF TryPop
    <3>2. QED
      BY <2>1, <3>1
  <2>3. CASE Test(k)
    BY <2>1, <2>3 DEF Test
  <2>4. ASSUME NEW s \in Session, CloseBegin(k, s) \/ CloseEnd(k, s) PROVE tasks' = tasks
    BY <2>4 DEF CloseBegin, CloseEnd
  <2>5. QED
    BY <2>1, <2>2, <2>3, <2>4 DEF WorkerStep
<1>6. QueueOK' /\ ThreadsOK'
  BY <1>1, <1>4, <1>5 DEF IInv, TypeOK, QueueOK, ThreadsOK
<1>7. SessionsOK'
  BY DEF IInv, TypeOK, SessionsOK, WorkerStep, Test, TryPop, CloseBegin, CloseEnd, net, service
<1>8. JoinOK'
  BY <1>1, <1>2, <1>3, <1>4 DEF IInv, TypeOK, QueueOK, JoinOK, AsioIsOver, AllSpawned,
     LeftIsJoined, ExitIsJoined, Spawned
<1>9. MutexesOK'
  <2>1. CASE Test(k) \/ TryPop(k)
    <3>1. \A s \in Session, j \in TaskThread : Holds(j, s)' <=> Holds(j, s)
      BY <2>1 DEF IInv, TypeOK, QueueOK, Test, TryPop, Holds, At
    <3>2. QED
      BY <1>1, <2>1, <3>1, SameMutexes DEF Test, TryPop, mutexes
  <2>2. ASSUME NEW s \in Session, CloseBegin(k, s) PROVE MutexesOK'
    <3>1. \A r \in Session, j \in TaskThread :
            Holds(j, r)' <=> Holds(j, r) \/ (j = k /\ r = s)
      BY <2>2 DEF IInv, TypeOK, QueueOK, WorkerType, CloseBegin, Holds, At
    <3>2. QED
      BY <1>1, <2>2, <3>1 DEF IInv, TypeOK, MutexesOK, CloseBegin
  <2>3. ASSUME NEW s \in Session, CloseEnd(k, s) PROVE MutexesOK'
    <3>1. Holds(k, s)
      BY <2>3 DEF CloseEnd, Holds, At
    <3>2. \A r \in Session, j \in TaskThread :
            Holds(j, r)' <=> Holds(j, r) /\ ~(j = k /\ r = s)
      BY <2>3 DEF IInv, TypeOK, QueueOK, WorkerType, CloseEnd, Holds, At
    <3>3. QED
      BY <1>1, <2>3, <3>1, <3>2 DEF IInv, TypeOK, MutexesOK, CloseEnd, Unlock
  <2>4. QED
    BY <2>1, <2>2, <2>3 DEF WorkerStep
<1>10. QED
  BY <1>6, <1>7, <1>8, <1>9 DEF IInv, TypeOK

\* CloseService and Shutdown; the vector is emptied after its threads ended.
LEMMA InputInv == ASSUME IInv, Command \/ InputStep PROVE IInv'
<1> USE ConstantsOK
<1>1. main' = main /\ worker' = worker /\ accepting' = accepting /\ sessionMutex' = sessionMutex
  BY DEF Command, InputStep, LockService, Disconnect, RelockService, ServiceClosed,
     ShutdownQueue, JoinWorkers, Finish, net, mutexes, queue
<1>2. SessionsOK'
  BY DEF IInv, TypeOK, SessionsOK, Command, InputStep, LockService, Disconnect,
     RelockService, ServiceClosed, ShutdownQueue, JoinWorkers, Finish, net, service
<1>3. ThreadsOK'
  <2>1. input' \in InputType
    <3>1. ASSUME NEW s \in Session, Disconnect(s) PROVE input' \in InputType
      BY <3>1 DEF Disconnect, InputType, At
    <3>2. CASE RelockService
      BY <3>2 DEF IInv, TypeOK, ThreadsOK, RelockService
    <3>3. CASE Command \/ LockService \/ ServiceClosed
      BY <3>3 DEF Command, LockService, ServiceClosed, InputType, At
    <3>4. CASE ShutdownQueue \/ JoinWorkers \/ Finish
      BY <3>4 DEF ShutdownQueue, JoinWorkers, Finish, InputType, At
    <3>5. QED
      BY <3>1, <3>2, <3>3, <3>4 DEF InputStep
  <2>2. up' \in BOOLEAN
    BY DEF IInv, TypeOK, ThreadsOK, Command, InputStep, LockService, Disconnect,
       RelockService, ServiceClosed, ShutdownQueue, JoinWorkers, Finish, queue
  <2>3. QED
    BY <1>1, <2>1, <2>2 DEF IInv, TypeOK, ThreadsOK
<1>4. MutexesOK'
  <2>1. /\ serviceMutex' \in {None, Input}
        /\ (serviceMutex = Input)' <=> (input.pc \in {"sweep", "disconnect"})'
    BY DEF IInv, TypeOK, MutexesOK, Command, InputStep, LockService, Disconnect,
       RelockService, ServiceClosed, ShutdownQueue, JoinWorkers, Finish, At, mutexes
  <2>2. QED
    BY <1>1, <2>1 DEF IInv, TypeOK, MutexesOK, Holds
<1>5. QueueOK' /\ LeftIsJoined'
  <2>1. CASE ShutdownQueue
    <3>1. threads \subseteq TaskThread
      BY DEF IInv, TypeOK, QueueOK, Spawned
    <3>2. Cardinality(threads) \in Nat
      BY <3>1, FS_Subset, FS_CardinalityType
    <3>3. [n \in 1 .. Cardinality(threads) |-> None] \in Seq(Task)
      BY <3>2 DEF Task
    <3>4. tasks' \in Seq(Task)
      <4>1. tasks \in Seq(Task)
        BY DEF IInv, TypeOK, QueueOK
      <4>2. tasks \o [n \in 1 .. Cardinality(threads) |-> None] \in Seq(Task)
        BY <3>3, <4>1, ConcatProperties
      <4>3. QED
        BY <2>1, <4>1, <4>2 DEF ShutdownQueue
    <3>5. QED
      BY <1>1, <2>1, <3>4 DEF IInv, TypeOK, QueueOK, JoinOK, LeftIsJoined, ShutdownQueue,
         Stop, Spawned
  <2>2. CASE JoinWorkers
    BY <1>1, <2>2 DEF IInv, TypeOK, QueueOK, JoinOK, LeftIsJoined, JoinWorkers, Joined, Spawned
  <2>3. CASE UNCHANGED queue
    BY <2>3 DEF IInv, TypeOK, QueueOK, JoinOK, LeftIsJoined, queue, Spawned
  <2>4. QED
    BY <2>1, <2>2, <2>3 DEF Command, InputStep, LockService, Disconnect, RelockService,
       ServiceClosed, Finish
<1>6. threads' \in {threads, {}}
  BY DEF Command, InputStep, LockService, Disconnect, RelockService, ServiceClosed,
     ShutdownQueue, JoinWorkers, Finish, queue
<1>7. AsioIsOver' /\ AllSpawned' /\ ExitIsJoined'
  BY <1>1, <1>6 DEF IInv, JoinOK, AsioIsOver, AllSpawned, ExitIsJoined, Spawned
<1>8. QED
  BY <1>2, <1>3, <1>4, <1>5, <1>7 DEF IInv, TypeOK, JoinOK

-----------------------------------------------------------------------------
\* The invariant is inductive.
LEMMA StepInv == IInv /\ [Next]_vars => IInv'
<1> SUFFICES ASSUME IInv, [Next]_vars PROVE IInv'
  OBVIOUS
<1>1. CASE UNCHANGED vars
  BY <1>1 DEF vars, IInv, TypeOK, ThreadsOK, SessionsOK, MutexesOK, QueueOK, JoinOK,
     Holds, Spawned, AsioIsOver, AllSpawned, LeftIsJoined,
     ExitIsJoined
<1>2. QED
  BY <1>1, MainInv, AsioInv, WorkerInv, InputInv DEF Next

\* Every reachable state satisfies the inductive invariant.
THEOREM Invariance == Spec => []IInv
  BY InitInv, StepInv, PTL DEF Spec

\* The types; and the two kinds of mutexes are owned where the code holds them.
THEOREM TypeCorrect == Spec => []TypeOK
  BY Invariance, PTL DEF IInv

\* A process that ends by itself has joined every worker of the TaskQueue,
\* whenever Shutdown came, also during Initialize.
THEOREM ExitClean == Spec => []ExitIsClean
<1>1. IInv => ExitIsClean
  BY DEF IInv, JoinOK, AsioIsOver, AllSpawned, LeftIsJoined, ExitIsJoined, ExitIsClean
<1>2. QED
  BY <1>1, Invariance, PTL

\* m_Sessions does not change while CloseService iterates over it.
THEOREM SweepSafe == Spec => SweepIsStable
<1>1. [Next]_vars =>
        [serviceMutex = Input /\ serviceMutex' = Input => sessions' = sessions]_vars
  <2> SUFFICES ASSUME Next, serviceMutex = Input PROVE sessions' = sessions
    OBVIOUS
  <2>1. ~ServiceFree
    BY ConstantsOK DEF ServiceFree
  <2>2. CASE MainStep
    BY <2>2 DEF MainStep, InitializeBegin, Spawn, StartAsio, JoinAsio, Exit, Exited, service
  <2>3. CASE AsioStep
    BY <2>1, <2>3 DEF AsioStep, AcceptEnd, AcceptBegin, Lose, service
  <2>4. ASSUME NEW k \in TaskThread, WorkerStep(k) PROVE sessions' = sessions
    BY <2>1, <2>4 DEF WorkerStep, Test, TryPop, CloseBegin, CloseEnd, service
  <2>5. CASE Command \/ InputStep
    BY <2>5 DEF Command, InputStep, LockService, Disconnect, RelockService, ServiceClosed,
       ShutdownQueue, JoinWorkers, Finish, service
  <2>6. QED
    BY <2>2, <2>3, <2>4, <2>5 DEF Next
<1>2. QED
  BY <1>1, PTL DEF Spec, SweepIsStable

-----------------------------------------------------------------------------
(* Who waits for whom *)

\* The threads that own mutexes.  An accept takes the service's for AddSession
\* and waits for nothing while it has it.
Locker == TaskThread \cup {Input}

\* Thread a is about to lock a mutex that thread b owns.
Waits(a, b) ==
  \/ /\ a \in TaskThread
     /\ \/ \E s \in Session : worker[a] = At("close", s) /\ sessionMutex[s] = b
        \/ worker[a].pc = "release" /\ serviceMutex = b
  \/ /\ a = Input
     /\ \/ input.pc = "close" /\ serviceMutex = b
        \/ input.pc = "disconnect" /\ sessionMutex[input.obj] = b

\* CloseService's loop disconnects sessions.
Disconnecting == input.pc = "disconnect" => input.obj \in Session

LEMMA StepDisconnecting == Disconnecting /\ [Next]_vars => Disconnecting'
<1> SUFFICES ASSUME Disconnecting, [Next]_vars PROVE Disconnecting'
  OBVIOUS
<1>1. CASE input' = input
  BY <1>1 DEF Disconnecting
<1>2. ASSUME NEW s \in Session, Disconnect(s) PROVE Disconnecting'
  BY <1>2 DEF Disconnect, Disconnecting, At
<1>3. ASSUME NEW pc, pc # "disconnect", input' = At(pc, None) PROVE Disconnecting'
  BY <1>3 DEF Disconnecting, At
<1>4. CASE Command \/ LockService \/ ServiceClosed \/ ShutdownQueue \/ JoinWorkers \/ Finish
  BY <1>3, <1>4 DEF Command, LockService, ServiceClosed, ShutdownQueue, JoinWorkers, Finish
<1>5. CASE MainStep \/ AsioStep \/ RelockService
  BY <1>1, <1>5 DEF MainStep, InitializeBegin, Spawn, StartAsio, JoinAsio, Exit, Exited,
     AsioStep, AcceptEnd, AcceptBegin, Lose, RelockService
<1>6. ASSUME NEW k \in TaskThread, WorkerStep(k) PROVE Disconnecting'
  BY <1>1, <1>6 DEF WorkerStep, Test, TryPop, CloseBegin, CloseEnd
<1>7. QED
  BY <1>1, <1>2, <1>4, <1>5, <1>6 DEF Next, InputStep, vars

LEMMA DisconnectingSafe == Spec => []Disconnecting
<1>1. Init => Disconnecting
  BY DEF Init, Disconnecting, At
<1>2. QED
  BY <1>1, StepDisconnecting, PTL DEF Spec

\* A worker that waits for another waits for one that has got further, and the
\* input thread waits for a worker only if they block each other.
LEMMA WaitsFor ==
  ASSUME TypeOK, Disconnecting, NEW a \in Locker, NEW b \in Locker, Waits(a, b)
  PROVE  /\ a = Input => Deadlocked
         /\ b \in TaskThread => Deadlocked \/ (worker[a].pc = "close" /\ worker[b].pc = "release")
<1>1. Input \notin TaskThread /\ None \notin Locker
  BY ConstantsOK DEF Locker
<1>2. /\ serviceMutex \in {None, Input}
      /\ serviceMutex = Input <=> input.pc \in {"sweep", "disconnect"}
      /\ \A s \in Session : sessionMutex[s] \in TaskThread \cup {None}
      /\ \A s \in Session, k \in TaskThread : sessionMutex[s] = k <=> Holds(k, s)
  BY DEF TypeOK, MutexesOK
<1>3. ASSUME a = Input PROVE Deadlocked
  <2>1. CASE input.pc = "close" /\ serviceMutex = b
    BY <1>1, <1>2, <2>1
  <2>2. CASE input.pc = "disconnect" /\ sessionMutex[input.obj] = b
    <3>1. input.obj \in Session
      BY <2>2 DEF Disconnecting
    <3>2. b \in TaskThread /\ Holds(b, input.obj)
      BY <1>1, <1>2, <2>2, <3>1
    <3>3. QED
      BY <2>2, <3>2 DEF Deadlocked
  <2>3. QED
    BY <1>1, <1>3, <2>1, <2>2 DEF Waits
<1>4. ASSUME b \in TaskThread, a \in TaskThread
      PROVE  worker[a].pc = "close" /\ worker[b].pc = "release"
  <2>1. PICK s \in Session : worker[a] = At("close", s) /\ sessionMutex[s] = b
    BY <1>1, <1>2, <1>4 DEF Waits
  <2>2. Holds(b, s)
    BY <1>2, <1>4, <2>1
  <2>3. QED
    BY <2>1, <2>2 DEF At, Holds
<1>5. QED
  BY <1>3, <1>4 DEF Locker

\* Every chain of threads that wait for a mutex ends after two of them.
WaitsEnd ==
  ~Deadlocked =>
    \A a, b, c, d \in Locker : Waits(a, b) /\ Waits(b, c) => ~Waits(c, d)

\* No threads but those of Deadlocked wait for each other in a circle:
\* CloseSession locks a session before the service, and CloseService, which
\* locks them the other way round, waits for a worker only in that deadlock.
THEOREM OnlyDeadlock == Spec => []WaitsEnd
<1>1. TypeOK /\ Disconnecting => WaitsEnd
  <2> SUFFICES ASSUME TypeOK, Disconnecting, ~Deadlocked,
                      NEW a \in Locker, NEW b \in Locker, NEW c \in Locker, NEW d \in Locker,
                      Waits(a, b), Waits(b, c), Waits(c, d)
               PROVE  FALSE
    BY DEF WaitsEnd
  <2>1. a # Input /\ b # Input /\ c # Input
    BY WaitsFor
  <2>2. worker[b].pc = "release" /\ worker[b].pc = "close"
    BY <2>1, WaitsFor DEF Locker
  <2>3. QED
    BY <2>2
<1>2. QED
  BY <1>1, DisconnectingSafe, TypeCorrect, PTL

\* Once CloseService and a worker block each other, neither takes another
\* step: no thread unlocks what they wait for, and nothing ends the process.
THEOREM DeadlockStays == Spec => [][Deadlocked => Deadlocked' /\ input' = input /\ up' = up]_vars
<1>1. IInv /\ Disconnecting /\ [Next]_vars =>
        [Deadlocked => Deadlocked' /\ input' = input /\ up' = up]_vars
  <2> SUFFICES ASSUME IInv, Disconnecting, Next, Deadlocked
               PROVE  Deadlocked' /\ input' = input /\ up' = up
    OBVIOUS
  <2>1. PICK k \in TaskThread : Holds(k, input.obj)
    BY DEF Deadlocked
  <2>2. /\ input.pc = "disconnect" /\ up /\ ~ServiceFree
        /\ input.obj \in Session /\ sessionMutex[input.obj] # None
    BY <2>1, ConstantsOK DEF Deadlocked, Disconnecting, Next, IInv, TypeOK, MutexesOK, ServiceFree
  <2>3. worker[k].pc = "release" /\ worker \in [TaskThread -> WorkerType] /\ up \in BOOLEAN
    BY <2>1 DEF Holds, IInv, TypeOK, QueueOK, ThreadsOK
  <2>4. ASSUME input' = input, worker'[k] = worker[k] PROVE Deadlocked'
    BY <2>1, <2>2, <2>4 DEF Deadlocked, Holds
  <2>5. ASSUME NEW j \in TaskThread, Spawn(j)
        PROVE  input' = input /\ worker'[k] = worker[k] /\ up' = up
    BY <2>2, <2>3, <2>5 DEF Spawn, Spawned
  <2>6. CASE InitializeBegin \/ StartAsio \/ JoinAsio \/ Exit \/ Exited \/ AsioStep
    BY <2>2, <2>4, <2>6 DEF InitializeBegin, StartAsio, JoinAsio, Exit, Exited, AsioStep,
       AcceptEnd, AcceptBegin, Lose, queue
  <2>7. ASSUME NEW j \in TaskThread, WorkerStep(j)
        PROVE  input' = input /\ worker'[k] = worker[k] /\ up' = up
    <3>1. input' = input /\ up' = up
      BY <2>7 DEF WorkerStep, Test, TryPop, CloseBegin, CloseEnd
    <3>2. j # k
      <4>1. ~ \E s \in Session : CloseEnd(j, s)
        BY <2>2 DEF CloseEnd
      <4>2. worker[j].pc \in {"test", "pop"} \/ \E s \in Session : worker[j] = At("close", s)
        BY <2>7, <4>1 DEF WorkerStep, Test, TryPop, CloseBegin
      <4>3. QED
        BY <2>3, <4>2 DEF At
    <3>3. \E v : worker' = [worker EXCEPT ![j] = v]
      BY <2>7 DEF WorkerStep, Test, TryPop, CloseBegin, CloseEnd
    <3>4. QED
      BY <2>3, <3>1, <3>2, <3>3
  <2>8. ~Command /\ ~InputStep
    BY <2>2 DEF Command, InputStep, LockService, Disconnect, RelockService, ServiceClosed,
       ShutdownQueue, JoinWorkers, Finish
  <2>9. QED
    BY <2>4, <2>5, <2>6, <2>7, <2>8 DEF Next, MainStep
<1>2. QED
  BY <1>1, Invariance, DisconnectingSafe, PTL DEF Spec

=============================================================================
