---------------------- MODULE SessionLifecycleProofs ----------------------
(* Proofs about SessionLifecycle, for every pool, number of threads and      *)
(* bound.                                                                    *)
EXTENDS SessionLifecycle, TLAPS

\* An object without a UID was never popped.
UnnumberedIsPooled == \A o \in Obj : uid[o] = NoUid => o \in pool

\* UIDs of objects are below the counter and no two objects have the same.
UidsIssued == \A o \in Obj : uid[o] < nextUid
UidsDistinct ==
  \A o, p \in Obj : uid[o] = uid[p] /\ uid[o] # NoUid => o = p

\* UIDs not issued yet are not registered.
UnissuedIsFree == \A u \in Uid : u >= nextUid => registry[u] = NoObj

\* Between OnDisconnected and ReleaseSession the object is not registered.
ReleasingIsUnregistered ==
  \A k \in TaskThread, o \in Obj, u \in Uid :
    tasker[k].pc = "release" /\ tasker[k].obj = o => registry[u] # o

\* The inductive invariant.
IInv ==
  /\ TypeOK
  /\ PooledIsUnowned
  /\ RegistryCoherent
  /\ HandlerKeepsItsSession
  /\ PlayerOfThisConnection
  /\ UnnumberedIsPooled
  /\ UidsIssued
  /\ UidsDistinct
  /\ UnissuedIsFree
  /\ ReleasingIsUnregistered

\* The invariants that only need the registry, the UIDs, the Players and the
\* handlers' objects.
Coherence ==
  /\ RegistryCoherent
  /\ HandlerKeepsItsSession
  /\ PlayerOfThisConnection
  /\ UidsIssued
  /\ UidsDistinct
  /\ UnissuedIsFree
  /\ ReleasingIsUnregistered

-----------------------------------------------------------------------------
\* A step that takes no new reference and settles one object hands nothing
\* out that is still owned, and loses no object that was never popped.
LEMMA SettleSafe ==
  ASSUME IInv, NEW o \in Obj, Settle(o), uid' = uid,
         \A p \in Obj : Referenced(p)' => Referenced(p)
  PROVE  PooledIsUnowned' /\ UnnumberedIsPooled' /\ pool' \in SUBSET Obj
  BY DEF IInv, TypeOK, PooledIsUnowned, UnnumberedIsPooled, Settle

\* The same for a step that leaves the pool alone.
LEMMA SamePoolSafe ==
  ASSUME IInv, pool' = pool, uid' = uid,
         \A p \in Obj : Referenced(p)' => Referenced(p)
  PROVE  PooledIsUnowned' /\ UnnumberedIsPooled' /\ pool' \in SUBSET Obj
  BY DEF IInv, TypeOK, PooledIsUnowned, UnnumberedIsPooled

\* An owned object has a UID the service issued.
LEMMA OwnedHasUid ==
  ASSUME IInv, NEW o \in Obj, Referenced(o)
  PROVE  uid[o] \in Uid
  BY DEF IInv, TypeOK, PooledIsUnowned, UnnumberedIsPooled

\* Initially all objects are pooled, unnumbered and unowned.
LEMMA InitInv == Init => IInv
<1> SUFFICES ASSUME Init PROVE IInv
  OBVIOUS
<1> USE ConstantsOK
<1>1. TypeOK
  BY DEF Init, TypeOK, IdleIo, IdleTasker, IdleRouter, Maybe, Kind, Item
<1>2. PooledIsUnowned
  BY DEF Init, PooledIsUnowned, Referenced, IdleIo, IdleTasker, IdleRouter
<1>3. Coherence /\ UnnumberedIsPooled
  BY DEF Init, Coherence, RegistryCoherent, HandlerKeepsItsSession,
         PlayerOfThisConnection, UidsIssued, UidsDistinct, UnissuedIsFree,
         ReleasingIsUnregistered, UnnumberedIsPooled, IdleTasker, IdleRouter, NoUid
<1>4. QED
  BY <1>1, <1>2, <1>3 DEF IInv, Coherence

\* A session is accepted: the popped object gets a UID that is used nowhere.
LEMMA HandleAcceptInv ==
  ASSUME IInv, NEW t \in IoThread, NEW o \in Obj, HandleAccept(t, o)
  PROVE  IInv'
<1> USE ConstantsOK
<1>1. ~Referenced(o) /\ nextUid \in Uid
  BY DEF IInv, TypeOK, PooledIsUnowned, HandleAccept, Uid
<1>2. registry[nextUid] = NoObj
  BY <1>1 DEF IInv, TypeOK, UnissuedIsFree, Uid
<1>3. TypeOK'
  BY <1>1, <1>2 DEF IInv, TypeOK, HandleAccept, Uid, Maybe
<1>4. \A p \in Obj : p # o /\ Referenced(p)' => Referenced(p)
  BY <1>1, <1>2 DEF IInv, TypeOK, HandleAccept, Referenced
<1>5. PooledIsUnowned'
  BY <1>4 DEF IInv, TypeOK, PooledIsUnowned, HandleAccept
<1>6. RegistryCoherent'
  BY <1>1, <1>2 DEF IInv, TypeOK, RegistryCoherent, HandleAccept, Referenced, Maybe
<1>7. HandlerKeepsItsSession' /\ PlayerOfThisConnection'
  <2>1. players[o] = {} /\ \A w \in Worker : router[w].obj # o
    BY <1>1 DEF Referenced
  <2>2. /\ \A p \in Obj : p # o => uid'[p] = uid[p]
        /\ UNCHANGED <<players, router>>
    BY DEF IInv, TypeOK, HandleAccept
  <2>3. \A w \in Worker : router[w].obj \in Maybe
    BY DEF IInv, TypeOK
  <2>4. HandlerKeepsItsSession'
    BY <2>1, <2>2, <2>3 DEF IInv, HandlerKeepsItsSession, Maybe
  <2>5. PlayerOfThisConnection'
    BY <2>1, <2>2 DEF IInv, PlayerOfThisConnection
  <2>6. QED
    BY <2>4, <2>5
<1>8. UnnumberedIsPooled' /\ UidsIssued' /\ UidsDistinct'
  <2>1. uid \in [Obj -> Uid \cup {NoUid}] /\ nextUid \in Nat
    BY DEF IInv, TypeOK
  <2>2. uid' = [uid EXCEPT ![o] = nextUid] /\ nextUid' = nextUid + 1
    BY DEF HandleAccept
  <2>3. UnnumberedIsPooled'
    BY <2>1, <2>2 DEF IInv, UnnumberedIsPooled, HandleAccept, NoUid
  <2>4. UidsIssued'
    BY <2>1, <2>2 DEF IInv, UidsIssued, Uid, NoUid
  <2>5. UidsDistinct'
    BY <2>1, <2>2 DEF IInv, UidsIssued, UidsDistinct
  <2>6. QED
    BY <2>3, <2>4, <2>5
<1>9. UnissuedIsFree' /\ ReleasingIsUnregistered'
  <2>1. \A k \in TaskThread : tasker[k].obj # o
    BY <1>1 DEF Referenced
  <2>2. \A u \in Uid : u # nextUid => registry'[u] = registry[u]
    BY DEF IInv, TypeOK, HandleAccept
  <2>3. registry'[nextUid] = o /\ nextUid' = nextUid + 1 /\ tasker' = tasker
    BY <1>1, <1>2 DEF IInv, TypeOK, HandleAccept
  <2>4. UnissuedIsFree'
    BY <1>1, <2>2, <2>3 DEF IInv, UnissuedIsFree, Uid
  <2>5. ReleasingIsUnregistered'
    BY <2>1, <2>2, <2>3 DEF IInv, ReleasingIsUnregistered
  <2>6. QED
    BY <2>4, <2>5
<1>10. QED
  BY <1>3, <1>5, <1>6, <1>7, <1>8, <1>9 DEF IInv

\* An empty pool ends the process and changes nothing else.
LEMMA PoolExhaustedInv ==
  ASSUME IInv, NEW t \in IoThread, PoolExhausted(t)
  PROVE  IInv'
<1>1. TypeOK'
  BY DEF IInv, TypeOK, PoolExhausted
<1>2. PooledIsUnowned' /\ UnnumberedIsPooled'
  BY DEF IInv, PooledIsUnowned, UnnumberedIsPooled, Referenced, PoolExhausted
<1>3. Coherence'
  BY DEF IInv, PoolExhausted, Coherence, RegistryCoherent, HandlerKeepsItsSession,
         PlayerOfThisConnection, UidsIssued, UidsDistinct, UnissuedIsFree,
         ReleasingIsUnregistered
<1>4. QED
  BY <1>1, <1>2, <1>3 DEF IInv, Coherence

\* A packet's item and the read armed again own what the handler owned.
LEMMA ReadPacketInv ==
  ASSUME IInv, NEW t \in IoThread, NEW o \in Obj, ReadPacket(t, o)
  PROVE  IInv'
<1> USE ConstantsOK
<1>1. \A p \in Obj : Referenced(p)' => Referenced(p)
  BY DEF IInv, TypeOK, ReadPacket, Referenced, Maybe, Dispatch, WorkerOf, Sendable
<1>2. PooledIsUnowned' /\ UnnumberedIsPooled' /\ pool' \in SUBSET Obj
  BY <1>1, SamePoolSafe DEF ReadPacket
<1>3. TypeOK'
  <2>1. uid[o] \in Uid
    BY OwnedHasUid DEF ReadPacket, Referenced
  <2>2. WorkerOf(uid[o]) \in Worker
    BY <2>1 DEF WorkerOf, Worker, Uid
  <2>3. PICK k \in Sendable(o) : Dispatch(uid[o], k)
    BY DEF ReadPacket
  <2>4. [uid |-> uid[o], kind |-> k] \in Item
    BY <2>1, <2>3 DEF Item, Kind, Sendable
  <2>5. queue' \in [Worker -> Seq(Item)]
    BY <2>2, <2>3, <2>4 DEF IInv, TypeOK, Dispatch
  <2>6. reads' \in [Obj -> 0 .. MaxRead]
    BY DEF IInv, TypeOK, ReadPacket
  <2>7. QED
    BY <1>2, <2>5, <2>6 DEF IInv, TypeOK, ReadPacket
<1>4. Coherence'
  BY DEF IInv, TypeOK, ReadPacket, Coherence, RegistryCoherent, HandlerKeepsItsSession,
         PlayerOfThisConnection, UidsIssued, UidsDistinct, UnissuedIsFree,
         ReleasingIsUnregistered, Maybe, Dispatch, WorkerOf, Sendable
<1>5. QED
  BY <1>2, <1>3, <1>4 DEF IInv, Coherence

\* A failed read drops the read's reference, or goes on to ProcessDisconnect.
LEMMA ReadFailsInv ==
  ASSUME IInv, NEW t \in IoThread, NEW o \in Obj, ReadFails(t, o)
  PROVE  IInv'
<1> USE ConstantsOK
<1>1. \A p \in Obj : Referenced(p)' => Referenced(p)
  BY DEF IInv, TypeOK, ReadFails, Referenced, Maybe, StartDisconnect
<1>2. PooledIsUnowned' /\ UnnumberedIsPooled' /\ pool' \in SUBSET Obj
  BY <1>1, SettleSafe DEF ReadFails
<1>3. TypeOK'
  BY <1>2 DEF IInv, TypeOK, ReadFails, Maybe, StartDisconnect
<1>4. Coherence'
  BY DEF IInv, TypeOK, ReadFails, Coherence, RegistryCoherent, HandlerKeepsItsSession,
         PlayerOfThisConnection, UidsIssued, UidsDistinct, UnissuedIsFree,
         ReleasingIsUnregistered, Maybe, StartDisconnect
<1>5. QED
  BY <1>2, <1>3, <1>4 DEF IInv, Coherence

\* A read that does not fit ends in ProcessDisconnect too.
LEMMA ReadOverflowsInv ==
  ASSUME IInv, NEW t \in IoThread, NEW o \in Obj, ReadOverflows(t, o)
  PROVE  IInv'
<1> USE ConstantsOK
<1>1. \A p \in Obj : Referenced(p)' => Referenced(p)
  BY DEF IInv, TypeOK, ReadOverflows, Referenced, Maybe, StartDisconnect
<1>2. PooledIsUnowned' /\ UnnumberedIsPooled' /\ pool' \in SUBSET Obj
  BY <1>1, SamePoolSafe DEF ReadOverflows
<1>3. TypeOK'
  BY <1>2 DEF IInv, TypeOK, ReadOverflows, Maybe, StartDisconnect
<1>4. Coherence'
  BY DEF IInv, TypeOK, ReadOverflows, Coherence, RegistryCoherent, HandlerKeepsItsSession,
         PlayerOfThisConnection, UidsIssued, UidsDistinct, UnissuedIsFree,
         ReleasingIsUnregistered, Maybe, StartDisconnect
<1>5. QED
  BY <1>2, <1>3, <1>4 DEF IInv, Coherence

\* A finished write drops its reference; the object may go to the pool.
LEMMA WriteDoneInv ==
  ASSUME IInv, NEW t \in IoThread, NEW o \in Obj, WriteDone(t, o)
  PROVE  IInv'
<1> USE ConstantsOK
<1>1. \A p \in Obj : Referenced(p)' => Referenced(p)
  BY DEF IInv, TypeOK, WriteDone, Referenced, Maybe
<1>2. PooledIsUnowned' /\ UnnumberedIsPooled' /\ pool' \in SUBSET Obj
  BY <1>1, SettleSafe DEF WriteDone
<1>3. TypeOK'
  BY <1>2 DEF IInv, TypeOK, WriteDone, Maybe
<1>4. Coherence'
  BY DEF IInv, TypeOK, WriteDone, Coherence, RegistryCoherent, HandlerKeepsItsSession,
         PlayerOfThisConnection, UidsIssued, UidsDistinct, UnissuedIsFree,
         ReleasingIsUnregistered, Maybe
<1>5. QED
  BY <1>2, <1>3, <1>4 DEF IInv, Coherence

\* A failed write drops its reference, or goes on to ProcessDisconnect.
LEMMA WriteFailsInv ==
  ASSUME IInv, NEW t \in IoThread, NEW o \in Obj, WriteFails(t, o)
  PROVE  IInv'
<1> USE ConstantsOK
<1>1. \A p \in Obj : Referenced(p)' => Referenced(p)
  BY DEF IInv, TypeOK, WriteFails, Referenced, Maybe, StartDisconnect
<1>2. PooledIsUnowned' /\ UnnumberedIsPooled' /\ pool' \in SUBSET Obj
  BY <1>1, SettleSafe DEF WriteFails
<1>3. TypeOK'
  BY <1>2 DEF IInv, TypeOK, WriteFails, Maybe, StartDisconnect
<1>4. Coherence'
  BY DEF IInv, TypeOK, WriteFails, Coherence, RegistryCoherent, HandlerKeepsItsSession,
         PlayerOfThisConnection, UidsIssued, UidsDistinct, UnissuedIsFree,
         ReleasingIsUnregistered, Maybe, StartDisconnect
<1>5. QED
  BY <1>2, <1>3, <1>4 DEF IInv, Coherence

\* The task carries a UID, and the handler's reference is dropped.
LEMMA MarkAndPushInv ==
  ASSUME IInv, NEW t \in IoThread, NEW o \in Obj, MarkAndPush(t, o)
  PROVE  IInv'
<1> USE ConstantsOK
<1>1. \A p \in Obj : Referenced(p)' => Referenced(p)
  BY DEF IInv, TypeOK, MarkAndPush, Referenced, Maybe, IdleIo
<1>2. PooledIsUnowned' /\ UnnumberedIsPooled' /\ pool' \in SUBSET Obj
  BY <1>1, SettleSafe DEF MarkAndPush
<1>3. TypeOK'
  <2>1. uid[o] \in Uid
    BY OwnedHasUid DEF MarkAndPush, Referenced
  <2>2. tasks' \in Seq(Uid)
    BY <2>1 DEF IInv, TypeOK, MarkAndPush
  <2>3. QED
    BY <1>2, <2>2 DEF IInv, TypeOK, MarkAndPush, Maybe, IdleIo
<1>4. Coherence'
  BY DEF IInv, TypeOK, MarkAndPush, Coherence, RegistryCoherent, HandlerKeepsItsSession,
         PlayerOfThisConnection, UidsIssued, UidsDistinct, UnissuedIsFree,
         ReleasingIsUnregistered, Maybe, IdleIo
<1>5. QED
  BY <1>2, <1>3, <1>4 DEF IInv, Coherence

\* The TaskQueue worker holds what the SessionManager has for the UID.
LEMMA TaskPopInv ==
  ASSUME IInv, NEW k \in TaskThread, TaskPop(k)
  PROVE  IInv'
<1> USE ConstantsOK
<1>1. \A p \in Obj : Referenced(p)' => Referenced(p)
  BY DEF IInv, TypeOK, TaskPop, Referenced, Maybe
<1>2. PooledIsUnowned' /\ UnnumberedIsPooled' /\ pool' \in SUBSET Obj
  BY <1>1, SamePoolSafe DEF TaskPop
<1>3. TypeOK'
  <2>1. Head(tasks) \in Uid /\ tasks' \in Seq(Uid)
    BY DEF IInv, TypeOK, TaskPop
  <2>2. registry[Head(tasks)] \in Maybe
    BY <2>1 DEF IInv, TypeOK
  <2>3. tasker' \in [TaskThread -> [pc : {"idle", "close", "release"}, obj : Maybe]]
    BY <2>2 DEF IInv, TypeOK, TaskPop
  <2>4. QED
    BY <1>2, <2>1, <2>3 DEF IInv, TypeOK, TaskPop
<1>4. Coherence'
  BY DEF IInv, TypeOK, TaskPop, Coherence, RegistryCoherent, HandlerKeepsItsSession,
         PlayerOfThisConnection, UidsIssued, UidsDistinct, UnissuedIsFree,
         ReleasingIsUnregistered, Maybe
<1>5. QED
  BY <1>2, <1>3, <1>4 DEF IInv, Coherence

\* RemoveSession takes out the UID's entry; the worker still owns the object.
LEMMA CloseBeginInv ==
  ASSUME IInv, NEW k \in TaskThread, NEW o \in Obj, CloseBegin(k, o)
  PROVE  IInv'
<1> USE ConstantsOK
<1>1. \A p \in Obj : Referenced(p)' => Referenced(p)
  BY DEF IInv, TypeOK, CloseBegin, Referenced, Maybe
<1>2. PooledIsUnowned' /\ UnnumberedIsPooled' /\ pool' \in SUBSET Obj
  BY <1>1, SamePoolSafe DEF CloseBegin
<1>3. TypeOK'
  <2>1. registry' \in [Uid -> Maybe]
    BY DEF IInv, TypeOK, CloseBegin, Maybe
  <2>2. tasker[k] \in [pc : {"idle", "close", "release"}, obj : Maybe]
    BY DEF IInv, TypeOK
  <2>3. [tasker[k] EXCEPT !.pc = "release"]
          \in [pc : {"idle", "close", "release"}, obj : Maybe]
    BY <2>2
  <2>4. tasker' = [tasker EXCEPT ![k] = [tasker[k] EXCEPT !.pc = "release"]]
    BY DEF IInv, TypeOK, CloseBegin
  <2>5. tasker' \in [TaskThread -> [pc : {"idle", "close", "release"}, obj : Maybe]]
    BY <2>3, <2>4 DEF IInv, TypeOK
  <2>6. QED
    BY <1>2, <2>1, <2>5 DEF IInv, TypeOK, CloseBegin
<1>4. Coherence'
  <2>1. \A u \in Uid : registry'[u] \in {registry[u], NoObj} /\ registry'[u] # o
    BY DEF IInv, TypeOK, CloseBegin, RegistryCoherent, Maybe
  <2>2. RegistryCoherent' /\ UnissuedIsFree'
    BY <2>1 DEF IInv, CloseBegin, RegistryCoherent, UnissuedIsFree
  <2>3. ReleasingIsUnregistered'
    <3> SUFFICES ASSUME NEW j \in TaskThread, NEW p \in Obj, NEW u \in Uid,
                        tasker'[j].pc = "release", tasker'[j].obj = p
                 PROVE  registry'[u] # p
      BY DEF ReleasingIsUnregistered
    <3>1. CASE j = k
      BY <3>1, <2>1 DEF IInv, TypeOK, CloseBegin
    <3>2. CASE j # k
      BY <3>2, <2>1, ConstantsOK DEF IInv, TypeOK, CloseBegin, ReleasingIsUnregistered
    <3>3. QED
      BY <3>1, <3>2
  <2>4. QED
    BY <2>2, <2>3 DEF IInv, CloseBegin, Coherence, HandlerKeepsItsSession,
         PlayerOfThisConnection, UidsIssued, UidsDistinct
<1>5. QED
  BY <1>2, <1>3, <1>4 DEF IInv, Coherence

\* The session leaves the service's set, and the worker lets go of it.
LEMMA CloseEndInv ==
  ASSUME IInv, NEW k \in TaskThread, NEW o \in Obj, CloseEnd(k, o)
  PROVE  IInv'
<1> USE ConstantsOK
<1>1. \A p \in Obj : Referenced(p)' => Referenced(p)
  BY DEF IInv, TypeOK, CloseEnd, Referenced, Maybe, IdleTasker
<1>2. PooledIsUnowned' /\ UnnumberedIsPooled' /\ pool' \in SUBSET Obj
  BY <1>1, SettleSafe DEF CloseEnd
<1>3. TypeOK'
  <2>1. tasker' \in [TaskThread -> [pc : {"idle", "close", "release"}, obj : Maybe]]
    BY DEF IInv, TypeOK, CloseEnd, IdleTasker, Maybe
  <2>2. sessions' \in SUBSET Obj /\ sessionCount' \in Int
    BY DEF IInv, TypeOK, CloseEnd
  <2>3. link' \in [Obj -> {"none", "open", "lost", "closed"}]
    BY DEF IInv, TypeOK, CloseEnd
  <2>4. QED
    BY <1>2, <2>1, <2>2, <2>3 DEF IInv, TypeOK, CloseEnd
<1>4. Coherence'
  BY DEF IInv, TypeOK, CloseEnd, Coherence, RegistryCoherent, HandlerKeepsItsSession,
         PlayerOfThisConnection, UidsIssued, UidsDistinct, UnissuedIsFree,
         ReleasingIsUnregistered, Maybe, IdleTasker
<1>5. QED
  BY <1>2, <1>3, <1>4 DEF IInv, Coherence

\* The router worker holds the session registered under the item's UID.
LEMMA RouterPopInv ==
  ASSUME IInv, NEW w \in Worker, RouterPop(w)
  PROVE  IInv'
<1> USE ConstantsOK
<1> DEFINE i == Head(queue[w])
           o == registry[i.uid]
           held == [obj |-> o, uid |-> i.uid, kind |-> i.kind]
<1>1. i \in Item /\ Tail(queue[w]) \in Seq(Item)
  BY DEF IInv, TypeOK, RouterPop
<1>2. i.uid \in Uid /\ i.kind \in Kind
  BY <1>1 DEF Item
<1>3. o \in Maybe
  BY <1>2 DEF IInv, TypeOK
<1>4. /\ queue' = [queue EXCEPT ![w] = Tail(@)]
      /\ router' = IF o = NoObj THEN router ELSE [router EXCEPT ![w] = held]
  BY DEF RouterPop
<1>5. router \in [Worker -> [obj : Maybe, uid : Uid \cup {NoUid}, kind : Kind \cup {"none"}]]
  BY DEF IInv, TypeOK
<1> HIDE DEF i, o
<1>6. \A v \in Worker : router'[v] = router[v] \/ (o \in Obj /\ router'[v] = held)
  BY <1>3, <1>4, <1>5 DEF Maybe
<1>7. \A p \in Obj : Referenced(p)' => Referenced(p)
  <2> SUFFICES ASSUME NEW p \in Obj, Referenced(p)' PROVE Referenced(p)
    OBVIOUS
  <2>1. \A v \in Worker : router'[v].obj = p => router[v].obj = p \/ o = p
    BY <1>6
  <2>2. o = p => registry[i.uid] = p
    BY DEF o
  <2>3. QED
    BY <1>2, <2>1, <2>2 DEF RouterPop, Referenced
<1>8. PooledIsUnowned' /\ UnnumberedIsPooled' /\ pool' \in SUBSET Obj
  BY <1>7, SamePoolSafe DEF RouterPop
<1>9. TypeOK'
  <2>1. queue' \in [Worker -> Seq(Item)]
    BY <1>1, <1>4 DEF IInv, TypeOK, i
  <2>2. held \in [obj : Maybe, uid : Uid \cup {NoUid}, kind : Kind \cup {"none"}]
    BY <1>2, <1>3
  <2>3. router' \in [Worker -> [obj : Maybe, uid : Uid \cup {NoUid}, kind : Kind \cup {"none"}]]
    BY <1>4, <1>5, <2>2
  <2>4. QED
    BY <1>8, <2>1, <2>3 DEF IInv, TypeOK, RouterPop
<1>10. HandlerKeepsItsSession'
  <2>1. o \in Obj => uid[o] = i.uid
    BY <1>2 DEF IInv, RegistryCoherent, o
  <2>2. QED
    BY <1>6, <2>1 DEF IInv, HandlerKeepsItsSession, RouterPop
<1>11. Coherence'
  BY <1>10 DEF IInv, TypeOK, RouterPop, Coherence, RegistryCoherent,
         PlayerOfThisConnection, UidsIssued, UidsDistinct, UnissuedIsFree,
         ReleasingIsUnregistered
<1>12. QED
  BY <1>8, <1>9, <1>11 DEF IInv, Coherence

\* A login makes a Player of this connection, which owns the session.
LEMMA HandleLoginInv ==
  ASSUME IInv, NEW w \in Worker, NEW o \in Obj, HandleLogin(w, o)
  PROVE  IInv'
<1> USE ConstantsOK
<1>1. \A p \in Obj : Referenced(p)' => Referenced(p)
  BY DEF IInv, TypeOK, HandleLogin, Referenced, Maybe, SendTo, IdleRouter
<1>2. PooledIsUnowned' /\ UnnumberedIsPooled' /\ pool' \in SUBSET Obj
  BY <1>1, SamePoolSafe DEF HandleLogin
<1>3. TypeOK'
  <2>1. uid[o] \in Uid
    BY OwnedHasUid DEF HandleLogin, Referenced
  <2>2. writes' \in [Obj -> 0 .. MaxWrite]
    BY DEF IInv, TypeOK, HandleLogin, SendTo
  <2>3. players' \in [Obj -> SUBSET Uid]
    BY <2>1 DEF IInv, TypeOK, HandleLogin
  <2>4. QED
    BY <1>2, <2>2, <2>3 DEF IInv, TypeOK, HandleLogin, Maybe, IdleRouter
<1>4. Coherence'
  BY DEF IInv, TypeOK, HandleLogin, Coherence, RegistryCoherent, HandlerKeepsItsSession,
         PlayerOfThisConnection, UidsIssued, UidsDistinct, UnissuedIsFree,
         ReleasingIsUnregistered, Maybe, SendTo, IdleRouter
<1>5. QED
  BY <1>2, <1>3, <1>4 DEF IInv, Coherence

\* The stress client's packet is answered and the worker lets go.
LEMMA HandleDummyInv ==
  ASSUME IInv, NEW w \in Worker, NEW o \in Obj, HandleDummy(w, o)
  PROVE  IInv'
<1> USE ConstantsOK
<1>1. \A p \in Obj : Referenced(p)' => Referenced(p)
  BY DEF IInv, TypeOK, HandleDummy, Referenced, Maybe, SendTo, IdleRouter
<1>2. PooledIsUnowned' /\ UnnumberedIsPooled' /\ pool' \in SUBSET Obj
  BY <1>1, SettleSafe DEF HandleDummy
<1>3. TypeOK'
  BY <1>2 DEF IInv, TypeOK, HandleDummy, Maybe, SendTo, IdleRouter
<1>4. Coherence'
  BY DEF IInv, TypeOK, HandleDummy, Coherence, RegistryCoherent, HandlerKeepsItsSession,
         PlayerOfThisConnection, UidsIssued, UidsDistinct, UnissuedIsFree,
         ReleasingIsUnregistered, Maybe, SendTo, IdleRouter
<1>5. QED
  BY <1>2, <1>3, <1>4 DEF IInv, Coherence

\* A broadcast adds writes to sessions their Players own.
LEMMA HandleChatInv ==
  ASSUME IInv, NEW w \in Worker, NEW o \in Obj, HandleChat(w, o)
  PROVE  IInv'
<1> USE ConstantsOK
<1>1. /\ writes' \in [Obj -> 0 .. MaxWrite]
      /\ \A p \in Obj : writes'[p] > 0 => writes[p] > 0 \/ players[p] # {}
  <2>1. PICK T \in SUBSET {p \in Obj : players[p] # {}} : SendTo(T)
    BY DEF HandleChat
  <2>2. writes \in [Obj -> 0 .. MaxWrite]
    BY DEF IInv, TypeOK
  <2>3. QED
    BY <2>1, <2>2 DEF SendTo
<1>2. router' = [router EXCEPT ![w] = IdleRouter] /\ IdleRouter.obj \notin Obj
  BY DEF HandleChat, IdleRouter
<1>3. \A p \in Obj : Referenced(p)' => Referenced(p)
  <2> SUFFICES ASSUME NEW p \in Obj, Referenced(p)' PROVE Referenced(p)
    OBVIOUS
  <2>1. \A v \in Worker : router'[v].obj = p => router[v].obj = p
    BY <1>2 DEF IInv, TypeOK
  <2>2. QED
    BY <1>1, <2>1 DEF HandleChat, Referenced
<1>4. PooledIsUnowned' /\ UnnumberedIsPooled' /\ pool' \in SUBSET Obj
  BY <1>3, SettleSafe DEF HandleChat
<1>5. TypeOK'
  <2>1. router' \in [Worker -> [obj : Maybe, uid : Uid \cup {NoUid},
                                kind : Kind \cup {"none"}]]
    BY <1>2 DEF IInv, TypeOK, IdleRouter, Maybe
  <2>2. QED
    BY <1>1, <1>4, <2>1 DEF IInv, TypeOK, HandleChat
<1>6. HandlerKeepsItsSession'
  BY <1>2 DEF IInv, TypeOK, HandlerKeepsItsSession, HandleChat, IdleRouter
<1>7. Coherence'
  BY <1>6 DEF IInv, HandleChat, Coherence, RegistryCoherent,
         PlayerOfThisConnection, UidsIssued, UidsDistinct, UnissuedIsFree,
         ReleasingIsUnregistered
<1>8. QED
  BY <1>4, <1>5, <1>7 DEF IInv, Coherence

\* The peer going away touches no reference.
LEMMA PeerClosesInv ==
  ASSUME IInv, NEW o \in Obj, PeerCloses(o)
  PROVE  IInv'
<1> USE ConstantsOK
<1>1. \A p \in Obj : Referenced(p)' => Referenced(p)
  BY DEF IInv, TypeOK, PeerCloses, Referenced, Maybe
<1>2. PooledIsUnowned' /\ UnnumberedIsPooled' /\ pool' \in SUBSET Obj
  BY <1>1, SamePoolSafe DEF PeerCloses
<1>3. TypeOK'
  BY <1>2 DEF IInv, TypeOK, PeerCloses, Maybe
<1>4. Coherence'
  BY DEF IInv, TypeOK, PeerCloses, Coherence, RegistryCoherent, HandlerKeepsItsSession,
         PlayerOfThisConnection, UidsIssued, UidsDistinct, UnissuedIsFree,
         ReleasingIsUnregistered, Maybe
<1>5. QED
  BY <1>2, <1>3, <1>4 DEF IInv, Coherence

-----------------------------------------------------------------------------
\* Every step keeps the inductive invariant.
LEMMA StepInv == IInv /\ [Next]_vars => IInv'
<1> SUFFICES ASSUME IInv, [Next]_vars PROVE IInv'
  OBVIOUS
<1>1. CASE UNCHANGED vars
  BY <1>1 DEF vars, IInv, TypeOK, PooledIsUnowned, RegistryCoherent,
     HandlerKeepsItsSession, PlayerOfThisConnection, UnnumberedIsPooled, UidsIssued,
     UidsDistinct, UnissuedIsFree, ReleasingIsUnregistered, Referenced
<1>2. ASSUME NEW t \in IoThread, IoStep(t) PROVE IInv'
  BY <1>2, HandleAcceptInv, PoolExhaustedInv, ReadPacketInv, ReadFailsInv,
     ReadOverflowsInv, WriteDoneInv, WriteFailsInv, MarkAndPushInv DEF IoStep
<1>3. ASSUME NEW k \in TaskThread, TaskStep(k) PROVE IInv'
  BY <1>3, TaskPopInv, CloseBeginInv, CloseEndInv DEF TaskStep
<1>4. ASSUME NEW w \in Worker, RouterStep(w) PROVE IInv'
  BY <1>4, RouterPopInv, HandleLoginInv, HandleDummyInv, HandleChatInv DEF RouterStep
<1>5. ASSUME NEW o \in Obj, PeerCloses(o) PROVE IInv'
  BY <1>5, PeerClosesInv
<1>6. QED
  BY <1>1, <1>2, <1>3, <1>4, <1>5 DEF Next

\* Every reachable state satisfies the inductive invariant.
THEOREM Invariance == Spec => []IInv
  BY InitInv, StepInv, PTL DEF Spec

\* The variables keep their types: in particular every UID a Disconnect task,
\* a router item or a Player carries is one the service issued.
THEOREM TypeCorrect == Spec => []TypeOK
  BY Invariance, PTL DEF IInv

\* The pool never holds an object that something still owns, however many
\* threads hold, close and recycle sessions at once.
THEOREM PoolSafe == Spec => []PooledIsUnowned
  BY Invariance, PTL DEF IInv

\* The SessionManager's entry of a UID is the live session with that UID.
THEOREM RegistrySafe == Spec => []RegistryCoherent
  BY Invariance, PTL DEF IInv

\* A packet handler works on the session its packet came from.
THEOREM HandlerSafe == Spec => []HandlerKeepsItsSession
  BY Invariance, PTL DEF IInv

\* A recycled object carries no Player of an earlier connection, although
\* InitSession never clears m_Player.
THEOREM PlayerSafe == Spec => []PlayerOfThisConnection
  BY Invariance, PTL DEF IInv

\* Live sessions have distinct, issued UIDs.
THEOREM UidSafe == Spec => []UidUnique
<1>1. IInv => UidUnique
  <2> SUFFICES ASSUME IInv, NEW o \in sessions, NEW p \in sessions
               PROVE  uid[o] \in 0 .. nextUid - 1 /\ (uid[o] = uid[p] => o = p)
    BY DEF UidUnique
  <2>1. o \in Obj /\ p \in Obj
    BY DEF IInv, TypeOK
  <2>2. uid[o] \in Uid
    BY <2>1, OwnedHasUid DEF Referenced
  <2>3. QED
    BY <2>1, <2>2, ConstantsOK DEF IInv, TypeOK, UidsIssued, UidsDistinct, Uid, NoUid
<1>2. QED
  BY <1>1, Invariance, PTL

\* An entry of an issued UID goes, but does not change hands.
LEMMA EntryStays ==
  ASSUME IInv, Next, NEW u \in Uid, u < nextUid
  PROVE  registry'[u] \in {registry[u], NoObj}
<1>1. ASSUME NEW t \in IoThread, IoStep(t) PROVE registry'[u] \in {registry[u], NoObj}
  <2>1. CASE \E o \in Obj : HandleAccept(t, o)
    BY <2>1, ConstantsOK DEF IInv, TypeOK, HandleAccept, Uid
  <2>2. CASE ~ \E o \in Obj : HandleAccept(t, o)
    BY <1>1, <2>2 DEF IoStep, PoolExhausted, ReadPacket, ReadFails, ReadOverflows,
                      WriteDone, WriteFails, MarkAndPush
  <2>3. QED
    BY <2>1, <2>2
<1>2. ASSUME NEW k \in TaskThread, TaskStep(k) PROVE registry'[u] \in {registry[u], NoObj}
  BY <1>2 DEF IInv, TypeOK, TaskStep, TaskPop, CloseBegin, CloseEnd
<1>3. ASSUME NEW w \in Worker, RouterStep(w) PROVE registry'[u] \in {registry[u], NoObj}
  BY <1>3 DEF RouterStep, RouterPop, HandleLogin, HandleDummy, HandleChat
<1>4. ASSUME NEW o \in Obj, PeerCloses(o) PROVE registry'[u] \in {registry[u], NoObj}
  BY <1>4 DEF PeerCloses
<1>5. QED
  BY <1>1, <1>2, <1>3, <1>4 DEF Next

\* A UID, once gone from the SessionManager, never comes back and an entry
\* never changes hands: only an unissued UID is ever registered.
THEOREM DeadUidSafe == Spec => DeadUidStaysDead
<1>1. IInv /\ [Next]_vars =>
        [\A u \in Uid : u < nextUid => registry'[u] \in {registry[u], NoObj}]_vars
  BY EntryStays
<1>2. QED
  BY <1>1, Invariance, PTL DEF Spec, DeadUidStaysDead

-----------------------------------------------------------------------------
(* Who notices that a connection is lost *)

\* A thread is in ProcessDisconnect for o, past the test of m_NetState.
Marking(o) == \E t \in IoThread : io[t].pc = "mark" /\ io[t].obj = o

\* A session whose flag is clear has a read armed, whose failure will set it, or
\* a thread about to set it.
Watched == \A o \in sessions : netState[o] = "None" => o \in readArmed \/ Marking(o)

\* Session u has a Disconnect task that waits, or that was taken and finds it.
Condemned(u) ==
  \/ \E i \in 1 .. Len(tasks) : tasks[i] = u
  \/ \E k \in TaskThread : tasker[k].pc = "close" /\ tasker[k].obj = registry[u]

\* A session whose flag is clear, or that is condemned, stays so until it is out of
\* the SessionManager.
NoticeKept ==
  [][\A u \in Uid :
       registry[u] # NoObj /\ (netState[registry[u]] = "None" \/ Condemned(u)) =>
         \/ registry'[u] = NoObj
         \/ netState'[registry'[u]] = "None" \/ Condemned(u)']_vars

\* ProcessDisconnect marks an object whose flag is clear; other threads go on.
LEMMA StartMarks ==
  ASSUME TypeOK, NEW t \in IoThread, NEW o \in Obj, NEW r, io[t] = IdleIo,
         StartDisconnect(t, o, r)
  PROVE  /\ netState[o] = "None" => Marking(o)'
         /\ \A p \in Obj : Marking(p) => Marking(p)'
<1>1. io[t].pc = "idle" /\ DOMAIN io = IoThread /\ "None" # "Disconnect"
  BY DEF IdleIo, TypeOK
<1>2. CASE netState[o] = "Disconnect"
  BY <1>1, <1>2 DEF StartDisconnect, Marking
<1>3. CASE netState[o] # "Disconnect"
  <2>1. /\ io'[t] = [pc |-> "mark", obj |-> o, rearm |-> r]
        /\ \A u \in IoThread \ {t} : io'[u] = io[u]
    BY <1>1, <1>3 DEF StartDisconnect
  <2>2. Marking(o)'
    <3>1. io'[t].pc = "mark" /\ io'[t].obj = o
      BY <2>1
    <3>2. QED
      BY <3>1 DEF Marking
  <2>3. ASSUME NEW p \in Obj, Marking(p) PROVE Marking(p)'
    <3>1. PICK u \in IoThread : io[u].pc = "mark" /\ io[u].obj = p
      BY <2>3 DEF Marking
    <3>2. u # t
      BY <1>1, <3>1
    <3>3. QED
      BY <2>1, <3>1, <3>2 DEF Marking
  <2>4. QED
    BY <2>2, <2>3
<1>4. QED
  BY <1>2, <1>3

LEMMA StepWatched == ASSUME IInv, Watched, Next PROVE Watched'
<1>0. TypeOK
  BY DEF IInv
<1>1. CASE /\ sessions' \subseteq sessions
           /\ UNCHANGED <<netState, readArmed, io>>
  BY <1>1 DEF Watched, Marking
<1>2. ASSUME NEW t \in IoThread, NEW p \in Obj, HandleAccept(t, p) PROVE Watched'
  BY <1>2 DEF HandleAccept, Watched, Marking
<1>3. ASSUME NEW t \in IoThread, NEW p \in Obj,
             ReadFails(t, p) \/ ReadOverflows(t, p) \/ WriteFails(t, p)
      PROVE  Watched'
  <2>1. PICK r : StartDisconnect(t, p, r)
    BY <1>3 DEF ReadFails, ReadOverflows, WriteFails
  <2>2. /\ io[t] = IdleIo /\ UNCHANGED <<sessions, netState>>
        /\ \A o \in readArmed \ {p} : o \in readArmed'
    BY <1>3 DEF ReadFails, ReadOverflows, WriteFails
  <2>3. /\ netState[p] = "None" => Marking(p)'
        /\ \A o \in Obj : Marking(o) => Marking(o)'
    BY <1>0, <2>1, <2>2, StartMarks
  <2>4. sessions \subseteq Obj
    BY <1>0 DEF TypeOK
  <2>5. QED
    BY <2>2, <2>3, <2>4 DEF Watched
<1>4. ASSUME NEW t \in IoThread, NEW p \in Obj, MarkAndPush(t, p) PROVE Watched'
  <2>1. /\ io[t].obj = p /\ io' = [io EXCEPT ![t] = IdleIo]
        /\ netState' = [netState EXCEPT ![p] = "Disconnect"]
        /\ readArmed \subseteq readArmed' /\ sessions' = sessions
    BY <1>4 DEF MarkAndPush
  <2>2. SUFFICES ASSUME NEW o \in sessions, netState'[o] = "None"
                 PROVE  o \in readArmed' \/ Marking(o)'
    BY <2>1 DEF Watched
  <2>3. o \in Obj /\ o # p /\ netState[o] = "None"
    BY <1>0, <2>1, <2>2 DEF TypeOK
  <2>4. CASE o \in readArmed
    BY <2>1, <2>4
  <2>5. CASE Marking(o)
    <3>1. PICK u \in IoThread : io[u].pc = "mark" /\ io[u].obj = o
      BY <2>5 DEF Marking
    <3>2. io'[u] = io[u]
      BY <1>0, <2>1, <2>3, <3>1 DEF TypeOK
    <3>3. QED
      BY <3>1, <3>2 DEF Marking
  <2>6. QED
    BY <2>3, <2>4, <2>5 DEF Watched
<1>5. ASSUME NEW t \in IoThread, IoStep(t) PROVE Watched'
  <2>1. ASSUME NEW o \in Obj, ReadPacket(t, o) \/ WriteDone(t, o) PROVE Watched'
    BY <1>1, <2>1 DEF ReadPacket, WriteDone
  <2>2. CASE PoolExhausted(t)
    BY <1>1, <2>2 DEF PoolExhausted
  <2>3. QED
    BY <1>2, <1>3, <1>4, <1>5, <2>1, <2>2 DEF IoStep
<1>6. ASSUME NEW k \in TaskThread, TaskStep(k) PROVE Watched'
  BY <1>1, <1>6 DEF TaskStep, TaskPop, CloseBegin, CloseEnd
<1>7. ASSUME NEW w \in Worker, RouterStep(w) PROVE Watched'
  BY <1>1, <1>7 DEF RouterStep, RouterPop, HandleLogin, HandleDummy, HandleChat
<1>8. ASSUME NEW o \in Obj, PeerCloses(o) PROVE Watched'
  BY <1>1, <1>8 DEF PeerCloses
<1>9. QED
  BY <1>5, <1>6, <1>7, <1>8 DEF Next

\* A task that waits is still there after a step, or was taken.
LEMMA TaskStays ==
  ASSUME NEW q \in Seq(Uid), NEW i \in 1 .. Len(q), q # <<>>
  PROVE  /\ i = 1 => q[i] = Head(q)
         /\ i # 1 => i - 1 \in 1 .. Len(Tail(q)) /\ Tail(q)[i - 1] = q[i]
         /\ \A x : i \in 1 .. Len(Append(q, x)) /\ Append(q, x)[i] = q[i]
  OBVIOUS

\* Of a session that stays registered, the condemnation stays.
LEMMA CondemnedStays ==
  ASSUME IInv, Next, NEW u \in Uid, registry[u] # NoObj, registry'[u] = registry[u], Condemned(u)
  PROVE  Condemned(u)'
<1> DEFINE o == registry[u]
<1>1. /\ TypeOK /\ tasks \in Seq(Uid) /\ DOMAIN tasker = TaskThread /\ o \in Obj
      /\ uid[o] = u
  BY DEF IInv, TypeOK, RegistryCoherent, Maybe
<1>2. CASE tasks' = tasks /\ tasker' = tasker
  BY <1>2 DEF Condemned
<1>3. ASSUME NEW t \in IoThread, NEW p \in Obj, MarkAndPush(t, p) PROVE Condemned(u)'
  <2>1. tasks' = Append(tasks, uid[p]) /\ tasker' = tasker
    BY <1>3 DEF MarkAndPush
  <2>2. CASE \E i \in 1 .. Len(tasks) : tasks[i] = u
    <3>1. PICK i \in 1 .. Len(tasks) : tasks[i] = u
      BY <2>2
    <3>2. i \in 1 .. Len(tasks') /\ tasks'[i] = u
      BY <1>1, <2>1, <3>1
    <3>3. QED
      BY <3>2 DEF Condemned
  <2>3. CASE ~ \E i \in 1 .. Len(tasks) : tasks[i] = u
    BY <2>1, <2>3 DEF Condemned
  <2>4. QED
    BY <2>2, <2>3
<1>4. ASSUME NEW k \in TaskThread, TaskPop(k) PROVE Condemned(u)'
  <2>1. /\ tasker[k].pc = "idle" /\ tasks # <<>> /\ tasks' = Tail(tasks)
        /\ \A j \in TaskThread \ {k} : tasker'[j] = tasker[j]
    BY <1>1, <1>4 DEF TaskPop, IdleTasker
  <2>2. CASE \E i \in 1 .. Len(tasks) : tasks[i] = u
    <3>1. PICK i \in 1 .. Len(tasks) : tasks[i] = u
      BY <2>2
    <3>2. CASE i = 1
      <4>1. Head(tasks) = u
        BY <1>1, <2>1, <3>1, <3>2, TaskStays
      <4>2. tasker' = [tasker EXCEPT ![k] = [pc |-> "close", obj |-> o]]
        BY <1>4, <4>1 DEF TaskPop
      <4>3. tasker'[k] = [pc |-> "close", obj |-> o]
        BY <1>1, <4>2
      <4>4. tasker'[k].pc = "close" /\ tasker'[k].obj = registry'[u]
        BY <4>3
      <4>5. QED
        BY <4>4 DEF Condemned
    <3>3. CASE i # 1
      <4>1. i - 1 \in 1 .. Len(tasks') /\ tasks'[i - 1] = u
        BY <1>1, <2>1, <3>1, <3>3, TaskStays
      <4>2. QED
        BY <4>1 DEF Condemned
    <3>4. QED
      BY <3>2, <3>3
  <2>3. CASE \E j \in TaskThread : tasker[j].pc = "close" /\ tasker[j].obj = o
    BY <2>1, <2>3 DEF Condemned
  <2>4. QED
    BY <2>2, <2>3 DEF Condemned
<1>5. ASSUME NEW k \in TaskThread, NEW p \in Obj, CloseBegin(k, p) \/ CloseEnd(k, p)
      PROVE  Condemned(u)'
  <2>1. tasks' = tasks /\ \A j \in TaskThread \ {k} : tasker'[j] = tasker[j]
    BY <1>1, <1>5 DEF CloseBegin, CloseEnd
  <2>2. ~(tasker[k].pc = "close" /\ tasker[k].obj = o)
    <3>1. CASE CloseBegin(k, p)
      <4>1. registry' = [registry EXCEPT ![uid[p]] = NoObj] /\ tasker[k].obj = p
        BY <3>1 DEF CloseBegin
      <4>2. p # o
        BY <1>1, <4>1 DEF TypeOK
      <4>3. QED
        BY <4>1, <4>2
    <3>2. CASE CloseEnd(k, p)
      BY <3>2 DEF CloseEnd
    <3>3. QED
      BY <1>5, <3>1, <3>2
  <2>3. QED
    BY <2>1, <2>2 DEF Condemned
<1>6. ASSUME NEW t \in IoThread, IoStep(t) PROVE Condemned(u)'
  <2>1. CASE \E p \in Obj : MarkAndPush(t, p)
    BY <1>3, <2>1
  <2>2. CASE ~ \E p \in Obj : MarkAndPush(t, p)
    BY <1>2, <1>6, <2>2, Zenon DEF IoStep, HandleAccept, PoolExhausted, ReadPacket, ReadFails,
                            ReadOverflows, WriteDone, WriteFails
  <2>3. QED
    BY <2>1, <2>2
<1>7. ASSUME NEW k \in TaskThread, TaskStep(k) PROVE Condemned(u)'
  BY <1>4, <1>5, <1>7 DEF TaskStep
<1>8. ASSUME NEW w \in Worker, RouterStep(w) PROVE Condemned(u)'
  BY <1>2, <1>8 DEF RouterStep, RouterPop, HandleLogin, HandleDummy, HandleChat
<1>9. ASSUME NEW p \in Obj, PeerCloses(p) PROVE Condemned(u)'
  BY <1>2, <1>9 DEF PeerCloses
<1>10. QED
  BY <1>6, <1>7, <1>8, <1>9 DEF Next

\* The flag of a registered session is set together with its task.
LEMMA FlagCondemns ==
  ASSUME IInv, Next, NEW u \in Uid, registry[u] # NoObj, registry'[u] = registry[u],
         netState[registry[u]] = "None"
  PROVE  netState'[registry[u]] = "None" \/ Condemned(u)'
<1> DEFINE o == registry[u]
<1>1. TypeOK /\ tasks \in Seq(Uid) /\ o \in Obj /\ uid[o] = u
  BY DEF IInv, TypeOK, RegistryCoherent, Maybe
<1>2. ASSUME NEW t \in IoThread, NEW p \in Obj, MarkAndPush(t, p)
      PROVE  netState'[o] = "None" \/ Condemned(u)'
  <2>1. tasks' = Append(tasks, uid[p]) /\ netState' = [netState EXCEPT ![p] = "Disconnect"]
    BY <1>2 DEF MarkAndPush
  <2>2. CASE p = o
    <3>1. Len(tasks) + 1 \in 1 .. Len(tasks') /\ tasks'[Len(tasks) + 1] = u
      BY <1>1, <2>1, <2>2
    <3>2. QED
      BY <3>1 DEF Condemned
  <2>3. CASE p # o
    BY <1>1, <2>1, <2>3 DEF TypeOK
  <2>4. QED
    BY <2>2, <2>3
<1>3. ASSUME NEW t \in IoThread, IoStep(t) PROVE netState'[o] = "None" \/ Condemned(u)'
  <2>1. CASE \E p \in Obj : MarkAndPush(t, p)
    BY <1>2, <2>1
  <2>2. CASE ~ \E p \in Obj : MarkAndPush(t, p)
    BY <1>3, <2>2 DEF IoStep, HandleAccept, PoolExhausted, ReadPacket, ReadFails,
                      ReadOverflows, WriteDone, WriteFails
  <2>3. QED
    BY <2>1, <2>2
<1>4. ASSUME NEW k \in TaskThread, TaskStep(k) PROVE netState' = netState
  BY <1>4 DEF TaskStep, TaskPop, CloseBegin, CloseEnd
<1>5. ASSUME NEW w \in Worker, RouterStep(w) PROVE netState' = netState
  BY <1>5 DEF RouterStep, RouterPop, HandleLogin, HandleDummy, HandleChat
<1>6. ASSUME NEW p \in Obj, PeerCloses(p) PROVE netState' = netState
  BY <1>6 DEF PeerCloses
<1>7. QED
  BY <1>3, <1>4, <1>5, <1>6 DEF Next

\* The loss of a connection is not forgotten, whatever completes, closes, accepts
\* and recycles meanwhile: while m_NetState of a session is clear, a read is armed
\* or a thread is in ProcessDisconnect; whoever sets it pushes the session's
\* Disconnect task; and that waits or is carried out until OnDisconnected has taken
\* the session out of the SessionManager.
THEOREM LossIsKept == Spec => []Watched /\ NoticeKept
<1>1. Init => Watched
  BY DEF Init, Watched
<1>2. IInv /\ Watched /\ [Next]_vars => Watched'
  <2>1. ASSUME Watched, UNCHANGED vars PROVE Watched'
    BY <2>1 DEF vars, Watched, Marking
  <2>2. QED
    BY <2>1, StepWatched
<1>3. IInv /\ [Next]_vars =>
        [\A u \in Uid :
           registry[u] # NoObj /\ (netState[registry[u]] = "None" \/ Condemned(u)) =>
             \/ registry'[u] = NoObj
             \/ netState'[registry'[u]] = "None" \/ Condemned(u)']_vars
  <2> SUFFICES ASSUME IInv, Next, NEW u \in Uid, registry[u] # NoObj,
                      netState[registry[u]] = "None" \/ Condemned(u), registry'[u] # NoObj
               PROVE  netState'[registry'[u]] = "None" \/ Condemned(u)'
    OBVIOUS
  <2>1. u < nextUid
    BY ConstantsOK DEF IInv, TypeOK, UnissuedIsFree, Uid
  <2>2. registry'[u] = registry[u]
    BY <2>1, EntryStays
  <2>3. QED
    BY <2>2, CondemnedStays, FlagCondemns
<1>4. QED
  BY <1>1, <1>2, <1>3, Invariance, PTL DEF Spec, NoticeKept

=============================================================================
