# ProjectYJ in TLA+

A model of the chat server of this repository (`src/ServerCore`, `src/GameServer`) and of
what its clients (`src/Client`) send it. TLC checks the modules on small instances, TLAPS
proves the main safety properties for every instance. Paths below are relative to `src/`.

## 1. The system

### Components, their state and operations

| Component | State | Operations | What makes it correct |
|---|---|---|---|
| `AsioAcceptor`, `AsioService` | `m_Sessions`, `m_SessionCount`, `m_SessionUID`, `m_Mutex` | `HandleAccept`, `CreateSession`, `AddSession`, `ReleaseSession`, `CloseService` | one live session per UID, the count is the size of the set |
| `ObjectPool<GameSession>` | a stack of free objects, `m_Mutex` | `InitPool`, `Pop`, `Push` (the deleter of the `shared_ptr`) | an object handed out has no owner left |
| `AsioSession` / `GameSession` | `m_Socket`, `m_SessionUID`, `m_NetState`, `m_PacketBuffer`, `m_Player`, `m_Mutex` | `InitSession`, `ProcessRecv`, `HandleRead`, `ProcessPacket`, `Send`, `HandleWrite`, `ProcessDisconnect`, `CloseSession`, `Disconnect`, `Reset` | closed once, not used for another connection while something holds it |
| `SessionManager` | map UID -> session, `m_Mutex` | `AddSession`, `RemoveSession`, `GetSession` | a UID leads to its own session or to none |
| `TaskQueue` | `m_TaskQueue`, worker threads, `m_IsRunning` | `PushTask`, `WorkerThread`, `ProcessIoTask`, `Initialize`, `Shutdown` | every disconnect is carried out, on the right session |
| `PacketRouter`, `PacketProcessor` | one queue and thread per worker | `Dispatch`, `Run`, `Init`, `Shutdown` | a session's packets are handled in order, by one thread |
| `NetworkHandler`, `SessionPacketBuffer`, `PacketBuffer` | a buffer with two positions per UID | `RecvData`, `AddData`, `ProcessSessionBuffer`, `OnWrite`, `OnRead`, `Clear` | packets are cut at their boundaries, and their bytes live until they are handled |
| `PacketHandler` (`ClientPacketHandler`) | handler table | the `Handle...Req` functions, `MakePacket` | handlers find the player and the room they expect |
| `ChatRoomManager`, `ChatRoom` | directory of rooms, members of a room, a mutex each | `CreateRoom`, `GetRoom`, `GetAllRoom`, `Enter`, `Leave`, `BroadCast` | all members see one conversation |
| `PacketPool` | a concurrent queue and three counters | `Init`, `Pop`, `Push`, `Clear` | counters match the queue |
| `GameServer` main | threads, `g_IsRunning` | start, the input thread's shutdown | everything stops |
| Client windows, `ClientSession`, `ClientManager` | windows, stress-test run state | login, lobby, chat; dummy packets | requests follow the server's answers |

### Threads and how the parts meet

* *asio threads* (`ThreadCnt`, default 4, in `io_context::run`) run `HandleAccept`, `HandleRead`
  and `HandleWrite` in parallel. One session has at most one read armed, but any number of
  writes, so two of its completion handlers may run at once.
* *TaskQueue workers* (half the cores) run `CloseSession` for the Disconnect tasks
  `ProcessDisconnect` pushed. A task holds a UID, not a pointer.
* *PacketRouter workers* (half the cores) run the packet handlers. An item holds a UID and a
  raw address into the session's buffer. UID modulo the number of workers picks the worker.
* *the input thread* shuts the server down.

The hard behaviours are therefore: a UID or an address that is used after what it stood for
was closed, recycled or overwritten; check-then-act races between two completions; one slow
thread and one fast one; a full buffer or an empty pool; a connection that ends at any moment.
`PROJECT.json` lists each hazard at its line with the property that covers it, or with the reason
why none does.

## 2. Modules

| Module | Models | Status |
|---|---|---|
| `SessionLifecycle` | sessions from accept to recycling, over all four kinds of threads | checked, proved |
| `RecvBuffer` | one session's inbound bytes, framing, and the worker that reads them | checked, proved |
| `PacketChannel` | abstract: what the inbound path promises a worker; `RecvBuffer` implements it | checked, proved |
| `ChatRooms` | the chat handlers on parallel workers | checked, proved |
| `ChatService` | abstract: what the chat server promises its clients; `ChatRooms` implements it | checked, proved |
| `SendPath` | packets on their way out: `MakePacket`, `Send`, `HandleWrite`, the `PacketPool` | checked, proved |
| `ServiceShutdown` | start and shutdown: main, input thread, TaskQueue workers, two kinds of mutexes | checked, proved |
| `StressClient` | the client's stress test: connecting threads, `ClientManager`, a condition variable | checked, proved |
| `MC...` | constants of the TLC runs | |
| `SessionLifecycleProofs`, `SessionLoginProofs`, `RecvBufferProofs`, `ChatRoomsProofs`, `ChatServiceProofs`, `SendPathProofs`, `ServiceShutdownProofs`, `StressClientProofs` | theorems | |

The models cut the system where its parts share little. `SessionLifecycle` has packets
without content (only their kind) and any set of logged-in sessions as the target of a
broadcast; `RecvBuffer` has one session's bytes and takes closing as one step; `ChatRooms` has
sessions that never are recycled, which `SessionLifecycle` justifies: a session that logged in
is kept by its player for ever (`PlayerOfThisConnection`, the `players[o] # {}` disjunct of
`Referenced`). `ServiceShutdown` keeps of a session only where it is listed and who locks it,
`SendPath` of a session nothing: who sends and when is the other modules' matter. `ChatRooms`
records each `Send` as an entry of `out`; `SendPath` is what one `Send` does.

`SendPath` and `StressClient` are two ends of the same traffic: the server's handlers and the
client's threads call the same `MakePacket` and `Send` (`ServerCore` is shared), and a dummy
packet of `StressClient` arrives as `HandleDummy` in `SessionLifecycle`.

### SessionLifecycle

`Referenced(o)` lists every `shared_ptr` the program keeps to a session object: the service's
set, the SessionManager's map, the bound handlers of the pending read and writes, a handler on
an asio thread, a TaskQueue or router worker's local, and `Player::ownerSession` of the players
in its own `m_Player` (a cycle). `Settle(o)` is the pool's deleter: it runs in whatever step
drops the last reference. `netState` and `players` survive recycling because `InitSession` does
not touch them, and neither does the deleter.

| Action | Code |
|---|---|
| `HandleAccept` | `AsioAcceptor::HandleAccept`, `CreateSession`, `InitSession`, `AddSession`, `OnConnected`, `DoRead` |
| `PoolExhausted` | `ObjectPool::Pop` on an empty pool, which ends the process |
| `ReadPacket`, `ReadFails`, `ReadOverflows` | `HandleRead` with a packet, with an error, with `AddData` failing |
| `WriteDone`, `WriteFails` | `HandleWrite` |
| `StartDisconnect`, `MarkAndPush` | `ProcessDisconnect` before and after its unprotected test |
| `TaskPop`, `CloseBegin`, `CloseEnd` | `ProcessIoTask`'s lookup, `CloseSession` under the session's mutex |
| `RouterPop`, `HandleLogin`, `HandleDummy`, `HandleChat` | `PacketProcessor::Run` and three handlers |
| `PeerCloses` | the other end |

A read that fails is enabled once the link is lost or closed; a read that succeeded before is
still delivered after, so `ReadPacket` does not test the link. `ReadOverflows` needs an earlier
packet, because an empty buffer holds any read; it abstracts from how full the buffer is.
`SendTo` refuses a write beyond `MaxWrite`, which only delays a handler.

#### Grain of atomicity

One action stands for several statements where no other thread can tell the difference:

* `HandleAccept`: the object is reachable by others only from `AddSession` (the set, which
  nothing but shutdown iterates) and from `OnConnected` on. It has no read armed, so no task and
  no packet names its UID, before `DoRead`, the last call. `MaxConn` bounds accepts; accepts of
  the real code never overlap, since `DoAccept` comes last.
* `MarkAndPush`: between `SetNetState` and `push` another completion of the session can only see
  the flag set and do nothing, as it does after the action.
* `TaskPop`, `RouterPop`: between `try_pop` and `GetSession` the worker holds a UID only. A close
  in between is the same as a close before the pop.
* `CloseBegin`, `CloseEnd`: both under the session's mutex; `RemoveSession` is apart from the
  rest because router workers look sessions up meanwhile.
* Handlers: their effects on the session are one `push_back` or a number of `Send`s. Only a
  session's own worker touches its `m_Player`.

### RecvBuffer

A byte is its position in the stream, a packet the interval it covers, so "these are that
packet's bytes" is an equation. `AddData` is `HandleRead` with `RecvData` and `AddData`;
`Frame` is one round of `ProcessPacket`'s loop (its `Dispatch` makes each packet visible to the
worker at once); `Finish` is the rest of `ProcessSessionBuffer` with `OnRead` and `Clear`.
`Pop`, `ReadHeader` and `ReadPayload` are the worker, in three steps because nothing protects
the bytes while it reads them. What is read where no header is, is any number in `Garbage`; a
0 makes the loop spin (`pc = "spin"`), as in the code. `closing`, `registered` are
`ProcessDisconnect` and the close by a TaskQueue worker. `dispatched`, `handled`, `dropped`,
`garbled`, `lost` and `epoch` are history and guard nothing; `first` and `epoch` of an item
remember what was queued.

The session's own `m_PacketBuffer` is drained (`OnRead` of everything, `Clear`) in every
`HandleRead`, so its free space is constant and its first `OnWrite` never fails; it only limits
the length of a read. `HandleRead` copies before it hands on, so nothing else sees it.

### ChatRooms

`Takes`, `CreateRoom`, `StartEnter`, `Enter`, `SendAck`, `StartChat`, `Lock`, `SendNext`,
`Unlock`, `StartList`, `ReadRoom`, `SendList` are the handlers cut at every mutex and every
`Send`. `HandleChatRoomListReq` copies the directory, then reads the rooms one by one while other
workers change them, then sends. A handler's lookup in the
directory is its own critical section in the code and the first step here, together with taking
the packet. `members[r]` is the multimap as BroadCast visits it, by key and then in the order of
insertion (`WithEntry`); an entry's key is the player's `m_ChatRoomID` at that time, which is a
stale number after a create. Rooms are numbered as they are made, and their IDs are those
numbers modulo `RoomMod` (2^16 in the code).
`HandleEnterChatRoomReq`, `HandleCreateChatRoomReq` and `HandleChatReq` end without a `return`:
undefined by the standard, ignored by the callers in the build; the model lets them end.
Clients ask for a room only from a list the server sent (rooms are never removed, so a listed
room exists) and chat only in the window an `EnterChatRoomAck` opened.

`ChatService` is the same seen by the clients: no workers, mutexes, room IDs, directory or entries.
A session's oldest request is served, one at a time (`Begin`), or lost when its connection is gone
(`Lose`); a create or an enter leads into some room (`ComeIn`) and is answered by a session that is
inside; a chat message is spoken by a session inside, in a room nobody else speaks in, heard by one
session inside after the other (`Hear`; a session with two entries hears twice), and over when all
inside have heard it (`Finish`). The mapping in `ChatRooms` reads `serving` off the worker's handler,
`inside` off the entries, `speaker` and `heard` off the holder of the room's mutex and the entries it
has passed. Which room a request leads into is `ChatRooms`' matter (IDs, `m_ChatRoomID`).

### ServiceShutdown

`main` goes through `Initialize` (`InitializeBegin`, `Spawn` for each thread), starts the asio
threads, joins them, joins the input thread and returns, which runs the TaskQueue's destructor.
The input thread's `Command` comes at any time, also before or during `Initialize`; it closes
the acceptor, and `LockService`, `Disconnect`, `RelockService` and `ServiceClosed` are
`CloseService`, `ShutdownQueue` and `JoinWorkers` are `TaskQueue::Shutdown`. A worker's
`CloseBegin` and `CloseEnd` hold the session's mutex between them. `AcceptEnd` waits for the
service's mutex in `AddSession`.

`RelockService` ends the process: `ReleaseSession` locks a `std::mutex` its thread owns, which
MSVC's library answers with an exception, and the input thread catches none. So neither `Reset`
nor a second round of the loop has a state to be reached in, and they have no action.
`Spawn` beside Shutdown's loop over `m_WorkerThreads` is a data race: the thread is joined, or
missed, or the process crashes. A thread that was missed is destroyed joinable at exit, which
terminates the process (`Exit`, last disjunct).
In `At("disconnect", s)` the socket is closed and `OnDisconnected` called a second time, which
changes nothing. An accept that `CloseService` interrupts between `AddSession` and
`OnConnected` is not told from one that is complete: the process ends or hangs either way.

### SendPath

`MakePacket` takes a packet from the pool, drops it and builds its own. A message that cannot be
serialised makes it return before it takes one, and the handler sends the empty `Packet` it gets
then (`ClientPacketHandler.cpp:117-119`): the second disjunct, as with an empty queue. `PopPacket` and
`StartWrite` are `Send`. After a `Send` the handler is over (`LastSend`), or `ChatRoom::BroadCast` sends the
next copy of the same packet without another `MakePacket` (`NextCopy`; each copy is a member of `Msg`,
and a client's thread never takes it). `HandleWrite`, `PushPacket`, `PushCount` are the completion
handler, `ClearPop` and `ClearZero` the shutdown's `PacketPool::Clear`. `PacketPool` has no lock: the queue
(a Concurrency Runtime queue) and `m_AvailableCount` are atomic one by one, so every access to
either is a step. `Push` counts down where one expects it to count up (`Pool.h:147`); the model
counts as the code does, modulo `Wrap` for the `size_t`. `Held(p)` lists the `shared_ptr`s to a
Packet: what it holds is not allocated anew. `WriteKeepsBytes` is the promise `async_write`
asks of its caller. `m_UseConut` and `m_TotalCount` are only logged and left out.

### StressClient

A `ConnectThread` makes its sessions (`MakeSession`), then runs `DummyClientProcess`: `Look` is the
predicate of `m_cv.wait`, `TestRun` and `Switch` are the loop's two reads without the mutex,
`Prepare` and `SendBegin`, `SendOne`, `SendEnd` the two cases some code leads to. `Prepare` and
`Look` are one step each because they hold `m_Mutex` throughout and call nothing; the case Send
is cut at each `Send`. `Connected` is the connect handler with `OnConnected` and
`ClientManager::Init` on an asio thread; it waits for the mutex (`Free`). `SpuriousWakeup` is what
a condition variable may always do. Reading the plain `bool` `run` beside its assignment is a data
race; a byte read in a loop that locks mutexes yields the old or the new value in the build,
which is what the interleaving gives.

The test has one round: nothing sets `run` again after the first case Send. A thread that comes
to `m_cv.wait` only then sleeps for ever, as do all threads when one connection fails; main,
which joins them when the window is closed, then hangs. `LoadRuns` leaves the first to the code
and says that no thread stays in the loop; `NoLostWakeup` that none sleeps through the start.

## 3. Runs

| Run | Instance | Shows |
|---|---|---|
| `session_safety` | 2 objects, 2 threads of each kind, 3 connections, 2 packets each, 1 write in flight | six invariants, the type invariant and `DeadUidStaysDead` |
| `session_one_tasker` | the same with one TaskQueue and one router worker, 2 connections | `CountExact`, `LossIsNoticed` |
| `session_recycled_flag` | as `session_safety`, without symmetry | a recycled session starts with the flag of the old one |
| `recv_framing` | buffer of 9 bytes, reads of up to 9, packets of 2, 3, 3, 2 and 3 bytes with a 2-byte header | framing, addresses, handling, `ImplementsChannel` |
| `recv_clear`, `recv_overwritten`, `recv_early_close` | buffer of 6 bytes | one divergence each |
| `chat` | 2 players on 2 workers, 2 rooms, 3 and 2 requests | order, membership, lists, progress, `ImplementsService` |
| `send` | pool of 2, 4 messages, 5 Packets, 2 senders, 2 asio threads | Packets and the pool's counter |
| `stress` | 2 threads with 2 sessions each | start, load and end of the stress test's round |
| `shutdown` | 2 sessions, 2 workers, 2 error completions each | stopping, joining, the two mutexes |
| `shutdown_clear` | the same with 1 session | a shutdown with a session left does not come through |

*Bounds.* Two objects and three connections force recycling while another session lives, with
both disconnect races on the recycled object; two threads of each kind are what a race takes,
and no condition in the code counts to three. `MaxRead = 2` gives login then chat, and an
overflow behind an earlier packet. In `RecvBuffer`, with a capacity of three buffer sizes
(the code has ten) all branches of `Clear`, an `OnWrite` that fails, headers and packets split
over reads, several packets in one read, garbage and every overtaking of the worker occur.
In `ChatRooms` two broadcasters meet in one room while one has two messages; `RoomMod = 8` is
above the number of rooms and of users, as 2^16 is for any server the code is meant for: with
`MaxRooms >= RoomMod` an ID names two rooms and `SenderIsMember` fails.

`CountExact` is checked with one TaskQueue worker, because the code only keeps the count exact then:
`TaskQueue.h:44` starts half as many as there are cores, so on any machine with four or more
cores two workers may count one session down twice (`AsioSession.cpp:206`), and the count that the
code promises is `CountNeverAbove`.

In `SendPath` four messages drain a pool of two Packets, refill it and reach the queue's limit;
five Packets allow for those in use beside the pool. `Wrap = 32` is more than the counter's
decrements (per `Send` at most one in `MakePacket`, one in `Pop`, one in `Push`), so below zero means near `Wrap`, as in
the code, and never comes back down to `PoolSize`. Two threads in `StressClient` are what a race
on `run` takes, and two sessions each let `Init` of the last session meet threads that sleep,
that are about to, and that still connect.

`MaxEnds = 2` in `ServiceShutdown` has a read and a write fail, and so two workers close one
session while the input thread wants it.

*Deadlock* checking is off: a server whose clients are all gone, or whose bounded clients are
done, stops, and so does a process that ended (`up = FALSE`).

*Symmetry* is used only in `session_safety` (objects, asio threads, TaskQueue workers) and `send`
(Packets, asio threads), which have no liveness property: these are only compared for equality.

*Fairness.* Weak fairness of a completion handler that asio has queued (`ReadFails` per object,
since a failed read completes), of a handler that started, and of each worker that polls (its
`sleep_for(100ms)` loop looks again). Peers, reads that succeed and new connections are not
fair. In `RecvBuffer` the asio thread finishes the handler it is in; a session's packets may
still be dropped, which `ReceivedIsHandled` allows by its disjuncts. In `ChatRooms` each worker
is fair as one process; a mutex is released by its holder, no fairness of locking is assumed
(`RequestsAreHandled` holds with bounded requests: on a contended std::mutex an unbounded
adversary could starve a worker). In `StressClient` each ConnectThread runs on (the mutex is
never kept while others could wait for ever: the test has one round); connections are not fair,
and `LoadRuns` starts from connected sessions. In `ServiceShutdown` main, the input thread after
its command, an accept under way and every worker run on.

### What the violation runs show

* `session_recycled_flag`: `ProcessDisconnect` returns early when the flag is set
  (`ServerCore/AsioSession.cpp:45`), but a recycled object starts with the flag set. The second
  connection on an object can never be disconnected and leaks.
* `recv_clear`: `Clear` (`ServerCore/PacketBuffer.cpp:82`) copies the unread bytes to the front
  and sets `m_WritePos = 0`.
* `recv_overwritten`: the queued address (`ServerCore/PacketRouter.cpp:73`) is overwritten by the
  next read after `Clear`; two packets quickly after each other are enough.
* `recv_early_close`: the test that all received data was taken is commented out
  (`ServerCore/TaskQueue.h:121`).
* `shutdown_clear`: `CloseService` (`ServerCore/AsioService.cpp:24`) locks its own mutex again
  through `Disconnect`, or waits for a session whose closing worker waits for that mutex.

## 4. Proofs

The assumptions are those of the modules (`ConstantsOK`, `StartOK`): sets and positive numbers,
a header that fits a buffer, and in `RecvBuffer` a stream of packets that follow one another,
each at least a header and at most a buffer long. `StartOK` spells out that start positions
grow, which would otherwise need induction over the packets.

*SessionLifecycleProofs.* `IInv` = `TypeOK`, `PooledIsUnowned`, `UnnumberedIsPooled` and
`Coherence` (which has `RegistryCoherent`, `HandlerKeepsItsSession`, `PlayerOfThisConnection` and
the parts below). The properties are not inductive alone. That accepting gives an object a UID
no other place knows needs: UIDs in use are below `nextUid` (`UidsIssued`), distinct among
registered or live sessions (`UidsDistinct`), the registry is empty from `nextUid` on
(`UnissuedIsFree`), and an object between `CloseBegin` and `CloseEnd` is out of the registry
(`ReleasingIsUnregistered`). That a worker's session keeps its UID needs that the object is not
in the pool, which is `Referenced`; so `PooledIsUnowned` carries the rest. Each action has a
lemma; two lemmas about `Settle` serve all of them. `DeadUidStaysDead` follows from the same
invariant, step by step. `LossIsKept` is the safety half of `LossIsNoticed`. `Watched`: a live session
whose flag is clear has a read armed, whose failure sets it, or a thread in `ProcessDisconnect` that
will. `NoticeKept`: the thread that sets the flag makes the session `Condemned` in the same step, that
is, its Disconnect task waits or a worker carries it out, and it stays so until `OnDisconnected` has
taken it out of the registry. What is left to TLC is that the armed read, the thread and the workers
get on.

*RecvBufferProofs.* `IInv` = `TypeOK`, `ScanOnlyWhileFraming`, `Contiguous`, `AtPacketStart`,
`ItemsCut` and the two parts of `CutOnce`, `PositionsOK` and `FramedInOrder`. Between two rewinds
the distance between a byte's address and its place in the stream is constant (`StreamPos`);
`Contiguous` says all bytes below the write position lie there, `AtPacketStart` that the next byte
to cut begins packet `dispatched + 1`. `NextPacket` then shows that `ProcessPacket` finds that
packet's header and no other, since starts are distinct. After an overflow or a lossy `Clear`
(`lost`) only types and positions are claimed, which is all the code keeps. `WholeInv` adds what
came whole: outside the framing loop no such packet is left uncut (`NoneLeft`, the second half of
`UnreadIsLatest`; `FrameLeaves` shows that the loop ends with an incomplete packet only), and every
packet that was queued is handled, with the worker or still waits (`NoneForgotten`). Together they
are `ReceivedIsKept`, the safety half of `ReceivedIsHandled`.

`ChannelImplemented` is the refinement `Spec => ImplementsChannel`. `PacketChannel` has neither
buffer nor addresses: bytes are received, the next packet whose last byte is there joins the
queue, the worker takes the oldest. The mapping reads the waiting packets off the queued items'
contents (`PacketOf`: the packet that has the item's first byte and size), so that it would not
hold if an item were anything but a whole packet. `AddData` that fits maps to `Receive`,
`Frame` to `Hand` or a stutter, `Finish` to a stutter, `Pop` to `Take`; a dropped read and a
lossy `Clear` map to `Break`, after which the channel promises nothing. The channel is about
which packets wait; what their bytes are when the worker reads them is `IntactUntilRewind`.

*SessionLoginProofs.* Three properties on top of the invariant above. For `ChatFindsPlayer`, `LoginInv`
says that before every queued chat item (`ChatAfterLogin`), and behind nothing a chat client has
sent (`ReadAfterLogin`), the login of its connection is queued on the same worker, being handled
or handled, or else the UID is out of the SessionManager, from where it does not come back
(`LoginBefore`). It needs that a UID's items are all with one worker (`QueuedWhereOwned`,
`BusyWithOwned`). `CountInv` keeps `m_Sessions` finite and the count at most its cardinality: a
close counts one down and releases one session at most. `CountExact` is false with two TaskQueue
workers, since both may be in `CloseSession` of one session and count it down twice. The theorem
says that this is the only way: `Spec /\ []ClosesAlone => []CountExact`, where `ClosesAlone` is that
no session is being closed by two workers at a time. `ExactInv` adds to the count that the session
a worker closes is still held (`ClosingIsHeld`). With one worker `ClosesAlone` holds by itself, which
is the run's case (`CountExactOneWorker`).

*ChatRoomsProofs.* `IInv` has four parts. `TypeInv` = `TypeOK`, `Working` (what a handler holds at each
place), `RoomsKnown` (a room that is asked for, entered or chatted in is in the directory).
`OrderInv` is about order. `Broadcasting`: a worker that broadcasts has the room's mutex.
`QueueAscends`, `SentFirst`, `OutBefore`: a sender's messages are numbered upwards through outboxes,
handler and queue. `Latest`: nothing of a room follows the message that is being sent in it. With
these, appending a message to one outbox keeps `SenderOrderKept` and `SameOrderForAll`. `Told` (who
was told it has entered has an entry) and `Heard` (the entries a broadcast has passed have its
message) carry `ToldMembersHear`. `HomeInv` = `OwnIDs`, `EnterHome`, `AtHome`, `SenderIsMember` follows
the room ID of a player through create and enter; it assumes `MaxRooms < RoomMod`. `HoldersSend` is
the safety half of `RequestsAreHandled`: the worker that has a room's mutex is in its broadcast and
not past the room's entries, which nobody changes meanwhile, so its next send or unlock is possible.

*ChatServiceProofs.* `ServiceImplemented` is the refinement `Spec => ImplementsService`, with
`MaxRooms < RoomMod`: an ID that has wrapped leads a speaker into a room it is not in. Each action
has a lemma: taking a request maps to `Begin`, `Enter` to `ComeIn`, `SendAck` and `SendList` to `Answer`,
`Lock` to `Speak`, `SendNext` to `Hear`, `Unlock` to `Finish`, `ReadRoom` to a stutter. The invariant
is `ServiceInv` = `IInv`, `HomeInv`, `HoldersSend`, `AtRest`. `SenderIsMember` (in `HomeInv`) makes the
speaker one that is inside, `Told` does so for who is told it entered. `HoldersSend` says that what is
being said in a room is the message of the one worker in its mutex, so that steps of the other
workers change neither `speaker` nor `heard` (`RoomsStay`); with `Free`, nobody comes in meanwhile, so
the entries passed at `Unlock` are all who are inside. `AtRest` says that a handler that ended leaves
nothing to the next. That two sessions of one worker are not served at once is `ServedMoves`: the
worker's handler is the only one that can serve them.

`ListsCurrent` is `Spec /\ []FewUsers => []ListsAreCurrent`, with `MaxRooms < RoomMod`:
IDs and user counts (`FewUsers`: less than 2^16 entries in a room) fit their uint16; a wrapped
count would show fewer users. Entries are never taken out and the directory only grows, so what
was sent stays true (`SentFounded`) and so does what a list in the making says (`Founded`). In
`Reading`, the part of a list that is done is not behind anything its session was sent (`UpTo`):
a room that was not in the directory when the list began was never listed nor entered, by
`SentFounded`; a room that is read now has all the users a list has shown, and at least one if the
session was told it entered (`Told`); and until the list is sent its session gets only chat
messages, because the worker that makes it is the session's own (`OnlyChats`).

*SendPathProofs.* `IInv` = `TypeOK`, `StepsHold`, `PoolExclusive`, `WriteKeepsBytes`. `StepsHold` ties what
a thread holds to where it is: a sender has a Packet exactly between `Pop` and the write, `Push`
exactly between its test and its push. A Packet in one place is then in no other.
`PoolCapped` and `AvailableIsThere` need more: both fail when the counter, a size_t that goes below
zero when messages outnumber the pool, is counted down through all its values. `Bounded` excludes
that: the sets are finite and `3 * Cardinality(Msg) + PoolSize < Wrap`, since a message counts down
three times at most (the Pops of `MakePacket` and `Send`, and `Push`; a broadcast's later copies have
no `MakePacket`) and `Clear` takes off at most the
size of the pool. With `Wrap` 2^64 that is no restriction. `CountInv` is three statements about what the
counter was counted down by (`Taken`): `Budget` (with what the messages may still take, it stays
within that bound), `Promised` (`AvailableIsThere` in these terms) and `Capped` (`PoolCapped` with the
Packets about to be pushed; it needs that the Packets are those the pool began with until the queue
first runs empty, `Conserved`, and that from then on every queued one was counted down or is about to
be, `Drained`). `OneChanges` says how the size of a set of threads at some place changes
when one thread moves; each action uses it once or twice.

*StressClientProofs.* `IInv` = `TypeOK`, `Listed`, `RunIsComplete`, `SendIsPrepared`, `AllConnectedFirst`,
`NoLostWakeup`. `run`, the state Send and every place inside the loop imply that all sessions are
in `m_Sessions` (`RunIsComplete`); a session that still connects therefore finds a test that has
not begun (`NotBegun`), which is why `Init` setting the state back to Connect does no harm.
That a set as large as `Session` is `Session` takes the library's facts on finite sets.
For `EvenLoad`, `LoadInv` has who is in the case of the loop (`SenderHolds`: the sending thread has the
mutex) and that for some number K of rounds every session has had K packets, one more if the thread
in the round has passed it; K and the threads that are in the case make at most all threads, since
after the first round no more of them see `run` (`RoundsAre`).

*ServiceShutdownProofs.* `IInv` = `TypeOK` and `JoinOK`. `TypeOK` has the ownership of the mutexes
(`MutexesOK`); `JoinOK` follows the threads: main is past `Initialize` only with all workers
spawned (`AllSpawned`), a worker leaves the vector only when it has ended (`LeftIsJoined`), and
the end of main finds the vector empty (`ExitIsJoined`). The last two theorems are about
waiting. `OnlyDeadlock`: every chain of threads of which each waits for a mutex of the next ends
after two waits, unless `Deadlocked` holds; it follows from the ownership of the mutexes, as a worker
takes a session's before the service's, and the input thread waits for a session only while it
has the service's. `DeadlockStays`: once `Deadlocked`, the input thread takes no step any more and
the process does not end.

*Proved:* `TypeOK`, `PooledIsUnowned`, `RegistryCoherent`, `HandlerKeepsItsSession`,
`PlayerOfThisConnection`, `UidUnique` (which no run repeats, as it follows from the invariant the
others are proved with), `DeadUidStaysDead`, `ChatFindsPlayer`, `CountNeverAbove`, `CountExact`
while no session is closed twice at once (sessions); `TypeOK`, `CutOnce`, `IntactUntilRewind`,
`UnreadIsLatest`, `ImplementsChannel` (inbound bytes); `TypeOK`, `SameOrderForAll`,
`SenderOrderKept`, `ToldMembersHear`, `SenderIsMember`, `ListsAreCurrent`, `HoldersSend`,
`ImplementsService` (chat); `TypeOK`, `PoolExclusive`, `WriteKeepsBytes`, `PoolCapped`,
`AvailableIsThere` (sending); `TypeOK`, `AllConnectedFirst`, `NoLostWakeup`, `EvenLoad` (stress
test); `TypeOK`, `ExitIsClean`, `SweepIsStable`, `WaitsEnd` and that a deadlock stays (shutdown). So
every invariant and action property of the passing runs has a theorem; of the liveness properties
the safety halves of `LossIsNoticed`, `ReceivedIsHandled` and `RequestsAreHandled` have one each
(`LossIsKept`, `ReceivedIsKept`, `HoldersSend`).

*Model-checked only:* the liveness properties (`LossIsNoticed`, `ReceivedIsHandled`,
`RequestsAreHandled`, `LoadRuns`, `CloseFinishes`, `EmptyServerStops`, `ShutdownSettles`), which are
beyond the prover, and what the runs with a violation show.

## 5. State of the plan

All modules of the plan are written, checked and proved about: `SessionLifecycle`, `RecvBuffer`
over `PacketChannel`, `ChatRooms` over `ChatService`, `ServiceShutdown`, `SendPath`, `StressClient`. What
would come next: the safety halves of the liveness properties of `StressClient` and
`ServiceShutdown`.

## 6. Not modelled

* *Leaving a room.* `README.md:14` names it; `ChatRoom::Leave` and `ChatRoomManager::RemoveRoom` have no
  caller. A closed session stays in its rooms and is sent every broadcast.
* *After `Clear`.* `PacketPool::Clear` runs on the server's input thread
  (`GameServer.cpp:37`; in the client on main, `Client.cpp:233`) while senders or completions may go on; the pool
  fills again afterwards. `PoolCapped` stops at `Clear` for this reason.
* *Sizes of messages.* `MakePacket` keeps sizes in 16 bits: a room list of 2^16 bytes or more is not
  serialised; what is sent is empty and the request stays unanswered. Contents, names and UTF-8.
* *The wire.* Two `async_write`s on one socket may overlap; which of their parts goes first is the
  library's.
* *Exit.* What the static destructors find after main deleted the `io_context`, and PacketRouter
  workers, which only a static destructor stops.
* *Client windows.* Also `ClientManager::StopClient`, which the chat window's close calls without the
  mutex; `StressClient` is about a client without chat windows. The states Disconnect, Reconnect and
  Recv are set nowhere.
* *Data races without a model:* torn `std::function`s in the handler table, plain `bool`s. The int32
  UID is a natural number: it would wrap after 2^31 connections. `m_SessionBuffers` grows by one
  buffer per UID.
* Logging, the analyzer's counters, configuration, socket options.
* *Vendored code.* `Libraries` (Protobuf, plog, an INI reader) has most of the repository's lines, over
  three hundred thousand; the programs under `ServerCore`, `GameServer` and `Client` have a few
  thousand. The modules are about the latter, and protobuf only appears as what `MakePacket` and
  the handlers get from it.
