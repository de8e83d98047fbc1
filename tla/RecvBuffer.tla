----------------------------- MODULE RecvBuffer -----------------------------
(***************************************************************************)
(* The inbound path of one session, from the bytes of its stream to the    *)
(* packet a handler parses: HandleRead copies what it read into the        *)
(* session's PacketBuffer in SessionPacketBuffer, ProcessPacket cuts       *)
(* packets out of it and queues for each the ADDRESS of its bytes, Clear   *)
(* reuses the buffer, and a PacketRouter worker reads those bytes later.   *)
(*                                                                         *)
(* A byte is its position in the stream (1, 2, ...); 0 is memory never     *)
(* written.  The session's own m_PacketBuffer is empty between two reads   *)
(* (OnRead of all bytes, then Clear), so it only bounds a read's length.   *)
(*                                                                         *)
(* Sources: src/ServerCore AsioSession, NetworkHandler,                    *)
(* SessionPacketBuffer, PacketBuffer, PacketRouter; src/GameServer         *)
(* ClientPacketHandler.h.                                                  *)
(***************************************************************************)
EXTENDS Integers, Sequences

CONSTANTS
  Capacity,    \* m_Capacity (10 * m_BufferSize in the code)
  BufferSize,  \* m_BufferSize
  HeaderSize,  \* sizeof(PacketHeader)
  Sizes,       \* packetSize of each packet the peer sends, in order
  Start,       \* position in the stream of each packet's first byte
  Garbage      \* what packetSize may be where no header is

ASSUME ConstantsOK ==
  /\ Capacity \in Nat /\ BufferSize \in 1 .. Capacity
  /\ HeaderSize \in 1 .. BufferSize
  /\ Sizes \in Seq(HeaderSize .. BufferSize)
  /\ Garbage \subseteq Nat

\* One packet follows the other; Start has an entry for the end of the last.
ASSUME StartOK ==
  /\ Start \in [1 .. Len(Sizes) + 1 -> Nat]
  /\ Start[1] = 1
  /\ \A p \in 1 .. Len(Sizes) : Start[p + 1] = Start[p] + Sizes[p]
  /\ \A p, q \in 1 .. Len(Sizes) + 1 : p < q => Start[p] < Start[q]

Total == Start[Len(Sizes) + 1] - 1

VARIABLES
  sent,        \* bytes of the stream HandleRead has taken
  reading,     \* a read is armed or being handled
  buf,         \* m_Buffer of the session's PacketBuffer
  readPos,     \* m_ReadPos
  writePos,    \* m_WritePos
  pc,          \* HandleRead's progress: "read", "frame", "finish", "spin"
  scan,        \* processLen
  queue,       \* the worker's queue (items of this session)
  worker,      \* the item a worker handles
  closing,     \* ProcessDisconnect was called
  registered,  \* the SessionManager still finds the session
  up,          \* the process runs
  dispatched,  \* history: items queued
  handled,     \* history: items handled
  dropped,     \* history: an item was dropped for want of its session
  garbled,     \* history: a handler read other bytes than its packet's
  lost,        \* history: received bytes were thrown away
  epoch        \* history: times the buffer was rewound

stream == <<sent, reading>>
buffer == <<buf, readPos, writePos>>
ghosts == <<dispatched, handled, dropped, garbled, lost, epoch>>
vars == <<sent, reading, buf, readPos, writePos, pc, scan, queue, worker,
          closing, registered, up, dispatched, handled, dropped, garbled, lost,
          epoch>>

DataSize == writePos - readPos
FreeSize == Capacity - writePos

\* The received bytes ProcessPacket has not cut into packets yet.
Pending == [j \in 1 .. DataSize - scan |-> buf[readPos + scan + j - 1]]

\* A queued packet: where its bytes lie and how many they are; first and
\* epoch remember the byte found there and the rewind it was queued in.
Item == [off : 0 .. Capacity, len : Nat, first : Nat, epoch : Nat]
NoItem == [off |-> 0, len |-> 0, first |-> 0, epoch |-> 0]

TypeOK ==
  /\ sent \in 0 .. Total /\ reading \in BOOLEAN
  /\ buf \in [0 .. Capacity - 1 -> 0 .. Total]
  /\ readPos \in 0 .. Capacity /\ writePos \in 0 .. Capacity
  /\ pc \in {"read", "frame", "finish", "spin"} /\ scan \in 0 .. Capacity
  /\ queue \in Seq(Item)
  /\ worker \in [pc : {"idle", "header", "payload"}, item : Item, good : BOOLEAN]
  /\ closing \in BOOLEAN /\ registered \in BOOLEAN /\ up \in BOOLEAN
  /\ dispatched \in Nat /\ handled \in Nat /\ epoch \in Nat
  /\ dropped \in BOOLEAN /\ garbled \in BOOLEAN /\ lost \in BOOLEAN

Idle == [pc |-> "idle", item |-> NoItem, good |-> TRUE]

Init ==
  /\ sent = 0 /\ reading = TRUE
  /\ buf = [i \in 0 .. Capacity - 1 |-> 0]
  /\ readPos = 0 /\ writePos = 0
  /\ pc = "read" /\ scan = 0
  /\ queue = <<>> /\ worker = Idle
  /\ closing = FALSE /\ registered = TRUE /\ up = TRUE
  /\ dispatched = 0 /\ handled = 0 /\ epoch = 0
  /\ dropped = FALSE /\ garbled = FALSE /\ lost = FALSE

-----------------------------------------------------------------------------
(* asio thread *)

\* Mutant: OnWrite does not compare FreeSize with the size.
FitsAlways(n) == TRUE

\* OnWrite's test of the free space.
Fits(n) == FreeSize >= n

\* OnWrite of the next n bytes of the stream.
OnWrite(n) ==
  /\ buf' = [i \in 0 .. Capacity - 1 |->
               IF i \in writePos .. writePos + n - 1
               THEN sent + 1 + (i - writePos) ELSE buf[i]]
  /\ writePos' = writePos + n

\* HandleRead got n bytes and AddData stores them; bytes that do not fit are
\* dropped after ProcessDisconnect, and HandleRead goes on.
AddData(n) ==
  /\ pc = "read" /\ reading
  /\ n <= Total - sent
  /\ sent' = sent + n
  /\ \/ Fits(n) /\ OnWrite(n) /\ UNCHANGED <<closing, lost>>
     \/ ~Fits(n) /\ closing' = TRUE /\ lost' = TRUE /\ UNCHANGED <<buf, writePos>>
  /\ pc' = "frame"
  /\ UNCHANGED <<reading, readPos, scan, queue, worker, registered, up, dispatched,
                 handled, dropped, garbled, epoch>>

\* The header bytes of packet p lie at address i.
HeaderAt(i, p) == \A j \in 0 .. HeaderSize - 1 : buf[i + j] = Start[p] + j

\* The packetSize ProcessPacket reads at address i: the packet's where a
\* header is, anything where none is.
SizesAt(i) ==
  IF \E p \in 1 .. Len(Sizes) : HeaderAt(i, p)
  THEN {Sizes[p] : p \in {q \in 1 .. Len(Sizes) : HeaderAt(i, q)}}
  ELSE Garbage

\* &buffer[processLen], buffer being ReadPos().
Address == readPos + scan

\* Mutant: a packet that fills the received data exactly counts as incomplete.
IncompleteOrEqual(rest, size) == rest <= size

\* Mutant: packetSize is not compared with the data there is.
NeverIncomplete(rest, size) == FALSE

\* dataSize < header.packetSize
Incomplete(rest, size) == rest < size

\* One iteration of ProcessPacket's loop: queue the next packet, or stop when
\* it is not complete.  A packetSize of 0 never advances: the loop spins.
Frame ==
  LET rest == DataSize - scan IN
  /\ pc = "frame"
  /\ \/ /\ rest < HeaderSize
        /\ pc' = "finish"
        /\ UNCHANGED <<scan, queue, dispatched>>
     \/ /\ rest >= HeaderSize
        /\ \E s \in SizesAt(Address) :
             \/ /\ Incomplete(rest, s)
                /\ pc' = "finish"
                /\ UNCHANGED <<scan, queue, dispatched>>
             \/ /\ ~Incomplete(rest, s)
                /\ queue' = Append(queue, [off |-> Address, len |-> s,
                                           first |-> buf[Address], epoch |-> epoch])
                /\ scan' = scan + s
                /\ dispatched' = dispatched + 1
                /\ pc' = IF s = 0 THEN "spin" ELSE pc
  /\ UNCHANGED <<stream, buffer, worker, closing, registered, up, handled,
                 dropped, garbled, lost, epoch>>

\* PacketBuffer::Clear after m_ReadPos became r: rewind an empty buffer; with
\* less than one m_BufferSize free, copy the unread bytes to the front and
\* set both positions to 0.
Clear(r) ==
  LET size == writePos - r IN
  \/ /\ size = 0
     /\ readPos' = 0 /\ writePos' = 0 /\ epoch' = epoch + 1
     /\ UNCHANGED <<buf, lost>>
  \/ /\ size # 0 /\ FreeSize < BufferSize
     /\ buf' = [i \in 0 .. Capacity - 1 |-> IF i < size THEN buf[r + i] ELSE buf[i]]
     /\ readPos' = 0 /\ writePos' = 0 /\ epoch' = epoch + 1
     /\ lost' = TRUE
  \/ /\ size # 0 /\ FreeSize >= BufferSize
     /\ readPos' = r
     /\ UNCHANGED <<buf, writePos, lost, epoch>>

\* Mutant: OnRead is left out.
FinishWithoutOnRead ==
  /\ pc = "finish"
  /\ \/ scan = 0 /\ UNCHANGED <<buffer, lost, epoch>>
     \/ scan # 0 /\ Clear(readPos)
  /\ pc' = "read" /\ scan' = 0
  /\ UNCHANGED <<stream, queue, worker, closing, registered, up, dispatched,
                 handled, dropped, garbled>>

\* The rest of ProcessSessionBuffer: OnRead and Clear, unless nothing was cut;
\* then DoRead.
Finish ==
  /\ pc = "finish"
  /\ \/ scan = 0 /\ UNCHANGED <<buffer, lost, epoch>>
     \/ scan # 0 /\ Clear(readPos + scan)
  /\ pc' = "read" /\ scan' = 0
  /\ UNCHANGED <<stream, queue, worker, closing, registered, up, dispatched,
                 handled, dropped, garbled>>

\* HandleRead with an error: ProcessDisconnect, and no further read.
PeerCloses ==
  /\ pc = "read" /\ reading
  /\ reading' = FALSE
  /\ closing' = TRUE
  /\ UNCHANGED <<sent, buffer, pc, scan, queue, worker, registered, up, ghosts>>

\* A TaskQueue worker closes the session: it is unregistered, its socket
\* closed.
CloseSession ==
  /\ closing /\ registered
  /\ registered' = FALSE
  /\ reading' = FALSE
  /\ UNCHANGED <<sent, buffer, pc, scan, queue, worker, closing, up, ghosts>>

-----------------------------------------------------------------------------
(* PacketRouter worker *)

\* Run takes an item; without its session it is dropped.
Pop ==
  /\ worker = Idle /\ queue # <<>>
  /\ queue' = Tail(queue)
  /\ IF registered
     THEN worker' = [pc |-> "header", item |-> Head(queue), good |-> TRUE] /\ UNCHANGED dropped
     ELSE dropped' = TRUE /\ UNCHANGED worker
  /\ UNCHANGED <<stream, buffer, pc, scan, closing, registered, up, dispatched,
                 handled, garbled, lost, epoch>>

\* Bytes lo to hi of item i are those it was queued with.
Intact(i, lo, hi) == \A j \in lo .. hi : buf[i.off + j] = i.first + j

\* HandlePacket reads packetType: a header picks a handler, other bytes pick
\* any or an empty std::function, whose call ends the process.
ReadHeader ==
  LET i == worker.item IN
  /\ worker.pc = "header"
  /\ worker' = [worker EXCEPT !.pc = "payload", !.good = Intact(i, 0, HeaderSize - 1)]
  /\ \/ UNCHANGED up
     \/ /\ \A p \in 1 .. Len(Sizes) : ~HeaderAt(i.off, p)
        /\ up' = FALSE
  /\ UNCHANGED <<stream, buffer, pc, scan, queue, closing, registered, ghosts>>

\* ParseFromArray reads the payload and the handler runs.
ReadPayload ==
  LET i == worker.item IN
  /\ worker.pc = "payload"
  /\ garbled' = (garbled \/ ~worker.good \/ ~Intact(i, HeaderSize, i.len - 1))
  /\ handled' = handled + 1
  /\ worker' = Idle
  /\ UNCHANGED <<stream, buffer, pc, scan, queue, closing, registered, up,
                 dispatched, dropped, lost, epoch>>

Io     == (\E n \in 1 .. Capacity : AddData(n)) \/ Frame \/ Finish \/ PeerCloses
Worker == Pop \/ ReadHeader \/ ReadPayload

Next == up /\ (Io \/ CloseSession \/ Worker)

Spec == Init /\ [][Next]_vars

-----------------------------------------------------------------------------
(* Properties *)

\* The positions stay in the buffer and in order, and what ProcessPacket has
\* cut lies within the unread bytes: no read past what was received.
PositionsOK ==
  /\ readPos <= writePos /\ writePos <= Capacity
  /\ readPos + scan <= writePos

\* However the stream is split into reads, as long as no byte was thrown away
\* the n-th item queued is the n-th packet: nothing is skipped, cut short,
\* glued together or queued twice.
FramedInOrder ==
  ~lost => \A i \in 1 .. Len(queue) :
    LET p == dispatched - Len(queue) + i IN
    /\ p \in 1 .. Len(Sizes)
    /\ queue[i].first = Start[p] /\ queue[i].len = Sizes[p]

\* Packets are cut out of received bytes, each once and in order.
CutOnce == PositionsOK /\ FramedInOrder

\* An address is good until the buffer is rewound: within its epoch, the bytes
\* of an item waiting or being handled are the packet's.
IntactUntilRewind ==
  ~lost => \A i \in {queue[n] : n \in 1 .. Len(queue)} \cup {worker.item} :
    i.epoch = epoch => Intact(i, 0, i.len - 1)

\* As long as no byte was thrown away, the unread bytes are the stream's latest,
\* without a gap, and from the end of ProcessPacket's loop on none of them ends
\* a packet: what came whole was cut, and does not wait for a later read.
UnreadIsLatest ==
  ~lost => /\ \A j \in 1 .. DataSize : buf[writePos - j] = sent + 1 - j
           /\ pc # "frame" =>
                \A p \in 1 .. Len(Sizes) : sent >= Start[p + 1] - 1 => p <= dispatched

\* The packet an item was queued as: the one whose first byte and size it
\* has.
PacketOf(i) == CHOOSE p \in 1 .. Len(Sizes) : Start[p] = i.first /\ Sizes[p] = i.len

Channel == INSTANCE PacketChannel WITH
  Packets  <- Len(Sizes),
  End      <- [p \in 1 .. Len(Sizes) |-> Start[p + 1] - 1],
  received <- IF lost THEN 0 ELSE sent,
  waiting  <- IF lost THEN <<>> ELSE [n \in 1 .. Len(queue) |-> PacketOf(queue[n])],
  next     <- IF lost THEN 0 ELSE dispatched,
  broken   <- lost

\* With its buffer, positions and rewinds the inbound path is a channel of
\* whole packets in order, until bytes are thrown away.
ImplementsChannel == Channel!Spec

\* A packet received to its last byte is handled, unless bytes were thrown
\* away, its session went away first, or the process ended.
ReceivedIsHandled ==
  \A p \in 1 .. Len(Sizes) :
    (sent >= Start[p + 1] - 1) ~> (handled >= p \/ lost \/ ~registered \/ ~up)

-----------------------------------------------------------------------------
(* What comments and documentation say, and the code does not do *)

\* Clear moves the unread bytes to the front: they are still pending.
ClearKeepsData ==
  [][pc = "finish" /\ pc' = "read" => Pending' = Pending]_vars

\* Handlers get the packets that were sent, also under load.
HandledIntact == lost \/ ~garbled

\* All data that was received is taken before the session is disconnected.
DataBeforeDisconnect == ~dropped

\* Fairness: the asio thread finishes a handler it began, and the worker
\* polls its queue.
FairSpec == Spec /\ WF_vars(up /\ (Frame \/ Finish)) /\ WF_vars(up /\ Worker)

=============================================================================
