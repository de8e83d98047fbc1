------------------------------- MODULE SendPath -------------------------------
(***************************************************************************)
(* How a packet leaves a process: MakePacket builds it, AsioSession::Send  *)
(* moves it into a Packet of the PacketPool and starts an async_write, and *)
(* HandleWrite gives that Packet back.  A broadcast sends one copy of what *)
(* MakePacket built to every member of a room.  Handlers send on several   *)
(* threads, writes complete on the asio threads, and the shutdown clears   *)
(* the pool while both go on.  The pool is a concurrent queue and separate *)
(* atomic counters: every access to one of them is a step of its own.      *)
(*                                                                         *)
(* A Packet is its identity and, in bytes, the message moved into it.      *)
(* What an error of a write does to its session is SessionLifecycle's.     *)
(*                                                                         *)
(* Sources: src/ServerCore Pool.h (PacketPool), AsioSession; MakePacket in *)
(* src/GameServer/ClientPacketHandler.h; BroadCast in ChatRoom.cpp; Clear  *)
(* in GameServer and Client.                                               *)
(***************************************************************************)
EXTENDS Integers, Sequences, FiniteSets

CONSTANTS
  Pkt,       \* Packet objects make_shared can return
  NoPkt,     \* nullptr
  Msg,       \* bound: what is sent, one Send each; a broadcast's copies are several
  NoMsg,     \* a moved-from or new Packet's contents
  Sender,    \* threads that send: router workers, or the client's UI thread
  Io,        \* asio threads
  PoolSize,  \* m_PoolSize
  Wrap       \* the values of a size_t, 2^64

ASSUME ConstantsOK ==
  /\ NoPkt \notin Pkt /\ NoMsg \notin Msg
  /\ PoolSize \in Nat /\ Wrap \in Nat \ {0} /\ PoolSize < Wrap

VARIABLES
  free,       \* m_PacketPool
  available,  \* m_AvailableCount
  bytes,      \* the message in each Packet
  unsent,     \* messages no handler has begun to send
  sender,     \* what each sending thread does
  writing,    \* the Packet each message's async_write reads, NoPkt if none
  io,         \* what each asio thread does in Push
  clear       \* how far the shutdown's Clear is

vars == <<free, available, bytes, unsent, sender, writing, io, clear>>

IdleSender == [pc |-> "idle", msg |-> NoMsg, pkt |-> NoPkt]
IdleIo     == [pc |-> "idle", pkt |-> NoPkt]

TypeOK ==
  /\ free \in Seq(Pkt)
  /\ available \in 0 .. Wrap - 1
  /\ bytes \in [Pkt -> Msg \cup {NoMsg}]
  /\ unsent \in SUBSET Msg
  /\ sender \in [Sender -> [pc : {"idle", "made", "send", "popped", "new"},
                            msg : Msg \cup {NoMsg}, pkt : Pkt \cup {NoPkt}]]
  /\ writing \in [Msg -> Pkt \cup {NoPkt}]
  /\ io \in [Io -> [pc : {"idle", "push", "count"}, pkt : Pkt \cup {NoPkt}]]
  /\ clear \in {"no", "pop", "zero", "done"}

\* Init(PoolSize): the queue is filled and the counter says so.
Init ==
  /\ free \in [1 .. PoolSize -> Pkt]
  /\ \A i, j \in 1 .. PoolSize : free[i] = free[j] => i = j
  /\ available = PoolSize
  /\ bytes = [p \in Pkt |-> NoMsg]
  /\ unsent = Msg
  /\ sender = [s \in Sender |-> IdleSender]
  /\ writing = [m \in Msg |-> NoPkt]
  /\ io = [t \in Io |-> IdleIo]
  /\ clear = "no"

-----------------------------------------------------------------------------
\* Mutant: the write handler is bound to a raw pointer.
HeldWithoutWrites(p) ==
  \/ \E i \in 1 .. Len(free) : free[i] = p
  \/ \E s \in Sender : sender[s].pkt = p
  \/ \E t \in Io : io[t].pkt = p

\* Mutant: Push is called with a raw pointer.
HeldWithoutPush(p) ==
  \/ \E i \in 1 .. Len(free) : free[i] = p
  \/ \E s \in Sender : sender[s].pkt = p
  \/ \E m \in Msg : writing[m] = p

\* A shared_ptr to p: the queue's, a sender's, a write handler's or Push's.
Held(p) ==
  \/ \E i \in 1 .. Len(free) : free[i] = p
  \/ \E s \in Sender : sender[s].pkt = p
  \/ \E m \in Msg : writing[m] = p
  \/ \E t \in Io : io[t].pkt = p

\* Mutant: the counter is signed.
OneLessSigned == available - 1

\* Mutant: m_AvailableCount is never counted down.
OneLessForgotten == available

\* fetch_sub(1) on m_AvailableCount.
OneLess == (available - 1) % Wrap

\* MakePacket(m): copies the message into a Packet of its own; it also pops
\* one from the pool, which nobody uses and which ends with the call.  It pops
\* none when the queue is empty, or when the message cannot be serialised: the
\* handler sends the empty Packet it gets then all the same.
MakePacket(s, m) ==
  /\ sender[s] = IdleSender /\ m \in unsent
  /\ unsent' = unsent \ {m}
  /\ \/ /\ free # <<>>
        /\ free' = Tail(free)
        /\ sender' = [sender EXCEPT ![s].msg = m, ![s].pc = "made"]
     \/ /\ sender' = [sender EXCEPT ![s].msg = m, ![s].pc = "send"]
        /\ UNCHANGED free
  /\ UNCHANGED <<available, bytes, writing, io, clear>>

\* The counter of MakePacket's Pop.
MakeCount(s) ==
  /\ sender[s].pc = "made"
  /\ available' = OneLess
  /\ sender' = [sender EXCEPT ![s].pc = "send"]
  /\ UNCHANGED <<free, bytes, unsent, writing, io, clear>>

\* Send's Pop: the oldest Packet of the queue, or a new one.
PopPacket(s) ==
  /\ sender[s].pc = "send"
  /\ \/ /\ free # <<>>
        /\ free' = Tail(free)
        /\ sender' = [sender EXCEPT ![s].pc = "popped", ![s].pkt = Head(free)]
     \/ /\ free = <<>>
        /\ \E p \in {q \in Pkt : ~Held(q)} :
             sender' = [sender EXCEPT ![s].pc = "new", ![s].pkt = p]
        /\ UNCHANGED free
  /\ UNCHANGED <<available, bytes, unsent, writing, io, clear>>

\* What a thread does after a Send: the last one of its handler ...
LastSend(s) ==
  /\ sender' = [sender EXCEPT ![s] = IdleSender]
  /\ UNCHANGED unsent

\* ... or one of BroadCast's loop, with another copy of the same packet to send.
NextCopy(s, n) ==
  /\ sender' = [sender EXCEPT ![s] = [pc |-> "send", msg |-> n, pkt |-> NoPkt]]
  /\ unsent' = unsent \ {n}

\* The rest of Send: the counter of a popped Packet, the move into it, and
\* the async_write, whose handler holds the Packet.
StartWrite(s) ==
  LET m == sender[s].msg  p == sender[s].pkt IN
  /\ sender[s].pc \in {"popped", "new"}
  /\ available' = IF sender[s].pc = "popped" THEN OneLess ELSE available
  /\ bytes' = [bytes EXCEPT ![p] = m]
  /\ writing' = [writing EXCEPT ![m] = p]
  /\ LastSend(s) \/ \E n \in unsent : NextCopy(s, n)
  /\ UNCHANGED <<free, io, clear>>

-----------------------------------------------------------------------------
\* Mutant: Push always pushes.
HasRoomAlways == TRUE

\* Push's test.
HasRoom == available < PoolSize

\* HandleWrite, with or without an error, up to the test in Push: a Packet the
\* pool has no room for ends with its last shared_ptr.
HandleWrite(t, m) ==
  /\ io[t] = IdleIo /\ writing[m] # NoPkt
  /\ writing' = [writing EXCEPT ![m] = NoPkt]
  /\ io' = IF HasRoom
           THEN [io EXCEPT ![t] = [pc |-> "push", pkt |-> writing[m]]] ELSE io
  /\ UNCHANGED <<free, available, bytes, unsent, sender, clear>>

PushPacket(t) ==
  /\ io[t].pc = "push"
  /\ free' = Append(free, io[t].pkt)
  /\ io' = [io EXCEPT ![t] = [pc |-> "count", pkt |-> NoPkt]]
  /\ UNCHANGED <<available, bytes, unsent, sender, writing, clear>>

\* Push counts m_AvailableCount down, as Pop did.
PushCount(t) ==
  /\ io[t].pc = "count"
  /\ available' = OneLess
  /\ io' = [io EXCEPT ![t] = IdleIo]
  /\ UNCHANGED <<free, bytes, unsent, sender, writing, clear>>

-----------------------------------------------------------------------------
\* Clear pops until the queue is empty ...
ClearPop ==
  /\ clear \in {"no", "pop"}
  /\ free' = IF free = <<>> THEN free ELSE Tail(free)
  /\ clear' = IF free = <<>> THEN "zero" ELSE "pop"
  /\ UNCHANGED <<available, bytes, unsent, sender, writing, io>>

\* ... and then zeroes the counters.
ClearZero ==
  /\ clear = "zero"
  /\ available' = 0
  /\ clear' = "done"
  /\ UNCHANGED <<free, bytes, unsent, sender, writing, io>>

SenderStep(s) ==
  \/ \E m \in Msg : MakePacket(s, m)
  \/ MakeCount(s) \/ PopPacket(s) \/ StartWrite(s)

IoStep(t) ==
  \/ \E m \in Msg : HandleWrite(t, m)
  \/ PushPacket(t) \/ PushCount(t)

Next ==
  \/ \E s \in Sender : SenderStep(s)
  \/ \E t \in Io : IoStep(t)
  \/ ClearPop \/ ClearZero

Spec == Init /\ [][Next]_vars

-----------------------------------------------------------------------------
(* Properties *)

\* No two messages meet in one Packet: one that waits in the pool is nobody
\* else's, and one that is sent from, written or given back is so once.
PoolExclusive ==
  /\ \A i, j \in 1 .. Len(free) : free[i] = free[j] => i = j
  /\ \A i \in 1 .. Len(free) : /\ \A s \in Sender : sender[s].pkt # free[i]
                               /\ \A m \in Msg : writing[m] # free[i]
                               /\ \A t \in Io : io[t].pkt # free[i]
  /\ \A s, r \in Sender : sender[s].pkt = sender[r].pkt /\ s # r => sender[s].pkt = NoPkt
  /\ \A m, n \in Msg : writing[m] = writing[n] /\ m # n => writing[m] = NoPkt
  /\ \A t, u \in Io : io[t].pkt = io[u].pkt /\ t # u => io[t].pkt = NoPkt
  /\ \A s \in Sender, m \in Msg : sender[s].pkt = writing[m] => writing[m] = NoPkt
  /\ \A s \in Sender, t \in Io : sender[s].pkt = io[t].pkt => io[t].pkt = NoPkt
  /\ \A m \in Msg, t \in Io : writing[m] = io[t].pkt => io[t].pkt = NoPkt

\* The bytes an async_write reads stay those of its message until it is done,
\* however Packets are recycled meanwhile.
WriteKeepsBytes == \A m \in Msg : writing[m] # NoPkt => bytes[writing[m]] = m

\* Push tests the counter before it pushes: racing asio threads take the pool
\* over m_PoolSize, but by less than one Packet per thread (until Clear zeroes
\* the counter and so makes room for more).
PoolCapped == clear # "done" => Len(free) <= PoolSize + Cardinality(Io) - 1

\* Until it wraps, the counter never promises a Packet that is not queued or
\* just being popped (Clear zeroes it only after it took the Packets).
AvailableIsThere ==
  clear \in {"no", "done"} /\ available <= PoolSize =>
    available <= Len(free) + Cardinality({s \in Sender : sender[s].pc \in {"made", "popped"}})

=============================================================================
