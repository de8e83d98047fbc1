---------------------------- MODULE PacketChannel ----------------------------
(***************************************************************************)
(* What the inbound path promises a PacketRouter worker, without buffers:  *)
(* the peer's packets wait for it whole, each once, in the order of the    *)
(* stream and none before its last byte has come.  Up to one point the     *)
(* channel may break (bytes are thrown away: src/ServerCore/               *)
(* SessionPacketBuffer.cpp:32-37, PacketBuffer.cpp:78-83); from then on it *)
(* promises nothing.  RecvBuffer implements it.                            *)
(***************************************************************************)
EXTENDS Naturals, Sequences

CONSTANTS
  Packets,   \* number of packets of the stream
  End        \* End[p]: position in the stream of packet p's last byte

VARIABLES
  received,  \* bytes of the stream received
  waiting,   \* the packets waiting for the worker, by their number
  next,      \* packets handed to the worker's queue so far
  broken     \* the channel has broken

channel == <<received, waiting, next, broken>>

Init == received = 0 /\ waiting = <<>> /\ next = 0 /\ broken = FALSE

\* More bytes arrive.
Receive ==
  /\ ~broken
  /\ received' > received
  /\ UNCHANGED <<waiting, next, broken>>

\* The next packet is complete and joins the queue.
Hand ==
  /\ ~broken
  /\ next < Packets
  /\ End[next + 1] <= received
  /\ next' = next + 1
  /\ waiting' = Append(waiting, next')
  /\ UNCHANGED <<received, broken>>

\* The worker takes the oldest packet.
Take ==
  /\ ~broken
  /\ waiting # <<>>
  /\ waiting' = Tail(waiting)
  /\ UNCHANGED <<received, next, broken>>

\* The channel breaks: nothing is said of it any more.
Break ==
  /\ ~broken
  /\ broken' = TRUE
  /\ received' = 0 /\ waiting' = <<>> /\ next' = 0

Next == Receive \/ Hand \/ Take \/ Break

Spec == Init /\ [][Next]_channel

=============================================================================
