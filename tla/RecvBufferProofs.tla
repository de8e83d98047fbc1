-------------------------- MODULE RecvBufferProofs --------------------------
(* Proofs about RecvBuffer, for every buffer size, stream of packets and     *)
(* way to split it into reads.                                               *)
EXTENDS RecvBuffer, TLAPS

\* The position in the stream of the byte at address i, as long as no byte
\* was thrown away since the last rewind.
StreamPos(i) == sent - writePos + 1 + i

\* Everything below the write position is the stream, in order.
Contiguous ==
  ~lost => /\ writePos <= sent
           /\ \A i \in 0 .. writePos - 1 : buf[i] = StreamPos(i)

\* The next byte to cut is the first of the next packet.
AtPacketStart ==
  ~lost => /\ dispatched \in 0 .. Len(Sizes)
           /\ StreamPos(readPos + scan) = Start[dispatched + 1]

\* An item of this epoch lies below the bytes not cut yet.
CutInEpoch(i) ==
  /\ i.epoch <= epoch
  /\ i.epoch = epoch /\ i.len > 0 =>
       i.off + i.len <= readPos + scan /\ i.first = StreamPos(i.off)

ItemsCut ==
  ~lost => /\ \A n \in 1 .. Len(queue) : CutInEpoch(queue[n])
           /\ CutInEpoch(worker.item)

ScanOnlyWhileFraming == pc = "read" => scan = 0

\* The inductive invariant.
IInv ==
  /\ TypeOK /\ PositionsOK /\ ScanOnlyWhileFraming
  /\ Contiguous /\ AtPacketStart /\ ItemsCut /\ FramedInOrder

-----------------------------------------------------------------------------
\* Every element of a sequence over S is in S.
LEMMA ElementIn ==
  ASSUME NEW S, NEW s \in Seq(S)
  PROVE  \A n \in 1 .. Len(s) : s[n] \in S
  OBVIOUS

\* The stream: its packets fit the buffer, and it has a length.
LEMMA StreamFacts ==
  /\ Capacity \in Nat /\ BufferSize \in Nat /\ BufferSize <= Capacity
  /\ HeaderSize \in Nat /\ 1 <= HeaderSize
  /\ Len(Sizes) \in Nat /\ Total \in Nat
  /\ \A p \in 1 .. Len(Sizes) : Sizes[p] \in Nat /\ Sizes[p] >= HeaderSize
  /\ \A p \in 1 .. Len(Sizes) + 1 : Start[p] \in Nat
  /\ Start[1] = 1 /\ Start[Len(Sizes) + 1] = Total + 1
<1>1. Sizes \in Seq(HeaderSize .. BufferSize) /\ Len(Sizes) \in Nat
  BY ConstantsOK
<1>2. \A p \in 1 .. Len(Sizes) : Sizes[p] \in HeaderSize .. BufferSize
  BY <1>1, ElementIn
<1>3. \A p \in 1 .. Len(Sizes) + 1 : Start[p] \in Nat
  BY StartOK
<1>4. Start[Len(Sizes) + 1] \in Nat /\ Start[Len(Sizes) + 1] >= 1
  <2>1. CASE Len(Sizes) = 0
    BY <2>1, StartOK
  <2>2. CASE Len(Sizes) > 0
    <3>1. Start[1] < Start[Len(Sizes) + 1]
      BY <1>1, <2>2, StartOK
    <3>2. QED
      BY <1>1, <1>3, <3>1, StartOK
  <2>3. QED
    BY <1>1, <2>1, <2>2
<1>5. QED
  BY <1>1, <1>2, <1>3, <1>4, ConstantsOK, StartOK DEF Total

\* Initially nothing was received, cut or queued.
LEMMA InitInv == Init => IInv
<1> SUFFICES ASSUME Init PROVE IInv
  OBVIOUS
<1>1. TypeOK
  <2>1. NoItem \in Item /\ queue \in Seq(Item)
    BY StreamFacts DEF Init, NoItem, Item
  <2>2. worker \in [pc : {"idle", "header", "payload"}, item : Item, good : BOOLEAN]
    BY <2>1 DEF Init, Idle
  <2>3. buf \in [0 .. Capacity - 1 -> 0 .. Total] /\ sent \in 0 .. Total
    BY StreamFacts DEF Init
  <2>4. /\ readPos \in 0 .. Capacity /\ writePos \in 0 .. Capacity
        /\ pc = "read" /\ scan \in 0 .. Capacity
        /\ dispatched \in Nat /\ handled \in Nat /\ epoch \in Nat
    BY StreamFacts DEF Init
  <2>5. /\ reading \in BOOLEAN /\ closing \in BOOLEAN /\ registered \in BOOLEAN /\ up \in BOOLEAN
        /\ dropped \in BOOLEAN /\ garbled \in BOOLEAN /\ lost \in BOOLEAN
    BY DEF Init
  <2>6. QED
    BY <2>1, <2>2, <2>3, <2>4, <2>5 DEF TypeOK
<1>2. PositionsOK /\ ScanOnlyWhileFraming /\ Contiguous
  BY StreamFacts DEF Init, PositionsOK, ScanOnlyWhileFraming, Contiguous
<1>3. AtPacketStart
  BY StreamFacts DEF Init, AtPacketStart, StreamPos
<1>4. ItemsCut /\ FramedInOrder
  BY DEF Init, ItemsCut, CutInEpoch, FramedInOrder, Idle, NoItem
<1>5. QED
  BY <1>1, <1>2, <1>3, <1>4 DEF IInv

\* Storing a read keeps the invariant; one that does not fit ends all claims.
LEMMA AddDataInv == ASSUME IInv, NEW n \in 1 .. Capacity, AddData(n) PROVE IInv'
<1> USE StreamFacts
<1>1. CASE ~Fits(n)
  <2>1. lost' = TRUE /\ UNCHANGED <<buf, writePos, readPos, scan, queue, worker>>
    BY <1>1 DEF AddData
  <2>2. sent' \in 0 .. Total
    BY DEF IInv, TypeOK, AddData
  <2>3. TypeOK'
    BY <1>1, <2>1, <2>2 DEF IInv, TypeOK, AddData
  <2>4. QED
    BY <2>1, <2>3 DEF IInv, PositionsOK, ScanOnlyWhileFraming, Contiguous,
       AtPacketStart, ItemsCut, FramedInOrder, AddData
<1>2. CASE Fits(n)
  <2>1. /\ OnWrite(n) /\ n <= FreeSize /\ lost' = lost /\ sent' = sent + n
        /\ sent + n <= Total /\ pc = "read" /\ pc' = "frame"
        /\ UNCHANGED <<closing, reading, readPos, scan, queue, worker, registered,
                       up, dispatched, handled, dropped, garbled, epoch>>
    BY <1>2 DEF AddData, Fits, FreeSize, IInv, TypeOK
  <2>2. writePos' = writePos + n /\ writePos' \in 0 .. Capacity /\ n \in Nat
    BY <2>1 DEF IInv, TypeOK, OnWrite, FreeSize
  <2>3. \A i \in 0 .. Capacity - 1 : buf'[i] =
          IF i \in writePos .. writePos + n - 1 THEN sent + 1 + (i - writePos) ELSE buf[i]
    BY <2>1 DEF OnWrite
  <2>4. buf' \in [0 .. Capacity - 1 -> 0 .. Total]
    BY <2>1, <2>2 DEF IInv, TypeOK, OnWrite
  <2>5. TypeOK'
    BY <2>1, <2>2, <2>4 DEF IInv, TypeOK
  <2>6. PositionsOK' /\ ScanOnlyWhileFraming'
    BY <2>1, <2>2 DEF IInv, TypeOK, PositionsOK, ScanOnlyWhileFraming
  <2>7. Contiguous'
    <3> SUFFICES ASSUME ~lost
                 PROVE  writePos' <= sent' /\ \A i \in 0 .. writePos' - 1 : buf'[i] = StreamPos(i)'
      BY <2>1, Zenon DEF Contiguous
    <3>1. /\ writePos \in Nat /\ sent \in Nat /\ writePos <= sent /\ n \in Nat
          /\ writePos + n <= Capacity /\ Capacity \in Nat
      BY <2>1, <2>2, StreamFacts DEF IInv, TypeOK, Contiguous
    <3>2. ASSUME NEW i \in 0 .. writePos' - 1 PROVE buf'[i] = StreamPos(i)'
      <4>1. i \in 0 .. Capacity - 1 /\ i < writePos + n
        BY <2>2, <3>1
      <4>2. StreamPos(i)' = sent + n - (writePos + n) + 1 + i
        <5>1. StreamPos(i)' = sent' - writePos' + 1 + i
          BY Zenon DEF StreamPos
        <5>2. sent' = sent + n /\ writePos' = writePos + n
          BY <2>1, <2>2, Zenon
        <5>3. QED
          BY ONLY <3>1, <4>1, <5>1, <5>2
      <4>3. CASE i >= writePos
        <5>1. i \in writePos .. writePos + n - 1
          BY ONLY <3>1, <4>1, <4>3
        <5>2. buf'[i] = sent + 1 + (i - writePos)
          BY <2>3, <4>1, <5>1, Zenon
        <5>3. QED
          BY ONLY <3>1, <4>1, <4>2, <5>2
      <4>4. CASE i < writePos
        <5>1. i \notin writePos .. writePos + n - 1 /\ i \in 0 .. writePos - 1
          BY ONLY <3>1, <4>1, <4>4
        <5>2. buf'[i] = StreamPos(i)
          BY <2>3, <4>1, <5>1, Zenon DEF IInv, Contiguous
        <5>3. StreamPos(i) = sent - writePos + 1 + i
          BY Zenon DEF StreamPos
        <5>4. QED
          BY ONLY <3>1, <4>1, <4>2, <5>2, <5>3
      <4>5. QED
        BY <3>1, <4>1, <4>3, <4>4
    <3>3. QED
      BY <2>1, <2>2, <3>1, <3>2
  <2>8. AtPacketStart' /\ ItemsCut'
    <3>1. \A i \in Int : StreamPos(i)' = StreamPos(i)
      BY <2>1, <2>2 DEF IInv, TypeOK, StreamPos
    <3>2. AtPacketStart'
      BY <2>1, <2>2 DEF IInv, TypeOK, AtPacketStart, StreamPos
    <3>3. ASSUME NEW i \in Item, CutInEpoch(i) PROVE CutInEpoch(i)'
      BY <2>1, <3>1, <3>3 DEF CutInEpoch, Item
    <3>4. worker.item \in Item /\ \A m \in 1 .. Len(queue) : queue[m] \in Item
      BY DEF IInv, TypeOK
    <3>5. ItemsCut'
      BY <2>1, <3>3, <3>4 DEF IInv, ItemsCut
    <3>6. QED
      BY <3>2, <3>5
  <2>9. FramedInOrder'
    BY <2>1 DEF IInv, FramedInOrder
  <2>10. QED
    BY <2>5, <2>6, <2>7, <2>8, <2>9 DEF IInv
<1>3. QED
  BY <1>1, <1>2

\* Where a packet's header has been received, ProcessPacket reads that
\* packet's size and no other.
LEMMA NextPacket ==
  ASSUME IInv, ~lost, DataSize - scan >= HeaderSize
  PROVE  /\ dispatched + 1 \in 1 .. Len(Sizes)
         /\ buf[Address] = Start[dispatched + 1]
         /\ SizesAt(Address) = {Sizes[dispatched + 1]}
<1> USE StreamFacts
<1> DEFINE d == dispatched + 1
<1>1. /\ Address \in Nat /\ Address < writePos /\ writePos \in 0 .. Capacity
      /\ Address + HeaderSize <= writePos /\ Address = readPos + scan
  BY DEF IInv, TypeOK, PositionsOK, Address, DataSize
<1>2. /\ dispatched \in 0 .. Len(Sizes) /\ StreamPos(Address) = Start[d]
      /\ sent \in 0 .. Total /\ writePos <= sent
  BY <1>1 DEF IInv, TypeOK, AtPacketStart, Contiguous
<1>3. d \in 1 .. Len(Sizes)
  <2>1. Start[d] <= Total
    <3>1. Start[d] = sent - writePos + 1 + Address
      BY <1>2 DEF StreamPos
    <3>2. Address \in Nat /\ writePos \in Nat /\ sent \in Nat /\ sent <= Total
      BY <1>1, <1>2
    <3> HIDE DEF d
    <3>3. QED
      BY <1>1, <3>1, <3>2
  <2>2. Start[Len(Sizes) + 1] = Total + 1 /\ Total \in Nat /\ Len(Sizes) \in Nat
    OBVIOUS
  <2>3. d # Len(Sizes) + 1
    <3> SUFFICES ASSUME d = Len(Sizes) + 1 PROVE FALSE
      OBVIOUS
    <3>1. Start[d] = Total + 1
      BY <2>2
    <3>2. QED
      BY <2>1, <2>2, <3>1
  <2>4. dispatched \in 0 .. Len(Sizes) /\ Len(Sizes) \in Nat /\ dispatched + 1 # Len(Sizes) + 1
    BY <1>2, <2>2, <2>3
  <2>5. QED
    BY ONLY <2>4
<1>4. \A j \in 0 .. HeaderSize - 1 : buf[Address + j] = Start[d] + j
  <2>1. \A i \in 0 .. writePos - 1 : buf[i] = StreamPos(i)
    BY DEF IInv, Contiguous
  <2>2. ASSUME NEW j \in 0 .. HeaderSize - 1 PROVE buf[Address + j] = Start[d] + j
    <3>1. buf[Address + j] = StreamPos(Address + j)
      BY <1>1, <1>2, <2>1
    <3>2. StreamPos(Address + j) = StreamPos(Address) + j
      <4>1. /\ Address \in Nat /\ sent \in Nat /\ writePos \in Nat /\ j \in Nat
        BY <1>1, <1>2
      <4>2. /\ StreamPos(Address + j) = sent - writePos + 1 + (Address + j)
            /\ StreamPos(Address) = sent - writePos + 1 + Address
        BY DEF StreamPos
      <4>3. QED
        BY ONLY <4>1, <4>2
    <3>3. QED
      BY <1>2, <3>1, <3>2
  <2>3. QED
    BY <2>2
<1>5. buf[Address] = Start[d]
  BY <1>1, <1>2 DEF IInv, TypeOK, Contiguous, StreamPos
<1>6. HeaderAt(Address, d)
  BY <1>4 DEF HeaderAt
<1>7. ASSUME NEW q \in 1 .. Len(Sizes), HeaderAt(Address, q) PROVE q = d
  <2>1. buf[Address + 0] = Start[q] + 0
    <3>1. HeaderSize \in Nat /\ 1 <= HeaderSize
      BY StreamFacts
    <3>2. 0 \in 0 .. HeaderSize - 1
      BY ONLY <3>1
    <3>3. QED
      BY <1>7, <3>2, Zenon DEF HeaderAt
  <2>2. Start[q] = Start[d]
    <3>1. Address \in Nat /\ Start[q] \in Nat
      BY <1>1, <1>7, StreamFacts, StartOK
    <3>2. Address + 0 = Address /\ Start[q] + 0 = Start[q]
      BY ONLY <3>1
    <3>3. QED
      BY <1>5, <2>1, <3>2, Zenon
  <2>3. ~(q < d) /\ ~(d < q)
    BY <1>3, <2>2, StartOK
  <2>4. QED
    BY <1>3, <2>3
<1>8. SizesAt(Address) = {Sizes[d]}
  BY <1>3, <1>6, <1>7 DEF SizesAt
<1>9. QED
  BY <1>3, <1>5, <1>8

\* Queueing a packet: its address lies in the received bytes, and in a stream
\* without losses it is the next packet.
LEMMA FrameInv == ASSUME IInv, Frame PROVE IInv'
<1> USE StreamFacts
<1>1. CASE pc' = "finish" /\ UNCHANGED <<scan, queue, dispatched>>
  <2>1. UNCHANGED <<sent, reading, buf, readPos, writePos, worker, closing, registered,
                    up, handled, dropped, garbled, lost, epoch>>
    BY DEF Frame, stream, buffer
  <2>2. TypeOK'
    BY <1>1, <2>1 DEF IInv, TypeOK
  <2>3. QED
    BY <1>1, <2>1, <2>2 DEF IInv, PositionsOK, ScanOnlyWhileFraming, Contiguous,
       AtPacketStart, ItemsCut, CutInEpoch, StreamPos, FramedInOrder
<1>2. ASSUME NEW s \in SizesAt(Address), DataSize - scan >= HeaderSize,
             ~Incomplete(DataSize - scan, s),
             queue' = Append(queue, [off |-> Address, len |-> s,
                                     first |-> buf[Address], epoch |-> epoch]),
             scan' = scan + s, dispatched' = dispatched + 1,
             pc' = IF s = 0 THEN "spin" ELSE pc
      PROVE  IInv'
  <2> DEFINE item == [off |-> Address, len |-> s, first |-> buf[Address], epoch |-> epoch]
  <2>1. /\ pc = "frame"
        /\ UNCHANGED <<sent, reading, buf, readPos, writePos, worker, closing, registered,
                       up, handled, dropped, garbled, lost, epoch>>
    BY DEF Frame, stream, buffer
  <2>2. s \in Nat
    BY <1>2, ConstantsOK DEF SizesAt
  <2>3. /\ Address = readPos + scan /\ Address \in 0 .. Capacity - 1
        /\ Address + s <= writePos /\ writePos <= Capacity
    BY <1>2, <2>2 DEF IInv, TypeOK, PositionsOK, Address, DataSize, Incomplete
  <2>4. item \in Item
    BY <2>2, <2>3 DEF IInv, TypeOK, Item
  <2>5. /\ queue \in Seq(Item) /\ queue' = Append(queue, item) /\ queue' \in Seq(Item)
        /\ Len(queue) \in Nat /\ Len(queue') = Len(queue) + 1
        /\ \A n \in 1 .. Len(queue) : queue'[n] = queue[n] /\ queue[n] \in Item
        /\ queue'[Len(queue) + 1] = item
    <3>1. queue \in Seq(Item) /\ queue' = Append(queue, item)
      BY <1>2 DEF IInv, TypeOK
    <3> HIDE DEF item
    <3>2. QED
      BY ONLY <2>4, <3>1
  <2>6. scan' \in 0 .. Capacity /\ readPos + scan' <= writePos /\ scan' >= scan
    BY <1>2, <2>2, <2>3 DEF IInv, TypeOK
  <2>7. pc' \in {"frame", "spin"} /\ dispatched' \in Nat
    BY <1>2, <2>1 DEF IInv, TypeOK
  <2>8. TypeOK'
    BY <2>1, <2>5, <2>6, <2>7 DEF IInv, TypeOK
  <2>9. PositionsOK' /\ ScanOnlyWhileFraming'
    BY <2>1, <2>6, <2>7 DEF IInv, PositionsOK, ScanOnlyWhileFraming
  <2>10. Contiguous'
    BY <2>1 DEF IInv, Contiguous, StreamPos
  <2>11. ASSUME ~lost PROVE /\ s = Sizes[dispatched + 1]
                            /\ buf[Address] = Start[dispatched + 1]
                            /\ StreamPos(Address) = Start[dispatched + 1]
                            /\ dispatched + 1 \in 1 .. Len(Sizes)
                            /\ Start[dispatched + 2] = Start[dispatched + 1] + s
    <3>1. /\ dispatched + 1 \in 1 .. Len(Sizes) /\ buf[Address] = Start[dispatched + 1]
          /\ s = Sizes[dispatched + 1]
      BY <1>2, <2>11, NextPacket
    <3>2. StreamPos(Address) = Start[dispatched + 1]
      BY <2>3, <2>11 DEF IInv, AtPacketStart
    <3>3. Start[(dispatched + 1) + 1] = Start[dispatched + 1] + s
      BY <3>1, StartOK
    <3>4. QED
      BY <3>1, <3>2, <3>3 DEF IInv, TypeOK
  <2>12. AtPacketStart'
    <3>1. CASE ~lost
      <4>1. dispatched \in 0 .. Len(Sizes) /\ Len(Sizes) \in Nat
        BY <3>1, StreamFacts DEF IInv, AtPacketStart
      <4>2. /\ dispatched' = dispatched + 1 /\ scan' = scan + s
            /\ readPos' = readPos /\ sent' = sent /\ writePos' = writePos
        BY <1>2, <2>1
      <4>3. dispatched' \in 0 .. Len(Sizes) /\ dispatched' + 1 = dispatched + 2
        BY <2>11, <3>1, <4>1, <4>2
      <4>4. sent - writePos + 1 + (readPos + scan) + s = Start[dispatched + 2]
        BY <2>3, <2>11, <3>1 DEF StreamPos
      <4>5. sent' - writePos' + 1 + (readPos' + scan') = Start[dispatched' + 1]
        <5>1. sent \in Int /\ writePos \in Int /\ readPos \in Int /\ scan \in Int
          BY DEF IInv, TypeOK
        <5>2. QED
          BY <2>2, <4>2, <4>3, <4>4, <5>1
      <4>6. QED
        BY <4>3, <4>5 DEF AtPacketStart, StreamPos
    <3>2. CASE lost
      BY <2>1, <3>2 DEF AtPacketStart
    <3>3. QED
      BY <3>1, <3>2
  <2>13. ItemsCut'
    <3> SUFFICES ASSUME ~lost PROVE ItemsCut'
      BY <2>1 DEF ItemsCut
    <3> DEFINE Cut(i) == /\ i.epoch <= epoch
                         /\ i.epoch = epoch /\ i.len > 0 =>
                              i.off + i.len <= readPos + scan' /\ i.first = StreamPos(i.off)
    <3>1. ASSUME NEW i \in Item, CutInEpoch(i) PROVE Cut(i)
      <4>1. i.off \in Nat /\ i.len \in Nat
        BY DEF Item
      <4>2. readPos \in Nat /\ scan \in Nat /\ scan' \in Nat
        BY <2>6 DEF IInv, TypeOK
      <4>3. QED
        BY <2>6, <3>1, <4>1, <4>2 DEF CutInEpoch
    <3>2. Cut(item)
      BY <1>2, <2>2, <2>3, <2>11 DEF IInv, TypeOK
    <3>3. Cut(worker.item)
      BY <3>1 DEF IInv, TypeOK, ItemsCut
    <3>4. ASSUME NEW n \in 1 .. Len(queue') PROVE Cut(queue'[n])
      <4>1. CASE n = Len(queue) + 1
        BY <2>5, <3>2, <4>1
      <4>2. CASE n \in 1 .. Len(queue)
        BY <2>5, <3>1, <4>2 DEF IInv, ItemsCut
      <4>3. QED
        BY <2>5, <4>1, <4>2
    <3>5. QED
      BY <2>1, <3>3, <3>4 DEF ItemsCut, CutInEpoch, StreamPos
  <2>14. FramedInOrder'
    <3> SUFFICES ASSUME ~lost PROVE FramedInOrder'
      BY <2>1 DEF FramedInOrder
    <3>1. ASSUME NEW n \in 1 .. Len(queue')
          PROVE  LET p == dispatched' - Len(queue') + n IN
                 /\ p \in 1 .. Len(Sizes)
                 /\ queue'[n].first = Start[p] /\ queue'[n].len = Sizes[p]
      <4>1. CASE n = Len(queue) + 1
        <5>1. /\ dispatched' = dispatched + 1 /\ dispatched \in Nat
              /\ Len(queue') = Len(queue) + 1 /\ Len(queue) \in Nat
          BY <1>2, <2>5 DEF IInv, TypeOK
        <5>2. dispatched' - Len(queue') + n = dispatched + 1
          BY ONLY <4>1, <5>1
        <5>3. queue'[n] = item
          BY <2>5, <4>1, Zenon
        <5>4. QED
          BY <2>11, <5>2, <5>3
      <4>2. CASE n \in 1 .. Len(queue)
        <5>1. dispatched' - Len(queue') + n = dispatched - Len(queue) + n
          BY <1>2, <2>5 DEF IInv, TypeOK
        <5>2. QED
          BY <2>5, <4>2, <5>1 DEF IInv, FramedInOrder
      <4>3. QED
        BY <2>5, <4>1, <4>2
    <3>2. QED
      BY <3>1 DEF FramedInOrder
  <2>15. QED
    BY <2>8, <2>9, <2>10, <2>12, <2>13, <2>14 DEF IInv
<1>3. QED
  BY <1>1, <1>2 DEF Frame

\* OnRead and Clear: rewinding an empty buffer starts an epoch in which no
\* item is queued; copying unread bytes down ends all claims.
LEMMA FinishInv == ASSUME IInv, Finish PROVE IInv'
<1> USE StreamFacts
<1>1. /\ pc' = "read" /\ scan' = 0
      /\ UNCHANGED <<sent, reading, queue, worker, closing, registered, up,
                     dispatched, handled, dropped, garbled>>
  BY DEF Finish, stream
<1>2. /\ sent \in 0 .. Total /\ readPos \in 0 .. Capacity /\ writePos \in 0 .. Capacity
      /\ scan \in 0 .. Capacity /\ epoch \in Nat /\ readPos + scan <= writePos
  BY DEF IInv, TypeOK, PositionsOK
<1>3. CASE scan = 0 /\ UNCHANGED <<buffer, lost, epoch>>
  <2>1. UNCHANGED <<buf, readPos, writePos, lost, epoch, scan>>
    BY <1>1, <1>3 DEF buffer
  <2>2. TypeOK'
    BY <1>1, <2>1 DEF IInv, TypeOK
  <2>3. QED
    BY <1>1, <2>1, <2>2 DEF IInv, PositionsOK, ScanOnlyWhileFraming, Contiguous,
       AtPacketStart, ItemsCut, CutInEpoch, StreamPos, FramedInOrder
<1>4. CASE /\ writePos = readPos + scan
           /\ readPos' = 0 /\ writePos' = 0 /\ epoch' = epoch + 1
           /\ UNCHANGED <<buf, lost>>
  <2>1. TypeOK'
    BY <1>1, <1>2, <1>4 DEF IInv, TypeOK
  <2>2. PositionsOK' /\ ScanOnlyWhileFraming' /\ Contiguous'
    BY <1>1, <1>2, <1>4 DEF PositionsOK, ScanOnlyWhileFraming, Contiguous
  <2>3. AtPacketStart'
    BY <1>1, <1>2, <1>4 DEF IInv, AtPacketStart, StreamPos
  <2>4. ItemsCut'
    <3>1. ASSUME NEW i \in Item, CutInEpoch(i)
          PROVE  i.epoch <= epoch + 1 /\ i.epoch # epoch + 1
      BY <1>2, <3>1 DEF CutInEpoch, Item
    <3>2. worker.item \in Item /\ \A n \in 1 .. Len(queue) : queue[n] \in Item
      BY DEF IInv, TypeOK
    <3>3. QED
      BY <1>1, <1>4, <3>1, <3>2 DEF IInv, ItemsCut, CutInEpoch
  <2>5. FramedInOrder'
    BY <1>1, <1>4 DEF IInv, FramedInOrder
  <2>6. QED
    BY <2>1, <2>2, <2>3, <2>4, <2>5 DEF IInv
<1>5. CASE /\ writePos # readPos + scan /\ lost' = TRUE
           /\ readPos' = 0 /\ writePos' = 0 /\ epoch' = epoch + 1
           /\ buf' = [i \in 0 .. Capacity - 1 |->
                        IF i < writePos - (readPos + scan)
                        THEN buf[(readPos + scan) + i] ELSE buf[i]]
  <2>1. buf' \in [0 .. Capacity - 1 -> 0 .. Total]
    BY <1>2, <1>5 DEF IInv, TypeOK
  <2>2. TypeOK'
    BY <1>1, <1>2, <1>5, <2>1 DEF IInv, TypeOK
  <2>3. QED
    BY <1>1, <1>5, <2>2 DEF IInv, PositionsOK, ScanOnlyWhileFraming, Contiguous,
       AtPacketStart, ItemsCut, FramedInOrder
<1>6. CASE readPos' = readPos + scan /\ UNCHANGED <<buf, writePos, lost, epoch>>
  <2>1. TypeOK'
    BY <1>1, <1>2, <1>6 DEF IInv, TypeOK
  <2>2. readPos' + scan' = readPos + scan
    BY <1>1, <1>2, <1>6
  <2>3. QED
    BY <1>1, <1>2, <1>6, <2>1, <2>2 DEF IInv, PositionsOK, ScanOnlyWhileFraming,
       Contiguous, AtPacketStart, ItemsCut, CutInEpoch, StreamPos, FramedInOrder
<1>7. QED
  <2>1. CASE scan # 0 /\ Clear(readPos + scan)
    <3>1. CASE writePos - (readPos + scan) = 0
      <4>1. writePos = readPos + scan
        BY <1>2, <3>1
      <4>2. QED
        BY <1>4, <2>1, <3>1, <4>1 DEF Clear
    <3>2. CASE writePos - (readPos + scan) # 0
      <4>1. writePos # readPos + scan
        BY <1>2, <3>2
      <4>2. CASE FreeSize < BufferSize
        <5>1. ~(FreeSize >= BufferSize)
          BY <1>2, <4>2 DEF FreeSize
        <5>2. QED
          BY <1>5, <2>1, <3>2, <4>1, <5>1 DEF Clear
      <4>3. CASE ~(FreeSize < BufferSize)
        BY <1>6, <2>1, <3>2, <4>3 DEF Clear
      <4>4. QED
        BY <4>2, <4>3
    <3>3. QED
      BY <3>1, <3>2
  <2>2. QED
    BY <1>3, <2>1 DEF Finish

\* The end of the connection touches neither buffer nor queue.
LEMMA CloseInv == ASSUME IInv, PeerCloses \/ CloseSession PROVE IInv'
<1>1. UNCHANGED <<sent, buf, readPos, writePos, pc, scan, queue, worker, up, dispatched,
                  handled, dropped, garbled, lost, epoch>>
  BY DEF PeerCloses, CloseSession, buffer, ghosts
<1>2. reading' \in BOOLEAN /\ closing' \in BOOLEAN /\ registered' \in BOOLEAN
  BY DEF PeerCloses, CloseSession, IInv, TypeOK
<1>3. TypeOK'
  BY <1>1, <1>2 DEF IInv, TypeOK
<1>4. QED
  BY <1>1, <1>3 DEF IInv, PositionsOK, ScanOnlyWhileFraming, Contiguous,
     AtPacketStart, ItemsCut, CutInEpoch, StreamPos, FramedInOrder

\* Taking the oldest item renumbers the others.
LEMMA PopInv == ASSUME IInv, Pop PROVE IInv'
<1>1. /\ queue # <<>> /\ queue' = Tail(queue)
      /\ UNCHANGED <<sent, reading, buf, readPos, writePos, pc, scan, closing, registered,
                     up, dispatched, handled, garbled, lost, epoch>>
  BY DEF Pop, stream, buffer
<1>2. /\ queue' \in Seq(Item) /\ Len(queue) \in Nat /\ Len(queue) >= 1
      /\ Len(queue') = Len(queue) - 1
      /\ \A n \in 1 .. Len(queue') : queue'[n] = queue[n + 1] /\ n + 1 \in 1 .. Len(queue)
      /\ Head(queue) = queue[1] /\ Head(queue) \in Item
  BY <1>1 DEF IInv, TypeOK
<1>3. worker' = worker \/ worker' = [pc |-> "header", item |-> Head(queue), good |-> TRUE]
  BY DEF Pop
<1>4. TypeOK'
  <2>1. worker' \in [pc : {"idle", "header", "payload"}, item : Item, good : BOOLEAN]
    <3>1. CASE worker' = worker
      BY <3>1 DEF IInv, TypeOK
    <3>2. CASE worker' = [pc |-> "header", item |-> Head(queue), good |-> TRUE]
      BY <1>2, <3>2
    <3>3. QED
      BY <1>3, <3>1, <3>2
  <2>2. dropped' \in BOOLEAN
    BY DEF Pop, IInv, TypeOK
  <2>3. QED
    BY <1>1, <1>2, <2>1, <2>2 DEF IInv, TypeOK
<1>5. PositionsOK' /\ ScanOnlyWhileFraming' /\ Contiguous' /\ AtPacketStart'
  BY <1>1 DEF IInv, PositionsOK, ScanOnlyWhileFraming, Contiguous, AtPacketStart, StreamPos
<1>6. ItemsCut'
  <2>1. worker'.item = worker.item \/ worker'.item = queue[1]
    BY <1>2, <1>3
  <2>2. QED
    BY <1>1, <1>2, <2>1 DEF IInv, ItemsCut, CutInEpoch, StreamPos
<1>7. FramedInOrder'
  <2> SUFFICES ASSUME ~lost, NEW n \in 1 .. Len(queue')
               PROVE  LET p == dispatched' - Len(queue') + n IN
                      /\ p \in 1 .. Len(Sizes)
                      /\ queue'[n].first = Start[p] /\ queue'[n].len = Sizes[p]
    BY <1>1 DEF FramedInOrder
  <2>1. dispatched' - Len(queue') + n = dispatched - Len(queue) + (n + 1)
    BY <1>1, <1>2 DEF IInv, TypeOK
  <2>2. QED
    BY <1>2, <2>1 DEF IInv, FramedInOrder
<1>8. QED
  BY <1>4, <1>5, <1>6, <1>7 DEF IInv

\* Reading a packet changes no byte; a worker that is done holds no item.
LEMMA ReadInv == ASSUME IInv, ReadHeader \/ ReadPayload PROVE IInv'
<1>1. UNCHANGED <<sent, reading, buf, readPos, writePos, pc, scan, queue, closing,
                  registered, dispatched, dropped, lost, epoch>>
  BY DEF ReadHeader, ReadPayload, stream, buffer, ghosts
<1>2. worker.item \in Item /\ NoItem \in Item
  BY ConstantsOK DEF IInv, TypeOK, NoItem, Item
<1>3. worker' \in [pc : {"idle", "header", "payload"}, item : Item, good : BOOLEAN]
  <2>1. CASE ReadHeader
    <3>1. Intact(worker.item, 0, HeaderSize - 1) \in BOOLEAN
      BY DEF Intact
    <3>2. worker' = [worker EXCEPT !.pc = "payload",
                                   !.good = Intact(worker.item, 0, HeaderSize - 1)]
      BY <2>1 DEF ReadHeader
    <3>3. QED
      BY <3>1, <3>2 DEF IInv, TypeOK
  <2>2. CASE ReadPayload
    BY <1>2, <2>2 DEF ReadPayload, Idle
  <2>3. QED
    BY <2>1, <2>2
<1>4. up' \in BOOLEAN /\ garbled' \in BOOLEAN /\ handled' \in Nat
  <2>1. CASE ReadHeader
    BY <2>1 DEF ReadHeader, ghosts, IInv, TypeOK
  <2>2. CASE ReadPayload
    BY <2>2 DEF ReadPayload, IInv, TypeOK
  <2>3. QED
    BY <2>1, <2>2
<1>5. TypeOK'
  BY <1>1, <1>3, <1>4 DEF IInv, TypeOK
<1>6. ItemsCut'
  <2>1. worker'.item = worker.item \/ worker'.item = NoItem
    <3>1. CASE ReadHeader
      BY <3>1 DEF ReadHeader, IInv, TypeOK
    <3>2. CASE ReadPayload
      BY <3>2 DEF ReadPayload, Idle
    <3>3. QED
      BY <3>1, <3>2
  <2>2. QED
    BY <1>1, <2>1 DEF IInv, TypeOK, ItemsCut, CutInEpoch, StreamPos, NoItem
<1>7. QED
  BY <1>1, <1>5, <1>6 DEF IInv, PositionsOK, ScanOnlyWhileFraming, Contiguous,
     AtPacketStart, StreamPos, FramedInOrder

-----------------------------------------------------------------------------
\* The invariant is inductive.
LEMMA StepInv == IInv /\ [Next]_vars => IInv'
<1> SUFFICES ASSUME IInv, [Next]_vars PROVE IInv'
  OBVIOUS
<1>1. CASE Next
  BY <1>1, AddDataInv, FrameInv, FinishInv, CloseInv, PopInv, ReadInv DEF Next, Io, Worker
<1>2. CASE UNCHANGED vars
  <2>1. TypeOK'
    BY <1>2 DEF vars, IInv, TypeOK
  <2>2. QED
    BY <1>2, <2>1 DEF vars, IInv, PositionsOK, ScanOnlyWhileFraming, Contiguous,
       AtPacketStart, ItemsCut, CutInEpoch, StreamPos, FramedInOrder
<1>3. QED
  BY <1>1, <1>2

\* The invariant holds in every state, whatever the split into reads.
THEOREM Invariance == Spec => []IInv
<1>1. Init => IInv
  BY InitInv
<1>2. IInv /\ [Next]_vars => IInv'
  BY StepInv
<1>3. QED
  BY <1>1, <1>2, PTL DEF Spec

\* The variables keep their types: no write of HandleRead or Clear ends past
\* m_Capacity.
THEOREM TypeCorrect == Spec => []TypeOK
<1>1. IInv => TypeOK
  BY DEF IInv
<1>2. QED
  BY <1>1, Invariance, PTL

\* ProcessPacket never cuts a packet out of bytes that were not received, and it
\* queues the packets of the stream, each once and in order, as long as AddData
\* and Clear threw no byte away.
THEOREM CutSafe == Spec => []CutOnce
<1>1. IInv => CutOnce
  BY DEF IInv, CutOnce
<1>2. QED
  BY <1>1, Invariance, PTL

-----------------------------------------------------------------------------
(* What came whole *)

\* Outside ProcessPacket's loop no packet that came whole is left uncut.
NoneLeft ==
  ~lost /\ pc # "frame" =>
    \A p \in 1 .. Len(Sizes) : sent >= Start[p + 1] - 1 => p <= dispatched

\* A queued packet is handled, with the worker, or waits, unless it was dropped
\* for want of its session.
Busy == IF worker.pc = "idle" THEN 0 ELSE 1
NoneForgotten == ~dropped => dispatched = handled + Len(queue) + Busy

WholeInv == NoneLeft /\ NoneForgotten

\* The packet that is not complete yet is the next, and none behind it is.
LEMMA FrameLeaves ==
  ASSUME IInv, Frame, ~lost, pc' # "frame", NEW p \in 1 .. Len(Sizes), p > dispatched
  PROVE  dispatched' = dispatched /\ sent < Start[p + 1] - 1
<1> USE StreamFacts
<1> DEFINE rest == DataSize - scan
           d == dispatched + 1
<1>1. /\ rest \in Int /\ rest <= DataSize /\ sent \in Nat
      /\ dispatched \in Nat /\ d \in 1 .. Len(Sizes) /\ d <= p
  BY DEF IInv, TypeOK, AtPacketStart, DataSize
<1>2. Start[d] = sent + 1 - rest
  BY DEF IInv, TypeOK, AtPacketStart, StreamPos, DataSize
<1>3. dispatched' = dispatched /\ rest < Sizes[d]
  <2>1. CASE rest < HeaderSize
    <3>1. dispatched' = dispatched
      BY <1>1, <2>1 DEF Frame
    <3>2. Sizes[d] \in Nat /\ HeaderSize <= Sizes[d] /\ HeaderSize \in Nat
      BY <1>1
    <3>3. QED
      BY <1>1, <2>1, <3>1, <3>2
  <2>2. CASE rest >= HeaderSize
    <3>1. SizesAt(Address) = {Sizes[d]}
      BY <2>2, NextPacket
    <3>2. Sizes[d] # 0
      BY <1>1
    <3>3. Incomplete(rest, Sizes[d]) /\ dispatched' = dispatched
      BY <2>2, <3>1, <3>2, <1>1 DEF Frame
    <3>4. QED
      BY <3>3 DEF Incomplete
  <2>3. QED
    BY <1>1, <2>1, <2>2
<1>4. Start[d + 1] = Start[d] + Sizes[d]
  BY <1>1, StartOK
<1>5. Start[d + 1] <= Start[p + 1]
  <2>1. CASE d = p
    BY <2>1, <1>1
  <2>2. CASE d # p
    <3>1. d + 1 \in 1 .. Len(Sizes) + 1 /\ p + 1 \in 1 .. Len(Sizes) + 1 /\ d + 1 < p + 1
      BY <1>1, <2>2
    <3>2. Start[d + 1] < Start[p + 1] /\ Start[d + 1] \in Nat /\ Start[p + 1] \in Nat
      BY <3>1, StartOK
    <3>3. QED
      BY <3>2
  <2>3. QED
    BY <2>1, <2>2
<1>6. /\ Start[d] \in Nat /\ Start[d + 1] \in Nat /\ Start[p + 1] \in Nat
      /\ Sizes[d] \in Nat
  BY <1>1
<1>7. sent + 1 < Start[p + 1]
  <2> HIDE DEF rest, d
  <2>1. Start[d + 1] > sent + 1
    BY ONLY <1>1, <1>2, <1>3, <1>4, <1>6
  <2>2. QED
    BY ONLY <1>1, <1>5, <1>6, <2>1
<1>8. QED
  BY <1>1, <1>3, <1>6, <1>7

LEMMA InitWhole == Init => WholeInv
<1> SUFFICES ASSUME Init PROVE WholeInv
  OBVIOUS
<1> USE StreamFacts
<1>1. NoneForgotten
  BY DEF Init, NoneForgotten, Busy, Idle
<1>2. ASSUME NEW p \in 1 .. Len(Sizes) PROVE sent < Start[p + 1] - 1
  <2>1. Start[1] < Start[p + 1] /\ Start[1] = 1 /\ Start[p + 1] \in Nat /\ sent = 0
    BY StartOK DEF Init
  <2>2. QED
    BY <2>1
<1>3. NoneLeft
  <2>1. ASSUME NEW p \in 1 .. Len(Sizes), sent >= Start[p + 1] - 1 PROVE FALSE
    <3>1. sent < Start[p + 1] - 1 /\ sent = 0 /\ Start[p + 1] \in Nat
      BY <1>2 DEF Init
    <3>2. QED
      BY <2>1, <3>1
  <2>2. QED
    BY <2>1 DEF NoneLeft
<1>4. QED
  BY <1>1, <1>3 DEF WholeInv

LEMMA StepWhole == IInv /\ WholeInv /\ [Next]_vars => WholeInv'
<1> SUFFICES ASSUME IInv, WholeInv, [Next]_vars PROVE WholeInv'
  OBVIOUS
<1> USE StreamFacts
<1>1. /\ sent \in Nat /\ dispatched \in Nat /\ handled \in Nat /\ queue \in Seq(Item)
      /\ Len(queue) \in Nat /\ worker.pc \in {"idle", "header", "payload"}
  BY DEF IInv, TypeOK
<1>2. NoneLeft /\ NoneForgotten
  BY DEF WholeInv
<1>3. ASSUME NEW n \in 1 .. Capacity, AddData(n) PROVE WholeInv'
  <2>1. pc' = "frame" /\ UNCHANGED <<dropped, dispatched, handled, queue, worker>>
    BY <1>3 DEF AddData
  <2>2. QED
    BY <1>2, <2>1 DEF WholeInv, NoneLeft, NoneForgotten, Busy
<1>4. CASE Frame
  <2>1. /\ pc = "frame"
        /\ UNCHANGED <<sent, lost, dropped, handled, worker>>
    BY <1>4 DEF Frame, stream
  <2>2. NoneLeft'
    <3> SUFFICES ASSUME ~lost, pc' # "frame", NEW p \in 1 .. Len(Sizes), sent >= Start[p + 1] - 1
                 PROVE  p <= dispatched'
      BY <2>1 DEF NoneLeft
    <3>1. Start[p + 1] \in Nat
      OBVIOUS
    <3>2. CASE p > dispatched
      <4>1. sent < Start[p + 1] - 1
        BY <1>4, <3>2, FrameLeaves
      <4>2. QED
        BY <1>1, <3>1, <4>1
    <3>3. CASE p <= dispatched
      <4>1. dispatched' = dispatched \/ dispatched' = dispatched + 1
        BY <1>4 DEF Frame
      <4>2. QED
        BY <1>1, <3>3, <4>1
    <3>4. QED
      BY <1>1, <3>2, <3>3
  <2>3. NoneForgotten'
    <3>1. CASE UNCHANGED <<queue, dispatched>>
      BY <1>2, <2>1, <3>1 DEF NoneForgotten, Busy
    <3>2. CASE dispatched' = dispatched + 1 /\ \E x : queue' = Append(queue, x)
      <4>1. Len(queue') = Len(queue) + 1
        BY <1>1, <3>2
      <4>2. QED
        BY <1>1, <1>2, <2>1, <3>2, <4>1 DEF NoneForgotten, Busy
    <3>3. QED
      BY <1>4, <3>1, <3>2 DEF Frame
  <2>4. QED
    BY <2>2, <2>3 DEF WholeInv
<1>5. CASE Finish \/ PeerCloses \/ CloseSession \/ ReadHeader
  <2>1. /\ UNCHANGED <<sent, dispatched, dropped, handled, queue>>
        /\ (lost' = lost \/ lost' = TRUE) /\ (pc' # "frame" => pc # "frame")
    BY <1>5 DEF Finish, Clear, PeerCloses, CloseSession, ReadHeader, stream, ghosts
  <2>2. Busy' = Busy
    <3>1. CASE worker' = worker
      BY <3>1 DEF Busy
    <3>2. CASE ReadHeader
      <4>1. worker \in [pc : {"idle", "header", "payload"}, item : Item, good : BOOLEAN]
        BY DEF IInv, TypeOK
      <4>2. worker.pc = "header" /\ worker'.pc = "payload"
        BY <3>2, <4>1 DEF ReadHeader
      <4>3. QED
        BY <4>2 DEF Busy
    <3>3. QED
      BY <1>5, <3>1, <3>2 DEF Finish, PeerCloses, CloseSession
  <2>3. NoneLeft' /\ NoneForgotten'
    BY <1>2, <2>1, <2>2 DEF NoneLeft, NoneForgotten
  <2>4. QED
    BY <2>3 DEF WholeInv
<1>6. CASE Pop
  <2>9. /\ UNCHANGED <<sent, dispatched, handled, lost, pc>> /\ queue' = Tail(queue)
        /\ worker = Idle /\ queue # <<>>
    BY <1>6 DEF Pop, stream
  <2>10. dropped' = TRUE \/ (dropped' = dropped /\ worker'.pc = "header")
    <3>1. CASE registered
      <4>1. worker' = [pc |-> "header", item |-> Head(queue), good |-> TRUE] /\ UNCHANGED dropped
        BY <1>6, <3>1 DEF Pop
      <4>2. QED
        BY <4>1
    <3>2. CASE ~registered
      <4>1. dropped' = TRUE
        BY <1>6, <3>2, Zenon DEF Pop
      <4>2. QED
        BY <4>1
    <3>3. QED
      BY <3>1, <3>2
  <2>1. /\ UNCHANGED <<sent, dispatched, handled, lost, pc>> /\ queue' = Tail(queue)
        /\ worker.pc = "idle" /\ queue # <<>>
        /\ dropped' = TRUE \/ (dropped' = dropped /\ worker'.pc = "header")
    BY <2>9, <2>10 DEF Idle
  <2>2. Len(queue') = Len(queue) - 1
    BY <1>1, <2>1
  <2>3. NoneForgotten'
    <3> SUFFICES ASSUME ~dropped'
                 PROVE  dispatched' = handled' + Len(queue') + Busy'
      BY DEF NoneForgotten
    <3>1. ~dropped /\ worker'.pc = "header" /\ worker.pc = "idle"
      BY <2>1
    <3>2. Busy = 0 /\ Busy' = 1
      BY <3>1 DEF Busy
    <3>3. dispatched = handled + Len(queue) + Busy
      BY <1>2, <3>1, Zenon DEF NoneForgotten
    <3>4. /\ dispatched' = dispatched /\ handled' = handled /\ Len(queue') = Len(queue) - 1
          /\ handled \in Nat /\ Len(queue) \in Nat
      BY <1>1, <2>1, <2>2, Zenon
    <3>5. QED
      BY ONLY <3>2, <3>3, <3>4
  <2>4. NoneLeft'
    BY <1>2, <2>1 DEF NoneLeft
  <2>5. QED
    BY <2>3, <2>4 DEF WholeInv
<1>7. CASE ReadPayload
  <2>1. /\ UNCHANGED <<sent, dispatched, dropped, lost, pc, queue>>
        /\ worker.pc = "payload" /\ worker'.pc = "idle" /\ handled' = handled + 1
    BY <1>7 DEF ReadPayload, stream, Idle
  <2>2. NoneForgotten'
    BY <1>1, <1>2, <2>1 DEF NoneForgotten, Busy
  <2>3. NoneLeft'
    BY <1>2, <2>1 DEF NoneLeft
  <2>4. QED
    BY <2>2, <2>3 DEF WholeInv
<1>8. CASE UNCHANGED vars
  BY <1>2, <1>8 DEF vars, WholeInv, NoneLeft, NoneForgotten, Busy
<1>9. QED
  BY <1>3, <1>4, <1>5, <1>6, <1>7, <1>8 DEF Next, Io, Worker

THEOREM WholeInvariance == Spec => [](IInv /\ WholeInv)
<1>1. Init => IInv /\ WholeInv
  BY InitInv, InitWhole
<1>2. (IInv /\ WholeInv) /\ [Next]_vars => (IInv /\ WholeInv)'
  BY StepInv, StepWhole
<1>3. QED
  BY <1>1, <1>2, PTL DEF Spec

\* The unread bytes of the PacketBuffer are the latest of the stream, and none of
\* them ends a packet when ProcessPacket's loop is done.
THEOREM UnreadSafe == Spec => []UnreadIsLatest
<1>1. ASSUME IInv, ~lost, NEW j \in 1 .. DataSize PROVE buf[writePos - j] = sent + 1 - j
  <2>1. readPos \in Nat /\ writePos \in Nat /\ sent \in Nat /\ j \in Nat /\ j <= writePos - readPos
    BY <1>1, StreamFacts DEF IInv, TypeOK, DataSize
  <2>2. writePos - j \in 0 .. writePos - 1
    BY <2>1
  <2>3. buf[writePos - j] = StreamPos(writePos - j)
    BY <1>1, <2>2 DEF IInv, Contiguous
  <2>4. QED
    BY <2>1, <2>3 DEF StreamPos
<1>2. IInv /\ WholeInv => UnreadIsLatest
  BY <1>1 DEF UnreadIsLatest, WholeInv, NoneLeft
<1>3. QED
  BY <1>2, WholeInvariance, PTL

\* A packet that came whole is handled, with the worker, in its queue, or about to
\* be cut in the loop that runs, unless bytes were thrown away or packets dropped
\* for want of their session: what keeps ReceivedIsHandled is only that
\* ProcessPacket's loop and the worker go on.
THEOREM ReceivedIsKept ==
  Spec => [](~lost /\ ~dropped /\ pc # "frame" =>
               \A p \in 1 .. Len(Sizes) :
                 sent >= Start[p + 1] - 1 => p <= handled + Len(queue) + Busy)
<1>1. WholeInv => (~lost /\ ~dropped /\ pc # "frame" =>
                     \A p \in 1 .. Len(Sizes) :
                       sent >= Start[p + 1] - 1 => p <= handled + Len(queue) + Busy)
  BY DEF WholeInv, NoneLeft, NoneForgotten
<1>2. QED
  BY <1>1, WholeInvariance, PTL

-----------------------------------------------------------------------------
\* The address ProcessPacket queued points at the packet's bytes until Clear
\* rewinds the buffer.
THEOREM AddressSafe == Spec => []IntactUntilRewind
<1>1. ASSUME IInv, ~lost, NEW i \in Item, CutInEpoch(i), i.epoch = epoch,
             NEW j \in 0 .. i.len - 1
      PROVE  buf[i.off + j] = i.first + j
  <2>1. i.off \in Nat /\ i.len \in Nat /\ i.len > 0 /\ j \in Nat /\ j < i.len
    BY StreamFacts DEF Item
  <2>2. i.off + i.len <= readPos + scan /\ i.first = StreamPos(i.off)
    BY <1>1, <2>1 DEF CutInEpoch
  <2>3. /\ readPos \in Nat /\ scan \in Nat /\ writePos \in Nat /\ sent \in Nat
        /\ readPos + scan <= writePos
    BY <1>1, StreamFacts DEF IInv, TypeOK, PositionsOK
  <2>4. i.off + j \in 0 .. writePos - 1
    BY <2>1, <2>2, <2>3
  <2>5. buf[i.off + j] = StreamPos(i.off + j)
    BY <1>1, <2>4 DEF IInv, Contiguous
  <2>6. QED
    BY <2>1, <2>2, <2>3, <2>5 DEF StreamPos
<1>2. IInv => IntactUntilRewind
  <2> SUFFICES ASSUME IInv, ~lost,
                      NEW i \in {queue[n] : n \in 1 .. Len(queue)} \cup {worker.item},
                      i.epoch = epoch
               PROVE  Intact(i, 0, i.len - 1)
    BY DEF IntactUntilRewind
  <2>1. i \in Item
    BY DEF IInv, TypeOK
  <2>2. CutInEpoch(i)
    BY DEF IInv, ItemsCut
  <2>3. QED
    BY <1>1, <2>1, <2>2 DEF Intact
<1>3. QED
  BY <1>2, Invariance, PTL

-----------------------------------------------------------------------------
(* RecvBuffer implements PacketChannel. *)

\* First byte and size tell which packet an item is.
LEMMA PacketOfItem ==
  ASSUME NEW i, NEW p \in 1 .. Len(Sizes), i.first = Start[p], i.len = Sizes[p]
  PROVE  PacketOf(i) = p
<1>1. \A q \in 1 .. Len(Sizes) : Start[q] = i.first /\ Sizes[q] = i.len => q = p
  <2>1. ASSUME NEW q \in 1 .. Len(Sizes), Start[q] = i.first PROVE q = p
    <3>1. ~(q < p) /\ ~(p < q)
      BY <2>1, StartOK, StreamFacts
    <3>2. QED
      BY <3>1, StreamFacts
  <2>2. QED
    BY <2>1
<1>2. QED
  BY <1>1 DEF PacketOf

\* The waiting packets are the last ones dispatched.
LEMMA WaitingNumbers ==
  ASSUME IInv, ~lost
  PROVE  \A n \in 1 .. Len(queue) :
           /\ dispatched - Len(queue) + n \in 1 .. Len(Sizes)
           /\ PacketOf(queue[n]) = dispatched - Len(queue) + n
  BY PacketOfItem DEF IInv, FramedInOrder

\* A step that changes none of these is no step of the channel.
LEMMA ChannelStutters ==
  ASSUME UNCHANGED <<sent, queue, dispatched, lost>>
  PROVE  UNCHANGED Channel!channel
  BY DEF Channel!channel

\* Bytes that are stored are received, bytes that do not fit break the channel.
LEMMA AddDataRefines ==
  ASSUME IInv, NEW n \in 1 .. Capacity, AddData(n)
  PROVE  [Channel!Next]_Channel!channel
<1>1. sent' = sent + n /\ UNCHANGED <<queue, dispatched>> /\ sent \in Nat /\ n \in Nat
  BY StreamFacts DEF AddData, IInv, TypeOK
<1>2. CASE ~lost /\ lost' = TRUE
  BY <1>2 DEF Channel!Next, Channel!Break
<1>3. CASE ~lost /\ lost' = lost
  <2>1. sent' > sent
    BY <1>1, StreamFacts
  <2>2. QED
    BY <1>1, <1>3, <2>1 DEF Channel!Next, Channel!Receive
<1>4. CASE lost /\ lost' = TRUE
  BY <1>4 DEF Channel!channel
<1>5. lost \in BOOLEAN /\ (lost' = TRUE \/ lost' = lost)
  BY DEF IInv, TypeOK, AddData
<1>6. QED
  BY <1>2, <1>3, <1>4, <1>5

\* Cutting a packet hands on the next one, whose last byte has been received.
LEMMA FrameRefines == ASSUME IInv, Frame PROVE [Channel!Next]_Channel!channel
<1> USE StreamFacts
<1>1. UNCHANGED <<sent, readPos, writePos, lost>>
  BY DEF Frame, stream, buffer
<1>2. CASE UNCHANGED <<queue, dispatched>>
  BY <1>1, <1>2, ChannelStutters
<1>3. ASSUME NEW s \in SizesAt(Address), DataSize - scan >= HeaderSize,
             ~Incomplete(DataSize - scan, s),
             queue' = Append(queue, [off |-> Address, len |-> s,
                                     first |-> buf[Address], epoch |-> epoch]),
             dispatched' = dispatched + 1
      PROVE  [Channel!Next]_Channel!channel
  <2> DEFINE item == [off |-> Address, len |-> s, first |-> buf[Address], epoch |-> epoch]
             d == dispatched + 1
             before == [n \in 1 .. Len(queue) |-> PacketOf(queue[n])]
             after == [n \in 1 .. Len(queue') |-> PacketOf(queue'[n])]
  <2>1. CASE lost
    BY <1>1, <2>1 DEF Channel!channel
  <2>2. CASE ~lost
    <3>1. /\ d \in 1 .. Len(Sizes) /\ buf[Address] = Start[d] /\ s = Sizes[d]
      BY <1>3, <2>2, NextPacket
    <3>2. StreamPos(Address) = Start[d] /\ Address = readPos + scan
      BY <2>2 DEF IInv, AtPacketStart, Address
    <3>3. Start[d + 1] = Start[d] + s
      BY <3>1, StartOK
    <3>4. Start[d + 1] - 1 <= sent
      <4>1. readPos \in Nat /\ scan \in Nat /\ writePos \in Nat /\ sent \in Nat /\ s \in Nat
        BY <3>1 DEF IInv, TypeOK
      <4>2. readPos + scan + s <= writePos
        BY <1>3, <4>1 DEF DataSize, Incomplete
      <4>3. Start[d + 1] = sent - writePos + 1 + (readPos + scan) + s
        BY <3>2, <3>3, Zenon DEF StreamPos
      <4>4. QED
        BY ONLY <4>1, <4>2, <4>3
    <3>5. PacketOf(item) = d
      <4>1. item.first = Start[d] /\ item.len = Sizes[d] /\ d \in 1 .. Len(Sizes)
        BY <3>1
      <4> HIDE DEF item, d
      <4>2. QED
        BY ONLY <4>1, PacketOfItem
    <3>6. /\ Len(queue) \in Nat /\ Len(queue') = Len(queue) + 1
          /\ \A n \in 1 .. Len(queue) : queue'[n] = queue[n]
          /\ queue'[Len(queue) + 1] = item
      BY <1>3 DEF IInv, TypeOK
    <3>7. before \in Seq(Nat) /\ Len(before) = Len(queue)
      BY <2>2, <3>6, WaitingNumbers
    <3>8. after = Append(before, d)
      <4>1. Append(before, d) = [n \in 1 .. Len(queue) + 1 |->
                                   IF n = Len(queue) + 1 THEN d ELSE before[n]]
        BY <3>1, <3>6, <3>7
      <4>2. \A n \in 1 .. Len(queue) + 1 :
              PacketOf(queue'[n]) = IF n = Len(queue) + 1 THEN d ELSE before[n]
        <5>1. ASSUME NEW n \in 1 .. Len(queue) PROVE PacketOf(queue'[n]) = before[n]
          BY <3>6
        <5>2. PacketOf(queue'[Len(queue) + 1]) = d
          BY <3>5, <3>6
        <5>3. QED
          BY <3>6, <5>1, <5>2
      <4>3. QED
        BY <3>6, <4>1, <4>2, Zenon
    <3>9. dispatched < Len(Sizes) /\ [p \in 1 .. Len(Sizes) |-> Start[p + 1] - 1][d] <= sent
      BY <3>1, <3>4 DEF IInv, TypeOK
    <3>10. QED
      BY <1>1, <1>3, <2>2, <3>8, <3>9 DEF Channel!Next, Channel!Hand
  <2>3. QED
    BY <2>1, <2>2 DEF IInv, TypeOK
<1>4. QED
  BY <1>2, <1>3 DEF Frame

\* OnRead and Clear are not seen, unless Clear throws bytes away.
LEMMA FinishRefines == ASSUME IInv, Finish PROVE [Channel!Next]_Channel!channel
<1>1. UNCHANGED <<sent, queue, dispatched>>
  BY DEF Finish, stream
<1>2. lost' = lost \/ lost' = TRUE
  BY DEF Finish, Clear
<1>3. CASE lost' = lost
  BY <1>1, <1>3, ChannelStutters
<1>4. CASE ~lost /\ lost' = TRUE
  BY <1>4 DEF Channel!Next, Channel!Break
<1>5. QED
  BY <1>2, <1>3, <1>4 DEF IInv, TypeOK

\* The worker takes the oldest packet.
LEMMA PopRefines == ASSUME IInv, Pop PROVE [Channel!Next]_Channel!channel
<1> DEFINE before == [n \in 1 .. Len(queue) |-> PacketOf(queue[n])]
           after == [n \in 1 .. Len(queue') |-> PacketOf(queue'[n])]
<1>1. queue # <<>> /\ queue' = Tail(queue) /\ UNCHANGED <<sent, dispatched, lost>>
  BY DEF Pop, stream
<1>2. CASE lost
  BY <1>1, <1>2 DEF Channel!channel
<1>3. CASE ~lost
  <2>1. /\ Len(queue) \in Nat /\ Len(queue) >= 1 /\ Len(queue') = Len(queue) - 1
        /\ \A n \in 1 .. Len(queue') : queue'[n] = queue[n + 1] /\ n + 1 \in 1 .. Len(queue)
    BY <1>1 DEF IInv, TypeOK
  <2>2. before \in Seq(Nat) /\ Len(before) = Len(queue) /\ before # <<>>
    BY <1>3, <2>1, WaitingNumbers
  <2>3. Tail(before) = [n \in 1 .. Len(queue) - 1 |-> before[n + 1]]
    BY <2>1, <2>2
  <2>4. after = Tail(before)
    BY <2>1, <2>3
  <2>5. QED
    BY <1>1, <1>3, <2>2, <2>4 DEF Channel!Next, Channel!Take
<1>4. QED
  BY <1>2, <1>3

\* The inbound path implements the channel of whole packets in order.
THEOREM ChannelImplemented == Spec => ImplementsChannel
<1>1. Init => Channel!Init
  BY DEF Init, Channel!Init
<1>2. IInv /\ [Next]_vars => [Channel!Next]_Channel!channel
  <2> SUFFICES ASSUME IInv, [Next]_vars PROVE [Channel!Next]_Channel!channel
    OBVIOUS
  <2>1. CASE \E n \in 1 .. Capacity : AddData(n)
    BY <2>1, AddDataRefines
  <2>2. CASE Frame
    BY <2>2, FrameRefines
  <2>3. CASE Finish
    BY <2>3, FinishRefines
  <2>4. CASE Pop
    BY <2>4, PopRefines
  <2>5. CASE PeerCloses \/ CloseSession \/ ReadHeader \/ ReadPayload \/ UNCHANGED vars
    <3>1. UNCHANGED <<sent, queue, dispatched, lost>>
      BY <2>5 DEF PeerCloses, CloseSession, ReadHeader, ReadPayload, stream, ghosts, vars
    <3>2. QED
      BY <3>1, ChannelStutters
  <2>6. QED
    BY <2>1, <2>2, <2>3, <2>4, <2>5 DEF Next, Io, Worker
<1>3. QED
  BY <1>1, <1>2, Invariance, PTL DEF Spec, ImplementsChannel, Channel!Spec

=============================================================================
