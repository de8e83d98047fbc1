---------------------------- MODULE SendPathProofs ----------------------------
(* That a Packet of the PacketPool never carries two messages at once, for   *)
(* any number of threads, messages and Packets and any size of the pool.     *)
EXTENDS SendPath, FiniteSetTheorems, TLAPS

\* A sender has a message from MakePacket on and a Packet after its Pop; Push
\* holds a Packet exactly between its test and its push.
StepsHold ==
  /\ \A s \in Sender : /\ sender[s].pc # "idle" => sender[s].msg # NoMsg
                       /\ sender[s].pc \in {"popped", "new"} <=> sender[s].pkt # NoPkt
  /\ \A t \in Io : io[t].pc = "push" <=> io[t].pkt # NoPkt

\* The inductive invariant.
IInv == TypeOK /\ StepsHold /\ PoolExclusive /\ WriteKeepsBytes

LEMMA Counting ==
  ASSUME TypeOK
  PROVE  OneLess \in 0 .. Wrap - 1 /\ 0 \in 0 .. Wrap - 1
BY ConstantsOK DEF OneLess, TypeOK

\* What Head, Tail and Append do to a queue without duplicates.
LEMMA PopQueue ==
  ASSUME NEW q \in Seq(Pkt), q # <<>>
  PROVE  /\ Head(q) \in Pkt /\ Tail(q) \in Seq(Pkt)
         /\ Len(q) \in Nat \ {0} /\ Head(q) = q[1]
         /\ Len(Tail(q)) = Len(q) - 1
         /\ \A i \in 1 .. Len(q) - 1 : Tail(q)[i] = q[i + 1] /\ i + 1 \in 1 .. Len(q)
OBVIOUS

LEMMA PushQueue ==
  ASSUME NEW q \in Seq(Pkt), NEW p \in Pkt
  PROVE  /\ Append(q, p) \in Seq(Pkt) /\ Len(q) \in Nat
         /\ Len(Append(q, p)) = Len(q) + 1
         /\ Append(q, p)[Len(q) + 1] = p
         /\ \A i \in 1 .. Len(q) : Append(q, p)[i] = q[i]
OBVIOUS

\* A step that only takes from the queue's front keeps everything said of it.
LEMMA TailSafe ==
  ASSUME IInv, free' \in {free, Tail(free)}, free' # free => free # <<>>,
         UNCHANGED <<writing, io, bytes>>,
         \A s \in Sender : sender'[s].pkt = sender[s].pkt
  PROVE  PoolExclusive' /\ WriteKeepsBytes' /\ free' \in Seq(Pkt)
<1>1. free' \in Seq(Pkt)
  BY PopQueue, ZenonT(60) DEF IInv, TypeOK
<1>2. \E d \in {0, 1} : /\ Len(free') = Len(free) - d
                        /\ \A i \in 1 .. Len(free') : i + d \in 1 .. Len(free) /\ free'[i] = free[i + d]
  <2>1. free \in Seq(Pkt) /\ Len(free) \in Nat
    BY DEF IInv, TypeOK
  <2>2. CASE free' = free
    <3>1. /\ Len(free') = Len(free) - 0
          /\ \A i \in 1 .. Len(free') : i + 0 \in 1 .. Len(free) /\ free'[i] = free[i + 0]
      BY <2>1, <2>2
    <3>2. QED
      BY <3>1
  <2>3. CASE free' # free
    <3>1. free' = Tail(free) /\ free # <<>>
      BY <2>3
    <3>2. /\ Len(free') = Len(free) - 1
          /\ \A i \in 1 .. Len(free') : i + 1 \in 1 .. Len(free) /\ free'[i] = free[i + 1]
      BY <2>1, <3>1, PopQueue
    <3>3. QED
      BY <3>2
  <2>4. QED
    BY <2>2, <2>3
<1>3. PICK d \in {0, 1} : \A i \in 1 .. Len(free') : i + d \in 1 .. Len(free) /\ free'[i] = free[i + d]
  BY <1>2
<1>4. ASSUME NEW i \in 1 .. Len(free'), NEW j \in 1 .. Len(free'), free'[i] = free'[j]
      PROVE  i = j
  <2>1. i + d \in 1 .. Len(free) /\ j + d \in 1 .. Len(free) /\ free[i + d] = free[j + d]
    BY <1>3, <1>4, Zenon
  <2>2. i + d = j + d
    BY <2>1, Zenon DEF IInv, PoolExclusive
  <2>3. i \in Int /\ j \in Int /\ d \in Int
    OBVIOUS
  <2>4. QED
    BY ONLY <2>2, <2>3
<1>5. ASSUME NEW i \in 1 .. Len(free')
      PROVE  /\ \A s \in Sender : sender'[s].pkt # free'[i]
             /\ \A m \in Msg : writing'[m] # free'[i]
             /\ \A t \in Io : io'[t].pkt # free'[i]
  <2>1. i + d \in 1 .. Len(free) /\ free'[i] = free[i + d]
    BY <1>3, Zenon
  <2>2. /\ \A s \in Sender : sender[s].pkt # free[i + d]
        /\ \A m \in Msg : writing[m] # free[i + d]
        /\ \A t \in Io : io[t].pkt # free[i + d]
    BY <2>1, Zenon DEF IInv, PoolExclusive
  <2>3. QED
    BY <2>1, <2>2, Zenon
<1>6. PoolExclusive'
  <2>1. /\ \A m, n \in Msg : writing[m] = writing[n] /\ m # n => writing[m] = NoPkt
        /\ \A t, u \in Io : io[t].pkt = io[u].pkt /\ t # u => io[t].pkt = NoPkt
        /\ \A m \in Msg, t \in Io : writing[m] = io[t].pkt => io[t].pkt = NoPkt
    BY Zenon DEF IInv, PoolExclusive
  <2>2. ASSUME NEW s \in Sender
        PROVE  /\ \A r \in Sender : sender'[s].pkt = sender'[r].pkt /\ s # r => sender'[s].pkt = NoPkt
               /\ \A m \in Msg : sender'[s].pkt = writing'[m] => writing'[m] = NoPkt
               /\ \A t \in Io : sender'[s].pkt = io'[t].pkt => io'[t].pkt = NoPkt
    <3>1. /\ \A r \in Sender : sender[s].pkt = sender[r].pkt /\ s # r => sender[s].pkt = NoPkt
          /\ \A m \in Msg : sender[s].pkt = writing[m] => writing[m] = NoPkt
          /\ \A t \in Io : sender[s].pkt = io[t].pkt => io[t].pkt = NoPkt
      BY Zenon DEF IInv, PoolExclusive
    <3>2. /\ sender'[s].pkt = sender[s].pkt /\ \A r \in Sender : sender'[r].pkt = sender[r].pkt
          /\ writing' = writing /\ io' = io
      OBVIOUS
    <3>3. QED
      BY ONLY <3>1, <3>2, s \in Sender
  <2>3. writing' = writing /\ io' = io
    OBVIOUS
  <2>4. /\ \A m, n \in Msg : writing'[m] = writing'[n] /\ m # n => writing'[m] = NoPkt
        /\ \A t, u \in Io : io'[t].pkt = io'[u].pkt /\ t # u => io'[t].pkt = NoPkt
        /\ \A m \in Msg, t \in Io : writing'[m] = io'[t].pkt => io'[t].pkt = NoPkt
    BY ONLY <2>1, <2>3
  <2>5. QED
    BY <1>4, <1>5, <2>2, <2>4, Zenon DEF PoolExclusive
<1>7. QED
  BY <1>1, <1>6 DEF IInv, WriteKeepsBytes

LEMMA InitInv == Init => IInv
<1> SUFFICES ASSUME Init PROVE IInv
  OBVIOUS
<1>1. Len(free) = PoolSize /\ free \in Seq(Pkt)
  BY ConstantsOK DEF Init
<1>2. TypeOK
  BY <1>1, ConstantsOK DEF Init, TypeOK, IdleSender, IdleIo
<1>3. \A i \in 1 .. Len(free) : free[i] \in Pkt
  BY <1>1
<1>4. PoolExclusive
  BY <1>1, <1>3, ConstantsOK DEF Init, PoolExclusive, IdleSender, IdleIo
<1>5. StepsHold /\ WriteKeepsBytes
  BY DEF Init, StepsHold, WriteKeepsBytes, IdleSender, IdleIo
<1>6. QED
  BY <1>2, <1>4, <1>5 DEF IInv

LEMMA MakePacketInv ==
  ASSUME IInv, NEW s \in Sender, NEW m \in Msg, MakePacket(s, m)
  PROVE  IInv'
<1>1. /\ \A r \in Sender : r # s => sender'[r] = sender[r]
      /\ sender'[s].msg = m /\ sender'[s].pc \in {"made", "send"}
      /\ sender'[s].pkt = NoPkt /\ sender[s].pkt = NoPkt
      /\ sender' \in [Sender -> [pc : {"idle", "made", "send", "popped", "new"},
                                 msg : Msg \cup {NoMsg}, pkt : Pkt \cup {NoPkt}]]
  <2>1. /\ sender[s].pc = "idle" /\ sender[s].pkt = NoPkt /\ m \in Msg
        /\ sender \in [Sender -> [pc : {"idle", "made", "send", "popped", "new"},
                                  msg : Msg \cup {NoMsg}, pkt : Pkt \cup {NoPkt}]]
    BY DEF MakePacket, IInv, TypeOK, IdleSender
  <2>2. PICK c \in {"made", "send"} : sender' = [sender EXCEPT ![s].msg = m, ![s].pc = c]
    BY DEF MakePacket
  <2>3. QED
    BY ONLY <2>1, <2>2, s \in Sender
<1>2. PoolExclusive' /\ WriteKeepsBytes' /\ free' \in Seq(Pkt)
  <2>1. \A r \in Sender : sender'[r].pkt = sender[r].pkt
    BY <1>1
  <2>2. free' \in {free, Tail(free)} /\ (free' # free => free # <<>>)
    BY DEF MakePacket
  <2>3. QED
    BY <2>1, <2>2, TailSafe DEF MakePacket
<1>3. TypeOK'
  BY <1>1, <1>2 DEF MakePacket, IInv, TypeOK
<1>4. StepsHold'
  BY <1>1, ConstantsOK DEF MakePacket, IInv, StepsHold
<1>5. QED
  BY <1>2, <1>3, <1>4 DEF IInv

LEMMA MakeCountInv ==
  ASSUME IInv, NEW s \in Sender, MakeCount(s)
  PROVE  IInv'
<1>1. /\ \A r \in Sender : r # s => sender'[r] = sender[r]
      /\ sender'[s].pc = "send" /\ sender'[s].msg = sender[s].msg
      /\ sender'[s].pkt = sender[s].pkt
      /\ sender' \in [Sender -> [pc : {"idle", "made", "send", "popped", "new"},
                                 msg : Msg \cup {NoMsg}, pkt : Pkt \cup {NoPkt}]]
  <2>1. sender \in [Sender -> [pc : {"idle", "made", "send", "popped", "new"},
                               msg : Msg \cup {NoMsg}, pkt : Pkt \cup {NoPkt}]]
    BY DEF IInv, TypeOK
  <2>2. sender' = [sender EXCEPT ![s].pc = "send"]
    BY DEF MakeCount
  <2>3. QED
    BY <2>1, <2>2
<1>2. PoolExclusive' /\ WriteKeepsBytes'
  BY <1>1, TailSafe DEF MakeCount
<1>3. TypeOK'
  BY <1>1, Counting DEF MakeCount, IInv, TypeOK
<1>4. StepsHold'
  BY <1>1 DEF MakeCount, IInv, StepsHold
<1>5. QED
  BY <1>2, <1>3, <1>4 DEF IInv

\* A sender whose step and Packet are set anew.
LEMMA SenderSet ==
  ASSUME NEW S, NEW M, NEW P, NEW t \in [pc : S, msg : M, pkt : P], NEW c \in S, NEW q \in P
  PROVE  /\ [t EXCEPT !.pc = c, !.pkt = q] \in [pc : S, msg : M, pkt : P]
         /\ [t EXCEPT !.pc = c, !.pkt = q].pc = c
         /\ [t EXCEPT !.pc = c, !.pkt = q].pkt = q
         /\ [t EXCEPT !.pc = c, !.pkt = q].msg = t.msg
OBVIOUS

\* The Packet popped was only the queue's; a new one was nobody's.
LEMMA PopPacketInv ==
  ASSUME IInv, NEW s \in Sender, PopPacket(s)
  PROVE  IInv'
<1> DEFINE p == sender'[s].pkt
<1>1. \E q \in Pkt, c \in {"popped", "new"} :
        sender' = [sender EXCEPT ![s].pc = c, ![s].pkt = q]
  <2>1. CASE free # <<>>
    <3>1. Head(free) \in Pkt
      BY <2>1, PopQueue DEF IInv, TypeOK
    <3>2. sender' = [sender EXCEPT ![s].pc = "popped", ![s].pkt = Head(free)]
      BY <2>1 DEF PopPacket
    <3>3. QED
      BY <3>1, <3>2
  <2>2. CASE free = <<>>
    BY <2>2 DEF PopPacket
  <2>3. QED
    BY <2>1, <2>2
<1>2. /\ \A r \in Sender : r # s => sender'[r] = sender[r]
      /\ p \in Pkt /\ sender'[s].msg = sender[s].msg /\ sender'[s].pc \in {"popped", "new"}
      /\ sender' \in [Sender -> [pc : {"idle", "made", "send", "popped", "new"},
                                 msg : Msg \cup {NoMsg}, pkt : Pkt \cup {NoPkt}]]
  <2>1. PICK q \in Pkt, c \in {"popped", "new"} :
               sender' = [sender EXCEPT ![s].pc = c, ![s].pkt = q]
    BY <1>1
  <2> DEFINE v == [sender[s] EXCEPT !.pc = c, !.pkt = q]
             R == [pc : {"idle", "made", "send", "popped", "new"},
                   msg : Msg \cup {NoMsg}, pkt : Pkt \cup {NoPkt}]
  <2>2. sender \in [Sender -> R] /\ sender' = [sender EXCEPT ![s] = v]
    BY <2>1 DEF IInv, TypeOK
  <2>3. /\ v \in R /\ v.pc = c /\ v.pkt = q /\ v.msg = sender[s].msg
    <3>1. sender[s] \in R
      BY <2>2
    <3>2. c \in {"idle", "made", "send", "popped", "new"} /\ q \in Pkt \cup {NoPkt}
      OBVIOUS
    <3>3. QED
      BY <3>1, <3>2, SenderSet
  <2> HIDE DEF v, R
  <2>4. /\ \A r \in Sender : r # s => sender'[r] = sender[r]
        /\ sender'[s] = v /\ sender' \in [Sender -> R]
    BY <2>2, <2>3
  <2>5. sender'[s].pkt = q /\ sender'[s].pc = c /\ sender'[s].msg = sender[s].msg
    BY <2>3, <2>4
  <2>6. QED
    BY <2>4, <2>5 DEF R
<1> HIDE DEF p
<1>3. UNCHANGED <<available, bytes, unsent, writing, io, clear>> /\ sender[s].pc = "send"
  BY DEF PopPacket
<1>4. TypeOK' /\ StepsHold'
  <2>1. free' \in Seq(Pkt)
    <3>1. free' = IF free = <<>> THEN free ELSE Tail(free)
      BY DEF PopPacket
    <3>2. free \in Seq(Pkt)
      BY DEF IInv, TypeOK
    <3>3. QED
      BY <3>1, <3>2, PopQueue
  <2>2. TypeOK'
    <3>1. bytes' = bytes /\ unsent' = unsent /\ writing' = writing /\ io' = io
          /\ available' = available /\ clear' = clear
      BY <1>3
    <3>2. QED
      BY <1>2, <2>1, <3>1 DEF IInv, TypeOK
  <2>3. StepsHold'
    <3>1. p # NoPkt /\ sender[s].msg # NoMsg
      BY <1>2, <1>3, ConstantsOK DEF IInv, StepsHold
    <3>2. /\ sender'[s].msg # NoMsg /\ sender'[s].pkt # NoPkt
          /\ sender'[s].pc \in {"popped", "new"}
      BY <1>2, <3>1 DEF p
    <3>3. ASSUME NEW r \in Sender
          PROVE  /\ sender'[r].pc # "idle" => sender'[r].msg # NoMsg
                 /\ sender'[r].pc \in {"popped", "new"} <=> sender'[r].pkt # NoPkt
      <4>1. CASE r = s
        BY <3>2, <4>1
      <4>2. CASE r # s
        BY <1>2, <4>2 DEF IInv, StepsHold
      <4>3. QED
        BY <4>1, <4>2
    <3>4. QED
      BY <1>3, <3>3 DEF IInv, StepsHold
  <2>4. QED
    BY <2>2, <2>3
<1>5. /\ \A i, j \in 1 .. Len(free') : free'[i] = free'[j] => i = j
      /\ \A i \in 1 .. Len(free') :
           /\ \A r \in Sender : sender[r].pkt # free'[i]
           /\ \A m \in Msg : writing[m] # free'[i]
           /\ \A t \in Io : io[t].pkt # free'[i]
      /\ \A i \in 1 .. Len(free') : free'[i] # p
      /\ \A r \in Sender : sender[r].pkt # p
      /\ \A m \in Msg : writing[m] # p
      /\ \A t \in Io : io[t].pkt # p
  <2>1. CASE free # <<>> /\ free' = Tail(free) /\ p = Head(free)
    <3>1. /\ p = free[1] /\ 1 \in 1 .. Len(free)
          /\ \A i \in 1 .. Len(free') : i + 1 \in 1 .. Len(free) /\ i # 0 /\ free'[i] = free[i + 1]
      BY <2>1, PopQueue DEF IInv, TypeOK
    <3>2. \A i, j \in 1 .. Len(free') : free'[i] = free'[j] => i = j
      BY <3>1 DEF IInv, PoolExclusive
    <3>3. \A i \in 1 .. Len(free') : free'[i] # p
      BY <3>1 DEF IInv, PoolExclusive
    <3>4. QED
      BY <3>1, <3>2, <3>3 DEF IInv, PoolExclusive
  <2>2. CASE free = <<>> /\ free' = free /\ ~Held(p)
    BY <2>2 DEF Held
  <2>3. \/ free # <<>> /\ free' = Tail(free) /\ p = Head(free)
        \/ free = <<>> /\ free' = free /\ ~Held(p)
    BY DEF PopPacket, p, IInv, TypeOK
  <2>4. QED
    BY <2>1, <2>2, <2>3
<1>6. PoolExclusive'
  <2>1. \A r \in Sender : sender'[r].pkt = IF r = s THEN p ELSE sender[r].pkt
    BY <1>2 DEF p
  <2>2. QED
    BY <1>3, <1>5, <2>1 DEF IInv, PoolExclusive
<1>7. WriteKeepsBytes'
  BY <1>3 DEF IInv, WriteKeepsBytes
<1>8. QED
  BY <1>4, <1>6, <1>7 DEF IInv

\* After a Send the thread is idle, or at its next Send without a Packet.
LEMMA AfterSend ==
  ASSUME IInv, NEW s \in Sender, StartWrite(s)
  PROVE  /\ \A r \in Sender : r # s => sender'[r] = sender[r]
         /\ sender' \in [Sender -> [pc : {"idle", "made", "send", "popped", "new"},
                                    msg : Msg \cup {NoMsg}, pkt : Pkt \cup {NoPkt}]]
         /\ sender'[s].pkt = NoPkt
         /\ \/ sender'[s].pc = "idle" /\ unsent' = unsent
            \/ /\ sender'[s].pc = "send" /\ sender'[s].msg \in Msg
               /\ \E n \in unsent : unsent' = unsent \ {n}
<1> DEFINE R == [pc : {"idle", "made", "send", "popped", "new"},
                 msg : Msg \cup {NoMsg}, pkt : Pkt \cup {NoPkt}]
<1>1. sender \in [Sender -> R] /\ unsent \subseteq Msg
  BY DEF IInv, TypeOK
<1>2. PICK v \in R : /\ sender' = [sender EXCEPT ![s] = v]
                     /\ v.pkt = NoPkt
                     /\ \/ v.pc = "idle" /\ unsent' = unsent
                        \/ /\ v.pc = "send" /\ v.msg \in Msg
                           /\ \E n \in unsent : unsent' = unsent \ {n}
  <2>1. CASE LastSend(s)
    <3>1. IdleSender \in R /\ IdleSender.pc = "idle" /\ IdleSender.pkt = NoPkt
      BY DEF IdleSender
    <3>2. QED
      BY <2>1, <3>1 DEF LastSend
  <2>2. ASSUME NEW n \in unsent, NextCopy(s, n)
        PROVE  \E v \in R : /\ sender' = [sender EXCEPT ![s] = v]
                            /\ v.pkt = NoPkt /\ v.pc = "send" /\ v.msg \in Msg
    <3> DEFINE v == [pc |-> "send", msg |-> n, pkt |-> NoPkt]
    <3>1. v \in R /\ v.pkt = NoPkt /\ v.pc = "send" /\ v.msg \in Msg
      BY <1>1
    <3>2. QED
      BY <2>2, <3>1 DEF NextCopy
  <2>3. QED
    BY <2>1, <2>2 DEF StartWrite, NextCopy
<1> HIDE DEF R
<1>3. sender'[s] = v /\ sender' \in [Sender -> R] /\ \A r \in Sender : r # s => sender'[r] = sender[r]
  BY <1>1, <1>2
<1>4. QED
  BY <1>2, <1>3 DEF R

\* The sender's Packet becomes its write's; no other write reads it.
LEMMA StartWriteInv ==
  ASSUME IInv, NEW s \in Sender, StartWrite(s)
  PROVE  IInv'
<1> DEFINE m == sender[s].msg
           p == sender[s].pkt
<1>1. m \in Msg /\ p \in Pkt /\ p # NoPkt
  BY ConstantsOK DEF StartWrite, IInv, TypeOK, StepsHold
<1>2. /\ bytes' = [bytes EXCEPT ![p] = m] /\ writing' = [writing EXCEPT ![m] = p]
      /\ available' \in {OneLess, available}
      /\ UNCHANGED <<free, io, clear>>
  BY DEF StartWrite
<1>3. /\ \A r \in Sender : r # s => sender'[r] = sender[r]
      /\ sender' \in [Sender -> [pc : {"idle", "made", "send", "popped", "new"},
                                 msg : Msg \cup {NoMsg}, pkt : Pkt \cup {NoPkt}]]
      /\ sender'[s].pkt = NoPkt /\ sender'[s].pc \in {"idle", "send"}
      /\ sender'[s].pc = "send" => sender'[s].msg # NoMsg
      /\ unsent' \subseteq Msg
  BY AfterSend, ConstantsOK DEF IInv, TypeOK
<1>4. /\ \A n \in Msg : writing'[n] = IF n = m THEN p ELSE writing[n]
      /\ \A q \in Pkt : bytes'[q] = IF q = p THEN m ELSE bytes[q]
  BY <1>1, <1>2 DEF IInv, TypeOK
<1>5. TypeOK'
  BY <1>1, <1>2, <1>3, Counting DEF IInv, TypeOK
<1>6. StepsHold'
  BY <1>2, <1>3 DEF IInv, StepsHold
<1>7. \A r \in Sender : sender'[r].pkt = IF r = s THEN NoPkt ELSE sender[r].pkt
  BY <1>3
<1>8. /\ \A r \in Sender : r # s => sender[r].pkt # p
      /\ \A n \in Msg : writing[n] # p
      /\ \A t \in Io : io[t].pkt # p
      /\ \A i \in 1 .. Len(free) : free[i] # p /\ free[i] # NoPkt
  <2>1. \A i \in 1 .. Len(free) : free[i] \in Pkt
    BY DEF IInv, TypeOK
  <2>2. QED
    BY <1>1, <2>1, ConstantsOK DEF IInv, PoolExclusive
<1> HIDE DEF m, p
<1>9. PoolExclusive'
  BY <1>1, <1>2, <1>4, <1>7, <1>8 DEF IInv, PoolExclusive
<1>10. WriteKeepsBytes'
  BY <1>1, <1>4, <1>8 DEF IInv, TypeOK, WriteKeepsBytes
<1>11. QED
  BY <1>5, <1>6, <1>9, <1>10 DEF IInv

\* The write's Packet is only the asio thread's, until it is pushed.
LEMMA HandleWriteInv ==
  ASSUME IInv, NEW t \in Io, NEW m \in Msg, HandleWrite(t, m)
  PROVE  IInv'
<1> DEFINE p == writing[m]
<1>1. /\ \A n \in Msg : writing'[n] = IF n = m THEN NoPkt ELSE writing[n]
      /\ \A u \in Io : u # t => io'[u] = io[u]
      /\ io[t].pkt = NoPkt /\ io'[t].pkt \in {p, NoPkt} /\ p \in Pkt /\ p # NoPkt
      /\ io'[t].pc = "push" <=> io'[t].pkt # NoPkt
      /\ UNCHANGED <<free, available, bytes, unsent, sender, clear>>
  BY DEF HandleWrite, HasRoom, IInv, TypeOK, IdleIo
<1>2. TypeOK'
  BY DEF HandleWrite, HasRoom, IInv, TypeOK
<1>3. StepsHold'
  BY <1>1 DEF IInv, StepsHold
<1>4. /\ \A n \in Msg \ {m} : writing[n] # p
      /\ \A s \in Sender : sender[s].pkt # p
      /\ \A u \in Io : io[u].pkt # p
      /\ \A i \in 1 .. Len(free) : free[i] # p /\ free[i] # NoPkt
  <2>1. \A i \in 1 .. Len(free) : free[i] \in Pkt
    BY DEF IInv, TypeOK
  <2>2. QED
    BY <1>1, <2>1, ConstantsOK DEF IInv, PoolExclusive
<1> HIDE DEF p
<1>5. PoolExclusive'
  BY <1>1, <1>4 DEF IInv, PoolExclusive
<1>6. WriteKeepsBytes'
  BY <1>1 DEF IInv, WriteKeepsBytes
<1>7. QED
  BY <1>2, <1>3, <1>5, <1>6 DEF IInv

LEMMA PushPacketInv ==
  ASSUME IInv, NEW t \in Io, PushPacket(t)
  PROVE  IInv'
<1> DEFINE p == io[t].pkt
           last == Len(free) + 1
<1>1. p \in Pkt /\ p # NoPkt
  BY DEF PushPacket, IInv, TypeOK, StepsHold
<1>2. /\ free' = Append(free, p) /\ free' \in Seq(Pkt)
      /\ Len(free) \in Nat /\ Len(free') = last /\ free'[last] = p
      /\ \A i \in 1 .. Len(free) : free'[i] = free[i]
  BY <1>1, PushQueue DEF PushPacket, IInv, TypeOK
<1>3. /\ \A u \in Io : u # t => io'[u] = io[u]
      /\ io'[t].pkt = NoPkt /\ io'[t].pc = "count"
      /\ UNCHANGED <<available, bytes, unsent, sender, writing, clear>>
  BY DEF PushPacket, IInv, TypeOK
<1>4. TypeOK'
  BY <1>2 DEF PushPacket, IInv, TypeOK
<1>5. StepsHold'
  BY <1>3 DEF IInv, StepsHold
<1>6. /\ \A m \in Msg : writing[m] # p
      /\ \A s \in Sender : sender[s].pkt # p
      /\ \A u \in Io : u # t => io[u].pkt # p
      /\ \A i \in 1 .. Len(free) : free[i] # p /\ free[i] # NoPkt
  <2>1. \A i \in 1 .. Len(free) : free[i] \in Pkt
    BY DEF IInv, TypeOK
  <2>2. QED
    BY <1>1, <2>1, ConstantsOK DEF IInv, PoolExclusive
<1> HIDE DEF p
<1>7. \A i \in 1 .. Len(free') : i = last \/ i \in 1 .. Len(free)
  BY <1>2
<1>8. \A i, j \in 1 .. Len(free') : free'[i] = free'[j] => i = j
  BY <1>2, <1>6, <1>7 DEF IInv, PoolExclusive
<1>9. \A i \in 1 .. Len(free') : /\ \A s \in Sender : sender[s].pkt # free'[i]
                                 /\ \A m \in Msg : writing[m] # free'[i]
                                 /\ \A u \in Io : io'[u].pkt # free'[i]
  BY <1>1, <1>2, <1>3, <1>6, <1>7 DEF IInv, PoolExclusive
<1>10. PoolExclusive'
  BY <1>3, <1>8, <1>9 DEF IInv, PoolExclusive
<1>11. WriteKeepsBytes'
  BY <1>3 DEF IInv, WriteKeepsBytes
<1>12. QED
  BY <1>4, <1>5, <1>10, <1>11 DEF IInv

LEMMA PushCountInv ==
  ASSUME IInv, NEW t \in Io, PushCount(t)
  PROVE  IInv'
<1>1. /\ \A u \in Io : u # t => io'[u] = io[u]
      /\ io[t].pkt = NoPkt /\ io'[t].pkt = NoPkt /\ io'[t].pc = "idle"
      /\ UNCHANGED <<free, bytes, unsent, sender, writing, clear>>
  BY DEF PushCount, IInv, TypeOK, StepsHold, IdleIo
<1>2. TypeOK'
  BY Counting DEF PushCount, IInv, TypeOK, IdleIo
<1>3. StepsHold'
  BY <1>1 DEF IInv, StepsHold
<1>4. PoolExclusive'
  <2>1. \A u \in Io : io'[u].pkt = io[u].pkt
    BY <1>1
  <2>2. QED
    BY <1>1, <2>1 DEF IInv, PoolExclusive
<1>5. WriteKeepsBytes'
  BY <1>1 DEF IInv, WriteKeepsBytes
<1>6. QED
  BY <1>2, <1>3, <1>4, <1>5 DEF IInv

LEMMA ClearInv ==
  ASSUME IInv, ClearPop \/ ClearZero
  PROVE  IInv'
<1>1. PoolExclusive' /\ WriteKeepsBytes' /\ free' \in Seq(Pkt)
  BY TailSafe DEF ClearPop, ClearZero
<1>2. TypeOK'
  BY <1>1, Counting DEF ClearPop, ClearZero, IInv, TypeOK
<1>3. StepsHold'
  BY DEF ClearPop, ClearZero, IInv, StepsHold
<1>4. QED
  BY <1>1, <1>2, <1>3 DEF IInv

LEMMA StepInv == IInv /\ [Next]_vars => IInv'
<1> SUFFICES ASSUME IInv, [Next]_vars PROVE IInv'
  OBVIOUS
<1>1. ASSUME NEW s \in Sender, SenderStep(s) PROVE IInv'
  BY <1>1, MakePacketInv, MakeCountInv, PopPacketInv, StartWriteInv DEF SenderStep
<1>2. ASSUME NEW t \in Io, IoStep(t) PROVE IInv'
  BY <1>2, HandleWriteInv, PushPacketInv, PushCountInv DEF IoStep
<1>3. CASE ClearPop \/ ClearZero
  BY <1>3, ClearInv
<1>4. CASE UNCHANGED vars
  BY <1>4 DEF vars, IInv, TypeOK, StepsHold, PoolExclusive, WriteKeepsBytes
<1>5. QED
  BY <1>1, <1>2, <1>3, <1>4 DEF Next

LEMMA Invariance == Spec => []IInv
  BY InitInv, StepInv, PTL DEF Spec

\* The variables keep their types: the counter stays a size_t.
THEOREM TypeCorrect == Spec => []TypeOK
  BY Invariance, PTL DEF IInv

\* No Packet is queued twice, queued while in use, or used by two messages,
\* however many threads send, complete writes and clear the pool at once.
THEOREM ExclusiveSafe == Spec => []PoolExclusive
  BY Invariance, PTL DEF IInv

\* What an async_write reads is its own message until it completes.
THEOREM BytesSafe == Spec => []WriteKeepsBytes
  BY Invariance, PTL DEF IInv

-----------------------------------------------------------------------------
(* The counter of the PacketPool, as long as it is not counted down so often *)
(* that it wraps round to a value below m_PoolSize again.                    *)

\* How often m_AvailableCount was counted down from m_PoolSize.
Taken == IF available <= PoolSize THEN PoolSize - available
         ELSE PoolSize + Wrap - available

\* The sending threads, asio threads and writes that are at some step.
SenderAt(P) == {s \in Sender : sender[s].pc \in P}
IoAt(P)     == {t \in Io : io[t].pc \in P}
Written     == {m \in Msg : writing[m] # NoPkt}

\* How many they are: MakePacket between Pop and counter, Send from its Pop on,
\* senders that hold a Packet, those that popped and did not count, ...
Making  == Cardinality(SenderAt({"made"}))
Sending == Cardinality(SenderAt({"send", "popped", "new"}))
Holding == Cardinality(SenderAt({"popped", "new"}))
Popping == Cardinality(SenderAt({"made", "popped"}))

\* ... messages to come, async_writes, and asio threads in Push, before its push and after it.
Unsent    == Cardinality(unsent)
Writes    == Cardinality(Written)
Returning == Cardinality(IoAt({"push", "count"}))
Pushing   == Cardinality(IoAt({"push"}))
Pushed    == Cardinality(IoAt({"count"}))

\* Finitely many threads send finitely many messages, each of which is counted
\* down three times at most: by MakePacket's Pop (once for all the copies of a
\* broadcast), by Send's Pop and by Push.
Bounded ==
  /\ IsFiniteSet(Msg) /\ IsFiniteSet(Sender) /\ IsFiniteSet(Io) /\ Io # {}
  /\ 3 * Cardinality(Msg) + PoolSize < Wrap

\* ClearZero takes PoolSize off the counter at once, at most.
Zeroed == IF clear = "done" THEN PoolSize ELSE 0

\* What the messages have left to count down.
Budget ==
  Taken + 3 * Unsent + 3 * Making + 2 * Sending + Writes + Returning
    <= 3 * Cardinality(Msg) + Zeroed

\* AvailableIsThere in terms of Taken.
Promised ==
  clear \in {"no", "done"} /\ Taken <= PoolSize => PoolSize - Taken <= Len(free) + Popping

\* Before the queue is empty for the first time, no Packet is new ...
Conserved == Len(free) + Holding + Writes + Pushing <= PoolSize

\* ... and from then on, every Packet queued was counted down, or is about to.
Drained == Len(free) = 0 \/ Len(free) <= Taken - 1 + Pushed

\* PoolCapped, with the Packets asio threads are about to push.
Capped ==
  clear # "done" =>
    /\ Len(free) + Pushing <= PoolSize + Cardinality(Io) - 1
    /\ Returning > 0 => Taken >= 1
    /\ Taken <= PoolSize => Conserved \/ Drained

\* The inductive invariant of the counter.
CountInv == IsFiniteSet(unsent) /\ Budget /\ Promised /\ Capped

Numbers ==
  /\ Making \in Nat /\ Sending \in Nat /\ Holding \in Nat /\ Popping \in Nat
  /\ Writes \in Nat /\ Returning \in Nat /\ Pushing \in Nat /\ Pushed \in Nat
  /\ Unsent \in Nat /\ Cardinality(Msg) \in Nat
  /\ Cardinality(Io) \in Nat \ {0} /\ Len(free) \in Nat /\ Taken \in Nat
  /\ PoolSize \in Nat /\ Wrap \in Nat /\ Zeroed \in 0 .. PoolSize

\* The size of a set that a step changes at one element only.
LEMMA OneChanges ==
  ASSUME NEW S, NEW T, IsFiniteSet(S), NEW x, S \ {x} = T \ {x}
  PROVE  /\ IsFiniteSet(T) /\ Cardinality(S) \in Nat /\ Cardinality(T) \in Nat
         /\ Cardinality(T) = Cardinality(S) - (IF x \in S THEN 1 ELSE 0)
                                            + (IF x \in T THEN 1 ELSE 0)
<1> DEFINE U == S \ {x}
<1>1. /\ IsFiniteSet(U) /\ Cardinality(U) \in Nat /\ Cardinality(S) \in Nat
      /\ Cardinality(U) = IF x \in S THEN Cardinality(S) - 1 ELSE Cardinality(S)
  BY FS_RemoveElement, FS_CardinalityType
<1>2. x \notin U /\ T = IF x \in T THEN U \cup {x} ELSE U
  OBVIOUS
<1> HIDE DEF U
<1>3. IsFiniteSet(U \cup {x}) /\ Cardinality(U \cup {x}) = Cardinality(U) + 1
  BY <1>1, <1>2, FS_AddElement
<1>4. CASE x \in T
  <2>1. T = U \cup {x}
    BY <1>2, <1>4
  <2>2. IsFiniteSet(T) /\ Cardinality(T) = Cardinality(U) + 1
    BY <1>3, <2>1
  <2>3. QED
    BY <1>1, <1>4, <2>2
<1>5. CASE x \notin T
  <2>1. T = U
    BY <1>2, <1>5
  <2>2. IsFiniteSet(T) /\ Cardinality(T) = Cardinality(U)
    BY <1>1, <2>1
  <2>3. QED
    BY <1>1, <1>5, <2>2
<1>6. QED
  BY <1>4, <1>5

\* When one sending thread takes a step, the threads at P change by that one.
LEMMA SenderMoves ==
  ASSUME IsFiniteSet(Sender), NEW s \in Sender, NEW P,
         \A r \in Sender : r # s => sender'[r] = sender[r]
  PROVE  /\ Cardinality(SenderAt(P)) \in Nat /\ Cardinality(SenderAt(P)') \in Nat
         /\ Cardinality(SenderAt(P)') =
              Cardinality(SenderAt(P)) - (IF sender[s].pc \in P THEN 1 ELSE 0)
                                       + (IF sender'[s].pc \in P THEN 1 ELSE 0)
<1> DEFINE S == SenderAt(P)
           T == SenderAt(P)'
<1>1. S \ {s} = T \ {s}
  BY DEF SenderAt
<1>2. IsFiniteSet(S)
  <2>1. S \subseteq Sender
    BY DEF SenderAt
  <2>2. QED
    BY <2>1, FS_Subset
<1>3. (s \in S <=> sender[s].pc \in P) /\ (s \in T <=> sender'[s].pc \in P)
  BY DEF SenderAt
<1> HIDE DEF S, T
<1>4. /\ Cardinality(S) \in Nat /\ Cardinality(T) \in Nat
      /\ Cardinality(T) = Cardinality(S) - (IF s \in S THEN 1 ELSE 0)
                                         + (IF s \in T THEN 1 ELSE 0)
  BY <1>1, <1>2, OneChanges
<1>5. QED
  BY <1>3, <1>4 DEF S, T

LEMMA IoMoves ==
  ASSUME IsFiniteSet(Io), NEW t \in Io, NEW P,
         \A u \in Io : u # t => io'[u] = io[u]
  PROVE  /\ Cardinality(IoAt(P)) \in Nat /\ Cardinality(IoAt(P)') \in Nat
         /\ Cardinality(IoAt(P)') =
              Cardinality(IoAt(P)) - (IF io[t].pc \in P THEN 1 ELSE 0)
                                   + (IF io'[t].pc \in P THEN 1 ELSE 0)
<1> DEFINE S == IoAt(P)
           T == IoAt(P)'
<1>1. S \ {t} = T \ {t}
  BY DEF IoAt
<1>2. IsFiniteSet(S)
  <2>1. S \subseteq Io
    BY DEF IoAt
  <2>2. QED
    BY <2>1, FS_Subset
<1>3. (t \in S <=> io[t].pc \in P) /\ (t \in T <=> io'[t].pc \in P)
  BY DEF IoAt
<1> HIDE DEF S, T
<1>4. /\ Cardinality(S) \in Nat /\ Cardinality(T) \in Nat
      /\ Cardinality(T) = Cardinality(S) - (IF t \in S THEN 1 ELSE 0)
                                         + (IF t \in T THEN 1 ELSE 0)
  BY <1>1, <1>2, OneChanges
<1>5. QED
  BY <1>3, <1>4 DEF S, T

LEMMA WritingMoves ==
  ASSUME IsFiniteSet(Msg), NEW m \in Msg,
         \A n \in Msg : n # m => writing'[n] = writing[n]
  PROVE  /\ Cardinality(Written) \in Nat /\ Cardinality(Written') \in Nat
         /\ Cardinality(Written') =
              Cardinality(Written) - (IF writing[m] # NoPkt THEN 1 ELSE 0)
                                   + (IF writing'[m] # NoPkt THEN 1 ELSE 0)
<1> DEFINE S == Written
           T == Written'
<1>1. S \ {m} = T \ {m}
  BY DEF Written
<1>2. IsFiniteSet(S)
  <2>1. S \subseteq Msg
    BY DEF Written
  <2>2. QED
    BY <2>1, FS_Subset
<1>3. (m \in S <=> writing[m] # NoPkt) /\ (m \in T <=> writing'[m] # NoPkt)
  BY DEF Written
<1> HIDE DEF S, T
<1>4. /\ Cardinality(S) \in Nat /\ Cardinality(T) \in Nat
      /\ Cardinality(T) = Cardinality(S) - (IF m \in S THEN 1 ELSE 0)
                                         + (IF m \in T THEN 1 ELSE 0)
  BY <1>1, <1>2, OneChanges
<1>5. QED
  BY <1>3, <1>4 DEF S, T

\* What a step of one thread does to the numbers of threads at each step.
SenderDelta(s) ==
  /\ Making' = Making - (IF sender[s].pc = "made" THEN 1 ELSE 0)
                      + (IF sender'[s].pc = "made" THEN 1 ELSE 0)
  /\ Sending' = Sending - (IF sender[s].pc \in {"send", "popped", "new"} THEN 1 ELSE 0)
                        + (IF sender'[s].pc \in {"send", "popped", "new"} THEN 1 ELSE 0)
  /\ Holding' = Holding - (IF sender[s].pc \in {"popped", "new"} THEN 1 ELSE 0)
                        + (IF sender'[s].pc \in {"popped", "new"} THEN 1 ELSE 0)
  /\ Popping' = Popping - (IF sender[s].pc \in {"made", "popped"} THEN 1 ELSE 0)
                        + (IF sender'[s].pc \in {"made", "popped"} THEN 1 ELSE 0)

IoDelta(t) ==
  /\ Returning' = Returning - (IF io[t].pc \in {"push", "count"} THEN 1 ELSE 0)
                            + (IF io'[t].pc \in {"push", "count"} THEN 1 ELSE 0)
  /\ Pushing' = Pushing - (IF io[t].pc = "push" THEN 1 ELSE 0)
                        + (IF io'[t].pc = "push" THEN 1 ELSE 0)
  /\ Pushed' = Pushed - (IF io[t].pc = "count" THEN 1 ELSE 0)
                      + (IF io'[t].pc = "count" THEN 1 ELSE 0)

LEMMA SenderCounts ==
  ASSUME Bounded, NEW s \in Sender, \A r \in Sender : r # s => sender'[r] = sender[r]
  PROVE  SenderDelta(s)
<1>1. \A c : c \in {"made"} <=> c = "made"
  OBVIOUS
<1>2. Making' = Making - (IF sender[s].pc = "made" THEN 1 ELSE 0)
                       + (IF sender'[s].pc = "made" THEN 1 ELSE 0)
  BY <1>1, SenderMoves DEF Bounded, Making
<1>3. QED
  BY <1>2, SenderMoves DEF Bounded, Sending, Holding, Popping, SenderDelta

LEMMA IoCounts ==
  ASSUME Bounded, NEW t \in Io, \A u \in Io : u # t => io'[u] = io[u]
  PROVE  IoDelta(t)
<1>1. \A c : (c \in {"push"} <=> c = "push") /\ (c \in {"count"} <=> c = "count")
  OBVIOUS
<1>2. Pushing' = Pushing - (IF io[t].pc = "push" THEN 1 ELSE 0)
                         + (IF io'[t].pc = "push" THEN 1 ELSE 0)
  BY <1>1, IoMoves DEF Bounded, Pushing
<1>3. Pushed' = Pushed - (IF io[t].pc = "count" THEN 1 ELSE 0)
                       + (IF io'[t].pc = "count" THEN 1 ELSE 0)
  BY <1>1, IoMoves DEF Bounded, Pushed
<1>4. QED
  BY <1>2, <1>3, IoMoves DEF Bounded, Returning, IoDelta

\* The numbers the counter's invariant is made of are natural numbers.
LEMMA Naturals ==
  ASSUME TypeOK, Bounded, IsFiniteSet(unsent)
  PROVE  Numbers
<1>1. ASSUME NEW P
      PROVE  Cardinality(SenderAt(P)) \in Nat /\ Cardinality(IoAt(P)) \in Nat
  <2>1. SenderAt(P) \subseteq Sender /\ IoAt(P) \subseteq Io
    BY DEF SenderAt, IoAt
  <2>2. IsFiniteSet(SenderAt(P)) /\ IsFiniteSet(IoAt(P))
    BY <2>1, FS_Subset DEF Bounded
  <2>3. QED
    BY <2>2, FS_CardinalityType
<1>2. Writes \in Nat
  <2>1. Written \subseteq Msg
    BY DEF Written
  <2>2. QED
    BY <2>1, FS_Subset, FS_CardinalityType DEF Bounded, Writes
<1>3. /\ Unsent \in Nat /\ Cardinality(Msg) \in Nat
      /\ Cardinality(Io) \in Nat \ {0}
  BY FS_CardinalityType, FS_EmptySet DEF Bounded, Unsent
<1>4. Len(free) \in Nat /\ Taken \in Nat
  BY ConstantsOK DEF TypeOK, Taken
<1>5. QED
  BY <1>1, <1>2, <1>3, <1>4, ConstantsOK
     DEF Numbers, Zeroed, Making, Sending, Holding, Popping, Returning, Pushing, Pushed

\* Also after a step.
LEMMA NaturalsAfter ==
  ASSUME Bounded
  PROVE  Making' \in Nat /\ Sending' \in Nat /\ Pushing' \in Nat /\ Pushed' \in Nat
<1>1. \A P : Cardinality(SenderAt(P)') \in Nat /\ Cardinality(IoAt(P)') \in Nat
  <2> TAKE P
  <2>1. SenderAt(P)' \subseteq Sender /\ IoAt(P)' \subseteq Io
    BY DEF SenderAt, IoAt
  <2>2. IsFiniteSet(SenderAt(P)') /\ IsFiniteSet(IoAt(P)')
    BY <2>1, FS_Subset DEF Bounded
  <2>3. QED
    BY <2>2, FS_CardinalityType
<1>2. QED
  BY <1>1 DEF Making, Sending, Pushing, Pushed

\* There is a thread in Send where one is.
LEMMA SendingSome ==
  ASSUME Bounded, NEW s \in Sender, sender[s].pc \in {"popped", "new"}
  PROVE  Sending >= 1
<1> DEFINE S == SenderAt({"send", "popped", "new"})
<1>1. S \subseteq Sender /\ s \in S
  BY DEF SenderAt
<1>2. IsFiniteSet(S)
  BY <1>1, FS_Subset DEF Bounded
<1> HIDE DEF S
<1>3. Cardinality(S) \in Nat /\ Cardinality(S) # 0
  BY <1>1, <1>2, FS_CardinalityType, FS_EmptySet
<1>4. QED
  BY <1>3 DEF Sending, S

LEMMA Disjoint ==
  ASSUME NEW S, NEW T, IsFiniteSet(S), IsFiniteSet(T), S \cap T = {}
  PROVE  Cardinality(S \cup T) = Cardinality(S) + Cardinality(T)
<1>1. Cardinality(S \cup T) = Cardinality(S) + Cardinality(T) - Cardinality(S \cap T)
  BY FS_Union
<1>2. Cardinality(S) \in Nat /\ Cardinality(T) \in Nat /\ Cardinality(S \cap T) = 0
  BY FS_CardinalityType, FS_EmptySet
<1>3. QED
  BY <1>1, <1>2

\* An asio thread in Push is before the push or after it.
LEMMA InPush ==
  ASSUME Bounded
  PROVE  Returning = Pushing + Pushed /\ Returning <= Cardinality(Io)
<1> DEFINE S == IoAt({"push"})
           T == IoAt({"count"})
<1>1. /\ IoAt({"push", "count"}) = S \cup T /\ S \cap T = {}
      /\ S \subseteq Io /\ T \subseteq Io /\ IoAt({"push", "count"}) \subseteq Io
  BY DEF IoAt
<1>2. IsFiniteSet(S) /\ IsFiniteSet(T) /\ Returning <= Cardinality(Io)
  BY <1>1, FS_Subset DEF Bounded, Returning
<1> HIDE DEF S, T
<1>3. Cardinality(S \cup T) = Cardinality(S) + Cardinality(T)
  BY <1>1, <1>2, Disjoint
<1>4. QED
  BY <1>1, <1>2, <1>3 DEF Returning, Pushing, Pushed, S, T

LEMMA InPushAfter ==
  ASSUME Bounded
  PROVE  Returning' = Pushing' + Pushed' /\ Returning' <= Cardinality(Io)
<1> DEFINE S == IoAt({"push"})'
           T == IoAt({"count"})'
<1>1. /\ IoAt({"push", "count"})' = S \cup T /\ S \cap T = {}
      /\ S \subseteq Io /\ T \subseteq Io /\ IoAt({"push", "count"})' \subseteq Io
  BY DEF IoAt
<1>2. IsFiniteSet(S) /\ IsFiniteSet(T) /\ Returning' <= Cardinality(Io)
  BY <1>1, FS_Subset DEF Bounded, Returning
<1> HIDE DEF S, T
<1>3. Cardinality(S \cup T) = Cardinality(S) + Cardinality(T)
  BY <1>1, <1>2, Disjoint
<1>4. QED
  BY <1>1, <1>2, <1>3 DEF Returning, Pushing, Pushed, S, T

\* Counting down adds one to Taken, unless it would wrap round completely.
LEMMA CountDown ==
  ASSUME TypeOK, Taken < Wrap - 1, available' = OneLess
  PROVE  Taken' = Taken + 1
<1>1. available \in 0 .. Wrap - 1 /\ PoolSize \in Nat /\ Wrap \in Nat \ {0} /\ PoolSize < Wrap
  BY ConstantsOK DEF TypeOK
<1>2. OneLess = IF available = 0 THEN Wrap - 1 ELSE available - 1
  <2>1. CASE available = 0
    <3>1. (0 - 1) % Wrap = Wrap - 1
      BY <1>1
    <3>2. QED
      BY <2>1, <3>1 DEF OneLess
  <2>2. CASE available # 0
    <3>1. available - 1 \in 0 .. Wrap - 1
      BY <1>1, <2>2
    <3>2. (available - 1) % Wrap = available - 1
      BY <1>1, <3>1
    <3>3. QED
      BY <2>2, <3>2 DEF OneLess
  <2>3. QED
    BY <2>1, <2>2
<1>3. QED
  BY <1>1, <1>2 DEF Taken

\* A step that leaves the threads where they are keeps their numbers.
LEMMA SameCounts ==
  /\ UNCHANGED sender => UNCHANGED <<Making, Sending, Holding, Popping>>
  /\ UNCHANGED io => UNCHANGED <<Returning, Pushing, Pushed>>
  /\ UNCHANGED writing => UNCHANGED Writes
  /\ UNCHANGED unsent => UNCHANGED Unsent
<1>1. UNCHANGED sender => UNCHANGED <<Making, Sending, Holding, Popping>>
  BY DEF Making, Sending, Holding, Popping, SenderAt
<1>2. UNCHANGED io => UNCHANGED <<Returning, Pushing, Pushed>>
  BY DEF Returning, Pushing, Pushed, IoAt
<1>3. UNCHANGED writing => UNCHANGED Writes
  BY DEF Writes, Written
<1>4. QED
  BY <1>1, <1>2, <1>3 DEF Unsent

\* What taking from the front of the queue does to its length.
LEMMA ShorterQueue ==
  ASSUME TypeOK, free' = IF free = <<>> THEN free ELSE Tail(free)
  PROVE  /\ Len(free) \in Nat
         /\ free = <<>> => Len(free) = 0 /\ Len(free') = 0
         /\ free # <<>> => Len(free) >= 1 /\ Len(free') = Len(free) - 1
<1>1. CASE free = <<>>
  BY <1>1
<1>2. CASE free # <<>>
  BY <1>2, PopQueue DEF TypeOK
<1>3. QED
  BY <1>1, <1>2

\* Arithmetic of Budget: a message that still counts down twice leaves room.
LEMMA RoomLeft ==
  ASSUME NEW t \in Nat, NEW c \in Nat, NEW p \in Nat, NEW z \in 0 .. p,
         NEW w \in Nat, NEW left \in Nat,
         t + left <= c + z, c + p < w, left >= 1
  PROVE  t < w - 1
OBVIOUS

\* What is counted down stays away from the whole range of the counter while a
\* message is being made or sent, or its Packet is being returned.
LEMMA TakenBelow ==
  ASSUME Numbers, Bounded, Budget, Making >= 1 \/ Sending >= 1 \/ Returning >= 1
  PROVE  Taken < Wrap - 1
<1> DEFINE left == 3 * Unsent + 3 * Making + 2 * Sending + Writes + Returning
           c    == 3 * Cardinality(Msg)
<1>1. left \in Nat /\ left >= 1 /\ c \in Nat
  <2>1. /\ 3 * Unsent \in Nat /\ 3 * Making \in Nat /\ 2 * Sending \in Nat
        /\ Writes \in Nat /\ Returning \in Nat /\ c \in Nat
    BY DEF Numbers
  <2>2. 3 * Making >= 1 \/ 2 * Sending >= 1 \/ Returning >= 1
    BY DEF Numbers
  <2>3. QED
    BY <2>1, <2>2
<1>2. Taken + left <= c + Zeroed /\ c + PoolSize < Wrap
  <2>1. Taken + left = Taken + 3 * Unsent + 3 * Making + 2 * Sending + Writes + Returning
    BY DEF Numbers
  <2>2. QED
    BY <2>1 DEF Budget, Bounded
<1> HIDE DEF left, c
<1>3. Taken \in Nat /\ PoolSize \in Nat /\ Zeroed \in 0 .. PoolSize /\ Wrap \in Nat
  BY DEF Numbers
<1>4. QED
  BY <1>1, <1>2, <1>3, RoomLeft

LEMMA MakePacketCount ==
  ASSUME IInv, Bounded, CountInv, NEW s \in Sender, NEW m \in Msg, MakePacket(s, m)
  PROVE  CountInv'
<1>1. Numbers
  BY Naturals DEF IInv, CountInv
<1>2. /\ \A r \in Sender : r # s => sender'[r] = sender[r]
      /\ sender[s].pc = "idle"
      /\ \/ sender'[s].pc = "made" /\ free # <<>> /\ free' = Tail(free)
         \/ sender'[s].pc = "send" /\ free' = free
  BY DEF MakePacket, IInv, TypeOK, IdleSender
<1>3. SenderDelta(s)
  BY <1>2, SenderCounts
<1>4. /\ IsFiniteSet(unsent') /\ Unsent' = Unsent - 1
  BY FS_RemoveElement DEF MakePacket, CountInv, Unsent
<1>5. UNCHANGED <<Writes, Returning, Pushing, Pushed, Taken, Zeroed, clear>>
  BY SameCounts DEF MakePacket, Taken, Zeroed
<1>6. CASE sender'[s].pc = "made"
  <2>1. /\ Making' = Making + 1 /\ Sending' = Sending
        /\ Holding' = Holding /\ Popping' = Popping + 1
    BY <1>1, <1>2, <1>3, <1>6 DEF Numbers, SenderDelta
  <2>2. Len(free) >= 1 /\ Len(free') = Len(free) - 1
    <3>1. free # <<>> /\ free' = Tail(free)
      BY <1>2, <1>6
    <3>2. QED
      BY <3>1, ShorterQueue DEF IInv
  <2>3. Budget'
    BY <1>1, <1>4, <1>5, <2>1 DEF Numbers, CountInv, Budget
  <2>4. Promised'
    BY <1>1, <1>5, <2>1, <2>2 DEF Numbers, CountInv, Promised
  <2>5. Capped'
    BY <1>1, <1>5, <2>1, <2>2 DEF Numbers, CountInv, Capped, Conserved, Drained
  <2>6. QED
    BY <1>4, <2>3, <2>4, <2>5 DEF CountInv
<1>7. CASE sender'[s].pc = "send"
  <2>1. /\ Making' = Making /\ Sending' = Sending + 1
        /\ Holding' = Holding /\ Popping' = Popping /\ free' = free
    BY <1>1, <1>2, <1>3, <1>7 DEF Numbers, SenderDelta
  <2>2. Budget'
    BY <1>1, <1>4, <1>5, <2>1 DEF Numbers, CountInv, Budget
  <2>3. Promised' /\ Capped'
    BY <1>5, <2>1 DEF CountInv, Promised, Capped, Conserved, Drained
  <2>4. QED
    BY <1>4, <2>2, <2>3 DEF CountInv
<1>8. QED
  BY <1>2, <1>6, <1>7

LEMMA MakeCountCount ==
  ASSUME IInv, Bounded, CountInv, NEW s \in Sender, MakeCount(s)
  PROVE  CountInv'
<1>1. Numbers /\ Making' \in Nat
  BY Naturals, NaturalsAfter DEF IInv, CountInv
<1>2. /\ \A r \in Sender : r # s => sender'[r] = sender[r]
      /\ sender[s].pc = "made" /\ sender'[s].pc = "send"
  BY DEF MakeCount, IInv, TypeOK
<1>3. SenderDelta(s)
  BY <1>2, SenderCounts
<1>4. /\ Making' = Making - 1 /\ Sending' = Sending + 1
      /\ Holding' = Holding /\ Popping' = Popping - 1
  BY <1>1, <1>2, <1>3 DEF Numbers, SenderDelta
<1>5. UNCHANGED <<Writes, Returning, Pushing, Pushed, Zeroed, free, Unsent, unsent, clear>>
  BY SameCounts DEF MakeCount, Zeroed
<1>6. Taken' = Taken + 1
  <2>1. Taken < Wrap - 1
    <3>1. Making >= 1
      BY <1>1, <1>4 DEF Numbers
    <3>2. QED
      BY <1>1, <3>1, TakenBelow DEF CountInv
  <2>2. QED
    BY <2>1, CountDown DEF IInv, MakeCount
<1>7. Budget'
  BY <1>1, <1>4, <1>5, <1>6 DEF Numbers, CountInv, Budget
<1>8. Promised'
  BY <1>1, <1>4, <1>5, <1>6 DEF Numbers, CountInv, Promised
<1>9. Capped'
  BY <1>1, <1>4, <1>5, <1>6 DEF Numbers, CountInv, Capped, Conserved, Drained
<1>10. QED
  BY <1>5, <1>7, <1>8, <1>9 DEF CountInv

LEMMA PopPacketCount ==
  ASSUME IInv, Bounded, CountInv, NEW s \in Sender, PopPacket(s)
  PROVE  CountInv'
<1>1. Numbers
  BY Naturals DEF IInv, CountInv
<1>2. /\ \A r \in Sender : r # s => sender'[r] = sender[r]
      /\ sender[s].pc = "send"
      /\ sender'[s].pc = IF free = <<>> THEN "new" ELSE "popped"
      /\ free' = IF free = <<>> THEN free ELSE Tail(free)
  BY DEF PopPacket, IInv, TypeOK
<1>3. SenderDelta(s)
  BY <1>2, SenderCounts
<1>4. /\ Making' = Making /\ Sending' = Sending /\ Holding' = Holding + 1
      /\ Popping' = Popping + (IF free = <<>> THEN 0 ELSE 1)
  BY <1>1, <1>2, <1>3 DEF Numbers, SenderDelta
<1>5. UNCHANGED <<Writes, Returning, Pushing, Pushed, Taken, Zeroed, Unsent, unsent, clear>>
  BY SameCounts DEF PopPacket, Taken, Zeroed
<1>6. /\ free = <<>> => Len(free) = 0 /\ Len(free') = 0
      /\ free # <<>> => Len(free) >= 1 /\ Len(free') = Len(free) - 1
  BY <1>2, ShorterQueue DEF IInv
<1>7. Budget'
  BY <1>1, <1>4, <1>5 DEF Numbers, CountInv, Budget
<1>8. Promised'
  BY <1>1, <1>4, <1>5, <1>6 DEF Numbers, CountInv, Promised
<1>9. Capped'
  BY <1>1, <1>4, <1>5, <1>6 DEF Numbers, CountInv, Capped, Conserved, Drained
<1>10. QED
  BY <1>5, <1>7, <1>8, <1>9 DEF CountInv

LEMMA StartWriteCount ==
  ASSUME IInv, Bounded, CountInv, NEW s \in Sender, StartWrite(s)
  PROVE  CountInv'
<1> DEFINE m == sender[s].msg
<1>1. Numbers /\ Sending' \in Nat
  BY Naturals, NaturalsAfter DEF IInv, CountInv
<1>2. m \in Msg /\ sender[s].pkt # NoPkt
  BY ConstantsOK DEF StartWrite, IInv, TypeOK, StepsHold
<1>3. /\ \A r \in Sender : r # s => sender'[r] = sender[r]
      /\ sender[s].pc \in {"popped", "new"}
      /\ \/ sender'[s].pc = "idle" /\ unsent' = unsent
         \/ sender'[s].pc = "send" /\ \E n \in unsent : unsent' = unsent \ {n}
      /\ \A n \in Msg : n # m => writing'[n] = writing[n]
  BY <1>2, AfterSend DEF StartWrite, IInv, TypeOK
<1>4. SenderDelta(s)
  BY <1>3, SenderCounts
<1>5. /\ Making' = Making /\ Holding' = Holding - 1
      /\ Popping' = IF sender[s].pc = "popped" THEN Popping - 1 ELSE Popping
      /\ Sending >= 1
  BY <1>1, <1>3, <1>4, SendingSome DEF Numbers, SenderDelta
<1>6. /\ IsFiniteSet(unsent') /\ Unsent' \in Nat
      /\ 3 * Unsent' + 2 * Sending' + 2 <= 3 * Unsent + 2 * Sending
  <2>1. CASE sender'[s].pc = "idle" /\ unsent' = unsent
    <3>1. Sending' = Sending - 1 /\ Unsent' = Unsent
      BY <1>1, <1>3, <1>4, <2>1 DEF Numbers, SenderDelta, Unsent
    <3>2. QED
      BY <1>1, <2>1, <3>1 DEF Numbers, CountInv
  <2>2. CASE sender'[s].pc = "send" /\ \E n \in unsent : unsent' = unsent \ {n}
    <3>1. IsFiniteSet(unsent') /\ Unsent' = Unsent - 1 /\ Unsent' \in Nat
      BY <2>2, FS_RemoveElement, FS_CardinalityType DEF CountInv, Unsent
    <3>2. Sending' = Sending
      BY <1>1, <1>3, <1>4, <2>2 DEF Numbers, SenderDelta
    <3>3. QED
      BY <1>1, <3>1, <3>2 DEF Numbers
  <2>3. QED
    BY <1>3, <2>1, <2>2
<1>7. Writes' = Writes \/ Writes' = Writes + 1
  <2>1. writing'[m] # NoPkt
    BY <1>2 DEF StartWrite, IInv, TypeOK
  <2>2. QED
    BY <1>2, <1>3, <2>1, WritingMoves DEF Writes, Bounded
<1> HIDE DEF m
<1>8. UNCHANGED <<Returning, Pushing, Pushed, Zeroed, free, clear>>
  BY SameCounts DEF StartWrite, Zeroed
<1>9. Taken' = IF sender[s].pc = "popped" THEN Taken + 1 ELSE Taken
  <2>1. CASE sender[s].pc = "popped"
    <3>1. Taken < Wrap - 1
      BY <1>1, <1>5, TakenBelow DEF CountInv
    <3>2. available' = OneLess
      BY <2>1 DEF StartWrite
    <3>3. QED
      BY <2>1, <3>1, <3>2, CountDown DEF IInv
  <2>2. CASE sender[s].pc # "popped"
    BY <2>2 DEF StartWrite, Taken
  <2>3. QED
    BY <2>1, <2>2
<1>10. Budget'
  <2>1. /\ Taken \in Nat /\ Unsent \in Nat /\ Making \in Nat /\ Sending \in Nat
        /\ Writes \in Nat /\ Returning \in Nat /\ Zeroed \in Int
        /\ Cardinality(Msg) \in Nat /\ Unsent' \in Nat /\ Sending' \in Nat
    BY <1>1, <1>6 DEF Numbers
  <2>2. /\ Making' = Making /\ Returning' = Returning /\ Zeroed' = Zeroed
        /\ Taken' = Taken \/ Taken' = Taken + 1
    BY <1>5, <1>8, <1>9
  <2> DEFINE left  == 3 * Unsent + 2 * Sending
             left2 == 3 * Unsent' + 2 * Sending'
             down  == Taken + Writes
             down2 == Taken' + Writes'
             rest  == 3 * Making + Returning
             all   == 3 * Cardinality(Msg) + Zeroed
  <2>3. left \in Int /\ left2 \in Int /\ left2 + 2 <= left
    <3>1. left \in Int /\ left2 \in Int
      BY ONLY <2>1
    <3>2. left2 + 2 <= left
      BY <1>6
    <3>3. QED
      BY ONLY <3>1, <3>2
  <2>4. down \in Int /\ down2 \in Int /\ down2 <= down + 2
    BY <1>7, <2>1, <2>2
  <2>5. rest \in Int /\ all \in Int /\ down + left + rest <= all
    BY <2>1 DEF CountInv, Budget
  <2>6. down2 + left2 + rest =
          Taken' + 3 * Unsent' + 3 * Making' + 2 * Sending' + Writes' + Returning'
    BY <1>7, <2>1, <2>2
  <2>7. all = 3 * Cardinality(Msg) + Zeroed'
    BY <2>2
  <2> HIDE DEF left, left2, down, down2, rest, all
  <2>8. down2 + left2 + rest <= all
    BY ONLY <2>3, <2>4, <2>5
  <2>9. QED
    BY <2>6, <2>7, <2>8 DEF Budget
<1>11. Promised'
  BY <1>1, <1>5, <1>8, <1>9 DEF Numbers, CountInv, Promised
<1>12. Capped'
  <2>1. (Taken' <= PoolSize => Taken <= PoolSize) /\ (Taken >= 1 => Taken' >= 1)
    <3>1. CASE Taken' = Taken
      BY <3>1
    <3>2. CASE Taken' = Taken + 1
      BY ONLY <1>1, <3>2 DEF Numbers
    <3>3. QED
      BY <1>9, <3>1, <3>2
  <2>2. Conserved => Conserved'
    <3>1. CASE Writes' = Writes
      BY <1>1, <1>5, <1>8, <3>1 DEF Numbers, Conserved
    <3>2. CASE Writes' = Writes + 1
      BY <1>1, <1>5, <1>8, <3>2 DEF Numbers, Conserved
    <3>3. QED
      BY <1>7, <3>1, <3>2
  <2>3. Drained => Drained'
    <3>1. CASE Taken' = Taken
      BY <1>8, <3>1 DEF Drained
    <3>2. CASE Taken' = Taken + 1
      BY <1>1, <1>8, <3>2 DEF Numbers, Drained
    <3>3. QED
      BY <1>9, <3>1, <3>2
  <2>4. QED
    BY <1>8, <2>1, <2>2, <2>3 DEF CountInv, Capped
<1>13. QED
  BY <1>6, <1>10, <1>11, <1>12 DEF CountInv

\* Push's test: there is a write's Packet for each that goes on to the push.
LEMMA HandleWriteCount ==
  ASSUME IInv, Bounded, CountInv, NEW t \in Io, NEW m \in Msg, HandleWrite(t, m)
  PROVE  CountInv'
<1>1. Numbers /\ Pushing' \in Nat /\ Pushed' \in Nat
  BY Naturals, NaturalsAfter DEF IInv, CountInv
<1>2. /\ \A u \in Io : u # t => io'[u] = io[u]
      /\ io[t].pc = "idle"
      /\ io'[t].pc = IF HasRoom THEN "push" ELSE "idle"
      /\ \A n \in Msg : n # m => writing'[n] = writing[n]
      /\ writing[m] # NoPkt /\ writing'[m] = NoPkt
  BY DEF HandleWrite, IInv, TypeOK, IdleIo
<1>3. IoDelta(t)
  BY <1>2, IoCounts
<1>4. /\ Returning' = IF HasRoom THEN Returning + 1 ELSE Returning
      /\ Pushing' = IF HasRoom THEN Pushing + 1 ELSE Pushing
      /\ Pushed' = Pushed
  BY <1>1, <1>2, <1>3 DEF Numbers, IoDelta
<1>5. Writes \in Nat /\ Writes' \in Nat /\ Writes' = Writes - 1
  BY <1>2, WritingMoves DEF Writes, Bounded
<1>6. UNCHANGED <<Making, Sending, Holding, Popping, Taken, Zeroed, free, Unsent, unsent, clear>>
  BY SameCounts DEF HandleWrite, Taken, Zeroed
<1>7. HasRoom => Taken >= 1 /\ Taken <= PoolSize
  BY ConstantsOK DEF HasRoom, Taken, IInv, TypeOK
<1>8. Returning' = Pushing' + Pushed' /\ Returning' <= Cardinality(Io)
  BY InPushAfter
<1>9. Budget'
  BY <1>1, <1>4, <1>5, <1>6 DEF Numbers, CountInv, Budget
<1>10. Promised'
  BY <1>1, <1>6 DEF Numbers, CountInv, Promised
<1>11. Capped'
  <2>1. CASE HasRoom
    <3>1. /\ Returning' = Returning + 1 /\ Pushing' = Pushing + 1 /\ Pushed' = Pushed
          /\ Taken' = Taken /\ Len(free') = Len(free) /\ Holding' = Holding
          /\ Pushing + 1 + Pushed <= Cardinality(Io)
          /\ Taken >= 1 /\ Taken <= PoolSize /\ clear' = clear
      BY <1>4, <1>6, <1>7, <1>8, <2>1
    <3>2. SUFFICES ASSUME clear # "done"
                   PROVE  /\ Len(free) + Pushing + 1 <= PoolSize + Cardinality(Io) - 1
                          /\ (Conserved \/ Drained)'
      BY <1>1, <3>1 DEF Numbers, Capped
    <3>3. CASE Conserved
      BY <1>1, <1>5, <3>1, <3>3 DEF Numbers, Conserved
    <3>4. CASE Drained
      BY <1>1, <3>1, <3>4 DEF Numbers, Drained
    <3>5. QED
      BY <3>1, <3>2, <3>3, <3>4 DEF CountInv, Capped
  <2>2. CASE ~HasRoom
    BY <1>1, <1>4, <1>5, <1>6, <2>2
       DEF Numbers, CountInv, Capped, Conserved, Drained
  <2>3. QED
    BY <2>1, <2>2
<1>12. QED
  BY <1>6, <1>9, <1>10, <1>11 DEF CountInv

LEMMA PushPacketCount ==
  ASSUME IInv, Bounded, CountInv, NEW t \in Io, PushPacket(t)
  PROVE  CountInv'
<1>1. Numbers /\ Pushing' \in Nat
  BY Naturals, NaturalsAfter DEF IInv, CountInv
<1>2. /\ \A u \in Io : u # t => io'[u] = io[u]
      /\ io[t].pc = "push" /\ io'[t].pc = "count"
  BY DEF PushPacket, IInv, TypeOK
<1>3. IoDelta(t)
  BY <1>2, IoCounts
<1>4. Returning' = Returning /\ Pushing' = Pushing - 1 /\ Pushed' = Pushed + 1
  BY <1>1, <1>2, <1>3 DEF Numbers, IoDelta
<1>5. Len(free') = Len(free) + 1
  <2>1. io[t].pkt \in Pkt
    BY DEF PushPacket, IInv, TypeOK, StepsHold
  <2>2. QED
    BY <2>1, PushQueue DEF PushPacket, IInv, TypeOK
<1>6. UNCHANGED <<Making, Sending, Holding, Popping, Writes, Taken, Zeroed, Unsent, unsent, clear>>
  BY SameCounts DEF PushPacket, Taken, Zeroed
<1>7. Returning = Pushing + Pushed
  BY InPush
<1>8. Budget'
  BY <1>1, <1>4, <1>6 DEF Numbers, CountInv, Budget
<1>9. Promised'
  BY <1>1, <1>5, <1>6 DEF Numbers, CountInv, Promised
<1>10. Capped'
  BY <1>1, <1>4, <1>5, <1>6, <1>7 DEF Numbers, CountInv, Capped, Conserved, Drained
<1>11. QED
  BY <1>6, <1>8, <1>9, <1>10 DEF CountInv

LEMMA PushCountCount ==
  ASSUME IInv, Bounded, CountInv, NEW t \in Io, PushCount(t)
  PROVE  CountInv'
<1>1. Numbers /\ Pushed' \in Nat /\ Pushing' \in Nat
  BY Naturals, NaturalsAfter DEF IInv, CountInv
<1>2. /\ \A u \in Io : u # t => io'[u] = io[u]
      /\ io[t].pc = "count" /\ io'[t].pc = "idle"
  BY DEF PushCount, IInv, TypeOK, IdleIo
<1>3. IoDelta(t)
  BY <1>2, IoCounts
<1>4. Returning' = Returning - 1 /\ Pushing' = Pushing /\ Pushed' = Pushed - 1
  BY <1>1, <1>2, <1>3 DEF Numbers, IoDelta
<1>5. UNCHANGED <<Making, Sending, Holding, Popping, Writes, Zeroed, free, Unsent, unsent, clear>>
  BY SameCounts DEF PushCount, Zeroed
<1>6. Returning = Pushing + Pushed
  BY InPush
<1>7. Taken' = Taken + 1
  <2>1. Taken < Wrap - 1
    <3>1. Returning >= 1
      BY <1>1, <1>4, <1>6 DEF Numbers
    <3>2. QED
      BY <1>1, <3>1, TakenBelow DEF CountInv
  <2>2. QED
    BY <2>1, CountDown DEF IInv, PushCount
<1>8. Budget'
  BY <1>1, <1>4, <1>5, <1>7 DEF Numbers, CountInv, Budget
<1>9. Promised'
  BY <1>1, <1>5, <1>7 DEF Numbers, CountInv, Promised
<1>10. Capped'
  BY <1>1, <1>4, <1>5, <1>6, <1>7 DEF Numbers, CountInv, Capped, Conserved, Drained
<1>11. QED
  BY <1>5, <1>8, <1>9, <1>10 DEF CountInv

LEMMA ClearCount ==
  ASSUME IInv, Bounded, CountInv, ClearPop \/ ClearZero
  PROVE  CountInv'
<1>1. Numbers
  BY Naturals DEF IInv, CountInv
<1>2. /\ UNCHANGED <<Making, Sending, Holding, Popping, Writes, Returning, Pushing, Pushed>>
      /\ UNCHANGED <<Unsent, unsent>>
  BY SameCounts DEF ClearPop, ClearZero
<1>3. CASE ClearPop
  <2>1. UNCHANGED <<Taken, Zeroed>> /\ clear # "done" /\ clear' \in {"pop", "zero"}
    BY <1>3 DEF ClearPop, Taken, Zeroed
  <2>2. /\ free = <<>> => Len(free) = 0 /\ Len(free') = 0
        /\ free # <<>> => Len(free) >= 1 /\ Len(free') = Len(free) - 1
    BY <1>3, ShorterQueue DEF ClearPop, IInv
  <2>3. Budget' /\ Promised'
    BY <1>1, <1>2, <2>1 DEF Numbers, CountInv, Budget, Promised
  <2>4. Capped'
    BY <1>1, <1>2, <2>1, <2>2 DEF Numbers, CountInv, Capped, Conserved, Drained
  <2>5. QED
    BY <1>2, <2>3, <2>4 DEF CountInv
<1>4. CASE ClearZero
  <2>1. /\ clear = "zero" /\ clear' = "done" /\ Taken' = PoolSize
        /\ Zeroed = 0 /\ Zeroed' = PoolSize /\ UNCHANGED free
    BY <1>1, <1>4 DEF ClearZero, Taken, Zeroed, Numbers
  <2>2. Budget'
    BY <1>1, <1>2, <2>1 DEF Numbers, CountInv, Budget
  <2>3. Promised' /\ Capped'
    BY <1>1, <1>2, <2>1 DEF Numbers, Promised, Capped
  <2>4. QED
    BY <1>2, <2>2, <2>3 DEF CountInv
<1>5. QED
  BY <1>3, <1>4

LEMMA CountInit == Bounded /\ Init => CountInv
<1> SUFFICES ASSUME Bounded, Init PROVE CountInv
  OBVIOUS
<1>1. /\ SenderAt({"made"}) = {} /\ SenderAt({"send", "popped", "new"}) = {}
      /\ SenderAt({"popped", "new"}) = {} /\ SenderAt({"made", "popped"}) = {}
      /\ Written = {} /\ IoAt({"push", "count"}) = {}
      /\ IoAt({"push"}) = {} /\ IoAt({"count"}) = {}
  BY DEF Init, SenderAt, IoAt, Written, IdleSender, IdleIo
<1>2. /\ Making = 0 /\ Sending = 0 /\ Holding = 0 /\ Popping = 0
      /\ Writes = 0 /\ Returning = 0 /\ Pushing = 0 /\ Pushed = 0
  BY <1>1, FS_EmptySet
     DEF Making, Sending, Holding, Popping, Writes, Returning, Pushing, Pushed
<1>3. /\ Taken = 0 /\ Len(free) = PoolSize /\ Unsent = Cardinality(Msg) /\ clear = "no"
      /\ PoolSize \in Nat /\ Zeroed = 0 /\ unsent = Msg
  BY ConstantsOK DEF Init, Taken, Zeroed, Unsent
<1>4. Cardinality(Msg) \in Nat /\ Cardinality(Io) \in Nat \ {0}
  BY FS_CardinalityType, FS_EmptySet DEF Bounded
<1>5. Budget /\ Promised
  BY <1>2, <1>3, <1>4 DEF Budget, Promised
<1>6. Capped
  BY <1>2, <1>3, <1>4 DEF Capped, Conserved
<1>7. QED
  BY <1>3, <1>5, <1>6 DEF CountInv, Bounded

LEMMA CountStep == Bounded /\ IInv /\ CountInv /\ [Next]_vars => CountInv'
<1> SUFFICES ASSUME Bounded, IInv, CountInv, [Next]_vars PROVE CountInv'
  OBVIOUS
<1>1. ASSUME NEW s \in Sender, SenderStep(s) PROVE CountInv'
  BY <1>1, MakePacketCount, MakeCountCount, PopPacketCount, StartWriteCount DEF SenderStep
<1>2. ASSUME NEW t \in Io, IoStep(t) PROVE CountInv'
  BY <1>2, HandleWriteCount, PushPacketCount, PushCountCount DEF IoStep
<1>3. CASE ClearPop \/ ClearZero
  BY <1>3, ClearCount
<1>4. CASE UNCHANGED vars
  <2>1. /\ UNCHANGED <<Making, Sending, Holding, Popping, Writes, Returning, Pushing, Pushed>>
        /\ UNCHANGED <<Taken, Zeroed, free, Unsent, unsent, clear>>
    BY <1>4, SameCounts DEF vars, Taken, Zeroed
  <2>2. QED
    BY <2>1 DEF CountInv, Budget, Promised, Capped, Conserved, Drained
<1>5. QED
  BY <1>1, <1>2, <1>3, <1>4 DEF Next

\* For any number of threads and messages and any size of the pool: until the
\* shutdown zeroes the counter, less than one Packet per asio thread is queued
\* beyond m_PoolSize, although Push tests the counter before it pushes and
\* counts down where it should count up.  The counter must not wrap round twice:
\* three steps down per message, against the 2^64 values of a size_t.
THEOREM CapSafe ==
  ASSUME Bounded
  PROVE  Spec => []PoolCapped
<1>1. IInv /\ CountInv => PoolCapped
  <2> SUFFICES ASSUME IInv, CountInv, clear # "done"
               PROVE  Len(free) <= PoolSize + Cardinality(Io) - 1
    BY DEF PoolCapped
  <2>1. Numbers
    BY Naturals DEF IInv, CountInv
  <2>2. QED
    BY <2>1 DEF Numbers, CountInv, Capped
<1>2. /\ Init => CountInv
      /\ IInv /\ CountInv /\ [Next]_vars => CountInv'
  BY CountInit, CountStep
<1>3. QED
  BY <1>1, <1>2, Invariance, PTL DEF Spec

\* Until it wraps, the counter promises only Packets that are queued or just
\* being popped, whatever the other threads do between a pop and its count.
THEOREM PromiseSafe ==
  ASSUME Bounded
  PROVE  Spec => []AvailableIsThere
<1>1. IInv /\ CountInv => AvailableIsThere
  <2> SUFFICES ASSUME IInv, CountInv, clear \in {"no", "done"}, available <= PoolSize
               PROVE  available <= Len(free) + Popping
    BY DEF AvailableIsThere, Popping, SenderAt
  <2>1. Numbers
    BY Naturals DEF IInv, CountInv
  <2>2. Taken <= PoolSize /\ available = PoolSize - Taken
    BY <2>1 DEF Taken, Numbers, IInv, TypeOK
  <2>3. QED
    BY <2>1, <2>2 DEF Numbers, CountInv, Promised
<1>2. /\ Init => CountInv
      /\ IInv /\ CountInv /\ [Next]_vars => CountInv'
  BY CountInit, CountStep
<1>3. QED
  BY <1>1, <1>2, Invariance, PTL DEF Spec

=============================================================================
