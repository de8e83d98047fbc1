--------------------------- MODULE ChatRoomsProofs ---------------------------
(* For any number of sessions, workers, rooms and requests: the variables    *)
(* keep their types, messages arrive in one order for all and in their       *)
(* sender's order, and whoever was told it entered a room hears what is said *)
(* there.  Whoever has a room's mutex gets through its broadcast.  While     *)
(* room IDs have not wrapped, a chat message goes to a room its sender is in.*)
EXTENDS ChatRooms, FiniteSetTheorems, SequenceTheorems, TLAPS

Entry == [key : RoomID, player : Player]

TaskType == [pc : {"idle", "create", "enter", "ack", "chat", "send", "list"},
             player : Player \cup {NoPlayer}, room : Room \cup {0},
             n : Number \cup {0}, sent : Nat, left : SUBSET Room, info : Info]

LEMMA NatSucc == \A n \in Nat : n + 1 \in Nat
OBVIOUS

\* w's handler has a chat message to send.
Chatting(w) == task[w].pc \in {"chat", "send"}

\* The message it sends, and the player of the next entry it sends it to.
Sends(w) == Chat(task[w].room, task[w].player, task[w].n)
Receiver(w) == members[task[w].room][task[w].sent + 1].player

\* A handler runs on its session's worker, with a room unless it lists them.
Working ==
  \A w \in Worker :
    /\ task[w].pc # "idle" => task[w].player \in Player /\ Owner[task[w].player] = w
    /\ task[w].pc \notin {"idle", "list"} => task[w].room \in Room
    /\ Chatting(w) => task[w].n \in Number

\* The directory has the rooms that are asked for, and the room of a player
\* who is, or is about to be, told it has entered.
QueuedKnown ==
  \A p \in Player : \A i \in 1 .. Len(requests[p]) :
    /\ requests[p][i].do = "enter" => directory[requests[p][i].id] # 0
    /\ requests[p][i].do = "chat" => SawAck(p)
ToldKnown == \A p \in Player : SawAck(p) => directory[chatRoomID[p]] # 0
EnteringKnown ==
  \A w \in Worker : task[w].pc \in {"create", "enter", "ack"} => directory[RoomIDAfter(w)] # 0

RoomsKnown == QueuedKnown /\ ToldKnown /\ EnteringKnown

TypeInv == TypeOK /\ Working /\ RoomsKnown

-----------------------------------------------------------------------------
(* Requests, messages, sequences *)

LEMMA Numbers ==
  /\ Number \subseteq Nat \ {0}
  /\ RoomID \subseteq Nat /\ 0 \in RoomID
  /\ \A n \in Nat : IdOf(n) \in RoomID
<1>1. Number \subseteq Nat \ {0}
  BY ConstantsOK DEF Number
<1>2. \A n \in Nat : n % RoomMod \in 0 .. RoomMod - 1
  BY ConstantsOK
<1>3. QED
  BY <1>1, <1>2, ConstantsOK DEF RoomID, IdOf

LEMMA Requests ==
  ASSUME NEW q \in Request
  PROVE  /\ q.do = "enter" => q.id \in RoomID
         /\ q.do = "chat" => q.n \in Number
BY DEF Request

LEMMA Messages ==
  ASSUME NEW m \in Message
  PROVE  /\ m.what = "entered" => \E r \in Room : m = Entered(r)
         /\ m.what = "chat" =>
              \E r \in Room, p \in Player, n \in Number : m = Chat(r, p, n)
BY DEF Message, Listed, Entered, Chat

\* What the three kinds of messages are told apart by.
LEMMA Kinds ==
  ASSUME NEW r, NEW p, NEW n, NEW info
  PROVE  /\ Entered(r).what = "entered" /\ Entered(r).room = r
         /\ Chat(r, p, n).what = "chat" /\ Chat(r, p, n).room = r
         /\ Chat(r, p, n).from = p /\ Chat(r, p, n).n = n
         /\ Listed(info).what = "list"
BY DEF Entered, Chat, Listed

\* Send appends a message to one session's out.
LEMMA Sent ==
  ASSUME TypeOK, NEW p \in Player, NEW m \in Message,
         out' = [out EXCEPT ![p] = Append(@, m)]
  PROVE  /\ out' \in [Player -> Seq(Message)]
         /\ \A q \in Player \ {p} : out'[q] = out[q]
         /\ Len(out[p]) \in Nat /\ Len(out'[p]) = Len(out[p]) + 1
         /\ \A i \in 1 .. Len(out[p]) : out'[p][i] = out[p][i]
         /\ out'[p][Len(out[p]) + 1] = m
<1>1. out \in [Player -> Seq(Message)] /\ out[p] \in Seq(Message)
  BY DEF TypeOK
<1>2. out'[p] = Append(out[p], m)
  BY <1>1
<1>3. QED
  BY <1>1, <1>2, AppendProperties, LenProperties

\* A worker takes the first packet of a session.
LEMMA Taken ==
  ASSUME TypeOK, NEW p \in Player, requests[p] # <<>>,
         requests' = [requests EXCEPT ![p] = Tail(@)]
  PROVE  /\ requests' \in [Player -> Seq(Request)]
         /\ \A q \in Player \ {p} : requests'[q] = requests[q]
         /\ Len(requests[p]) \in Nat \ {0} /\ Len(requests'[p]) = Len(requests[p]) - 1
         /\ \A i \in 1 .. Len(requests'[p]) : requests'[p][i] = requests[p][i + 1]
         /\ Head(requests[p]) = requests[p][1] /\ Head(requests[p]) \in Request
<1>1. requests \in [Player -> Seq(Request)] /\ requests[p] \in Seq(Request)
  BY DEF TypeOK
<1>2. requests'[p] = Tail(requests[p])
  BY <1>1
<1>3. QED
  BY <1>1, <1>2, HeadTailProperties, LenProperties

\* Where emplace puts an entry: some place; the others keep their order.
LEMMA EntryAdded ==
  ASSUME NEW r \in Room, members[r] \in Seq(Entry), NEW e \in Entry
  PROVE  /\ WithEntry(r, e) \in Seq(Entry) /\ Len(WithEntry(r, e)) = Len(members[r]) + 1
         /\ \E i \in 1 .. Len(WithEntry(r, e)) : WithEntry(r, e)[i] = e
         /\ \A j \in 1 .. Len(members[r]) :
              \E i \in 1 .. Len(WithEntry(r, e)) : WithEntry(r, e)[i] = members[r][j]
         /\ \A i \in 1 .. Len(WithEntry(r, e)) : WithEntry(r, e)[i] = e \/
              \E j \in 1 .. Len(members[r]) : WithEntry(r, e)[i] = members[r][j]
<1> DEFINE q == members[r]
           S == {i \in 1 .. Len(q) : q[i].key <= e.key}
           n == Cardinality(S)
<1>1. Len(q) \in Nat /\ q \in Seq(Entry) /\ \A i \in 1 .. Len(q) : q[i] \in Entry
  BY LenProperties, ElementOfSeq
<1>2. n \in 0 .. Len(q)
  <2>1. IsFiniteSet(1 .. Len(q)) /\ Cardinality(1 .. Len(q)) = Len(q)
    <3>1. 1 \in Int /\ Len(q) \in Int
      BY <1>1
    <3> HIDE DEF q
    <3>2. /\ IsFiniteSet(1 .. Len(q))
          /\ Cardinality(1 .. Len(q)) = IF 1 > Len(q) THEN 0 ELSE Len(q) - 1 + 1
      BY <3>1, FS_Interval
    <3>3. Len(q) \in Nat
      BY <1>1
    <3>4. QED
      BY <3>2, <3>3
  <2>2. IsFiniteSet(S) /\ n <= Cardinality(1 .. Len(q))
    BY <2>1, FS_Subset
  <2>3. n \in Nat
    BY <2>2, FS_CardinalityType
  <2>4. QED
    BY <1>1, <2>1, <2>2, <2>3
<1>3. PICK k \in 0 .. Len(q) :
        WithEntry(r, e) = (SubSeq(q, 1, k) \o <<e>>) \o SubSeq(q, k + 1, Len(q))
  BY <1>2 DEF WithEntry
<1> DEFINE a == SubSeq(q, 1, k)
           b == SubSeq(q, k + 1, Len(q))
           c == a \o <<e>>
<1>k. k \in Nat /\ k <= Len(q)
  BY <1>1
<1>4. /\ a \in Seq(Entry) /\ Len(a) = k
      /\ \A i \in 1 .. k : a[i] = q[i]
  <2>1. \A i \in 1 .. k : q[i] \in Entry
    BY <1>1
  <2>2. 1 \in Int /\ k \in Int
    OBVIOUS
  <2> HIDE DEF q
  <2>3. QED
    BY <2>1, <2>2, SubSeqProperties
<1>5. /\ b \in Seq(Entry) /\ Len(b) = Len(q) - k
      /\ \A i \in 1 .. Len(q) - k : b[i] = q[k + i]
  <2>1. \A i \in k + 1 .. Len(q) : q[i] \in Entry
    BY <1>1
  <2>2. k + 1 \in Int /\ Len(q) \in Int /\ k <= Len(q)
    BY <1>1
  <2> HIDE DEF q
  <2>3. /\ b \in Seq(Entry) /\ Len(b) = IF k + 1 <= Len(q) THEN Len(q) - (k + 1) + 1 ELSE 0
        /\ \A i \in 1 .. Len(q) - (k + 1) + 1 : b[i] = q[k + 1 + i - 1]
    BY <2>1, <2>2, SubSeqProperties
  <2>4. QED
    BY <2>2, <2>3
<1> HIDE DEF a, b, q
<1>6. /\ c \in Seq(Entry) /\ Len(c) = k + 1
      /\ \A i \in 1 .. k : c[i] = q[i]
      /\ c[k + 1] = e
  <2>1. c = Append(a, e)
    BY <1>4, AppendIsConcat
  <2>2. QED
    BY <1>4, <2>1, AppendProperties
<1> HIDE DEF c
<1>7. /\ c \o b \in Seq(Entry) /\ Len(c \o b) = Len(q) + 1
      /\ \A i \in 1 .. k : (c \o b)[i] = q[i]
      /\ (c \o b)[k + 1] = e
      /\ \A i \in 1 .. Len(q) - k : (c \o b)[k + 1 + i] = q[k + i]
  <2>1. /\ c \o b \in Seq(Entry) /\ Len(c \o b) = Len(c) + Len(b)
        /\ \A i \in 1 .. Len(c) + Len(b) :
             (c \o b)[i] = IF i <= Len(c) THEN c[i] ELSE b[i - Len(c)]
    BY <1>5, <1>6, ConcatProperties
  <2>2. \A i \in 1 .. Len(q) - k : (c \o b)[k + 1 + i] = q[k + i]
    <3> SUFFICES ASSUME NEW i \in 1 .. Len(q) - k PROVE (c \o b)[k + 1 + i] = q[k + i]
      OBVIOUS
    <3>1. k + 1 + i \in 1 .. Len(c) + Len(b) /\ ~(k + 1 + i <= Len(c)) /\ k + 1 + i - Len(c) = i
      BY <1>1, <1>5, <1>6
    <3>2. (c \o b)[k + 1 + i] = b[k + 1 + i - Len(c)]
      BY <2>1, <3>1
    <3>3. QED
      BY <1>5, <3>1, <3>2
  <2>3. \A i \in 1 .. k + 1 : (c \o b)[i] = c[i]
    BY <1>1, <1>k, <1>5, <1>6, <2>1
  <2>4. k + 1 \in 1 .. k + 1 /\ \A i \in 1 .. k : i \in 1 .. k + 1
    BY <1>k
  <2>5. Len(c) + Len(b) = Len(q) + 1
    BY <1>1, <1>k, <1>5, <1>6
  <2>6. QED
    BY <1>6, <2>1, <2>2, <2>3, <2>4, <2>5
<1>8. \A j \in 1 .. Len(q) : \E i \in 1 .. Len(q) + 1 : (c \o b)[i] = q[j]
  <2> SUFFICES ASSUME NEW j \in 1 .. Len(q) PROVE \E i \in 1 .. Len(q) + 1 : (c \o b)[i] = q[j]
    OBVIOUS
  <2>1. CASE j <= k
    <3>1. j \in 1 .. k /\ j \in 1 .. Len(q) + 1
      BY <1>1, <1>k, <2>1
    <3>2. (c \o b)[j] = q[j]
      BY <1>7, <3>1, Zenon
    <3>3. QED
      BY <3>1, <3>2, Zenon
  <2>2. CASE j > k
    <3>1. j - k \in 1 .. Len(q) - k /\ k + (j - k) = j /\ k + 1 + (j - k) \in 1 .. Len(q) + 1
      BY <1>1, <1>k, <2>2
    <3>2. (c \o b)[k + 1 + (j - k)] = q[j]
      BY <1>7, <3>1
    <3>3. QED
      BY <3>1, <3>2
  <2>3. j <= k \/ j > k
    BY <1>1, <1>k
  <2>4. QED
    BY <2>1, <2>2, <2>3
<1>9. WithEntry(r, e) = c \o b /\ k + 1 \in 1 .. Len(q) + 1
  BY <1>1, <1>k, <1>3 DEF a, b, c, q
<1>10. \A i \in 1 .. Len(q) + 1 : (c \o b)[i] = e \/ \E j \in 1 .. Len(q) : (c \o b)[i] = q[j]
  <2> SUFFICES ASSUME NEW i \in 1 .. Len(q) + 1, i # k + 1
               PROVE  \E j \in 1 .. Len(q) : (c \o b)[i] = q[j]
    BY <1>7
  <2>1. CASE i <= k
    <3>1. i \in 1 .. k /\ i \in 1 .. Len(q)
      BY <1>1, <1>k, <2>1
    <3>2. QED
      BY <1>7, <3>1
  <2>2. CASE i > k
    <3>1. i - 1 - k \in 1 .. Len(q) - k /\ k + (i - 1 - k) = i - 1 /\ k + 1 + (i - 1 - k) = i
      BY <1>1, <1>k, <2>2
    <3>2. (c \o b)[i] = q[i - 1]
      BY <1>7, <3>1
    <3>3. i - 1 \in 1 .. Len(q)
      BY <1>1, <1>k, <2>2
    <3>4. QED
      BY <3>2, <3>3
  <2>3. i <= k \/ i > k
    BY <1>1, <1>k
  <2>4. QED
    BY <2>1, <2>2, <2>3
<1> DEFINE z == c \o b
<1>11. z \in Seq(Entry) /\ Len(z) = Len(q) + 1
  BY <1>7
<1>12. \E i \in 1 .. Len(z) : z[i] = e
  <2>1. k + 1 \in 1 .. Len(z) /\ z[k + 1] = e
    BY <1>7, <1>9
  <2> HIDE DEF z
  <2>2. QED
    BY <2>1
<1>13. \A j \in 1 .. Len(q) : \E i \in 1 .. Len(z) : z[i] = q[j]
  BY <1>8, <1>11
<1>14. \A i \in 1 .. Len(z) : z[i] = e \/ \E j \in 1 .. Len(q) : z[i] = q[j]
  BY <1>10, <1>11
<1>15. WithEntry(r, e) = z
  BY <1>9
<1> HIDE DEF z
<1>16. QED
  BY <1>11, <1>12, <1>13, <1>14, <1>15 DEF q

-----------------------------------------------------------------------------
(* Types *)

\* A worker goes on with v.
LEMMA TaskChanged ==
  ASSUME TypeInv, NEW w \in Worker, NEW v \in TaskType, task' = [task EXCEPT ![w] = v],
         v.pc # "idle" => v.player \in Player /\ Owner[v.player] = w,
         v.pc \notin {"idle", "list"} => v.room \in Room,
         v.pc \in {"chat", "send"} => v.n \in Number
  PROVE  /\ task' \in [Worker -> TaskType] /\ Working'
         /\ task'[w] = v /\ \A u \in Worker \ {w} : task'[u] = task[u]
<1>1. task \in [Worker -> TaskType] /\ Working
  BY DEF TypeInv, TypeOK, TaskType
<1>2. /\ task' \in [Worker -> TaskType]
      /\ task'[w] = v /\ \A u \in Worker \ {w} : task'[u] = task[u]
  BY <1>1
<1>3. Working'
  BY <1>1, <1>2 DEF Working, Chatting
<1>4. QED
  BY <1>2, <1>3

LEMMA Tasks ==
  ASSUME TypeInv, NEW w \in Worker
  PROVE  /\ task[w] \in TaskType
         /\ task[w].pc # "idle" => task[w].player \in Player /\ Owner[task[w].player] = w
         /\ task[w].pc \notin {"idle", "list"} => task[w].room \in Room
         /\ task[w].pc \in {"chat", "send"} => task[w].n \in Number
BY DEF TypeInv, TypeOK, TaskType, Working, Chatting

LEMMA IdleTask == Idle \in TaskType /\ Idle.pc = "idle"
BY DEF Idle, TaskType, NoInfo, Info, NotListed

\* Most actions only shorten queues and move handlers on.
LEMMA QueuedStays ==
  ASSUME TypeInv, directory' = directory,
         \A p \in Player : \A i \in 1 .. Len(requests'[p]) :
           \E j \in 1 .. Len(requests[p]) : requests'[p][i] = requests[p][j],
         \A p \in Player : SawAck(p) => SawAck(p)'
  PROVE  QueuedKnown'
<1>1. SUFFICES ASSUME NEW p \in Player, NEW i \in 1 .. Len(requests'[p])
               PROVE  /\ requests'[p][i].do = "enter" => directory'[requests'[p][i].id] # 0
                      /\ requests'[p][i].do = "chat" => SawAck(p)'
  BY DEF QueuedKnown
<1>2. PICK j \in 1 .. Len(requests[p]) : requests'[p][i] = requests[p][j]
  BY <1>1
<1>3. /\ requests[p][j].do = "enter" => directory[requests[p][j].id] # 0
      /\ requests[p][j].do = "chat" => SawAck(p)
  BY <1>2 DEF TypeInv, RoomsKnown, QueuedKnown
<1>4. QED
  BY <1>2, <1>3

LEMMA KnownStays ==
  ASSUME TypeInv, directory' = directory, chatRoomID' = chatRoomID,
         \A p \in Player : \A i \in 1 .. Len(requests'[p]) :
           \E j \in 1 .. Len(requests[p]) : requests'[p][i] = requests[p][j],
         \A p \in Player : SawAck(p)' <=> SawAck(p),
         \A w \in Worker : task'[w].pc \in {"create", "enter", "ack"} => task'[w] = task[w]
  PROVE  RoomsKnown'
<1>1. QueuedKnown'
  BY QueuedStays
<1>2. ToldKnown'
  BY DEF TypeInv, RoomsKnown, ToldKnown
<1>3. \A w \in Worker : task'[w].pc \in {"create", "enter", "ack"} =>
        RoomIDAfter(w)' = RoomIDAfter(w) /\ task[w].pc \in {"create", "enter", "ack"}
  BY DEF RoomIDAfter
<1>4. EnteringKnown'
  BY <1>3 DEF TypeInv, RoomsKnown, EnteringKnown
<1>5. QED
  BY <1>1, <1>2, <1>4 DEF RoomsKnown

\* A chat message or a room list is no EnterChatRoomAck.
LEMMA NoAckSent ==
  ASSUME TypeOK, NEW q \in Player, NEW m \in Message, m.what # "entered",
         out' = [out EXCEPT ![q] = Append(@, m)]
  PROVE  \A p \in Player : SawAck(p)' <=> SawAck(p)
<1>1. /\ Len(out[q]) \in Nat /\ Len(out'[q]) = Len(out[q]) + 1
      /\ \A i \in 1 .. Len(out[q]) : out'[q][i] = out[q][i]
      /\ out'[q][Len(out[q]) + 1] = m
      /\ \A p \in Player \ {q} : out'[p] = out[p]
  BY Sent, Zenon
<1>2. SawAck(q)' <=> SawAck(q)
  BY <1>1 DEF SawAck
<1>3. ASSUME NEW p \in Player \ {q} PROVE SawAck(p)' <=> SawAck(p)
  BY <1>1, Zenon DEF SawAck
<1>4. QED
  BY <1>2, <1>3

\* What is left of the queues was there before.
LEMMA QueuesShorter ==
  ASSUME TypeOK, NEW p \in Player, requests[p] # <<>>,
         requests' = [requests EXCEPT ![p] = Tail(@)]
  PROVE  \A q \in Player : \A i \in 1 .. Len(requests'[q]) :
           \E j \in 1 .. Len(requests[q]) : requests'[q][i] = requests[q][j]
<1>1. Len(requests[p]) \in Nat /\ Len(requests'[p]) = Len(requests[p]) - 1
  BY Taken
<1>2. \A i \in 1 .. Len(requests'[p]) : i + 1 \in 1 .. Len(requests[p])
  BY <1>1
<1>3. QED
  BY <1>2, Taken

LEMMA AskType == ASSUME TypeInv, NEW p \in Player, ClientAsks(p) PROVE TypeInv'
<1> USE DEF TypeInv
<1>1. PICK q \in {[do |-> "create"], [do |-> "list"]}
                 \cup {[do |-> "enter", id |-> i] : i \in {j \in RoomID : directory[j] # 0}}
                 \cup {[do |-> "chat", n |-> asked[p] + 1]} :
        /\ q.do = "chat" => SawAck(p)
        /\ requests' = [requests EXCEPT ![p] = Append(@, q)]
  BY DEF ClientAsks
<1>2. asked[p] + 1 \in Number /\ asked' \in [Player -> Number \cup {0}]
  <2>1. asked \in [Player -> Number \cup {0}] /\ asked[p] \in Nat /\ MaxReq[p] \in Nat
    BY ConstantsOK, Numbers DEF TypeOK
  <2>2. asked' = [asked EXCEPT ![p] = @ + 1] /\ asked[p] + 1 \in 1 .. MaxReq[p]
    BY <2>1 DEF ClientAsks
  <2>3. asked[p] + 1 \in Number
    BY <2>2 DEF Number
  <2>4. QED
    BY <2>1, <2>2, <2>3
<1>3. q \in Request /\ (q.do = "enter" => directory[q.id] # 0)
  BY <1>2 DEF Request
<1>4. requests[p] \in Seq(Request) /\ requests \in [Player -> Seq(Request)]
  BY DEF TypeOK
<1>5. /\ requests' \in [Player -> Seq(Request)]
      /\ \A s \in Player \ {p} : requests'[s] = requests[s]
      /\ requests'[p] = Append(requests[p], q)
  BY <1>1, <1>3, <1>4, AppendProperties
<1>6. /\ Len(requests[p]) \in Nat /\ Len(requests'[p]) = Len(requests[p]) + 1
      /\ \A i \in 1 .. Len(requests[p]) : requests'[p][i] = requests[p][i]
      /\ requests'[p][Len(requests[p]) + 1] = q
  BY <1>3, <1>4, <1>5, AppendProperties, LenProperties
<1>7. TypeOK' /\ Working'
  BY <1>2, <1>5 DEF ClientAsks, TypeOK, Working, Chatting
<1>8. /\ \A s \in Player : SawAck(s)' <=> SawAck(s)
      /\ \A w \in Worker : RoomIDAfter(w)' = RoomIDAfter(w)
  BY DEF ClientAsks, SawAck, RoomIDAfter
<1>9. RoomsKnown'
  <2>1. \A i \in 1 .. Len(requests'[p]) :
          /\ requests'[p][i].do = "enter" => directory[requests'[p][i].id] # 0
          /\ requests'[p][i].do = "chat" => SawAck(p)
    BY <1>1, <1>3, <1>6 DEF RoomsKnown, QueuedKnown
  <2>2. directory' = directory /\ chatRoomID' = chatRoomID /\ task' = task
    BY DEF ClientAsks
  <2>3. \A s \in Player : \A i \in 1 .. Len(requests'[s]) :
          /\ requests'[s][i].do = "enter" => directory[requests'[s][i].id] # 0
          /\ requests'[s][i].do = "chat" => SawAck(s)
    <3> SUFFICES ASSUME NEW s \in Player
                 PROVE  \A i \in 1 .. Len(requests'[s]) :
                          /\ requests'[s][i].do = "enter" => directory[requests'[s][i].id] # 0
                          /\ requests'[s][i].do = "chat" => SawAck(s)
      OBVIOUS
    <3>1. CASE s = p
      BY <2>1, <3>1
    <3>2. CASE s # p
      BY <1>5, <3>2 DEF RoomsKnown, QueuedKnown
    <3>3. QED
      BY <3>1, <3>2
  <2>4. QueuedKnown'
    BY <1>8, <2>2, <2>3 DEF QueuedKnown
  <2>5. ToldKnown' /\ EnteringKnown'
    BY <1>8, <2>2 DEF RoomsKnown, ToldKnown, EnteringKnown
  <2>6. QED
    BY <2>4, <2>5 DEF RoomsKnown
<1>10. QED
  BY <1>7, <1>9

LEMMA DisconnectType == ASSUME TypeInv, NEW p \in Player, Disconnect(p) PROVE TypeInv'
<1>1. TypeOK' /\ Working'
  BY DEF TypeInv, Disconnect, TypeOK, Working, Chatting
<1>2. RoomsKnown'
  BY DEF TypeInv, Disconnect, RoomsKnown, QueuedKnown, ToldKnown, EnteringKnown, SawAck,
     RoomIDAfter
<1>3. QED
  BY <1>1, <1>2 DEF TypeInv

LEMMA DropType ==
  ASSUME TypeInv, NEW w \in Worker, NEW p \in Player, DropRequest(w, p) PROVE TypeInv'
<1>1. TypeOK' /\ Working'
  BY Taken DEF TypeInv, DropRequest, TypeOK, Working, Chatting
<1>2. RoomsKnown'
  <2>1. \A s \in Player : SawAck(s)' <=> SawAck(s)
    BY DEF DropRequest, SawAck
  <2>2. QED
    BY <2>1, KnownStays, QueuesShorter DEF TypeInv, DropRequest
<1>3. QED
  BY <1>1, <1>2 DEF TypeInv

LEMMA AfterIsID ==
  ASSUME TypeInv, NEW w \in Worker, task[w].pc \in {"create", "enter", "ack"}
  PROVE  RoomIDAfter(w) \in RoomID
<1>1. task[w].player \in Player /\ task[w].room \in Room
  BY Tasks
<1>2. task[w].room \in Nat /\ chatRoomID[task[w].player] \in RoomID
  BY <1>1, ConstantsOK DEF Room, TypeInv, TypeOK
<1>3. QED
  BY <1>2, Numbers DEF RoomIDAfter

\* The handler that takes a packet is the only one of its session.
LEMMA Alone ==
  ASSUME TypeInv, NEW w \in Worker, NEW p \in Player, Owner[p] = w
  PROVE  \A u \in Worker \ {w} : task[u].pc # "idle" => task[u].player # p
BY DEF TypeInv, Working

LEMMA CreateType ==
  ASSUME TypeInv, NEW w \in Worker, NEW p \in Player, CreateRoom(w, p) PROVE TypeInv'
<1> DEFINE r == roomNumber + 1
           v == [Idle EXCEPT !.pc = "create", !.player = p, !.room = r]
<1>1. r \in Room /\ r \in Nat /\ IdOf(r) \in RoomID
  <2>1. roomNumber \in Nat /\ MaxRooms \in Nat /\ roomNumber < MaxRooms
    BY ConstantsOK DEF TypeInv, TypeOK, CreateRoom
  <2>2. QED
    BY <2>1, Numbers DEF Room
<1>2. /\ v \in TaskType /\ v.pc = "create" /\ v.player = p /\ v.room = r
  BY <1>1, IdleTask DEF TaskType, Idle
<1>3. task' = [task EXCEPT ![w] = v] /\ Owner[p] = w
  BY DEF CreateRoom, Takes, Runs
<1>4. /\ task' \in [Worker -> TaskType] /\ Working'
      /\ task'[w] = v /\ \A u \in Worker \ {w} : task'[u] = task[u]
  BY <1>1, <1>2, <1>3, TaskChanged, ZenonT(60)
<1>5. /\ directory' \in [RoomID -> Room \cup {0}]
      /\ \A i \in RoomID : directory[i] # 0 => directory'[i] # 0
      /\ directory'[IdOf(r)] # 0
  BY <1>1 DEF TypeInv, TypeOK, CreateRoom, Room
<1>6. TypeOK'
  <2>1. requests' \in [Player -> Seq(Request)]
    BY Taken DEF TypeInv, CreateRoom, Takes
  <2>2. roomNumber' \in 0 .. MaxRooms
    BY <1>1 DEF CreateRoom, Room
  <2>3. QED
    BY <1>4, <1>5, <2>1, <2>2 DEF TypeInv, TypeOK, CreateRoom, TaskType
<1>7. RoomsKnown'
  <2>1. chatRoomID' = chatRoomID /\ \A s \in Player : SawAck(s)' <=> SawAck(s)
    BY DEF CreateRoom, SawAck
  <2>2. \A s \in Player : \A i \in 1 .. Len(requests'[s]) :
          /\ requests'[s][i] \in Request
          /\ \E j \in 1 .. Len(requests[s]) : requests'[s][i] = requests[s][j]
    <3>1. \A s \in Player : requests'[s] \in Seq(Request)
      BY <1>6 DEF TypeOK
    <3>2. \A s \in Player : \A i \in 1 .. Len(requests'[s]) :
            \E j \in 1 .. Len(requests[s]) : requests'[s][i] = requests[s][j]
      BY QueuesShorter DEF TypeInv, CreateRoom, Takes
    <3>3. QED
      BY <3>1, <3>2, ElementOfSeq
  <2>3. QueuedKnown'
    <3> SUFFICES ASSUME NEW s \in Player, NEW i \in 1 .. Len(requests'[s])
                 PROVE  /\ requests'[s][i].do = "enter" => directory'[requests'[s][i].id] # 0
                        /\ requests'[s][i].do = "chat" => SawAck(s)'
      BY DEF QueuedKnown
    <3>1. PICK j \in 1 .. Len(requests[s]) : requests'[s][i] = requests[s][j]
      BY <2>2
    <3>2. /\ requests[s][j].do = "enter" => directory[requests[s][j].id] # 0
          /\ requests[s][j].do = "chat" => SawAck(s)
      BY DEF TypeInv, RoomsKnown, QueuedKnown
    <3>3. requests'[s][i].do = "enter" => requests'[s][i].id \in RoomID
      BY <2>2, Requests
    <3>4. QED
      BY <1>5, <2>1, <3>1, <3>2, <3>3
  <2>4. ToldKnown'
    BY <1>5, <2>1 DEF TypeInv, TypeOK, RoomsKnown, ToldKnown
  <2>5. ASSUME NEW u \in Worker, task'[u].pc \in {"create", "enter", "ack"}
        PROVE  directory'[RoomIDAfter(u)'] # 0
    <3>1. CASE u = w
      BY <1>2, <1>4, <1>5, <3>1 DEF RoomIDAfter
    <3>2. CASE u # w
      <4>1. RoomIDAfter(u)' = RoomIDAfter(u) /\ task[u].pc \in {"create", "enter", "ack"}
        BY <1>4, <2>1, <2>5, <3>2 DEF RoomIDAfter
      <4>2. RoomIDAfter(u) \in RoomID
        BY <4>1, AfterIsID
      <4>3. QED
        BY <1>5, <4>1, <4>2 DEF TypeInv, RoomsKnown, EnteringKnown
    <3>3. QED
      BY <3>1, <3>2
  <2>6. QED
    BY <2>3, <2>4, <2>5 DEF RoomsKnown, EnteringKnown
<1>8. QED
  BY <1>4, <1>6, <1>7 DEF TypeInv

LEMMA StartEnterType ==
  ASSUME TypeInv, NEW w \in Worker, NEW p \in Player, StartEnter(w, p) PROVE TypeInv'
<1> DEFINE q == Head(requests[p])
           v == [Idle EXCEPT !.pc = "enter", !.player = p, !.room = directory[q.id]]
<1>1. /\ q \in Request /\ q.do = "enter" /\ q = requests[p][1] /\ 1 \in 1 .. Len(requests[p])
      /\ requests' \in [Player -> Seq(Request)]
  <2>1. Len(requests[p]) \in Nat \ {0} => 1 \in 1 .. Len(requests[p])
    OBVIOUS
  <2>2. QED
    BY <2>1, Taken DEF TypeInv, StartEnter, Takes
<1>2. q.id \in RoomID /\ directory[q.id] \in Room
  BY <1>1, Requests, Zenon DEF TypeInv, TypeOK, RoomsKnown, QueuedKnown
<1>3. v \in TaskType /\ v.pc = "enter" /\ v.player = p /\ v.room = directory[q.id]
  BY <1>2, IdleTask DEF TaskType, Idle
<1>4. task' = [task EXCEPT ![w] = v] /\ Owner[p] = w
  BY DEF StartEnter, Takes, Runs
<1>5. /\ task' \in [Worker -> TaskType] /\ Working'
      /\ task'[w] = v /\ \A u \in Worker \ {w} : task'[u] = task[u]
  BY <1>2, <1>3, <1>4, TaskChanged, ZenonT(60)
<1>6. /\ chatRoomID' \in [Player -> RoomID] /\ chatRoomID'[p] = q.id
      /\ \A s \in Player \ {p} : chatRoomID'[s] = chatRoomID[s]
  BY <1>2 DEF TypeInv, TypeOK, StartEnter
<1>7. TypeOK'
  BY <1>1, <1>5, <1>6 DEF TypeInv, TypeOK, StartEnter, TaskType
<1>8. RoomsKnown'
  <2>1. directory' = directory /\ \A s \in Player : SawAck(s)' <=> SawAck(s)
    BY DEF StartEnter, SawAck
  <2>2. directory[q.id] # 0
    BY <1>2 DEF Room
  <2>3. \A s \in Player : \A i \in 1 .. Len(requests'[s]) :
          \E j \in 1 .. Len(requests[s]) : requests'[s][i] = requests[s][j]
    BY QueuesShorter DEF TypeInv, StartEnter, Takes
  <2>4. QueuedKnown' /\ ToldKnown'
    BY <1>6, <2>1, <2>2, <2>3, QueuedStays DEF TypeInv, RoomsKnown, ToldKnown
  <2>5. ASSUME NEW u \in Worker, task'[u].pc \in {"create", "enter", "ack"}
        PROVE  directory'[RoomIDAfter(u)'] # 0
    <3>1. CASE u = w
      BY <1>3, <1>5, <1>6, <2>1, <2>2, <3>1, ZenonT(60) DEF RoomIDAfter
    <3>2. CASE u # w
      <4>1. task'[u] = task[u] /\ task[u].player \in Player \ {p}
        BY <1>4, <1>5, <2>5, <3>2, Tasks, Alone
      <4>2. RoomIDAfter(u)' = RoomIDAfter(u)
        BY <1>6, <4>1 DEF RoomIDAfter
      <4>3. QED
        BY <2>1, <2>5, <4>1, <4>2 DEF TypeInv, RoomsKnown, EnteringKnown
    <3>3. QED
      BY <3>1, <3>2
  <2>6. QED
    BY <2>4, <2>5 DEF RoomsKnown, EnteringKnown
<1>9. QED
  BY <1>5, <1>7, <1>8 DEF TypeInv

LEMMA EnterType == ASSUME TypeInv, NEW w \in Worker, Enter(w) PROVE TypeInv'
<1> DEFINE p == task[w].player
           r == task[w].room
           v == [task[w] EXCEPT !.pc = "ack"]
<1>1. /\ p \in Player /\ r \in Room /\ Owner[p] = w /\ task[w] \in TaskType
      /\ RoomIDAfter(w) \in RoomID /\ directory[RoomIDAfter(w)] # 0
  BY Tasks, AfterIsID DEF Enter, TypeInv, RoomsKnown, EnteringKnown
<1>2. v \in TaskType /\ v.pc = "ack" /\ v.player = p /\ v.room = r
  BY <1>1 DEF TaskType
<1>3. task' = [task EXCEPT ![w] = v]
  BY DEF Enter
<1>4. /\ task' \in [Worker -> TaskType] /\ Working'
      /\ task'[w] = v /\ \A u \in Worker \ {w} : task'[u] = task[u]
  BY <1>1, <1>2, <1>3, TaskChanged
<1>5. /\ chatRoomID' \in [Player -> RoomID] /\ chatRoomID'[p] = RoomIDAfter(w)
      /\ \A s \in Player \ {p} : chatRoomID'[s] = chatRoomID[s]
  BY <1>1 DEF TypeInv, TypeOK, Enter
<1>6. members' \in [Room -> Seq(Entry)]
  <2>1. [key |-> chatRoomID[p], player |-> p] \in Entry /\ members \in [Room -> Seq(Entry)]
    BY <1>1 DEF TypeInv, TypeOK, Entry
  <2>2. WithEntry(r, [key |-> chatRoomID[p], player |-> p]) \in Seq(Entry)
    BY <1>1, <2>1, EntryAdded
  <2>3. QED
    BY <2>1, <2>2 DEF Enter
<1>7. TypeOK'
  BY <1>4, <1>5, <1>6 DEF TypeInv, TypeOK, Enter, TaskType, Entry
<1>8. RoomsKnown'
  <2>1. /\ directory' = directory /\ requests' = requests
        /\ \A s \in Player : SawAck(s)' <=> SawAck(s)
    BY DEF Enter, SawAck
  <2>2. QueuedKnown' /\ ToldKnown'
    BY <1>1, <1>5, <2>1 DEF TypeInv, RoomsKnown, QueuedKnown, ToldKnown
  <2>3. ASSUME NEW u \in Worker, task'[u].pc \in {"create", "enter", "ack"}
        PROVE  directory'[RoomIDAfter(u)'] # 0
    <3>1. CASE u = w
      <4>1. RoomIDAfter(w)' = chatRoomID'[p]
        BY <1>2, <1>4 DEF RoomIDAfter
      <4>2. QED
        BY <1>1, <1>5, <2>1, <3>1, <4>1
    <3>2. CASE u # w
      <4>1. task'[u] = task[u] /\ task[u].player \in Player \ {p}
        BY <1>1, <1>4, <2>3, <3>2, Tasks, Alone
      <4>2. RoomIDAfter(u)' = RoomIDAfter(u)
        BY <1>5, <4>1 DEF RoomIDAfter
      <4>3. QED
        BY <2>1, <2>3, <4>1, <4>2 DEF TypeInv, RoomsKnown, EnteringKnown
    <3>3. QED
      BY <3>1, <3>2
  <2>4. QED
    BY <2>2, <2>3 DEF RoomsKnown, EnteringKnown
<1>9. QED
  BY <1>4, <1>7, <1>8 DEF TypeInv

LEMMA SendAckType == ASSUME TypeInv, NEW w \in Worker, SendAck(w) PROVE TypeInv'
<1> DEFINE p == task[w].player
<1>1. p \in Player /\ task[w].room \in Room /\ Owner[p] = w
  BY Tasks DEF SendAck
<1>2. Entered(task[w].room) \in Message
  BY <1>1 DEF Message
<1>3. /\ out' \in [Player -> Seq(Message)]
      /\ \A q \in Player \ {p} : out'[q] = out[q]
  BY <1>1, <1>2, Sent DEF SendAck, TypeInv
<1>4. /\ task' \in [Worker -> TaskType] /\ Working'
      /\ task'[w] = Idle /\ \A u \in Worker \ {w} : task'[u] = task[u]
  BY IdleTask, TaskChanged DEF SendAck
<1>5. TypeOK'
  BY <1>3, <1>4 DEF TypeInv, TypeOK, SendAck, TaskType
<1>6. RoomsKnown'
  <2>1. directory' = directory /\ requests' = requests /\ chatRoomID' = chatRoomID
    BY DEF SendAck
  <2>2. \A s \in Player : SawAck(s) => SawAck(s)'
    BY <1>1, <1>2, Sent DEF SendAck, SawAck, TypeInv
  <2>3. \A s \in Player \ {p} : SawAck(s)' => SawAck(s)
    BY <1>3 DEF SawAck
  <2>4. directory[chatRoomID[p]] # 0
    BY DEF SendAck, TypeInv, RoomsKnown, EnteringKnown, RoomIDAfter
  <2>5. \A u \in Worker : task'[u].pc \in {"create", "enter", "ack"} =>
          RoomIDAfter(u)' = RoomIDAfter(u) /\ task'[u] = task[u]
    BY <1>4, <2>1, IdleTask DEF RoomIDAfter
  <2>6. \A u \in Worker : task'[u].pc \in {"create", "enter", "ack"} =>
          directory'[RoomIDAfter(u)'] # 0
    BY <2>1, <2>5 DEF TypeInv, RoomsKnown, EnteringKnown
  <2>7. QueuedKnown' /\ ToldKnown'
    BY <2>1, <2>2, <2>3, <2>4 DEF TypeInv, RoomsKnown, QueuedKnown, ToldKnown
  <2>8. QED
    BY <2>6, <2>7 DEF RoomsKnown, EnteringKnown
<1>7. QED
  BY <1>4, <1>5, <1>6 DEF TypeInv

\* The handlers that only take a packet and start.
LEMMA StartType ==
  ASSUME TypeInv, NEW w \in Worker, NEW p \in Player, StartChat(w, p) \/ StartList(w, p)
  PROVE  TypeInv'
<1> DEFINE v == task'[w]
<1>1. /\ task[w] = Idle /\ Owner[p] = w /\ requests[p] # <<>>
      /\ requests' = [requests EXCEPT ![p] = Tail(@)]
      /\ UNCHANGED <<asked, connected, roomNumber, directory, chatRoomID, members, holder, out>>
  BY DEF StartChat, StartList, Takes, Runs
<1>2. task \in [Worker -> TaskType] /\ Idle \in TaskType
  BY IdleTask DEF TypeInv, TypeOK, TaskType
<1>3. /\ v \in TaskType /\ task' = [task EXCEPT ![w] = v]
      /\ v.pc \in {"chat", "list"} /\ v.player = p
      /\ v.pc = "chat" => v.room \in Room /\ v.n \in Number
  <2>1. CASE StartChat(w, p)
    <3> DEFINE q == Head(requests[p])
               x == [Idle EXCEPT !.pc = "chat", !.player = p,
                                 !.room = directory[chatRoomID[p]], !.n = q.n]
    <3>1. q \in Request /\ q.do = "chat" /\ q = requests[p][1] /\ Len(requests[p]) \in Nat \ {0}
      BY <1>1, <2>1, Taken DEF TypeInv, StartChat, Takes
    <3>2. SawAck(p)
      BY <3>1 DEF TypeInv, RoomsKnown, QueuedKnown
    <3>3. directory[chatRoomID[p]] \in Room /\ q.n \in Number
      BY <3>1, <3>2, Requests DEF TypeInv, TypeOK, RoomsKnown, ToldKnown
    <3>4. x \in TaskType /\ x.pc = "chat" /\ x.player = p /\ x.room \in Room /\ x.n \in Number
      BY <3>3, <1>2 DEF TaskType, Idle
    <3>5. task' = [task EXCEPT ![w] = x]
      BY <2>1 DEF StartChat
    <3>6. QED
      BY <1>2, <3>4, <3>5
  <2>2. CASE StartList(w, p)
    <3> DEFINE x == [Idle EXCEPT !.pc = "list", !.player = p,
                                 !.left = {directory[i] : i \in RoomID} \ {0}]
    <3>1. {directory[i] : i \in RoomID} \ {0} \in SUBSET Room
      BY DEF TypeInv, TypeOK
    <3>2. x \in TaskType /\ x.pc = "list" /\ x.player = p
      BY <3>1, <1>2 DEF TaskType, Idle
    <3>3. task' = [task EXCEPT ![w] = x]
      BY <2>2 DEF StartList
    <3>4. QED
      BY <1>2, <3>2, <3>3
  <2>3. QED
    BY <2>1, <2>2
<1> HIDE DEF v
<1>4. /\ task' \in [Worker -> TaskType] /\ Working'
      /\ task'[w] = v /\ \A u \in Worker \ {w} : task'[u] = task[u]
  BY <1>1, <1>3, TaskChanged
<1>5. TypeOK'
  BY <1>1, <1>4, Taken DEF TypeInv, TypeOK, TaskType
<1>6. RoomsKnown'
  <2>1. \A s \in Player : SawAck(s)' <=> SawAck(s)
    BY <1>1 DEF SawAck
  <2>2. \A u \in Worker : task'[u].pc \in {"create", "enter", "ack"} => task'[u] = task[u]
    BY <1>3, <1>4
  <2>3. QED
    BY <1>1, <2>1, <2>2, QueuesShorter, KnownStays DEF TypeInv
<1>7. QED
  BY <1>4, <1>5, <1>6 DEF TypeInv

\* The steps of a broadcast and of a list.
LEMMA LockType == ASSUME TypeInv, NEW w \in Worker, Lock(w) PROVE TypeInv'
<1> DEFINE v == [task[w] EXCEPT !.pc = "send"]
<1>1. /\ task[w] \in TaskType /\ task[w].player \in Player /\ Owner[task[w].player] = w
      /\ task[w].room \in Room /\ task[w].n \in Number
  BY Tasks DEF Lock
<1>2. /\ v \in TaskType /\ v.pc = "send" /\ v.player = task[w].player
      /\ v.room = task[w].room /\ v.n = task[w].n
  BY <1>1 DEF TaskType
<1>3. task' = [task EXCEPT ![w] = v]
  BY DEF Lock
<1>4. /\ task' \in [Worker -> TaskType] /\ Working'
      /\ task'[w] = v /\ \A u \in Worker \ {w} : task'[u] = task[u]
  BY <1>1, <1>2, <1>3, TaskChanged
<1>5. TypeOK'
  BY <1>4 DEF TypeInv, TypeOK, Lock, TaskType
<1>6. RoomsKnown'
  <2>1. \A s \in Player : SawAck(s)' <=> SawAck(s)
    BY DEF Lock, SawAck
  <2>2. QED
    BY <1>2, <1>4, <2>1, KnownStays DEF Lock
<1>7. QED
  BY <1>4, <1>5, <1>6 DEF TypeInv

LEMMA UnlockType == ASSUME TypeInv, NEW w \in Worker, Unlock(w) PROVE TypeInv'
<1>1. /\ task' \in [Worker -> TaskType] /\ Working'
      /\ task'[w] = Idle /\ \A u \in Worker \ {w} : task'[u] = task[u]
  BY IdleTask, TaskChanged DEF Unlock
<1>2. TypeOK'
  BY <1>1 DEF TypeInv, TypeOK, Unlock, TaskType
<1>3. RoomsKnown'
  <2>1. \A s \in Player : SawAck(s)' <=> SawAck(s)
    BY DEF Unlock, SawAck
  <2>2. QED
    BY <1>1, <2>1, IdleTask, KnownStays DEF Unlock
<1>4. QED
  BY <1>1, <1>2, <1>3 DEF TypeInv

\* What a broadcast sends next, and to whom.
LEMMA NextSent ==
  ASSUME TypeInv, NEW w \in Worker, SendNext(w)
  PROVE  /\ task[w].sent \in Nat /\ task[w].sent + 1 \in 1 .. Len(members[task[w].room])
         /\ Receiver(w) \in Player /\ Sends(w) \in Message
         /\ out' = [out EXCEPT ![Receiver(w)] = Append(@, Sends(w))]
<1> DEFINE t == task[w]
<1>1. t \in TaskType /\ t.room \in Room /\ t.player \in Player /\ t.n \in Number
  BY Tasks DEF SendNext
<1>2. members[t.room] \in Seq(Entry)
  BY <1>1 DEF TypeInv, TypeOK, Entry
<1>3. t.sent \in Nat /\ t.sent + 1 \in 1 .. Len(members[t.room])
  <2>1. t.sent \in Nat /\ Len(members[t.room]) \in Nat /\ t.sent + 1 <= Len(members[t.room])
    BY <1>1, <1>2, LenProperties DEF SendNext, TaskType
  <2>2. QED
    BY <2>1
<1>4. members[t.room][t.sent + 1] \in Entry
  BY <1>2, <1>3, ElementOfSeq, Zenon
<1>5. Sends(w) \in Message
  BY <1>1 DEF Message, Sends
<1>6. Receiver(w) \in Player
  BY <1>4, ZenonT(60) DEF Entry, Receiver
<1>7. out' = [out EXCEPT ![Receiver(w)] = Append(@, Sends(w))]
  BY DEF SendNext, Receiver, Sends
<1>8. QED
  BY <1>3, <1>5, <1>6, <1>7, Zenon

LEMMA SendNextType == ASSUME TypeInv, NEW w \in Worker, SendNext(w) PROVE TypeInv'
<1> DEFINE t == task[w]
           v == [t EXCEPT !.sent = t.sent + 1]
<1>1. /\ Receiver(w) \in Player /\ Sends(w) \in Message /\ t.sent \in Nat
      /\ out' = [out EXCEPT ![Receiver(w)] = Append(@, Sends(w))]
  BY NextSent, ZenonT(60)
<1>2. /\ t \in TaskType /\ t.pc = "send" /\ t.player \in Player /\ Owner[t.player] = w
      /\ t.room \in Room /\ t.n \in Number
  BY Tasks DEF SendNext
<1>3. /\ v \in TaskType /\ v.pc = "send" /\ v.player = t.player /\ v.room = t.room /\ v.n = t.n
  <2>1. t \in TaskType /\ t.pc = "send" /\ t.sent + 1 \in Nat
    <3>1. t.sent \in Nat
      BY <1>1, Zenon
    <3>2. QED
      BY <1>2, <3>1, NatSucc, Zenon
  <2> HIDE DEF t
  <2>2. QED
    BY <2>1 DEF TaskType
<1>4. task' = [task EXCEPT ![w] = v]
  BY DEF SendNext
<1>5. /\ task' \in [Worker -> TaskType] /\ Working'
      /\ task'[w] = v /\ \A u \in Worker \ {w} : task'[u] = task[u]
  BY <1>2, <1>3, <1>4, TaskChanged
<1>6. out' \in [Player -> Seq(Message)]
  BY <1>1, Sent DEF TypeInv
<1>7. TypeOK'
  BY <1>5, <1>6, ZenonT(60) DEF TypeInv, TypeOK, SendNext, TaskType
<1>8. RoomsKnown'
  <2>1. \A s \in Player : SawAck(s)' <=> SawAck(s)
    <3>1. Sends(w).what # "entered"
      BY Kinds DEF Sends
    <3>2. QED
      BY <1>1, <3>1, NoAckSent DEF TypeInv
  <2>2. QED
    BY <1>3, <1>5, <2>1, KnownStays DEF SendNext
<1>9. QED
  BY <1>5, <1>7, <1>8 DEF TypeInv

LEMMA ReadRoomType == ASSUME TypeInv, NEW w \in Worker, ReadRoom(w) PROVE TypeInv'
<1> DEFINE t == task[w]
<1>1. PICK r \in t.left :
        task' = [task EXCEPT ![w] = [task[w] EXCEPT !.left = @ \ {r}, !.info[r] = Users(r)]]
  BY DEF ReadRoom
<1>2. t.pc = "list" /\ t \in TaskType /\ t.player \in Player /\ Owner[t.player] = w
  BY Tasks DEF ReadRoom
<1> DEFINE v == [t EXCEPT !.left = @ \ {r}, !.info[r] = Users(r)]
<1>3. Users(r) \in 0 .. RoomMod - 1
  <2>1. r \in Room /\ members[r] \in Seq(Entry)
    BY <1>2 DEF TaskType, TypeInv, TypeOK, Entry
  <2>2. Len(members[r]) \in Nat
    BY <2>1, LenProperties
  <2>3. QED
    BY <2>2, Numbers DEF Users, RoomID, IdOf
<1>4. v \in TaskType /\ v.pc = "list" /\ v.player = t.player
  <2>1. [t.info EXCEPT ![r] = Users(r)] \in Info
    BY <1>2, <1>3 DEF TaskType, Info
  <2>2. QED
    BY <1>2, <2>1 DEF TaskType
<1>5. task' = [task EXCEPT ![w] = v]
  BY <1>1
<1> HIDE DEF v
<1>6. /\ task' \in [Worker -> TaskType] /\ Working'
      /\ task'[w] = v /\ \A u \in Worker \ {w} : task'[u] = task[u]
  BY <1>2, <1>4, <1>5, TaskChanged
<1>7. TypeOK'
  BY <1>6 DEF TypeInv, TypeOK, ReadRoom, TaskType
<1>8. RoomsKnown'
  <2>1. \A s \in Player : SawAck(s)' <=> SawAck(s)
    BY DEF ReadRoom, SawAck
  <2>2. QED
    BY <1>4, <1>6, <2>1, KnownStays DEF ReadRoom
<1>9. QED
  BY <1>6, <1>7, <1>8 DEF TypeInv

LEMMA SendListType == ASSUME TypeInv, NEW w \in Worker, SendList(w) PROVE TypeInv'
<1> DEFINE p == task[w].player
           m == Listed(task[w].info)
<1>1. p \in Player /\ m \in Message /\ m.what = "list" /\ out' = [out EXCEPT ![p] = Append(@, m)]
  BY Tasks DEF SendList, TaskType, Message, Listed
<1>2. /\ task' \in [Worker -> TaskType] /\ Working'
      /\ task'[w] = Idle /\ \A u \in Worker \ {w} : task'[u] = task[u]
  BY IdleTask, TaskChanged DEF SendList
<1> HIDE DEF m, p
<1>3. out' \in [Player -> Seq(Message)]
  BY <1>1, Sent DEF TypeInv
<1>4. TypeOK'
  BY <1>2, <1>3 DEF TypeInv, TypeOK, SendList, TaskType
<1>5. RoomsKnown'
  BY <1>1, <1>2, IdleTask, NoAckSent, KnownStays DEF TypeInv, SendList
<1>6. QED
  BY <1>2, <1>4, <1>5 DEF TypeInv

-----------------------------------------------------------------------------
(* The order of messages *)

\* The mutex of a room is with the worker that broadcasts in it.
Broadcasting == \A w \in Worker : task[w].pc = "send" => holder[task[w].room] = w

\* A session's queued chat messages are numbered upwards.
QueueAscends ==
  \A p \in Player : \A j \in 1 .. Len(requests[p]) : requests[p][j].do = "chat" =>
    /\ requests[p][j].n <= asked[p]
    /\ \A i \in 1 .. Len(requests[p]) :
         i < j /\ requests[p][i].do = "chat" => requests[p][i].n < requests[p][j].n

\* A message that is being sent precedes the queued ones of its sender ...
SentFirst ==
  \A w \in Worker : Chatting(w) =>
    /\ task[w].n <= asked[task[w].player]
    /\ \A i \in 1 .. Len(requests[task[w].player]) :
         requests[task[w].player][i].do = "chat" => task[w].n < requests[task[w].player][i].n

\* ... and follows what was sent before.
OutBefore ==
  \A p \in Player : \A i \in 1 .. Len(out[p]) : out[p][i].what = "chat" =>
    /\ out[p][i].n <= asked[out[p][i].from]
    /\ \A j \in 1 .. Len(requests[out[p][i].from]) :
         requests[out[p][i].from][j].do = "chat" => out[p][i].n < requests[out[p][i].from][j].n
    /\ \A w \in Worker : task[w].player = out[p][i].from =>
         /\ task[w].pc = "chat" => out[p][i].n < task[w].n
         /\ task[w].pc = "send" => out[p][i].n <= task[w].n

\* Nothing of a room follows the message that is being sent in it.
Latest ==
  \A w \in Worker : task[w].pc = "send" =>
    \A p \in Player : \A i, j \in 1 .. Len(out[p]) :
      i < j /\ out[p][i] = Sends(w) /\ IsChat(p, j, task[w].room) => out[p][j] = Sends(w)

NumbersInv == QueueAscends /\ SentFirst /\ OutBefore
OrderInv == Broadcasting /\ NumbersInv /\ Latest /\ SenderOrderKept /\ SameOrderForAll

LEMMA QueuedChat ==
  ASSUME TypeOK, NEW p \in Player, NEW i \in 1 .. Len(requests[p]), requests[p][i].do = "chat"
  PROVE  requests[p][i].n \in Nat
<1>1. requests[p][i] \in Request
  BY ElementOfSeq DEF TypeOK
<1>2. QED
  BY <1>1, Requests, Numbers

LEMMA OutChat ==
  ASSUME TypeOK, NEW p \in Player, NEW i \in 1 .. Len(out[p]), out[p][i].what = "chat"
  PROVE  /\ out[p][i].room \in Room /\ out[p][i].from \in Player /\ out[p][i].n \in Nat
         /\ out[p][i] = Chat(out[p][i].room, out[p][i].from, out[p][i].n)
<1>1. out[p][i] \in Message
  BY ElementOfSeq DEF TypeOK
<1>2. PICK r \in Room, s \in Player, n \in Number : out[p][i] = Chat(r, s, n)
  BY <1>1, Messages
<1>3. QED
  BY <1>2, Kinds, Numbers

LEMMA AskedIsNat == ASSUME TypeOK PROVE \A p \in Player : asked[p] \in Nat
BY Numbers DEF TypeOK

\* Nothing is sent.
LEMMA SameOut ==
  ASSUME out' = out
  PROVE  (SenderOrderKept' <=> SenderOrderKept) /\ (SameOrderForAll' <=> SameOrderForAll)
BY DEF SenderOrderKept, SameOrderForAll, IsChat

\* The chat messages are those that were there.
LEMMA OldChats ==
  ASSUME SenderOrderKept, SameOrderForAll,
         \A p \in Player : \A i \in 1 .. Len(out'[p]) : out'[p][i].what = "chat" =>
           i \in 1 .. Len(out[p]) /\ out'[p][i] = out[p][i]
  PROVE  SenderOrderKept' /\ SameOrderForAll'
<1>1. SenderOrderKept'
  BY DEF SenderOrderKept
<1>2. SameOrderForAll'
  <2> SUFFICES ASSUME NEW p \in Player, NEW s \in Player, NEW r \in Room,
                      NEW i \in 1 .. Len(out'[p]), NEW j \in 1 .. Len(out'[p]),
                      NEW k \in 1 .. Len(out'[s]), NEW l \in 1 .. Len(out'[s]),
                      i < j, k < l, out'[p][i].what = "chat", out'[p][i].room = r,
                      out'[p][j].what = "chat", out'[p][j].room = r,
                      out'[p][i] = out'[s][l], out'[p][j] = out'[s][k]
               PROVE  out'[p][i] = out'[p][j]
    BY DEF SameOrderForAll, IsChat
  <2>1. /\ i \in 1 .. Len(out[p]) /\ out'[p][i] = out[p][i]
        /\ j \in 1 .. Len(out[p]) /\ out'[p][j] = out[p][j]
        /\ l \in 1 .. Len(out[s]) /\ out'[s][l] = out[s][l]
        /\ k \in 1 .. Len(out[s]) /\ out'[s][k] = out[s][k]
    OBVIOUS
  <2>2. IsChat(p, i, r) /\ IsChat(p, j, r)
    BY <2>1 DEF IsChat
  <2>3. out[p][i] = out[s][l] /\ out[p][j] = out[s][k]
    BY <2>1
  <2>4. out[p][i] = out[p][j]
    BY <2>1, <2>2, <2>3 DEF SameOrderForAll
  <2>5. QED
    BY <2>1, <2>4
<1>3. QED
  BY <1>1, <1>2

\* Steps that send nothing, ask for nothing and start no chat: the queues
\* lose at most their first packet.
LEMMA QuietOrder ==
  ASSUME TypeInv, OrderInv, asked' = asked, out' = out, Broadcasting',
         \A p \in Player : \E d \in {0, 1} :
           /\ \A i \in 1 .. Len(requests'[p]) :
                i + d \in 1 .. Len(requests[p]) /\ requests'[p][i] = requests[p][i + d],
         \A w \in Worker : task'[w].pc \in {"chat", "send"} => task'[w] = task[w]
  PROVE  OrderInv'
<1> USE DEF OrderInv, NumbersInv
<1>1. QueueAscends'
  <2> SUFFICES ASSUME NEW p \in Player
               PROVE  \A j \in 1 .. Len(requests'[p]) : requests'[p][j].do = "chat" =>
                        /\ requests'[p][j].n <= asked[p]
                        /\ \A i \in 1 .. Len(requests'[p]) :
                             i < j /\ requests'[p][i].do = "chat" =>
                               requests'[p][i].n < requests'[p][j].n
    BY DEF QueueAscends
  <2>1. PICK d \in {0, 1} : \A i \in 1 .. Len(requests'[p]) :
          i + d \in 1 .. Len(requests[p]) /\ requests'[p][i] = requests[p][i + d]
    OBVIOUS
  <2>2. ASSUME NEW j \in 1 .. Len(requests'[p]), requests'[p][j].do = "chat"
        PROVE  /\ requests'[p][j].n <= asked[p]
               /\ \A i \in 1 .. Len(requests'[p]) :
                    i < j /\ requests'[p][i].do = "chat" =>
                      requests'[p][i].n < requests'[p][j].n
    <3>1. j + d \in 1 .. Len(requests[p]) /\ requests'[p][j] = requests[p][j + d]
      BY <2>1
    <3>2. /\ requests'[p][j].n <= asked[p]
          /\ \A i \in 1 .. Len(requests[p]) :
               i < j + d /\ requests[p][i].do = "chat" => requests[p][i].n < requests'[p][j].n
      BY <2>2, <3>1 DEF QueueAscends
    <3>3. \A i \in 1 .. Len(requests'[p]) : i < j => i + d < j + d
      OBVIOUS
    <3>4. QED
      BY <2>1, <3>2, <3>3, ZenonT(60)
  <2>3. QED
    BY <2>2
<1>2. \A p \in Player : \A i \in 1 .. Len(requests'[p]) :
        \E j \in 1 .. Len(requests[p]) : requests'[p][i] = requests[p][j]
  OBVIOUS
<1>3. SentFirst'
  <2> SUFFICES ASSUME NEW w \in Worker, task'[w].pc \in {"chat", "send"}
               PROVE  /\ task'[w].n <= asked[task'[w].player]
                      /\ \A i \in 1 .. Len(requests'[task'[w].player]) :
                           requests'[task'[w].player][i].do = "chat" =>
                             task'[w].n < requests'[task'[w].player][i].n
    BY DEF SentFirst, Chatting
  <2>1. task'[w] = task[w] /\ task[w].player \in Player
    BY Tasks
  <2>2. /\ task[w].n <= asked[task[w].player]
        /\ \A j \in 1 .. Len(requests[task[w].player]) :
             requests[task[w].player][j].do = "chat" => task[w].n < requests[task[w].player][j].n
    BY <2>1, Zenon DEF SentFirst, Chatting
  <2>3. task'[w].n <= asked[task'[w].player]
    BY <2>1, <2>2, Zenon
  <2>4. ASSUME NEW i \in 1 .. Len(requests'[task'[w].player]),
               requests'[task'[w].player][i].do = "chat"
        PROVE  task'[w].n < requests'[task'[w].player][i].n
    <3>1. PICK j \in 1 .. Len(requests[task[w].player]) :
            requests'[task[w].player][i] = requests[task[w].player][j]
      BY <1>2, <2>1, <2>4, ZenonT(60)
    <3>2. QED
      BY <2>1, <2>2, <2>4, <3>1, Zenon
  <2>5. QED
    BY <2>3, <2>4, Zenon
<1>4. OutBefore'
  <2> SUFFICES ASSUME NEW p \in Player, NEW i \in 1 .. Len(out[p]), out[p][i].what = "chat"
               PROVE  /\ out[p][i].n <= asked[out[p][i].from]
                      /\ \A j \in 1 .. Len(requests'[out[p][i].from]) :
                           requests'[out[p][i].from][j].do = "chat" =>
                             out[p][i].n < requests'[out[p][i].from][j].n
                      /\ \A w \in Worker : task'[w].player = out[p][i].from =>
                           /\ task'[w].pc = "chat" => out[p][i].n < task'[w].n
                           /\ task'[w].pc = "send" => out[p][i].n <= task'[w].n
    BY ZenonT(60) DEF OutBefore
  <2>1. out[p][i].from \in Player
    BY OutChat DEF TypeInv
  <2>2. /\ out[p][i].n <= asked[out[p][i].from]
        /\ \A j \in 1 .. Len(requests[out[p][i].from]) :
             requests[out[p][i].from][j].do = "chat" => out[p][i].n < requests[out[p][i].from][j].n
        /\ \A w \in Worker : task[w].player = out[p][i].from =>
             /\ task[w].pc = "chat" => out[p][i].n < task[w].n
             /\ task[w].pc = "send" => out[p][i].n <= task[w].n
    BY DEF OutBefore
  <2>3. \A w \in Worker : task'[w].player = out[p][i].from =>
          /\ task'[w].pc = "chat" => out[p][i].n < task'[w].n
          /\ task'[w].pc = "send" => out[p][i].n <= task'[w].n
    BY <2>2
  <2> DEFINE s == out[p][i].from
  <2>4. \A j \in 1 .. Len(requests'[s]) : requests'[s][j].do = "chat" => out[p][i].n < requests'[s][j].n
    <3> HIDE DEF s
    <3>1. \A j \in 1 .. Len(requests'[s]) :
            \E k \in 1 .. Len(requests[s]) : requests'[s][j] = requests[s][k]
      BY <1>2, <2>1 DEF s
    <3>2. \A k \in 1 .. Len(requests[s]) : requests[s][k].do = "chat" => out[p][i].n < requests[s][k].n
      BY <2>2 DEF s
    <3>3. QED
      BY <3>1, <3>2, ZenonT(60)
  <2>5. QED
    BY <2>2, <2>3, <2>4
<1>5. Latest'
  BY DEF Latest, Sends, IsChat
<1>6. SenderOrderKept' /\ SameOrderForAll'
  BY SameOut
<1>7. QED
  BY <1>1, <1>3, <1>4, <1>5, <1>6

\* Another kind of message is sent.
LEMMA OtherSentOrder ==
  ASSUME TypeInv, OrderInv, asked' = asked, requests' = requests, Broadcasting',
         \A w \in Worker : task'[w].pc \in {"chat", "send"} => task'[w] = task[w],
         NEW q \in Player, NEW m \in Message, m.what # "chat",
         out' = [out EXCEPT ![q] = Append(@, m)]
  PROVE  OrderInv'
<1> USE DEF OrderInv, NumbersInv
<1>1. \A p \in Player : \A i \in 1 .. Len(out'[p]) : out'[p][i].what = "chat" =>
        i \in 1 .. Len(out[p]) /\ out'[p][i] = out[p][i]
  <2>1. \A i \in 1 .. Len(out'[q]) : out'[q][i].what = "chat" =>
          i \in 1 .. Len(out[q]) /\ out'[q][i] = out[q][i]
    <3>1. Len(out[q]) \in Nat /\ Len(out'[q]) = Len(out[q]) + 1 /\ out'[q][Len(out[q]) + 1] = m
      BY Sent DEF TypeInv
    <3>2. \A i \in 1 .. Len(out'[q]) : i = Len(out[q]) + 1 \/ i \in 1 .. Len(out[q])
      BY <3>1
    <3>3. QED
      BY <3>1, <3>2, Sent DEF TypeInv
  <2>2. QED
    BY <2>1, Sent DEF TypeInv
<1>2. QueueAscends' /\ SentFirst'
  BY Zenon DEF QueueAscends, SentFirst, Chatting
<1>3. OutBefore'
  <2> SUFFICES ASSUME NEW p \in Player, NEW i \in 1 .. Len(out'[p]), out'[p][i].what = "chat"
               PROVE  /\ out'[p][i].n <= asked[out'[p][i].from]
                      /\ \A j \in 1 .. Len(requests[out'[p][i].from]) :
                           requests[out'[p][i].from][j].do = "chat" =>
                             out'[p][i].n < requests[out'[p][i].from][j].n
                      /\ \A w \in Worker : task'[w].player = out'[p][i].from =>
                           /\ task'[w].pc = "chat" => out'[p][i].n < task'[w].n
                           /\ task'[w].pc = "send" => out'[p][i].n <= task'[w].n
    <3> HIDE DEF OrderInv, NumbersInv
    <3>1. QED
      BY ZenonT(60) DEF OutBefore
  <2>1. i \in 1 .. Len(out[p]) /\ out'[p][i] = out[p][i]
    BY <1>1
  <2>2. QED
    BY <2>1, ZenonT(60) DEF OutBefore
<1>4. Latest'
  <2> SUFFICES ASSUME NEW w \in Worker, task'[w].pc = "send", NEW p \in Player,
                      NEW i \in 1 .. Len(out'[p]), NEW j \in 1 .. Len(out'[p]),
                      i < j, out'[p][i] = Sends(w)', IsChat(p, j, task[w].room)'
               PROVE  out'[p][j] = Sends(w)'
    BY DEF Latest
  <2>1. task'[w] = task[w] /\ Sends(w)' = Sends(w)
    BY DEF Sends
  <2>2. i \in 1 .. Len(out[p]) /\ out'[p][i] = out[p][i]
    BY <1>1, <2>1, Kinds DEF Sends
  <2>3. j \in 1 .. Len(out[p]) /\ out'[p][j] = out[p][j] /\ IsChat(p, j, task[w].room)
    BY <1>1, <2>1 DEF IsChat
  <2>4. QED
    BY <2>1, <2>2, <2>3 DEF Latest
<1>5. SenderOrderKept' /\ SameOrderForAll'
  BY <1>1, OldChats
<1>6. QED
  BY <1>2, <1>3, <1>4, <1>5

\* A chat starts: its number is the lowest of its queue, above all that was
\* sent.
LEMMA StartChatOrder ==
  ASSUME TypeInv, OrderInv, NEW w \in Worker, NEW p \in Player, StartChat(w, p)
  PROVE  OrderInv'
<1> USE DEF OrderInv, NumbersInv
<1> DEFINE q == Head(requests[p])
<1>0. asked' = asked /\ out' = out
  BY DEF StartChat
<1>1. /\ task[w] = Idle /\ Owner[p] = w /\ requests[p] # <<>> /\ q.do = "chat"
      /\ requests' = [requests EXCEPT ![p] = Tail(@)]
      /\ asked' = asked /\ out' = out /\ holder' = holder
  BY DEF StartChat, Takes, Runs
<1>2. /\ Len(requests[p]) \in Nat \ {0} /\ Len(requests'[p]) = Len(requests[p]) - 1
      /\ \A i \in 1 .. Len(requests'[p]) : requests'[p][i] = requests[p][i + 1]
      /\ q = requests[p][1]
      /\ \A s \in Player \ {p} : requests'[s] = requests[s]
  BY <1>1, Taken DEF TypeInv
<1>3. /\ task'[w].pc = "chat" /\ task'[w].player = p /\ task'[w].n = q.n
      /\ \A u \in Worker \ {w} : task'[u] = task[u]
  BY DEF StartChat, Idle, TypeInv, TypeOK
<1>4. \A i \in 1 .. Len(requests'[p]) :
        i + 1 \in 1 .. Len(requests[p]) /\ 1 < i + 1 /\ requests'[p][i] = requests[p][i + 1]
  BY <1>2
<1>5. 1 \in 1 .. Len(requests[p])
  BY <1>2
<1>6. QueueAscends'
  <2> SUFFICES ASSUME NEW s \in Player, NEW j \in 1 .. Len(requests'[s]),
                      requests'[s][j].do = "chat"
               PROVE  /\ requests'[s][j].n <= asked[s]
                      /\ \A i \in 1 .. Len(requests'[s]) :
                           i < j /\ requests'[s][i].do = "chat" =>
                             requests'[s][i].n < requests'[s][j].n
    BY <1>1 DEF QueueAscends
  <2>1. CASE s # p
    BY <1>2, <2>1 DEF QueueAscends
  <2>2. CASE s = p
    <3>1. /\ requests'[s][j].n <= asked[s]
          /\ \A i \in 1 .. Len(requests[s]) :
               i < j + 1 /\ requests[s][i].do = "chat" => requests[s][i].n < requests'[s][j].n
      BY <1>4, <2>2 DEF QueueAscends
    <3>2. \A i \in 1 .. Len(requests'[s]) : i < j => i + 1 < j + 1
      OBVIOUS
    <3>3. QED
      BY <1>4, <2>2, <3>1, <3>2
  <2>3. QED
    BY <2>1, <2>2
<1>7. /\ q.n <= asked[p]
      /\ \A i \in 1 .. Len(requests'[p]) : requests'[p][i].do = "chat" => q.n < requests'[p][i].n
  BY <1>1, <1>2, <1>4, <1>5 DEF QueueAscends
<1>8. SentFirst'
  <2> SUFFICES ASSUME NEW u \in Worker, task'[u].pc \in {"chat", "send"}
               PROVE  /\ task'[u].n <= asked[task'[u].player]
                      /\ \A i \in 1 .. Len(requests'[task'[u].player]) :
                           requests'[task'[u].player][i].do = "chat" =>
                             task'[u].n < requests'[task'[u].player][i].n
    BY <1>1 DEF SentFirst, Chatting
  <2>1. CASE u = w
    BY <1>3, <1>7, <2>1
  <2>2. CASE u # w
    <3>1. task'[u] = task[u] /\ task[u].player \in Player \ {p}
      BY <1>1, <1>3, <2>2, Tasks, Alone
    <3>2. QED
      BY <1>2, <3>1 DEF SentFirst, Chatting
  <2>3. QED
    BY <2>1, <2>2
<1>9. OutBefore'
  <2> SUFFICES ASSUME NEW s \in Player, NEW i \in 1 .. Len(out[s]), out[s][i].what = "chat"
               PROVE  /\ out[s][i].n <= asked[out[s][i].from]
                      /\ \A j \in 1 .. Len(requests'[out[s][i].from]) :
                           requests'[out[s][i].from][j].do = "chat" =>
                             out[s][i].n < requests'[out[s][i].from][j].n
                      /\ \A u \in Worker : task'[u].player = out[s][i].from =>
                           /\ task'[u].pc = "chat" => out[s][i].n < task'[u].n
                           /\ task'[u].pc = "send" => out[s][i].n <= task'[u].n
    BY <1>0, ZenonT(60) DEF OutBefore
  <2> DEFINE m == out[s][i]
  <2>1. m.from \in Player
    BY OutChat DEF TypeInv
  <2>2. /\ m.n <= asked[m.from]
        /\ \A j \in 1 .. Len(requests[m.from]) :
             requests[m.from][j].do = "chat" => m.n < requests[m.from][j].n
        /\ \A u \in Worker : task[u].player = m.from =>
             /\ task[u].pc = "chat" => m.n < task[u].n
             /\ task[u].pc = "send" => m.n <= task[u].n
    BY DEF OutBefore
  <2> HIDE DEF m
  <2>3. \A j \in 1 .. Len(requests'[m.from]) :
          requests'[m.from][j].do = "chat" => m.n < requests'[m.from][j].n
    <3>1. CASE m.from = p
      <4>1. \A j \in 1 .. Len(requests[p]) : requests[p][j].do = "chat" => m.n < requests[p][j].n
        BY <2>2, <3>1
      <4>2. QED
        BY <1>4, <3>1, <4>1
    <3>2. CASE m.from # p
      BY <1>2, <2>1, <2>2, <3>2
    <3>3. QED
      BY <3>1, <3>2
  <2>4. m.from = p => m.n < q.n
    BY <1>1, <1>2, <1>5, <2>2
  <2>5. \A u \in Worker : task'[u].player = m.from =>
          /\ task'[u].pc = "chat" => m.n < task'[u].n
          /\ task'[u].pc = "send" => m.n <= task'[u].n
    BY <1>3, <2>2, <2>4
  <2>6. QED
    BY <2>2, <2>3, <2>5 DEF m
<1>10. \A u \in Worker : task'[u].pc = "send" => task'[u] = task[u]
  BY <1>3
<1>11. Broadcasting'
  BY <1>1, <1>10 DEF Broadcasting
<1>12. Latest'
  <2> SUFFICES ASSUME NEW u \in Worker, task'[u].pc = "send"
               PROVE  \A p2 \in Player : \A i, j \in 1 .. Len(out'[p2]) :
                        i < j /\ out'[p2][i] = Sends(u)' /\ IsChat(p2, j, task[u].room)'
                        => out'[p2][j] = Sends(u)'
    BY Zenon DEF Latest
  <2>1. task'[u] = task[u] /\ out' = out
    BY <1>0, <1>10
  <2>2. Sends(u)' = Sends(u)
    BY <2>1 DEF Sends
  <2> TAKE p2 \in Player
  <2> TAKE i, j \in 1 .. Len(out'[p2])
  <2> HAVE i < j /\ out'[p2][i] = Sends(u)' /\ IsChat(p2, j, task[u].room)'
  <2>3. IsChat(p2, j, task[u].room)
    BY <2>1, Zenon DEF IsChat
  <2>4. i \in 1 .. Len(out[p2]) /\ j \in 1 .. Len(out[p2]) /\ out[p2][i] = Sends(u)
    BY <2>1, <2>2, Zenon
  <2>5. out[p2][j] = Sends(u)
    BY <2>1, <2>3, <2>4, Zenon DEF Latest
  <2>6. QED
    BY <2>1, <2>2, <2>5, Zenon
<1>13. SenderOrderKept' /\ SameOrderForAll'
  BY <1>0, SameOut
<1>14. QED
  BY <1>6, <1>8, <1>9, <1>11, <1>12, <1>13

\* A broadcast gets its room's mutex: nothing was sent of its message.
LEMMA LockOrder == ASSUME TypeInv, OrderInv, NEW w \in Worker, Lock(w) PROVE OrderInv'
<1> DEFINE r == task[w].room
<1>1. requests' = requests /\ asked' = asked /\ out' = out /\ holder[r] = NoPlayer
  BY DEF Lock, Free
<1>2. task[w].pc = "chat" /\ r \in Room /\ task[w].player \in Player
  BY Tasks DEF Lock
<1>3. /\ holder \in [Room -> Worker \cup {NoPlayer}] /\ holder' = [holder EXCEPT ![r] = w]
      /\ task' = [task EXCEPT ![w].pc = "send"] /\ task \in [Worker -> TaskType]
  BY DEF Lock, TypeInv, TypeOK, TaskType
<1>4. /\ task'[w].pc = "send" /\ task'[w].room = r
      /\ task'[w].player = task[w].player /\ task'[w].n = task[w].n
      /\ \A u \in Worker \ {w} : task'[u] = task[u]
  BY <1>3 DEF TaskType
<1>5. Broadcasting'
  <2> SUFFICES ASSUME NEW u \in Worker, task'[u].pc = "send" PROVE holder'[task'[u].room] = u
    BY DEF Broadcasting
  <2>1. CASE u = w
    BY <1>2, <1>3, <1>4, <2>1
  <2>2. CASE u # w
    <3>1. task'[u] = task[u] /\ holder[task[u].room] = u /\ task[u].room \in Room
      BY <1>4, <2>2, Tasks DEF OrderInv, Broadcasting
    <3>2. u # NoPlayer
      BY ConstantsOK
    <3>3. QED
      BY <1>1, <1>3, <3>1, <3>2
  <2>3. QED
    BY <2>1, <2>2
<1>6. QueueAscends'
  BY <1>1 DEF OrderInv, NumbersInv, QueueAscends
<1>7. SentFirst'
  <2>1. \A u \in Worker : Chatting(u)' =>
          Chatting(u) /\ task'[u].n = task[u].n /\ task'[u].player = task[u].player
    BY <1>2, <1>4 DEF Chatting
  <2>2. QED
    BY <1>1, <2>1 DEF OrderInv, NumbersInv, SentFirst
<1>8. ASSUME NEW p \in Player, NEW i \in 1 .. Len(out[p]), out[p][i].what = "chat",
             out[p][i].from = task[w].player
      PROVE  out[p][i].n \in Nat /\ task[w].n \in Nat /\ out[p][i].n < task[w].n
  <2>1. out[p][i].n \in Nat /\ task[w].n \in Nat
    BY <1>2, <1>8, OutChat, Tasks, Numbers DEF TypeInv
  <2>2. QED
    BY <1>2, <1>8, <2>1 DEF OrderInv, NumbersInv, OutBefore
<1>9. OutBefore'
  <2> SUFFICES ASSUME NEW p \in Player, NEW i \in 1 .. Len(out[p]), out[p][i].what = "chat"
               PROVE  /\ out[p][i].n <= asked[out[p][i].from]
                      /\ \A j \in 1 .. Len(requests[out[p][i].from]) :
                           requests[out[p][i].from][j].do = "chat" =>
                             out[p][i].n < requests[out[p][i].from][j].n
                      /\ \A u \in Worker : task'[u].player = out[p][i].from =>
                           /\ task'[u].pc = "chat" => out[p][i].n < task'[u].n
                           /\ task'[u].pc = "send" => out[p][i].n <= task'[u].n
    BY <1>1, ZenonT(60) DEF OutBefore
  <2> DEFINE m == out[p][i]
  <2>1. /\ m.n <= asked[m.from]
        /\ \A j \in 1 .. Len(requests[m.from]) :
             requests[m.from][j].do = "chat" => m.n < requests[m.from][j].n
        /\ \A u \in Worker : task[u].player = m.from =>
             /\ task[u].pc = "chat" => m.n < task[u].n
             /\ task[u].pc = "send" => m.n <= task[u].n
    BY DEF OrderInv, NumbersInv, OutBefore
  <2>2. ASSUME NEW u \in Worker, task'[u].player = m.from
        PROVE  /\ task'[u].pc = "chat" => m.n < task'[u].n
               /\ task'[u].pc = "send" => m.n <= task'[u].n
    <3>1. CASE u = w
      BY <1>4, <1>8, <2>2, <3>1
    <3>2. CASE u # w
      BY <1>4, <2>1, <2>2, <3>2
    <3>3. QED
      BY <3>1, <3>2
  <2>3. QED
    BY <2>1, <2>2
<1>10. Latest'
  <2> SUFFICES ASSUME NEW u \in Worker, task'[u].pc = "send", NEW p \in Player,
                      NEW i \in 1 .. Len(out[p]), NEW j \in 1 .. Len(out[p]),
                      i < j, out[p][i] = Sends(u)', IsChat(p, j, task'[u].room)
               PROVE  out[p][j] = Sends(u)'
    BY <1>1 DEF Latest, IsChat
  <2>1. CASE u = w
    <3>1. out[p][i] = Chat(r, task[w].player, task[w].n)
      BY <1>4, <2>1 DEF Sends
    <3>2. out[p][i].what = "chat" /\ out[p][i].from = task[w].player /\ out[p][i].n = task[w].n
      BY <3>1, Kinds
    <3>3. QED
      BY <1>8, <3>2
  <2>2. CASE u # w
    <3>1. task'[u] = task[u] /\ Sends(u)' = Sends(u)
      BY <1>4, <2>2 DEF Sends
    <3>2. QED
      BY <3>1 DEF OrderInv, Latest
  <2>3. QED
    BY <2>1, <2>2
<1>11. SenderOrderKept' /\ SameOrderForAll'
  BY <1>1, SameOut DEF OrderInv
<1>12. QED
  BY <1>5, <1>6, <1>7, <1>9, <1>10, <1>11 DEF OrderInv, NumbersInv

\* A client asks: a chat message gets its highest number.
LEMMA AskOrder == ASSUME TypeInv, OrderInv, NEW p \in Player, ClientAsks(p) PROVE OrderInv'
<1>1. PICK q \in {[do |-> "create"], [do |-> "list"]}
                 \cup {[do |-> "enter", id |-> i] : i \in {j \in RoomID : directory[j] # 0}}
                 \cup {[do |-> "chat", n |-> asked[p] + 1]} :
        requests' = [requests EXCEPT ![p] = Append(@, q)]
  BY DEF ClientAsks
<1>2. q.do = "chat" => q.n = asked[p] + 1
  BY <1>1
<1>3. /\ asked[p] \in Nat /\ asked'[p] = asked[p] + 1
      /\ \A s \in Player \ {p} : asked'[s] = asked[s]
  BY AskedIsNat DEF ClientAsks, TypeInv, TypeOK
<1>4. /\ requests[p] \in Seq(Request) /\ requests'[p] = Append(requests[p], q)
      /\ \A s \in Player \ {p} : requests'[s] = requests[s]
  BY <1>1 DEF TypeInv, TypeOK
<1>5. /\ Len(requests[p]) \in Nat
      /\ \A i \in 1 .. Len(requests'[p]) :
           (i \in 1 .. Len(requests[p]) /\ requests'[p][i] = requests[p][i])
             \/ (i = Len(requests[p]) + 1 /\ requests'[p][i] = q)
  <2>1. requests' \in [Player -> Seq(Request)]
    BY AskType DEF TypeInv, TypeOK
  <2>2. Len(requests[p]) \in Nat /\ Len(requests'[p]) = Len(requests[p]) + 1
    BY <1>4, LenProperties
  <2>3. \A i \in 1 .. Len(requests[p]) : requests'[p][i] = requests[p][i]
    BY <1>4
  <2>4. requests'[p][Len(requests[p]) + 1] = q
    BY <1>4, <2>2
  <2>5. QED
    BY <2>2, <2>3, <2>4
<1>6. out' = out /\ task' = task /\ holder' = holder
  BY DEF ClientAsks
<1>7. \A i \in 1 .. Len(requests[p]) : requests[p][i].do = "chat" =>
        requests[p][i].n \in Nat /\ requests[p][i].n <= asked[p]
  BY QueuedChat DEF TypeInv, OrderInv, NumbersInv, QueueAscends
<1>8. QueueAscends'
  <2> SUFFICES ASSUME NEW s \in Player, NEW j \in 1 .. Len(requests'[s]),
                      requests'[s][j].do = "chat"
               PROVE  /\ requests'[s][j].n <= asked'[s]
                      /\ \A i \in 1 .. Len(requests'[s]) :
                           i < j /\ requests'[s][i].do = "chat" =>
                             requests'[s][i].n < requests'[s][j].n
    BY DEF QueueAscends
  <2>1. CASE s # p
    BY <1>3, <1>4, <2>1 DEF OrderInv, NumbersInv, QueueAscends
  <2>2. CASE s = p
    <3>1. CASE j \in 1 .. Len(requests[p]) /\ requests'[p][j] = requests[p][j]
      <4>1. requests'[s][j].n <= asked'[s]
        BY <1>3, <1>7, <2>2, <3>1
      <4>2. ASSUME NEW i \in 1 .. Len(requests'[s]), i < j, requests'[s][i].do = "chat"
            PROVE  requests'[s][i].n < requests'[s][j].n
        <5>1. i \in 1 .. Len(requests[p]) /\ requests'[p][i] = requests[p][i]
          BY <1>5, <2>2, <3>1, <4>2
        <5>2. QED
          BY <2>2, <3>1, <4>2, <5>1 DEF OrderInv, NumbersInv, QueueAscends
      <4>3. QED
        BY <4>1, <4>2
    <3>2. CASE j = Len(requests[p]) + 1 /\ requests'[p][j] = q
      <4>1. requests'[s][j].n = asked[p] + 1
        BY <1>2, <2>2, <3>2
      <4>2. \A i \in 1 .. Len(requests'[s]) : i < j => requests'[s][i] = requests[p][i]
                                                       /\ i \in 1 .. Len(requests[p])
        BY <1>5, <2>2, <3>2
      <4>3. asked[p] \in Nat /\ asked'[s] = asked[p] + 1
        BY <1>3, <2>2
      <4>4. ASSUME NEW i \in 1 .. Len(requests'[s]), i < j, requests'[s][i].do = "chat"
            PROVE  requests'[s][i].n < requests'[s][j].n
        <5>1. requests'[s][i] = requests[p][i] /\ i \in 1 .. Len(requests[p])
          BY <4>2, <4>4, Zenon
        <5>2. requests'[s][i].n \in Nat /\ requests'[s][i].n <= asked[p]
          BY <1>7, <4>4, <5>1, Zenon
        <5>3. QED
          BY ONLY <4>1, <4>3, <5>2
      <4>5. requests'[s][j].n <= asked'[s]
        BY ONLY <4>1, <4>3
      <4>6. QED
        BY <4>4, <4>5, Zenon
    <3>3. QED
      BY <1>5, <2>2, <3>1, <3>2
  <2>3. QED
    BY <2>1, <2>2
<1>9. ASSUME NEW s \in Player, NEW n \in Nat, n <= asked[s],
             \A j \in 1 .. Len(requests[s]) : requests[s][j].do = "chat" => n < requests[s][j].n
      PROVE  /\ n <= asked'[s]
             /\ \A j \in 1 .. Len(requests'[s]) :
                  requests'[s][j].do = "chat" => n < requests'[s][j].n
  <2>1. CASE s # p
    BY <1>3, <1>4, <1>9, <2>1
  <2>2. CASE s = p
    <3>1. n < asked[p] + 1 /\ n <= asked'[s]
      BY <1>3, <1>9, <2>2
    <3>2. QED
      BY <1>2, <1>5, <1>9, <2>2, <3>1
  <2>3. QED
    BY <2>1, <2>2
<1>10. SentFirst'
  <2> SUFFICES ASSUME NEW w \in Worker, task[w].pc \in {"chat", "send"}
               PROVE  /\ task[w].n <= asked'[task[w].player]
                      /\ \A i \in 1 .. Len(requests'[task[w].player]) :
                           requests'[task[w].player][i].do = "chat" =>
                             task[w].n < requests'[task[w].player][i].n
    BY <1>6 DEF SentFirst, Chatting
  <2>1. task[w].player \in Player /\ task[w].n \in Nat
    BY Tasks, Numbers
  <2>2. QED
    BY <1>9, <2>1 DEF OrderInv, NumbersInv, SentFirst, Chatting
<1>11. OutBefore'
  <2> SUFFICES ASSUME NEW s \in Player, NEW i \in 1 .. Len(out[s]), out[s][i].what = "chat"
               PROVE  /\ out[s][i].n <= asked'[out[s][i].from]
                      /\ \A j \in 1 .. Len(requests'[out[s][i].from]) :
                           requests'[out[s][i].from][j].do = "chat" =>
                             out[s][i].n < requests'[out[s][i].from][j].n
                      /\ \A u \in Worker : task[u].player = out[s][i].from =>
                           /\ task[u].pc = "chat" => out[s][i].n < task[u].n
                           /\ task[u].pc = "send" => out[s][i].n <= task[u].n
    BY <1>6 DEF OutBefore
  <2>1. out[s][i].from \in Player /\ out[s][i].n \in Nat
    BY OutChat DEF TypeInv
  <2>2. /\ out[s][i].n <= asked[out[s][i].from]
        /\ \A j \in 1 .. Len(requests[out[s][i].from]) :
             requests[out[s][i].from][j].do = "chat" => out[s][i].n < requests[out[s][i].from][j].n
        /\ \A u \in Worker : task[u].player = out[s][i].from =>
             /\ task[u].pc = "chat" => out[s][i].n < task[u].n
             /\ task[u].pc = "send" => out[s][i].n <= task[u].n
    BY DEF OrderInv, NumbersInv, OutBefore
  <2>3. QED
    BY <1>9, <2>1, <2>2
<1>12. Broadcasting' /\ Latest'
  BY <1>6 DEF OrderInv, Broadcasting, Latest, Sends, IsChat
<1>13. SenderOrderKept' /\ SameOrderForAll'
  BY <1>6, SameOut DEF OrderInv
<1>14. QED
  BY <1>8, <1>10, <1>11, <1>12, <1>13 DEF OrderInv, NumbersInv

\* A broadcast sends to one more entry.
LEMMA SendNextOrder == ASSUME TypeInv, OrderInv, NEW w \in Worker, SendNext(w) PROVE OrderInv'
<1> DEFINE t == task[w]
<1>1. PICK q \in Player, m \in Message :
        /\ m = Sends(w) /\ out' = [out EXCEPT ![q] = Append(@, m)]
        /\ t.room \in Room /\ t.player \in Player /\ t.n \in Nat /\ t.pc = "send"
  <2>1. t.room \in Room /\ t.player \in Player /\ t.n \in Nat /\ t.pc = "send"
    <3>1. t.pc = "send"
      BY DEF SendNext
    <3>2. t.room \in Room /\ t.player \in Player /\ t.n \in Number
      BY <3>1, Tasks
    <3>3. QED
      BY <3>1, <3>2, Numbers
  <2>2. QED
    BY <2>1, NextSent, SMTT(20)
<1>2. m.what = "chat" /\ m.room = t.room /\ m.from = t.player /\ m.n = t.n
  <2>1. m = Chat(t.room, t.player, t.n)
    BY <1>1, ZenonT(60) DEF Sends
  <2> HIDE DEF t
  <2>2. QED
    BY <2>1 DEF Chat
<1>3. /\ requests' = requests /\ asked' = asked /\ holder' = holder
      /\ \A u \in Worker : /\ task'[u].pc = task[u].pc /\ task'[u].room = task[u].room
                           /\ task'[u].player = task[u].player /\ task'[u].n = task[u].n
  BY DEF SendNext, TypeInv, TypeOK
<1>4. /\ Len(out[q]) \in Nat
      /\ \A i \in 1 .. Len(out'[q]) :
           (i \in 1 .. Len(out[q]) /\ out'[q][i] = out[q][i])
             \/ (i = Len(out[q]) + 1 /\ out'[q][i] = m)
      /\ \A s \in Player \ {q} : out'[s] = out[s]
  <2>1. /\ Len(out[q]) \in Nat /\ Len(out'[q]) = Len(out[q]) + 1
        /\ \A i \in 1 .. Len(out[q]) : out'[q][i] = out[q][i]
        /\ out'[q][Len(out[q]) + 1] = m
        /\ \A s \in Player \ {q} : out'[s] = out[s]
    BY <1>1, Sent DEF TypeInv
  <2>2. QED
    BY <2>1
\* Every message is an old one, or the last of q and m.
<1>5. \A p \in Player : \A i \in 1 .. Len(out'[p]) :
        (i \in 1 .. Len(out[p]) /\ out'[p][i] = out[p][i])
          \/ (p = q /\ i = Len(out[p]) + 1 /\ out'[p][i] = m)
  BY <1>4
<1>6. \A p \in Player : \A i, j \in 1 .. Len(out'[p]) :
        i < j /\ j \in 1 .. Len(out[p]) => i \in 1 .. Len(out[p]) /\ out'[p][i] = out[p][i]
  <2> SUFFICES ASSUME NEW p \in Player, NEW i \in 1 .. Len(out'[p]), NEW j \in 1 .. Len(out[p]),
                      i < j
               PROVE  i \in 1 .. Len(out[p]) /\ out'[p][i] = out[p][i]
    OBVIOUS
  <2>1. ~(p = q /\ i = Len(out[p]) + 1)
    BY <1>4
  <2>2. QED
    BY <1>5, <2>1
<1>7. Broadcasting'
  BY <1>3 DEF OrderInv, Broadcasting
<1>8. QueueAscends' /\ SentFirst'
  BY <1>3 DEF OrderInv, NumbersInv, QueueAscends, SentFirst, Chatting
<1>9. /\ t.n <= asked[t.player]
      /\ \A j \in 1 .. Len(requests[t.player]) :
           requests[t.player][j].do = "chat" => t.n < requests[t.player][j].n
  BY <1>1 DEF OrderInv, NumbersInv, SentFirst, Chatting
<1>10. \A u \in Worker : task[u].player = t.player =>
         /\ task[u].pc = "chat" => t.n < task[u].n
         /\ task[u].pc = "send" => t.n <= task[u].n
  <2> SUFFICES ASSUME NEW u \in Worker, task[u].player = t.player, task[u].pc \in {"chat", "send"}
               PROVE  u = w
    BY <1>1
  <2>1. Owner[t.player] = w /\ Owner[t.player] = u
    BY <1>1, Tasks
  <2>2. QED
    BY <2>1
<1>11. OutBefore'
  <2> SUFFICES ASSUME NEW s \in Player, NEW i \in 1 .. Len(out'[s]), out'[s][i].what = "chat"
               PROVE  /\ out'[s][i].n <= asked[out'[s][i].from]
                      /\ \A j \in 1 .. Len(requests[out'[s][i].from]) :
                           requests[out'[s][i].from][j].do = "chat" =>
                             out'[s][i].n < requests[out'[s][i].from][j].n
                      /\ \A u \in Worker : task[u].player = out'[s][i].from =>
                           /\ task[u].pc = "chat" => out'[s][i].n < task[u].n
                           /\ task[u].pc = "send" => out'[s][i].n <= task[u].n
    BY <1>3 DEF OutBefore
  <2>1. CASE i \in 1 .. Len(out[s]) /\ out'[s][i] = out[s][i]
    BY <2>1 DEF OrderInv, NumbersInv, OutBefore
  <2>2. CASE out'[s][i] = m
    BY <1>2, <1>9, <1>10, <2>2
  <2>3. QED
    BY <1>5, <2>1, <2>2
<1>12. Latest'
  <2> SUFFICES ASSUME NEW u \in Worker, task[u].pc = "send", NEW p \in Player,
                      NEW i \in 1 .. Len(out'[p]), NEW j \in 1 .. Len(out'[p]),
                      i < j, out'[p][i] = Sends(u), out'[p][j].what = "chat",
                      out'[p][j].room = task[u].room
               PROVE  out'[p][j] = Sends(u)
    <3>1. \A u \in Worker : Sends(u)' = Sends(u)
      BY <1>3 DEF Sends
    <3>2. QED
      BY <1>3, <3>1 DEF Latest, IsChat
  <2>1. CASE j \in 1 .. Len(out[p]) /\ out'[p][j] = out[p][j]
    <3>1. i \in 1 .. Len(out[p]) /\ out'[p][i] = out[p][i]
      BY <1>6, <2>1
    <3>2. QED
      BY <2>1, <3>1, Zenon DEF OrderInv, Latest, IsChat
  <2>2. CASE out'[p][j] = m
    <3>1. task[u].room = t.room
      BY <1>2, <2>2
    <3>2. u = w
      BY <1>1, <3>1 DEF OrderInv, Broadcasting
    <3>3. QED
      BY <1>1, <2>2, <3>2
  <2>3. QED
    BY <1>5, <2>1, <2>2
<1>13. SenderOrderKept'
  <2> SUFFICES ASSUME NEW p \in Player, NEW i \in 1 .. Len(out'[p]), NEW j \in 1 .. Len(out'[p]),
                      i < j, out'[p][i].what = "chat", out'[p][j].what = "chat",
                      out'[p][i].from = out'[p][j].from
               PROVE  out'[p][i].n <= out'[p][j].n
    BY DEF SenderOrderKept
  <2>1. CASE j \in 1 .. Len(out[p]) /\ out'[p][j] = out[p][j]
    <3>1. i \in 1 .. Len(out[p]) /\ out'[p][i] = out[p][i]
      BY <1>6, <2>1
    <3>2. QED
      BY <2>1, <3>1 DEF OrderInv, SenderOrderKept
  <2>2. CASE out'[p][j] = m
    <3>1. CASE i \in 1 .. Len(out[p]) /\ out'[p][i] = out[p][i]
      BY <1>1, <1>2, <2>2, <3>1, ZenonT(60) DEF OrderInv, NumbersInv, OutBefore
    <3>2. CASE out'[p][i] = m
      BY <1>1, <1>2, <2>2, <3>2
    <3>3. QED
      BY <1>5, <3>1, <3>2
  <2>3. QED
    BY <1>5, <2>1, <2>2
\* Nothing of the room comes after m ...
<1>14. ASSUME NEW p \in Player, NEW i \in 1 .. Len(out'[p]), NEW j \in 1 .. Len(out'[p]),
              i < j, out'[p][i] = m, out'[p][j].what = "chat", out'[p][j].room = m.room
       PROVE  out'[p][j] = m
  <2>1. Sends(w)' = m /\ task'[w].pc = "send" /\ task'[w].room = m.room
    BY <1>1, <1>2, <1>3 DEF Sends
  <2>2. QED
    BY <1>12, <1>14, <2>1 DEF Latest, IsChat
\* ... so it was swapped with no other message.
<1>15. SameOrderForAll'
  <2> SUFFICES \A p, s \in Player : \A r \in Room :
                 \A i, j \in 1 .. Len(out'[p]), k, l \in 1 .. Len(out'[s]) :
                   /\ i < j /\ k < l /\ IsChat(p, i, r)' /\ IsChat(p, j, r)'
                   /\ out'[p][i] = out'[s][l] /\ out'[p][j] = out'[s][k]
                   => out'[p][i] = out'[p][j]
    BY Zenon DEF SameOrderForAll
  <2> TAKE p, s \in Player
  <2> TAKE r \in Room
  <2> TAKE i, j \in 1 .. Len(out'[p]), k, l \in 1 .. Len(out'[s])
  <2> HAVE /\ i < j /\ k < l /\ IsChat(p, i, r)' /\ IsChat(p, j, r)'
           /\ out'[p][i] = out'[s][l] /\ out'[p][j] = out'[s][k]
  <2> SUFFICES ASSUME out'[p][i].what = "chat", out'[p][i].room = r,
                      out'[p][j].what = "chat", out'[p][j].room = r
               PROVE  out'[p][i] = out'[p][j]
    BY Zenon DEF IsChat
  <2>1. CASE out'[p][j] = m
    <3>1. out'[s][l] = m
      BY <1>14, <2>1
    <3>2. QED
      BY <2>1, <3>1
  <2>2. CASE out'[s][l] = m
    BY <1>14, <2>2
  <2>3. CASE /\ j \in 1 .. Len(out[p]) /\ out'[p][j] = out[p][j]
             /\ l \in 1 .. Len(out[s]) /\ out'[s][l] = out[s][l]
    <3>1. /\ i \in 1 .. Len(out[p]) /\ out'[p][i] = out[p][i]
          /\ k \in 1 .. Len(out[s]) /\ out'[s][k] = out[s][k]
      BY <1>6, <2>3
    <3>2. IsChat(p, i, r) /\ IsChat(p, j, r)
      BY <2>3, <3>1 DEF IsChat
    <3>3. out[p][i] = out[s][l] /\ out[p][j] = out[s][k]
      BY <2>3, <3>1
    <3>4. out[p][i] = out[p][j]
      BY <2>3, <3>1, <3>2, <3>3 DEF OrderInv, SameOrderForAll
    <3>5. QED
      BY <2>3, <3>1, <3>4
  <2>4. /\ (j \in 1 .. Len(out[p]) /\ out'[p][j] = out[p][j]) \/ out'[p][j] = m
        /\ (l \in 1 .. Len(out[s]) /\ out'[s][l] = out[s][l]) \/ out'[s][l] = m
    BY <1>5
  <2>5. QED
    BY <2>1, <2>2, <2>3, <2>4
<1>16. QED
  BY <1>7, <1>8, <1>11, <1>12, <1>13, <1>15 DEF OrderInv, NumbersInv

\* Where a worker is after a step, and that the others stay where they are.
LEMMA TaskNow ==
  ASSUME TypeInv, NEW w \in Worker, NEW v, task' = [task EXCEPT ![w] = v]
  PROVE  task'[w] = v /\ \A u \in Worker \ {w} : task'[u] = task[u]
BY DEF TypeInv, TypeOK

LEMMA Moved ==
  ASSUME TypeInv, NEW w \in Worker, WorkerStep(w)
  PROVE  /\ \A u \in Worker \ {w} : task'[u] = task[u]
         /\ \A p \in Player :
              /\ DropRequest(w, p) => task'[w] = task[w]
              /\ CreateRoom(w, p) => task'[w].pc = "create"
              /\ StartEnter(w, p) => task'[w].pc = "enter"
              /\ StartChat(w, p) => task'[w].pc = "chat" /\ task'[w].sent = 0
              /\ StartList(w, p) => task'[w].pc = "list"
         /\ Enter(w) => task'[w] = [task[w] EXCEPT !.pc = "ack"] /\ task'[w].pc = "ack"
         /\ SendAck(w) \/ Unlock(w) \/ SendList(w) => task'[w].pc = "idle"
         /\ Lock(w) => task'[w] = [task[w] EXCEPT !.pc = "send"] /\ task'[w].pc = "send"
         /\ SendNext(w) => /\ task'[w] = [task[w] EXCEPT !.sent = task[w].sent + 1]
                           /\ task'[w].pc = "send"
         /\ ReadRoom(w) => task'[w].pc = "list"
<1>0. task[w] \in TaskType
  BY Tasks
<1>1. ASSUME NEW p \in Player, DropRequest(w, p) PROVE task' = task
  BY <1>1 DEF DropRequest
<1>2. ASSUME NEW p \in Player, CreateRoom(w, p)
      PROVE  task'[w].pc = "create" /\ \A u \in Worker \ {w} : task'[u] = task[u]
  <2>1. [Idle EXCEPT !.pc = "create", !.player = p, !.room = roomNumber'].pc = "create"
    BY DEF Idle
  <2>2. QED
    BY <1>2, <2>1, TaskNow, ZenonT(60) DEF CreateRoom
<1>3. ASSUME NEW p \in Player, StartEnter(w, p)
      PROVE  task'[w].pc = "enter" /\ \A u \in Worker \ {w} : task'[u] = task[u]
  <2> DEFINE r == directory[Head(requests[p]).id]
  <2>1. [Idle EXCEPT !.pc = "enter", !.player = p, !.room = r].pc = "enter"
    BY DEF Idle
  <2>2. QED
    BY <1>3, <2>1, TaskNow, Zenon DEF StartEnter
<1>4. ASSUME NEW p \in Player, StartChat(w, p)
      PROVE  /\ task'[w].pc = "chat" /\ task'[w].sent = 0
             /\ \A u \in Worker \ {w} : task'[u] = task[u]
  <2> DEFINE v == [Idle EXCEPT !.pc = "chat", !.player = p, !.room = directory[chatRoomID[p]],
                               !.n = Head(requests[p]).n]
  <2>1. v.pc = "chat" /\ v.sent = 0
    BY DEF Idle
  <2>2. task' = [task EXCEPT ![w] = v]
    BY <1>4 DEF StartChat
  <2> HIDE DEF v
  <2>3. QED
    BY <2>1, <2>2, TaskNow
<1>5. ASSUME NEW p \in Player, StartList(w, p)
      PROVE  task'[w].pc = "list" /\ \A u \in Worker \ {w} : task'[u] = task[u]
  <2> DEFINE x == {directory[i] : i \in RoomID} \ {0}
  <2>1. [Idle EXCEPT !.pc = "list", !.player = p, !.left = x].pc = "list"
    BY DEF Idle
  <2>2. QED
    BY <1>5, <2>1, TaskNow, Zenon DEF StartList
<1>6. ASSUME Enter(w)
      PROVE  /\ task'[w] = [task[w] EXCEPT !.pc = "ack"] /\ task'[w].pc = "ack"
             /\ \A u \in Worker \ {w} : task'[u] = task[u]
  <2> DEFINE v == [task[w] EXCEPT !.pc = "ack"]
  <2>1. task' = [task EXCEPT ![w] = v]
    BY <1>6 DEF Enter
  <2>2. v.pc = "ack"
    BY <1>0 DEF TaskType
  <2> HIDE DEF v
  <2>3. QED
    BY <2>1, <2>2, TaskNow DEF v
<1>7. ASSUME Lock(w)
      PROVE  /\ task'[w] = [task[w] EXCEPT !.pc = "send"] /\ task'[w].pc = "send"
             /\ \A u \in Worker \ {w} : task'[u] = task[u]
  <2> DEFINE v == [task[w] EXCEPT !.pc = "send"]
  <2>1. task' = [task EXCEPT ![w] = v]
    BY <1>7 DEF Lock
  <2>2. v.pc = "send"
    BY <1>0 DEF TaskType
  <2> HIDE DEF v
  <2>3. QED
    BY <2>1, <2>2, TaskNow DEF v
<1>8. ASSUME SendNext(w)
      PROVE  /\ task'[w] = [task[w] EXCEPT !.sent = task[w].sent + 1] /\ task'[w].pc = "send"
             /\ \A u \in Worker \ {w} : task'[u] = task[u]
  <2> DEFINE v == [task[w] EXCEPT !.sent = task[w].sent + 1]
  <2>1. task' = [task EXCEPT ![w] = v]
    BY <1>8, ZenonT(60) DEF SendNext
  <2>2. v.pc = "send"
    BY <1>0, <1>8 DEF TaskType, SendNext
  <2> HIDE DEF v
  <2>3. QED
    BY <2>1, <2>2, TaskNow, Zenon DEF v
<1>9. ASSUME ReadRoom(w)
      PROVE  task'[w].pc = "list" /\ \A u \in Worker \ {w} : task'[u] = task[u]
  <2>1. PICK r : task' = [task EXCEPT ![w] =
                            [task[w] EXCEPT !.left = @ \ {r}, !.info[r] = Users(r)]]
    BY <1>9 DEF ReadRoom
  <2>2. [task[w] EXCEPT !.left = @ \ {r}, !.info[r] = Users(r)].pc = "list"
    BY <1>0, <1>9 DEF TaskType, ReadRoom
  <2>3. QED
    BY <2>1, <2>2, TaskNow
<1>10. ASSUME SendAck(w) \/ Unlock(w) \/ SendList(w)
       PROVE  task'[w].pc = "idle" /\ \A u \in Worker \ {w} : task'[u] = task[u]
  BY <1>10, IdleTask, TaskNow DEF SendAck, Unlock, SendList
<1>11. QED
  BY <1>1, <1>2, <1>3, <1>4, <1>5, <1>6, <1>7, <1>8, <1>9, <1>10 DEF WorkerStep

\* The steps that start, send and end no chat.
Unchatting(w) ==
  \/ \E p \in Player : \/ DropRequest(w, p) \/ CreateRoom(w, p) \/ StartEnter(w, p)
                       \/ StartList(w, p)
  \/ Enter(w) \/ SendAck(w) \/ ReadRoom(w) \/ SendList(w)

LEMMA OtherChats ==
  ASSUME TypeInv, NEW w \in Worker, Unchatting(w)
  PROVE  \A u \in Worker : task'[u].pc \in {"chat", "send"} => task'[u] = task[u]
<1>1. WorkerStep(w)
  BY DEF Unchatting, WorkerStep
<1>2. QED
  BY <1>1, Moved DEF Unchatting

\* The mutex when nobody locks.
LEMMA HeldStays ==
  ASSUME OrderInv, holder' = holder,
         \A w \in Worker : task'[w].pc = "send" => task'[w] = task[w]
  PROVE  Broadcasting'
BY DEF OrderInv, Broadcasting

LEMMA UnlockOrder == ASSUME TypeInv, OrderInv, NEW w \in Worker, Unlock(w) PROVE OrderInv'
<1>1. /\ task'[w].pc = "idle" /\ \A u \in Worker \ {w} : task'[u] = task[u]
      /\ task[w].pc = "send" /\ task[w].room \in Room
  BY Tasks, TaskNow, IdleTask DEF Unlock
<1>2. \A u \in Worker : task'[u].pc \in {"chat", "send"} => u # w /\ task'[u] = task[u]
  BY <1>1
<1>3. Broadcasting'
  <2>1. holder' = [holder EXCEPT ![task[w].room] = NoPlayer]
    BY DEF Unlock
  <2>2. ASSUME NEW u \in Worker, u # w, task[u].pc = "send"
        PROVE  holder'[task[u].room] = u
    <3>1. task[u].room # task[w].room /\ task[u].room \in Room /\ holder[task[u].room] = u
      BY <1>1, <2>2, Tasks DEF OrderInv, Broadcasting
    <3>2. QED
      BY <2>1, <3>1 DEF TypeInv, TypeOK
  <2>3. QED
    BY <1>2, <2>2 DEF Broadcasting
<1>4. requests' = requests /\ asked' = asked /\ out' = out
  BY DEF Unlock
<1>5. \A p \in Player : \A i \in 1 .. Len(requests'[p]) :
        i + 0 \in 1 .. Len(requests[p]) /\ requests'[p][i] = requests[p][i + 0]
  BY <1>4
<1>6. QED
  BY <1>2, <1>3, <1>4, <1>5, QuietOrder

\* Handlers of other requests, up to what they send.
LEMMA OtherOrder ==
  ASSUME TypeInv, OrderInv, NEW w \in Worker, NEW p \in Player,
         DropRequest(w, p) \/ CreateRoom(w, p) \/ StartEnter(w, p) \/ StartList(w, p)
  PROVE  OrderInv'
<1>1. /\ requests[p] # <<>> /\ requests' = [requests EXCEPT ![p] = Tail(@)]
      /\ asked' = asked /\ out' = out /\ holder' = holder
  BY DEF DropRequest, CreateRoom, StartEnter, StartList, Takes
<1>2. \A u \in Worker : task'[u].pc \in {"chat", "send"} => task'[u] = task[u]
  BY OtherChats DEF Unchatting
<1>3. Broadcasting'
  BY <1>1, <1>2, HeldStays
<1>4. ASSUME NEW s \in Player
      PROVE  \E d \in {0, 1} : \A i \in 1 .. Len(requests'[s]) :
               i + d \in 1 .. Len(requests[s]) /\ requests'[s][i] = requests[s][i + d]
  <2>1. CASE s = p
    <3>1. Len(requests[p]) \in Nat /\ Len(requests'[p]) = Len(requests[p]) - 1
      BY <1>1, Taken DEF TypeInv
    <3>2. \A i \in 1 .. Len(requests'[p]) : i + 1 \in 1 .. Len(requests[p])
      BY <3>1
    <3>3. QED
      BY <1>1, <2>1, <3>2, Taken DEF TypeInv
  <2>2. CASE s # p
    <3>1. requests'[s] = requests[s]
      BY <1>1, <2>2, Taken DEF TypeInv
    <3>2. \A i \in 1 .. Len(requests[s]) : i + 0 = i
      OBVIOUS
    <3>3. QED
      BY <3>1, <3>2
  <2>3. QED
    BY <2>1, <2>2
<1>5. QED
  BY <1>1, <1>2, <1>3, <1>4, QuietOrder

LEMMA QuietActionsOrder ==
  ASSUME TypeInv, OrderInv,
         (\E p \in Player : Disconnect(p)) \/ (\E w \in Worker : Enter(w) \/ ReadRoom(w))
  PROVE  OrderInv'
<1>1. requests' = requests /\ asked' = asked /\ out' = out /\ holder' = holder
  BY DEF Disconnect, Enter, ReadRoom
<1>2. \A u \in Worker : task'[u].pc \in {"chat", "send"} => task'[u] = task[u]
  <2>1. CASE \E p \in Player : Disconnect(p)
    BY <2>1 DEF Disconnect
  <2>2. ASSUME NEW w \in Worker, Enter(w) \/ ReadRoom(w)
        PROVE  \A u \in Worker : task'[u].pc \in {"chat", "send"} => task'[u] = task[u]
    BY <2>2, OtherChats DEF Unchatting
  <2>3. QED
    BY <2>1, <2>2
<1>3. Broadcasting'
  BY <1>1, <1>2, HeldStays
<1>4. \A p \in Player : \A i \in 1 .. Len(requests'[p]) :
        i + 0 \in 1 .. Len(requests[p]) /\ requests'[p][i] = requests[p][i + 0]
  BY <1>1
<1>5. QED
  BY <1>1, <1>2, <1>3, <1>4, QuietOrder

LEMMA AnswerOrder ==
  ASSUME TypeInv, OrderInv, NEW w \in Worker, SendAck(w) \/ SendList(w) PROVE OrderInv'
<1>1. requests' = requests /\ asked' = asked /\ holder' = holder
  BY DEF SendAck, SendList
<1>2. \A u \in Worker : task'[u].pc \in {"chat", "send"} => task'[u] = task[u]
  BY OtherChats DEF Unchatting
<1>3. Broadcasting'
  BY <1>1, <1>2, HeldStays
<1>4. task[w] \in TaskType /\ task[w].player \in Player /\ (task[w].pc = "ack" => task[w].room \in Room)
  BY Tasks DEF SendAck, SendList
<1>5. PICK m \in Message : m.what # "chat" /\ out' = [out EXCEPT ![task[w].player] = Append(@, m)]
  <2>1. CASE SendAck(w)
    <3>1. Entered(task[w].room) \in Message /\ Entered(task[w].room).what # "chat"
      BY <1>4, <2>1 DEF SendAck, Message, Entered
    <3>2. out' = [out EXCEPT ![task[w].player] = Append(@, Entered(task[w].room))]
      BY <2>1 DEF SendAck
    <3>3. QED
      BY <3>1, <3>2
  <2>2. CASE SendList(w)
    <3>1. Listed(task[w].info) \in Message
      BY <1>4 DEF Message, TaskType
    <3>2. Listed(task[w].info).what # "chat"
      BY DEF Listed
    <3>3. out' = [out EXCEPT ![task[w].player] = Append(@, Listed(task[w].info))]
      BY <2>2 DEF SendList
    <3>4. QED
      BY <3>1, <3>2, <3>3
  <2>3. QED
    BY <2>1, <2>2
<1>6. QED
  BY <1>1, <1>2, <1>3, <1>4, <1>5, OtherSentOrder

LEMMA StepOrder == ASSUME TypeInv, OrderInv, [Next]_vars PROVE OrderInv'
<1>1. ASSUME NEW p \in Player, ClientAsks(p) PROVE OrderInv'
  BY <1>1, AskOrder
<1>2. ASSUME NEW p \in Player, Disconnect(p) PROVE OrderInv'
  BY <1>2, QuietActionsOrder
<1>3. ASSUME NEW w \in Worker, NEW p \in Player, StartChat(w, p) PROVE OrderInv'
  BY <1>3, StartChatOrder
<1>4. ASSUME NEW w \in Worker, NEW p \in Player,
             DropRequest(w, p) \/ CreateRoom(w, p) \/ StartEnter(w, p) \/ StartList(w, p)
      PROVE  OrderInv'
  BY <1>4, OtherOrder
<1>5. ASSUME NEW w \in Worker, Enter(w) \/ ReadRoom(w) PROVE OrderInv'
  BY <1>5, QuietActionsOrder
<1>6. ASSUME NEW w \in Worker, SendAck(w) \/ SendList(w) PROVE OrderInv'
  BY <1>6, AnswerOrder
<1>7. ASSUME NEW w \in Worker, Lock(w) PROVE OrderInv'
  BY <1>7, LockOrder
<1>8. ASSUME NEW w \in Worker, SendNext(w) PROVE OrderInv'
  BY <1>8, SendNextOrder
<1>9. ASSUME NEW w \in Worker, Unlock(w) PROVE OrderInv'
  BY <1>9, UnlockOrder
<1>10. CASE UNCHANGED vars
  <2>1. requests' = requests /\ asked' = asked /\ out' = out /\ holder' = holder /\ task' = task
    BY <1>10 DEF vars
  <2>2. Broadcasting' /\ Latest'
    BY <2>1 DEF OrderInv, Broadcasting, Latest, Sends, IsChat
  <2>3. NumbersInv'
    BY <2>1 DEF OrderInv, NumbersInv, QueueAscends, SentFirst, OutBefore, Chatting
  <2>4. QED
    BY <2>1, <2>2, <2>3, SameOut DEF OrderInv
<1>11. QED
  BY <1>1, <1>2, <1>3, <1>4, <1>5, <1>6, <1>7, <1>8, <1>9, <1>10 DEF Next, WorkerStep

LEMMA StepType == ASSUME TypeInv, [Next]_vars PROVE TypeInv'
<1>1. ASSUME NEW p \in Player, ClientAsks(p) \/ Disconnect(p) PROVE TypeInv'
  BY <1>1, AskType, DisconnectType
<1>2. ASSUME NEW w \in Worker, NEW p \in Player,
             DropRequest(w, p) \/ CreateRoom(w, p) \/ StartEnter(w, p)
      PROVE  TypeInv'
  BY <1>2, DropType, CreateType, StartEnterType
<1>3. ASSUME NEW w \in Worker, NEW p \in Player, StartChat(w, p) \/ StartList(w, p)
      PROVE  TypeInv'
  BY <1>3, StartType
<1>4. ASSUME NEW w \in Worker, Enter(w) \/ SendAck(w) PROVE TypeInv'
  BY <1>4, EnterType, SendAckType
<1>5. ASSUME NEW w \in Worker, Lock(w) \/ SendNext(w) \/ Unlock(w) PROVE TypeInv'
  BY <1>5, LockType, SendNextType, UnlockType
<1>6. ASSUME NEW w \in Worker, ReadRoom(w) \/ SendList(w) PROVE TypeInv'
  BY <1>6, ReadRoomType, SendListType
<1>7. CASE UNCHANGED vars
  <2>1. TypeOK' /\ Working'
    BY <1>7 DEF vars, TypeInv, TypeOK, Working, Chatting
  <2>2. RoomsKnown'
    BY <1>7 DEF vars, TypeInv, RoomsKnown, QueuedKnown, ToldKnown, EnteringKnown, SawAck, RoomIDAfter
  <2>3. QED
    BY <2>1, <2>2 DEF TypeInv
<1>8. QED
  BY <1>1, <1>2, <1>3, <1>4, <1>5, <1>6, <1>7 DEF Next, WorkerStep

LEMMA InitType == Init => TypeInv /\ OrderInv
<1> SUFFICES ASSUME Init PROVE TypeInv /\ OrderInv
  OBVIOUS
<1>1. Len(<<>>) = 0 /\ \A i \in 1 .. 0 : FALSE
  OBVIOUS
<1>2. /\ \A p \in Player : requests[p] = <<>> /\ out[p] = <<>>
      /\ \A w \in Worker : task[w] = Idle /\ task[w].pc = "idle"
  BY IdleTask DEF Init
<1>3. TypeOK
  <2>1. /\ requests \in [Player -> Seq(Request)] /\ asked \in [Player -> Number \cup {0}]
        /\ connected \in [Player -> BOOLEAN] /\ out \in [Player -> Seq(Message)]
    BY DEF Init
  <2>2. roomNumber \in 0 .. MaxRooms
    BY ConstantsOK DEF Init
  <2>3. directory \in [RoomID -> Room \cup {0}] /\ chatRoomID \in [Player -> RoomID]
    BY Numbers DEF Init
  <2>4. /\ members \in [Room -> Seq([key : RoomID, player : Player])]
        /\ holder \in [Room -> Worker \cup {NoPlayer}]
    BY DEF Init
  <2>5. task \in [Worker -> TaskType]
    BY IdleTask DEF Init
  <2>6. QED
    BY <2>1, <2>2, <2>3, <2>4, <2>5 DEF TypeOK, TaskType
<1>4. \A p \in Player : ~SawAck(p)
  BY <1>1, <1>2 DEF SawAck
<1>5. Working /\ RoomsKnown
  BY <1>1, <1>2, <1>4 DEF Working, Chatting, RoomsKnown, QueuedKnown, ToldKnown, EnteringKnown
<1>6. Broadcasting /\ NumbersInv
  BY <1>1, <1>2 DEF Broadcasting, NumbersInv, QueueAscends, SentFirst, OutBefore, Chatting
<1>7. Latest
  BY <1>2 DEF Latest
<1>8. SenderOrderKept /\ SameOrderForAll
  BY <1>1, <1>2 DEF SenderOrderKept, SameOrderForAll
<1>9. QED
  BY <1>3, <1>5, <1>6, <1>7, <1>8 DEF TypeInv, OrderInv

-----------------------------------------------------------------------------
(* Who hears a message *)

In(p, r) == \E i \in 1 .. Len(members[r]) : members[r][i].player = p

\* Who was, or is about to be, told it has entered a room is in it.
Told ==
  /\ \A p \in Player : \A i \in 1 .. Len(out[p]) :
       out[p][i].what = "entered" => In(p, out[p][i].room)
  /\ \A w \in Worker : task[w].pc = "ack" => In(task[w].player, task[w].room)

\* The entries a broadcast has passed have the message.
Heard ==
  \A w \in Worker :
    /\ task[w].pc = "chat" => task[w].sent = 0
    /\ task[w].pc = "send" =>
         \A i \in 1 .. task[w].sent : i \in 1 .. Len(members[task[w].room]) =>
           \E j \in 1 .. Len(out[members[task[w].room][i].player]) :
             out[members[task[w].room][i].player][j] = Sends(w)

\* Enter only adds to its room.
LEMMA EnterMembers ==
  ASSUME TypeInv, NEW w \in Worker, Enter(w)
  PROVE  /\ In(task[w].player, task[w].room)'
         /\ \A p \in Player, r \in Room : In(p, r) => In(p, r)'
         /\ \A r \in Room \ {task[w].room} : members'[r] = members[r]
<1> DEFINE p == task[w].player
           r == task[w].room
           e == [key |-> chatRoomID[p], player |-> p]
<1>1. /\ p \in Player /\ r \in Room /\ members \in [Room -> Seq(Entry)] /\ e \in Entry
  BY Tasks DEF Enter, TypeInv, TypeOK, Entry
<1>2. members' = [members EXCEPT ![r] = WithEntry(r, e)]
  BY DEF Enter
<1>3. members'[r] = WithEntry(r, e) /\ \A x \in Room \ {r} : members'[x] = members[x]
  BY <1>1, <1>2
<1>4. /\ \E i \in 1 .. Len(WithEntry(r, e)) : WithEntry(r, e)[i] = e
      /\ \A j \in 1 .. Len(members[r]) :
           \E i \in 1 .. Len(WithEntry(r, e)) : WithEntry(r, e)[i] = members[r][j]
  BY <1>1, EntryAdded
<1>5. In(p, r)'
  <2>1. PICK i \in 1 .. Len(members'[r]) : members'[r][i] = e
    BY <1>3, <1>4
  <2>2. members'[r][i].player = p
    BY <2>1
  <2>3. task[w].player' = task[w].player
    BY <1>1 DEF Enter, TypeInv, TypeOK
  <2>4. QED
    BY <2>1, <2>2, <2>3 DEF In, Enter, TypeInv, TypeOK
<1>6. ASSUME NEW q \in Player, NEW x \in Room, In(q, x) PROVE In(q, x)'
  <2>1. CASE x = r
    <3>1. PICK j \in 1 .. Len(members[r]) : members[r][j].player = q
      BY <1>6, <2>1 DEF In
    <3>2. PICK i \in 1 .. Len(members'[r]) : members'[r][i] = members[r][j]
      BY <1>3, <1>4, Zenon
    <3>3. QED
      BY <2>1, <3>1, <3>2, Zenon DEF In
  <2>2. CASE x # r
    BY <1>3, <1>6, <2>2 DEF In
  <2>3. QED
    BY <2>1, <2>2
<1>7. QED
  BY <1>3, <1>5, <1>6

\* Only three steps send, and only Enter changes a room.
LEMMA Untouched ==
  ASSUME [Next]_vars
  PROVE  /\ out' = out \/ \E w \in Worker : SendAck(w) \/ SendNext(w) \/ SendList(w)
         /\ members' = members \/ \E w \in Worker : Enter(w)
<1>1. ASSUME NEW p \in Player, ClientAsks(p) \/ Disconnect(p)
      PROVE  out' = out /\ members' = members
  BY <1>1 DEF ClientAsks, Disconnect
<1>2. ASSUME NEW w \in Worker, NEW p \in Player,
             \/ DropRequest(w, p) \/ CreateRoom(w, p) \/ StartEnter(w, p)
             \/ StartChat(w, p) \/ StartList(w, p)
      PROVE  out' = out /\ members' = members
  BY <1>2 DEF DropRequest, CreateRoom, StartEnter, StartChat, StartList
<1>3. ASSUME NEW w \in Worker, Lock(w) \/ Unlock(w) \/ ReadRoom(w)
      PROVE  out' = out /\ members' = members
  BY <1>3, Zenon DEF Lock, Unlock, ReadRoom
<1>4. ASSUME NEW w \in Worker, Enter(w) PROVE out' = out
  BY <1>4 DEF Enter
<1>5. ASSUME NEW w \in Worker, SendAck(w) \/ SendNext(w) \/ SendList(w)
      PROVE  members' = members
  BY <1>5, Zenon DEF SendAck, SendNext, SendList
<1>6. CASE UNCHANGED vars
  BY <1>6 DEF vars
<1>7. QED
  BY <1>1, <1>2, <1>3, <1>4, <1>5, <1>6 DEF Next, WorkerStep

\* What was sent stays.
LEMMA OutGrows ==
  ASSUME TypeInv, [Next]_vars
  PROVE  \A p \in Player : \A i \in 1 .. Len(out[p]) :
           i \in 1 .. Len(out'[p]) /\ out'[p][i] = out[p][i]
<1>1. CASE out' = out
  BY <1>1
<1>2. ASSUME NEW q \in Player, NEW m \in Message, out' = [out EXCEPT ![q] = Append(@, m)]
      PROVE  \A p \in Player : \A i \in 1 .. Len(out[p]) :
               i \in 1 .. Len(out'[p]) /\ out'[p][i] = out[p][i]
  <2>1. Len(out[q]) \in Nat /\ Len(out'[q]) = Len(out[q]) + 1
    BY <1>2, Sent DEF TypeInv
  <2>2. \A i \in 1 .. Len(out[q]) : i \in 1 .. Len(out'[q])
    BY <2>1
  <2>3. QED
    BY <1>2, <2>2, Sent DEF TypeInv
<1>3. ASSUME NEW w \in Worker, SendAck(w)
      PROVE  \E q \in Player, m \in Message : out' = [out EXCEPT ![q] = Append(@, m)]
  <2>1. task[w].player \in Player /\ task[w].room \in Room
    BY <1>3, Tasks DEF SendAck
  <2>2. Entered(task[w].room) \in Message
    BY <2>1 DEF Message
  <2>3. QED
    BY <1>3, <2>1, <2>2 DEF SendAck
<1>4. ASSUME NEW w \in Worker, SendList(w)
      PROVE  \E q \in Player, m \in Message : out' = [out EXCEPT ![q] = Append(@, m)]
  <2>1. task[w].player \in Player /\ task[w].info \in Info
    BY <1>4, Tasks DEF SendList, TaskType
  <2>2. Listed(task[w].info) \in Message
    BY <2>1 DEF Message
  <2>3. QED
    BY <1>4, <2>1, <2>2 DEF SendList
<1>5. ASSUME NEW w \in Worker, SendNext(w)
      PROVE  \E q \in Player, m \in Message : out' = [out EXCEPT ![q] = Append(@, m)]
  BY <1>5, NextSent
<1>6. QED
  BY <1>1, <1>2, <1>3, <1>4, <1>5, Untouched

LEMMA ToldStays ==
  ASSUME TypeInv, Told,
         \A p \in Player, r \in Room : In(p, r) => In(p, r)',
         \A p \in Player : \A i \in 1 .. Len(out'[p]) : out'[p][i].what = "entered" =>
           \E j \in 1 .. Len(out[p]) : out'[p][i] = out[p][j],
         \A w \in Worker : task'[w].pc = "ack" => task'[w] = task[w]
  PROVE  Told'
<1>1. ASSUME NEW p \in Player, NEW i \in 1 .. Len(out'[p]), out'[p][i].what = "entered"
      PROVE  \E k \in 1 .. Len(members'[out'[p][i].room]) :
               members'[out'[p][i].room][k].player = p
  <2>1. PICK j \in 1 .. Len(out[p]) : out'[p][i] = out[p][j]
    BY <1>1
  <2>2. out[p][j] \in Message
    BY ElementOfSeq DEF TypeInv, TypeOK
  <2>3. PICK r \in Room : out[p][j] = Entered(r)
    BY <1>1, <2>1, <2>2, Messages
  <2>4. out[p][j].room = r /\ out[p][j].what = "entered"
    BY <2>3, Kinds
  <2>5. In(p, r)'
    BY <2>4 DEF Told
  <2>6. QED
    BY <2>1, <2>4, <2>5 DEF In
<1>2. ASSUME NEW w \in Worker, task'[w].pc = "ack"
      PROVE  \E k \in 1 .. Len(members'[task'[w].room]) :
               members'[task'[w].room][k].player = task'[w].player
  <2>1. task'[w] = task[w] /\ task[w].player \in Player /\ task[w].room \in Room
    BY <1>2, Tasks
  <2> DEFINE p == task[w].player
             r == task[w].room
  <2>2. In(p, r)
    BY <1>2, <2>1 DEF Told
  <2>3. \E k \in 1 .. Len(members'[r]) : members'[r][k].player = p
    BY <2>1, <2>2 DEF In
  <2>4. QED
    BY <2>1, <2>3
<1>3. QED
  BY <1>1, <1>2 DEF Told, In

\* A step that sends no EnterChatRoomAck.
LEMMA NoTelling ==
  ASSUME TypeInv, [Next]_vars, ~ \E w \in Worker : SendAck(w)
  PROVE  \A p \in Player : \A i \in 1 .. Len(out'[p]) : out'[p][i].what = "entered" =>
           \E j \in 1 .. Len(out[p]) : out'[p][i] = out[p][j]
<1>1. CASE out' = out
  BY <1>1
<1>2. ASSUME NEW q \in Player, NEW m \in Message, m.what # "entered",
             out' = [out EXCEPT ![q] = Append(@, m)]
      PROVE  \A p \in Player : \A i \in 1 .. Len(out'[p]) : out'[p][i].what = "entered" =>
               \E j \in 1 .. Len(out[p]) : out'[p][i] = out[p][j]
  <2>1. Len(out[q]) \in Nat /\ Len(out'[q]) = Len(out[q]) + 1 /\ out'[q][Len(out[q]) + 1] = m
    BY <1>2, Sent DEF TypeInv
  <2>2. \A i \in 1 .. Len(out'[q]) : i = Len(out[q]) + 1 \/ i \in 1 .. Len(out[q])
    BY <2>1
  <2>3. \A i \in 1 .. Len(out'[q]) : out'[q][i].what = "entered" =>
          i \in 1 .. Len(out[q]) /\ out'[q][i] = out[q][i]
    BY <1>2, <2>1, <2>2, Sent DEF TypeInv
  <2>4. QED
    BY <1>2, <2>3, Sent DEF TypeInv
<1>3. ASSUME NEW w \in Worker, SendList(w)
      PROVE  \E q \in Player, m \in Message :
               m.what # "entered" /\ out' = [out EXCEPT ![q] = Append(@, m)]
  <2>1. task[w].player \in Player /\ task[w].info \in Info
    BY <1>3, Tasks DEF SendList, TaskType
  <2>2. Listed(task[w].info) \in Message /\ Listed(task[w].info).what # "entered"
    BY <2>1 DEF Message, Listed
  <2>3. QED
    BY <1>3, <2>1, <2>2 DEF SendList
<1>4. ASSUME NEW w \in Worker, SendNext(w)
      PROVE  \E q \in Player, m \in Message :
               m.what # "entered" /\ out' = [out EXCEPT ![q] = Append(@, m)]
  <2>1. Sends(w).what # "entered"
    BY Kinds DEF Sends
  <2>2. QED
    BY <1>4, <2>1, NextSent
<1>5. QED
  BY <1>1, <1>2, <1>3, <1>4, Untouched

\* Rooms only get more entries.
LEMMA MembersStay ==
  ASSUME TypeInv, [Next]_vars PROVE \A p \in Player, r \in Room : In(p, r) => In(p, r)'
<1>1. ASSUME NEW w \in Worker, Enter(w)
      PROVE  \A p \in Player, r \in Room : In(p, r) => In(p, r)'
  BY <1>1, EnterMembers
<1>2. CASE members' = members
  BY <1>2 DEF In
<1>3. QED
  BY <1>1, <1>2, Untouched

LEMMA StepTold == ASSUME TypeInv, Told, [Next]_vars PROVE Told'
<1>1. ASSUME NEW w \in Worker, Enter(w) PROVE Told'
  <2>1. out' = out /\ task'[w] = [task[w] EXCEPT !.pc = "ack"]
        /\ \A u \in Worker \ {w} : task'[u] = task[u]
    BY <1>1, Moved DEF Enter, WorkerStep
  <2>2. /\ \A p \in Player, r \in Room : In(p, r) => In(p, r)'
        /\ In(task[w].player, task[w].room)'
    BY <1>1, EnterMembers
  <2>3. ASSUME NEW p \in Player, NEW i \in 1 .. Len(out[p]), out[p][i].what = "entered"
        PROVE  In(p, out[p][i].room)'
    <3>1. out[p][i] \in Message
      BY ElementOfSeq DEF TypeInv, TypeOK
    <3>2. PICK r \in Room : out[p][i] = Entered(r)
      BY <2>3, <3>1, Messages
    <3>3. out[p][i].room = r
      BY <3>2, Kinds
    <3>4. In(p, r) /\ In(p, r)'
      BY <2>2, <2>3, <3>3 DEF Told
    <3>5. QED
      BY <2>1, <3>3, <3>4 DEF In
  <2>4. ASSUME NEW u \in Worker, task'[u].pc = "ack"
        PROVE  In(task[u].player, task[u].room)'
    <3>1. CASE u = w
      BY <2>2, <3>1
    <3>2. CASE u # w
      <4>1. task'[u] = task[u] /\ task[u].player \in Player /\ task[u].room \in Room
        BY <2>1, <2>4, <3>2, Tasks
      <4>2. In(task[u].player, task[u].room)
        BY <2>4, <4>1 DEF Told
      <4> DEFINE p == task[u].player
                 r == task[u].room
      <4>3. \E k \in 1 .. Len(members'[r]) : members'[r][k].player = p
        BY <2>2, <4>1, <4>2 DEF In
      <4>4. QED
        BY <4>1, <4>3 DEF In
    <3>3. QED
      BY <3>1, <3>2
  <2>5. QED
    BY <2>1, <2>3, <2>4 DEF Told
<1>2. ASSUME NEW w \in Worker, SendAck(w) PROVE Told'
  <2> DEFINE p == task[w].player
             r == task[w].room
  <2>1. /\ p \in Player /\ r \in Room /\ task[w].pc = "ack" /\ members' = members
        /\ out' = [out EXCEPT ![p] = Append(@, Entered(r))]
    BY <1>2, Tasks DEF SendAck
  <2>2. Entered(r) \in Message /\ Entered(r).room = r /\ In(p, r)
    BY <2>1, Kinds DEF Told, Message
  <2> HIDE DEF p, r
  <2>3. /\ Len(out[p]) \in Nat /\ Len(out'[p]) = Len(out[p]) + 1
        /\ \A i \in 1 .. Len(out[p]) : out'[p][i] = out[p][i]
        /\ out'[p][Len(out[p]) + 1] = Entered(r)
        /\ \A s \in Player \ {p} : out'[s] = out[s]
    BY <2>1, <2>2, Sent DEF TypeInv
  <2>4. ASSUME NEW s \in Player, NEW i \in 1 .. Len(out'[s]), out'[s][i].what = "entered"
        PROVE  In(s, out'[s][i].room)
    <3>1. CASE i \in 1 .. Len(out[s]) /\ out'[s][i] = out[s][i]
      BY <2>4, <3>1 DEF Told
    <3>2. CASE s = p /\ out'[s][i] = Entered(r)
      BY <2>2, <3>2
    <3>3. QED
      BY <2>3, <3>1, <3>2
  <2>5. \A u \in Worker : task'[u].pc = "ack" => task'[u] = task[u]
    BY <1>2, Moved DEF WorkerStep
  <2>6. ASSUME NEW u \in Worker, task'[u].pc = "ack"
        PROVE  \E k \in 1 .. Len(members'[task'[u].room]) :
                 members'[task'[u].room][k].player = task'[u].player
    <3>1. task'[u] = task[u]
      BY <2>5, <2>6
    <3>2. In(task[u].player, task[u].room)
      BY <2>6, <3>1 DEF Told
    <3>3. QED
      BY <2>1, <3>1, <3>2 DEF In
  <2>7. ASSUME NEW s \in Player, NEW i \in 1 .. Len(out'[s]), out'[s][i].what = "entered"
        PROVE  \E k \in 1 .. Len(members'[out'[s][i].room]) :
                 members'[out'[s][i].room][k].player = s
    <3>1. In(s, out'[s][i].room)
      BY <2>4, <2>7, Zenon
    <3>2. members' = members
      BY <2>1, Zenon
    <3>3. QED
      BY <3>1, <3>2, Zenon DEF In
  <2>8. QED
    BY <2>6, <2>7 DEF Told, In
<1>3. ASSUME NEW w \in Worker, WorkerStep(w), ~Enter(w), ~SendAck(w)
      PROVE  \A u \in Worker : task'[u].pc = "ack" => task'[u] = task[u]
  BY <1>3, Moved DEF WorkerStep
<1>4. CASE \A w \in Worker : ~Enter(w) /\ ~SendAck(w)
  <2>1. \A u \in Worker : task'[u].pc = "ack" => task'[u] = task[u]
    BY <1>3, <1>4 DEF Next, vars, ClientAsks, Disconnect
  <2>2. QED
    BY <1>4, <2>1, NoTelling, MembersStay, ToldStays
<1>5. QED
  BY <1>1, <1>2, <1>4

\* Nobody enters a room while a broadcast holds its mutex.
LEMMA HeldRoom ==
  ASSUME TypeInv, Broadcasting, [Next]_vars, NEW u \in Worker, task[u].pc = "send"
  PROVE  members'[task[u].room] = members[task[u].room]
<1>1. task[u].room \in Room /\ holder[task[u].room] = u /\ u # NoPlayer
  BY Tasks, ConstantsOK DEF Broadcasting
<1>2. ASSUME NEW w \in Worker, Enter(w)
      PROVE  members'[task[u].room] = members[task[u].room]
  <2>1. holder[task[w].room] = NoPlayer
    BY <1>2 DEF Enter, Free
  <2>2. task[w].room # task[u].room
    BY <1>1, <2>1
  <2>3. QED
    BY <1>1, <1>2, <2>2, EnterMembers
<1>3. QED
  BY <1>2, Untouched

\* Who has the message keeps it.
LEMMA HeardStays ==
  ASSUME TypeInv, Broadcasting, Heard, [Next]_vars, NEW u \in Worker, task[u].pc = "send",
         NEW i \in 1 .. task[u].sent, i \in 1 .. Len(members[task[u].room])
  PROVE  \E j \in 1 .. Len(out'[members'[task[u].room][i].player]) :
           out'[members'[task[u].room][i].player][j] = Sends(u)
<1> DEFINE r == task[u].room
           p == members[r][i].player
<1>1. members'[r] = members[r]
  BY HeldRoom
<1>2. p \in Player
  <2>1. r \in Room /\ members[r] \in Seq(Entry)
    BY Tasks DEF TypeInv, TypeOK, Entry
  <2>2. members[r][i] \in Entry
    BY <2>1, ElementOfSeq
  <2>3. QED
    BY <2>2 DEF Entry
<1>3. PICK j \in 1 .. Len(out[p]) : out[p][j] = Sends(u)
  BY DEF Heard
<1> HIDE DEF p
<1>4. j \in 1 .. Len(out'[p]) /\ out'[p][j] = Sends(u)
  BY <1>2, <1>3, OutGrows
<1>5. QED
  BY <1>1, <1>4 DEF p

LEMMA StepHeard == ASSUME TypeInv, Broadcasting, Heard, [Next]_vars PROVE Heard'
<1> SUFFICES ASSUME NEW u \in Worker
             PROVE  /\ task'[u].pc = "chat" => task'[u].sent = 0
                    /\ task'[u].pc = "send" =>
                         \A i \in 1 .. task'[u].sent : i \in 1 .. Len(members'[task'[u].room]) =>
                           \E j \in 1 .. Len(out'[members'[task'[u].room][i].player]) :
                             out'[members'[task'[u].room][i].player][j]
                               = Chat(task'[u].room, task'[u].player, task'[u].n)
  BY DEF Heard, Sends
<1>1. CASE task'[u] = task[u]
  <2>1. task[u].pc = "chat" => task[u].sent = 0
    BY DEF Heard
  <2>2. ASSUME task[u].pc = "send", NEW i \in 1 .. task[u].sent,
               i \in 1 .. Len(members'[task[u].room])
        PROVE  \E j \in 1 .. Len(out'[members'[task[u].room][i].player]) :
                 out'[members'[task[u].room][i].player][j] = Sends(u)
    <3>1. members'[task[u].room] = members[task[u].room]
      BY <2>2, HeldRoom, Zenon
    <3>2. QED
      BY <2>2, <3>1, HeardStays
  <2>3. QED
    BY <1>1, <2>1, <2>2 DEF Sends
<1>2. CASE task'[u] # task[u]
  <2>1. WorkerStep(u)
    <3>1. ASSUME NEW w \in Worker, WorkerStep(w) PROVE w = u
      BY <1>2, <3>1, Moved
    <3>2. ~ \E p \in Player : ClientAsks(p) \/ Disconnect(p)
      BY <1>2 DEF ClientAsks, Disconnect
    <3>3. ~UNCHANGED vars
      BY <1>2 DEF vars
    <3>4. QED
      BY <3>1, <3>2, <3>3 DEF Next
  <2>2. CASE task'[u].pc \notin {"chat", "send"}
    BY <2>2
  <2>3. CASE \E p \in Player : StartChat(u, p)
    BY <2>1, <2>3, Moved
  <2>4. CASE Lock(u)
    <3>1. task[u] \in TaskType /\ task[u].sent = 0 /\ task'[u] = [task[u] EXCEPT !.pc = "send"]
      <4>1. task[u] \in TaskType /\ task[u].sent = 0
        BY <2>4, Tasks DEF Lock, Heard
      <4>2. QED
        BY <2>1, <2>4, <4>1, Moved
    <3>2. task'[u].sent = 0 /\ task'[u].pc = "send"
      BY <3>1 DEF TaskType
    <3>3. QED
      BY <3>2
  <2>5. CASE SendNext(u)
    <3> DEFINE t == task[u]
               r == t.room
    <3>1. /\ t \in TaskType /\ t.pc = "send" /\ t.sent \in Nat
          /\ task'[u] = [t EXCEPT !.sent = t.sent + 1]
      <4>1. t \in TaskType /\ t.pc = "send"
        BY <2>5, Tasks DEF SendNext
      <4>2. t.sent \in Nat
        BY <2>5, NextSent
      <4>3. task'[u] = [t EXCEPT !.sent = t.sent + 1]
        BY <2>1, <2>5, Moved, Zenon
      <4>4. QED
        BY <4>1, <4>2, <4>3, ZenonT(60)
    <3>2. /\ task'[u].sent = t.sent + 1 /\ task'[u].room = r /\ task'[u].player = t.player
          /\ task'[u].n = t.n /\ task'[u].pc = "send"
      BY <3>1 DEF TaskType
    <3>3. members'[r] = members[r]
      BY <3>1, HeldRoom
    <3>4. \E j \in 1 .. Len(out'[Receiver(u)]) : out'[Receiver(u)][j] = Sends(u)
      <4>1. /\ Receiver(u) \in Player /\ Sends(u) \in Message
            /\ out' = [out EXCEPT ![Receiver(u)] = Append(@, Sends(u))]
        BY <2>5, NextSent
      <4>2. /\ Len(out[Receiver(u)]) \in Nat
            /\ Len(out'[Receiver(u)]) = Len(out[Receiver(u)]) + 1
            /\ out'[Receiver(u)][Len(out[Receiver(u)]) + 1] = Sends(u)
        BY <4>1, Sent DEF TypeInv
      <4>3. QED
        BY <4>2
    <3>5. ASSUME NEW i \in 1 .. t.sent + 1, i \in 1 .. Len(members[r])
          PROVE  \E j \in 1 .. Len(out'[members'[r][i].player]) :
                   out'[members'[r][i].player][j] = Sends(u)
      <4>1. CASE i \in 1 .. t.sent
        BY <3>1, <3>5, <4>1, HeardStays, ZenonT(60)
      <4>2. CASE i = t.sent + 1
        BY <3>3, <3>4, <4>2 DEF Receiver
      <4>3. i \in 1 .. t.sent \/ i = t.sent + 1
        BY <3>1
      <4>4. QED
        BY <4>1, <4>2, <4>3
    <3>6. Sends(u) = Chat(task'[u].room, task'[u].player, task'[u].n)
      BY <3>2 DEF Sends
    <3> HIDE DEF t, r
    <3>7. QED
      BY <3>2, <3>3, <3>5, <3>6
  <2>6. QED
    BY <1>2, <2>1, <2>2, <2>3, <2>4, <2>5, Moved DEF WorkerStep
<1>3. QED
  BY <1>1, <1>2

\* Who was told and is in the room is among the entries when all have it.
LEMMA AllHear ==
  ASSUME TypeInv, Told, Heard, NEW w \in Worker, Unlock(w), NEW p \in Player,
         NEW i \in 1 .. Len(out[p]), out[p][i] = Entered(task[w].room)
  PROVE  \E j \in 1 .. Len(out[p]) :
           out[p][j] = Chat(task[w].room, task[w].player, task[w].n)
<1> DEFINE r == task[w].room
<1>1. task[w].pc = "send" /\ task[w].sent = Len(members[r])
  BY DEF Unlock
<1>2. In(p, r)
  BY Kinds DEF Told
<1>3. PICK k \in 1 .. Len(members[r]) : members[r][k].player = p
  BY <1>2 DEF In
<1>4. k \in 1 .. task[w].sent
  BY <1>1
<1>5. \E j \in 1 .. Len(out[members[r][k].player]) : out[members[r][k].player][j] = Sends(w)
  BY <1>1, <1>4 DEF Heard
<1>6. QED
  BY <1>3, <1>5 DEF Sends

-----------------------------------------------------------------------------
(* Where players are, as long as room IDs have not wrapped *)

\* The directory has each room under its own number.
OwnIDs == \A i \in RoomID : directory[i] \in {0, i}

\* m_ChatRoomID is the room a handler enters, or has entered.
EnterHome ==
  \A w \in Worker :
    task[w].pc \in {"enter", "ack"} => task[w].room = chatRoomID[task[w].player]

\* Who was told it has entered is in the room of its m_ChatRoomID, or about to.
AtHome ==
  \A p \in Player : SawAck(p) =>
    \/ In(p, chatRoomID[p])
    \/ \E w \in Worker : task[w].pc = "enter" /\ task[w].player = p

HomeInv == OwnIDs /\ EnterHome /\ AtHome /\ SenderIsMember

LEMMA NoWrap == ASSUME MaxRooms < RoomMod PROVE \A n \in Room : IdOf(n) = n
BY ConstantsOK DEF Room, IdOf

\* The room a player who was told so is in.
LEMMA HomeRoom ==
  ASSUME TypeInv, OwnIDs, NEW p \in Player, SawAck(p)
  PROVE  chatRoomID[p] \in Room /\ directory[chatRoomID[p]] = chatRoomID[p]
<1>1. directory[chatRoomID[p]] # 0
  BY DEF TypeInv, RoomsKnown, ToldKnown
<1>2. chatRoomID[p] \in RoomID /\ directory[chatRoomID[p]] \in Room \cup {0}
  BY DEF TypeInv, TypeOK
<1>3. QED
  BY <1>1, <1>2 DEF OwnIDs

\* What StartEnter and Enter do to the player's m_ChatRoomID.
LEMMA StartsEntering ==
  ASSUME TypeInv, OwnIDs, NEW w \in Worker, NEW p \in Player, StartEnter(w, p)
  PROVE  /\ task'[w].pc = "enter" /\ task'[w].player = p /\ task'[w].room = chatRoomID'[p]
         /\ Owner[p] = w /\ \A q \in Player \ {p} : chatRoomID'[q] = chatRoomID[q]
<1> DEFINE id == Head(requests[p]).id
           v  == [Idle EXCEPT !.pc = "enter", !.player = p, !.room = directory[id]]
<1>1. /\ requests[p] # <<>> /\ Head(requests[p]).do = "enter" /\ Owner[p] = w
      /\ requests' = [requests EXCEPT ![p] = Tail(@)]
  BY DEF StartEnter, Takes, Runs
<1>2. /\ Head(requests[p]) \in Request /\ Head(requests[p]) = requests[p][1]
      /\ 1 \in 1 .. Len(requests[p])
  <2>1. /\ Head(requests[p]) \in Request /\ Head(requests[p]) = requests[p][1]
        /\ Len(requests[p]) \in Nat \ {0}
    BY <1>1, Taken DEF TypeInv
  <2>2. QED
    BY <2>1
<1>3. id \in RoomID /\ directory[id] # 0
  BY <1>1, <1>2, Requests DEF TypeInv, RoomsKnown, QueuedKnown
<1>4. directory[id] = id
  BY <1>3 DEF OwnIDs
<1>5. v.pc = "enter" /\ v.player = p /\ v.room = directory[id]
  BY DEF Idle
<1>6. task' = [task EXCEPT ![w] = v] /\ chatRoomID' = [chatRoomID EXCEPT ![p] = id]
  BY DEF StartEnter
<1> HIDE DEF v, id
<1>7. task'[w] = v
  BY <1>6, TaskNow
<1>8. chatRoomID'[p] = id /\ \A q \in Player \ {p} : chatRoomID'[q] = chatRoomID[q]
  BY <1>6 DEF TypeInv, TypeOK
<1>9. QED
  BY <1>1, <1>4, <1>5, <1>7, <1>8

LEMMA Enters ==
  ASSUME MaxRooms < RoomMod, TypeInv, EnterHome, NEW w \in Worker, Enter(w)
  PROVE  /\ task'[w].room = task[w].room /\ task'[w].player = task[w].player
         /\ chatRoomID'[task[w].player] = task[w].room
         /\ \A q \in Player \ {task[w].player} : chatRoomID'[q] = chatRoomID[q]
<1> DEFINE p == task[w].player
           r == task[w].room
<1>1. /\ p \in Player /\ r \in Room /\ task[w] \in TaskType
      /\ task[w].pc \in {"create", "enter"}
  BY Tasks DEF Enter
<1>2. task'[w] = [task[w] EXCEPT !.pc = "ack"]
  BY Moved, Zenon DEF WorkerStep
<1>3. task'[w].room = r /\ task'[w].player = p
  BY <1>1, <1>2 DEF TaskType
<1>4. RoomIDAfter(w) = r
  BY <1>1, NoWrap DEF RoomIDAfter, EnterHome
<1>5. chatRoomID' = [chatRoomID EXCEPT ![p] = r]
  BY <1>4 DEF Enter
<1>6. QED
  BY <1>1, <1>3, <1>5 DEF TypeInv, TypeOK

\* Nothing else changes it.
LEMMA RoomIDStays ==
  ASSUME NEW w \in Worker, WorkerStep(w), chatRoomID' # chatRoomID
  PROVE  Enter(w) \/ \E p \in Player : StartEnter(w, p)
<1>1. \A p \in Player :
        ~DropRequest(w, p) /\ ~CreateRoom(w, p) /\ ~StartChat(w, p) /\ ~StartList(w, p)
  BY DEF DropRequest, CreateRoom, StartChat, StartList
<1>2. ~SendAck(w) /\ ~SendNext(w) /\ ~SendList(w)
  BY Zenon DEF SendAck, SendNext, SendList
<1>3. ~Lock(w) /\ ~Unlock(w) /\ ~ReadRoom(w)
  BY Zenon DEF Lock, Unlock, ReadRoom
<1>4. QED
  BY <1>1, <1>2, <1>3 DEF WorkerStep

\* A worker's step leaves the players of other workers where they are.
LEMMA OthersStay ==
  ASSUME MaxRooms < RoomMod, TypeInv, OwnIDs, EnterHome, NEW w \in Worker, WorkerStep(w),
         NEW q \in Player, Owner[q] # w
  PROVE  chatRoomID'[q] = chatRoomID[q]
<1>1. ASSUME Enter(w) PROVE chatRoomID'[q] = chatRoomID[q]
  <2>1. Owner[task[w].player] = w
    BY <1>1, Tasks DEF Enter
  <2>2. QED
    BY <1>1, <2>1, Enters
<1>2. ASSUME NEW p \in Player, StartEnter(w, p) PROVE chatRoomID'[q] = chatRoomID[q]
  BY <1>2, StartsEntering
<1>3. QED
  BY <1>1, <1>2, RoomIDStays

\* What is new among the messages is what was sent.
LEMMA ToldNow ==
  ASSUME TypeInv, [Next]_vars, NEW p \in Player, SawAck(p)', ~SawAck(p)
  PROVE  \E w \in Worker : SendAck(w) /\ task[w].player = p
<1>1. PICK i \in 1 .. Len(out'[p]) : out'[p][i].what = "entered"
  BY DEF SawAck
<1>2. ~ \E j \in 1 .. Len(out[p]) : out'[p][i] = out[p][j]
  BY <1>1 DEF SawAck
<1>3. PICK w \in Worker : SendAck(w)
  BY <1>1, <1>2, NoTelling
<1>4. CASE task[w].player # p
  <2>1. out' = [out EXCEPT ![task[w].player] = Append(@, Entered(task[w].room))]
    BY <1>3 DEF SendAck
  <2>2. out'[p] = out[p]
    BY <1>4, <2>1 DEF TypeInv, TypeOK
  <2>3. QED
    BY <1>1, <1>2, <2>2
<1>5. QED
  BY <1>3, <1>4

\* Only CreateRoom changes the directory.
LEMMA DirectoryStays ==
  ASSUME [Next]_vars
  PROVE  directory' = directory \/ \E w \in Worker, p \in Player : CreateRoom(w, p)
<1>1. ASSUME NEW p \in Player, ClientAsks(p) \/ Disconnect(p) PROVE directory' = directory
  BY <1>1 DEF ClientAsks, Disconnect
<1>2. ASSUME NEW w \in Worker, NEW p \in Player,
             DropRequest(w, p) \/ StartEnter(w, p) \/ StartChat(w, p) \/ StartList(w, p)
      PROVE  directory' = directory
  BY <1>2, Zenon DEF DropRequest, StartEnter, StartChat, StartList
<1>3. ASSUME NEW w \in Worker, Enter(w) \/ SendAck(w) \/ SendNext(w) \/ SendList(w)
      PROVE  directory' = directory
  BY <1>3, Zenon DEF Enter, SendAck, SendNext, SendList
<1>4. ASSUME NEW w \in Worker, Lock(w) \/ Unlock(w) \/ ReadRoom(w) PROVE directory' = directory
  BY <1>4, Zenon DEF Lock, Unlock, ReadRoom
<1>5. QED
  BY <1>1, <1>2, <1>3, <1>4 DEF Next, WorkerStep, vars

\* Where CreateRoom puts the room, as long as IDs have not wrapped.
LEMMA Created ==
  ASSUME MaxRooms < RoomMod, TypeInv, NEW w \in Worker, NEW p \in Player, CreateRoom(w, p)
  PROVE  /\ roomNumber' \in Room /\ IdOf(roomNumber') = roomNumber'
         /\ directory' = [directory EXCEPT ![roomNumber'] = roomNumber']
<1>1. /\ roomNumber' = roomNumber + 1 /\ roomNumber < MaxRooms
      /\ directory' = [directory EXCEPT ![IdOf(roomNumber')] = roomNumber']
  BY DEF CreateRoom
<1>2. roomNumber \in 0 .. MaxRooms /\ MaxRooms \in Nat
  BY ConstantsOK DEF TypeInv, TypeOK
<1>3. roomNumber' \in Room
  BY <1>1, <1>2 DEF Room
<1>4. IdOf(roomNumber') = roomNumber'
  BY <1>3, NoWrap
<1>5. QED
  BY <1>1, <1>3, <1>4

LEMMA StepOwnIDs ==
  ASSUME MaxRooms < RoomMod, TypeInv, OwnIDs, [Next]_vars
  PROVE  OwnIDs'
<1>1. CASE directory' = directory
  BY <1>1 DEF OwnIDs
<1>2. ASSUME NEW w \in Worker, NEW p \in Player, CreateRoom(w, p)
      PROVE  OwnIDs'
  BY <1>2, Created, ZenonT(60) DEF OwnIDs, TypeInv, TypeOK
<1>3. QED
  BY <1>1, <1>2, DirectoryStays

LEMMA StepEnterHome ==
  ASSUME MaxRooms < RoomMod, TypeInv, OwnIDs, EnterHome, NEW w \in Worker, WorkerStep(w)
  PROVE  EnterHome'
<1> SUFFICES ASSUME NEW u \in Worker, task'[u].pc \in {"enter", "ack"}
             PROVE  task'[u].room = chatRoomID'[task'[u].player]
  BY DEF EnterHome
<1>1. CASE u # w
  <2>1. task'[u] = task[u] /\ Owner[task[u].player] = u /\ task[u].player \in Player
    <3>1. task'[u] = task[u]
      BY <1>1, Moved
    <3>2. QED
      BY <3>1, Tasks
  <2>2. chatRoomID'[task[u].player] = chatRoomID[task[u].player]
    BY <1>1, <2>1, OthersStay
  <2>3. QED
    BY <2>1, <2>2 DEF EnterHome
<1>2. CASE u = w
  <2>1. CASE \E p \in Player : StartEnter(w, p)
    BY <1>2, <2>1, StartsEntering
  <2>2. CASE Enter(w)
    BY <1>2, <2>2, Enters
  <2>3. CASE \E p \in Player : DropRequest(w, p)
    <3>1. task'[w] = Idle
      BY <2>3 DEF DropRequest
    <3>2. QED
      BY <1>2, <3>1, IdleTask
  <2>4. CASE \E p \in Player : CreateRoom(w, p) \/ StartChat(w, p) \/ StartList(w, p)
    BY <1>2, <2>4, Moved
  <2>5. CASE SendAck(w) \/ Unlock(w) \/ SendList(w) \/ Lock(w) \/ SendNext(w) \/ ReadRoom(w)
    BY <1>2, <2>5, Moved
  <2>6. QED
    BY <2>1, <2>2, <2>3, <2>4, <2>5 DEF WorkerStep
<1>3. QED
  BY <1>1, <1>2

\* A worker in Enter does nothing else.
LEMMA Entering ==
  ASSUME NEW w \in Worker, WorkerStep(w), task[w].pc = "enter"
  PROVE  Enter(w)
<1>1. task[w] # Idle
  BY IdleTask
<1>2. \A p \in Player : /\ ~DropRequest(w, p) /\ ~CreateRoom(w, p) /\ ~StartEnter(w, p)
                        /\ ~StartChat(w, p) /\ ~StartList(w, p)
  BY <1>1 DEF DropRequest, CreateRoom, StartEnter, StartChat, StartList, Takes
<1>3. /\ ~SendAck(w) /\ ~SendNext(w) /\ ~SendList(w)
      /\ ~Lock(w) /\ ~Unlock(w) /\ ~ReadRoom(w)
  BY DEF SendAck, SendNext, SendList, Lock, Unlock, ReadRoom
<1>4. QED
  BY <1>2, <1>3 DEF WorkerStep

LEMMA StepAtHome ==
  ASSUME MaxRooms < RoomMod, TypeInv, Told, OwnIDs, EnterHome, AtHome,
         NEW w \in Worker, WorkerStep(w)
  PROVE  AtHome'
<1> SUFFICES ASSUME NEW p \in Player, SawAck(p)'
             PROVE  \/ \E i \in 1 .. Len(members'[chatRoomID'[p]]) :
                         members'[chatRoomID'[p]][i].player = p
                    \/ \E u \in Worker : task'[u].pc = "enter" /\ task'[u].player = p
  BY DEF AtHome, In
<1>0. [Next]_vars
  BY DEF Next
<1>1. ASSUME NEW r \in Room, In(p, r), chatRoomID'[p] = r
      PROVE  \E i \in 1 .. Len(members'[chatRoomID'[p]]) :
               members'[chatRoomID'[p]][i].player = p
  BY <1>0, <1>1, MembersStay DEF In
<1>2. CASE ~SawAck(p)
  <2>1. PICK u \in Worker : SendAck(u) /\ task[u].player = p
    BY <1>0, <1>2, ToldNow
  <2>2. chatRoomID' = chatRoomID /\ task[u].pc = "ack" /\ task[u].room \in Room
    BY <2>1, Tasks DEF SendAck
  <2>3. chatRoomID'[p] = task[u].room /\ In(p, task[u].room)
    BY <2>1, <2>2 DEF EnterHome, Told
  <2>4. QED
    BY <1>1, <2>2, <2>3
<1>3. ASSUME Enter(w), task[w].player = p
      PROVE  \E i \in 1 .. Len(members'[chatRoomID'[p]]) :
               members'[chatRoomID'[p]][i].player = p
  <2> DEFINE r == task[w].room
  <2>1. chatRoomID'[p] = r /\ task'[w].room = r /\ task'[w].player = p
    BY <1>3, Enters
  <2>2. In(task[w].player, task[w].room)'
    BY <1>3, EnterMembers
  <2>3. QED
    BY <2>1, <2>2 DEF In
<1>4. CASE SawAck(p) /\ In(p, chatRoomID[p])
  <2>1. chatRoomID[p] \in Room
    BY <1>4, HomeRoom
  <2>2. CASE chatRoomID'[p] = chatRoomID[p]
    BY <1>1, <1>4, <2>1, <2>2
  <2>3. CASE Enter(w) /\ chatRoomID'[p] # chatRoomID[p]
    BY <1>3, <2>3, Enters
  <2>4. ASSUME NEW q \in Player, StartEnter(w, q), chatRoomID'[p] # chatRoomID[p]
        PROVE  task'[w].pc = "enter" /\ task'[w].player = p
    BY <2>4, StartsEntering
  <2>5. QED
    BY <2>2, <2>3, <2>4, RoomIDStays
<1>5. ASSUME NEW u \in Worker, task[u].pc = "enter", task[u].player = p
      PROVE  \/ \E i \in 1 .. Len(members'[chatRoomID'[p]]) :
                  members'[chatRoomID'[p]][i].player = p
             \/ task'[u].pc = "enter" /\ task'[u].player = p
  <2>1. CASE u = w
    BY <1>3, <1>5, <2>1, Entering
  <2>2. CASE u # w
    BY <1>5, <2>2, Moved
  <2>3. QED
    BY <2>1, <2>2
<1>6. QED
  BY <1>2, <1>4, <1>5 DEF AtHome

LEMMA StepMember ==
  ASSUME TypeInv, OwnIDs, AtHome, SenderIsMember, NEW w \in Worker, WorkerStep(w)
  PROVE  SenderIsMember'
<1> SUFFICES ASSUME NEW u \in Worker, task'[u].pc \in {"chat", "send"}
             PROVE  /\ task'[u].room # 0
                    /\ \E i \in 1 .. Len(members'[task'[u].room]) :
                         members'[task'[u].room][i].player = task'[u].player
  BY DEF SenderIsMember
<1>0. [Next]_vars
  BY DEF Next
<1>1. ASSUME NEW p \in Player, NEW r \in Room, In(p, r), task'[u].player = p, task'[u].room = r
      PROVE  /\ task'[u].room # 0
             /\ \E i \in 1 .. Len(members'[task'[u].room]) :
                  members'[task'[u].room][i].player = task'[u].player
  BY <1>0, <1>1, MembersStay DEF In, Room
<1>2. CASE /\ task'[u].room = task[u].room /\ task'[u].player = task[u].player
           /\ task[u].pc \in {"chat", "send"}
  <2>1. task[u].room \in Room /\ task[u].player \in Player
    BY <1>2, Tasks
  <2>2. In(task[u].player, task[u].room)
    BY <1>2 DEF SenderIsMember, In
  <2>3. QED
    BY <1>1, <1>2, <2>1, <2>2
<1>3. ASSUME NEW p \in Player, StartChat(w, p), u = w
      PROVE  \E r \in Room : In(p, r) /\ task'[u].player = p /\ task'[u].room = r
  <2>1. /\ requests[p] # <<>> /\ Head(requests[p]).do = "chat" /\ Owner[p] = w
        /\ task[w] = Idle /\ requests' = [requests EXCEPT ![p] = Tail(@)]
    BY <1>3 DEF StartChat, Takes, Runs
  <2>2. /\ Head(requests[p]) = requests[p][1] /\ Len(requests[p]) \in Nat \ {0}
    BY <2>1, Taken DEF TypeInv
  <2>3. SawAck(p)
    BY <2>1, <2>2 DEF TypeInv, RoomsKnown, QueuedKnown
  <2>4. chatRoomID[p] \in Room /\ directory[chatRoomID[p]] = chatRoomID[p]
    BY <2>3, HomeRoom
  <2>5. ~ \E x \in Worker : task[x].pc = "enter" /\ task[x].player = p
    <3>1. ASSUME NEW x \in Worker, task[x].pc = "enter", task[x].player = p PROVE x = w
      BY <2>1, <3>1, Tasks
    <3>2. QED
      BY <2>1, <3>1, IdleTask
  <2>6. In(p, chatRoomID[p])
    BY <2>3, <2>5 DEF AtHome
  <2> DEFINE v == [Idle EXCEPT !.pc = "chat", !.player = p, !.room = directory[chatRoomID[p]],
                               !.n = Head(requests[p]).n]
  <2>7. v.player = p /\ v.room = directory[chatRoomID[p]]
    BY DEF Idle
  <2>8. task' = [task EXCEPT ![w] = v]
    BY <1>3 DEF StartChat
  <2> HIDE DEF v
  <2>9. task'[w] = v
    BY <2>8, TaskNow
  <2>10. QED
    BY <1>3, <2>4, <2>6, <2>7, <2>9
<1>4. ASSUME u # w \/ Unchatting(w) PROVE task'[u] = task[u]
  BY <1>4, Moved, OtherChats
<1>5. CASE Lock(w) /\ u = w
  <2>1. task'[u] = [task[u] EXCEPT !.pc = "send"]
    BY <1>5, Moved, Zenon
  <2>2. task[u] \in TaskType /\ task[u].pc = "chat"
    BY <1>5, Tasks DEF Lock
  <2>3. task'[u].room = task[u].room /\ task'[u].player = task[u].player
    BY <2>1, <2>2 DEF TaskType
  <2>4. QED
    BY <1>2, <2>2, <2>3
<1>6. CASE SendNext(w) /\ u = w
  <2>1. task'[u] = [task[u] EXCEPT !.sent = task[u].sent + 1]
    BY <1>6, Moved, ZenonT(60)
  <2>2. task[u] \in TaskType /\ task[u].pc = "send"
    BY <1>6, Tasks DEF SendNext
  <2>3. task'[u].room = task[u].room /\ task'[u].player = task[u].player
    BY <2>1, <2>2 DEF TaskType
  <2>4. QED
    BY <1>2, <2>2, <2>3
<1>7. CASE Unlock(w) /\ u = w
  BY <1>7, Moved
<1>8. QED
  BY <1>1, <1>2, <1>3, <1>4, <1>5, <1>6, <1>7 DEF WorkerStep, Unchatting

LEMMA StepHome ==
  ASSUME MaxRooms < RoomMod, TypeInv, Told, HomeInv, [Next]_vars
  PROVE  HomeInv'
<1>1. OwnIDs'
  BY StepOwnIDs DEF HomeInv
<1>2. ASSUME NEW w \in Worker, WorkerStep(w) PROVE EnterHome' /\ AtHome' /\ SenderIsMember'
  BY <1>2, StepEnterHome, StepAtHome, StepMember DEF HomeInv
<1>3. CASE /\ chatRoomID' = chatRoomID /\ task' = task /\ out' = out
           /\ members' = members /\ directory' = directory
  <2>1. EnterHome' /\ SenderIsMember'
    BY <1>3 DEF HomeInv, EnterHome, SenderIsMember
  <2>2. \A p \in Player : (SawAck(p)' <=> SawAck(p)) /\ (In(p, chatRoomID[p])' <=> In(p, chatRoomID[p]))
    BY <1>3 DEF SawAck, In
  <2>3. AtHome'
    BY <1>3, <2>2 DEF HomeInv, AtHome
  <2>4. QED
    BY <1>1, <2>1, <2>3 DEF HomeInv
<1>4. ASSUME NEW p \in Player, ClientAsks(p) \/ Disconnect(p)
      PROVE  /\ chatRoomID' = chatRoomID /\ task' = task /\ out' = out
             /\ members' = members /\ directory' = directory
  BY <1>4 DEF ClientAsks, Disconnect
<1>5. QED
  BY <1>1, <1>2, <1>3, <1>4 DEF Next, vars, HomeInv

LEMMA InitHome == Init => HomeInv
<1> SUFFICES ASSUME Init PROVE HomeInv
  OBVIOUS
<1>1. \A w \in Worker : task[w].pc = "idle"
  BY IdleTask DEF Init
<1>2. \A p \in Player : Len(out[p]) = 0
  BY DEF Init
<1>3. OwnIDs
  BY DEF Init, OwnIDs
<1>4. QED
  BY <1>1, <1>2, <1>3 DEF HomeInv, EnterHome, AtHome, SenderIsMember, SawAck

-----------------------------------------------------------------------------
(* Who has a room's mutex *)

\* A worker that has a room's mutex is in its broadcast, not past the entries.
HoldersSend ==
  \A r \in Room : holder[r] # NoPlayer =>
    /\ holder[r] \in Worker /\ task[holder[r]].pc = "send" /\ task[holder[r]].room = r
    /\ task[holder[r]].sent <= Len(members[r])

\* Only BroadCast keeps a mutex beyond one step.
LEMMA HolderStays ==
  ASSUME [Next]_vars
  PROVE  holder' = holder \/ \E w \in Worker : Lock(w) \/ Unlock(w)
<1>1. ASSUME NEW p \in Player, ClientAsks(p) \/ Disconnect(p) PROVE holder' = holder
  BY <1>1 DEF ClientAsks, Disconnect
<1>2. ASSUME NEW w \in Worker, NEW p \in Player,
             \/ DropRequest(w, p) \/ CreateRoom(w, p) \/ StartEnter(w, p)
             \/ StartChat(w, p) \/ StartList(w, p)
      PROVE  holder' = holder
  BY <1>2, Zenon DEF DropRequest, CreateRoom, StartEnter, StartChat, StartList
<1>3. ASSUME NEW w \in Worker, Enter(w) \/ SendAck(w) \/ SendNext(w) \/ ReadRoom(w) \/ SendList(w)
      PROVE  holder' = holder
  BY <1>3, Zenon DEF Enter, SendAck, SendNext, ReadRoom, SendList
<1>4. QED
  BY <1>1, <1>2, <1>3 DEF Next, WorkerStep, vars

\* A worker in its broadcast goes on with it.
LEMMA Sending ==
  ASSUME TypeInv, NEW w \in Worker, WorkerStep(w), task[w].pc = "send"
  PROVE  SendNext(w) \/ Unlock(w)
<1>1. task[w] # Idle
  BY IdleTask
<1>2. \A p \in Player : /\ ~DropRequest(w, p) /\ ~CreateRoom(w, p) /\ ~StartEnter(w, p)
                        /\ ~StartChat(w, p) /\ ~StartList(w, p)
  BY <1>1 DEF DropRequest, CreateRoom, StartEnter, StartChat, StartList, Takes
<1>3. ~Enter(w) /\ ~SendAck(w) /\ ~SendList(w) /\ ~Lock(w) /\ ~ReadRoom(w)
  BY DEF Enter, SendAck, SendList, Lock, ReadRoom
<1>4. QED
  BY <1>2, <1>3 DEF WorkerStep

\* A worker's handler only moves with a step of its own.
LEMMA OwnStep ==
  ASSUME TypeInv, [Next]_vars, NEW u \in Worker
  PROVE  task'[u] = task[u] \/ WorkerStep(u)
<1>1. ASSUME NEW p \in Player, ClientAsks(p) \/ Disconnect(p) PROVE task' = task
  BY <1>1 DEF ClientAsks, Disconnect
<1>2. ASSUME NEW w \in Worker, WorkerStep(w) PROVE task'[u] = task[u] \/ WorkerStep(u)
  BY <1>2, Moved
<1>3. QED
  BY <1>1, <1>2 DEF Next, vars

LEMMA StepHolders ==
  ASSUME TypeInv, Heard, HoldersSend, [Next]_vars
  PROVE  HoldersSend'
<1> SUFFICES ASSUME NEW r \in Room, holder'[r] # NoPlayer
             PROVE  /\ holder'[r] \in Worker /\ task'[holder'[r]].pc = "send"
                    /\ task'[holder'[r]].room = r
                    /\ task'[holder'[r]].sent <= Len(members'[r])
  BY DEF HoldersSend
<1> DEFINE w == holder[r]
<1>0. holder \in [Room -> Worker \cup {NoPlayer}] /\ NoPlayer \notin Worker
  BY ConstantsOK DEF TypeInv, TypeOK
<1>1. ASSUME holder[r] # NoPlayer
      PROVE  members'[r] = members[r]
  <2>1. ASSUME NEW u \in Worker, Enter(u) PROVE members'[r] = members[r]
    <3>1. task[u].room \in Room /\ task[u].room # r
      BY <1>1, <2>1, Tasks DEF Enter, Free
    <3>2. QED
      BY <2>1, <3>1, EnterMembers
  <2>2. QED
    BY <2>1, Untouched
<1>2. ASSUME NEW u \in Worker, Lock(u), task[u].room = r
      PROVE  /\ holder'[r] \in Worker /\ task'[holder'[r]].pc = "send"
             /\ task'[holder'[r]].room = r
             /\ task'[holder'[r]].sent <= Len(members'[r])
  <2>1. holder' = [holder EXCEPT ![r] = u] /\ task[u].pc = "chat" /\ members' = members
    BY <1>2 DEF Lock
  <2>2. task[u].sent = 0 /\ task[u] \in TaskType
    BY <2>1, Tasks DEF Heard
  <2>3. task'[u] = [task[u] EXCEPT !.pc = "send"]
    BY <1>2, Moved, Zenon DEF WorkerStep
  <2>4. task'[u].pc = "send" /\ task'[u].room = r /\ task'[u].sent = 0
    BY <1>2, <2>2, <2>3 DEF TaskType
  <2>5. Len(members[r]) \in Nat
    BY LenProperties DEF TypeInv, TypeOK
  <2>6. holder'[r] = u
    BY <1>0, <2>1
  <2>7. QED
    BY <2>1, <2>4, <2>5, <2>6
<1>3. CASE holder'[r] = w
  <2>1. /\ w \in Worker /\ task[w].pc = "send" /\ task[w].room = r
        /\ task[w].sent <= Len(members[r]) /\ members'[r] = members[r]
    BY <1>1, <1>3 DEF HoldersSend
  <2>2. ASSUME SendNext(w)
        PROVE  task'[w].pc = "send" /\ task'[w].room = r /\ task'[w].sent <= Len(members'[r])
    <3>1. task'[w] = [task[w] EXCEPT !.sent = task[w].sent + 1] /\ task[w] \in TaskType
      BY <2>1, <2>2, Moved, Tasks, Zenon DEF WorkerStep
    <3>2. task[w].sent + 1 <= Len(members[r])
      BY <2>1, <2>2, Zenon DEF SendNext
    <3>3. QED
      BY <2>1, <3>1, <3>2 DEF TaskType
  <2>3. ~Unlock(w)
    BY <1>0, <1>3, <2>1 DEF Unlock
  <2>4. task'[w] = task[w] \/ SendNext(w)
    BY <2>1, <2>3, OwnStep, Sending
  <2>5. QED
    BY <1>3, <2>1, <2>2, <2>4
<1>4. CASE holder'[r] # holder[r]
  <2>1. PICK u \in Worker : Lock(u) \/ Unlock(u)
    BY <1>4, HolderStays
  <2>2. task[u].room = r /\ ~Unlock(u)
    BY <1>0, <1>4, <2>1 DEF Lock, Unlock
  <2>3. QED
    BY <1>2, <2>1, <2>2
<1>5. QED
  BY <1>3, <1>4

-----------------------------------------------------------------------------
(* The theorems *)

IInv == TypeInv /\ OrderInv /\ Told /\ Heard

LEMMA InitIInv == Init => IInv
<1> SUFFICES ASSUME Init PROVE IInv
  OBVIOUS
<1>1. TypeInv /\ OrderInv
  BY InitType
<1>2. \A p \in Player : Len(out[p]) = 0
  BY DEF Init
<1>3. \A w \in Worker : task[w].pc = "idle"
  BY IdleTask DEF Init
<1>4. Told /\ Heard
  BY <1>2, <1>3 DEF Told, Heard
<1>5. QED
  BY <1>1, <1>4 DEF IInv

LEMMA StepIInv == IInv /\ [Next]_vars => IInv'
<1> SUFFICES ASSUME IInv, [Next]_vars PROVE IInv'
  OBVIOUS
<1>1. TypeInv /\ OrderInv /\ Told /\ Heard /\ Broadcasting
  BY DEF IInv, OrderInv
<1>2. TypeInv' /\ OrderInv'
  BY <1>1, StepType, StepOrder
<1>3. Told' /\ Heard'
  BY <1>1, StepTold, StepHeard
<1>4. QED
  BY <1>2, <1>3 DEF IInv

\* No handler leaves its types: a room that was listed stays in the directory,
\* so HandleEnterChatRoomReq and HandleChatReq never follow a null room.
THEOREM TypeCorrect == Spec => []TypeOK
<1>1. IInv => TypeOK
  BY DEF IInv, TypeInv
<1>2. QED
  BY InitIInv, StepIInv, <1>1, PTL DEF Spec

\* All members get a room's messages in one order, whichever workers run the
\* senders' HandleChatReq: BroadCast keeps the room's mutex until all have it.
THEOREM SameOrder == Spec => []SameOrderForAll
<1>1. IInv => SameOrderForAll
  BY DEF IInv, OrderInv
<1>2. QED
  BY InitIInv, StepIInv, <1>1, PTL DEF Spec

\* One sender's messages arrive in the order it sent them: the PacketRouter
\* gives all packets of a session to one worker.
THEOREM SenderOrder == Spec => []SenderOrderKept
<1>1. IInv => SenderOrderKept
  BY DEF IInv, OrderInv
<1>2. QED
  BY InitIInv, StepIInv, <1>1, PTL DEF Spec

\* Who was sent EnterChatRoomAck before a BroadCast in that room ended has got
\* its message: the handlers enter the room first and answer afterwards.
THEOREM ToldHear == Spec => ToldMembersHear
<1>1. IInv => [\A w \in Worker : Unlock(w) =>
                 \A p \in Player :
                   (\E i \in 1 .. Len(out[p]) : out[p][i] = Entered(task[w].room)) =>
                     \E i \in 1 .. Len(out[p]) :
                       out[p][i] = Chat(task[w].room, task[w].player, task[w].n)]_vars
  BY AllHear DEF IInv
<1>2. QED
  BY InitIInv, StepIInv, <1>1, PTL DEF Spec, ToldMembersHear

\* A chat message goes to a room its sender has an entry in, as long as the
\* uint16 room IDs have not wrapped: HandleEnterChatRoomReq sets m_ChatRoomID
\* before the entry is made, but the session's next packet waits for its worker.
THEOREM SenderInRoom == ASSUME MaxRooms < RoomMod PROVE Spec => []SenderIsMember
<1>1. Init => IInv /\ HomeInv
  BY InitIInv, InitHome
<1>2. (IInv /\ HomeInv) /\ [Next]_vars => (IInv /\ HomeInv)'
  <2>1. ASSUME IInv, HomeInv, [Next]_vars PROVE IInv' /\ HomeInv'
    BY <2>1, StepIInv, StepHome DEF IInv
  <2>2. QED
    BY <2>1
<1>3. IInv /\ HomeInv => SenderIsMember
  BY DEF HomeInv
<1>4. QED
  BY <1>1, <1>2, <1>3, PTL DEF Spec

\* Nobody waits long for a room: who has its m_ChatRoomMutex is in BroadCast,
\* with entries left to send to or about to unlock, and waits for no mutex.
\* The entries cannot change under it, so it never gets past their end.
THEOREM HoldersGoOn == Spec => []HoldersSend
<1>1. Init => HoldersSend
  BY DEF Init, HoldersSend
<1>2. IInv /\ HoldersSend /\ [Next]_vars => HoldersSend'
  BY StepHolders DEF IInv
<1>3. QED
  BY InitIInv, StepIInv, <1>1, <1>2, PTL DEF Spec

=============================================================================
