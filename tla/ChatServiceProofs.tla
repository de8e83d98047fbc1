-------------------------- MODULE ChatServiceProofs --------------------------
(* What clients get.  ChatRooms implements ChatService, and the room lists of *)
(* one client never go back: as long as room IDs and the rooms' user counts   *)
(* fit a uint16, no list loses a room or a user an earlier one had, nor a     *)
(* room the client was told it had entered, although HandleChatRoomListReq    *)
(* holds no mutex from one room to the next.                                  *)
EXTENDS ChatRoomsProofs

\* GetCurrentUser's uint16 holds the number of entries of each room.
FewUsers == \A r \in Room : Len(members[r]) < RoomMod

LEMMA OneMore == \A n \in Nat : \A j : j \in 1 .. n + 1 <=> j \in 1 .. n \/ j = n + 1
OBVIOUS

\* The directory has the room.
InDirectory(r) == directory[IdOf(r)] = r

\* A list says no more than is there: entries and directory only grow.
Founded(info) ==
  \A r \in Room : info[r] <= Len(members[r]) /\ (info[r] # NotListed => InDirectory(r))

\* What a list in the making says of room r is not behind message m.
UpTo(info, r, m) ==
  /\ m.what = "list" => m.info[r] <= info[r]
  /\ m.what = "entered" /\ m.room = r => info[r] >= 1

\* The lists and answers that were sent are founded ...
SentFounded ==
  \A p \in Player : \A i \in 1 .. Len(out[p]) :
    /\ out[p][i].what = "list" => Founded(out[p][i].info)
    /\ out[p][i].what = "entered" => InDirectory(out[p][i].room)

\* ... the rooms that are being entered are in the directory ...
EnteringListed ==
  \A w \in Worker : task[w].pc \in {"create", "enter", "ack"} => InDirectory(task[w].room)

\* ... and a list in the making is founded, reads rooms of the directory, and
\* is up to all its session was sent in the rooms it is through with.
Reading ==
  \A w \in Worker : task[w].pc = "list" =>
    /\ Founded(task[w].info)
    /\ \A r \in task[w].left : InDirectory(r)
    /\ \A r \in Room \ task[w].left : \A i \in 1 .. Len(out[task[w].player]) :
         UpTo(task[w].info, r, out[task[w].player][i])

ListInv == SentFounded /\ EnteringListed /\ Reading /\ ListsAreCurrent

-----------------------------------------------------------------------------
(* What only grows *)

LEMMA Lengths ==
  ASSUME TypeOK
  PROVE  \A r \in Room : Len(members[r]) \in Nat
BY LenProperties DEF TypeOK

\* No handler takes an entry out of a room.
LEMMA RoomsGrow ==
  ASSUME TypeInv, [Next]_vars
  PROVE  \A r \in Room : Len(members[r]) <= Len(members'[r])
<1>1. \A r \in Room : Len(members[r]) \in Nat
  BY Lengths DEF TypeInv
<1>2. CASE members' = members
  BY <1>1, <1>2
<1>3. ASSUME NEW w \in Worker, Enter(w)
      PROVE  \A r \in Room : Len(members[r]) <= Len(members'[r])
  <2> DEFINE p == task[w].player
             x == task[w].room
             e == [key |-> chatRoomID[p], player |-> p]
  <2>1. p \in Player /\ x \in Room /\ members \in [Room -> Seq(Entry)] /\ e \in Entry
    BY <1>3, Tasks DEF Enter, TypeInv, TypeOK, Entry
  <2>2. members' = [members EXCEPT ![x] = WithEntry(x, e)]
    BY <1>3 DEF Enter
  <2> HIDE DEF e, x
  <2>3. Len(WithEntry(x, e)) = Len(members[x]) + 1
    BY <2>1, EntryAdded
  <2>4. members'[x] = WithEntry(x, e) /\ \A r \in Room \ {x} : members'[r] = members[r]
    BY <2>1, <2>2
  <2>5. Len(members[x]) <= Len(members'[x])
    BY <1>1, <2>1, <2>3, <2>4
  <2>6. QED
    BY <1>1, <2>4, <2>5
<1>4. QED
  BY <1>2, <1>3, Untouched

\* A room stays in the directory while no other can take its ID.
LEMMA DirectoryGrows ==
  ASSUME MaxRooms < RoomMod, TypeInv, [Next]_vars, NEW r \in Room, InDirectory(r)
  PROVE  InDirectory(r)'
<1>1. IdOf(r) = r /\ r \in RoomID
  BY NoWrap, Numbers DEF Room
<1>2. ASSUME NEW w \in Worker, NEW p \in Player, CreateRoom(w, p) PROVE directory'[r] = r
  BY <1>1, <1>2, Created DEF InDirectory, TypeInv, TypeOK
<1>3. directory'[r] = r
  BY <1>1, <1>2, DirectoryStays DEF InDirectory
<1>4. QED
  BY <1>1, <1>3 DEF InDirectory

LEMMA FoundedStays ==
  ASSUME MaxRooms < RoomMod, TypeInv, [Next]_vars, NEW info \in Info, Founded(info)
  PROVE  \A r \in Room : info[r] <= Len(members'[r]) /\ (info[r] # NotListed => InDirectory(r)')
<1> SUFFICES ASSUME NEW r \in Room
             PROVE  info[r] <= Len(members'[r]) /\ (info[r] # NotListed => InDirectory(r)')
  OBVIOUS
<1>1. info[r] \in Int
  BY ConstantsOK DEF Info, NotListed
<1>2. TypeInv'
  BY StepType
<1>3. Len(members[r]) \in Nat /\ Len(members'[r]) \in Nat
  BY <1>2, LenProperties DEF TypeInv, TypeOK
<1>4. info[r] <= Len(members[r]) /\ Len(members[r]) <= Len(members'[r])
  BY RoomsGrow DEF Founded
<1>5. info[r] # NotListed => InDirectory(r)'
  BY DirectoryGrows DEF Founded
<1>6. QED
  BY <1>1, <1>3, <1>4, <1>5

-----------------------------------------------------------------------------
(* What is sent *)

\* What a message that is no chat message says.
LEMMA Answers ==
  ASSUME NEW m \in Message
  PROVE  /\ m.what = "list" => m.info \in Info
         /\ m.what = "entered" => m.room \in Room
         /\ m.what \in {"list", "entered", "chat"}
BY DEF Message, Listed, Entered, Chat

LEMMA OutMessage ==
  ASSUME TypeInv, NEW p \in Player, NEW i \in 1 .. Len(out[p])
  PROVE  out[p][i] \in Message
BY ElementOfSeq DEF TypeInv, TypeOK

\* A message of a session was there before the step, or its own worker sent
\* it the answer it was making, or it is a chat message; a new one is last.
LEMMA NewOut ==
  ASSUME TypeInv, [Next]_vars, NEW p \in Player, NEW i \in 1 .. Len(out'[p])
  PROVE  \/ i \in 1 .. Len(out[p]) /\ out'[p][i] = out[p][i]
         \/ /\ i = Len(out[p]) + 1 /\ Len(out[p]) \in Nat /\ Len(out'[p]) = Len(out[p]) + 1
            /\ \/ out'[p][i].what = "chat"
               \/ \E w \in Worker : /\ SendAck(w) /\ task[w].player = p
                                    /\ out'[p][i] = Entered(task[w].room)
               \/ \E w \in Worker : /\ SendList(w) /\ task[w].player = p
                                    /\ out'[p][i] = Listed(task[w].info)
<1> DEFINE Old == i \in 1 .. Len(out[p]) /\ out'[p][i] = out[p][i]
           Last == /\ i = Len(out[p]) + 1 /\ Len(out[p]) \in Nat
                   /\ Len(out'[p]) = Len(out[p]) + 1
<1>1. CASE out' = out
  BY <1>1
<1>2. ASSUME NEW q \in Player, NEW m \in Message, out' = [out EXCEPT ![q] = Append(@, m)]
      PROVE  Old \/ (Last /\ q = p /\ out'[p][i] = m)
  <2>1. CASE q # p
    <3>1. out'[p] = out[p]
      BY <1>2, <2>1, Sent DEF TypeInv
    <3>2. QED
      BY <3>1
  <2>2. CASE q = p
    <3>1. /\ Len(out[p]) \in Nat /\ Len(out'[p]) = Len(out[p]) + 1
          /\ \A j \in 1 .. Len(out[p]) : out'[p][j] = out[p][j]
          /\ out'[p][Len(out[p]) + 1] = m
      BY <1>2, <2>2, Sent DEF TypeInv
    <3>2. i \in 1 .. Len(out[p]) \/ i = Len(out[p]) + 1
      BY <3>1
    <3>3. QED
      BY <2>2, <3>1, <3>2
  <2>3. QED
    BY <2>1, <2>2
<1>3. ASSUME NEW w \in Worker, SendAck(w)
      PROVE  Old \/ (Last /\ task[w].player = p /\ out'[p][i] = Entered(task[w].room))
  <2>1. task[w].player \in Player /\ task[w].room \in Room
    BY <1>3, Tasks DEF SendAck
  <2>2. Entered(task[w].room) \in Message
    BY <2>1 DEF Message
  <2>3. out' = [out EXCEPT ![task[w].player] = Append(@, Entered(task[w].room))]
    BY <1>3 DEF SendAck
  <2> HIDE DEF Old, Last
  <2>4. QED
    BY <1>2, <2>1, <2>2, <2>3
<1>4. ASSUME NEW w \in Worker, SendList(w)
      PROVE  Old \/ (Last /\ task[w].player = p /\ out'[p][i] = Listed(task[w].info))
  <2>1. task[w].player \in Player /\ task[w].info \in Info
    BY <1>4, Tasks DEF SendList, TaskType
  <2>2. Listed(task[w].info) \in Message
    BY <2>1 DEF Message
  <2>3. out' = [out EXCEPT ![task[w].player] = Append(@, Listed(task[w].info))]
    BY <1>4 DEF SendList
  <2> HIDE DEF Old, Last
  <2>4. QED
    BY <1>2, <2>1, <2>2, <2>3
<1>5. ASSUME NEW w \in Worker, SendNext(w)
      PROVE  Old \/ (Last /\ out'[p][i].what = "chat")
  <2>1. /\ Receiver(w) \in Player /\ Sends(w) \in Message
        /\ out' = [out EXCEPT ![Receiver(w)] = Append(@, Sends(w))]
    BY <1>5, NextSent
  <2>2. Sends(w).what = "chat"
    BY Kinds DEF Sends
  <2> HIDE DEF Old, Last
  <2>3. QED
    BY <1>2, <2>1, <2>2
<1>6. QED
  BY <1>1, <1>3, <1>4, <1>5, Untouched

-----------------------------------------------------------------------------
(* Handlers that enter rooms or make lists *)

LEMMA ListFrom ==
  ASSUME TypeInv, [Next]_vars, NEW u \in Worker, task'[u].pc = "list", task'[u] # task[u]
  PROVE  ReadRoom(u) \/ \E p \in Player : StartList(u, p)
<1>1. WorkerStep(u)
  BY OwnStep
<1>2. /\ ~Enter(u) /\ ~SendAck(u) /\ ~Unlock(u) /\ ~SendList(u) /\ ~Lock(u) /\ ~SendNext(u)
      /\ \A p \in Player : /\ ~DropRequest(u, p) /\ ~CreateRoom(u, p)
                           /\ ~StartEnter(u, p) /\ ~StartChat(u, p)
  BY <1>1, Moved
<1>3. QED
  BY <1>1, <1>2 DEF WorkerStep

LEMMA EnteringFrom ==
  ASSUME TypeInv, [Next]_vars, NEW u \in Worker,
         task'[u].pc \in {"create", "enter", "ack"}, task'[u] # task[u]
  PROVE  Enter(u) \/ \E p \in Player : CreateRoom(u, p) \/ StartEnter(u, p)
<1>1. WorkerStep(u)
  BY OwnStep
<1>2. /\ ~ReadRoom(u) /\ ~SendAck(u) /\ ~Unlock(u) /\ ~SendList(u) /\ ~Lock(u) /\ ~SendNext(u)
      /\ \A p \in Player : ~DropRequest(u, p) /\ ~StartList(u, p) /\ ~StartChat(u, p)
  BY <1>1, Moved
<1>3. QED
  BY <1>1, <1>2 DEF WorkerStep

\* The room a handler enters is, or was just, put in the directory.
LEMMA StepEntering ==
  ASSUME MaxRooms < RoomMod, TypeInv, OwnIDs, EnteringListed, [Next]_vars
  PROVE  EnteringListed'
<1> SUFFICES ASSUME NEW u \in Worker, task'[u].pc \in {"create", "enter", "ack"}
             PROVE  directory'[IdOf(task'[u].room)] = task'[u].room
  BY DEF EnteringListed, InDirectory
<1>1. ASSUME NEW r \in Room, InDirectory(r) PROVE directory'[IdOf(r)] = r
  BY <1>1, DirectoryGrows DEF InDirectory
<1>2. CASE task'[u].room = task[u].room /\ task[u].pc \in {"create", "enter", "ack"}
  <2>1. task[u].room \in Room /\ InDirectory(task[u].room)
    BY <1>2, Tasks DEF EnteringListed
  <2>2. QED
    BY <1>1, <1>2, <2>1
<1>3. CASE Enter(u)
  <2>1. task'[u] = [task[u] EXCEPT !.pc = "ack"]
    BY <1>3, Moved, Zenon DEF WorkerStep
  <2>2. task[u] \in TaskType /\ task[u].pc \in {"create", "enter"}
    BY <1>3, Tasks DEF Enter
  <2>3. task'[u].room = task[u].room
    BY <2>1, <2>2 DEF TaskType
  <2>4. QED
    BY <1>2, <2>2, <2>3
<1>4. ASSUME NEW p \in Player, CreateRoom(u, p)
      PROVE  directory'[IdOf(task'[u].room)] = task'[u].room
  <2> DEFINE r == roomNumber'
             v == [Idle EXCEPT !.pc = "create", !.player = p, !.room = r]
  <2>1. r \in Room /\ IdOf(r) = r /\ r \in RoomID /\ directory' = [directory EXCEPT ![r] = r]
    BY <1>4, Created, NoWrap, Numbers DEF Room
  <2>2. directory'[r] = r
    BY <2>1 DEF TypeInv, TypeOK
  <2>3. task' = [task EXCEPT ![u] = v]
    BY <1>4 DEF CreateRoom
  <2>4. v.room = r
    BY DEF Idle
  <2> HIDE DEF v
  <2>5. task'[u] = v
    BY <2>3, TaskNow
  <2>6. QED
    BY <2>1, <2>2, <2>4, <2>5
<1>5. ASSUME NEW p \in Player, StartEnter(u, p)
      PROVE  directory'[IdOf(task'[u].room)] = task'[u].room
  <2> DEFINE id == Head(requests[p]).id
             v  == [Idle EXCEPT !.pc = "enter", !.player = p, !.room = directory[id]]
  <2>1. task' = [task EXCEPT ![u] = v] /\ directory' = directory
    BY <1>5 DEF StartEnter
  <2>2. v.room = directory[id] /\ v.pc = "enter"
    BY DEF Idle
  <2> HIDE DEF v
  <2>3. task'[u].room = directory[id]
    BY <2>1, <2>2, TaskNow
  <2>4. /\ requests[p] # <<>> /\ Head(requests[p]).do = "enter"
        /\ requests' = [requests EXCEPT ![p] = Tail(@)]
    BY <1>5 DEF StartEnter, Takes
  <2>5. /\ Head(requests[p]) \in Request /\ Head(requests[p]) = requests[p][1]
        /\ Len(requests[p]) \in Nat \ {0}
    BY <2>4, Taken DEF TypeInv
  <2>6. id \in RoomID /\ directory[id] # 0
    BY <2>4, <2>5, Requests DEF TypeInv, RoomsKnown, QueuedKnown
  <2>7. directory[id] \in Room /\ directory[id] = id
    BY <2>6 DEF OwnIDs, TypeInv, TypeOK
  <2>8. QED
    BY <2>1, <2>3, <2>7, NoWrap
<1>6. QED
  BY <1>2, <1>3, <1>4, <1>5, EnteringFrom

\* Lists and answers are as founded as what they are made from.
LEMMA StepSent ==
  ASSUME MaxRooms < RoomMod, TypeInv, SentFounded, EnteringListed, Reading, [Next]_vars
  PROVE  SentFounded'
<1> SUFFICES ASSUME NEW p \in Player, NEW i \in 1 .. Len(out'[p])
             PROVE  /\ out'[p][i].what = "list" =>
                         \A r \in Room : /\ out'[p][i].info[r] <= Len(members'[r])
                                         /\ out'[p][i].info[r] # NotListed => InDirectory(r)'
                    /\ out'[p][i].what = "entered" =>
                         directory'[IdOf(out'[p][i].room)] = out'[p][i].room
  BY DEF SentFounded, Founded, InDirectory
<1> DEFINE m == out'[p][i]
<1>1. TypeInv' /\ m \in Message
  <2>1. TypeInv'
    BY StepType
  <2>2. QED
    BY <2>1, ElementOfSeq DEF TypeInv, TypeOK
<1> HIDE DEF m
<1>2. ASSUME m.what = "list", Founded(m.info)
      PROVE  \A r \in Room : /\ m.info[r] <= Len(members'[r])
                             /\ m.info[r] # NotListed => InDirectory(r)'
  BY <1>1, <1>2, Answers, FoundedStays
<1>3. ASSUME m.what = "entered", InDirectory(m.room) PROVE directory'[IdOf(m.room)] = m.room
  <2>1. PICK r \in Room : r = m.room
    BY <1>1, <1>3, Answers
  <2>2. InDirectory(r)
    BY <1>3, <2>1
  <2>3. directory'[IdOf(r)] = r
    BY <2>2, DirectoryGrows DEF InDirectory
  <2>4. QED
    BY <2>1, <2>3
<1>4. CASE i \in 1 .. Len(out[p]) /\ m = out[p][i]
  <2>1. /\ m.what = "list" => Founded(m.info)
        /\ m.what = "entered" => InDirectory(m.room)
    BY <1>4 DEF SentFounded
  <2>2. QED
    BY <1>2, <1>3, <2>1 DEF m
<1>5. CASE m.what = "chat"
  BY <1>5 DEF m
<1>6. ASSUME NEW w \in Worker, SendAck(w), m = Entered(task[w].room)
      PROVE  m.what = "entered" /\ InDirectory(m.room)
  BY <1>6, Kinds DEF EnteringListed, SendAck
<1>7. ASSUME NEW w \in Worker, SendList(w), m = Listed(task[w].info)
      PROVE  m.what = "list" /\ Founded(m.info)
  <2>1. task[w].pc = "list" /\ m.info = task[w].info /\ m.what = "list"
    BY <1>7 DEF SendList, Listed
  <2>2. QED
    BY <2>1 DEF Reading
<1>8. QED
  BY <1>2, <1>3, <1>4, <1>5, <1>6, <1>7, NewOut DEF m

-----------------------------------------------------------------------------
(* A list in the making *)

\* Its session is sent nothing but chat messages meanwhile: its worker is busy.
LEMMA OnlyChats ==
  ASSUME TypeInv, [Next]_vars, NEW u \in Worker, task[u].pc = "list", task'[u].pc = "list",
         NEW i \in 1 .. Len(out'[task[u].player])
  PROVE  \/ /\ i \in 1 .. Len(out[task[u].player])
            /\ out'[task[u].player][i] = out[task[u].player][i]
         \/ out'[task[u].player][i].what = "chat"
<1> DEFINE p == task[u].player
<1>1. p \in Player /\ Owner[p] = u
  BY Tasks
<1>2. ~ \E w \in Worker : SendAck(w) /\ task[w].player = p
  <2> SUFFICES ASSUME NEW w \in Worker, SendAck(w), task[w].player = p PROVE FALSE
    OBVIOUS
  <2>1. task[w].pc = "ack"
    BY DEF SendAck
  <2>2. w = u
    BY <1>1, <2>1, Tasks
  <2>3. QED
    BY <2>1, <2>2
<1>3. ~ \E w \in Worker : SendList(w) /\ task[w].player = p
  <2> SUFFICES ASSUME NEW w \in Worker, SendList(w), task[w].player = p PROVE FALSE
    OBVIOUS
  <2>1. task[w].pc = "list" /\ task' = [task EXCEPT ![w] = Idle]
    BY DEF SendList
  <2>2. w = u
    BY <1>1, <2>1, Tasks
  <2>3. task'[u] = Idle
    BY <2>1, <2>2, TaskNow
  <2>4. QED
    BY <2>3, IdleTask
<1> HIDE DEF p
<1>4. i \in 1 .. Len(out'[p])
  BY DEF p
<1>5. \/ i \in 1 .. Len(out[p]) /\ out'[p][i] = out[p][i]
      \/ out'[p][i].what = "chat"
  BY <1>1, <1>2, <1>3, <1>4, NewOut
<1>6. QED
  BY <1>5 DEF p

\* It starts with no room read: what is not in the directory was never listed.
LEMMA StartsList ==
  ASSUME MaxRooms < RoomMod, TypeInv, OwnIDs, SentFounded,
         NEW w \in Worker, NEW p \in Player, StartList(w, p)
  PROVE  /\ task'[w].player = p /\ task'[w].info = NoInfo
         /\ \A r \in task'[w].left : InDirectory(r)
         /\ \A r \in Room \ task'[w].left : \A i \in 1 .. Len(out[p]) :
              UpTo(NoInfo, r, out[p][i])
<1> DEFINE rooms == {directory[i] : i \in RoomID} \ {0}
           v == [Idle EXCEPT !.pc = "list", !.player = p, !.left = rooms]
<1>1. v.player = p /\ v.info = NoInfo /\ v.left = rooms
  BY DEF Idle
<1>2. task' = [task EXCEPT ![w] = v]
  BY DEF StartList
<1> HIDE DEF v
<1>3. task'[w] = v
  BY <1>2, TaskNow
<1>4. ASSUME NEW r \in Room \ rooms PROVE ~InDirectory(r)
  <2>1. IdOf(r) = r /\ r \in RoomID /\ r # 0
    BY NoWrap, Numbers DEF Room
  <2>2. directory[r] # r
    BY <1>4, <2>1
  <2>3. QED
    BY <2>1, <2>2 DEF InDirectory
<1>r. ASSUME NEW r \in rooms PROVE InDirectory(r)
  <2>1. PICK i \in RoomID : directory[i] = r /\ r # 0
    BY <1>r
  <2>2. r \in Room /\ directory[r] = r
    BY <2>1 DEF OwnIDs, TypeInv, TypeOK
  <2>3. QED
    BY <2>2, NoWrap DEF InDirectory
<1> HIDE DEF rooms
<1>5. ASSUME NEW r \in Room \ rooms, NEW i \in 1 .. Len(out[p])
      PROVE  UpTo(NoInfo, r, out[p][i])
  <2>1. out[p][i].what = "list" => out[p][i].info[r] = NotListed
    BY <1>4, <1>5 DEF SentFounded, Founded
  <2>2. ~(out[p][i].what = "entered" /\ out[p][i].room = r)
    BY <1>4, <1>5 DEF SentFounded
  <2>3. NoInfo[r] = NotListed /\ NotListed <= NotListed
    BY DEF NoInfo, NotListed
  <2>4. QED
    BY <2>1, <2>2, <2>3 DEF UpTo
<1>6. QED
  BY <1>1, <1>3, <1>r, <1>5

\* It reads what is there, which is no less than what was said of it before.
LEMMA ReadsRoom ==
  ASSUME MaxRooms < RoomMod, TypeInv, Told, FewUsers, SentFounded, Reading,
         NEW w \in Worker, ReadRoom(w)
  PROVE  LET p == task[w].player  t == task'[w] IN
         /\ task[w].pc = "list" /\ p \in Player /\ t.player = p
         /\ Founded(t.info) /\ \A r \in t.left : InDirectory(r)
         /\ \A r \in Room \ t.left : \A i \in 1 .. Len(out[p]) : UpTo(t.info, r, out[p][i])
<1> DEFINE p == task[w].player
           t == task[w]
<1>1. PICK x \in t.left :
        task' = [task EXCEPT ![w] = [task[w] EXCEPT !.left = @ \ {x}, !.info[x] = Users(x)]]
  BY DEF ReadRoom
<1>2. t.pc = "list" /\ t \in TaskType /\ p \in Player /\ x \in Room
  BY Tasks DEF ReadRoom, TaskType
<1> DEFINE v == [t EXCEPT !.left = @ \ {x}, !.info[x] = Users(x)]
<1>3. Users(x) = Len(members[x]) /\ Len(members[x]) \in 0 .. RoomMod - 1
  <2>1. Len(members[x]) \in Nat /\ Len(members[x]) < RoomMod
    BY <1>2, Lengths DEF FewUsers, TypeInv
  <2>2. \A n \in Nat : n < RoomMod => n % RoomMod = n /\ n \in 0 .. RoomMod - 1
    BY ConstantsOK
  <2>3. QED
    BY <2>1, <2>2 DEF Users
<1>4. /\ v.left = t.left \ {x} /\ v.info = [t.info EXCEPT ![x] = Users(x)]
      /\ v.player = p /\ t.info \in Info
  BY <1>2 DEF TaskType
<1>5. task' = [task EXCEPT ![w] = v]
  BY <1>1
<1> HIDE DEF v
<1>6. task'[w] = v
  BY <1>5, TaskNow
<1>7. /\ v.info \in Info /\ v.info[x] = Len(members[x])
      /\ \A r \in Room \ {x} : v.info[r] = t.info[r]
  BY <1>2, <1>3, <1>4 DEF Info
<1>8. ASSUME NEW r \in Room \ v.left, NEW i \in 1 .. Len(out[p])
      PROVE  UpTo(v.info, r, out[p][i])
  <2>1. CASE r # x
    <3>1. r \in Room \ t.left
      BY <1>4, <1>8, <2>1
    <3>2. UpTo(t.info, r, out[p][i])
      BY <1>2, <1>8, <3>1 DEF Reading
    <3>3. QED
      BY <1>7, <2>1, <3>2 DEF UpTo
  <2>2. CASE r = x
    <3>1. out[p][i].what = "list" => out[p][i].info[x] <= v.info[x]
      BY <1>2, <1>7, <1>8 DEF SentFounded, Founded
    <3>2. ASSUME out[p][i].what = "entered", out[p][i].room = x PROVE v.info[x] >= 1
      <4>1. In(p, x)
        BY <1>2, <1>8, <3>2 DEF Told
      <4>2. Len(members[x]) \in Nat /\ \E k \in 1 .. Len(members[x]) : TRUE
        BY <1>3, <4>1 DEF In
      <4>3. QED
        BY <1>7, <4>2
    <3>3. QED
      BY <2>2, <3>1, <3>2 DEF UpTo
  <2>3. QED
    BY <2>1, <2>2
<1>9. Founded(v.info)
  <2> SUFFICES ASSUME NEW r \in Room
               PROVE  v.info[r] <= Len(members[r]) /\ (v.info[r] # NotListed => InDirectory(r))
    BY DEF Founded
  <2>1. CASE r # x
    BY <1>2, <1>7, <2>1 DEF Reading, Founded
  <2>2. CASE r = x
    BY <1>2, <1>3, <1>7, <2>2 DEF Reading
  <2>3. QED
    BY <2>1, <2>2
<1>10. \A r \in v.left : InDirectory(r)
  BY <1>2, <1>4 DEF Reading
<1>11. QED
  BY <1>2, <1>4, <1>6, <1>8, <1>9, <1>10

LEMMA StepReading ==
  ASSUME MaxRooms < RoomMod, TypeInv, OwnIDs, Told, FewUsers, SentFounded, Reading, [Next]_vars
  PROVE  Reading'
<1> SUFFICES ASSUME NEW u \in Worker, task'[u].pc = "list"
             PROVE  /\ \A r \in Room : /\ task'[u].info[r] <= Len(members'[r])
                                       /\ task'[u].info[r] # NotListed => InDirectory(r)'
                    /\ \A r \in task'[u].left : InDirectory(r)'
                    /\ \A r \in Room \ task'[u].left : \A i \in 1 .. Len(out'[task'[u].player]) :
                         UpTo(task'[u].info, r, out'[task'[u].player][i])
  BY DEF Reading, Founded, InDirectory, UpTo
<1>1. CASE task'[u] = task[u]
  <2> DEFINE p == task[u].player
             info == task[u].info
  <2>1. task[u].pc = "list" /\ info \in Info /\ Founded(info)
    BY <1>1, Tasks DEF TaskType, Reading
  <2>2. \A r \in Room : info[r] <= Len(members'[r]) /\ (info[r] # NotListed => InDirectory(r)')
    BY <2>1, FoundedStays
  <2>3. ASSUME NEW r \in Room \ task[u].left, NEW i \in 1 .. Len(out'[p])
        PROVE  UpTo(info, r, out'[p][i])
    <3>1. CASE i \in 1 .. Len(out[p]) /\ out'[p][i] = out[p][i]
      BY <2>1, <2>3, <3>1 DEF Reading
    <3>2. CASE out'[p][i].what = "chat"
      BY <3>2 DEF UpTo
    <3>3. QED
      BY <2>1, <2>3, <3>1, <3>2, OnlyChats
  <2>4. \A r \in task[u].left : InDirectory(r)'
    <3>1. \A r \in task[u].left : r \in Room /\ InDirectory(r)
      BY <2>1, Tasks DEF TaskType, Reading
    <3>2. QED
      BY <3>1, DirectoryGrows
  <2>5. QED
    BY <1>1, <2>2, <2>3, <2>4
<1>2. ASSUME NEW p \in Player, StartList(u, p)
      PROVE  /\ \A r \in Room : /\ task'[u].info[r] <= Len(members'[r])
                                /\ task'[u].info[r] # NotListed => InDirectory(r)'
             /\ \A r \in task'[u].left : InDirectory(r)'
             /\ \A r \in Room \ task'[u].left : \A i \in 1 .. Len(out'[task'[u].player]) :
                  UpTo(task'[u].info, r, out'[task'[u].player][i])
  <2>1. out' = out /\ members' = members /\ directory' = directory
    BY <1>2 DEF StartList
  <2>2. \A r \in Room : Len(members[r]) \in Nat
    BY Lengths DEF TypeInv
  <2>3. \A r \in Room : NoInfo[r] = NotListed /\ NoInfo[r] <= Len(members[r])
    BY <2>2 DEF NoInfo, NotListed
  <2>4. /\ task'[u].player = p /\ task'[u].info = NoInfo
        /\ \A r \in task'[u].left : InDirectory(r)
        /\ \A r \in Room \ task'[u].left : \A i \in 1 .. Len(out[p]) :
             UpTo(NoInfo, r, out[p][i])
    BY <1>2, StartsList
  <2>5. \A r \in task'[u].left : InDirectory(r)'
    BY <2>1, <2>4 DEF InDirectory
  <2>6. QED
    BY <2>1, <2>3, <2>4, <2>5
<1>3. ASSUME ReadRoom(u)
      PROVE  /\ \A r \in Room : /\ task'[u].info[r] <= Len(members'[r])
                                /\ task'[u].info[r] # NotListed => InDirectory(r)'
             /\ \A r \in task'[u].left : InDirectory(r)'
             /\ \A r \in Room \ task'[u].left : \A i \in 1 .. Len(out'[task'[u].player]) :
                  UpTo(task'[u].info, r, out'[task'[u].player][i])
  <2>1. out' = out /\ members' = members /\ directory' = directory
    BY <1>3, Zenon DEF ReadRoom
  <2>2. /\ Founded(task'[u].info) /\ \A r \in task'[u].left : InDirectory(r)
        /\ task'[u].player = task[u].player
        /\ \A r \in Room \ task'[u].left : \A i \in 1 .. Len(out[task[u].player]) :
             UpTo(task'[u].info, r, out[task[u].player][i])
    BY <1>3, ReadsRoom
  <2>3. /\ \A r \in Room : task'[u].info[r] # NotListed => InDirectory(r)'
        /\ \A r \in task'[u].left : InDirectory(r)'
    BY <2>1, <2>2 DEF InDirectory, Founded
  <2>4. QED
    BY <2>1, <2>2, <2>3 DEF Founded
<1>4. QED
  BY <1>1, <1>2, <1>3, ListFrom

\* When every room is read the list is up to all that was sent before it.
LEMMA StepLists ==
  ASSUME TypeInv, Reading, ListsAreCurrent, [Next]_vars
  PROVE  ListsAreCurrent'
<1> SUFFICES ASSUME NEW p \in Player,
                    NEW i \in 1 .. Len(out'[p]), NEW j \in 1 .. Len(out'[p]),
                    i < j, out'[p][j].what = "list"
             PROVE  /\ out'[p][i].what = "list" =>
                         \A r \in Room : out'[p][i].info[r] <= out'[p][j].info[r]
                    /\ out'[p][i].what = "entered" => out'[p][j].info[out'[p][i].room] >= 1
  BY DEF ListsAreCurrent
<1>1. i \in 1 .. Len(out[p]) /\ out'[p][i] = out[p][i]
  <2>1. ASSUME i = Len(out[p]) + 1, Len(out[p]) \in Nat, Len(out'[p]) = Len(out[p]) + 1
        PROVE  FALSE
    BY <2>1
  <2>2. QED
    BY <2>1, NewOut
<1>2. CASE j \in 1 .. Len(out[p]) /\ out'[p][j] = out[p][j]
  BY <1>1, <1>2 DEF ListsAreCurrent
<1>3. ASSUME NEW w \in Worker, SendList(w), task[w].player = p,
             out'[p][j] = Listed(task[w].info)
      PROVE  /\ out'[p][i].what = "list" =>
                  \A r \in Room : out'[p][i].info[r] <= out'[p][j].info[r]
             /\ out'[p][i].what = "entered" => out'[p][j].info[out'[p][i].room] >= 1
  <2>1. task[w].pc = "list" /\ task[w].left = {} /\ out'[p][j].info = task[w].info
    BY <1>3 DEF SendList, Listed
  <2>2. \A r \in Room : UpTo(task[w].info, r, out[p][i])
    BY <1>1, <1>3, <2>1 DEF Reading
  <2>3. out[p][i].what = "entered" => out[p][i].room \in Room
    BY <1>1, OutMessage, Answers
  <2>4. QED
    BY <1>1, <2>1, <2>2, <2>3 DEF UpTo
<1>4. ASSUME NEW w \in Worker PROVE out'[p][j] # Entered(task[w].room)
  BY Kinds
<1>5. QED
  BY <1>2, <1>3, <1>4, NewOut

LEMMA StepListInv ==
  ASSUME MaxRooms < RoomMod, IInv, OwnIDs, FewUsers, ListInv, [Next]_vars
  PROVE  ListInv'
<1>1. TypeInv /\ Told
  BY DEF IInv
<1>2. SentFounded' /\ EnteringListed'
  BY <1>1, StepSent, StepEntering DEF ListInv
<1>3. Reading' /\ ListsAreCurrent'
  BY <1>1, StepReading, StepLists DEF ListInv
<1>4. QED
  BY <1>2, <1>3 DEF ListInv

LEMMA InitList == Init => OwnIDs /\ ListInv
<1> SUFFICES ASSUME Init PROVE OwnIDs /\ ListInv
  OBVIOUS
<1>1. \A p \in Player : Len(out[p]) = 0
  BY DEF Init
<1>2. \A w \in Worker : task[w].pc = "idle"
  BY IdleTask DEF Init
<1>3. OwnIDs
  BY InitHome DEF HomeInv
<1>4. QED
  BY <1>1, <1>2, <1>3 DEF ListInv, SentFounded, EnteringListed, Reading, ListsAreCurrent

-----------------------------------------------------------------------------
(* The theorem *)

\* The lists one client gets from HandleChatRoomListReq never lose a room or a
\* user and show a user in every room it was told it had entered, while rooms
\* read one by one are created and entered by other workers: the directory is
\* copied first, entries are never taken out, and the worker that makes the
\* list is the one that sends the session its EnterChatRoomAck.  It holds while
\* CreateRoom has not used up the uint16 IDs and no room has 2^16 entries.
THEOREM ListsCurrent ==
  ASSUME MaxRooms < RoomMod
  PROVE  Spec /\ []FewUsers => []ListsAreCurrent
<1> DEFINE Inv == IInv /\ OwnIDs /\ ListInv
<1>1. Init => Inv
  BY InitIInv, InitList
<1>2. Inv /\ FewUsers /\ [Next]_vars => Inv'
  <2> SUFFICES ASSUME IInv, OwnIDs, ListInv, FewUsers, [Next]_vars
               PROVE  IInv' /\ OwnIDs' /\ ListInv'
    OBVIOUS
  <2>1. IInv' /\ TypeInv
    BY StepIInv DEF IInv
  <2>2. OwnIDs'
    BY <2>1, StepOwnIDs
  <2>3. ListInv'
    BY StepListInv
  <2>4. QED
    BY <2>1, <2>2, <2>3
<1>3. Inv => ListsAreCurrent
  BY DEF ListInv
<1> HIDE DEF Inv
<1>4. QED
  BY <1>1, <1>2, <1>3, PTL DEF Spec

-----------------------------------------------------------------------------
(* How ChatRooms serves its clients *)

Served   == [p \in Player |-> Serving(p)]
Speakers == [r \in Room |-> Speaker(r)]
Heards   == [r \in Room |-> HeardBy(r)]
Insides  == [r \in Room |-> Inside(r)]

\* A worker without a handler has none's data left.
AtRest == \A w \in Worker : task[w].pc = "idle" => task[w] = Idle

\* What a handler's record says when it begins.
Is(t, c, p, r, n) == t.pc = c /\ t.player = p /\ t.room = r /\ t.n = n

LEMMA Begins ==
  ASSUME NEW c, NEW p, NEW r, NEW n, NEW l
  PROVE  /\ Is([Idle EXCEPT !.pc = c, !.player = p, !.room = r], c, p, r, 0)
         /\ Is([Idle EXCEPT !.pc = c, !.player = p, !.room = r, !.n = n], c, p, r, n)
         /\ Is([Idle EXCEPT !.pc = c, !.player = p, !.left = l], c, p, 0, 0)
BY DEF Idle, Is

LEMMA StepAtRest == ASSUME TypeInv, AtRest, [Next]_vars PROVE AtRest'
<1> SUFFICES ASSUME NEW w \in Worker, task'[w].pc = "idle" PROVE task'[w] = Idle
  BY DEF AtRest
<1>1. CASE task'[w] = task[w]
  BY <1>1 DEF AtRest
<1>2. CASE WorkerStep(w) /\ task'[w] # task[w]
  <2>1. SendAck(w) \/ Unlock(w) \/ SendList(w)
    BY <1>2, Moved, Zenon DEF WorkerStep
  <2>2. task' = [task EXCEPT ![w] = Idle]
    BY <2>1, Zenon DEF SendAck, Unlock, SendList
  <2>3. QED
    BY <2>2, TaskNow
<1>3. QED
  BY <1>1, <1>2, OwnStep

\* A step of p's worker that is for p changes at most how p is served.
LEMMA ServedMoves ==
  ASSUME NEW w \in Worker, NEW p \in Player, Owner[p] = w,
         \A u \in Worker \ {w} : task'[u] = task[u],
         task[w].player \in {p, NoPlayer}, task'[w].player \in {p, NoPlayer}
  PROVE  /\ Served' = [Served EXCEPT ![p] = Serving(p)']
         /\ Serving(p)' = Serving(p) => Served' = Served
<1>1. ASSUME NEW q \in Player, q # p PROVE Serving(q)' = Serving(q)
  <2>1. CASE Owner[q] = w
    <3>1. task[Owner[q]].player # q /\ task'[Owner[q]].player # q
      BY <1>1, <2>1, ConstantsOK
    <3>2. QED
      BY <3>1 DEF Serving
  <2>2. CASE Owner[q] # w
    <3>1. task'[Owner[q]] = task[Owner[q]]
      BY <2>2, ConstantsOK
    <3>2. QED
      BY <3>1 DEF Serving, Doing
  <2>3. QED
    BY <2>1, <2>2
<1>2. QED
  BY <1>1 DEF Served

\* A worker that broadcasts is the only one in its room's mutex; steps of the
\* others leave what is said there.
LEMMA RoomsStay ==
  ASSUME HoldersSend, NEW w \in Worker, \A u \in Worker \ {w} : task'[u] = task[u],
         task[w].pc # "send" \/ task'[w] = task[w], holder' = holder,
         NEW S \in SUBSET Room, \A r \in S : members'[r] = members[r]
  PROVE  \A r \in S : Speaker(r)' = Speaker(r) /\ HeardBy(r)' = HeardBy(r) /\ Inside(r)' = Inside(r)
<1> TAKE r \in S
<1>1. holder[r] # NoPlayer => task'[holder[r]] = task[holder[r]]
  BY DEF HoldersSend
<1>2. Speaker(r)' = Speaker(r)
  BY <1>1 DEF Speaker
<1>3. HeardBy(r)' = HeardBy(r) /\ Inside(r)' = Inside(r)
  <2>1. members'[r] = members[r]
    OBVIOUS
  <2>2. CASE holder[r] = NoPlayer
    BY <2>1, <2>2 DEF HeardBy, Inside
  <2>3. CASE holder[r] # NoPlayer
    BY <1>1, <2>1, <2>3 DEF HeardBy, Inside
  <2>4. QED
    BY <2>2, <2>3
<1>4. QED
  BY <1>2, <1>3

\* Nothing is done in any room.
RoomsKept == Insides' = Insides /\ Speakers' = Speakers /\ Heards' = Heards

LEMMA AllStay ==
  ASSUME HoldersSend, NEW w \in Worker, \A u \in Worker \ {w} : task'[u] = task[u],
         task[w].pc # "send" \/ task'[w] = task[w], holder' = holder, members' = members
  PROVE  RoomsKept
<1>1. \A r \in Room : Speaker(r)' = Speaker(r) /\ HeardBy(r)' = HeardBy(r) /\ Inside(r)' = Inside(r)
  <2>1. \A r \in Room : members'[r] = members[r]
    OBVIOUS
  <2>2. QED
    BY <2>1, RoomsStay
<1>2. QED
  BY <1>1 DEF RoomsKept, Insides, Speakers, Heards

\* How p is served when its worker has another task.
LEMMA ServingOwn ==
  ASSUME NEW w, NEW p \in Player, Owner[p] = w
  PROVE  /\ task[w].player = p =>
              Serving(p) = [do |-> Doing(w), room |-> task[w].room, n |-> task[w].n]
         /\ task[w] = Idle => Serving(p) = Service!Nothing
BY ConstantsOK DEF Serving, Service!Nothing, Idle

\* A request that is taken is begun, if its handler is as ChatService says.
LEMMA BeginRefines ==
  ASSUME TypeInv, AtRest, HoldersSend, NEW w \in Worker, NEW p \in Player, NEW do, NEW v, NEW c,
         NEW r, NEW n, Takes(w, p, do), task' = [task EXCEPT ![w] = v], Is(v, c, p, r, n),
         [do |-> (IF c = "create" THEN "enter" ELSE c), room |-> r, n |-> n]
           \in Service!Services(Head(requests[p])),
         c \in {"create", "enter", "chat", "list"},
         UNCHANGED <<connected, members, holder, out>>
  PROVE  Service!Begin(p)
<1>1. /\ Owner[p] = w /\ task[w] = Idle /\ task[w].player = NoPlayer /\ task[w].pc = "idle"
      /\ requests[p] # <<>> /\ connected[p] /\ requests' = [requests EXCEPT ![p] = Tail(@)]
  BY DEF Takes, Runs, Idle
<1>2. task'[w] = v /\ \A u \in Worker \ {w} : task'[u] = task[u]
  BY TaskNow
<1>3. Serving(p) = Service!Nothing
  BY <1>1, ServingOwn
<1>4. Serving(p)' = [do |-> (IF c = "create" THEN "enter" ELSE c), room |-> r, n |-> n]
  BY <1>1, <1>2 DEF Serving, Doing, Is
<1>5. Served' = [Served EXCEPT ![p] = Serving(p)']
  BY <1>1, <1>2, ServedMoves DEF Is
<1>6. RoomsKept
  BY <1>1, <1>2, AllStay
<1>7. QED
  BY <1>1, <1>3, <1>4, <1>5, <1>6 DEF Service!Begin, RoomsKept, Served, Insides, Speakers, Heards

LEMMA StartsRefine ==
  ASSUME TypeInv, TypeInv', AtRest, HoldersSend, NEW w \in Worker, NEW p \in Player,
         CreateRoom(w, p) \/ StartEnter(w, p) \/ StartChat(w, p) \/ StartList(w, p)
  PROVE  Service!Begin(p)
<1> DEFINE q == Head(requests[p])
<1>1. CASE CreateRoom(w, p)
  <2> DEFINE v == [Idle EXCEPT !.pc = "create", !.player = p, !.room = roomNumber']
  <2>1. /\ Takes(w, p, "create") /\ task' = [task EXCEPT ![w] = v]
        /\ UNCHANGED <<connected, members, holder, out>>
    BY <1>1 DEF CreateRoom
  <2>2. Is(v, "create", p, roomNumber', 0)
    BY Begins
  <2> HIDE DEF v
  <2>3. roomNumber' \in Room
    <3>1. task'[w] = v
      BY <2>1, TaskNow
    <3>2. QED
      BY <2>2, <3>1 DEF Is, TypeInv, Working
  <2>4. q.do = "create"
    BY <2>1 DEF Takes
  <2>5. [do |-> "enter", room |-> roomNumber', n |-> 0] \in Service!Services(q)
    BY <2>3, <2>4 DEF Service!Services
  <2>6. QED
    BY <2>1, <2>2, <2>5, BeginRefines
<1>2. CASE StartEnter(w, p)
  <2> DEFINE r == directory[q.id]
             v == [Idle EXCEPT !.pc = "enter", !.player = p, !.room = r]
  <2>1. /\ Takes(w, p, "enter") /\ task' = [task EXCEPT ![w] = v]
        /\ UNCHANGED <<connected, members, holder, out>>
    BY <1>2 DEF StartEnter
  <2>2. Is(v, "enter", p, r, 0)
    BY Begins
  <2> HIDE DEF v, r
  <2>3. r \in Room
    <3>1. task'[w] = v
      BY <2>1, TaskNow
    <3>2. QED
      BY <2>2, <3>1 DEF Is, TypeInv, Working
  <2>4. q.do = "enter"
    BY <2>1 DEF Takes
  <2>5. [do |-> "enter", room |-> r, n |-> 0] \in Service!Services(q)
    BY <2>3, <2>4 DEF Service!Services
  <2>6. QED
    BY <2>1, <2>2, <2>5, BeginRefines
<1>3. CASE StartChat(w, p)
  <2> DEFINE r == directory[chatRoomID[p]]
             v == [Idle EXCEPT !.pc = "chat", !.player = p, !.room = r, !.n = q.n]
  <2>1. /\ Takes(w, p, "chat") /\ task' = [task EXCEPT ![w] = v]
        /\ UNCHANGED <<connected, members, holder, out>>
    BY <1>3 DEF StartChat
  <2>2. Is(v, "chat", p, r, q.n)
    BY Begins
  <2> HIDE DEF v, r
  <2>3. r \in Room
    <3>1. task'[w] = v
      BY <2>1, TaskNow
    <3>2. QED
      BY <2>2, <3>1 DEF Is, TypeInv, Working
  <2>4. q.do = "chat"
    BY <2>1 DEF Takes
  <2>5. [do |-> "chat", room |-> r, n |-> q.n] \in Service!Services(q)
    BY <2>3, <2>4 DEF Service!Services
  <2>6. QED
    BY <2>1, <2>2, <2>5, BeginRefines
<1>4. CASE StartList(w, p)
  <2> DEFINE l == {directory[i] : i \in RoomID} \ {0}
             v == [Idle EXCEPT !.pc = "list", !.player = p, !.left = l]
  <2>1. /\ Takes(w, p, "list") /\ task' = [task EXCEPT ![w] = v]
        /\ UNCHANGED <<connected, members, holder, out>>
    BY <1>4 DEF StartList
  <2>2. Is(v, "list", p, 0, 0)
    BY Begins
  <2> HIDE DEF v, l
  <2>3. q.do = "list"
    BY <2>1 DEF Takes
  <2>4. [do |-> "list", room |-> 0, n |-> 0] \in Service!Services(q)
    BY <2>3 DEF Service!Services
  <2>5. QED
    BY <2>1, <2>2, <2>4, BeginRefines
<1>5. QED
  BY <1>1, <1>2, <1>3, <1>4

\* Clients, and requests that are lost.
LEMMA ClientsRefine ==
  ASSUME TypeInv, NEW p \in Player, ClientAsks(p) \/ Disconnect(p)
  PROVE  Service!Ask(p) \/ Service!HangUp(p)
<1>1. UNCHANGED <<Served, Insides, Speakers, Heards>>
  <2>1. UNCHANGED <<task, members, holder>>
    BY DEF ClientAsks, Disconnect
  <2>2. QED
    BY <2>1 DEF Served, Insides, Speakers, Heards, Serving, Doing, Inside, Speaker, HeardBy
<1>2. CASE ClientAsks(p)
  <2>1. PICK q : requests' = [requests EXCEPT ![p] = Append(@, q)]
    BY <1>2 DEF ClientAsks
  <2>2. q \in Request
    <3>1. Append(requests[p], q) \in Seq(Request)
      BY <1>2, <2>1, AskType DEF TypeInv, TypeOK
    <3>2. Append(requests[p], q)[Len(requests[p]) + 1] = q /\ requests[p] \in Seq(Request)
      BY AppendProperties DEF TypeInv, TypeOK
    <3>3. QED
      BY <3>1, <3>2
  <2>3. connected[p] /\ UNCHANGED <<connected, out>>
    BY <1>2 DEF ClientAsks
  <2>4. QED
    BY <1>1, <2>1, <2>2, <2>3 DEF Service!Ask, Served, Insides, Speakers, Heards
<1>3. CASE Disconnect(p)
  BY <1>1, <1>3 DEF Disconnect, Service!HangUp, Served, Insides, Speakers, Heards
<1>4. QED
  BY <1>2, <1>3

LEMMA DropRefines ==
  ASSUME TypeInv, NEW w \in Worker, NEW p \in Player, DropRequest(w, p)
  PROVE  Service!Lose(p)
<1>1. /\ Owner[p] = w /\ task[w] = Idle /\ requests[p] # <<>> /\ ~connected[p]
      /\ requests' = [requests EXCEPT ![p] = Tail(@)]
      /\ UNCHANGED <<connected, members, holder, out, task>>
  BY DEF DropRequest, Runs
<1>2. Serving(p) = Service!Nothing
  BY <1>1, ServingOwn
<1>3. UNCHANGED <<Served, Insides, Speakers, Heards>>
  BY <1>1 DEF Served, Insides, Speakers, Heards, Serving, Doing, Inside, Speaker, HeardBy
<1>4. QED
  BY <1>1, <1>2, <1>3 DEF Service!Lose, Served, Insides, Speakers, Heards

\* A new entry brings its player in, and nobody out.
LEMMA NewInside ==
  ASSUME NEW r \in Room, members[r] \in Seq(Entry), NEW e \in Entry,
         members'[r] = WithEntry(r, e)
  PROVE  Inside(r)' = Inside(r) \cup {e.player}
<1>1. /\ \E i \in 1 .. Len(WithEntry(r, e)) : WithEntry(r, e)[i] = e
      /\ \A j \in 1 .. Len(members[r]) :
           \E i \in 1 .. Len(WithEntry(r, e)) : WithEntry(r, e)[i] = members[r][j]
      /\ \A i \in 1 .. Len(WithEntry(r, e)) : WithEntry(r, e)[i] = e \/
           \E j \in 1 .. Len(members[r]) : WithEntry(r, e)[i] = members[r][j]
  BY EntryAdded, ZenonT(60)
<1> DEFINE q == members'[r]
<1>2. /\ \E i \in 1 .. Len(q) : q[i] = e
      /\ \A j \in 1 .. Len(members[r]) : \E i \in 1 .. Len(q) : q[i] = members[r][j]
      /\ \A i \in 1 .. Len(q) : q[i] = e \/ \E j \in 1 .. Len(members[r]) : q[i] = members[r][j]
  BY <1>1, ZenonT(60)
<1>3. \A x : x \in Inside(r)' <=> \E i \in 1 .. Len(q) : x = q[i].player
  BY DEF Inside
<1>4. \A x : x \in Inside(r) <=> \E j \in 1 .. Len(members[r]) : x = members[r][j].player
  BY DEF Inside
<1> HIDE DEF q
<1>5. ASSUME NEW x \in Inside(r)' PROVE x \in Inside(r) \cup {e.player}
  <2>1. PICK i \in 1 .. Len(q) : x = q[i].player
    BY <1>3
  <2>2. q[i] = e \/ \E j \in 1 .. Len(members[r]) : q[i] = members[r][j]
    BY <1>2
  <2>3. QED
    BY <1>4, <2>1, <2>2
<1>6. ASSUME NEW x \in Inside(r) PROVE x \in Inside(r)'
  <2>1. PICK j \in 1 .. Len(members[r]) : x = members[r][j].player
    BY <1>4
  <2>2. PICK i \in 1 .. Len(q) : q[i] = members[r][j]
    BY <1>2
  <2>3. QED
    BY <1>3, <2>1, <2>2
<1>7. e.player \in Inside(r)'
  BY <1>2, <1>3
<1>8. QED
  BY <1>5, <1>6, <1>7

\* Enter comes in: the new entry is the only thing that changes, and nobody
\* speaks in the room.
LEMMA EnterRefines ==
  ASSUME TypeInv, HoldersSend, NEW w \in Worker, Enter(w),
         NEW p \in Player, p = task[w].player, NEW r \in Room, r = task[w].room
  PROVE  Service!ComeIn(p)
<1>e. PICK e \in Entry : e = [key |-> chatRoomID[p], player |-> p]
  BY DEF TypeInv, TypeOK, Entry
<1>1. /\ task[w].pc \in {"create", "enter"} /\ holder[r] = NoPlayer
      /\ members' = [members EXCEPT ![r] = WithEntry(r, e)]
      /\ UNCHANGED <<requests, connected, holder, out>>
  BY <1>e DEF Enter, Free
<1>2. task[w] \in TaskType /\ Owner[p] = w
  BY <1>1, Tasks
<1>3. /\ task'[w] = [task[w] EXCEPT !.pc = "ack"] /\ task'[w].pc = "ack"
      /\ \A u \in Worker \ {w} : task'[u] = task[u]
  BY Moved DEF WorkerStep
<1>4. task'[w].player = p /\ task'[w].room = r /\ task'[w].n = task[w].n
  BY <1>2, <1>3 DEF TaskType
<1>5. Serving(p) = [do |-> "enter", room |-> r, n |-> task[w].n]
  BY <1>1, <1>2 DEF Serving, Doing
<1>6. Serving(p)' = [do |-> "enter", room |-> r, n |-> task[w].n]
  BY <1>2, <1>3, <1>4 DEF Serving, Doing
<1>7. Served' = Served
  BY <1>2, <1>3, <1>4, <1>5, <1>6, ServedMoves
<1>8. \A x \in Room : holder[x] # NoPlayer => task'[holder[x]] = task[holder[x]]
  BY <1>1, <1>3 DEF HoldersSend
<1>9. members \in [Room -> Seq(Entry)]
  BY DEF TypeInv, TypeOK, Entry
<1>10. members'[r] = WithEntry(r, e) /\ \A x \in Room \ {r} : members'[x] = members[x]
  BY <1>1, <1>2, <1>9
<1>11. Speakers' = Speakers /\ Heards' = Heards
  <2>1. \A x \in Room : Speaker(x)' = Speaker(x)
    BY <1>1, <1>8 DEF Speaker
  <2>2. ASSUME NEW x \in Room PROVE HeardBy(x)' = HeardBy(x)
    <3>1. holder'[x] = holder[x] /\ holder[r] = NoPlayer
      BY <1>1
    <3>2. CASE holder[x] = NoPlayer
      BY <3>1, <3>2, Zenon DEF HeardBy
    <3>3. CASE holder[x] # NoPlayer
      <4>1. x \in Room \ {r}
        BY <3>1, <3>3
      <4>2. task'[holder'[x]] = task[holder[x]] /\ members'[x] = members[x]
        BY <1>8, <1>10, <3>1, <3>3, <4>1, Zenon
      <4>3. QED
        BY <3>1, <4>2, Zenon DEF HeardBy
    <3>4. QED
      BY <3>2, <3>3
  <2>3. QED
    BY <2>1, <2>2 DEF Speakers, Heards
<1>12. Inside(r)' = Inside(r) \cup {p}
  <2>1. members[r] \in Seq(Entry) /\ members'[r] = WithEntry(r, e) /\ e.player = p
    BY <1>e, <1>9, <1>10
  <2>2. QED
    BY <2>1, NewInside
<1>13. Insides' = [Insides EXCEPT ![r] = @ \cup {p}]
  <2>1. \A x \in Room \ {r} : Inside(x)' = Inside(x)
    BY <1>10 DEF Inside
  <2>2. QED
    BY <1>2, <1>12, <2>1 DEF Insides
<1>14. Speaker(r) = NoPlayer
  BY <1>1 DEF Speaker
<1>15. Served[p].do = "enter" /\ Served[p].room = r /\ Speakers[r] = NoPlayer
  BY <1>5, <1>14 DEF Served, Speakers
<1>16. QED
  BY <1>1, <1>7, <1>11, <1>13, <1>15
     DEF Service!ComeIn, Served, Insides, Speakers, Heards

\* An answer ends its handler.
LEMMA AnswerRefines ==
  ASSUME TypeInv, Told, HoldersSend, NEW w \in Worker, SendAck(w) \/ SendList(w),
         NEW p \in Player, p = task[w].player
  PROVE  Service!Answer(p)
<1>1. /\ task[w].pc \in {"ack", "list"} /\ task' = [task EXCEPT ![w] = Idle]
      /\ UNCHANGED <<requests, connected, members, holder>>
  BY DEF SendAck, SendList
<1>2. task[w] \in TaskType /\ Owner[p] = w
  BY <1>1, Tasks
<1>3. task'[w] = Idle /\ task'[w].player = NoPlayer /\ \A u \in Worker \ {w} : task'[u] = task[u]
  <2>1. task'[w] = Idle /\ \A u \in Worker \ {w} : task'[u] = task[u]
    BY <1>1, TaskNow
  <2>2. QED
    BY <2>1 DEF Idle
<1>4. Serving(p)' = Service!Nothing
  BY <1>2, <1>3, ConstantsOK DEF Serving, Service!Nothing
<1>5. Served' = [Served EXCEPT ![p] = Service!Nothing]
  BY <1>2, <1>3, <1>4, ServedMoves
<1>6. RoomsKept
  BY <1>1, <1>3, AllStay
<1>7. /\ Serving(p).do = "enter" => Serving(p).room \in Room /\ p \in Inside(Serving(p).room)
      /\ \E m \in (CASE Serving(p).do = "enter" -> {[what |-> "entered", room |-> Serving(p).room]}
                     [] Serving(p).do = "list" -> {Listed(info) : info \in Info}
                     [] OTHER -> {}) :
           out' = [out EXCEPT ![p] = Append(@, m)]
  <2>1. CASE SendAck(w)
    <3>1. task[w].pc = "ack" /\ out' = [out EXCEPT ![p] = Append(@, Entered(task[w].room))]
      BY <2>1 DEF SendAck
    <3>2. Serving(p).do = "enter" /\ Serving(p).room = task[w].room
      BY <1>2, <3>1 DEF Serving, Doing
    <3>3. task[w].room \in Room /\ In(p, task[w].room)
      BY <3>1, Tasks DEF Told
    <3>4. p \in Inside(task[w].room)
      BY <3>3 DEF In, Inside
    <3>5. QED
      BY <3>1, <3>2, <3>3, <3>4 DEF Entered
  <2>2. CASE SendList(w)
    <3>1. task[w].pc = "list" /\ out' = [out EXCEPT ![p] = Append(@, Listed(task[w].info))]
      BY <2>2 DEF SendList
    <3>2. Serving(p).do = "list"
      BY <1>2, <3>1 DEF Serving, Doing
    <3>3. task[w].info \in Info
      BY <1>2 DEF TaskType
    <3>4. QED
      BY <3>1, <3>2, <3>3
  <2>3. QED
    BY <2>1, <2>2
<1>8. Served[p] = Serving(p) /\ \A r \in Room : Insides[r] = Inside(r)
  BY <1>2 DEF Served, Insides
<1>9. QED
  BY <1>1, <1>2, <1>5, <1>6, <1>7, <1>8
     DEF Service!Answer, Service!Answers, RoomsKept, Served, Insides, Speakers, Heards

\* Lock begins to speak: its session is inside, and nobody has heard it yet.
LEMMA LockRefines ==
  ASSUME TypeInv, Heard, HoldersSend, SenderIsMember, NEW w \in Worker, Lock(w),
         NEW p \in Player, p = task[w].player, NEW r \in Room, r = task[w].room
  PROVE  Service!Speak(p)
<1>1. /\ task[w].pc = "chat" /\ holder[r] = NoPlayer /\ holder' = [holder EXCEPT ![r] = w]
      /\ UNCHANGED <<requests, connected, members, out>>
  BY DEF Lock, Free
<1>2. task[w] \in TaskType /\ Owner[p] = w /\ task[w].sent = 0 /\ In(p, r)
  BY <1>1, Tasks DEF Heard, SenderIsMember, In
<1>3. /\ task'[w] = [task[w] EXCEPT !.pc = "send"] /\ task'[w].pc = "send"
      /\ \A u \in Worker \ {w} : task'[u] = task[u]
  BY Moved, Zenon DEF WorkerStep
<1>4. /\ task'[w].player = p /\ task'[w].room = r /\ task'[w].n = task[w].n
      /\ task'[w].sent = 0
  BY <1>2, <1>3 DEF TaskType
<1>5. Serving(p) = [do |-> "chat", room |-> r, n |-> task[w].n]
  BY <1>1, <1>2 DEF Serving, Doing
<1>6. Serving(p)' = [do |-> "chat", room |-> r, n |-> task[w].n]
  BY <1>2, <1>3, <1>4 DEF Serving, Doing
<1>7. Served' = Served
  BY <1>2, <1>3, <1>4, <1>5, <1>6, ServedMoves
<1>8. holder \in [Room -> Worker \cup {NoPlayer}] /\ NoPlayer \notin Worker
  BY ConstantsOK DEF TypeInv, TypeOK
<1>9. holder'[r] = w /\ \A x \in Room \ {r} : holder'[x] = holder[x]
  BY <1>1, <1>8
<1>10. \A x \in Room \ {r} : holder[x] # NoPlayer => task'[holder[x]] = task[holder[x]]
  BY <1>1, <1>3 DEF HoldersSend
<1>11. Speaker(r) = NoPlayer /\ Speaker(r)' = p
  BY <1>1, <1>4, <1>8, <1>9 DEF Speaker
<1>12. HeardBy(r)' = HeardBy(r)
  <2>1. HeardBy(r) = {}
    BY <1>1 DEF HeardBy
  <2>2. HeardBy(r)' = {}
    BY <1>4, <1>8, <1>9 DEF HeardBy
  <2>3. QED
    BY <2>1, <2>2
<1>13. Speakers' = [Speakers EXCEPT ![r] = p]
  <2>1. \A x \in Room \ {r} : Speaker(x)' = Speaker(x)
    BY <1>9, <1>10 DEF Speaker
  <2>2. QED
    BY <1>11, <2>1 DEF Speakers
<1>14. Heards' = Heards
  <2>1. ASSUME NEW x \in Room \ {r} PROVE HeardBy(x)' = HeardBy(x)
    <3>1. holder'[x] = holder[x] /\ members' = members
      BY <1>1, <1>9, Zenon
    <3>2. holder[x] # NoPlayer => task'[holder'[x]] = task[holder[x]]
      BY <1>10, <3>1, Zenon
    <3>3. QED
      BY <3>1, <3>2, Zenon DEF HeardBy
  <2>2. QED
    BY <1>12, <2>1 DEF Heards
<1>15. Insides' = Insides
  BY <1>1 DEF Insides, Inside
<1>16. /\ Served[p].do = "chat" /\ Served[p].room = r /\ Speakers[r] = NoPlayer
       /\ p \in Insides[r]
  BY <1>2, <1>5, <1>11 DEF Served, Speakers, Insides, Inside, In
<1>17. QED
  BY <1>1, <1>7, <1>13, <1>14, <1>15, <1>16
     DEF Service!Speak, Served, Insides, Speakers, Heards

\* What a worker in its broadcast does is known to all others' rooms not at all.
LEMMA Speaking ==
  ASSUME TypeInv, Broadcasting, HoldersSend, NEW w \in Worker, task[w].pc = "send",
         \A u \in Worker \ {w} : task'[u] = task[u],
         NEW p \in Player, p = task[w].player, NEW r \in Room, r = task[w].room
  PROVE  /\ task[w] \in TaskType /\ Owner[p] = w /\ w # NoPlayer /\ holder[r] = w
         /\ Serving(p) = [do |-> "chat", room |-> r, n |-> task[w].n] /\ Speaker(r) = p
         /\ \A x \in Room \ {r} : holder[x] # NoPlayer => task'[holder[x]] = task[holder[x]]
<1>1. task[w] \in TaskType /\ Owner[p] = w /\ w # NoPlayer /\ holder[r] = w
  BY Tasks, ConstantsOK DEF Broadcasting
<1>2. Serving(p) = [do |-> "chat", room |-> r, n |-> task[w].n]
  BY <1>1 DEF Serving, Doing
<1>3. Speaker(r) = p
  BY <1>1 DEF Speaker
<1>4. \A x \in Room \ {r} : holder[x] # NoPlayer => task'[holder[x]] = task[holder[x]]
  BY DEF HoldersSend
<1>5. QED
  BY <1>1, <1>2, <1>3, <1>4

\* The session of the next entry hears the message.
LEMMA SendNextRefines ==
  ASSUME TypeInv, Broadcasting, HoldersSend, NEW w \in Worker, SendNext(w),
         NEW p \in Player, p = task[w].player, NEW r \in Room, r = task[w].room
  PROVE  \E q \in Player : Service!Hear(p, q)
<1>1. PICK i \in Nat, q \in Player :
        /\ i = task[w].sent /\ i + 1 \in 1 .. Len(members[r]) /\ q = members[r][i + 1].player
        /\ out' = [out EXCEPT ![q] = Append(@, Chat(r, p, task[w].n))]
  BY NextSent DEF Receiver, Sends
<1>2. /\ task[w].pc = "send" /\ UNCHANGED <<requests, connected, members, holder>>
  BY DEF SendNext
<1>3. /\ task'[w] = [task[w] EXCEPT !.sent = task[w].sent + 1] /\ task'[w].pc = "send"
      /\ \A u \in Worker \ {w} : task'[u] = task[u]
  BY Moved, Zenon DEF WorkerStep
<1>4. /\ task[w] \in TaskType /\ Owner[p] = w /\ w # NoPlayer /\ holder[r] = w
      /\ Serving(p) = [do |-> "chat", room |-> r, n |-> task[w].n] /\ Speaker(r) = p
      /\ \A x \in Room \ {r} : holder[x] # NoPlayer => task'[holder[x]] = task[holder[x]]
  <2>1. task[w].pc = "send" /\ \A u \in Worker \ {w} : task'[u] = task[u]
    BY <1>2, <1>3, Zenon
  <2>2. QED
    BY ONLY TypeInv, Broadcasting, HoldersSend, w \in Worker, p \in Player, p = task[w].player,
            r \in Room, r = task[w].room, <2>1, Speaking
<1>5. /\ task'[w].player = p /\ task'[w].room = r /\ task'[w].n = task[w].n
      /\ task'[w].sent = i + 1
  BY <1>1, <1>3, <1>4, Zenon DEF TaskType
<1>6. Serving(p)' = [do |-> "chat", room |-> r, n |-> task[w].n]
  BY <1>3, <1>4, <1>5 DEF Serving, Doing
<1>7. Served' = Served
  BY <1>3, <1>4, <1>5, <1>6, ServedMoves
<1>8. Speakers' = Speakers
  <2>1. \A x \in Room : Speaker(x)' = Speaker(x)
    BY <1>2, <1>4, <1>5 DEF Speaker
  <2>2. QED
    BY <2>1 DEF Speakers
<1>9. Insides' = Insides
  BY <1>2 DEF Insides, Inside
<1>10. HeardBy(r)' = HeardBy(r) \cup {q}
  <2>1. HeardBy(r) = {members[r][j].player : j \in 1 .. i}
    BY <1>1, <1>4, Zenon DEF HeardBy
  <2>2. HeardBy(r)' = {members[r][j].player : j \in 1 .. i + 1}
    BY <1>2, <1>4, <1>5 DEF HeardBy
  <2>3. \A j : j \in 1 .. i + 1 <=> j \in 1 .. i \/ j = i + 1
    BY OneMore, Zenon
  <2>4. q = members[r][i + 1].player
    BY <1>1
  <2>5. QED
    BY <2>1, <2>2, <2>3, <2>4, Zenon
<1>11. Heards' = [Heards EXCEPT ![r] = @ \cup {q}]
  <2>1. ASSUME NEW x \in Room \ {r} PROVE HeardBy(x)' = HeardBy(x)
    <3>1. holder'[x] = holder[x] /\ members' = members
      BY <1>2
    <3>2. holder[x] # NoPlayer => task'[holder'[x]] = task[holder[x]]
      BY <1>4, <3>1, Zenon
    <3>3. QED
      BY <3>1, <3>2 DEF HeardBy
  <2>2. QED
    BY <1>10, <2>1 DEF Heards
<1>12. /\ Served[p] = [do |-> "chat", room |-> r, n |-> task[w].n] /\ Speakers[r] = p
       /\ q \in Insides[r]
  BY <1>1, <1>4, Zenon DEF Served, Speakers, Insides, Inside
<1>13. Served[p].do = "chat" /\ Served[p].room = r /\ Served[p].n = task[w].n
  BY <1>12
<1>14. Chat(r, p, task[w].n) = [what |-> "chat", room |-> r, from |-> p, n |-> task[w].n]
  BY Zenon DEF Chat
<1>15. out' = [out EXCEPT ![q] =
                       Append(@, [what |-> "chat", room |-> Served[p].room, from |-> p, n |-> Served[p].n])]
  BY <1>1, <1>13, <1>14, Zenon
<1>16. Service!Hear(p, q)
  <2>1. Service!Said(p) = [what |-> "chat", room |-> Served[p].room, from |-> p, n |-> Served[p].n]
    BY DEF Service!Said, Served
  <2>2. out' = [out EXCEPT ![q] = Append(@, Service!Said(p))]
    BY <1>15, <2>1
  <2>3. QED
    BY <1>2, <1>7, <1>8, <1>9, <1>11, <1>12, <1>13, <2>2
       DEF Service!Hear, Served, Insides, Speakers, Heards
<1>17. QED
  BY <1>16, Zenon

\* When the mutex is released, all entries were passed.
LEMMA UnlockRefines ==
  ASSUME TypeInv, Broadcasting, HoldersSend, NEW w \in Worker, Unlock(w),
         NEW p \in Player, p = task[w].player, NEW r \in Room, r = task[w].room
  PROVE  Service!Finish(p)
<1>1. /\ task[w].pc = "send" /\ task[w].sent = Len(members[r])
      /\ holder' = [holder EXCEPT ![r] = NoPlayer] /\ task' = [task EXCEPT ![w] = Idle]
      /\ UNCHANGED <<requests, connected, members, out>>
  BY DEF Unlock
<1>2. task'[w] = Idle /\ \A u \in Worker \ {w} : task'[u] = task[u]
  BY <1>1, TaskNow
<1>3. task'[w].player = NoPlayer
  BY <1>2 DEF Idle
<1>4. /\ task[w] \in TaskType /\ Owner[p] = w /\ w # NoPlayer /\ holder[r] = w
      /\ Serving(p) = [do |-> "chat", room |-> r, n |-> task[w].n] /\ Speaker(r) = p
      /\ \A x \in Room \ {r} : holder[x] # NoPlayer => task'[holder[x]] = task[holder[x]]
  BY <1>1, <1>2, Speaking
<1>5. Serving(p)' = Service!Nothing
  BY <1>3, <1>4, ConstantsOK DEF Serving, Service!Nothing
<1>6. Served' = [Served EXCEPT ![p] = Service!Nothing]
  BY <1>2, <1>3, <1>4, <1>5, ServedMoves
<1>7. holder'[r] = NoPlayer /\ \A x \in Room \ {r} : holder'[x] = holder[x]
  BY <1>1 DEF TypeInv, TypeOK
<1>8. Speakers' = [Speakers EXCEPT ![r] = NoPlayer] /\ Heards' = [Heards EXCEPT ![r] = {}]
  <2>1. Speaker(r)' = NoPlayer /\ HeardBy(r)' = {}
    BY <1>7 DEF Speaker, HeardBy
  <2>2. \A x \in Room \ {r} : Speaker(x)' = Speaker(x)
    BY <1>4, <1>7 DEF Speaker
  <2>3. ASSUME NEW x \in Room \ {r} PROVE HeardBy(x)' = HeardBy(x)
    <3>1. holder'[x] = holder[x] /\ members' = members
      BY <1>1, <1>7
    <3>2. holder[x] # NoPlayer => task'[holder'[x]] = task[holder[x]]
      BY <1>4, <3>1
    <3>3. QED
      BY <3>1, <3>2 DEF HeardBy
  <2>4. QED
    BY <2>1, <2>2, <2>3 DEF Speakers, Heards
<1>9. Insides' = Insides
  BY <1>1 DEF Insides, Inside
<1>10. /\ Served[p].do = "chat" /\ Served[p].room = r /\ Speakers[r] = p
       /\ Heards[r] = Insides[r]
  <2>1. Served[p] = Serving(p) /\ Speakers[r] = Speaker(r)
    BY DEF Served, Speakers
  <2>2. HeardBy(r) = Inside(r)
    BY <1>1, <1>4 DEF HeardBy, Inside
  <2>3. Heards[r] = HeardBy(r) /\ Insides[r] = Inside(r)
    BY DEF Heards, Insides
  <2>4. QED
    BY <1>4, <2>1, <2>2, <2>3
<1>11. QED
  BY <1>1, <1>6, <1>8, <1>9, <1>10 DEF Service!Finish, Served, Insides, Speakers, Heards

\* Reading a room for a list is not seen.
LEMMA ReadRoomRefines ==
  ASSUME TypeInv, HoldersSend, NEW w \in Worker, ReadRoom(w)
  PROVE  UNCHANGED Service!service
<1>1. PICK l, i : task' = [task EXCEPT ![w] = [task[w] EXCEPT !.left = l, !.info = i]]
  BY DEF ReadRoom
<1>2. /\ task[w].pc = "list" /\ UNCHANGED <<requests, connected, members, holder, out>>
  BY DEF ReadRoom
<1>3. PICK p \in Player : p = task[w].player
  BY <1>2, Tasks
<1>4. task[w] \in TaskType /\ Owner[p] = w
  BY <1>2, <1>3, Tasks
<1>5. /\ task'[w] = [task[w] EXCEPT !.left = l, !.info = i]
      /\ \A u \in Worker \ {w} : task'[u] = task[u]
  BY <1>1, TaskNow
<1>6. /\ task'[w].player = p /\ task'[w].room = task[w].room /\ task'[w].n = task[w].n
      /\ task'[w].pc = "list"
  BY <1>2, <1>3, <1>4, <1>5 DEF TaskType
<1>7. Serving(p)' = Serving(p)
  BY <1>2, <1>3, <1>4, <1>6 DEF Serving, Doing
<1>8. Served' = Served
  BY <1>3, <1>4, <1>5, <1>6, <1>7, ServedMoves
<1>9. RoomsKept
  BY <1>2, <1>5, AllStay
<1>10. QED
  BY <1>2, <1>8, <1>9 DEF Service!service, RoomsKept, Served, Insides, Speakers, Heards

-----------------------------------------------------------------------------
(* The refinement *)

ServiceInv == IInv /\ HomeInv /\ HoldersSend /\ AtRest

LEMMA InitService == Init => ServiceInv /\ Service!Init
<1> SUFFICES ASSUME Init PROVE ServiceInv /\ Service!Init
  OBVIOUS
<1>1. IInv /\ HomeInv
  BY InitIInv, InitHome
<1>2. HoldersSend /\ AtRest
  BY DEF Init, HoldersSend, AtRest
<1>3. ServiceInv
  BY <1>1, <1>2 DEF ServiceInv
<1>4. \A w \in Worker : task[w] = Idle
  BY DEF Init
<1>5. \A p \in Player : Serving(p) = Service!Nothing
  BY <1>4, ServingOwn, ConstantsOK
<1>6. \A r \in Room : Inside(r) = {} /\ Speaker(r) = NoPlayer /\ HeardBy(r) = {}
  BY DEF Init, Inside, Speaker, HeardBy
<1>7. Service!Init
  BY <1>5, <1>6 DEF Init, Service!Init
<1>8. QED
  BY <1>3, <1>7

\* Every step of a worker is one of the service, or is not seen.
LEMMA WorkerRefines ==
  ASSUME ServiceInv, TypeInv', NEW w \in Worker, WorkerStep(w)
  PROVE  Service!Next \/ UNCHANGED Service!service
<1>1. /\ TypeInv /\ Broadcasting /\ Told /\ Heard /\ SenderIsMember /\ HoldersSend /\ AtRest
  BY DEF ServiceInv, IInv, OrderInv, HomeInv
<1>2. ASSUME NEW p \in Player, DropRequest(w, p) PROVE Service!Next
  BY <1>1, <1>2, DropRefines DEF Service!Next
<1>3. ASSUME NEW p \in Player,
             CreateRoom(w, p) \/ StartEnter(w, p) \/ StartChat(w, p) \/ StartList(w, p)
      PROVE  Service!Next
  BY <1>1, <1>3, StartsRefine DEF Service!Next
<1>4. CASE \/ Enter(w) \/ SendAck(w) \/ Lock(w) \/ SendNext(w) \/ Unlock(w) \/ SendList(w)
  <2>1. task[w].pc # "idle"
    BY <1>4, Zenon DEF Enter, SendAck, Lock, SendNext, Unlock, SendList
  <2>2. PICK p \in Player : p = task[w].player
    BY <1>1, <2>1, Tasks
  <2>3. CASE SendAck(w) \/ SendList(w)
    BY <1>1, <2>2, <2>3, AnswerRefines DEF Service!Next
  <2>4. CASE Enter(w) \/ Lock(w) \/ SendNext(w) \/ Unlock(w)
    <3>1. PICK r \in Room : r = task[w].room
      BY <1>1, <2>4, Tasks, Zenon DEF Enter, Lock, SendNext, Unlock
    <3>2. CASE Enter(w)
      BY <1>1, <2>2, <3>1, <3>2, EnterRefines DEF Service!Next
    <3>3. CASE Lock(w)
      BY <1>1, <2>2, <3>1, <3>3, LockRefines DEF Service!Next
    <3>4. CASE SendNext(w)
      BY <1>1, <2>2, <3>1, <3>4, SendNextRefines DEF Service!Next
    <3>5. CASE Unlock(w)
      BY <1>1, <2>2, <3>1, <3>5, UnlockRefines DEF Service!Next
    <3>6. QED
      BY <2>4, <3>2, <3>3, <3>4, <3>5, Zenon
  <2>5. QED
    BY <1>4, <2>3, <2>4, Zenon
<1>5. CASE ReadRoom(w)
  BY <1>1, <1>5, ReadRoomRefines
<1>6. QED
  BY <1>2, <1>3, <1>4, <1>5 DEF WorkerStep

LEMMA StepService ==
  ASSUME ServiceInv, TypeInv', [Next]_vars
  PROVE  [Service!Next]_Service!service
<1>1. ASSUME NEW p \in Player, ClientAsks(p) \/ Disconnect(p) PROVE Service!Next
  BY <1>1, ClientsRefine DEF Service!Next, ServiceInv, IInv
<1>2. CASE UNCHANGED vars
  BY <1>2 DEF vars, Service!service, Serving, Doing, Inside, Speaker, HeardBy
<1>3. QED
  BY <1>1, <1>2, WorkerRefines DEF Next

\* The handlers of ClientPacketHandler, run in parallel by the PacketRouter's
\* workers and cut by the mutexes of the manager and the rooms, give clients
\* the service of ChatService, as long as the uint16 room IDs have not
\* wrapped: one request of a session after the other, each answered, and
\* broadcasts in a room one after the other, which nobody inside misses.
THEOREM ServiceImplemented == ASSUME MaxRooms < RoomMod PROVE Spec => ImplementsService
<1>1. Init => ServiceInv /\ Service!Init
  BY InitService
<1>2. ServiceInv /\ [Next]_vars => ServiceInv' /\ [Service!Next]_Service!service
  <2> SUFFICES ASSUME ServiceInv, [Next]_vars
               PROVE  ServiceInv' /\ [Service!Next]_Service!service
    OBVIOUS
  <2>1. IInv' /\ HomeInv'
    BY StepIInv, StepHome DEF ServiceInv, IInv
  <2>2. HoldersSend' /\ AtRest'
    BY StepHolders, StepAtRest DEF ServiceInv, IInv
  <2>3. [Service!Next]_Service!service
    BY <2>1, StepService DEF IInv
  <2>4. QED
    BY <2>1, <2>2, <2>3 DEF ServiceInv
<1>3. QED
  BY <1>1, <1>2, PTL DEF Spec, ImplementsService, Service!Spec

=============================================================================
