------------------------------ MODULE ChatRooms ------------------------------
(***************************************************************************)
(* The chat logic of GameServer: logged-in sessions create rooms, enter    *)
(* them and chat.  PacketRouter workers run the handlers in parallel, each *)
(* for the sessions whose UID maps to it; ChatRoomManager and every        *)
(* ChatRoom have a mutex of their own.                                     *)
(*                                                                         *)
(* A player stands for its Player object and its session.  A room object   *)
(* is the number of the CreateRoom call that made it; its room ID is that  *)
(* number in a uint16.  A session's out is everything Send was called with *)
(* for it (how bytes leave is not modelled here).                          *)
(*                                                                         *)
(* Sources: src/GameServer ClientPacketHandler, ChatRoom, ChatRoomManager, *)
(* Player; src/ServerCore PacketRouter; src/Client LobbyWindow, ChatWindow *)
(* for what clients send.                                                  *)
(***************************************************************************)
EXTENDS Integers, Sequences, FiniteSets

CONSTANTS
  Player,     \* logged-in sessions
  Worker,     \* PacketRouter workers
  Owner,      \* Owner[p]: the worker p's UID maps to
  NoPlayer,   \* nobody
  RoomMod,    \* the values of a uint16, 2^16: room IDs, listed user counts
  MaxRooms,   \* bound: rooms created
  MaxReq      \* bound: MaxReq[p], the requests p's client sends

ASSUME ConstantsOK ==
  /\ Owner \in [Player -> Worker]
  /\ NoPlayer \notin Player \cup Worker
  /\ RoomMod \in Nat \ {0} /\ MaxRooms \in Nat /\ MaxReq \in [Player -> Nat]

VARIABLES
  requests,    \* packets of each client, not handled yet, in order
  asked,       \* number of requests each client sent
  connected,   \* the SessionManager finds the session
  roomNumber,  \* ChatRoomManager: CreateRoom calls so far
  directory,   \* ChatRoomManager::m_ChatRoom: room of each room ID, 0 none
  chatRoomID,  \* Player::m_ChatRoomID
  members,     \* ChatRoom::m_ChatRoom of each room: (key, player) entries
  holder,      \* the worker in a room's m_ChatRoomMutex
  task,        \* the handler each worker runs
  out          \* messages sent to each session

vars == <<requests, asked, connected, roomNumber, directory, chatRoomID,
          members, holder, task, out>>

Room    == 1 .. MaxRooms
RoomID  == 0 .. RoomMod - 1
IdOf(n) == n % RoomMod

\* Packets and messages are numbered by their sender.
Number == UNION {1 .. MaxReq[p] : p \in Player}

Request == [do : {"create", "list"}] \cup [do : {"enter"}, id : RoomID]
           \cup [do : {"chat"}, n : Number]
Entered(r) == [what |-> "entered", room |-> r]
Chat(r, p, n) == [what |-> "chat", room |-> r, from |-> p, n |-> n]
Listed(info) == [what |-> "list", info |-> info]

\* What a room list says: the users of each room, NotListed for the others.
NotListed == -1
NoInfo    == [r \in Room |-> NotListed]
Info      == [Room -> {NotListed} \cup (0 .. RoomMod - 1)]

Message == {Listed(info) : info \in Info} \cup {Entered(r) : r \in Room}
           \cup {Chat(r, p, n) : r \in Room, p \in Player, n \in Number}

\* A worker's handler: where it is, for whom, in which room, which chat
\* message it sends and how many entries it has sent it to; for a room list,
\* the rooms left to read and what the answer says so far.
Idle == [pc |-> "idle", player |-> NoPlayer, room |-> 0, n |-> 0, sent |-> 0,
         left |-> {}, info |-> NoInfo]

TypeOK ==
  /\ requests \in [Player -> Seq(Request)] /\ asked \in [Player -> Number \cup {0}]
  /\ connected \in [Player -> BOOLEAN]
  /\ roomNumber \in 0 .. MaxRooms
  /\ directory \in [RoomID -> Room \cup {0}]
  /\ chatRoomID \in [Player -> RoomID]
  /\ members \in [Room -> Seq([key : RoomID, player : Player])]
  /\ holder \in [Room -> Worker \cup {NoPlayer}]
  /\ task \in [Worker -> [pc : {"idle", "create", "enter", "ack", "chat", "send", "list"},
                          player : Player \cup {NoPlayer}, room : Room \cup {0},
                          n : Number \cup {0}, sent : Nat,
                          left : SUBSET Room, info : Info]]
  /\ out \in [Player -> Seq(Message)]

Init ==
  /\ requests = [p \in Player |-> <<>>] /\ asked = [p \in Player |-> 0]
  /\ connected = [p \in Player |-> TRUE]
  /\ roomNumber = 0
  /\ directory = [i \in RoomID |-> 0]
  /\ chatRoomID = [p \in Player |-> 0]
  /\ members = [r \in Room |-> <<>>]
  /\ holder = [r \in Room |-> NoPlayer]
  /\ task = [w \in Worker |-> Idle]
  /\ out = [p \in Player |-> <<>>]

-----------------------------------------------------------------------------
(* Clients *)

SawAck(p) == \E i \in 1 .. Len(out[p]) : out[p][i].what = "entered"

\* Rooms made or asked for.
CreatesAsked ==
  roomNumber + Cardinality({q \in Player \X Number :
                              q[2] <= Len(requests[q[1]]) /\ requests[q[1]][q[2]].do = "create"})

\* The lobby asks for the list, for a new room or for one that was listed (and
\* lets the user ask again before the answer); the chat window, shown after an
\* EnterChatRoomAck, sends chat messages.
ClientAsks(p) ==
  /\ connected[p] /\ asked[p] < MaxReq[p]
  /\ \E q \in {[do |-> "create"], [do |-> "list"]}
              \cup {[do |-> "enter", id |-> i] : i \in {j \in RoomID : directory[j] # 0}}
              \cup {[do |-> "chat", n |-> asked[p] + 1]} :
       /\ q.do = "create" => CreatesAsked < MaxRooms
       /\ q.do = "chat" => SawAck(p)
       /\ requests' = [requests EXCEPT ![p] = Append(@, q)]
  /\ asked' = [asked EXCEPT ![p] = @ + 1]
  /\ UNCHANGED <<connected, roomNumber, directory, chatRoomID, members, holder, task, out>>

\* Mutant: closing also resets m_ChatRoomID, to -1.
DisconnectResets(p) ==
  /\ connected[p]
  /\ connected' = [connected EXCEPT ![p] = FALSE]
  /\ chatRoomID' = [chatRoomID EXCEPT ![p] = -1]
  /\ UNCHANGED <<requests, asked, roomNumber, directory, members, holder, task, out>>

\* The connection of p is closed and its session unregistered; no handler is
\* told.
Disconnect(p) ==
  /\ connected[p]
  /\ connected' = [connected EXCEPT ![p] = FALSE]
  /\ UNCHANGED <<requests, asked, roomNumber, directory, chatRoomID, members,
                 holder, task, out>>

-----------------------------------------------------------------------------
(* Handlers *)

\* Mutant: any worker takes any session's packets.
RunsAny(w, p) == TRUE

\* Worker w runs the handlers of the sessions it owns, one at a time.
Runs(w, p) == Owner[p] = w

Takes(w, p, do) ==
  /\ Runs(w, p) /\ task[w] = Idle
  /\ requests[p] # <<>> /\ Head(requests[p]).do = do /\ connected[p]
  /\ requests' = [requests EXCEPT ![p] = Tail(@)]

\* Run drops a packet whose session is gone.
DropRequest(w, p) ==
  /\ Runs(w, p) /\ task[w] = Idle /\ requests[p] # <<>> /\ ~connected[p]
  /\ requests' = [requests EXCEPT ![p] = Tail(@)]
  /\ UNCHANGED <<asked, connected, roomNumber, directory, chatRoomID, members,
                 holder, task, out>>

\* HandleCreateChatRoomReq: CreateRoom numbers the room and puts it in the
\* directory, over an older room with that ID.
CreateRoom(w, p) ==
  /\ Takes(w, p, "create")
  /\ roomNumber < MaxRooms /\ roomNumber' = roomNumber + 1
  /\ directory' = [directory EXCEPT ![IdOf(roomNumber')] = roomNumber']
  /\ task' = [task EXCEPT ![w] = [Idle EXCEPT !.pc = "create", !.player = p, !.room = roomNumber']]
  /\ UNCHANGED <<asked, connected, chatRoomID, members, holder, out>>

\* HandleEnterChatRoomReq: m_ChatRoomID is set before the room is looked up
\* and entered.
StartEnter(w, p) ==
  LET id == Head(requests[p]).id IN
  /\ Takes(w, p, "enter")
  /\ chatRoomID' = [chatRoomID EXCEPT ![p] = id]
  /\ task' = [task EXCEPT ![w] = [Idle EXCEPT !.pc = "enter", !.player = p, !.room = directory[id]]]
  /\ UNCHANGED <<asked, connected, roomNumber, directory, members, holder, out>>

\* Mutant: the room's mutex is not taken.
FreeAlways(r) == TRUE

\* A worker can lock the room's m_ChatRoomMutex.
Free(r) == holder[r] = NoPlayer

\* Mutant: m_ChatRoom is a map, which keeps one entry for a key.
WithEntryOfKey(r, e) ==
  IF \E i \in 1 .. Len(members[r]) : members[r][i].key = e.key THEN members[r]
  ELSE Append(members[r], e)

\* m_ChatRoom.emplace, a multimap: entries in the order of their keys, those
\* of one key as they came.
WithEntry(r, e) ==
  LET n == Cardinality({i \in 1 .. Len(members[r]) : members[r][i].key <= e.key})
  IN  SubSeq(members[r], 1, n) \o <<e>> \o SubSeq(members[r], n + 1, Len(members[r]))

\* Mutant: HandleCreateChatRoomReq does not set m_ChatRoomID.
RoomIDKept(w) == chatRoomID[task[w].player]

\* m_ChatRoomID of the player after the handler's Enter.
RoomIDAfter(w) ==
  IF task[w].pc = "create" THEN IdOf(task[w].room) ELSE chatRoomID[task[w].player]

\* ChatRoom::Enter under the room's mutex, keyed by the m_ChatRoomID the
\* player has; HandleCreateChatRoomReq sets m_ChatRoomID only afterwards.
Enter(w) ==
  LET p == task[w].player  r == task[w].room IN
  /\ task[w].pc \in {"create", "enter"}
  /\ Free(r)
  /\ members' = [members EXCEPT ![r] = WithEntry(r, [key |-> chatRoomID[p], player |-> p])]
  /\ chatRoomID' = [chatRoomID EXCEPT ![p] = RoomIDAfter(w)]
  /\ task' = [task EXCEPT ![w].pc = "ack"]
  /\ UNCHANGED <<requests, asked, connected, roomNumber, directory, holder, out>>

\* The handler sends EnterChatRoomAck to its own session.
SendAck(w) ==
  LET p == task[w].player IN
  /\ task[w].pc = "ack"
  /\ out' = [out EXCEPT ![p] = Append(@, Entered(task[w].room))]
  /\ task' = [task EXCEPT ![w] = Idle]
  /\ UNCHANGED <<requests, asked, connected, roomNumber, directory, chatRoomID,
                 members, holder>>

\* HandleChatReq looks up the room of the player's m_ChatRoomID.
StartChat(w, p) ==
  /\ Takes(w, p, "chat")
  /\ task' = [task EXCEPT ![w] =
       [Idle EXCEPT !.pc = "chat", !.player = p, !.room = directory[chatRoomID[p]],
                    !.n = Head(requests[p]).n]]
  /\ UNCHANGED <<asked, connected, roomNumber, directory, chatRoomID, members,
                 holder, out>>

\* BroadCast takes the room's mutex ...
Lock(w) ==
  LET r == task[w].room IN
  /\ task[w].pc = "chat"
  /\ Free(r)
  /\ holder' = [holder EXCEPT ![r] = w]
  /\ task' = [task EXCEPT ![w].pc = "send"]
  /\ UNCHANGED <<requests, asked, connected, roomNumber, directory, chatRoomID,
                 members, out>>

\* ... sends a copy to the ownerSession of one entry after the other, whether
\* it is connected or not ...
SendNext(w) ==
  LET t == task[w]  i == t.sent + 1 IN
  /\ t.pc = "send" /\ i <= Len(members[t.room])
  /\ out' = [out EXCEPT ![members[t.room][i].player] = Append(@, Chat(t.room, t.player, t.n))]
  /\ task' = [task EXCEPT ![w].sent = i]
  /\ UNCHANGED <<requests, asked, connected, roomNumber, directory, chatRoomID,
                 members, holder>>

\* Mutant: the mutex is not released.
UnlockForgotten(w) ==
  LET t == task[w] IN
  /\ t.pc = "send" /\ t.sent = Len(members[t.room])
  /\ task' = [task EXCEPT ![w] = Idle]
  /\ UNCHANGED <<requests, asked, connected, roomNumber, directory, chatRoomID,
                 members, holder, out>>

\* ... and releases the mutex.
Unlock(w) ==
  LET t == task[w] IN
  /\ t.pc = "send" /\ t.sent = Len(members[t.room])
  /\ holder' = [holder EXCEPT ![t.room] = NoPlayer]
  /\ task' = [task EXCEPT ![w] = Idle]
  /\ UNCHANGED <<requests, asked, connected, roomNumber, directory, chatRoomID,
                 members, out>>

\* HandleChatRoomListReq copies the directory under the manager's mutex ...
StartList(w, p) ==
  /\ Takes(w, p, "list")
  /\ task' = [task EXCEPT ![w] = [Idle EXCEPT !.pc = "list", !.player = p,
                                             !.left = {directory[i] : i \in RoomID} \ {0}]]
  /\ UNCHANGED <<asked, connected, roomNumber, directory, chatRoomID, members,
                 holder, out>>

\* Mutant: the size is read as a uint8 (here: a bit).
UsersCut(r) == Len(members[r]) % 2

\* GetCurrentUser: the multimap's size, in a uint16.
Users(r) == Len(members[r]) % RoomMod

\* ... then reads room by room, in the order of their IDs and without the
\* rooms' mutexes ...
ReadRoom(w) ==
  \E r \in task[w].left :
    /\ task[w].pc = "list"
    /\ \A s \in task[w].left : IdOf(r) <= IdOf(s)
    /\ task' = [task EXCEPT ![w] = [task[w] EXCEPT !.left = @ \ {r}, !.info[r] = Users(r)]]
    /\ UNCHANGED <<requests, asked, connected, roomNumber, directory, chatRoomID,
                   members, holder, out>>

\* ... and sends the list.
SendList(w) ==
  LET p == task[w].player IN
  /\ task[w].pc = "list" /\ task[w].left = {}
  /\ out' = [out EXCEPT ![p] = Append(@, Listed(task[w].info))]
  /\ task' = [task EXCEPT ![w] = Idle]
  /\ UNCHANGED <<requests, asked, connected, roomNumber, directory, chatRoomID,
                 members, holder>>

WorkerStep(w) ==
  \/ \E p \in Player : \/ DropRequest(w, p) \/ CreateRoom(w, p) \/ StartEnter(w, p)
                       \/ StartChat(w, p) \/ StartList(w, p)
  \/ Enter(w) \/ SendAck(w) \/ Lock(w) \/ SendNext(w) \/ Unlock(w)
  \/ ReadRoom(w) \/ SendList(w)

Next ==
  \/ \E p \in Player : ClientAsks(p) \/ Disconnect(p)
  \/ \E w \in Worker : WorkerStep(w)

Spec == Init /\ [][Next]_vars

-----------------------------------------------------------------------------
(* Properties *)

IsChat(p, i, r) == out[p][i].what = "chat" /\ out[p][i].room = r

\* Two sessions that both get two messages of a room get them in the same
\* order: BroadCast holds the room's mutex from the first copy to the last.
SameOrderForAll ==
  \A p, q \in Player : \A r \in Room :
    \A i, j \in 1 .. Len(out[p]), k, l \in 1 .. Len(out[q]) :
      /\ i < j /\ k < l /\ IsChat(p, i, r) /\ IsChat(p, j, r)
      /\ out[p][i] = out[q][l] /\ out[p][j] = out[q][k]
      => out[p][i] = out[p][j]

\* A room's messages of one sender arrive in the order it sent them: one
\* worker handles a session's packets one after the other.
SenderOrderKept ==
  \A p \in Player : \A i, j \in 1 .. Len(out[p]) :
    /\ i < j /\ out[p][i].what = "chat" /\ out[p][j].what = "chat"
    /\ out[p][i].from = out[p][j].from
    => out[p][i].n <= out[p][j].n

\* Who was told it had entered a room before a message's broadcast ended gets
\* that message: the EnterChatRoomAck is sent after the entry is made.
ToldMembersHear ==
  [][\A w \in Worker : Unlock(w) =>
       \A p \in Player :
         (\E i \in 1 .. Len(out[p]) : out[p][i] = Entered(task[w].room)) =>
           \E i \in 1 .. Len(out[p]) : out[p][i] = Chat(task[w].room, task[w].player, task[w].n)]_vars

\* A chat message goes to a room its sender is in: the room of m_ChatRoomID
\* is one the player has an entry in (as long as room IDs do not wrap).
SenderIsMember ==
  \A w \in Worker : task[w].pc \in {"chat", "send"} =>
    /\ task[w].room # 0
    /\ \E i \in 1 .. Len(members[task[w].room]) :
         members[task[w].room][i].player = task[w].player

\* One after the other, the lists a client gets never lose a room or a user,
\* and they show a user in every room the client was told it had entered,
\* although rooms are read one by one while other workers create and enter.
ListsAreCurrent ==
  \A p \in Player : \A i, j \in 1 .. Len(out[p]) :
    i < j /\ out[p][j].what = "list" =>
      /\ out[p][i].what = "list" => \A r \in Room : out[p][i].info[r] <= out[p][j].info[r]
      /\ out[p][i].what = "entered" => out[p][j].info[out[p][i].room] >= 1

\* What each variable of ChatService is: a session is served by the handler
\* that has it, is in the rooms it has an entry in, and speaks in a room as
\* long as its worker holds the room's mutex, heard by the entries passed.
Doing(w) ==
  CASE task[w].pc \in {"create", "enter", "ack"} -> "enter"
    [] task[w].pc \in {"chat", "send"} -> "chat"
    [] OTHER -> task[w].pc
Serving(p) ==
  LET w == Owner[p] IN
  IF task[w].player = p THEN [do |-> Doing(w), room |-> task[w].room, n |-> task[w].n]
  ELSE [do |-> "nothing", room |-> 0, n |-> 0]
Inside(r)  == {members[r][i].player : i \in 1 .. Len(members[r])}
Speaker(r) == IF holder[r] = NoPlayer THEN NoPlayer ELSE task[holder[r]].player
HeardBy(r) ==
  IF holder[r] = NoPlayer THEN {}
  ELSE {members[r][i].player : i \in 1 .. task[holder[r]].sent}

Service == INSTANCE ChatService WITH
  Nobody <- NoPlayer,
  List <- {Listed(info) : info \in Info},
  waiting <- requests,
  serving <- [p \in Player |-> Serving(p)],
  inside <- [r \in Room |-> Inside(r)],
  speaker <- [r \in Room |-> Speaker(r)],
  heard <- [r \in Room |-> HeardBy(r)],
  received <- out

\* The handlers, cut as they are by mutexes and Sends, with their room IDs and
\* entries, give clients the service of ChatService: requests served one by
\* one and answered, broadcasts that neither mix nor miss anyone inside.
ImplementsService == Service!Spec

\* A worker gets through the packets of its sessions: no handler waits
\* forever for a room's mutex, also when rooms fill with gone sessions.
RequestsAreHandled ==
  \A p \in Player : (requests[p] # <<>>) ~> (requests[p] = <<>> /\ task[Owner[p]] = Idle)

\* Fairness: every worker keeps polling its queue and finishes the handler it
\* runs.  Nothing obliges clients to ask or connections to close.
FairSpec == Spec /\ \A w \in Worker : WF_vars(WorkerStep(w))

=============================================================================
