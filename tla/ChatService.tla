----------------------------- MODULE ChatService -----------------------------
(***************************************************************************)
(* What the chat server promises its clients, without workers, room IDs,   *)
(* directory or entries.  A session's requests are served one at a time,   *)
(* in the order they came, and each that asks for an answer gets one.  A   *)
(* chat message is said by one session at a time in a room, by one that is *)
(* inside, and nobody comes in until all inside have it.  A connection     *)
(* that is gone loses the requests that wait.  ChatRooms implements it.    *)
(***************************************************************************)
EXTENDS Naturals, Sequences

CONSTANTS
  Player,    \* sessions
  Nobody,    \* no session
  Room,      \* rooms, positive numbers
  Request,   \* what clients ask, with do and, in a chat message, n
  List       \* answers to "list"

VARIABLES
  waiting,   \* the requests of each session that wait, in order
  connected, \* the session has not ended
  serving,   \* the request of each session that is served
  inside,    \* the sessions in each room
  speaker,   \* who speaks in each room
  heard,     \* who has heard what is being said there
  received   \* messages sent to each session

service == <<waiting, connected, serving, inside, speaker, heard, received>>

Nothing == [do |-> "nothing", room |-> 0, n |-> 0]

\* How a request may be served; create and enter lead into some room.
Services(q) ==
  CASE q.do \in {"create", "enter"} -> {[do |-> "enter", room |-> r, n |-> 0] : r \in Room}
    [] q.do = "list" -> {[do |-> "list", room |-> 0, n |-> 0]}
    [] q.do = "chat" -> {[do |-> "chat", room |-> r, n |-> q.n] : r \in Room}

\* What is said and what is answered.
Said(p) == [what |-> "chat", room |-> serving[p].room, from |-> p, n |-> serving[p].n]
Answers(p) ==
  CASE serving[p].do = "enter" -> {[what |-> "entered", room |-> serving[p].room]}
    [] serving[p].do = "list" -> List
    [] OTHER -> {}

Init ==
  /\ waiting = [p \in Player |-> <<>>] /\ connected = [p \in Player |-> TRUE]
  /\ serving = [p \in Player |-> Nothing]
  /\ inside = [r \in Room |-> {}]
  /\ speaker = [r \in Room |-> Nobody] /\ heard = [r \in Room |-> {}]
  /\ received = [p \in Player |-> <<>>]

Ask(p) ==
  /\ connected[p]
  /\ \E q \in Request : waiting' = [waiting EXCEPT ![p] = Append(@, q)]
  /\ UNCHANGED <<connected, serving, inside, speaker, heard, received>>

HangUp(p) ==
  /\ connected[p]
  /\ connected' = [connected EXCEPT ![p] = FALSE]
  /\ UNCHANGED <<waiting, serving, inside, speaker, heard, received>>

\* The oldest request is served, if none is, or lost.
Begin(p) ==
  /\ serving[p] = Nothing /\ waiting[p] # <<>> /\ connected[p]
  /\ \E v \in Services(Head(waiting[p])) : serving' = [serving EXCEPT ![p] = v]
  /\ waiting' = [waiting EXCEPT ![p] = Tail(@)]
  /\ UNCHANGED <<connected, inside, speaker, heard, received>>

Lose(p) ==
  /\ serving[p] = Nothing /\ waiting[p] # <<>> /\ ~connected[p]
  /\ waiting' = [waiting EXCEPT ![p] = Tail(@)]
  /\ UNCHANGED <<connected, serving, inside, speaker, heard, received>>

\* The session comes into the room, while nobody speaks there.
ComeIn(p) ==
  LET r == serving[p].room IN
  /\ serving[p].do = "enter" /\ speaker[r] = Nobody
  /\ inside' = [inside EXCEPT ![r] = @ \cup {p}]
  /\ UNCHANGED <<waiting, connected, serving, speaker, heard, received>>

\* The answer; who is told it has entered is inside.
Answer(p) ==
  /\ serving[p].do = "enter" => p \in inside[serving[p].room]
  /\ \E m \in Answers(p) : received' = [received EXCEPT ![p] = Append(@, m)]
  /\ serving' = [serving EXCEPT ![p] = Nothing]
  /\ UNCHANGED <<waiting, connected, inside, speaker, heard>>

\* A session inside begins to speak, is heard by one after the other ...
Speak(p) ==
  LET r == serving[p].room IN
  /\ serving[p].do = "chat" /\ p \in inside[r] /\ speaker[r] = Nobody
  /\ speaker' = [speaker EXCEPT ![r] = p]
  /\ UNCHANGED <<waiting, connected, serving, inside, heard, received>>

Hear(p, q) ==
  LET r == serving[p].room IN
  /\ serving[p].do = "chat" /\ speaker[r] = p /\ q \in inside[r]
  /\ received' = [received EXCEPT ![q] = Append(@, Said(p))]
  /\ heard' = [heard EXCEPT ![r] = @ \cup {q}]
  /\ UNCHANGED <<waiting, connected, serving, inside, speaker>>

\* ... and ends when all inside have heard it.
Finish(p) ==
  LET r == serving[p].room IN
  /\ serving[p].do = "chat" /\ speaker[r] = p /\ heard[r] = inside[r]
  /\ speaker' = [speaker EXCEPT ![r] = Nobody] /\ heard' = [heard EXCEPT ![r] = {}]
  /\ serving' = [serving EXCEPT ![p] = Nothing]
  /\ UNCHANGED <<waiting, connected, inside, received>>

Next ==
  \E p \in Player :
    \/ Ask(p) \/ HangUp(p) \/ Begin(p) \/ Lose(p) \/ ComeIn(p) \/ Answer(p)
    \/ Speak(p) \/ Finish(p) \/ \E q \in Player : Hear(p, q)

Spec == Init /\ [][Next]_service

=============================================================================
