---------------------------- MODULE StressClient ----------------------------
(***************************************************************************)
(* The stress test of the client: ConnectThreads make sessions and wait on *)
(* a condition variable until ClientManager has all of them; then they     *)
(* send every session a dummy packet.  Each runs ClientManager's state     *)
(* machine for itself; m_Mutex covers a case of its switch, not the test   *)
(* of run nor the choice of the case.                                      *)
(*                                                                         *)
(* Connections come through or fail on asio threads; what happens to one   *)
(* later changes nothing here, since nobody starts the client's TaskQueue  *)
(* and m_Sessions keeps it.  No code sets the states Disconnect, Reconnect *)
(* and Recv.  The user does not open a chat window, whose close would take *)
(* the sessions away (StopClient).                                         *)
(*                                                                         *)
(* Sources: src/Client ClientManager, ClientSession, Client; src/ServerCore*)
(* AsioService, AsioSession.                                               *)
(***************************************************************************)
EXTENDS Integers, FiniteSets

CONSTANTS
  Thread,      \* ConnectThreads, threadCnt of them
  PerThread,   \* maxSessionCnt: sessions each of them makes
  NoThread

ASSUME ConstantsOK ==
  /\ IsFiniteSet(Thread) /\ Thread # {} /\ NoThread \notin Thread
  /\ PerThread \in Nat \ {0}

Session == Thread \X (1 .. PerThread)

VARIABLES
  link,       \* link[s]: a session's connection
  pc,         \* where each thread is in Start and DummyClientProcess
  mutex,      \* ClientManager::m_Mutex: the thread that sends
  left,       \* sessions it has not sent to
  sessions,   \* m_Sessions
  numbered,   \* keys of m_SessionSeqNum
  run,        \* run
  state,      \* m_RunningState
  sent        \* dummy packets Send was called with, of each session

vars == <<link, pc, mutex, left, sessions, numbered, run, state, sent>>

TypeOK ==
  /\ link \in [Session -> {"none", "connecting", "connected", "failed"}]
  /\ pc \in [Thread -> {"start", "wait", "asleep", "loop", "switch", "prepare", "send",
                        "sending", "done"}]
  /\ mutex \in Thread \cup {NoThread}
  /\ left \subseteq Session /\ sessions \subseteq Session /\ numbered \subseteq Session
  /\ run \in BOOLEAN
  /\ state \in {"None", "Connect", "Send"}
  /\ sent \in [Session -> Nat]

Init ==
  /\ link = [s \in Session |-> "none"]
  /\ pc = [t \in Thread |-> "start"]
  /\ mutex = NoThread /\ left = {}
  /\ sessions = {} /\ numbered = {}
  /\ run = FALSE /\ state = "None"
  /\ sent = [s \in Session |-> 0]

Free == mutex = NoThread

Goes(t, from, to) == pc[t] = from /\ pc' = [pc EXCEPT ![t] = to]

-----------------------------------------------------------------------------
(* Connecting *)

\* AsioClientService::Start makes one session after the other; Connect starts
\* an async_connect.
MakeSession(t) ==
  \E i \in 1 .. PerThread :
    /\ pc[t] = "start"
    /\ link[<<t, i>>] = "none" /\ \A j \in 1 .. i - 1 : link[<<t, j>>] # "none"
    /\ link' = [link EXCEPT ![<<t, i>>] = "connecting"]
    /\ UNCHANGED <<pc, mutex, left, sessions, numbered, run, state, sent>>

\* Start is over and DummyClientProcess begins.
Started(t) ==
  /\ \A i \in 1 .. PerThread : link[<<t, i>>] # "none"
  /\ Goes(t, "start", "wait")
  /\ UNCHANGED <<link, mutex, left, sessions, numbered, run, state, sent>>

\* Start's resolve throws, and the thread ends.
ResolveFails(t) ==
  /\ \E i \in 1 .. PerThread : link[<<t, i>>] = "none"
  /\ Goes(t, "start", "done")
  /\ UNCHANGED <<link, mutex, left, sessions, numbered, run, state, sent>>

ConnectFails(s) ==
  /\ link[s] = "connecting"
  /\ link' = [link EXCEPT ![s] = "failed"]
  /\ UNCHANGED <<pc, mutex, left, sessions, numbered, run, state, sent>>

\* Mutant: the sessions of one thread are enough.
CompleteOfOne(S) == Cardinality(S) >= PerThread

\* sessionSize == threadCnt * maxSessionCnt.
Complete(S) == Cardinality(S) = Cardinality(Session)

\* Mutant: m_cv is not notified.
WokenNobody == pc

\* notify_all: who sleeps on m_cv looks at run again.
Woken == [t \in Thread |-> IF pc[t] = "asleep" THEN "wait" ELSE pc[t]]

\* The connect handler runs OnConnected and ClientManager::Init; the last
\* session starts the test.
Connected(s) ==
  /\ link[s] = "connecting" /\ Free
  /\ link' = [link EXCEPT ![s] = "connected"]
  /\ sessions' = sessions \cup {s}
  /\ state' = "Connect"
  /\ run' = (run \/ Complete(sessions'))
  /\ pc' = IF Complete(sessions') THEN Woken ELSE pc
  /\ UNCHANGED <<mutex, left, numbered, sent>>

-----------------------------------------------------------------------------
(* DummyClientProcess *)

\* m_cv.wait looks at run under the mutex, and sleeps while it is false.
Look(t) ==
  /\ Free
  /\ Goes(t, "wait", IF run THEN "loop" ELSE "asleep")
  /\ UNCHANGED <<link, mutex, left, sessions, numbered, run, state, sent>>

\* A condition variable may wake a thread for nothing.
SpuriousWakeup(t) ==
  /\ Goes(t, "asleep", "wait")
  /\ UNCHANGED <<link, mutex, left, sessions, numbered, run, state, sent>>

\* while (run), without the mutex ...
TestRun(t) ==
  /\ Goes(t, "loop", IF run THEN "switch" ELSE "done")
  /\ UNCHANGED <<link, mutex, left, sessions, numbered, run, state, sent>>

\* ... and switch (m_RunningState), without it too.
Switch(t) ==
  /\ Goes(t, "switch",
          CASE state = "Connect" -> "prepare" [] state = "Send" -> "send" [] OTHER -> "loop")
  /\ UNCHANGED <<link, mutex, left, sessions, numbered, run, state, sent>>

\* Mutant: m_RunningState stays Connect.
PrepareOnly(t) ==
  /\ Free
  /\ Goes(t, "prepare", "loop")
  /\ numbered' = sessions
  /\ UNCHANGED <<link, mutex, left, sessions, run, state, sent>>

\* case Connect: every session's sequence number is 0.
Prepare(t) ==
  /\ Free
  /\ Goes(t, "prepare", "loop")
  /\ numbered' = sessions
  /\ state' = "Send"
  /\ UNCHANGED <<link, mutex, left, sessions, run, sent>>

\* case Send: with the mutex held, a packet for one session after the other ...
SendBegin(t) ==
  /\ Free
  /\ Goes(t, "send", "sending")
  /\ mutex' = t /\ left' = sessions
  /\ UNCHANGED <<link, sessions, numbered, run, state, sent>>

SendOne(t) ==
  \E s \in left :
    /\ pc[t] = "sending"
    /\ left' = left \ {s}
    /\ sent' = [sent EXCEPT ![s] = @ + 1]
    /\ UNCHANGED <<link, pc, mutex, sessions, numbered, run, state>>

\* Mutant: run stays true.
SendEndRuns(t) ==
  /\ left = {}
  /\ Goes(t, "sending", "loop")
  /\ mutex' = NoThread
  /\ UNCHANGED <<link, left, sessions, numbered, run, state, sent>>

\* Mutant: the assignment of Disconnect, which is commented out, is back.
SendEndDisconnects(t) ==
  /\ left = {}
  /\ Goes(t, "sending", "loop")
  /\ mutex' = NoThread /\ run' = FALSE /\ state' = "Disconnect"
  /\ UNCHANGED <<link, left, sessions, numbered, sent>>

\* ... and the test is over for all.
SendEnd(t) ==
  /\ left = {}
  /\ Goes(t, "sending", "loop")
  /\ mutex' = NoThread /\ run' = FALSE
  /\ UNCHANGED <<link, left, sessions, numbered, state, sent>>

ThreadStep(t) ==
  \/ MakeSession(t) \/ Started(t) \/ Look(t) \/ TestRun(t) \/ Switch(t)
  \/ Prepare(t) \/ SendBegin(t) \/ SendOne(t) \/ SendEnd(t)

Next ==
  \/ \E s \in Session : ConnectFails(s) \/ Connected(s)
  \/ \E t \in Thread : ThreadStep(t) \/ ResolveFails(t) \/ SpuriousWakeup(t)

Spec == Init /\ [][Next]_vars

-----------------------------------------------------------------------------
(* Properties *)

\* No dummy packet is sent before every session is connected and numbered:
\* Init sets run only with the last one, and case Connect comes before case
\* Send although threads choose the case without the mutex.
AllConnectedFirst ==
  \A s \in Session : sent[s] > 0 => sessions = Session /\ numbered = Session

\* The sessions carry the same load, however many threads saw run before one
\* of them cleared it, and a thread sends to each of them once at most.
EvenLoad ==
  /\ \A s \in Session : sent[s] <= Cardinality(Thread)
  /\ Free => \A s, q \in Session : sent[s] = sent[q]

\* A thread sleeps on m_cv only while there is nothing to do: Init changes run
\* and notifies under the mutex the waiting threads look at run with.
NoLostWakeup == run => \A t \in Thread : pc[t] # "asleep"

\* When all sessions are connected, each is sent a packet and every thread
\* leaves the loop, except those that come to m_cv.wait after the end and sleep.
LoadRuns ==
  (\A s \in Session : link[s] = "connected") ~>
    /\ \A s \in Session : sent[s] > 0
    /\ \A t \in Thread : pc[t] \in {"wait", "asleep", "done"}

\* Fairness: threads run on.  Nothing obliges a connection to come through.
FairSpec == Spec /\ \A t \in Thread : WF_vars(ThreadStep(t))

=============================================================================
