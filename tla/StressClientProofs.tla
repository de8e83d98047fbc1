------------------------- MODULE StressClientProofs -------------------------
(* For any number of threads and sessions: the stress test begins with all   *)
(* sessions and no thread sleeps through its start.                          *)
EXTENDS StressClient, FiniteSetTheorems, TLAPS

\* m_Sessions has the connected sessions, all of them once run is set, and so
\* does the case a thread is in.
Listed == \A s \in Session : s \in sessions <=> link[s] = "connected"
RunIsComplete ==
  /\ run \/ state = "Send" => sessions = Session
  /\ \A t \in Thread : pc[t] \in {"loop", "switch", "prepare", "send", "sending"} =>
       sessions = Session
SendIsPrepared ==
  /\ state = "Send" => numbered = Session
  /\ \A t \in Thread : pc[t] \in {"send", "sending"} => numbered = Session

IInv == TypeOK /\ Listed /\ RunIsComplete /\ SendIsPrepared /\ AllConnectedFirst /\ NoLostWakeup

LEMMA AllOfThem == ASSUME NEW S \in SUBSET Session, Complete(S) PROVE S = Session
<1>1. IsFiniteSet(1 .. PerThread)
  BY ConstantsOK, FS_Interval
<1>2. IsFiniteSet(Session)
  BY <1>1, ConstantsOK, FS_Product DEF Session
<1>3. QED
  BY <1>2, FS_Subset DEF Complete

\* A session that is not connected yet: the test has not begun.
LEMMA NotBegun ==
  ASSUME IInv, NEW s \in Session, link[s] # "connected"
  PROVE  /\ ~run /\ state # "Send"
         /\ \A t \in Thread : pc[t] \notin {"loop", "switch", "prepare", "send", "sending"}
         /\ \A q \in Session : sent[q] = 0
<1>1. sessions # Session
  BY DEF IInv, Listed
<1>2. \A q \in Session : sent[q] \in Nat
  BY DEF IInv, TypeOK
<1>3. QED
  BY <1>1, <1>2 DEF IInv, RunIsComplete, AllConnectedFirst

LEMMA ConnectedStep == ASSUME IInv, NEW s \in Session, Connected(s) PROVE IInv'
<1>1. /\ link[s] = "connecting" /\ link' = [link EXCEPT ![s] = "connected"]
      /\ sessions' = sessions \cup {s} /\ state' = "Connect"
      /\ run' = (run \/ Complete(sessions')) /\ numbered' = numbered
      /\ pc' = IF Complete(sessions') THEN Woken ELSE pc
      /\ sent' = sent /\ mutex' = mutex /\ left' = left
  BY DEF Connected
<1>2. /\ ~run /\ state # "Send"
      /\ \A t \in Thread : pc[t] \notin {"loop", "switch", "prepare", "send", "sending"}
      /\ \A q \in Session : sent[q] = 0
  BY <1>1, NotBegun
<1>3. Complete(sessions') => sessions' = Session
  BY <1>1, AllOfThem DEF IInv, TypeOK
<1>4. /\ pc' \in [Thread -> {"start", "wait", "asleep", "loop", "switch", "prepare", "send",
                             "sending", "done"}]
      /\ \A t \in Thread : pc'[t] \notin {"loop", "switch", "prepare", "send", "sending"}
      /\ Complete(sessions') => \A t \in Thread : pc'[t] # "asleep"
  <2>1. /\ Woken \in [Thread -> {"start", "wait", "asleep", "loop", "switch", "prepare", "send",
                                 "sending", "done"}]
        /\ \A t \in Thread : Woken[t] \notin {"loop", "switch", "prepare", "send", "sending", "asleep"}
    BY <1>2 DEF IInv, TypeOK, Woken
  <2>2. QED
    BY <1>1, <1>2, <2>1 DEF IInv, TypeOK
<1>5. TypeOK'
  <2>1. link' \in [Session -> {"none", "connecting", "connected", "failed"}]
    BY <1>1 DEF IInv, TypeOK
  <2>2. run' \in BOOLEAN
    BY <1>1 DEF Complete
  <2>3. QED
    BY <1>1, <1>4, <2>1, <2>2 DEF IInv, TypeOK
<1>6. Listed'
  BY <1>1 DEF IInv, TypeOK, Listed
<1>7. RunIsComplete' /\ SendIsPrepared'
  BY <1>1, <1>2, <1>3, <1>4 DEF RunIsComplete, SendIsPrepared
<1>8. AllConnectedFirst' /\ NoLostWakeup'
  <2>1. AllConnectedFirst'
    BY <1>1, <1>2 DEF AllConnectedFirst
  <2>2. run' => Complete(sessions')
    BY <1>1, <1>2, Zenon
  <2>3. QED
    BY <1>4, <2>1, <2>2, Zenon DEF NoLostWakeup
<1>9. QED
  BY <1>5, <1>6, <1>7, <1>8 DEF IInv

\* Connecting and failing change links only.
LEMMA LinkStep ==
  ASSUME IInv, NEW s \in Session, NEW to \in {"connecting", "failed"}, link[s] # "connected",
         link' = [link EXCEPT ![s] = to],
         UNCHANGED <<pc, mutex, left, sessions, numbered, run, state, sent>>
  PROVE  IInv'
<1>1. TypeOK'
  BY DEF IInv, TypeOK
<1>2. Listed'
  BY DEF IInv, TypeOK, Listed
<1>3. QED
  BY <1>1, <1>2 DEF IInv, RunIsComplete, SendIsPrepared, AllConnectedFirst, NoLostWakeup

\* A thread goes on and changes nothing else.
LEMMA GoStep ==
  ASSUME IInv, NEW t \in Thread, NEW from, NEW to, Goes(t, from, to),
         to \in {"start", "wait", "asleep", "loop", "switch", "prepare", "send", "done"},
         to \in {"loop", "switch", "prepare", "send"} => sessions = Session,
         to = "send" => numbered = Session,
         to = "asleep" => ~run,
         UNCHANGED <<link, mutex, left, sessions, numbered, run, state, sent>>
  PROVE  IInv'
<1>1. pc' = [pc EXCEPT ![t] = to]
  BY DEF Goes
<1>2. /\ pc'[t] = to /\ \A u \in Thread \ {t} : pc'[u] = pc[u]
      /\ pc' \in [Thread -> {"start", "wait", "asleep", "loop", "switch", "prepare", "send",
                             "sending", "done"}]
  BY <1>1 DEF IInv, TypeOK
<1>3. TypeOK' /\ Listed' /\ AllConnectedFirst'
  BY <1>2 DEF IInv, TypeOK, Listed, AllConnectedFirst
<1>4. RunIsComplete' /\ SendIsPrepared'
  BY <1>2 DEF IInv, RunIsComplete, SendIsPrepared
<1>5. NoLostWakeup'
  BY <1>2 DEF IInv, NoLostWakeup
<1>6. QED
  BY <1>3, <1>4, <1>5 DEF IInv

LEMMA WalkStep ==
  ASSUME IInv, NEW t \in Thread,
         \/ Started(t) \/ ResolveFails(t) \/ Look(t) \/ SpuriousWakeup(t) \/ TestRun(t)
         \/ Switch(t)
  PROVE  IInv'
<1>1. CASE Started(t) \/ ResolveFails(t) \/ SpuriousWakeup(t)
  BY <1>1, GoStep DEF Started, ResolveFails, SpuriousWakeup
<1>2. CASE Look(t)
  <2>1. run => sessions = Session
    BY DEF IInv, RunIsComplete
  <2>2. Goes(t, "wait", IF run THEN "loop" ELSE "asleep")
    BY <1>2 DEF Look
  <2>3. UNCHANGED <<link, mutex, left, sessions, numbered, run, state, sent>>
    BY <1>2 DEF Look
  <2>4. QED
    BY <2>1, <2>2, <2>3, GoStep
<1>3. CASE TestRun(t)
  <2>1. run => sessions = Session
    BY DEF IInv, RunIsComplete
  <2>2. Goes(t, "loop", IF run THEN "switch" ELSE "done")
    BY <1>3 DEF TestRun
  <2>3. UNCHANGED <<link, mutex, left, sessions, numbered, run, state, sent>>
    BY <1>3 DEF TestRun
  <2>4. QED
    BY <2>1, <2>2, <2>3, GoStep
<1>4. CASE Switch(t)
  <2> DEFINE to == CASE state = "Connect" -> "prepare" [] state = "Send" -> "send"
                     [] OTHER -> "loop"
  <2>1. Goes(t, "switch", to)
    BY <1>4 DEF Switch
  <2>2. sessions = Session
    BY <2>1 DEF Goes, IInv, RunIsComplete
  <2>3. state \in {"None", "Connect", "Send"} /\ (state = "Send" => numbered = Session)
    BY DEF IInv, TypeOK, SendIsPrepared
  <2>4. to \in {"prepare", "send", "loop"} /\ (to = "send" => numbered = Session)
    BY <2>3
  <2>5. UNCHANGED <<link, mutex, left, sessions, numbered, run, state, sent>>
    BY <1>4 DEF Switch
  <2> HIDE DEF to
  <2>6. QED
    BY <2>1, <2>2, <2>4, <2>5, GoStep
<1>5. QED
  BY <1>1, <1>2, <1>3, <1>4

LEMMA PrepareStep == ASSUME IInv, NEW t \in Thread, Prepare(t) PROVE IInv'
<1>1. /\ pc[t] = "prepare" /\ pc' = [pc EXCEPT ![t] = "loop"]
      /\ numbered' = sessions /\ state' = "Send" /\ sessions' = sessions
      /\ UNCHANGED <<link, mutex, left, run, sent>>
  BY DEF Prepare, Goes
<1>2. sessions = Session
  BY <1>1 DEF IInv, RunIsComplete
<1>3. /\ pc'[t] = "loop" /\ \A u \in Thread \ {t} : pc'[u] = pc[u]
      /\ pc' \in [Thread -> {"start", "wait", "asleep", "loop", "switch", "prepare", "send",
                             "sending", "done"}]
  BY <1>1 DEF IInv, TypeOK
<1>4. TypeOK' /\ Listed' /\ AllConnectedFirst'
  BY <1>1, <1>2, <1>3 DEF IInv, TypeOK, Listed, AllConnectedFirst
<1>5. RunIsComplete' /\ SendIsPrepared'
  BY <1>1, <1>2 DEF RunIsComplete, SendIsPrepared
<1>6. NoLostWakeup'
  BY <1>1, <1>3 DEF IInv, NoLostWakeup
<1>7. QED
  BY <1>4, <1>5, <1>6 DEF IInv

LEMMA SendStep ==
  ASSUME IInv, NEW t \in Thread, SendBegin(t) \/ SendOne(t) \/ SendEnd(t) PROVE IInv'
<1>1. /\ pc[t] \in {"send", "sending"} /\ sessions = Session /\ numbered = Session
      /\ UNCHANGED <<link, sessions, numbered, state>>
  BY DEF SendBegin, SendOne, SendEnd, Goes, IInv, RunIsComplete, SendIsPrepared
<1>2. /\ pc' \in [Thread -> {"start", "wait", "asleep", "loop", "switch", "prepare", "send",
                             "sending", "done"}]
      /\ \A u \in Thread : pc'[u] = "asleep" => pc[u] = "asleep"
  BY DEF SendBegin, SendOne, SendEnd, Goes, IInv, TypeOK
<1>3. /\ mutex' \in Thread \cup {NoThread} /\ left' \subseteq Session /\ run' \in BOOLEAN
      /\ run' => run
  <2>1. run \in BOOLEAN /\ mutex \in Thread \cup {NoThread}
        /\ left \subseteq Session /\ sessions \subseteq Session
    BY DEF IInv, TypeOK
  <2>2. CASE SendBegin(t)
    BY <2>1, <2>2 DEF SendBegin
  <2>3. CASE SendOne(t)
    BY <2>1, <2>3 DEF SendOne
  <2>4. CASE SendEnd(t)
    BY <2>1, <2>4 DEF SendEnd
  <2>5. QED
    BY <2>2, <2>3, <2>4
<1>4. sent' \in [Session -> Nat]
  BY DEF SendBegin, SendOne, SendEnd, IInv, TypeOK
<1>5. TypeOK' /\ Listed' /\ AllConnectedFirst'
  BY <1>1, <1>2, <1>3, <1>4 DEF IInv, TypeOK, Listed, AllConnectedFirst
<1>6. RunIsComplete' /\ SendIsPrepared'
  BY <1>1 DEF RunIsComplete, SendIsPrepared
<1>7. NoLostWakeup'
  BY <1>2, <1>3 DEF IInv, NoLostWakeup
<1>8. QED
  BY <1>5, <1>6, <1>7 DEF IInv

LEMMA StepIInv == IInv /\ [Next]_vars => IInv'
<1> SUFFICES ASSUME IInv, [Next]_vars PROVE IInv'
  OBVIOUS
<1>1. ASSUME NEW s \in Session, ConnectFails(s) PROVE IInv'
  BY <1>1, LinkStep DEF ConnectFails
<1>2. ASSUME NEW s \in Session, Connected(s) PROVE IInv'
  BY <1>2, ConnectedStep
<1>3. ASSUME NEW t \in Thread, MakeSession(t) PROVE IInv'
  <2>1. PICK i \in 1 .. PerThread :
          /\ link[<<t, i>>] = "none" /\ link' = [link EXCEPT ![<<t, i>>] = "connecting"]
          /\ UNCHANGED <<pc, mutex, left, sessions, numbered, run, state, sent>>
    BY <1>3 DEF MakeSession
  <2>2. <<t, i>> \in Session
    BY DEF Session
  <2>3. QED
    BY <2>1, <2>2, LinkStep
<1>4. ASSUME NEW t \in Thread, Prepare(t) PROVE IInv'
  BY <1>4, PrepareStep
<1>5. ASSUME NEW t \in Thread, SendBegin(t) \/ SendOne(t) \/ SendEnd(t) PROVE IInv'
  BY <1>5, SendStep
<1>6. ASSUME NEW t \in Thread,
             \/ Started(t) \/ ResolveFails(t) \/ Look(t) \/ SpuriousWakeup(t) \/ TestRun(t)
             \/ Switch(t)
      PROVE  IInv'
  BY <1>6, WalkStep
<1>7. CASE UNCHANGED vars
  BY <1>7 DEF vars, IInv, TypeOK, Listed, RunIsComplete, SendIsPrepared, AllConnectedFirst,
     NoLostWakeup
<1>8. QED
  BY <1>1, <1>2, <1>3, <1>4, <1>5, <1>6, <1>7 DEF Next, ThreadStep

LEMMA InitIInv == Init => IInv
<1> SUFFICES ASSUME Init PROVE IInv
  OBVIOUS
<1>1. TypeOK /\ Listed
  BY DEF Init, TypeOK, Listed
<1>2. AllConnectedFirst
  BY DEF Init, AllConnectedFirst
<1>3. ~run /\ state = "None" /\ \A t \in Thread : pc[t] = "start"
  BY DEF Init
<1>4. RunIsComplete /\ SendIsPrepared /\ NoLostWakeup
  BY <1>3 DEF RunIsComplete, SendIsPrepared, NoLostWakeup
<1>5. QED
  BY <1>1, <1>2, <1>4 DEF IInv

\* The variables keep their types: no thread enters a case of the switch that
\* does nothing, such as Recv, in which it would loop for ever.
THEOREM TypeCorrect == Spec => []TypeOK
<1>1. IInv => TypeOK
  BY DEF IInv
<1>2. QED
  BY InitIInv, StepIInv, <1>1, PTL DEF Spec

\* DummyClientProcess sends no dummy packet before ClientManager::Init has run
\* for every session and case Connect has numbered them all.
THEOREM StartsComplete == Spec => []AllConnectedFirst
<1>1. IInv => AllConnectedFirst
  BY DEF IInv
<1>2. QED
  BY InitIInv, StepIInv, <1>1, PTL DEF Spec

\* m_cv's notification cannot be lost: no thread sleeps while run is true.
THEOREM WakesAll == Spec => []NoLostWakeup
<1>1. IInv => NoLostWakeup
  BY DEF IInv
<1>2. QED
  BY InitIInv, StepIInv, <1>1, PTL DEF Spec

-----------------------------------------------------------------------------
\* The threads that saw run and have not come back to the loop.
InCase == {t \in Thread : pc[t] \in {"switch", "prepare", "send", "sending"}}

\* The thread that sends is the one that holds m_Mutex.
SenderHolds == \A t \in Thread : pc[t] = "sending" <=> mutex = t

\* K rounds are over, one of them may be under way, and each of the threads
\* that saw run has one round left at most; after the first, no more see it.
RoundsAre(K) ==
  /\ \A s \in Session : sent[s] = IF mutex # NoThread /\ s \notin left THEN K + 1 ELSE K
  /\ K + Cardinality(InCase) <= Cardinality(Thread)
  /\ K > 0 => ~run

LoadInv == SenderHolds /\ \E K \in Nat : RoundsAre(K)

LEMMA CaseSize ==
  /\ Cardinality(InCase) \in Nat /\ Cardinality(Thread) \in Nat
  /\ Cardinality(InCase) <= Cardinality(Thread)
  /\ Cardinality(InCase') \in Nat /\ Cardinality(InCase') <= Cardinality(Thread)
<1>1. InCase \subseteq Thread /\ InCase' \subseteq Thread
  BY DEF InCase
<1>2. QED
  BY <1>1, ConstantsOK, FS_Subset, FS_CardinalityType

\* How the threads in the switch change when one thread goes on.
LEMMA CaseMoves ==
  ASSUME TypeOK, NEW t \in Thread, NEW to, pc' = [pc EXCEPT ![t] = to]
  PROVE  /\ t \notin InCase /\ to \notin {"switch", "prepare", "send", "sending"} =>
              InCase' = InCase
         /\ t \in InCase => Cardinality(InCase') <= Cardinality(InCase)
         /\ t \in InCase /\ to \notin {"switch", "prepare", "send", "sending"} =>
              Cardinality(InCase') = Cardinality(InCase) - 1
<1>1. pc'[t] = to /\ \A u \in Thread \ {t} : pc'[u] = pc[u]
  BY DEF TypeOK
<1>2. IsFiniteSet(InCase)
  <2>1. InCase \subseteq Thread
    BY DEF InCase
  <2>2. QED
    BY <2>1, ConstantsOK, FS_Subset
<1>3. CASE t \notin InCase /\ to \notin {"switch", "prepare", "send", "sending"}
  <2>1. InCase' = InCase
    BY <1>1, <1>3 DEF InCase
  <2>2. QED
    BY <1>3, <2>1
<1>4. CASE t \in InCase
  <2>1. InCase' \subseteq InCase
    BY <1>1, <1>4 DEF InCase
  <2>2. Cardinality(InCase') <= Cardinality(InCase)
    BY <1>2, <2>1, FS_Subset
  <2>3. ASSUME to \notin {"switch", "prepare", "send", "sending"}
        PROVE  Cardinality(InCase') = Cardinality(InCase) - 1
    <3>1. InCase' = InCase \ {t}
      BY <1>1, <2>3 DEF InCase
    <3>2. QED
      BY <1>2, <1>4, <3>1, FS_RemoveElement
  <2>4. QED
    BY <1>4, <2>2, <2>3
<1>5. QED
  BY <1>3, <1>4, <1>1 DEF InCase

\* The last session connects before the first round.
LEMMA ConnectedLoad ==
  ASSUME IInv, LoadInv, NEW s \in Session, Connected(s)
  PROVE  LoadInv'
<1>1. /\ link[s] = "connecting" /\ mutex = NoThread
      /\ pc' = IF Complete(sessions') THEN Woken ELSE pc
      /\ UNCHANGED <<mutex, left, sent>>
  BY DEF Connected, Free
<1>2. /\ \A t \in Thread : pc[t] \notin {"loop", "switch", "prepare", "send", "sending"}
      /\ \A q \in Session : sent[q] = 0
  BY <1>1, NotBegun
<1>3. \A t \in Thread : pc'[t] \notin {"loop", "switch", "prepare", "send", "sending"}
  <2>1. \A t \in Thread : Woken[t] \notin {"loop", "switch", "prepare", "send", "sending"}
    BY <1>2 DEF Woken
  <2>2. QED
    BY <1>1, <1>2, <2>1
<1>4. SenderHolds'
  BY <1>1, <1>3, ConstantsOK DEF SenderHolds
<1>5. RoundsAre(0)'
  <2>1. 0 + Cardinality(InCase') <= Cardinality(Thread)
    BY CaseSize
  <2>2. \A q \in Session : sent'[q] = IF mutex' # NoThread /\ q \notin left' THEN 0 + 1 ELSE 0
    BY <1>1, <1>2
  <2>3. QED
    BY <2>1, <2>2 DEF RoundsAre
<1>6. QED
  BY <1>4, <1>5 DEF LoadInv

\* A thread goes on outside the sending, and only with run into the switch.
LEMMA GoLoad ==
  ASSUME IInv, LoadInv, NEW t \in Thread, NEW from, NEW to, Goes(t, from, to),
         from # "sending", to # "sending",
         to \in {"switch", "prepare", "send"} => run \/ t \in InCase,
         UNCHANGED <<mutex, left, run, sent>>
  PROVE  LoadInv'
<1>1. pc' = [pc EXCEPT ![t] = to] /\ pc[t] = from
  BY DEF Goes
<1>2. SenderHolds'
  BY <1>1 DEF LoadInv, SenderHolds, IInv, TypeOK
<1>3. PICK K \in Nat : RoundsAre(K)
  BY DEF LoadInv
<1>4. K + Cardinality(InCase') <= Cardinality(Thread)
  <2>1. TypeOK
    BY DEF IInv
  <2>2. CASE t \in InCase
    <3>1. Cardinality(InCase') <= Cardinality(InCase)
      BY <1>1, <2>1, <2>2, CaseMoves, Zenon
    <3>2. QED
      BY <1>3, <3>1, CaseSize DEF RoundsAre
  <2>3. CASE t \notin InCase /\ to \notin {"switch", "prepare", "send", "sending"}
    BY <1>1, <1>3, <2>1, <2>3, CaseMoves DEF RoundsAre
  <2>4. CASE t \notin InCase /\ to \in {"switch", "prepare", "send"}
    <3>1. K = 0
      BY <1>3, <2>4 DEF RoundsAre
    <3>2. QED
      BY <3>1, CaseSize
  <2>5. QED
    BY <2>2, <2>3, <2>4
<1>5. RoundsAre(K)'
  BY <1>3, <1>4 DEF RoundsAre
<1>6. QED
  BY <1>2, <1>5 DEF LoadInv

\* A round sends to each session once, and is the last one of its thread.
LEMMA SendLoad ==
  ASSUME IInv, LoadInv, NEW t \in Thread, SendBegin(t) \/ SendOne(t) \/ SendEnd(t)
  PROVE  LoadInv'
<1>1. PICK K \in Nat : RoundsAre(K)
  BY DEF LoadInv
<1>2. TypeOK /\ NoThread \notin Thread
  BY ConstantsOK DEF IInv
<1>3. CASE SendBegin(t)
  <2>1. /\ mutex = NoThread /\ mutex' = t /\ left' = Session
        /\ pc[t] = "send" /\ pc' = [pc EXCEPT ![t] = "sending"]
        /\ UNCHANGED <<run, sent>>
    BY <1>3 DEF SendBegin, Free, Goes, IInv, RunIsComplete
  <2>2. SenderHolds'
    BY <1>2, <2>1 DEF LoadInv, SenderHolds, TypeOK
  <2>3. K + Cardinality(InCase') <= Cardinality(Thread)
    <3>1. t \in InCase
      BY <2>1 DEF InCase
    <3>2. Cardinality(InCase') <= Cardinality(InCase)
      BY <1>2, <2>1, <3>1, CaseMoves, Zenon
    <3>3. QED
      BY <1>1, <3>2, CaseSize DEF RoundsAre
  <2>4. RoundsAre(K)'
    BY <1>1, <2>1, <2>3 DEF RoundsAre
  <2>5. QED
    BY <2>2, <2>4 DEF LoadInv
<1>4. CASE SendOne(t)
  <2>1. /\ pc[t] = "sending" /\ UNCHANGED <<pc, mutex, run>>
        /\ \E s \in left : left' = left \ {s} /\ sent' = [sent EXCEPT ![s] = @ + 1]
    BY <1>4 DEF SendOne
  <2>2. PICK s \in left : left' = left \ {s} /\ sent' = [sent EXCEPT ![s] = @ + 1]
    BY <2>1
  <2>3. mutex # NoThread
    BY <1>2, <2>1 DEF LoadInv, SenderHolds
  <2>4. \A q \in Session : sent'[q] = IF q \notin left' THEN K + 1 ELSE K
    <3> TAKE q \in Session
    <3>1. sent[q] = IF q \notin left THEN K + 1 ELSE K
      BY <1>1, <2>3 DEF RoundsAre
    <3>2. sent'[q] = IF q = s THEN sent[q] + 1 ELSE sent[q]
      BY <1>2, <2>2 DEF TypeOK
    <3>3. QED
      BY <2>2, <3>1, <3>2
  <2>5. RoundsAre(K)' /\ SenderHolds'
    BY <1>1, <2>1, <2>3, <2>4 DEF RoundsAre, LoadInv, SenderHolds, InCase
  <2>6. QED
    BY <2>5 DEF LoadInv
<1>5. CASE SendEnd(t)
  <2>1. /\ left = {} /\ mutex' = NoThread /\ ~run' /\ UNCHANGED <<left, sent>>
        /\ pc[t] = "sending" /\ pc' = [pc EXCEPT ![t] = "loop"]
    BY <1>5 DEF SendEnd, Goes
  <2>2. mutex = t
    BY <2>1 DEF LoadInv, SenderHolds
  <2>3. SenderHolds'
    BY <1>2, <2>1, <2>2 DEF LoadInv, SenderHolds, TypeOK
  <2>4. K + 1 + Cardinality(InCase') <= Cardinality(Thread)
    <3>1. t \in InCase
      BY <2>1 DEF InCase
    <3>2. Cardinality(InCase') = Cardinality(InCase) - 1
      <4>1. "loop" \notin {"switch", "prepare", "send", "sending"}
        OBVIOUS
      <4>2. QED
        BY <1>2, <2>1, <3>1, <4>1, CaseMoves, Zenon
    <3>3. QED
      BY <1>1, <3>2, CaseSize DEF RoundsAre
  <2>5. \A q \in Session : sent'[q] = K + 1
    BY <1>1, <1>2, <2>1, <2>2 DEF RoundsAre
  <2>6. RoundsAre(K + 1)'
    BY <2>1, <2>4, <2>5 DEF RoundsAre
  <2>7. QED
    BY <2>3, <2>6 DEF LoadInv
<1>6. QED
  BY <1>3, <1>4, <1>5

LEMMA StepLoad == IInv /\ LoadInv /\ [Next]_vars => LoadInv'
<1> SUFFICES ASSUME IInv, LoadInv, [Next]_vars PROVE LoadInv'
  OBVIOUS
<1>1. ASSUME UNCHANGED <<pc, mutex, left, run, sent>> PROVE LoadInv'
  <2>1. PICK K \in Nat : RoundsAre(K)
    BY DEF LoadInv
  <2>2. RoundsAre(K)' /\ SenderHolds'
    BY <1>1, <2>1 DEF RoundsAre, LoadInv, SenderHolds, InCase
  <2>3. QED
    BY <2>2 DEF LoadInv
<1>2. ASSUME NEW s \in Session, ConnectFails(s) \/ Connected(s) PROVE LoadInv'
  BY <1>1, <1>2, ConnectedLoad DEF ConnectFails
<1>3. ASSUME NEW t \in Thread, MakeSession(t) PROVE LoadInv'
  BY <1>1, <1>3 DEF MakeSession
<1>4. ASSUME NEW t \in Thread, SendBegin(t) \/ SendOne(t) \/ SendEnd(t) PROVE LoadInv'
  BY <1>4, SendLoad
<1>5. ASSUME NEW t \in Thread,
             Started(t) \/ ResolveFails(t) \/ SpuriousWakeup(t) \/ Look(t) \/ Prepare(t)
      PROVE  LoadInv'
  <2>1. CASE Started(t) \/ ResolveFails(t) \/ SpuriousWakeup(t)
    BY <2>1, GoLoad DEF Started, ResolveFails, SpuriousWakeup
  <2>2. CASE Look(t)
    <3>1. Goes(t, "wait", "loop") \/ Goes(t, "wait", "asleep")
      BY <2>2 DEF Look
    <3>2. UNCHANGED <<mutex, left, run, sent>>
      BY <2>2 DEF Look
    <3>3. QED
      BY <3>1, <3>2, GoLoad
  <2>3. CASE Prepare(t)
    BY <2>3, GoLoad DEF Prepare
  <2>4. QED
    BY <1>5, <2>1, <2>2, <2>3
<1>6. ASSUME NEW t \in Thread, TestRun(t) PROVE LoadInv'
  <2>1. (run /\ Goes(t, "loop", "switch")) \/ Goes(t, "loop", "done")
    BY <1>6 DEF TestRun
  <2>2. UNCHANGED <<mutex, left, run, sent>>
    BY <1>6 DEF TestRun
  <2>3. QED
    BY <2>1, <2>2, GoLoad
<1>7. ASSUME NEW t \in Thread, Switch(t) PROVE LoadInv'
  <2>1. \E to \in {"prepare", "send", "loop"} : Goes(t, "switch", to)
    BY <1>7 DEF Switch, IInv, TypeOK
  <2>2. t \in InCase
    BY <2>1 DEF Goes, InCase
  <2>3. UNCHANGED <<mutex, left, run, sent>>
    BY <1>7 DEF Switch
  <2>4. QED
    BY <2>1, <2>2, <2>3, GoLoad
<1>8. CASE UNCHANGED vars
  BY <1>1, <1>8 DEF vars
<1>9. QED
  BY <1>2, <1>3, <1>4, <1>5, <1>6, <1>7, <1>8 DEF Next, ThreadStep

LEMMA InitLoad == Init => LoadInv
<1> SUFFICES ASSUME Init PROVE LoadInv
  OBVIOUS
<1>1. /\ mutex = NoThread /\ \A t \in Thread : pc[t] = "start"
      /\ ~run /\ \A s \in Session : sent[s] = 0
  BY DEF Init
<1>2. SenderHolds
  BY <1>1, ConstantsOK DEF SenderHolds
<1>3. 0 + Cardinality(InCase) <= Cardinality(Thread)
  BY CaseSize
<1>4. RoundsAre(0)
  BY <1>1, <1>3 DEF RoundsAre
<1>5. QED
  BY <1>2, <1>4 DEF LoadInv

\* However many threads see run before the first of them clears it, between
\* two rounds all sessions were sent equally many packets, and never more than
\* there are threads.
THEOREM LoadIsEven == Spec => []EvenLoad
<1>1. IInv /\ LoadInv => EvenLoad
  <2> SUFFICES ASSUME IInv, LoadInv PROVE EvenLoad
    OBVIOUS
  <2>1. PICK K \in Nat : RoundsAre(K)
    BY DEF LoadInv
  <2>2. Free => \A s, q \in Session : sent[s] = sent[q]
    BY <2>1 DEF RoundsAre, Free
  <2>3. mutex # NoThread => Cardinality(InCase) >= 1
    <3> SUFFICES ASSUME mutex # NoThread PROVE Cardinality(InCase) >= 1
      OBVIOUS
    <3>1. mutex \in InCase
      BY DEF IInv, TypeOK, LoadInv, SenderHolds, InCase
    <3>2. IsFiniteSet(InCase)
      <4>1. InCase \subseteq Thread
        BY DEF InCase
      <4>2. QED
        BY <4>1, ConstantsOK, FS_Subset
    <3>3. Cardinality(InCase) # 0
      BY <3>1, <3>2, FS_EmptySet
    <3>4. QED
      BY <3>3, CaseSize
  <2>4. \A s \in Session : sent[s] <= Cardinality(Thread)
    BY <2>1, <2>3, CaseSize DEF RoundsAre
  <2>5. QED
    BY <2>2, <2>4 DEF EvenLoad
<1>2. QED
  BY InitIInv, StepIInv, InitLoad, StepLoad, <1>1, PTL DEF Spec

=============================================================================
