-------------------------- MODULE ThreadListProof --------------------------
(***************************************************************************)
(* Joins are safe, and closed threads are over, for any finite sets of     *)
(* threads and of waiters.                                                 *)
(***************************************************************************)
EXTENDS ThreadList, SequenceTheorems, TLAPS

\* The locals of a call say where it is.
Places ==
  /\ lpc = "idle" => lpos = 1
  /\ lpc = "answer" => lpos <= Len(list)
  /\ \A u \in Waiter : wpc[u] # "idle" => wthread[u] \in Thread

LEMMA RemoveAtIs ==
  ASSUME NEW S, NEW s \in Seq(S), NEW i \in 1 .. Len(s)
  PROVE  /\ RemoveAt(s, i) \in Seq(S)
         /\ Len(RemoveAt(s, i)) = Len(s) - 1
         /\ \A j \in 1 .. Len(s) - 1 :
              RemoveAt(s, i)[j] = IF j < i THEN s[j] ELSE s[j + 1]
<1> DEFINE a == SubSeq(s, 1, i - 1)
           b == SubSeq(s, i + 1, Len(s))
<1>1. /\ a \in Seq(S) /\ Len(a) = i - 1
      /\ \A j \in 1 .. i - 1 : a[j] = s[j]
  BY SubSeqProperties, \A j \in 1 .. i - 1 : s[j] \in S
<1>2. /\ b \in Seq(S) /\ Len(b) = Len(s) - i
      /\ \A j \in 1 .. Len(s) - i : b[j] = s[i + j]
  BY SubSeqProperties, \A j \in i + 1 .. Len(s) : s[j] \in S
<1> HIDE DEF a, b
<1>3. /\ a \o b \in Seq(S) /\ Len(a \o b) = Len(s) - 1
      /\ \A j \in 1 .. Len(s) - 1 : (a \o b)[j] = IF j < i THEN s[j] ELSE s[j + 1]
  <2>1. /\ a \o b \in Seq(S) /\ Len(a \o b) = Len(a) + Len(b)
        /\ \A j \in 1 .. Len(a) + Len(b) :
             (a \o b)[j] = IF j <= Len(a) THEN a[j] ELSE b[j - Len(a)]
    BY <1>1, <1>2, ConcatProperties
  <2>2. ASSUME NEW j \in 1 .. Len(s) - 1
        PROVE  (a \o b)[j] = IF j < i THEN s[j] ELSE s[j + 1]
    <3>1. CASE j < i
      BY <1>1, <1>2, <2>1, <3>1
    <3>2. CASE ~(j < i)
      <4>1. j - Len(a) \in 1 .. Len(s) - i /\ i + (j - Len(a)) = j + 1
        BY <1>1, <3>2
      <4>2. (a \o b)[j] = b[j - Len(a)]
        BY <1>1, <1>2, <2>1, <3>2, SMTT(30)
      <4> QED BY <1>2, <3>2, <4>1, <4>2
    <3> QED BY <3>1, <3>2
  <2> QED BY <1>1, <1>2, <2>1, <2>2
<1> QED BY <1>3 DEF RemoveAt, a, b

----------------------------------------------------------------------------
(* The types *)

LEMMA TypeInit == Init => TypeOK /\ Places
<1> SUFFICES ASSUME Init PROVE TypeOK /\ Places
  OBVIOUS
<1> USE DEF Init, JoinInit, TypeOK, JoinTypeOK, Places, WorkerPC, WaitPC, AbsTime
<1> QED OBVIOUS

LEMMA WorkerTypes ==
  ASSUME TypeOK, Places, UNCHANGED listvars,
         NEW t \in Thread, Start(t) \/ Worker(t)
  PROVE  TypeOK' /\ Places'
<1> USE DEF TypeOK, JoinTypeOK, Places, WorkerPC, WaitPC, listvars, waitvars
<1>1. CASE Start(t)
  BY <1>1 DEF Start
<1>2. CASE FuncReturn(t)
  BY <1>2 DEF FuncReturn
<1>3. CASE WorkerLock(t)
  BY <1>3 DEF WorkerLock, Lock
<1>4. CASE WorkerEnd(t)
  BY <1>4 DEF WorkerEnd, Unlock
<1> QED BY <1>1, <1>2, <1>3, <1>4 DEF Worker

LEMMA WaitTypes ==
  ASSUME TypeOK, Places, UNCHANGED listvars,
         NEW u \in Waiter, WaitStep(u) \/ WaitInterrupted(u)
  PROVE  TypeOK' /\ Places'
<1> USE DEF TypeOK, JoinTypeOK, Places, WaitPC, AbsTime, listvars
<1>1. CASE WaitLock(u)
  BY <1>1 DEF WaitLock, Move, Lock
<1>2. CASE WaitReached(u) \/ WaitInterrupted(u)
  BY <1>2 DEF WaitReached, WaitInterrupted, Move
<1>3. CASE WaitZero(u)
  BY <1>3 DEF WaitZero, WaitReturn, Unlock
<1>4. CASE WaitLate(u)
  BY <1>4 DEF WaitLate, WaitReturn
<1>5. CASE WaitSleep(u) \/ WaitUnlock(u)
  BY <1>5 DEF WaitSleep, WaitUnlock, Move, Unlock
<1>6. CASE WaitJoin(u)
  <2> DEFINE t == wthread[u]
  <2>1. /\ WaitReturn(u, "join", TRUE) /\ Unlock(t)
        /\ \/ joins' = [joins EXCEPT ![t] = joins[t] + 1]
              /\ threadjoined' = [threadjoined EXCEPT ![t] = TRUE]
           \/ UNCHANGED <<joins, threadjoined>>
    BY <1>6 DEF WaitJoin
  <2>2. t \in Thread
    BY <2>1 DEF WaitReturn
  <2> HIDE DEF t
  <2>3. joins' \in [Thread -> Nat]
    <3>1. joins \in [Thread -> Nat] /\ joins[t] + 1 \in Nat
      BY <2>2
    <3>2. CASE joins' = [joins EXCEPT ![t] = joins[t] + 1]
      BY <3>1, <3>2
    <3>3. CASE joins' = joins
      BY <3>1, <3>3
    <3> QED BY <2>1, <3>2, <3>3
  <2>4. threadjoined' \in [Thread -> BOOLEAN]
    <3>1. CASE threadjoined' = [threadjoined EXCEPT ![t] = TRUE]
      BY <2>2, <3>1
    <3>2. CASE threadjoined' = threadjoined
      BY <3>2
    <3> QED BY <2>1, <3>1, <3>2
  <2> QED BY <2>1, <2>3, <2>4 DEF WaitReturn, Unlock
<1> QED BY <1>1, <1>2, <1>3, <1>4, <1>5, <1>6 DEF WaitStep

LEMMA CallTypes ==
  ASSUME TypeOK, Places, NEW u \in Waiter, NEW t \in Thread, NEW when \in AbsTime,
         WaitCall(u, t, when)
  PROVE  JoinTypeOK' /\ \A v \in Waiter : wpc'[v] # "idle" => wthread'[v] \in Thread
BY DEF TypeOK, JoinTypeOK, Places, WaitCall, WaitPC, threadvars

LEMMA ListTypes ==
  ASSUME TypeOK, Places, ListStep
  PROVE  TypeOK' /\ Places'
<1> USE DEF TypeOK, JoinTypeOK, Places, AbsTime, threadvars, waitvars, Return, Turn
<1>1. CASE \E elapsed \in BOOLEAN : Clock(elapsed)
  BY <1>1 DEF Clock
<1>2. CASE Ask
  <2>1. lpos \in 1 .. Len(list) /\ list[lpos] \in Thread
    BY <1>2 DEF Ask
  <2>2. JoinTypeOK' /\ \A v \in Waiter : wpc'[v] # "idle" => wthread'[v] \in Thread
    BY <1>2, <2>1, CallTypes, MainAssumption DEF Ask
  <2> QED BY <1>2, <2>1, <2>2 DEF Ask
<1>3. CASE AnswerNo
  BY <1>3 DEF AnswerNo, Answered
<1>4. CASE AnswerYes
  <2>1. lpos \in 1 .. Len(list) /\ list[lpos] \in Thread
    BY <1>4 DEF AnswerYes, Answered
  <2> QED BY SMTT(20), <1>4, <2>1, RemoveAtIs DEF AnswerYes, Answered
<1>5. CASE TurnEnd
  BY <1>5 DEF TurnEnd
<1>6. CASE \E when \in AbsTime : ListWait(when)
  BY <1>6 DEF ListWait
<1>7. CASE ListCloseEnd
  BY <1>7 DEF ListCloseEnd
<1> QED BY <1>1, <1>2, <1>3, <1>4, <1>5, <1>6, <1>7 DEF ListStep

LEMMA ProgramTypes ==
  ASSUME TypeOK, Places, Program
  PROVE  TypeOK' /\ Places'
<1> USE DEF TypeOK, JoinTypeOK, Places, AbsTime, threadvars, waitvars, listvars
<1>1. CASE \E t \in Thread : Close(t)
  BY <1>1 DEF Close
<1>2. CASE \E t \in Thread : Add(t)
  BY <1>2 DEF Add, ListReady
<1>3. CASE \E t \in Thread : Del(t)
  BY <1>3, RemoveAtIs DEF Del, ListReady
<1>4. CASE \E u \in Waiter, t \in Thread, when \in AbsTime : WaitBegin(u, t, when)
  BY <1>4, CallTypes DEF WaitBegin
<1>5. CASE \E when \in AbsTime : ListWait(when)
  BY <1>5 DEF ListWait, Turn
<1>6. CASE ListWaitEmpty \/ ListClose \/ ListInit
  BY <1>6 DEF ListWaitEmpty, ListClose, ListInit, Return, ListReady
<1> QED BY <1>1, <1>2, <1>3, <1>4, <1>5, <1>6 DEF Program

LEMMA TypeStep == TypeOK /\ Places /\ [Next]_vars => TypeOK' /\ Places'
<1> SUFFICES ASSUME TypeOK, Places, [Next]_vars PROVE TypeOK' /\ Places'
  OBVIOUS
<1>1. CASE UNCHANGED vars
  BY <1>1 DEF TypeOK, JoinTypeOK, Places, vars, threadvars, waitvars, listvars
<1> QED BY <1>1, WorkerTypes, WaitTypes, ListTypes, ProgramTypes DEF Next

\* The variables keep their types, and the index of the list stays in it.
THEOREM TypeCorrect == Spec => []TypeOK
BY TypeInit, TypeStep, PTL DEF Spec

----------------------------------------------------------------------------
(* Joins *)

\* What a step of the list or of the program changes in threads and waits.
Outside ==
  /\ UNCHANGED <<worker, condmut, condreached, threadjoined, joins>>
  /\ \/ UNCHANGED waitvars
     \/ \E u \in Waiter, t \in Thread, when \in AbsTime : WaitCall(u, t, when)

LEMMA OutsideStep ==
  ASSUME TypeOK, Places, ListStep \/ Program
  PROVE  Outside
<1> USE DEF Outside, threadvars
<1>1. CASE Ask
  <2>1. list[lpos] \in Thread /\ "ZERO" \in AbsTime
    BY <1>1 DEF Ask, TypeOK, AbsTime
  <2>2. WaitCall(Main, list[lpos], "ZERO")
    BY <1>1 DEF Ask
  <2>3. UNCHANGED threadvars
    BY <2>2 DEF WaitCall
  <2> QED BY <2>1, <2>2, <2>3, MainAssumption
<1>2. CASE \E u \in Waiter, t \in Thread, when \in AbsTime : WaitBegin(u, t, when)
  <2>1. PICK u \in Waiter, t \in Thread, when \in AbsTime : WaitCall(u, t, when)
    BY <1>2 DEF WaitBegin
  <2>2. UNCHANGED threadvars
    BY <2>1 DEF WaitCall
  <2> QED BY <2>1, <2>2
<1>3. CASE ListStep /\ ~Ask
  BY <1>3 DEF ListStep, Clock, AnswerNo, AnswerYes, TurnEnd, ListWait, ListCloseEnd
<1>4. CASE Program /\ ~(\E u \in Waiter, t \in Thread, when \in AbsTime :
                          WaitBegin(u, t, when))
  BY <1>4 DEF Program, Close, Add, Del, ListWait, ListWaitEmpty, ListClose, ListInit
<1> QED BY <1>1, <1>2, <1>3, <1>4

\* A waiter that has been woken has been woken by the end of its thread.
Raised ==
  \A u \in Waiter :
    wpc[u] \in {"wake", "unlock", "relock", "join"} => condreached[wthread[u]]

JoinedOnce == \A t \in Thread : joins[t] = IF threadjoined[t] THEN 1 ELSE 0

JoinInv == TypeOK /\ Places /\ Raised /\ JoinedOnce

LEMMA RaisedStep ==
  ASSUME JoinInv, ~Spurious, [Next]_vars
  PROVE  Raised'
<1> USE DEF JoinInv, TypeOK, JoinTypeOK, Places, Raised, WaitPC
<1>1. ASSUME NEW t \in Thread, Start(t) \/ Worker(t)
      PROVE  Raised'
  <2>1. CASE WorkerEnd(t)
    BY <2>1 DEF WorkerEnd
  <2>2. CASE ~WorkerEnd(t)
    BY <1>1, <2>2 DEF Start, Worker, FuncReturn, WorkerLock, waitvars
  <2> QED BY <2>1, <2>2
<1>2. ASSUME NEW u \in Waiter, WaitStep(u) \/ WaitInterrupted(u)
      PROVE  Raised'
  <2>1. CASE WaitLock(u) \/ WaitReached(u) \/ WaitSleep(u) \/ WaitUnlock(u)
    BY <2>1 DEF WaitLock, WaitReached, WaitSleep, WaitUnlock, Move
  <2>2. CASE WaitInterrupted(u)
    BY <2>2 DEF WaitInterrupted, Move
  <2>3. CASE WaitZero(u) \/ WaitLate(u) \/ WaitJoin(u)
    BY <2>3 DEF WaitZero, WaitLate, WaitJoin, WaitReturn
  <2> QED BY <1>2, <2>1, <2>2, <2>3 DEF WaitStep
<1>3. CASE ListStep \/ Program
  BY <1>3, OutsideStep DEF Outside, WaitCall, waitvars
<1>4. CASE UNCHANGED vars
  BY <1>4 DEF vars, threadvars, waitvars
<1> QED BY <1>1, <1>2, <1>3, <1>4 DEF Next

LEMMA JoinedOnceStep ==
  ASSUME JoinInv, [Next]_vars
  PROVE  JoinedOnce'
<1> USE DEF JoinInv, TypeOK, JoinTypeOK, Places, JoinedOnce
<1>1. CASE \E t \in Thread : Start(t) \/ Worker(t)
  BY <1>1 DEF Start, Worker, FuncReturn, WorkerLock, WorkerEnd
<1>2. ASSUME NEW u \in Waiter, WaitStep(u) \/ WaitInterrupted(u)
      PROVE  JoinedOnce'
  <2>1. CASE WaitJoin(u)
    BY <2>1 DEF WaitJoin, WaitReturn
  <2>2. CASE ~WaitJoin(u)
    BY <1>2, <2>2 DEF WaitStep, WaitInterrupted, WaitLock, WaitReached, WaitZero,
                      WaitSleep, WaitLate, WaitUnlock
  <2> QED BY <2>1, <2>2
<1>3. CASE ListStep \/ Program
  BY <1>3, OutsideStep DEF Outside
<1>4. CASE UNCHANGED vars
  BY <1>4 DEF vars, threadvars
<1> QED BY <1>1, <1>2, <1>3, <1>4 DEF Next

\* pthread_join is called once for each thread, and never blocks with condmut
\* locked, if pthread_cond_wait returns only when asked to.
THEOREM SafeJoins == ~Spurious => (Spec => []JoinsAreSafe)
<1> SUFFICES ASSUME ~Spurious PROVE Spec => []JoinsAreSafe
  OBVIOUS
<1>1. Init => JoinInv
  BY TypeInit DEF Init, JoinInit, JoinInv, Raised, JoinedOnce
<1>2. JoinInv /\ [Next]_vars => JoinInv'
  BY TypeStep, RaisedStep, JoinedOnceStep DEF JoinInv
<1>3. JoinInv => JoinsAreSafe
  BY DEF JoinInv, Raised, JoinedOnce, JoinsAreSafe
<1> QED BY <1>1, <1>2, <1>3, PTL DEF Spec

----------------------------------------------------------------------------
(* Freed threads *)

\* A joined thread has ended; condmut is with the thread or the waiter whose
\* place in the code says so.
Joined == \A t \in Thread : threadjoined[t] => worker[t] = "exited"
Held ==
  \A t \in Thread :
    \/ condmut[t] = Nobody
    \/ condmut[t] = t /\ worker[t] = "locked"
    \/ \E u \in Waiter : /\ condmut[t] = u /\ wthread[u] = t
                         /\ wpc[u] \in {"test", "unlock", "join"}

\* A thread of the list is there once, and only Main waits for it, when the
\* scan has come to it; the answer that it is over is true.
Distinct == \A i, j \in 1 .. Len(list) : list[i] = list[j] => i = j
Alone ==
  \A u \in Waiter, i \in 1 .. Len(list) :
    wpc[u] # "idle" /\ wthread[u] = list[i] => u = Main /\ lpc = "answer" /\ lpos = i
Answer ==
  lpc = "answer" =>
    /\ wpc[Main] # "idle" => wthread[Main] = list[lpos]
    /\ wpc[Main] = "idle" /\ event[Main] => threadjoined[list[lpos]]

Over ==
  \A t \in freed :
    /\ threadjoined[t]
    /\ \A i \in 1 .. Len(list) : list[i] # t
    /\ \A u \in Waiter : wpc[u] # "idle" => wthread[u] # t

ThreadInv == Joined /\ Held
ListInv == Distinct /\ Alone /\ Answer /\ Over
OverInv == TypeOK /\ Places /\ ThreadInv /\ ListInv

\* What is left of a list of distinct threads.
LEMMA RemovedIs ==
  ASSUME list \in Seq(Thread), Distinct, NEW i \in 1 .. Len(list),
         list' = RemoveAt(list, i)
  PROVE  /\ \A j \in 1 .. Len(list') :
              \E k \in 1 .. Len(list) : k # i /\ list'[j] = list[k]
         /\ Distinct'
<1>1. /\ Len(list') = Len(list) - 1
      /\ \A j \in 1 .. Len(list) - 1 :
           list'[j] = IF j < i THEN list[j] ELSE list[j + 1]
  BY RemoveAtIs
<1> DEFINE from(j) == IF j < i THEN j ELSE j + 1
<1>2. \A j \in 1 .. Len(list') :
        from(j) \in 1 .. Len(list) /\ from(j) # i /\ list'[j] = list[from(j)]
  BY <1>1
<1>3. \A j, k \in 1 .. Len(list') : from(j) = from(k) => j = k
  BY <1>1
<1> HIDE DEF from
<1> QED BY <1>2, <1>3 DEF Distinct

\* Those who hold a mutex keep it.
LEMMA HeldKept ==
  ASSUME Held, UNCHANGED <<condmut, worker>>,
         \A u \in Waiter : wpc[u] \in {"test", "unlock", "join"} =>
           wpc'[u] \in {"test", "unlock", "join"} /\ wthread'[u] = wthread[u]
  PROVE  Held'
BY DEF Held

LEMMA ThreadInvStep ==
  ASSUME OverInv, [Next]_vars
  PROVE  ThreadInv'
<1> USE JoinAssumption DEF OverInv, TypeOK, JoinTypeOK, Places, ThreadInv, Joined, Held, WaitPC
<1>1. ASSUME NEW t \in Thread, Start(t) \/ Worker(t)
      PROVE  ThreadInv'
  <2>1. CASE Start(t) \/ FuncReturn(t)
    BY <2>1 DEF Start, FuncReturn, waitvars
  <2>2. CASE WorkerLock(t)
    BY <2>2 DEF WorkerLock, Lock, waitvars
  <2>3. CASE WorkerEnd(t)
    BY <2>3 DEF WorkerEnd, Unlock
  <2> QED BY <1>1, <2>1, <2>2, <2>3 DEF Worker
<1>2. ASSUME NEW u \in Waiter, WaitStep(u) \/ WaitInterrupted(u)
      PROVE  ThreadInv'
  <2>1. CASE WaitLock(u)
    BY <2>1 DEF WaitLock, Move, Lock
  <2>2. CASE WaitReached(u) \/ WaitInterrupted(u)
    <3>1. \A v \in Waiter : wpc[v] \in {"test", "unlock", "join"} =>
            wpc'[v] \in {"test", "unlock", "join"}
      BY <2>2 DEF WaitReached, WaitInterrupted, Move
    <3>2. UNCHANGED <<condmut, worker, wthread, threadjoined>>
      BY <2>2 DEF WaitReached, WaitInterrupted, Move
    <3> QED BY <3>1, <3>2, HeldKept
  <2>3. CASE WaitZero(u)
    BY <2>3 DEF WaitZero, WaitReturn, Unlock
  <2>4. CASE WaitLate(u)
    BY <2>4 DEF WaitLate, WaitReturn
  <2>5. CASE WaitSleep(u) \/ WaitUnlock(u)
    <3>1. CASE WaitSleep(u)
      BY <3>1 DEF WaitSleep, Move, Unlock
    <3>2. CASE WaitUnlock(u)
      BY <3>2 DEF WaitUnlock, Move, Unlock
    <3> QED BY <2>5, <3>1, <3>2
  <2>6. CASE WaitJoin(u)
    <3>1. Held'
      BY <2>6 DEF WaitJoin, WaitReturn, Unlock
    <3>2. Joined'
      BY <2>6 DEF WaitJoin, WaitReturn
    <3> QED BY <3>1, <3>2
  <2> QED BY <1>2, <2>1, <2>2, <2>3, <2>4, <2>5, <2>6 DEF WaitStep
<1>3. CASE ListStep \/ Program
  <2>1. Outside
    BY <1>3, OutsideStep
  <2>2. \A v \in Waiter : wpc[v] \in {"test", "unlock", "join"} =>
          wpc'[v] = wpc[v] /\ wthread'[v] = wthread[v]
    BY <2>1 DEF Outside, WaitCall, waitvars
  <2> QED BY <2>1, <2>2, HeldKept DEF Outside
<1>4. CASE UNCHANGED vars
  BY <1>4 DEF vars, threadvars, waitvars
<1> QED BY <1>1, <1>2, <1>3, <1>4 DEF Next

\* A step inside a call of netwib_thread_wait.
LEMMA ListInvWait ==
  ASSUME OverInv, UNCHANGED listvars,
         NEW u \in Waiter, WaitStep(u) \/ WaitInterrupted(u)
  PROVE  ListInv'
<1> USE JoinAssumption, MainAssumption
    DEF OverInv, TypeOK, JoinTypeOK, Places, ListInv, Distinct, Alone, Answer, Over, WaitPC, listvars
<1>1. CASE WaitLock(u) \/ WaitReached(u) \/ WaitInterrupted(u) \/ WaitSleep(u) \/ WaitUnlock(u)
  BY <1>1 DEF WaitLock, WaitReached, WaitInterrupted, WaitSleep, WaitUnlock, Move
<1>2. CASE WaitZero(u) \/ WaitLate(u)
  <2>1. WaitReturn(u, "test", FALSE) \/ WaitReturn(u, "late", FALSE)
    BY <1>2 DEF WaitZero, WaitLate
  <2>2. UNCHANGED <<threadjoined, freed>>
    BY <1>2 DEF WaitZero, WaitLate, WaitReturn
  <2>3. \A v \in Waiter : wpc'[v] # "idle" => wpc'[v] = wpc[v] /\ wthread'[v] = wthread[v]
    BY <2>1 DEF WaitReturn
  <2>4. Distinct' /\ Alone'
    <3>1. Distinct /\ Alone /\ UNCHANGED <<list, lpc, lpos>>
      OBVIOUS
    <3> QED BY ONLY <2>3, <3>1 DEF Distinct, Alone
  <2>5. Over'
    BY <2>2, <2>3
  <2>6. Answer'
    BY <2>1, <2>2 DEF WaitReturn
  <2> QED BY <2>4, <2>5, <2>6
<1>3. CASE WaitJoin(u)
  <2> DEFINE t == wthread[u]
  <2>1. WaitReturn(u, "join", TRUE) /\ t \in Thread
    BY <1>3 DEF WaitJoin, WaitReturn
  <2>2. /\ threadjoined'[t]
        /\ \A v \in Thread : threadjoined[v] => threadjoined'[v]
    <3>1. CASE threadjoined' = [threadjoined EXCEPT ![t] = TRUE]
      BY <2>1, <3>1
    <3>2. CASE threadjoined[t] /\ threadjoined' = threadjoined
      BY <3>2
    <3> QED BY <1>3, <3>1, <3>2 DEF WaitJoin
  <2>3. Distinct' /\ Alone' /\ Over'
    BY <2>1, <2>2 DEF WaitReturn
  <2>4. Answer'
    <3>1. CASE u = Main
      BY <2>1, <2>2, <3>1 DEF WaitReturn
    <3>2. CASE u # Main
      <4>1. wpc'[Main] = wpc[Main] /\ wthread'[Main] = wthread[Main] /\ event'[Main] = event[Main]
        BY <2>1, <3>2 DEF WaitReturn
      <4>2. lpc = "answer" => list[lpos] \in Thread
        OBVIOUS
      <4> QED BY <2>2, <4>1, <4>2
    <3> QED BY <3>1, <3>2
  <2> QED BY <2>3, <2>4
<1> QED BY <1>1, <1>2, <1>3 DEF WaitStep

\* A call of netwib_thread_wait, by the list or by the program.
LEMMA ListInvCall ==
  ASSUME OverInv, NEW u \in Waiter, NEW t \in Thread \ freed, NEW when \in AbsTime,
         WaitCall(u, t, when), UNCHANGED <<list, lpos>>,
         \/ t \notin Listed /\ lpc' = lpc /\ (u = Main => lpc = "idle")
         \/ u = Main /\ lpc = "scan" /\ lpc' = "answer" /\ lpos <= Len(list) /\ t = list[lpos]
  PROVE  ListInv'
<1> USE JoinAssumption, MainAssumption
    DEF OverInv, TypeOK, JoinTypeOK, Places, ListInv, Distinct, Alone, Answer, Over,
        WaitPC, WaitCall, threadvars, Listed
<1>1. Distinct' /\ Over'
  OBVIOUS
<1>2. Alone'
  OBVIOUS
<1>3. Answer'
  OBVIOUS
<1> QED BY <1>1, <1>2, <1>3

LEMMA ListInvList ==
  ASSUME OverInv, ListStep
  PROVE  ListInv'
<1> USE JoinAssumption, MainAssumption
    DEF OverInv, TypeOK, JoinTypeOK, Places, ListInv, Distinct, Alone, Answer, Over,
        WaitPC, AbsTime, threadvars, waitvars, Return, Turn
<1>1. CASE \E elapsed \in BOOLEAN : Clock(elapsed)
  BY <1>1 DEF Clock
<1>2. CASE Ask
  <2>1. lpos \in 1 .. Len(list) /\ list[lpos] \in Thread \ freed
    BY <1>2 DEF Ask
  <2> QED BY <1>2, <2>1, ListInvCall DEF Ask
<1>3. CASE AnswerNo
  BY <1>3 DEF AnswerNo, Answered
<1>4. CASE AnswerYes
  <2>1. lpos \in 1 .. Len(list) /\ list[lpos] \in Thread /\ threadjoined[list[lpos]]
    BY <1>4 DEF AnswerYes, Answered
  <2>2. /\ \A j \in 1 .. Len(list') : \E k \in 1 .. Len(list) : k # lpos /\ list'[j] = list[k]
        /\ Distinct'
    <3>1. list' = RemoveAt(list, lpos) /\ list \in Seq(Thread) /\ Distinct
      BY <1>4 DEF AnswerYes
    <3> QED BY ONLY <2>1, <3>1, RemovedIs
  <2>3. freed' = freed \cup {list[lpos]} /\ lpc' = "idle" /\ UNCHANGED <<waitvars, threadjoined>>
    BY <1>4 DEF AnswerYes
  <2>4. wpc[Main] = "idle" /\ lpc = "answer"
    BY <1>4 DEF AnswerYes, Answered
  <2>5. Answer'
    BY <2>3
  <2>6. Alone'
    <3>1. Alone /\ UNCHANGED <<wpc, wthread>>
      BY <2>3
    <3> QED BY ONLY <2>2, <3>1 DEF Alone
  <2>7. Over'
    <3>1. Over /\ Alone /\ Distinct /\ UNCHANGED <<wpc, wthread, threadjoined>>
      BY <2>3
    <3>2. \A v \in Waiter : wpc[v] # "idle" => wthread[v] # list[lpos]
      BY ONLY <2>1, <2>4, <3>1 DEF Alone
    <3> QED BY ONLY <2>1, <2>2, <2>3, <3>1, <3>2 DEF Over, Distinct
  <2> QED BY <2>2, <2>5, <2>6, <2>7
<1>5. CASE TurnEnd
  BY <1>5 DEF TurnEnd
<1>6. CASE \E when \in AbsTime : ListWait(when)
  BY <1>6 DEF ListWait
<1>7. CASE ListCloseEnd
  BY <1>7 DEF ListCloseEnd
<1> QED BY <1>1, <1>2, <1>3, <1>4, <1>5, <1>6, <1>7 DEF ListStep

LEMMA ListInvProgram ==
  ASSUME OverInv, Program
  PROVE  ListInv'
<1> USE JoinAssumption, MainAssumption
    DEF OverInv, TypeOK, JoinTypeOK, Places, ListInv, Distinct, Alone, Answer, Over,
        WaitPC, threadvars, waitvars, listvars, Direct, Listed, Inside
<1>1. CASE \E t \in Thread : Close(t)
  BY <1>1 DEF Close
<1>2. CASE \E t \in Thread : Add(t)
  BY <1>2 DEF Add, ListReady
<1>3. CASE \E t \in Thread : Del(t)
  <2>1. PICK i \in 1 .. Len(list) : list' = RemoveAt(list, i)
    BY <1>3 DEF Del
  <2>2. /\ \A j \in 1 .. Len(list') : \E k \in 1 .. Len(list) : list'[j] = list[k]
        /\ Distinct'
    <3>1. list \in Seq(Thread) /\ Distinct
      OBVIOUS
    <3> QED BY ONLY <2>1, <3>1, RemovedIs
  <2>3. lpc = "idle" /\ lpc' = "idle" /\ UNCHANGED <<waitvars, threadvars>>
    BY <1>3 DEF Del, ListReady
  <2>4. Alone' /\ Over'
    <3>1. Alone /\ Over /\ UNCHANGED <<wpc, wthread, threadjoined, freed>>
      BY <2>3
    <3> QED BY ONLY <2>2, <2>3, <3>1 DEF Alone, Over
  <2>5. Answer'
    BY <2>3
  <2> QED BY <2>2, <2>4, <2>5
<1>4. CASE \E u \in Waiter, t \in Thread, when \in AbsTime : WaitBegin(u, t, when)
  BY <1>4, ListInvCall DEF WaitBegin, Busy
<1>5. CASE \E when \in AbsTime : ListWait(when)
  BY <1>5 DEF ListWait, Turn
<1>6. CASE ListWaitEmpty \/ ListClose \/ ListInit
  BY <1>6 DEF ListWaitEmpty, ListClose, ListInit, Return, ListReady
<1> QED BY <1>1, <1>2, <1>3, <1>4, <1>5, <1>6 DEF Program

LEMMA OverStep ==
  ASSUME OverInv, [Next]_vars
  PROVE  OverInv'
<1>1. TypeOK' /\ Places'
  BY TypeStep DEF OverInv
<1>2. ThreadInv'
  BY ThreadInvStep
<1>3. ListInv'
  <2> USE DEF OverInv, ListInv, Distinct, Alone, Answer, Over
  <2>1. ASSUME NEW t \in Thread, Start(t) \/ Worker(t), UNCHANGED listvars
        PROVE  ListInv'
    BY <2>1, MainAssumption
       DEF Start, Worker, FuncReturn, WorkerLock, WorkerEnd, listvars, waitvars, TypeOK, JoinTypeOK
  <2>2. CASE UNCHANGED vars
    BY <2>2 DEF vars, threadvars, waitvars, listvars
  <2> QED BY <2>1, <2>2, ListInvWait, ListInvList, ListInvProgram DEF Next
<1> QED BY <1>1, <1>2, <1>3 DEF OverInv

\* A freed thread has ended and has been joined, is in no list, nobody waits
\* for it and its mutex is free.
THEOREM FreedIsOver == Spec => []ClosedIsOver
<1>1. Init => OverInv
  BY TypeInit, MainAssumption
     DEF Init, JoinInit, OverInv, ThreadInv, Joined, Held, ListInv, Distinct, Alone, Answer, Over
<1>2. OverInv /\ [Next]_vars => OverInv'
  BY OverStep
<1>3. OverInv => ClosedIsOver
  <2> SUFFICES ASSUME OverInv, NEW t \in freed
               PROVE  /\ worker[t] = "exited" /\ threadjoined[t]
                      /\ t \notin Listed /\ Inside(t) = {} /\ condmut[t] = Nobody
    BY DEF ClosedIsOver
  <2>1. t \in Thread /\ threadjoined[t] /\ worker[t] = "exited"
    BY DEF OverInv, TypeOK, JoinTypeOK, ThreadInv, Joined, ListInv, Over
  <2>2. t \notin Listed /\ Inside(t) = {}
    BY DEF OverInv, TypeOK, ListInv, Over, Listed, Inside
  <2>3. condmut[t] = Nobody
    BY <2>1, <2>2 DEF OverInv, ThreadInv, Held, Inside
  <2> QED BY <2>1, <2>2, <2>3
<1> QED BY <1>1, <1>2, <1>3, PTL DEF Spec
============================================================================
