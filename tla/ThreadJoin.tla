----------------------------- MODULE ThreadJoin -----------------------------
(***************************************************************************)
(* netwib threads over POSIX ones (sys/pieces/thread_posix.c).             *)
(*                                                                         *)
(* A new thread runs pfunc, then raises condreached under condmut and      *)
(* broadcasts.  netwib_thread_wait waits for condreached, whose end time   *)
(* it can bound, then joins the POSIX thread: once, for all the waiters.   *)
(* Each lock, unlock and wait is a step; what is done under condmut is     *)
(* done in the step that leaves it.                                        *)
(***************************************************************************)
EXTENDS Integers, FiniteSets, EndTime

CONSTANTS Thread,    \* the netwib_thread objects; each one is used once
          Waiter,    \* the program's threads that call netwib_thread_wait
          Nobody,
          Spurious   \* pthread_cond_wait may return unasked, as POSIX allows

ASSUME JoinAssumption ==
  /\ IsFiniteSet(Thread) /\ IsFiniteSet(Waiter)
  /\ Thread \cap Waiter = {} /\ Nobody \notin Thread \cup Waiter
  /\ Spurious \in BOOLEAN

VARIABLES worker,        \* where the POSIX thread of each object is
          condmut,       \* owner of each condmut
          condreached,
          threadjoined,
          joins,         \* history: calls of pthread_join
          freed,         \* objects given to netwib_thread_close
          wpc,           \* where each waiter is in netwib_thread_wait,
          wthread,       \* with which pthread
          wtime,         \* and pabstime,
          event          \* and *pevent of the last call

threadvars == <<worker, condmut, condreached, threadjoined, joins, freed>>
waitvars == <<wpc, wthread, wtime, event>>

WorkerPC == {"none", "running", "returned", "locked", "exited"}

\* lock, wake, late, relock wait for condmut (late: after the end time); test,
\* unlock and join own it; sleep is inside pthread_cond_wait.
WaitPC == {"idle", "lock", "test", "sleep", "wake", "late", "unlock",
           "relock", "join"}

JoinInit ==
  /\ worker = [t \in Thread |-> "none"]
  /\ condmut = [t \in Thread |-> Nobody]
  /\ condreached = [t \in Thread |-> FALSE]
  /\ threadjoined = [t \in Thread |-> FALSE]
  /\ joins = [t \in Thread |-> 0]
  /\ freed = {}
  /\ wpc = [u \in Waiter |-> "idle"]
  /\ wthread = [u \in Waiter |-> Nobody]
  /\ wtime = [u \in Waiter |-> "ZERO"]
  /\ event = [u \in Waiter |-> FALSE]

Lock(t, x) == condmut[t] = Nobody /\ condmut' = [condmut EXCEPT ![t] = x]
Unlock(t) == condmut' = [condmut EXCEPT ![t] = Nobody]

----------------------------------------------------------------------------
(* netwib_thread_init, netwib_priv_thread_init, netwib_thread_close *)

Start(t) ==
  /\ worker[t] = "none"
  /\ worker' = [worker EXCEPT ![t] = "running"]
  /\ UNCHANGED <<condmut, condreached, threadjoined, joins, freed, waitvars>>

\* pfunc returns.
FuncReturn(t) ==
  /\ worker[t] = "running"
  /\ worker' = [worker EXCEPT ![t] = "returned"]
  /\ UNCHANGED <<condmut, condreached, threadjoined, joins, freed, waitvars>>

WorkerLock(t) ==
  /\ worker[t] = "returned"
  /\ Lock(t, t)
  /\ worker' = [worker EXCEPT ![t] = "locked"]
  /\ UNCHANGED <<condreached, threadjoined, joins, freed, waitvars>>

\* Faulty form: nobody is woken.
WorkerEndNoBroadcast(t) ==
  /\ worker[t] = "locked"
  /\ condreached' = [condreached EXCEPT ![t] = TRUE]
  /\ Unlock(t)
  /\ worker' = [worker EXCEPT ![t] = "exited"]
  /\ UNCHANGED <<threadjoined, joins, freed, waitvars>>

\* condreached, the broadcast, the unlock, and the end of the POSIX thread.
WorkerEnd(t) ==
  /\ worker[t] = "locked"
  /\ condreached' = [condreached EXCEPT ![t] = TRUE]
  /\ wpc' = [u \in Waiter |-> IF wpc[u] = "sleep" /\ wthread[u] = t
                              THEN "wake" ELSE wpc[u]]
  /\ Unlock(t)
  /\ worker' = [worker EXCEPT ![t] = "exited"]
  /\ UNCHANGED <<threadjoined, joins, freed, wthread, wtime, event>>

Worker(t) == FuncReturn(t) \/ WorkerLock(t) \/ WorkerEnd(t)

Inside(t) == {u \in Waiter : wpc[u] # "idle" /\ wthread[u] = t}

----------------------------------------------------------------------------
(* netwib_thread_wait *)

WaitCall(u, t, when) ==
  /\ wpc[u] = "idle"
  /\ wpc' = [wpc EXCEPT ![u] = "lock"]
  /\ wthread' = [wthread EXCEPT ![u] = t]
  /\ wtime' = [wtime EXCEPT ![u] = when]
  /\ event' = [event EXCEPT ![u] = FALSE]
  /\ UNCHANGED threadvars

Move(u, from, to) ==
  /\ wpc[u] = from
  /\ wpc' = [wpc EXCEPT ![u] = to]
  /\ UNCHANGED <<worker, condreached, freed, wthread, wtime, event>>

\* The call returns; its locals are gone.
WaitReturn(u, from, ev) ==
  /\ wpc[u] = from
  /\ wpc' = [wpc EXCEPT ![u] = "idle"]
  /\ wthread' = [wthread EXCEPT ![u] = Nobody]
  /\ wtime' = [wtime EXCEPT ![u] = "ZERO"]
  /\ event' = [event EXCEPT ![u] = ev]
  /\ UNCHANGED <<worker, condreached, freed>>

\* Taking condmut: at first, when woken, and again for the join.
WaitLock(u) ==
  /\ \/ Move(u, "lock", "test")
     \/ Move(u, "wake", "unlock")
     \/ Move(u, "relock", "join")
  /\ Lock(wthread[u], u)
  /\ UNCHANGED <<threadjoined, joins>>

\* The thread has ended already.
WaitReached(u) ==
  /\ Move(u, "test", "unlock")
  /\ condreached[wthread[u]]
  /\ UNCHANGED <<condmut, threadjoined, joins>>

\* It has not: TIME_ZERO gives up.
WaitZero(u) ==
  /\ WaitReturn(u, "test", FALSE)
  /\ ~condreached[wthread[u]] /\ wtime[u] = "ZERO"
  /\ Unlock(wthread[u])
  /\ UNCHANGED <<threadjoined, joins>>

\* The other waits sleep, and release condmut.
WaitSleep(u) ==
  /\ Move(u, "test", "sleep")
  /\ ~condreached[wthread[u]] /\ wtime[u] # "ZERO"
  /\ Unlock(wthread[u])
  /\ UNCHANGED <<threadjoined, joins>>

\* pthread_cond_timedwait reaches its end time, or the wait is ended unasked.
WaitInterrupted(u) ==
  /\ \/ wtime[u] = "TIMED" /\ Move(u, "sleep", "late")
     \/ Spurious /\ Move(u, "sleep", "wake")
  /\ UNCHANGED <<condmut, threadjoined, joins>>

\* ETIMEDOUT: condmut is taken back and left at once.
WaitLate(u) ==
  /\ WaitReturn(u, "late", FALSE)
  /\ condmut[wthread[u]] = Nobody
  /\ UNCHANGED <<condmut, threadjoined, joins>>

WaitUnlock(u) ==
  /\ Move(u, "unlock", "relock")
  /\ Unlock(wthread[u])
  /\ UNCHANGED <<threadjoined, joins>>

\* Faulty form: every waiter joins.
WaitJoinAlways(u) ==
  LET t == wthread[u]
  IN  /\ WaitReturn(u, "join", TRUE)
      /\ worker[t] = "exited"
      /\ joins' = [joins EXCEPT ![t] = @ + 1]
      /\ threadjoined' = [threadjoined EXCEPT ![t] = TRUE]
      /\ Unlock(t)

\* The first waiter joins, which blocks until the POSIX thread has ended.
WaitJoin(u) ==
  LET t == wthread[u]
  IN  /\ WaitReturn(u, "join", TRUE)
      /\ \/ /\ ~threadjoined[t]
            /\ worker[t] = "exited"
            /\ joins' = [joins EXCEPT ![t] = @ + 1]
            /\ threadjoined' = [threadjoined EXCEPT ![t] = TRUE]
         \/ threadjoined[t] /\ UNCHANGED <<joins, threadjoined>>
      /\ Unlock(t)

WaitStep(u) ==
  \/ WaitLock(u) \/ WaitReached(u) \/ WaitZero(u) \/ WaitSleep(u)
  \/ WaitLate(u) \/ WaitUnlock(u) \/ WaitJoin(u)

----------------------------------------------------------------------------
(* Properties *)

JoinTypeOK ==
  /\ worker \in [Thread -> WorkerPC]
  /\ condmut \in [Thread -> Thread \cup Waiter \cup {Nobody}]
  /\ condreached \in [Thread -> BOOLEAN]
  /\ threadjoined \in [Thread -> BOOLEAN]
  /\ joins \in [Thread -> Nat]
  /\ freed \subseteq Thread
  /\ wpc \in [Waiter -> WaitPC]
  /\ wthread \in [Waiter -> Thread \cup {Nobody}]
  /\ wtime \in [Waiter -> AbsTime]
  /\ event \in [Waiter -> BOOLEAN]

\* pthread_join is called once for each thread, however many waiters there
\* are ("free thread resources only once"), and never blocks with condmut
\* locked: the thread that is joined needs condmut to end.
JoinsAreSafe ==
  /\ \A t \in Thread : joins[t] <= 1
  /\ \A u \in Waiter : wpc[u] \in {"unlock", "relock", "join"} =>
                         condreached[wthread[u]]
============================================================================
