----------------------------- MODULE ThreadList -----------------------------
(***************************************************************************)
(* Lists of threads (sys/threadlist.c) over netwib threads.                *)
(*                                                                         *)
(* One program thread, Main, owns the list: it adds and removes threads,   *)
(* waits for the end of any of them by polling them one after the other,   *)
(* and closes the list, which waits for them all.  Waiters may also wait   *)
(* by themselves for threads that are not in the list.                     *)
(***************************************************************************)
EXTENDS ThreadJoin, Sequences, SequencesExt

CONSTANT Main

ASSUME MainAssumption == Main \in Waiter

VARIABLES list,    \* the ring of threadringitem, in order
          lpc,     \* where Main is in threadlist.c
          lpos,    \* position of the ring index
          ltime,   \* pabstime of netwib_threadlist_wait
          lerr,    \* its local variable ret
          lret,    \* what the last call returned
          lclose   \* netwib_threadlist_close: "open", "closing", "closed"

listvars == <<list, lpc, lpos, ltime, lerr, lret, lclose>>
vars == <<threadvars, waitvars, listvars>>

Listed == {list[i] : i \in DOMAIN list}

Init ==
  /\ JoinInit
  /\ list = <<>>
  /\ lpc = "idle"
  /\ lpos = 1
  /\ ltime = "ZERO"
  /\ lerr = "OK"
  /\ lret = "OK"
  /\ lclose = "open"

----------------------------------------------------------------------------
(* The program, outside of the list *)

Direct(t) == worker[t] # "none" /\ t \notin freed /\ t \notin Listed

\* Main is in netwib_threadlist_wait or _close.
Busy(u) == u = Main /\ (lpc # "idle" \/ lclose = "closing")

WaitBegin(u, t, when) ==
  /\ ~Busy(u)
  /\ Direct(t)
  /\ WaitCall(u, t, when)
  /\ UNCHANGED listvars

\* netwib_thread_close, called as thread.h asks: after a successful wait, and
\* when nobody waits any more.
Close(t) ==
  /\ Direct(t)
  /\ threadjoined[t]
  /\ Inside(t) = {}
  /\ freed' = freed \cup {t}
  /\ UNCHANGED <<worker, condmut, condreached, threadjoined, joins, waitvars,
                 listvars>>

----------------------------------------------------------------------------
(* netwib_threadlist_add, _del, _wait, _close *)

ListReady == lpc = "idle" /\ lclose = "open" /\ wpc[Main] = "idle"

Add(t) ==
  /\ ListReady
  /\ Direct(t)
  /\ Inside(t) = {}
  /\ list' = Append(list, t)
  /\ UNCHANGED <<threadvars, waitvars, lpc, lpos, ltime, lerr, lret, lclose>>

\* Every item with the identifier of t: there is one, for identifiers are
\* unique.
Del(t) ==
  /\ ListReady
  /\ \E i \in DOMAIN list : list[i] = t /\ list' = RemoveAt(list, i)
  /\ UNCHANGED <<threadvars, waitvars, lpc, lpos, ltime, lerr, lret, lclose>>

\* Faulty form: the index stays where the last turn left it.
TurnNoRewind == lpc' = "scan" /\ UNCHANGED lpos

\* The index is rewound before each turn.
Turn == lpc' = "scan" /\ lpos' = 1

ListWait(when) ==
  /\ lpc = "idle" /\ wpc[Main] = "idle"
  /\ \/ lclose = "open"
     \/ lclose = "closing" /\ when = "INFINITE"
  /\ list # <<>>
  /\ ltime' = when
  /\ lerr' = "LOINTERNALERROR"
  /\ IF when = "TIMED" THEN lpc' = "clock" /\ UNCHANGED lpos ELSE Turn
  /\ UNCHANGED <<threadvars, waitvars, list, lret, lclose>>

\* The call returns; its locals are gone.
Return(code) ==
  /\ lret' = code
  /\ lpc' = "idle" /\ lpos' = 1 /\ ltime' = "ZERO" /\ lerr' = "OK"

ListWaitEmpty ==
  /\ ListReady
  /\ list = <<>>
  /\ Return("DATAEND")
  /\ UNCHANGED <<threadvars, waitvars, list, lclose>>

\* A timed wait looks at the clock before each turn.
Clock(elapsed) ==
  /\ lpc = "clock"
  /\ IF elapsed THEN Return(lerr) ELSE Turn /\ UNCHANGED <<ltime, lerr, lret>>
  /\ UNCHANGED <<threadvars, waitvars, list, lclose>>

\* netwib_priv_threadlist_wait asks the next thread, without waiting...
Ask ==
  /\ lpc = "scan"
  /\ lpos <= Len(list)
  /\ WaitCall(Main, list[lpos], "ZERO")
  /\ lpc' = "answer"
  /\ UNCHANGED <<list, lpos, ltime, lerr, lret, lclose>>

Answered == lpc = "answer" /\ wpc[Main] = "idle"

AnswerNo ==
  /\ Answered
  /\ ~event[Main]
  /\ lpc' = "scan"
  /\ lpos' = lpos + 1
  /\ UNCHANGED <<threadvars, waitvars, list, ltime, lerr, lret, lclose>>

\* Faulty form: the closed thread stays in the list.
AnswerYesKeeps ==
  /\ Answered
  /\ event[Main]
  /\ freed' = freed \cup {list[lpos]}
  /\ Return("OK")
  /\ UNCHANGED <<worker, condmut, condreached, threadjoined, joins, waitvars,
                 list, lclose>>

\* Faulty form: the turn goes on after the deletion.
AnswerYesGoesOn ==
  /\ Answered
  /\ event[Main]
  /\ freed' = freed \cup {list[lpos]}
  /\ list' = RemoveAt(list, lpos)
  /\ lpc' = "scan"
  /\ lpos' = lpos + 1
  /\ UNCHANGED <<worker, condmut, condreached, threadjoined, joins, waitvars,
                 ltime, lerr, lret, lclose>>

\* ... a thread that has ended is closed and leaves the list...
AnswerYes ==
  /\ Answered
  /\ event[Main]
  /\ freed' = freed \cup {list[lpos]}
  /\ list' = RemoveAt(list, lpos)
  /\ Return("OK")
  /\ UNCHANGED <<worker, condmut, condreached, threadjoined, joins, waitvars,
                 lclose>>

\* ... and at the end of the list the call returns, or starts another turn.
TurnEnd ==
  /\ lpc = "scan"
  /\ lpos > Len(list)
  /\ \/ ltime = "ZERO" /\ Return("OK")
     \/ /\ ltime = "TIMED"
        /\ lpc' = "clock" /\ lerr' = "OK"
        /\ UNCHANGED <<lpos, ltime, lret>>
     \/ ltime = "INFINITE" /\ Turn /\ lerr' = "OK" /\ UNCHANGED <<ltime, lret>>
  /\ UNCHANGED <<threadvars, waitvars, list, lclose>>

\* netwib_threadlist_init, once the former list is closed.
ListInit ==
  /\ lclose = "closed"
  /\ lclose' = "open"
  /\ lret' = "OK"
  /\ UNCHANGED <<threadvars, waitvars, list, lpc, lpos, ltime, lerr>>

ListClose ==
  /\ ListReady
  /\ lclose' = "closing"
  /\ UNCHANGED <<threadvars, waitvars, list, lpc, lpos, ltime, lerr, lret>>

\* The last wait found the list empty.
ListCloseEnd ==
  /\ lclose = "closing"
  /\ lpc = "idle"
  /\ list = <<>>
  /\ lclose' = "closed"
  /\ lret' = "OK"
  /\ UNCHANGED <<threadvars, waitvars, list, lpc, lpos, ltime, lerr>>

----------------------------------------------------------------------------
ListStep ==
  \/ \E elapsed \in BOOLEAN : Clock(elapsed)
  \/ Ask \/ AnswerNo \/ AnswerYes \/ TurnEnd
  \/ lclose = "closing" /\ ListWait("INFINITE")
  \/ ListCloseEnd

Program ==
  \/ \E t \in Thread : Close(t) \/ Add(t) \/ Del(t)
  \/ \E u \in Waiter, t \in Thread, when \in AbsTime : WaitBegin(u, t, when)
  \/ \E when \in AbsTime : lclose = "open" /\ ListWait(when)
  \/ ListWaitEmpty
  \/ ListClose
  \/ ListInit

Next ==
  \/ \E t \in Thread : (Start(t) \/ Worker(t)) /\ UNCHANGED listvars
  \/ \E u \in Waiter : (WaitStep(u) \/ WaitInterrupted(u)) /\ UNCHANGED listvars
  \/ ListStep
  \/ Program

\* Each thread runs, and pfunc ends.  Main pauses between two turns of its
\* polling, and a waiter holds condmut for a moment only, so that a thread
\* blocked at condmut takes it in the end.
Fairness ==
  /\ \A t \in Thread : SF_vars(Worker(t) /\ UNCHANGED listvars)
  /\ \A u \in Waiter : SF_vars(WaitStep(u) /\ UNCHANGED listvars)
  /\ WF_vars(ListStep)

Spec == Init /\ [][Next]_vars /\ Fairness
----------------------------------------------------------------------------
(* Properties *)

\* The types of the variables; the index stays in the list, or at its end.
TypeOK ==
  /\ JoinTypeOK
  /\ list \in Seq(Thread)
  /\ lpc \in {"idle", "clock", "scan", "answer"}
  /\ lpos \in 1 .. Len(list) + 1
  /\ ltime \in AbsTime
  /\ {lerr, lret} \subseteq {"OK", "DATAEND", "LOINTERNALERROR"}
  /\ lclose \in {"open", "closing", "closed"}

\* A thread object is freed after its thread has ended and has been joined,
\* as the comment in netwib_priv_thread_init requires, and nobody uses a freed
\* one: it is in no list and no call waits for it.
ClosedIsOver ==
  \A t \in freed :
    /\ worker[t] = "exited" /\ threadjoined[t]
    /\ t \notin Listed
    /\ Inside(t) = {}
    /\ condmut[t] = Nobody

\* netwib_thread_wait returns once the thread's function has: no wakeup is
\* lost, and no waiter blocks another or the thread itself.
WaitsEnd == \A u \in Waiter : wpc[u] # "idle" ~> wpc[u] = "idle"

\* netwib_threadlist_close waits for every thread of the list and returns.
ListCloses == lclose = "closing" ~> lclose = "closed" /\ list = <<>>

============================================================================
