---------------------------- MODULE ThreadRwlock ----------------------------
(***************************************************************************)
(* The read-write lock that netwib builds from two mutexes and a counter   *)
(* where the system has none (sys/pieces/threadrwl_netwib.c).              *)
(*                                                                         *)
(* A thread takes pwrmut, then prdmut; a reader gives both back once it is *)
(* counted, a writer keeps pwrmut while it writes.  Each lock and each     *)
(* unlock of a mutex is a step; numreaders is touched under prdmut only,   *)
(* in the step that leaves it.                                             *)
(*                                                                         *)
(* netwib_thread_mutex_lock of Unix, given NETWIB_TIME_ZERO, locks without *)
(* setting *plocked (sys/pieces/threadmut_posix.c:146-157), which the      *)
(* callers here do not initialise: what they find in it, refused or        *)
(* locked, is left open.                                                   *)
(***************************************************************************)
EXTENDS Integers, FiniteSets, EndTime

CONSTANTS Thread,
          Nobody,     \* owner of a free mutex
          Unseen      \* owner that took its lock for a refusal

ASSUME ThreadAssumption ==
  IsFiniteSet(Thread) /\ Nobody # Unseen /\ {Nobody, Unseen} \cap Thread = {}

VARIABLES prdmut,      \* the thread that owns each mutex, or Nobody, or Unseen
          pwrmut,
          numreaders,
          pc,          \* where each thread is
          abstime      \* pabstime of its call

vars == <<prdmut, pwrmut, numreaders, pc, abstime>>

\* Readers: rd1 waits for pwrmut, rd2 for prdmut, rd3 owns both, rd4 owns
\* pwrmut still; ru1 waits for prdmut to leave, ru2 owns it.
\* Writers: wr0 looks at the clock, wr1 waits for pwrmut, wr2 for prdmut, wr3
\* owns both, wr4 has won and wr5 has lost, each still with prdmut.
PC == {"idle", "rd1", "rd2", "rd3", "rd4", "reading", "ru1", "ru2",
       "wr0", "wr1", "wr2", "wr3", "wr4", "wr5", "writing"}

Init ==
  /\ prdmut = Nobody
  /\ pwrmut = Nobody
  /\ numreaders = 0
  /\ pc = [t \in Thread |-> "idle"]
  /\ abstime = [t \in Thread |-> "ZERO"]

Goto(t, from, to) == pc[t] = from /\ pc' = [pc EXCEPT ![t] = to]

Call(t, from, to, when) ==
  /\ Goto(t, from, to)
  /\ abstime' = [abstime EXCEPT ![t] = when]
  /\ UNCHANGED <<prdmut, pwrmut, numreaders>>

\* netwib_thread_mutex_lock and netwib_thread_mutex_unlock.
LockRd(t) == prdmut = Nobody /\ prdmut' = t /\ UNCHANGED pwrmut
LockWr(t) == pwrmut = Nobody /\ pwrmut' = t /\ UNCHANGED prdmut
LockUnseen == pwrmut = Nobody /\ pwrmut' = Unseen /\ UNCHANGED prdmut
UnlockRd == prdmut' = Nobody /\ UNCHANGED pwrmut
UnlockWr == pwrmut' = Nobody /\ UNCHANGED prdmut

----------------------------------------------------------------------------
(* netwib_thread_rwlock_rdlock and netwib_thread_rwlock_rdunlock *)

RdLock(t, when) == Call(t, "idle", "rd1", when)

RdTakeWr(t) ==
  /\ Goto(t, "rd1", "rd2")
  /\ LockWr(t)
  /\ UNCHANGED <<numreaders, abstime>>

\* pwrmut is taken at once, but `locked`, not set, reads as a refusal.
RdTakeUnseen(t) ==
  /\ abstime[t] = "ZERO"
  /\ Goto(t, "rd1", "idle")
  /\ LockUnseen
  /\ UNCHANGED <<numreaders, abstime>>

\* *plocked is FALSE: pwrmut is taken, or the end time is reached.
RdGiveUp(t) ==
  /\ Goto(t, "rd1", "idle")
  /\ \/ abstime[t] = "ZERO" /\ pwrmut # Nobody
     \/ abstime[t] = "TIMED"
  /\ UNCHANGED <<prdmut, pwrmut, numreaders, abstime>>

RdTakeRd(t) ==
  /\ Goto(t, "rd2", "rd3")
  /\ LockRd(t)
  /\ UNCHANGED <<numreaders, abstime>>

\* Faulty form: the reader is not counted.
RdCountLost(t) ==
  /\ Goto(t, "rd3", "rd4")
  /\ UnlockRd
  /\ UNCHANGED <<numreaders, abstime>>

RdCount(t) ==
  /\ Goto(t, "rd3", "rd4")
  /\ numreaders' = numreaders + 1
  /\ UnlockRd
  /\ UNCHANGED abstime

RdEnter(t) ==
  /\ Goto(t, "rd4", "reading")
  /\ UnlockWr
  /\ UNCHANGED <<numreaders, abstime>>

RdUnlock(t) == Call(t, "reading", "ru1", "INFINITE")

RdLeaveTake(t) ==
  /\ Goto(t, "ru1", "ru2")
  /\ LockRd(t)
  /\ UNCHANGED <<numreaders, abstime>>

RdLeave(t) ==
  /\ Goto(t, "ru2", "idle")
  /\ numreaders' = numreaders - 1
  /\ UnlockRd
  /\ UNCHANGED abstime

----------------------------------------------------------------------------
(* netwib_thread_rwlock_wrlock and netwib_thread_rwlock_wrunlock *)

WrLock(t, when) ==
  Call(t, "idle", IF when = "TIMED" THEN "wr0" ELSE "wr1", when)

\* netwib_priv_thread_rwlock_timedwrlock tries again...
WrTry(t) ==
  /\ Goto(t, "wr0", "wr1")
  /\ UNCHANGED <<prdmut, pwrmut, numreaders, abstime>>

\* ... or finds the time elapsed.
WrElapsed(t) ==
  /\ Goto(t, "wr0", "idle")
  /\ UNCHANGED <<prdmut, pwrmut, numreaders, abstime>>

WrTakeWr(t) ==
  /\ Goto(t, "wr1", "wr2")
  /\ LockWr(t)
  /\ UNCHANGED <<numreaders, abstime>>

\* A call that could not lock: a timed one pauses and looks at the clock, an
\* endless one pauses and starts over.
WrAgain(t) == [ZERO |-> "idle", TIMED |-> "wr0", INFINITE |-> "wr1"][abstime[t]]

\* TIME_ZERO, or a turn of the timed loop: pwrmut is taken, and not seen.
WrTakeUnseen(t) ==
  /\ abstime[t] # "INFINITE"
  /\ Goto(t, "wr1", WrAgain(t))
  /\ LockUnseen
  /\ UNCHANGED <<numreaders, abstime>>

\* TIME_ZERO, or a turn of the timed loop, while pwrmut is taken.
WrBusy(t) ==
  /\ abstime[t] # "INFINITE"
  /\ pwrmut # Nobody
  /\ Goto(t, "wr1", WrAgain(t))
  /\ UNCHANGED <<prdmut, pwrmut, numreaders, abstime>>

WrTakeRd(t) ==
  /\ Goto(t, "wr2", "wr3")
  /\ LockRd(t)
  /\ UNCHANGED <<numreaders, abstime>>

\* Faulty form: the readers are not looked at.
WrWinAnyway(t) ==
  /\ Goto(t, "wr3", "wr4")
  /\ UNCHANGED <<prdmut, pwrmut, numreaders, abstime>>

WrWin(t) ==
  /\ numreaders = 0
  /\ Goto(t, "wr3", "wr4")
  /\ UNCHANGED <<prdmut, pwrmut, numreaders, abstime>>

WrLose(t) ==
  /\ numreaders # 0
  /\ Goto(t, "wr3", "wr5")
  /\ UnlockWr
  /\ UNCHANGED <<numreaders, abstime>>

WrEnter(t) ==
  /\ Goto(t, "wr4", "writing")
  /\ UnlockRd
  /\ UNCHANGED <<numreaders, abstime>>

WrRetry(t) ==
  /\ Goto(t, "wr5", WrAgain(t))
  /\ UnlockRd
  /\ UNCHANGED <<numreaders, abstime>>

WrUnlock(t) ==
  /\ Goto(t, "writing", "idle")
  /\ UnlockWr
  /\ UNCHANGED <<numreaders, abstime>>

----------------------------------------------------------------------------
\* The calls of the program, made when it likes.
Begin(t) ==
  \/ \E when \in AbsTime : RdLock(t, when) \/ WrLock(t, when)
  \/ RdUnlock(t)
  \/ WrUnlock(t)

\* The inside of the calls.
Step(t) ==
  \/ RdTakeWr(t) \/ RdTakeUnseen(t) \/ RdGiveUp(t) \/ RdTakeRd(t)
  \/ RdCount(t) \/ RdEnter(t) \/ RdLeaveTake(t) \/ RdLeave(t)
  \/ WrTry(t) \/ WrElapsed(t) \/ WrTakeWr(t) \/ WrTakeUnseen(t)
  \/ WrBusy(t) \/ WrTakeRd(t)
  \/ WrWin(t) \/ WrLose(t) \/ WrEnter(t) \/ WrRetry(t)

Next == \E t \in Thread : Begin(t) \/ Step(t)

\* The scheduler runs every thread.  A refused writer sleeps before it tries
\* again (netwib_priv_pause2), so that a thread blocked at a mutex that becomes
\* free again and again takes it in the end.
Spec == Init /\ [][Next]_vars /\ \A t \in Thread : SF_vars(Step(t))
----------------------------------------------------------------------------
(* Properties *)

\* Readers between numreaders++ and numreaders--.
Counted == {t \in Thread : pc[t] \in {"rd4", "reading", "ru1", "ru2"}}
Winners == {t \in Thread : pc[t] \in {"wr4", "writing"}}

\* The variables have their types; the unsigned numreaders never wraps.
TypeOK ==
  /\ prdmut \in Thread \cup {Nobody}
  /\ pwrmut \in Thread \cup {Nobody, Unseen}
  /\ numreaders \in Nat
  /\ pc \in [Thread -> PC]
  /\ abstime \in [Thread -> AbsTime]

\* A thread that netwib_thread_rwlock_wrlock let in is alone, readers on their
\* way in or out included.
WriterAlone ==
  \A t \in Winners : Winners = {t} /\ Counted = {}

\* The two mutexes and the counter implement the abstract lock.
OneOf(S) == IF S = {} THEN Nobody ELSE CHOOSE t \in S : TRUE
Writer == OneOf(Winners)
Lock == INSTANCE RWLock WITH readers <- Counted, writer <- Writer
LockSpec == Lock!Spec

\* A lock that no thread has, nor calls for, is free: when a call is refused,
\* "locking is not done (*plocked set to NETWIB_FALSE)" (threadrwl.h:70-71).
IdleLockIsFree ==
  (\A t \in Thread : pc[t] = "idle") => prdmut = Nobody /\ pwrmut = Nobody

\* Once nobody calls rdlock or wrlock any more, and nobody keeps the lock for
\* ever, every pending call returns, provided that no caller took a lock it got
\* for a refusal: no other mutex stays locked behind a caller, and the polling
\* of the refused writers does not keep the readers in.
NoNewCall == [][\A t \in Thread : pc[t] = "idle" => pc'[t] = "idle"]_pc
NobodyKeeps == \A t \in Thread : []<>(pc[t] \notin {"reading", "writing"})
CallsDrain ==
  [](pwrmut # Unseen) /\ <>NoNewCall /\ NobodyKeeps
    => <>[](\A t \in Thread : pc[t] = "idle")
============================================================================
