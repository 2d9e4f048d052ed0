---------------------------- MODULE WorkersProof ----------------------------
(***************************************************************************)
(* What threads do together, for any finite sets of threads.  The read-    *)
(* write lock excludes, and implements the abstract lock RWLock.  The      *)
(* waits for conditions tell the truth: in the debug build a reinit        *)
(* overwrites the value, so that what is told of values holds in the other *)
(* build only.                                                             *)
(*                                                                         *)
(* What threads share under a lock is not lost: no thread reads an item or *)
(* a ring that another one freed, the cache of names answers what the      *)
(* system gave and the configuration holds what was added to it, for any   *)
(* names, entries and memory.                                              *)
(*                                                                         *)
(* The search of a password and the download of a site never have more     *)
(* threads than asked, leave none behind and do each job once, for any     *)
(* lists of words and any site; and the behaviours of MCLocks keep their   *)
(* types.                                                                  *)
(***************************************************************************)
EXTENDS MCLocks, FiniteSetTheorems, SequenceTheorems, WellFoundedInduction, TLAPS

-----------------------------------------------------------------------------
(* The read-write lock *)

\* The counter is only known to be an integer before it is known right.
LockTypes ==
  /\ prdmut \in Thread \cup {Nobody}
  /\ pwrmut \in Thread \cup {Nobody, Unseen}
  /\ numreaders \in Int
  /\ pc \in [Thread -> PC]
  /\ abstime \in [Thread -> AbsTime]

\* Each mutex is owned by the thread whose place in the code says so.
Owners ==
  \A t \in Thread :
    /\ pwrmut = t <=>
         pc[t] \in {"rd2", "rd3", "rd4", "wr2", "wr3", "wr4", "writing"}
    /\ prdmut = t <=> pc[t] \in {"rd3", "ru2", "wr3", "wr4", "wr5"}

\* The counter counts, and a writer has seen it at zero.
Counter == numreaders = Cardinality(Counted)
Empty == Winners # {} => Counted = {}

LockInv == LockTypes /\ Owners /\ Counter /\ Empty

LEMMA CountedCard ==
  ASSUME NEW t
  PROVE  /\ Cardinality(Counted) \in Nat
         /\ Cardinality(Counted) = 0 => Counted = {}
         /\ t \notin Counted =>
              Cardinality(Counted \cup {t}) = Cardinality(Counted) + 1
         /\ t \in Counted =>
              Cardinality(Counted \ {t}) = Cardinality(Counted) - 1
<1> DEFINE S == Counted
<1>1. IsFiniteSet(S)
  BY ThreadAssumption, FS_Subset DEF Counted
<1> HIDE DEF S
<1>2. /\ Cardinality(S) \in Nat
      /\ Cardinality(S) = 0 => S = {}
      /\ t \notin S => Cardinality(S \cup {t}) = Cardinality(S) + 1
      /\ t \in S => Cardinality(S \ {t}) = Cardinality(S) - 1
  BY <1>1, FS_CardinalityType, FS_EmptySet, FS_AddElement, FS_RemoveElement
<1> QED BY <1>2 DEF S

LEMMA InitLockInv == Init => LockInv
<1> SUFFICES ASSUME Init PROVE LockInv
  OBVIOUS
<1>1. LockTypes /\ Owners
  BY ThreadAssumption DEF Init, LockTypes, Owners, PC, AbsTime
<1>2. Counted = {} /\ Winners = {}
  BY DEF Init, Counted, Winners
<1>3. Counter
  BY <1>2, FS_EmptySet DEF Init, Counter
<1> QED BY <1>1, <1>2, <1>3 DEF LockInv, Empty

----------------------------------------------------------------------------
(* What a step does to the owners and to the sets of threads *)

\* The steps that only move a thread outside of the two sets.
Quiet(t) ==
  \/ \E when \in AbsTime : RdLock(t, when) \/ WrLock(t, when)
  \/ RdUnlock(t)
  \/ RdTakeWr(t) \/ RdTakeUnseen(t) \/ RdGiveUp(t) \/ RdTakeRd(t)
  \/ RdEnter(t) \/ RdLeaveTake(t)
  \/ WrTry(t) \/ WrElapsed(t) \/ WrTakeWr(t) \/ WrTakeUnseen(t) \/ WrBusy(t)
  \/ WrTakeRd(t)
  \/ WrLose(t) \/ WrEnter(t) \/ WrRetry(t)

LEMMA NextSplit ==
  ASSUME NEW t \in Thread, Begin(t) \/ Step(t)
  PROVE  Quiet(t) \/ RdCount(t) \/ RdLeave(t) \/ WrWin(t) \/ WrUnlock(t)
BY DEF Begin, Step, Quiet

\* Every step keeps the types, and each mutex with the thread that owns it.
LEMMA OwnersStep ==
  ASSUME LockTypes, Owners, NEW t \in Thread, Begin(t) \/ Step(t)
  PROVE  LockTypes' /\ Owners'
<1> USE ThreadAssumption DEF LockTypes, Owners, Goto, PC
<1>1. CASE \E when \in AbsTime : RdLock(t, when) \/ WrLock(t, when)
  BY <1>1 DEF RdLock, WrLock, Call, AbsTime
<1>2. CASE RdUnlock(t) \/ WrUnlock(t)
  BY <1>2 DEF RdUnlock, WrUnlock, Call, UnlockWr, AbsTime
<1>3. CASE RdTakeWr(t) \/ RdTakeUnseen(t) \/ RdGiveUp(t) \/ RdTakeRd(t)
  BY <1>3 DEF RdTakeWr, RdTakeUnseen, RdGiveUp, RdTakeRd, LockRd, LockWr,
              LockUnseen
<1>4. CASE RdCount(t) \/ RdEnter(t) \/ RdLeaveTake(t) \/ RdLeave(t)
  BY <1>4 DEF RdCount, RdEnter, RdLeaveTake, RdLeave, LockRd, UnlockRd, UnlockWr
<1>5. CASE WrTry(t) \/ WrElapsed(t) \/ WrTakeWr(t)
  BY <1>5 DEF WrTry, WrElapsed, WrTakeWr, LockWr
<1>6. CASE WrTakeUnseen(t) \/ WrBusy(t) \/ WrRetry(t)
  BY <1>6 DEF WrTakeUnseen, WrBusy, WrRetry, WrAgain, LockUnseen, UnlockRd, AbsTime
<1>7. CASE WrTakeRd(t) \/ WrWin(t) \/ WrLose(t) \/ WrEnter(t)
  BY <1>7 DEF WrTakeRd, WrWin, WrLose, WrEnter, LockRd, UnlockRd, UnlockWr
<1> QED BY <1>1, <1>2, <1>3, <1>4, <1>5, <1>6, <1>7 DEF Begin, Step

\* Most steps leave the readers, the writer and the counter alone.
LEMMA QuietSets ==
  ASSUME LockTypes, NEW t \in Thread, Quiet(t)
  PROVE  Counted' = Counted /\ Winners' = Winners /\ numreaders' = numreaders
<1> USE DEF LockTypes, Goto, PC, Counted, Winners
<1>1. CASE \E when \in AbsTime : RdLock(t, when) \/ WrLock(t, when)
  BY <1>1 DEF RdLock, WrLock, Call, AbsTime
<1>2. CASE RdUnlock(t)
  BY <1>2 DEF RdUnlock, Call
<1>3. CASE RdTakeWr(t) \/ RdTakeUnseen(t) \/ RdGiveUp(t) \/ RdTakeRd(t)
  BY <1>3 DEF RdTakeWr, RdTakeUnseen, RdGiveUp, RdTakeRd
<1>4. CASE RdEnter(t) \/ RdLeaveTake(t)
  BY <1>4 DEF RdEnter, RdLeaveTake
<1>5. CASE WrTry(t) \/ WrElapsed(t) \/ WrTakeWr(t)
  BY <1>5 DEF WrTry, WrElapsed, WrTakeWr
<1>6. CASE WrTakeUnseen(t) \/ WrBusy(t) \/ WrRetry(t)
  BY <1>6 DEF WrTakeUnseen, WrBusy, WrRetry, WrAgain, AbsTime
<1>7. CASE WrTakeRd(t) \/ WrLose(t) \/ WrEnter(t)
  BY <1>7 DEF WrTakeRd, WrLose, WrEnter
<1> QED BY <1>1, <1>2, <1>3, <1>4, <1>5, <1>6, <1>7 DEF Quiet

\* Nobody writes, or is about to, while another thread owns pwrmut.
LEMMA NoWinner ==
  ASSUME LockTypes, Owners, NEW t \in Thread, pwrmut = t, t \notin Winners
  PROVE  Winners = {}
BY DEF LockTypes, Owners, Winners

LEMMA CountStep ==
  ASSUME LockInv, NEW t \in Thread, RdCount(t)
  PROVE  /\ Counted' = Counted \cup {t} /\ t \notin Counted
         /\ Winners' = Winners /\ Winners = {}
         /\ numreaders' = numreaders + 1
<1> USE DEF LockInv, LockTypes, RdCount, Goto, PC, Counted, Winners
<1>1. Winners = {}
  BY NoWinner DEF Owners
<1>2. Counted' = Counted \cup {t} /\ t \notin Counted /\ Winners' = Winners
  OBVIOUS
<1> QED BY <1>1, <1>2

LEMMA LeaveStep ==
  ASSUME LockInv, NEW t \in Thread, RdLeave(t)
  PROVE  /\ Counted' = Counted \ {t} /\ t \in Counted
         /\ Winners' = Winners
         /\ numreaders' = numreaders - 1
BY DEF LockInv, LockTypes, RdLeave, Goto, PC, Counted, Winners

LEMMA WinStep ==
  ASSUME LockInv, NEW t \in Thread, WrWin(t)
  PROVE  /\ Counted' = Counted /\ Counted = {}
         /\ Winners' = {t} /\ Winners = {}
         /\ numreaders' = numreaders
<1> USE DEF LockInv, LockTypes, WrWin, Goto, PC
<1>1. Winners = {}
  BY NoWinner DEF Owners, Winners
<1>2. Counted = {}
  BY CountedCard DEF Counter
<1>3. Counted' = Counted /\ Winners' = Winners \cup {t}
  BY DEF Counted, Winners
<1> QED BY <1>1, <1>2, <1>3

LEMMA AloneInv == ASSUME LockInv PROVE WriterAlone
BY DEF LockInv, LockTypes, Owners, Empty, WriterAlone, Winners

LEMMA WrUnlockStep ==
  ASSUME LockInv, NEW t \in Thread, WrUnlock(t)
  PROVE  /\ Counted' = Counted
         /\ Winners' = {} /\ Winners = {t}
         /\ numreaders' = numreaders
<1> USE DEF LockInv, LockTypes, WrUnlock, Goto, PC
<1>1. Winners = {t}
  BY AloneInv DEF WriterAlone, Winners
<1>2. Counted' = Counted /\ Winners' = Winners \ {t}
  BY DEF Counted, Winners
<1> QED BY <1>1, <1>2

----------------------------------------------------------------------------
LEMMA NextStep == ASSUME LockInv, [Next]_vars PROVE LockInv'
<1>1. CASE UNCHANGED vars
  BY <1>1 DEF vars, LockInv, LockTypes, Owners, Counter, Empty, Counted, Winners
<1>2. ASSUME NEW t \in Thread, Begin(t) \/ Step(t)
      PROVE  LockInv'
  <2>1. LockTypes' /\ Owners'
    BY <1>2, OwnersStep DEF LockInv
  <2>2. CASE Quiet(t)
    BY <2>1, <2>2, QuietSets DEF LockInv, Counter, Empty
  <2>3. CASE RdCount(t)
    <3>1. Counter'
      BY <2>3, CountStep, CountedCard DEF LockInv, Counter
    <3>2. Empty'
      BY <2>3, CountStep DEF Empty
    <3> QED BY <2>1, <3>1, <3>2 DEF LockInv
  <2>4. CASE RdLeave(t)
    <3>1. Counter'
      BY <2>4, LeaveStep, CountedCard DEF LockInv, Counter
    <3>2. Empty'
      BY <2>4, LeaveStep DEF LockInv, Empty
    <3> QED BY <2>1, <3>1, <3>2 DEF LockInv
  <2>5. CASE WrWin(t)
    BY <2>1, <2>5, WinStep DEF LockInv, Counter, Empty
  <2>6. CASE WrUnlock(t)
    BY <2>1, <2>6, WrUnlockStep DEF LockInv, Counter, Empty
  <2> QED BY <1>2, <2>2, <2>3, <2>4, <2>5, <2>6, NextSplit
<1> QED BY <1>1, <1>2 DEF Next

LEMMA Invariance == Spec => []LockInv
BY InitLockInv, NextStep, PTL DEF Spec

\* numreaders never goes below zero, and no owner is lost.
THEOREM LockTypeCorrect == Spec => []TypeOK
<1>1. LockInv => TypeOK
  BY CountedCard DEF LockInv, LockTypes, Counter, TypeOK
<1> QED BY <1>1, Invariance, PTL

\* A thread that wrlock let in is alone, whatever the number of threads.
THEOREM Exclusion == Spec => []WriterAlone
<1>1. LockInv => WriterAlone
  BY AloneInv
<1> QED BY <1>1, Invariance, PTL

LEMMA SameWriter == ASSUME Winners' = Winners PROVE Writer' = Writer
BY DEF Writer

\* Two mutexes and a counter implement the abstract read-write lock.
THEOREM Implements == Spec => LockSpec
<1>1. Init => Lock!Init
  BY DEF Init, Lock!Init, Counted, Winners, Writer, OneOf
<1>2. ASSUME LockInv, [Next]_vars
      PROVE  [Lock!Next]_<<Counted, Writer>>
  <2>1. CASE UNCHANGED vars
    BY <2>1 DEF vars, Counted, Winners, Writer, OneOf
  <2>2. ASSUME NEW t \in Thread, Begin(t) \/ Step(t)
        PROVE  [Lock!Next]_<<Counted, Writer>>
    <3>1. CASE Quiet(t)
      BY <1>2, <3>1, QuietSets, SameWriter DEF LockInv
    <3>2. CASE RdCount(t)
      <4>1. Lock!ReadBegins(t)
        BY <1>2, <3>2, CountStep DEF Lock!ReadBegins, Writer, OneOf
      <4> QED BY <4>1 DEF Lock!Next
    <3>3. CASE RdLeave(t)
      <4>1. Lock!ReadEnds(t)
        BY <1>2, <3>3, LeaveStep, SameWriter DEF Lock!ReadEnds
      <4> QED BY <4>1 DEF Lock!Next
    <3>4. CASE WrWin(t)
      <4>1. Lock!WriteBegins(t)
        BY <1>2, <3>4, WinStep DEF Lock!WriteBegins, Writer, OneOf
      <4> QED BY <4>1 DEF Lock!Next
    <3>5. CASE WrUnlock(t)
      <4>1. Lock!WriteEnds(t)
        BY <1>2, <3>5, WrUnlockStep DEF Lock!WriteEnds, Writer, OneOf
      <4> QED BY <4>1 DEF Lock!Next
    <3> QED BY <2>2, <3>1, <3>2, <3>3, <3>4, <3>5, NextSplit
  <2> QED BY <1>2, <2>1, <2>2 DEF Next
<1> QED BY <1>1, <1>2, Invariance, PTL DEF Spec, LockSpec, Lock!Spec

-----------------------------------------------------------------------------
(* Waits *)

Release == WaitSetAssumption /\ ~DebugBuild

-----------------------------------------------------------------------------
(* The conditions *)

Sleep == [at : {"awake", "asleep", "woken", "late"},
          cond : Cond \union {Notset}, endless : BOOLEAN]

CondTypes ==
  /\ reached \in [Cond -> BOOLEAN] /\ value \in [Cond -> Value \union {Notset}]
  /\ sleep \in [Waiter -> Sleep] /\ event \in [Waiter -> BOOLEAN]
  /\ pvalue \in [Waiter -> Value \union {Notset}]
  /\ heard \in [Waiter -> SUBSET (Value \union {Notset})]

\* What is broadcast is a value, and stays when the condition is reset.
ReachedHasValue == \A c \in Cond : reached[c] => value[c] # Notset

\* Who sleeps, or slept, has a condition; whoever was woken may be told the
\* value that it has now.
SleepsOnCond == \A t \in Waiter : sleep[t].at # "awake" => sleep[t].cond \in Cond
WokenMayHear ==
  \A t \in Waiter :
    sleep[t].at = "woken" => value[sleep[t].cond] \in heard[t] \ {Notset}

CondInv ==
  /\ CondTypes /\ ReachedHasValue /\ SleepsOnCond /\ WokenMayHear
  /\ ValueIsReal /\ NobodySleepsOn

CondStep ==
  \/ \E c \in Cond, v \in Value : Broadcast(c, v)
  \/ \E c \in Cond : Reinit(c)
  \/ \E t \in Waiter : \/ \E c \in Cond, when \in AbsTime : Wait(t, c, when)
                       \/ Slept(t)
                       \/ Forget(t)
  \/ UNCHANGED condvars

LEMMA CondInitially == Release /\ CondInit => CondInv
BY DEF Release, WaitSetAssumption, CondInit, CondInv, CondTypes, Sleep, Awake,
       ReachedHasValue, SleepsOnCond, WokenMayHear, ValueIsReal, NobodySleepsOn, In

LEMMA BroadcastKeeps ==
  ASSUME Release, CondInv, NEW c \in Cond, NEW v \in Value, Broadcast(c, v)
  PROVE  CondInv'
<1>1. /\ reached' = [reached EXCEPT ![c] = TRUE] /\ value' = [value EXCEPT ![c] = v]
      /\ UNCHANGED <<event, pvalue>>
  BY DEF Broadcast, Reaches
<1>2. heard' = [t \in Waiter |-> heard[t] \union {w \in {v} : sleep[t].cond = c}]
  BY DEF Broadcast, Reaches
<1>3. sleep' = [t \in Waiter |-> IF In(t, "asleep", c)
                                 THEN [sleep[t] EXCEPT !.at = "woken"] ELSE sleep[t]]
  BY DEF Broadcast, Woken
<1>4. v # Notset
  BY DEF Release, WaitSetAssumption
<1>5. \A t \in Waiter : /\ sleep'[t].cond = sleep[t].cond
                        /\ sleep'[t].at = IF In(t, "asleep", c) THEN "woken" ELSE sleep[t].at
                        /\ sleep'[t] \in Sleep
  BY <1>3 DEF CondInv, CondTypes, Sleep
<1>6. CondTypes'
  BY <1>1, <1>2, <1>3, <1>5 DEF CondInv, CondTypes
<1>7. ReachedHasValue' /\ SleepsOnCond'
  BY <1>1, <1>4, <1>5 DEF CondInv, CondTypes, ReachedHasValue, SleepsOnCond, In
<1>8. \A t \in Waiter : /\ heard[t] \subseteq heard'[t]
                        /\ sleep[t].cond = c => v \in heard'[t]
  BY <1>2 DEF CondInv, CondTypes
<1>9. WokenMayHear'
  BY <1>1, <1>4, <1>5, <1>8 DEF CondInv, CondTypes, WokenMayHear, SleepsOnCond, In
<1>10. ValueIsReal'
  BY <1>1, <1>5, <1>8 DEF CondInv, ValueIsReal, In
<1>11. NobodySleepsOn'
  BY <1>1, <1>5 DEF CondInv, CondTypes, NobodySleepsOn, In
<1> QED
  BY <1>6, <1>7, <1>9, <1>10, <1>11 DEF CondInv

LEMMA ReinitKeeps ==
  ASSUME Release, CondInv, NEW c \in Cond, Reinit(c)
  PROVE  CondInv'
BY DEF Release, Reinit, CondInv, CondTypes, ReachedHasValue, SleepsOnCond, WokenMayHear,
       ValueIsReal, NobodySleepsOn, In

LEMMA WaitKeeps ==
  ASSUME Release, CondInv, NEW t \in Waiter, NEW c \in Cond, NEW when \in AbsTime,
         Wait(t, c, when)
  PROVE  CondInv'
<1>1. CASE /\ reached[c] /\ event' = [event EXCEPT ![t] = TRUE]
           /\ pvalue' = [pvalue EXCEPT ![t] = value[c]]
           /\ heard' = [heard EXCEPT ![t] = {value[c]}]
           /\ UNCHANGED <<sleep, reached, value>> /\ sleep[t].at = "awake"
  BY <1>1 DEF CondInv, CondTypes, ReachedHasValue, SleepsOnCond, WokenMayHear,
       ValueIsReal, NobodySleepsOn, In
<1>2. CASE /\ ~reached[c]
           /\ sleep' = [sleep EXCEPT ![t] =
                [at |-> "asleep", cond |-> c, endless |-> when = "INFINITE"]]
           /\ heard' = [heard EXCEPT ![t] = {}]
           /\ UNCHANGED <<event, pvalue, reached, value>>
  <2>1. CondTypes'
    BY <1>2 DEF CondInv, CondTypes, Sleep
  <2>2. /\ sleep'[t].at = "asleep" /\ sleep'[t].cond = c
        /\ \A u \in Waiter \ {t} : sleep'[u] = sleep[u] /\ heard'[u] = heard[u]
    BY <1>2 DEF CondInv, CondTypes
  <2> QED
    BY <1>2, <2>1, <2>2 DEF CondInv, ReachedHasValue, SleepsOnCond, WokenMayHear,
       ValueIsReal, NobodySleepsOn, In
<1> QED
  BY <1>1, <1>2 DEF Wait

LEMMA SleptKeeps ==
  ASSUME Release, CondInv, NEW t \in Waiter, Slept(t)
  PROVE  CondInv'
<1>1. CASE TimeOut(t)
  <2>1. sleep' = [sleep EXCEPT ![t].at = "late"] /\ UNCHANGED <<reached, value, event, pvalue, heard>>
    BY <1>1 DEF TimeOut
  <2>2. CondTypes' /\ sleep'[t].at = "late" /\ sleep'[t].cond = sleep[t].cond
    BY <2>1 DEF CondInv, CondTypes, Sleep
  <2> QED
    BY <1>1, <2>1, <2>2 DEF TimeOut, CondInv, CondTypes, ReachedHasValue, SleepsOnCond,
       WokenMayHear, ValueIsReal, NobodySleepsOn, In
<1>2. CASE WakeUp(t)
  <2>1. CondTypes' /\ sleep'[t].at = "awake"
    BY <1>2 DEF WakeUp, Awake, CondInv, CondTypes, Sleep, SleepsOnCond
  <2> QED
    BY <1>2, <2>1 DEF WakeUp, CondInv, CondTypes, ReachedHasValue, SleepsOnCond,
       WokenMayHear, ValueIsReal, NobodySleepsOn, In
<1>3. CASE GiveUp(t)
  <2>1. CondTypes' /\ sleep'[t].at = "awake"
    BY <1>3 DEF GiveUp, Awake, CondInv, CondTypes, Sleep
  <2> QED
    BY <1>3, <2>1 DEF GiveUp, CondInv, CondTypes, ReachedHasValue, SleepsOnCond,
       WokenMayHear, ValueIsReal, NobodySleepsOn, In
<1> QED
  BY <1>1, <1>2, <1>3 DEF Slept

LEMMA CondKeeps == Release /\ CondInv /\ CondStep => CondInv'
<1> SUFFICES ASSUME Release, CondInv, CondStep PROVE CondInv'
  OBVIOUS
<1>1. ASSUME NEW t \in Waiter, Forget(t) PROVE CondInv'
  BY <1>1 DEF Forget, CondInv, CondTypes, ReachedHasValue, SleepsOnCond, WokenMayHear,
       ValueIsReal, NobodySleepsOn, In
<1>2. CASE UNCHANGED condvars
  BY <1>2 DEF condvars, CondInv, CondTypes, ReachedHasValue, SleepsOnCond, WokenMayHear,
       ValueIsReal, NobodySleepsOn, In
<1> QED
  BY <1>1, <1>2, BroadcastKeeps, ReinitKeeps, WaitKeeps, SleptKeeps DEF CondStep

-----------------------------------------------------------------------------
(* The calls *)

Locals == [pc : {"idle", "clock", "scan", "answer", "done"},
           of : {"wait5", "waitlist"}, abstime : AbsTime,
           waits : Lists \union {<<>>}, pos : Nat, got : SUBSET Cond,
           ret : {"OK", "LOINTERNALERROR"}]

PollTypes ==
  /\ poll \in [Poller -> Locals]
  /\ steady \in [Poller -> SUBSET Cond] /\ since \in [Poller -> SUBSET Cond]

\* What the call knows of the conditions: the locals agree with the list.
PollKnows(t) ==
  /\ poll[t].pos \in 1 .. Len(poll[t].waits) + 1
  /\ poll[t].got \subseteq Watched(t) \intersect since[t]
  /\ steady[t] \subseteq Reached
  /\ Running(t) => Reached \subseteq since[t]
  /\ poll[t].pc = "clock" =>
       /\ poll[t].abstime # "INFINITE"
       /\ poll[t].abstime = "ZERO" => poll[t].of = "waitlist"

\* A thread sleeps, and has an answer, only for the wait that it asked; the
\* answer is no for a condition that was reset only.
PollAsks(t) ==
  IF poll[t].pc = "answer"
  THEN LET c == poll[t].waits[poll[t].pos]
       IN  /\ poll[t].pos \in DOMAIN poll[t].waits
           /\ sleep[t].at # "awake" => sleep[t].cond = c
           /\ sleep[t].at = "woken" => c \in since[t]
           /\ sleep[t].at = "awake" /\ event[t] => c \in since[t]
           /\ c \in steady[t] => sleep[t].at = "awake" /\ event[t]
  ELSE sleep[t].at = "awake" /\ ~event[t]

\* The conditions of the list that the turn has passed.
PollPassed(t) ==
  poll[t].pc \in {"scan", "answer"} =>
    \A i \in 1 .. poll[t].pos - 1 :
      poll[t].waits[i] \in steady[t] => poll[t].waits[i] \in poll[t].got

PollTells(t) == (poll[t].of = "waitlist" => poll[t].abstime # "ZERO") => Tells(t)

PollInv(t) == PollKnows(t) /\ PollAsks(t) /\ PollPassed(t) /\ PollTells(t)

WaitInv == CondInv /\ PollTypes /\ \A t \in Poller : PollInv(t)

Same(u) ==
  /\ poll'[u] = poll[u] /\ steady'[u] = steady[u] /\ since'[u] = since[u]
  /\ sleep'[u] = sleep[u] /\ event'[u] = event[u] /\ reached' = reached

LEMMA SameKeeps ==
  ASSUME NEW u \in Poller, PollInv(u), Same(u)
  PROVE  PollInv(u)'
BY DEF Same, PollInv, PollKnows, PollAsks, PollPassed, PollTells, Tells, Watched,
       Reached, Running

LEMMA WaitsAreConds ==
  ASSUME Release, NEW t \in Poller, poll[t] \in Locals
  PROVE  poll[t].waits \in Seq(Cond) /\ Len(poll[t].waits) \in Nat
         /\ DOMAIN poll[t].waits = 1 .. Len(poll[t].waits)
<1>1. poll[t].waits \in Lists \union {<<>>}
  BY DEF Locals
<1>2. <<>> \in Seq(Cond)
  OBVIOUS
<1>3. Lists \subseteq Seq(Cond)
  BY Zenon DEF Release, WaitSetAssumption
<1>4. poll[t].waits \in Seq(Cond)
  BY <1>1, <1>2, <1>3, Zenon
<1> QED
  BY <1>4

LEMMA PollInitially == Release /\ WaitInit => WaitInv
<1> SUFFICES ASSUME Release, WaitInit PROVE WaitInv
  OBVIOUS
<1>1. CondInv
  BY CondInitially DEF WaitInit
<1>2. PollTypes
  BY DEF WaitInit, NoPoll, PollTypes, Locals, AbsTime
<1>3. ASSUME NEW t \in Poller PROVE PollInv(t)
  <2>1. poll[t] = NoPoll /\ steady[t] = {} /\ t \in Waiter
    BY DEF WaitInit, Release, WaitSetAssumption
  <2>2. sleep[t].at = "awake" /\ ~event[t]
    BY <2>1 DEF WaitInit, CondInit, Awake
  <2> QED
    BY <2>1, <2>2 DEF NoPoll, PollInv, PollKnows, PollAsks, PollPassed, PollTells,
         Tells, Running
<1> QED
  BY <1>1, <1>2, <1>3 DEF WaitInv

LEMMA AskKeeps ==
  ASSUME Release, WaitInv, NEW t \in Poller, Ask(t)
  PROVE  PollTypes' /\ PollInv(t)' /\ \E c \in Cond : Wait(t, c, "ZERO")
<1> DEFINE c == poll[t].waits[poll[t].pos]
<1>1. poll[t] \in Locals /\ t \in Waiter /\ PollInv(t)
  BY Zenon DEF WaitInv, PollTypes, Release, WaitSetAssumption
<1>2. /\ poll' = [poll EXCEPT ![t] = [poll[t] EXCEPT !.pc = "answer"]]
      /\ poll[t].pc = "scan" /\ UNCHANGED <<steady, since>>
      /\ poll[t].pos <= Len(poll[t].waits) /\ Wait(t, c, "ZERO")
  BY DEF Ask, Poll
<1>3. poll[t].pos \in DOMAIN poll[t].waits /\ c \in Cond
  BY <1>1, <1>2, WaitsAreConds DEF PollInv, PollKnows
<1>4. /\ poll'[t].pc = "answer" /\ poll'[t].of = poll[t].of
      /\ poll'[t].abstime = poll[t].abstime /\ poll'[t].waits = poll[t].waits
      /\ poll'[t].pos = poll[t].pos /\ poll'[t].got = poll[t].got
      /\ poll'[t] \in Locals
  BY <1>1, <1>2 DEF WaitInv, PollTypes, Locals
<1>5. PollTypes'
  BY <1>1, <1>2, <1>4 DEF WaitInv, PollTypes
<1>6. sleep[t].at = "awake" /\ ~event[t] /\ reached' = reached
  BY <1>1, <1>2 DEF PollInv, PollAsks, Wait
<1>7. PollAsks(t)'
  <2>1. CASE reached[c]
    <3>1. event'[t] /\ sleep'[t].at = "awake"
      BY <1>1, <1>2, <1>6, <2>1 DEF Wait, WaitInv, CondInv, CondTypes
    <3>2. c \in since[t]
      BY <1>1, <1>2, <1>3, <2>1 DEF PollInv, PollKnows, Running, Reached
    <3> QED
      BY <1>2, <1>3, <1>4, <3>1, <3>2 DEF PollAsks
  <2>2. CASE ~reached[c]
    <3>1. sleep'[t].at = "asleep" /\ sleep'[t].cond = c
      BY <1>1, <1>2, <2>2 DEF Wait, WaitInv, CondInv, CondTypes
    <3>2. c \notin steady[t]
      BY <1>1, <2>2 DEF PollInv, PollKnows, Reached
    <3> QED
      BY <1>2, <1>3, <1>4, <3>1, <3>2 DEF PollAsks
  <2> QED
    BY <2>1, <2>2
<1>8. PollKnows(t)' /\ PollPassed(t)' /\ PollTells(t)'
  BY <1>1, <1>2, <1>4, <1>6 DEF PollInv, PollKnows, PollPassed, PollTells, Tells,
       Watched, Running, Reached
<1> QED
  BY <1>2, <1>3, <1>5, <1>7, <1>8 DEF PollInv

LEMMA AnswerKeeps ==
  ASSUME Release, WaitInv, NEW t \in Poller, Answer(t)
  PROVE  PollTypes' /\ PollInv(t)' /\ Forget(t)
<1> DEFINE c == poll[t].waits[poll[t].pos]
           now == IF event[t] THEN {c} ELSE {}
<1>1. poll[t] \in Locals /\ t \in Waiter /\ PollInv(t)
  BY Zenon DEF WaitInv, PollTypes, Release, WaitSetAssumption
<1>2. /\ poll' = [poll EXCEPT ![t] = [poll[t] EXCEPT !.pc = "scan", !.pos = @ + 1,
                                                     !.got = @ \union now]]
      /\ poll[t].pc = "answer" /\ UNCHANGED <<steady, since>> /\ Forget(t)
  BY DEF Answer, Poll
<1>3. /\ poll[t].pos \in DOMAIN poll[t].waits /\ c \in Cond
      /\ poll[t].pos + 1 \in 1 .. Len(poll[t].waits) + 1 /\ poll[t].pos \in Nat
  BY <1>1, <1>2, WaitsAreConds DEF PollInv, PollAsks, Locals
<1>4. /\ poll'[t].pc = "scan" /\ poll'[t].of = poll[t].of
      /\ poll'[t].abstime = poll[t].abstime /\ poll'[t].waits = poll[t].waits
      /\ poll'[t].pos = poll[t].pos + 1 /\ poll'[t].got = poll[t].got \union now
      /\ poll'[t] \in Locals
  <2> HIDE DEF now
  <2>1. poll'[t] = [poll[t] EXCEPT !.pc = "scan", !.pos = @ + 1, !.got = @ \union now]
    BY <1>2 DEF WaitInv, PollTypes
  <2>2. now \in SUBSET Cond
    BY <1>3 DEF now
  <2>3. poll[t].pos + 1 \in Nat /\ poll[t].got \union now \in SUBSET Cond
    BY <1>1, <1>3, <2>2 DEF Locals
  <2> QED
    BY <1>1, <2>1, <2>3 DEF Locals
<1>5. PollTypes'
  BY <1>1, <1>2, <1>4 DEF WaitInv, PollTypes
<1>6. /\ sleep[t].at = "awake" /\ sleep' = sleep /\ ~event'[t] /\ reached' = reached
  BY <1>1, <1>2 DEF Forget, WaitInv, CondInv, CondTypes
<1>7. now \subseteq Watched(t) \intersect since[t]
  BY <1>1, <1>2, <1>3, <1>6 DEF PollInv, PollAsks, Watched
<1>8. c \in steady[t] => c \in now
  BY <1>1, <1>2 DEF PollInv, PollAsks
<1>9. PollKnows(t)'
  BY <1>1, <1>2, <1>3, <1>4, <1>6, <1>7 DEF PollInv, PollKnows, Watched, Running, Reached
<1>10. PollPassed(t)'
  <2> SUFFICES ASSUME NEW i \in 1 .. poll'[t].pos - 1, poll[t].waits[i] \in steady[t]
               PROVE  poll[t].waits[i] \in poll[t].got \union now
    BY <1>2, <1>4 DEF PollPassed
  <2>1. i = poll[t].pos \/ i \in 1 .. poll[t].pos - 1
    BY <1>3, <1>4
  <2> QED
    BY <1>1, <1>2, <1>8, <2>1 DEF PollInv, PollPassed
<1>11. PollAsks(t)' /\ PollTells(t)'
  BY <1>4, <1>6 DEF PollAsks, PollTells, Tells
<1> QED
  BY <1>2, <1>5, <1>9, <1>10, <1>11 DEF PollInv

\* A turn that begins.
LEMMA TurnKeeps ==
  ASSUME Release, WaitInv, NEW t \in Poller, poll[t].pc \in {"scan", "clock"},
         poll[t].abstime # "ZERO", poll' = [poll EXCEPT ![t] = Turn(t)],
         UNCHANGED <<condvars, steady, since>>
  PROVE  PollTypes' /\ PollInv(t)'
<1>1. poll[t] \in Locals /\ PollInv(t)
  BY Zenon DEF WaitInv, PollTypes
<1>2. /\ poll'[t].pc = "scan" /\ poll'[t].of = poll[t].of
      /\ poll'[t].abstime = poll[t].abstime /\ poll'[t].waits = poll[t].waits
      /\ poll'[t].pos = 1 /\ poll'[t].got = {} /\ poll'[t] \in Locals
  BY <1>1 DEF WaitInv, PollTypes, Locals, Turn
<1>3. PollTypes'
  BY <1>1, <1>2 DEF WaitInv, PollTypes
<1> QED
  BY <1>1, <1>2, <1>3, WaitsAreConds DEF condvars, PollInv, PollKnows, PollAsks,
     PollPassed, PollTells, Tells, Watched, Running, Reached

\* A turn that ends without an answer to the whole call.
LEMMA TurnEndsToClock ==
  ASSUME Release, WaitInv, NEW t \in Poller, poll[t].pc = "scan",
         NEW ret \in {"OK", "LOINTERNALERROR"}, poll[t].abstime # "INFINITE",
         poll[t].abstime = "ZERO" => poll[t].of = "waitlist",
         poll' = [poll EXCEPT ![t] = [poll[t] EXCEPT !.pc = "clock", !.ret = ret]],
         UNCHANGED <<condvars, steady, since>>
  PROVE  PollTypes' /\ PollInv(t)'
<1>1. poll[t] \in Locals /\ PollInv(t)
  BY Zenon DEF WaitInv, PollTypes
<1>2. /\ poll'[t].pc = "clock" /\ poll'[t].of = poll[t].of
      /\ poll'[t].abstime = poll[t].abstime /\ poll'[t].waits = poll[t].waits
      /\ poll'[t].pos = poll[t].pos /\ poll'[t].got = poll[t].got
      /\ poll'[t] \in Locals
  BY <1>1 DEF WaitInv, PollTypes, Locals
<1>3. PollTypes'
  BY <1>1, <1>2 DEF WaitInv, PollTypes
<1> QED
  BY <1>1, <1>2, <1>3 DEF condvars, PollInv, PollKnows, PollAsks,
     PollPassed, PollTells, Tells, Watched, Running, Reached

\* The end of a call, that gives what the turn got, or nothing.
LEMMA DoneKeeps ==
  ASSUME Release, WaitInv, NEW t \in Poller, poll[t].pc \in {"scan", "clock"},
         NEW got, NEW ret \in {"OK", "LOINTERNALERROR"},
         poll' = [poll EXCEPT ![t] = [poll[t] EXCEPT !.pc = "done", !.got = got,
                                                     !.ret = ret]],
         UNCHANGED <<condvars, steady, since>>,
         \/ /\ poll[t].pc = "scan" /\ got = poll[t].got
            /\ poll[t].pos > Len(poll[t].waits)
            /\ poll[t].abstime = "INFINITE" => got # {}
         \/ poll[t].pc = "clock" /\ got = {}
  PROVE  PollTypes' /\ PollInv(t)'
<1>1. poll[t] \in Locals /\ PollInv(t)
  BY Zenon DEF WaitInv, PollTypes
<1>2. got \in SUBSET Cond /\ got \subseteq poll[t].got
  BY <1>1 DEF Locals
<1>3. /\ poll'[t].pc = "done" /\ poll'[t].of = poll[t].of
      /\ poll'[t].abstime = poll[t].abstime /\ poll'[t].waits = poll[t].waits
      /\ poll'[t].pos = poll[t].pos /\ poll'[t].got = got
      /\ poll'[t] \in Locals
  BY <1>1, <1>2 DEF WaitInv, PollTypes, Locals
<1>4. PollTypes'
  BY <1>1, <1>3 DEF WaitInv, PollTypes
<1>5. PollKnows(t)' /\ PollAsks(t)' /\ PollPassed(t)'
  BY <1>1, <1>2, <1>3 DEF condvars, PollInv, PollKnows, PollAsks, PollPassed, Watched,
     Running, Reached
<1>6. CASE poll[t].pc = "scan"
  <2>1. poll[t].pos - 1 = Len(poll[t].waits)
    BY <1>1, <1>6, WaitsAreConds DEF PollInv, PollKnows, Locals
  <2>2. steady[t] \intersect Watched(t) \subseteq got
    BY <1>1, <1>6, <2>1, WaitsAreConds DEF PollInv, PollPassed, Watched
  <2>3. PollTells(t)'
    BY <1>1, <1>2, <1>3, <1>6, <2>2 DEF PollInv, PollKnows, PollTells, Tells, Watched
  <2> QED
    BY <1>4, <1>5, <2>3 DEF PollInv
<1>7. CASE poll[t].pc = "clock"
  <2>1. PollTells(t)'
    BY <1>1, <1>2, <1>3, <1>7 DEF PollInv, PollKnows, PollTells, Tells, Watched, Locals,
       AbsTime
  <2> QED
    BY <1>4, <1>5, <2>1 DEF PollInv
<1> QED
  BY <1>6, <1>7

LEMMA TurnEndKeeps ==
  ASSUME Release, WaitInv, NEW t \in Poller, TurnEnd(t)
  PROVE  PollTypes' /\ PollInv(t)' /\ UNCHANGED condvars
<1>1. poll[t] \in Locals /\ PollInv(t)
  BY Zenon DEF WaitInv, PollTypes
<1>2. /\ poll[t].pos > Len(poll[t].waits) /\ poll[t].pc = "scan"
      /\ UNCHANGED <<condvars, steady, since>>
      /\ poll[t].ret \in {"OK", "LOINTERNALERROR"}
  BY <1>1 DEF TurnEnd, Poll, Locals
<1>3. CASE /\ poll[t].abstime = "ZERO"
           /\ poll' = [poll EXCEPT ![t] = [poll[t] EXCEPT !.pc = "done"]]
  <2>1. [poll[t] EXCEPT !.pc = "done"] =
          [poll[t] EXCEPT !.pc = "done", !.got = poll[t].got, !.ret = poll[t].ret]
    BY <1>1 DEF Locals
  <2> QED
    BY <1>2, <1>3, <2>1, DoneKeeps, ZenonT(60)
<1>4. CASE /\ poll[t].abstime # "INFINITE"
           /\ poll[t].abstime = "ZERO" => poll[t].of = "waitlist"
           /\ poll' = [poll EXCEPT ![t] = [poll[t] EXCEPT !.pc = "clock"]]
  <2>1. [poll[t] EXCEPT !.pc = "clock"] =
          [poll[t] EXCEPT !.pc = "clock", !.ret = poll[t].ret]
    BY <1>1 DEF Locals
  <2> QED
    BY <1>2, <1>4, <2>1, TurnEndsToClock
<1>5. CASE /\ poll[t].got # {}
           /\ poll' = [poll EXCEPT ![t] = [poll[t] EXCEPT !.pc = "done", !.ret = "OK"]]
  <2>1. [poll[t] EXCEPT !.pc = "done", !.ret = "OK"] =
          [poll[t] EXCEPT !.pc = "done", !.got = poll[t].got, !.ret = "OK"]
    BY <1>1 DEF Locals
  <2> QED
    BY <1>2, <1>5, <2>1, DoneKeeps
<1>6. CASE /\ poll[t].abstime = "TIMED"
           /\ poll' = [poll EXCEPT ![t] = [poll[t] EXCEPT !.pc = "clock", !.ret = "OK"]]
  BY <1>2, <1>6, TurnEndsToClock
<1>7. CASE /\ poll[t].abstime = "INFINITE" /\ poll' = [poll EXCEPT ![t] = Turn(t)]
  BY <1>2, <1>7, TurnKeeps
<1> QED
  BY <1>2, <1>3, <1>4, <1>5, <1>6, <1>7 DEF TurnEnd, Poll

LEMMA ClockKeeps ==
  ASSUME Release, WaitInv, NEW t \in Poller, NEW elapsed \in BOOLEAN, Clock(t, elapsed)
  PROVE  PollTypes' /\ PollInv(t)' /\ UNCHANGED condvars
<1>1. poll[t] \in Locals /\ poll[t].pc = "clock" /\ UNCHANGED <<condvars, steady, since>>
  BY DEF Clock, Poll, WaitInv, PollTypes
<1>2. CASE elapsed
  <2>1. poll' = [poll EXCEPT ![t] = [poll[t] EXCEPT !.pc = "done", !.got = {}]]
    BY <1>2 DEF Clock, Poll
  <2>2. [poll[t] EXCEPT !.pc = "done", !.got = {}] =
          [poll[t] EXCEPT !.pc = "done", !.got = {}, !.ret = poll[t].ret]
        /\ poll[t].ret \in {"OK", "LOINTERNALERROR"}
    BY <1>1 DEF Locals
  <2> QED
    BY <1>1, <2>1, <2>2, DoneKeeps
<1>3. CASE ~elapsed
  BY <1>1, <1>3, TurnKeeps DEF Clock, Poll
<1> QED
  BY <1>2, <1>3

LEMMA PollCallKeeps ==
  ASSUME Release, WaitInv, NEW t \in Poller, NEW of \in {"wait5", "waitlist"},
         NEW waits \in Lists, NEW when \in AbsTime, PollCall(t, of, waits, when)
  PROVE  PollTypes' /\ PollInv(t)' /\ UNCHANGED condvars
<1>1. poll[t] \in Locals /\ PollInv(t) /\ poll[t].pc = "idle" /\ UNCHANGED condvars
  BY Zenon DEF PollCall, WaitInv, PollTypes
<1>2. /\ poll'[t].pc \in {"clock", "scan"} /\ poll'[t].of = of
      /\ poll'[t].pc = "clock" => when = "TIMED"
      /\ poll'[t].abstime = when /\ poll'[t].waits = waits
      /\ poll'[t].pos = 1 /\ poll'[t].got = {} /\ poll'[t] \in Locals
  BY DEF PollCall, WaitInv, PollTypes, Locals
<1>3. Reached \in SUBSET Cond /\ steady'[t] = Reached /\ since'[t] = Reached
  BY DEF PollCall, WaitInv, PollTypes, Reached
<1>4. PollTypes'
  BY <1>2, <1>3 DEF PollCall, WaitInv, PollTypes
<1>5. Reached' = Reached
  BY <1>1 DEF condvars, Reached
<1>6. Len(waits) \in Nat
  BY DEF Release, WaitSetAssumption
<1> QED
  BY <1>1, <1>2, <1>3, <1>4, <1>5, <1>6 DEF condvars, PollInv, PollKnows, PollAsks,
     PollPassed, PollTells, Tells, Watched, Running

LEMMA PollReadKeeps ==
  ASSUME Release, WaitInv, NEW t \in Poller, PollRead(t)
  PROVE  PollTypes' /\ PollInv(t)' /\ UNCHANGED condvars
<1>1. PollInv(t) /\ poll[t].pc = "done" /\ UNCHANGED condvars
  BY Zenon DEF PollRead, WaitInv
<1>2. poll'[t] = NoPoll /\ steady'[t] = {} /\ since'[t] = {}
  BY DEF PollRead, WaitInv, PollTypes
<1>3. PollTypes'
  BY DEF PollRead, WaitInv, PollTypes, NoPoll, Locals, AbsTime
<1> QED
  BY <1>1, <1>2, <1>3 DEF condvars, NoPoll, PollInv, PollKnows, PollAsks, PollPassed,
     PollTells, Tells, Running

LEMMA PollerSleeps ==
  ASSUME Release, WaitInv, NEW t \in Poller, Slept(t), UNCHANGED <<poll, steady, since>>
  PROVE  PollInv(t)'
<1>1. PollInv(t) /\ t \in Waiter /\ reached' = reached
  BY DEF Slept, TimeOut, WakeUp, GiveUp, WaitInv, Release, WaitSetAssumption
<1> DEFINE c == poll[t].waits[poll[t].pos]
<1>2. /\ poll[t].pc = "answer" /\ poll[t].pos \in DOMAIN poll[t].waits
      /\ sleep[t].cond = c /\ c \notin steady[t]
      /\ sleep[t].at = "woken" => c \in since[t]
  BY <1>1 DEF Slept, TimeOut, WakeUp, GiveUp, PollInv, PollAsks
<1>3. \/ sleep'[t].at = "late" /\ sleep'[t].cond = c
      \/ sleep'[t].at = "awake" /\ sleep[t].at = "woken"
      \/ sleep'[t].at = "awake" /\ ~event'[t]
  BY <1>1, <1>2 DEF Slept, TimeOut, WakeUp, GiveUp, Awake, WaitInv, CondInv, CondTypes, Sleep
<1>4. PollAsks(t)'
  BY <1>2, <1>3 DEF PollAsks
<1> QED
  BY <1>1, <1>4 DEF PollInv, PollKnows, PollPassed, PollTells, Tells, Watched, Running,
     Reached

LEMMA ProgramKeeps ==
  ASSUME Release, WaitInv, NEW c \in Cond, Change(c)
  PROVE  CondStep /\ PollTypes' /\ \A t \in Poller : PollInv(t)'
<1>1. CASE ProgramReinit(c)
  <2>1. Reinit(c) /\ UNCHANGED <<poll, since, sleep, event>>
    BY <1>1 DEF ProgramReinit, Reinit
  <2>2. PollTypes' /\ \A t \in Poller : steady'[t] = steady[t] \ {c}
    BY <1>1 DEF ProgramReinit, WaitInv, PollTypes
  <2>3. Reached' = Reached \ {c}
    BY <2>1 DEF Reinit, Reached, WaitInv, CondInv, CondTypes
  <2>4. ASSUME NEW t \in Poller PROVE PollInv(t)'
    BY <2>1, <2>2, <2>3 DEF WaitInv, PollInv, PollKnows, PollAsks, PollPassed, PollTells,
       Tells, Watched, Running
  <2> QED
    BY <2>1, <2>2, <2>4 DEF CondStep
<1>2. ASSUME NEW v \in Value, ProgramBroadcast(c, v)
      PROVE  CondStep /\ PollTypes' /\ \A t \in Poller : PollInv(t)'
  <2>1. Broadcast(c, v) /\ UNCHANGED <<poll, steady, event>>
    BY <1>2 DEF ProgramBroadcast, Broadcast
  <2>2. PollTypes' /\ \A t \in Poller :
          since'[t] = IF Running(t) THEN since[t] \union {c} ELSE since[t]
    BY <1>2 DEF ProgramBroadcast, WaitInv, PollTypes
  <2>3. Reached' = Reached \union {c}
    BY <2>1 DEF Broadcast, Reaches, Reached, WaitInv, CondInv, CondTypes
  <2>4. ASSUME NEW t \in Poller PROVE PollInv(t)'
    <3>1. /\ sleep'[t].cond = sleep[t].cond
          /\ sleep'[t].at = IF In(t, "asleep", c) THEN "woken" ELSE sleep[t].at
      BY <2>1 DEF Broadcast, Woken, WaitInv, CondInv, CondTypes, Sleep, Release,
         WaitSetAssumption
    <3>2. PollInv(t)
      BY DEF WaitInv
    <3>3. PollKnows(t)' /\ PollPassed(t)' /\ PollTells(t)'
      BY <2>1, <2>2, <2>3, <3>2 DEF PollInv, PollKnows, PollPassed, PollTells, Tells,
         Watched, Running
    <3>4. PollAsks(t)'
      BY <2>1, <2>2, <3>1, <3>2 DEF PollInv, PollAsks, In, Running
    <3> QED
      BY <3>3, <3>4 DEF PollInv
  <2> QED
    BY <2>1, <2>2, <2>4 DEF CondStep
<1> QED
  BY <1>1, <1>2 DEF Change

\* A step of another thread leaves a poller as it is.
LEMMA Elsewhere ==
  ASSUME Release, WaitInv, NEW t \in Waiter, NEW u \in Poller, u # t, WaitCall(t) \/ WaitStep(t)
  PROVE  Same(u)
<1>0. u \in Waiter
  BY DEF Release, WaitSetAssumption
<1>1. ASSUME NEW c, NEW when, Wait(t, c, when)
      PROVE  sleep'[u] = sleep[u] /\ event'[u] = event[u] /\ reached' = reached
  BY <1>0, <1>1 DEF Wait, WaitInv, CondInv, CondTypes
<1>2. ASSUME Forget(t)
      PROVE  sleep'[u] = sleep[u] /\ event'[u] = event[u] /\ reached' = reached
  BY <1>0, <1>2 DEF Forget, WaitInv, CondInv, CondTypes
<1>3. ASSUME Slept(t)
      PROVE  sleep'[u] = sleep[u] /\ event'[u] = event[u] /\ reached' = reached
  BY <1>0, <1>3 DEF Slept, TimeOut, WakeUp, GiveUp, WaitInv, CondInv, CondTypes
<1>4. ASSUME NEW from, NEW next, Poll(t, from, next)
      PROVE  poll'[u] = poll[u] /\ UNCHANGED <<steady, since>>
  BY <1>4 DEF Poll, WaitInv, PollTypes
<1>5. CASE Ask(t) \/ Answer(t)
  BY <1>1, <1>2, <1>4, <1>5 DEF Ask, Answer, Same
<1>6. CASE TurnEnd(t) \/ \E elapsed \in BOOLEAN : Clock(t, elapsed)
  BY <1>4, <1>6 DEF TurnEnd, Clock, Same, condvars
<1>7. CASE PollRead(t) \/ \E of, waits, when : PollCall(t, of, waits, when)
  BY <1>7 DEF PollRead, PollCall, Same, condvars, WaitInv, PollTypes
<1>8. CASE UNCHANGED <<poll, steady, since>> /\
           (Forget(t) \/ Slept(t) \/ \E c, when : Wait(t, c, when))
  BY <1>1, <1>2, <1>3, <1>8 DEF Same
<1> QED
  BY <1>5, <1>6, <1>7, <1>8 DEF WaitCall, WaitStep, PollStep, DirectWait

LEMMA ThreadKeeps ==
  ASSUME Release, WaitInv, NEW t \in Waiter, WaitCall(t) \/ WaitStep(t)
  PROVE  CondStep /\ PollTypes' /\ \A u \in Poller : PollInv(u)'
<1>1. \A u \in Poller \ {t} : PollInv(u)'
  BY Elsewhere, SameKeeps DEF WaitInv
<1>2. CASE t \in Poller /\ Ask(t)
  BY <1>1, <1>2, AskKeeps DEF CondStep, AbsTime
<1>3. CASE t \in Poller /\ Answer(t)
  BY <1>1, <1>3, AnswerKeeps DEF CondStep
<1>4. CASE t \in Poller /\ (TurnEnd(t) \/ \E elapsed \in BOOLEAN : Clock(t, elapsed))
  BY <1>1, <1>4, TurnEndKeeps, ClockKeeps DEF CondStep
<1>5. CASE t \in Poller /\ (PollRead(t) \/ \E waits \in Lists, when \in AbsTime :
             PollCall(t, "wait5", waits, when) \/ PollCall(t, "waitlist", waits, when))
  BY <1>1, <1>5, PollReadKeeps, PollCallKeeps DEF CondStep
<1>6. CASE Slept(t) /\ UNCHANGED <<poll, steady, since>>
  <2>1. PollTypes'
    BY <1>6 DEF WaitInv, PollTypes
  <2> QED
    BY <1>1, <1>6, <2>1, PollerSleeps DEF CondStep
<1>7. CASE t \notin Poller /\ UNCHANGED <<poll, steady, since>> /\
           (Forget(t) \/ \E c \in Alone, when \in AbsTime : Wait(t, c, when))
  <2>1. PollTypes'
    BY <1>7 DEF WaitInv, PollTypes
  <2>2. CondStep
    BY <1>7 DEF CondStep, Release, WaitSetAssumption
  <2> QED
    BY <1>1, <1>7, <2>1, <2>2
<1> QED
  BY <1>2, <1>3, <1>4, <1>5, <1>6, <1>7 DEF WaitCall, WaitStep, PollStep, DirectWait

LEMMA PollKeeps == Release /\ WaitInv /\ [WaitNext]_waitvars => WaitInv'
<1> SUFFICES ASSUME Release, WaitInv, [WaitNext]_waitvars PROVE WaitInv'
  OBVIOUS
<1>1. CASE UNCHANGED waitvars
  <2>1. CondStep /\ PollTypes'
    BY <1>1 DEF waitvars, condvars, CondStep, WaitInv, PollTypes
  <2>2. \A u \in Poller : PollInv(u)'
    BY <1>1, SameKeeps DEF waitvars, condvars, Same, WaitInv
  <2> QED
    BY <2>1, <2>2, CondKeeps DEF WaitInv
<1>2. CASE WaitNext
  BY <1>2, ProgramKeeps, ThreadKeeps, CondKeeps DEF WaitNext, WaitInv
<1> QED
  BY <1>1, <1>2

-----------------------------------------------------------------------------
LEMMA Strengthens == WaitInv => WaitTypeOK /\ EventsAreReal
<1> SUFFICES ASSUME WaitInv PROVE WaitTypeOK /\ EventsAreReal
  OBVIOUS
<1>1. CondTypeOK
  BY DEF WaitInv, CondInv, CondTypes, CondTypeOK, Sleep
<1>2. ASSUME NEW t \in Poller
      PROVE  /\ poll[t].pc \in {"idle", "clock", "scan", "answer", "done"}
             /\ poll[t].pos \in 1 .. Len(poll[t].waits) + 1
             /\ poll[t].got \subseteq Watched(t) /\ steady[t] \subseteq Reached
  BY DEF WaitInv, PollTypes, Locals, PollInv, PollKnows
<1>3. WaitTypeOK
  BY <1>1, <1>2 DEF WaitTypeOK
<1>4. EventsAreReal
  BY DEF WaitInv, CondInv, PollInv, PollTells, EventsAreReal
<1> QED
  BY <1>3, <1>4

\* The types of the conditions, of the threads that wait for one, and of the
\* calls that poll several (threadcond_posix.c, wait.c, waitlist.c).
THEOREM WaitTypeCorrect ==
  ASSUME Release PROVE WaitSpec => []WaitTypeOK
<1>1. (WaitInit => WaitInv) /\ (WaitInv /\ [WaitNext]_waitvars => WaitInv')
  BY PollInitially, PollKeeps
<1> QED
  BY <1>1, Strengthens, PTL DEF WaitSpec

\* No wakeup is lost and no event is made up: a wait gives a value that was
\* broadcast, nobody sleeps on a reached condition, and a poll of several tells
\* those that were reached, whatever the broadcasts and resets that come between
\* its turns (threadcond_posix.c:86-171, wait.c:207-334, waitlist.c:108-209).
THEOREM TellsTheTruth ==
  ASSUME Release PROVE WaitSpec => []EventsAreReal
<1>1. (WaitInit => WaitInv) /\ (WaitInv /\ [WaitNext]_waitvars => WaitInv')
  BY PollInitially, PollKeeps
<1> QED
  BY <1>1, Strengthens, PTL DEF WaitSpec

-----------------------------------------------------------------------------
(* The cache of names *)

Ip == UNION {Gives(h) : h \in Host}
Lookups == [pc : {"idle", "search", "found", "query", "add", "replace"},
            host : Host \cup {Nothing}, item : Item \cup {Nothing},
            ip : Ip \cup {Nothing}, ret : {"OK", "ERROR"}]

NamesTypes ==
  /\ phashhost \in [Host -> Item \cup {Nothing}]
  /\ stored \in [Item -> [host : Host, ip : Ip] \cup {Nothing}]
  /\ lookup \in [Users -> Lookups]
  /\ given \in [Host -> SUBSET Ip] /\ \A h \in Host : given[h] \subseteq Gives(h)
  /\ readers \subseteq Users /\ writer \in Users \cup {Nothing}

\* The place of a thread says what it has of the lock.
NamesLocked ==
  /\ \A u \in Users : /\ u \in readers <=> lookup[u].pc = "found"
                      /\ writer = u <=> lookup[u].pc = "replace"
  /\ writer # Nothing => readers = {}

\* What a thread found is still in the hash; what it made is its own.
Making(u) == lookup[u].pc \in {"add", "replace"}
NamesPlaces ==
  \A u \in Users :
    /\ lookup[u].pc # "idle" => lookup[u].host \in Host
    /\ lookup[u].pc = "found" => lookup[u].item = phashhost[lookup[u].host]
    /\ Making(u) =>
         /\ lookup[u].item \in Item /\ lookup[u].ip \in given[lookup[u].host]
         /\ stored[lookup[u].item] = [host |-> lookup[u].host, ip |-> lookup[u].ip]
         /\ \A h \in Host : phashhost[h] # lookup[u].item
         /\ \A v \in Users \ {u} : Making(v) => lookup[v].item # lookup[u].item
    /\ Names!Answers(u) /\ lookup[u].ret = "OK" =>
         lookup[u].host \in Host /\ lookup[u].ip \in given[lookup[u].host]

\* The hash has items of its own, and there are no others.
NamesHash ==
  /\ \A h \in Host : phashhost[h] # Nothing =>
       \E ip \in given[h] : stored[phashhost[h]] = [host |-> h, ip |-> ip]
  /\ \A i \in Item : stored[i] # Nothing =>
       \/ \E h \in Host : phashhost[h] = i
       \/ \E u \in Users : Making(u) /\ lookup[u].item = i

NamesInv == NamesTypes /\ NamesLocked /\ NamesPlaces /\ NamesHash

LEMMA NamesInitially ==
  ASSUME Names!NamesAssumption, Names!Init PROVE NamesInv
<1> USE DEF Names!Init, Names!Idle, Names!NamesAssumption
<1>1. NamesTypes
  BY DEF NamesTypes, Lookups, Names!Lock!Init
<1>2. NamesLocked
  BY DEF NamesLocked, Names!Lock!Init
<1>3. NamesPlaces /\ NamesHash
  BY DEF NamesPlaces, NamesHash, Making, Names!Answers, Names!At
<1> QED BY <1>1, <1>2, <1>3 DEF NamesInv

\* A thread that only changes its own call, and does not make an item.
LEMMA NamesMove ==
  ASSUME NamesInv, NEW u \in Users, NEW new \in Lookups,
         lookup' = [lookup EXCEPT ![u] = new],
         UNCHANGED <<phashhost, stored, given>>,
         new.pc \notin {"add", "replace"}, ~Making(u),
         new.pc # "idle" => new.host \in Host,
         new.pc = "found" => new.item = phashhost[new.host],
         new.pc = "idle" /\ new.host # Nothing /\ new.ret = "OK" =>
           new.host \in Host /\ new.ip \in given[new.host],
         readers' \subseteq Users, writer' \in Users \cup {Nothing},
         NamesLocked'
  PROVE  NamesInv'
<1> USE DEF NamesInv
<1>1. NamesTypes'
  BY DEF NamesTypes
<1>2. \A v \in Users : Making(v)' <=> Making(v)
  BY DEF NamesTypes, Making
<1>3. \A v \in Users : v # u => lookup'[v] = lookup[v]
  BY DEF NamesTypes
<1>4. NamesPlaces'
  BY <1>2, <1>3 DEF NamesPlaces, NamesTypes, Making, Names!Answers, Names!At
<1>5. NamesHash'
  BY <1>2, <1>3 DEF NamesHash, Making
<1> QED BY <1>1, <1>4, <1>5

LEMMA NamesAsk ==
  ASSUME Names!NamesAssumption, NamesInv, NEW u \in Users, NEW h \in Host, Names!Ask(u, h)
  PROVE  NamesInv'
<1> DEFINE new == [Names!Idle EXCEPT !.pc = "search", !.host = h]
<1>1. new \in Lookups /\ new.pc = "search" /\ new.host = h
  BY DEF Lookups, Names!Idle
<1>2. /\ lookup[u].pc = "idle" /\ lookup' = [lookup EXCEPT ![u] = new]
      /\ UNCHANGED <<phashhost, stored, given, readers, writer>>
  BY DEF Names!Ask, Names!At
<1> HIDE DEF new
<1>3. NamesLocked'
  BY <1>1, <1>2 DEF NamesInv, NamesTypes, NamesLocked
<1>4. readers' \subseteq Users /\ writer' \in Users \cup {Nothing} /\ ~Making(u)
  BY <1>2 DEF NamesInv, NamesTypes, Making
<1> QED BY <1>1, <1>2, <1>3, <1>4, NamesMove

LEMMA NamesSearch ==
  ASSUME Names!NamesAssumption, NamesInv, NEW u \in Users, Names!Search(u) PROVE NamesInv'
<1>1. /\ lookup[u].pc = "search" /\ lookup[u].host \in Host
      /\ writer = Nothing /\ writer' = writer /\ readers' = readers \cup {u}
      /\ UNCHANGED <<phashhost, stored, given>>
  BY DEF Names!Search, Names!At, Names!Lock!ReadBegins, NamesInv, NamesPlaces
<1>2. PICK new \in Lookups :
        /\ new.pc = "found" /\ new.host = lookup[u].host /\ new.item = phashhost[new.host]
        /\ lookup' = [lookup EXCEPT ![u] = new]
  <2> DEFINE new == [lookup[u] EXCEPT !.pc = "found", !.item = phashhost[lookup[u].host]]
  <2>1. new \in Lookups /\ new.pc = "found" /\ new.host = lookup[u].host
        /\ new.item = phashhost[new.host]
    BY <1>1 DEF NamesInv, NamesTypes, Lookups
  <2>2. lookup' = [lookup EXCEPT ![u] = new]
    BY DEF Names!Search, Names!Goes, NamesInv, NamesTypes
  <2> QED BY <2>1, <2>2
<1>4. NamesLocked'
  BY <1>1, <1>2 DEF NamesInv, NamesTypes, NamesLocked, Names!NamesAssumption
<1>5. readers' \subseteq Users /\ writer' \in Users \cup {Nothing} /\ ~Making(u)
  BY <1>1 DEF NamesInv, NamesTypes, Making
<1> QED BY <1>1, <1>2, <1>4, <1>5, NamesMove

LEMMA NamesRead ==
  ASSUME Names!NamesAssumption, NamesInv, NEW u \in Users, Names!Read(u) PROVE NamesInv'
<1>1. /\ lookup[u].pc = "found" /\ lookup[u].host \in Host
      /\ lookup[u].item = phashhost[lookup[u].host]
      /\ u \in readers /\ writer' = writer /\ readers' = readers \ {u}
      /\ UNCHANGED <<phashhost, stored, given>>
  BY DEF Names!Read, Names!At, Names!Lock!ReadEnds, NamesInv, NamesPlaces
<1>2. PICK new \in Lookups :
        /\ new.pc \in {"query", "idle"} /\ new.host = lookup[u].host
        /\ lookup' = [lookup EXCEPT ![u] = new]
        /\ new.pc = "idle" => new.ip \in given[new.host]
  <2>1. CASE lookup[u].item = Nothing
    <3> DEFINE new == [lookup[u] EXCEPT !.pc = "query", !.item = Nothing]
    <3>1. new \in Lookups /\ new.pc = "query" /\ new.host = lookup[u].host
      BY DEF NamesInv, NamesTypes, Lookups
    <3>2. lookup' = [lookup EXCEPT ![u] = new]
      BY <2>1 DEF Names!Read, Names!Goes, NamesInv, NamesTypes
    <3> QED BY <3>1, <3>2
  <2>2. CASE lookup[u].item # Nothing
    <3>1. PICK ip \in given[lookup[u].host] :
            stored[lookup[u].item] = [host |-> lookup[u].host, ip |-> ip]
      BY <1>1, <2>2 DEF NamesInv, NamesHash
    <3>2. ip \in Ip
      BY <1>1, <3>1 DEF NamesInv, NamesTypes
    <3> DEFINE new == [lookup[u] EXCEPT !.pc = "idle", !.item = Nothing, !.ret = "OK", !.ip = ip]
    <3>3. stored[lookup[u].item].ip = ip
      BY <3>1
    <3>4. new \in Lookups /\ new.pc = "idle" /\ new.host = lookup[u].host /\ new.ip = ip
      BY <3>2 DEF NamesInv, NamesTypes, Lookups
    <3>5. lookup' = [lookup EXCEPT ![u] = new]
      <4>1. Names!Returns(u, "OK", ip)
        BY <2>2, <3>3 DEF Names!Read
      <4> QED BY <4>1 DEF Names!Returns, NamesInv, NamesTypes
    <3> QED BY <3>1, <3>4, <3>5
  <2> QED BY <2>1, <2>2
<1>3. NamesLocked'
  BY <1>1, <1>2 DEF NamesInv, NamesTypes, NamesLocked
<1>4. readers' \subseteq Users /\ writer' \in Users \cup {Nothing} /\ ~Making(u)
  BY <1>1 DEF NamesInv, NamesTypes, Making
<1> QED BY <1>1, <1>2, <1>3, <1>4, NamesMove

LEMMA NamesQueryFails ==
  ASSUME Names!NamesAssumption, NamesInv, NEW u \in Users, Names!QueryFails(u) PROVE NamesInv'
<1>1. lookup[u].pc = "query" /\ UNCHANGED <<phashhost, stored, given, readers, writer>>
  BY DEF Names!QueryFails, Names!At
<1> DEFINE new == [lookup[u] EXCEPT !.pc = "idle", !.item = Nothing, !.ret = "ERROR",
                              !.ip = Nothing]
<1>2. new \in Lookups /\ new.pc = "idle" /\ new.ret = "ERROR"
  BY DEF NamesInv, NamesTypes, Lookups
<1>3. lookup' = [lookup EXCEPT ![u] = new]
  BY DEF Names!QueryFails, Names!Returns, NamesInv, NamesTypes
<1> HIDE DEF new
<1>4. NamesLocked'
  BY <1>1, <1>2, <1>3 DEF NamesInv, NamesTypes, NamesLocked
<1>5. readers' \subseteq Users /\ writer' \in Users \cup {Nothing} /\ ~Making(u)
  BY <1>1 DEF NamesInv, NamesTypes, Making
<1> QED BY <1>1, <1>2, <1>3, <1>4, <1>5, NamesMove

\* The item that a thread makes was free, so that nobody has it.
LEMMA NamesQuery ==
  ASSUME Names!NamesAssumption, NamesInv, NEW u \in Users, NEW i \in Item,
         NEW ip \in Gives(lookup[u].host), Names!Query(u, ip, i)
  PROVE  NamesInv'
<1> USE DEF NamesInv
<1> DEFINE h == lookup[u].host
           new == [lookup[u] EXCEPT !.pc = "add", !.item = i, !.ip = ip]
<1>1. /\ lookup[u].pc = "query" /\ h \in Host /\ stored[i] = Nothing
      /\ stored' = [stored EXCEPT ![i] = [host |-> h, ip |-> ip]]
      /\ given' = [given EXCEPT ![h] = @ \union {ip}]
      /\ UNCHANGED <<phashhost, readers, writer>>
  BY DEF Names!Query, Names!At, NamesPlaces
<1>2. /\ new \in Lookups /\ new.pc = "add" /\ new.host = h /\ new.item = i /\ new.ip = ip
      /\ ip \in Ip
  BY <1>1 DEF NamesTypes, Lookups, Ip
<1>3. lookup' = [lookup EXCEPT ![u] = new]
  BY DEF Names!Query, NamesTypes
<1> HIDE DEF new, h
<1>4. NamesTypes'
  <2>1. given' \in [Host -> SUBSET Ip] /\ \A g \in Host : given'[g] \subseteq Gives(g)
    BY <1>1, <1>2 DEF NamesTypes, h
  <2> QED BY <1>1, <1>2, <1>3, <2>1 DEF NamesTypes
<1>5. NamesLocked'
  BY <1>1, <1>2, <1>3 DEF NamesTypes, NamesLocked
<1>6. /\ \A v \in Users : Making(v)' <=> Making(v) \/ v = u
      /\ \A v \in Users : v # u => lookup'[v] = lookup[v]
      /\ lookup'[u] = new
  BY <1>1, <1>2, <1>3 DEF NamesTypes, Making
<1>7. [host |-> h, ip |-> ip] # Nothing
  BY <1>1 DEF Names!NamesAssumption, h
<1>8. /\ \A g \in Host : phashhost[g] # i
      /\ \A v \in Users : Making(v) => lookup[v].item # i
  <2>1. \A g \in Host : \A jp \in Gives(g) : [host |-> g, ip |-> jp] # Nothing
    BY DEF Names!NamesAssumption
  <2>2. ASSUME NEW g \in Host, phashhost[g] = i PROVE FALSE
    BY <1>1, <2>1, <2>2 DEF NamesHash, NamesTypes, Names!NamesAssumption
  <2>3. ASSUME NEW v \in Users, Making(v), lookup[v].item = i PROVE FALSE
    <3>1. /\ stored[i] = [host |-> lookup[v].host, ip |-> lookup[v].ip]
          /\ lookup[v].host \in Host /\ lookup[v].ip \in Gives(lookup[v].host)
      BY <2>3 DEF NamesPlaces, NamesTypes, Making
    <3> QED BY <1>1, <2>1, <3>1
  <2> QED BY <2>2, <2>3
<1>9. NamesPlaces'
  <2>1. \A g \in Host : given[g] \subseteq given'[g] /\ ip \in given'[h]
    BY <1>1 DEF NamesTypes
  <2>2. ASSUME NEW v \in Users, v # u PROVE
          /\ lookup'[v].pc # "idle" => lookup'[v].host \in Host
          /\ lookup'[v].pc = "found" => lookup'[v].item = phashhost'[lookup'[v].host]
          /\ Making(v)' =>
               /\ lookup'[v].item \in Item /\ lookup'[v].ip \in given'[lookup'[v].host]
               /\ stored'[lookup'[v].item] = [host |-> lookup'[v].host, ip |-> lookup'[v].ip]
               /\ \A g \in Host : phashhost'[g] # lookup'[v].item
               /\ \A w \in Users \ {v} : Making(w)' => lookup'[w].item # lookup'[v].item
          /\ Names!Answers(v)' /\ lookup'[v].ret = "OK" =>
               lookup'[v].host \in Host /\ lookup'[v].ip \in given'[lookup'[v].host]
    BY <1>1, <1>2, <1>6, <1>8, <2>1, <2>2
       DEF NamesPlaces, NamesTypes, Making, Names!Answers, Names!At
  <2>3. /\ lookup'[u].pc = "add" /\ lookup'[u].host \in Host
        /\ lookup'[u].item \in Item /\ lookup'[u].ip \in given'[lookup'[u].host]
        /\ stored'[lookup'[u].item] = [host |-> lookup'[u].host, ip |-> lookup'[u].ip]
        /\ \A g \in Host : phashhost'[g] # lookup'[u].item
        /\ \A w \in Users \ {u} : Making(w)' => lookup'[w].item # lookup'[u].item
    BY <1>1, <1>2, <1>6, <1>8, <2>1 DEF NamesTypes
  <2> QED BY <2>2, <2>3 DEF NamesPlaces, Names!Answers, Names!At
<1>10. NamesHash'
  <2>1. \A g \in Host : phashhost'[g] # Nothing =>
          \E jp \in given'[g] : stored'[phashhost'[g]] = [host |-> g, ip |-> jp]
    BY <1>1, <1>8 DEF NamesHash, NamesTypes
  <2>2. ASSUME NEW j \in Item, stored'[j] # Nothing
        PROVE  \/ \E g \in Host : phashhost'[g] = j
               \/ \E v \in Users : Making(v)' /\ lookup'[v].item = j
    <3>1. CASE j = i
      BY <1>2, <1>6, <3>1
    <3>2. CASE j # i
      <4>1. stored[j] # Nothing
        BY <1>1, <2>2, <3>2 DEF NamesTypes
      <4>2. CASE \E g \in Host : phashhost[g] = j
        BY <1>1, <4>2
      <4>3. CASE \E v \in Users : Making(v) /\ lookup[v].item = j
        BY <1>1, <1>6, <4>3 DEF Making
      <4> QED BY <4>1, <4>2, <4>3 DEF NamesHash
    <3> QED BY <3>1, <3>2
  <2> QED BY <2>1, <2>2 DEF NamesHash
<1> QED BY <1>4, <1>5, <1>9, <1>10

LEMMA NamesAddBegins ==
  ASSUME Names!NamesAssumption, NamesInv, NEW u \in Users, Names!AddBegins(u) PROVE NamesInv'
<1> USE DEF NamesInv
<1> DEFINE new == [lookup[u] EXCEPT !.pc = "replace", !.item = lookup[u].item]
<1>1. /\ lookup[u].pc = "add" /\ writer = Nothing /\ readers = {} /\ writer' = u
      /\ UNCHANGED <<phashhost, stored, given, readers>>
  BY DEF Names!AddBegins, Names!At, Names!Lock!WriteBegins
<1>2. /\ new \in Lookups /\ new.pc = "replace" /\ new.host = lookup[u].host
      /\ new.item = lookup[u].item /\ new.ip = lookup[u].ip
  BY DEF NamesTypes, Lookups
<1>3. lookup' = [lookup EXCEPT ![u] = new]
  BY DEF Names!AddBegins, Names!Goes, NamesTypes
<1> HIDE DEF new
<1>4. NamesTypes'
  BY <1>1, <1>2, <1>3 DEF NamesTypes
<1>5. NamesLocked'
  BY <1>1, <1>2, <1>3 DEF NamesTypes, NamesLocked, Names!NamesAssumption
<1>6. /\ \A v \in Users : Making(v)' <=> Making(v)
      /\ \A v \in Users : lookup'[v].item = lookup[v].item /\ lookup'[v].ip = lookup[v].ip
                          /\ lookup'[v].host = lookup[v].host
      /\ \A v \in Users : v # u => lookup'[v] = lookup[v]
      /\ lookup'[u].pc = "replace" /\ Making(u)
  BY <1>1, <1>2, <1>3 DEF NamesTypes, Making
<1>7. NamesPlaces'
  BY <1>1, <1>6 DEF NamesPlaces, Making, Names!Answers, Names!At
<1>8. NamesHash'
  BY <1>1, <1>6 DEF NamesHash
<1> QED BY <1>4, <1>5, <1>7, <1>8

LEMMA StoredHost ==
  ASSUME NamesHash, NEW g \in Host, phashhost[g] # Nothing
  PROVE  stored[phashhost[g]].host = g
<1>1. PICK ip \in given[g] : stored[phashhost[g]] = [host |-> g, ip |-> ip]
  BY DEF NamesHash
<1> QED BY <1>1

\* What was in the hash for the name is freed: nobody reads it, since the
\* writer is alone, and what a thread makes is not there.
LEMMA NamesAdd ==
  ASSUME Names!NamesAssumption, NamesInv, NEW u \in Users, Names!Add(u) PROVE NamesInv'
<1> USE DEF NamesInv
<1> DEFINE h == lookup[u].host
           i == lookup[u].item
           ip == lookup[u].ip
           new == [lookup[u] EXCEPT !.pc = "idle", !.item = Nothing, !.ret = "OK", !.ip = ip]
<1>1. /\ lookup[u].pc = "replace" /\ h \in Host /\ i \in Item /\ ip \in given[h] /\ ip \in Ip
      /\ stored[i] = [host |-> h, ip |-> ip]
      /\ stored' = [j \in Item |-> IF j = phashhost[h] THEN Nothing ELSE stored[j]]
      /\ phashhost' = [phashhost EXCEPT ![h] = i]
      /\ writer = u /\ writer' = Nothing /\ readers = {}
      /\ UNCHANGED <<given, readers>>
  BY DEF Names!Add, Names!At, Names!Replaced, Names!Lock!WriteEnds, NamesPlaces, Making,
         NamesLocked, NamesTypes, Names!NamesAssumption
<1>2. /\ new \in Lookups /\ new.pc = "idle" /\ new.host = h /\ new.ip = ip
  BY <1>1, ZenonT(60) DEF NamesTypes, Lookups
<1>3. lookup' = [lookup EXCEPT ![u] = new]
  BY DEF Names!Add, Names!Returns, NamesTypes
<1>4. /\ \A g \in Host : phashhost[g] # i
      /\ \A v \in Users \ {u} : Making(v) => lookup[v].item # i
  BY <1>1 DEF NamesPlaces, Making
<1>5. /\ \A v \in Users : v # u => lookup'[v] = lookup[v]
      /\ lookup'[u] = new /\ Making(u)
      /\ \A v \in Users : Making(v)' <=> Making(v) /\ v # u
  BY <1>1, <1>2, <1>3 DEF NamesTypes, Making
<1> HIDE DEF new, h, i, ip
<1>6. NamesTypes'
  BY <1>1, <1>2, <1>3 DEF NamesTypes
<1>7. NamesLocked'
  BY <1>1, <1>2, <1>3 DEF NamesTypes, NamesLocked, Names!NamesAssumption
<1>8. NamesPlaces'
  <2>1. \A v \in Users : lookup[v].pc # "found"
    BY <1>1 DEF NamesLocked
  <2>2. ASSUME NEW v \in Users, v # u, Making(v)
        PROVE  /\ stored'[lookup[v].item] = stored[lookup[v].item]
               /\ \A g \in Host : phashhost'[g] # lookup[v].item
    BY <1>1, <1>4, <2>2 DEF NamesPlaces, NamesTypes
  <2> QED BY <1>1, <1>2, <1>5, <2>1, <2>2 DEF NamesPlaces, Names!Answers, Names!At
<1>9. NamesHash'
  <2>1. \A g \in Host : g # h /\ phashhost[g] # Nothing =>
          stored'[phashhost[g]] = stored[phashhost[g]]
    <3>1. \A g \in Host : phashhost[g] # Nothing => stored[phashhost[g]].host = g
      BY StoredHost
    <3> QED BY <1>1, <3>1 DEF NamesTypes
  <2>2. \A g \in Host : phashhost'[g] # Nothing =>
          \E jp \in given'[g] : stored'[phashhost'[g]] = [host |-> g, ip |-> jp]
    <3>1. phashhost'[h] = i /\ stored'[i] = [host |-> h, ip |-> ip] /\ ip \in given'[h]
      BY <1>1, <1>4 DEF NamesTypes
    <3>2. \A g \in Host : g # h => phashhost'[g] = phashhost[g] /\ given'[g] = given[g]
      BY <1>1 DEF NamesTypes
    <3> QED BY <2>1, <3>1, <3>2 DEF NamesHash
  <2>3. \A j \in Item : stored'[j] # Nothing =>
          \/ \E g \in Host : phashhost'[g] = j
          \/ \E v \in Users : Making(v)' /\ lookup'[v].item = j
    BY <1>1, <1>5 DEF NamesHash, NamesTypes, i
  <2> QED BY <2>2, <2>3 DEF NamesHash
<1> QED BY <1>6, <1>7, <1>8, <1>9

LEMMA NamesKeep ==
  ASSUME Names!NamesAssumption, NamesInv, Names!Next PROVE NamesInv'
<1>1. PICK u \in Users :
        \/ \E h \in Host : Names!Ask(u, h)
        \/ Names!Search(u) \/ Names!Read(u) \/ Names!QueryFails(u)
        \/ Names!AddBegins(u) \/ Names!Add(u)
        \/ \E ip \in Gives(lookup[u].host), i \in Item : Names!Query(u, ip, i)
  BY DEF Names!Next
<1> QED BY <1>1, NamesAsk, NamesSearch, NamesRead, NamesQueryFails, NamesAddBegins, NamesAdd,
           NamesQuery

LEMMA NamesStay == ASSUME NamesInv, UNCHANGED namesvars PROVE NamesInv'
BY DEF namesvars, NamesInv, NamesTypes, NamesLocked, NamesPlaces, NamesHash, Making,
       Names!Answers, Names!At

LEMMA NamesTrue ==
  ASSUME Names!NamesAssumption, NamesInv
  PROVE  Names!TypeOK /\ Names!NoFreedUse /\ Names!CacheIsTrue
<1> USE DEF NamesInv
<1>1. Names!TypeOK
  BY DEF Names!TypeOK, NamesTypes, Lookups
<1>2. \A h \in Host : phashhost[h] # Nothing => stored[phashhost[h]] # Nothing
  <2>1. ASSUME NEW h \in Host, phashhost[h] # Nothing PROVE stored[phashhost[h]] # Nothing
    <3>1. PICK ip \in given[h] : stored[phashhost[h]] = [host |-> h, ip |-> ip]
      BY <2>1 DEF NamesHash
    <3>2. ip \in Gives(h)
      BY <3>1 DEF NamesTypes
    <3> QED BY <3>1, <3>2 DEF Names!NamesAssumption
  <2> QED BY <2>1
<1>3. Names!NoFreedUse
  BY <1>2 DEF Names!NoFreedUse, Names!At, NamesPlaces
<1>4. \A u \in Users : Making(u) => stored[lookup[u].item] # Nothing
  <2>1. ASSUME NEW u \in Users, Making(u) PROVE stored[lookup[u].item] # Nothing
    <3>1. /\ stored[lookup[u].item] = [host |-> lookup[u].host, ip |-> lookup[u].ip]
          /\ lookup[u].host \in Host /\ lookup[u].ip \in Gives(lookup[u].host)
      BY <2>1 DEF NamesPlaces, NamesTypes, Making
    <3> QED BY <3>1 DEF Names!NamesAssumption
  <2> QED BY <2>1
<1>5. Names!InHand = {lookup[u].item : u \in {v \in Users : Making(v)}}
  BY DEF Names!InHand, Making
<1>6. Names!Allocated = Names!Cached \union Names!InHand
  <2>1. Names!Allocated \subseteq Names!Cached \union Names!InHand
    BY <1>5 DEF Names!Allocated, Names!Cached, NamesHash, Names!NamesAssumption
  <2>2. Names!Cached \subseteq Names!Allocated
    BY <1>2 DEF Names!Allocated, Names!Cached, NamesTypes
  <2>3. Names!InHand \subseteq Names!Allocated
    BY <1>4, <1>5 DEF Names!Allocated, NamesPlaces
  <2> QED BY <2>1, <2>2, <2>3
<1>7. Names!Cached \intersect Names!InHand = {}
  BY <1>5 DEF Names!Cached, NamesPlaces
<1>8. \A h \in Host : phashhost[h] # Nothing => stored[phashhost[h]].host = h
  BY StoredHost
<1> QED BY <1>1, <1>3, <1>6, <1>7, <1>8 DEF Names!CacheIsTrue, NamesPlaces

-----------------------------------------------------------------------------
(* The configuration *)

Tables == {s \in Seq(Entry) : Len(s) <= TableMax}
Held == {"wrlock", "swap", "updated", "close"}
Calls == [pc : Network!UpdatePc \cup Network!ReadPc
                 \cup {"idle", "open", "walk", "search", "query", "devnum", "add"},
          op : {"none", "walk", "update", "find", "add"},
          entry : Entry \cup {Nothing}, ring : Block \cup {Nothing},
          pos : 0 .. TableMax, ret : {"OK", "ERROR", "DATAEND", "NOTCONVERTED"}]

ConfTypes ==
  /\ netwib_priv_conf \in Block /\ obtained \subseteq Block
  /\ rings \in [Block -> Tables \cup {Nothing}]
  /\ needtobeupdated \in BOOLEAN /\ added \subseteq Entry
  /\ call \in [Users -> Calls]
  /\ confreaders \subseteq Users /\ confwriter \in Users \cup {Nothing}

ConfLocked ==
  /\ \A u \in Users :
       /\ u \in confreaders <=> call[u].pc \in {"read", "found", "devices"}
       /\ confwriter = u <=> call[u].pc \in {"swap", "updated", "append"}
  /\ confwriter # Nothing => confreaders = {}

\* What a call is about, and the ring that it uses: the current one, or one
\* that it holds alone.  Once the tables were got, the current ones are real.
PlaceIn(c, current, got, tables) ==
  /\ c.pc \in {"open", "walk", "read"} => c.op = "walk"
  /\ c.pc \in Network!UpdatePc => c.op \in {"walk", "update", "find"}
  /\ c.pc \in {"search", "found", "query", "devnum", "devices", "add", "append"} =>
       c.op \in {"find", "add"}
  /\ c.op \in {"find", "add"} => c.entry \in Entry
  /\ c.pc \in {"walk", "read", "found", "devices", "append"} => c.ring = current
  /\ c.pc \in Held => c.ring \in Block /\ c.ring # current
  /\ c.pc \in {"wrlock", "swap"} => c.ring \in got
  /\ c.pc \in {"updated", "close", "open", "walk", "read", "search", "found", "query"} =>
       current \in got
  /\ c.pc = "append" => Len(tables[current]) < TableMax
PlaceOf(c) == PlaceIn(c, netwib_priv_conf, obtained, rings)
StillPlace(c) == PlaceIn(c, netwib_priv_conf', obtained', rings')
ConfPlaces == \A u \in Users : PlaceOf(call[u])

Holds(u) == call[u].pc \in Held
ConfRings ==
  /\ \A b \in Block : rings[b] # Nothing <=>
       b = netwib_priv_conf \/ \E u \in Users : Holds(u) /\ call[u].ring = b
  /\ \A u, v \in Users : u # v /\ Holds(u) /\ Holds(v) => call[u].ring # call[v].ring
  /\ ~needtobeupdated => netwib_priv_conf \in obtained
  /\ added \subseteq Network!ToSet(rings[netwib_priv_conf])

\* What users take care of.
WalksAlone ==
  \A u, v \in Users : u # v /\ Network!Walking(u) => ~Network!Updating(v)

ConfInv == ConfTypes /\ ConfLocked /\ ConfPlaces /\ ConfRings /\ WalksAlone

LEMMA TablesAre ==
  ASSUME Network!ConfAssumption
  PROVE  SystemTables \subseteq Tables /\ Nothing \notin Tables /\ <<>> \in Tables
<1> USE DEF Network!ConfAssumption
<1>1. ASSUME NEW s \in SystemTables PROVE s \in Tables
  <2>1. PICK n \in 0 .. TableMax : s \in [1 .. n -> Entry]
    OBVIOUS
  <2>2. s \in Seq(Entry) /\ Len(s) = n
    BY <2>1
  <2> QED BY <2>1, <2>2 DEF Tables
<1>2. ASSUME Nothing \in Tables PROVE FALSE
  <2>1. Nothing \in Seq(Entry) /\ Len(Nothing) \in 0 .. TableMax
    BY <1>2 DEF Tables
  <2>2. Nothing \in [1 .. Len(Nothing) -> Entry]
    BY <2>1, LenProperties
  <2> QED BY <2>1, <2>2
<1>3. <<>> \in Tables
  BY DEF Tables
<1> QED BY <1>1, <1>2, <1>3

LEMMA ConfInitially ==
  ASSUME Network!ConfAssumption, Network!Init PROVE ConfInv
<1> USE DEF Network!Init, Network!Idle
<1>1. ConfTypes
  <2>1. Network!Idle \in Calls
    BY DEF Calls, Network!ConfAssumption
  <2> QED BY <2>1, TablesAre DEF ConfTypes, Network!Lock!Init
<1>2. \A u \in Users : call[u].pc = "idle" /\ call[u].op = "none"
  OBVIOUS
<1>3. ConfLocked
  BY <1>2 DEF ConfLocked, Network!ConfAssumption, Network!Lock!Init
<1>4. ConfPlaces /\ WalksAlone
  BY <1>2 DEF ConfPlaces, PlaceOf, PlaceIn, WalksAlone, Network!Walking, Network!UpdatePc, Held
<1>5. ConfRings
  BY <1>2, TablesAre DEF ConfRings, Holds, Held
<1> QED BY <1>1, <1>3, <1>4, <1>5 DEF ConfInv

\* A thread that only changes its own call, and holds what it held.
LEMMA ConfMove ==
  ASSUME ConfInv, NEW u \in Users, NEW new \in Calls,
         call' = [call EXCEPT ![u] = new],
         UNCHANGED <<netwib_priv_conf, rings, needtobeupdated, added, obtained>>,
         PlaceOf(new), Holds(u) <=> new.pc \in Held,
         Holds(u) => new.ring = call[u].ring,
         \A v \in Users \ {u} :
           /\ new.op = "walk" /\ new.pc # "idle" => ~Network!Updating(v)
           /\ new.pc \in Network!UpdatePc => ~Network!Walking(v),
         confreaders' \subseteq Users, confwriter' \in Users \cup {Nothing},
         ConfLocked'
  PROVE  ConfInv'
<1> USE DEF ConfInv
<1>1. ConfTypes'
  BY DEF ConfTypes
<1>2. /\ \A v \in Users : v # u => call'[v] = call[v]
      /\ call'[u] = new
  BY DEF ConfTypes
<1>3. \A v \in Users : PlaceOf(call[v])' <=> PlaceOf(call'[v])
  BY DEF PlaceOf, PlaceIn
<1>4. ConfPlaces'
  BY <1>2, <1>3 DEF ConfPlaces
<1>5. \A v \in Users : /\ Holds(v)' <=> Holds(v)
                       /\ Holds(v) => call'[v].ring = call[v].ring
  BY <1>2 DEF Holds
<1>6. ConfRings'
  BY <1>5 DEF ConfRings
<1>7. WalksAlone'
  BY <1>2 DEF WalksAlone, Network!Walking, Network!Updating, Network!At
<1> QED BY <1>1, <1>4, <1>6, <1>7

\* The same, when the thread goes on with its call, or ends it.
LEMMA ConfStep ==
  ASSUME ConfInv, NEW u \in Users, NEW new \in Calls,
         call' = [call EXCEPT ![u] = new],
         UNCHANGED <<netwib_priv_conf, rings, needtobeupdated, added, obtained>>,
         PlaceOf(new), Holds(u) <=> new.pc \in Held,
         Holds(u) => new.ring = call[u].ring,
         new.op = call[u].op, call[u].pc # "idle",
         new.pc \in Network!UpdatePc => call[u].pc \in Network!UpdatePc,
         confreaders' \subseteq Users, confwriter' \in Users \cup {Nothing},
         ConfLocked'
  PROVE  ConfInv'
<1>1. \A v \in Users \ {u} :
        /\ new.op = "walk" /\ new.pc # "idle" => ~Network!Updating(v)
        /\ new.pc \in Network!UpdatePc => ~Network!Walking(v)
  BY DEF ConfInv, WalksAlone, Network!Walking, Network!Updating, Network!At
<1> QED BY <1>1, ConfMove

LEMMA ConfObtainFails ==
  ASSUME Network!ConfAssumption, ConfInv, NEW u \in Users, Network!ObtainFails(u) PROVE ConfInv'
<1> USE DEF ConfInv
<1> DEFINE new == [call[u] EXCEPT !.pc = "idle", !.ring = Nothing, !.ret = "ERROR"]
<1>1. /\ call[u].pc = "obtain" /\ PlaceOf(call[u])
      /\ UNCHANGED <<netwib_priv_conf, rings, needtobeupdated, added, obtained,
                     confreaders, confwriter>>
  BY DEF Network!ObtainFails, Network!At, ConfPlaces
<1>2. /\ new \in Calls /\ new.op = call[u].op /\ new.entry = call[u].entry
      /\ new.pc = "idle"
  BY <1>1 DEF ConfTypes, Calls, Network!UpdatePc, Network!ReadPc
<1>3. call' = [call EXCEPT ![u] = new]
  BY DEF Network!ObtainFails, Network!Returns, ConfTypes
<1> HIDE DEF new
<1>4. PlaceOf(new)
  BY <1>1, <1>2 DEF PlaceOf, PlaceIn, Held, Network!UpdatePc
<1>5. ConfLocked'
  BY <1>1, <1>2, <1>3 DEF ConfTypes, ConfLocked
<1>6. confreaders' \subseteq Users /\ confwriter' \in Users \cup {Nothing}
  BY <1>1 DEF ConfTypes
<1> QED BY <1>1, <1>2, <1>3, <1>4, <1>5, <1>6, ConfStep DEF Held, Network!UpdatePc, Holds

LEMMA ConfSwapBegins ==
  ASSUME Network!ConfAssumption, ConfInv, NEW u \in Users, Network!SwapBegins(u) PROVE ConfInv'
<1> USE DEF ConfInv
<1> DEFINE new == [call[u] EXCEPT !.pc = "swap", !.ring = call[u].ring]
<1>1. /\ call[u].pc = "wrlock" /\ PlaceOf(call[u])
      /\ confwriter = Nothing /\ confreaders = {} /\ confwriter' = u /\ confreaders' = confreaders
      /\ UNCHANGED <<netwib_priv_conf, rings, needtobeupdated, added, obtained>>
  BY DEF Network!SwapBegins, Network!At, ConfPlaces, Network!Lock!WriteBegins
<1>2. /\ new \in Calls /\ new.op = call[u].op /\ new.entry = call[u].entry
      /\ new.pc = "swap" /\ new.ring = call[u].ring
  BY <1>1 DEF ConfTypes, Calls, Network!UpdatePc, Network!ReadPc
<1>3. call' = [call EXCEPT ![u] = new]
  BY DEF Network!SwapBegins, Network!Goes, ConfTypes
<1> HIDE DEF new
<1>4. PlaceOf(new)
  BY <1>1, <1>2 DEF PlaceOf, PlaceIn, Held, Network!UpdatePc
<1>5. ConfLocked'
  BY <1>1, <1>2, <1>3 DEF ConfTypes, ConfLocked, Network!ConfAssumption
<1>6. confreaders' \subseteq Users /\ confwriter' \in Users \cup {Nothing}
  BY <1>1 DEF ConfTypes
<1> QED BY <1>1, <1>2, <1>3, <1>4, <1>5, <1>6, ConfStep DEF Held, Network!UpdatePc, Holds

LEMMA ConfOpen ==
  ASSUME Network!ConfAssumption, ConfInv, NEW u \in Users, Network!Open(u) PROVE ConfInv'
<1> USE DEF ConfInv
<1> DEFINE new == [call[u] EXCEPT !.pc = "walk", !.ring = netwib_priv_conf]
<1>1. /\ call[u].pc = "open" /\ PlaceOf(call[u])
      /\ UNCHANGED <<netwib_priv_conf, rings, needtobeupdated, added, obtained,
                     confreaders, confwriter>>
  BY DEF Network!Open, Network!At, ConfPlaces
<1>2. /\ new \in Calls /\ new.op = call[u].op /\ new.entry = call[u].entry
      /\ new.pc = "walk" /\ new.ring = netwib_priv_conf
  BY <1>1 DEF ConfTypes, Calls, Network!UpdatePc, Network!ReadPc
<1>3. call' = [call EXCEPT ![u] = new]
  BY DEF Network!Open, Network!Goes, ConfTypes
<1> HIDE DEF new
<1>4. PlaceOf(new)
  BY <1>1, <1>2 DEF PlaceOf, PlaceIn, Held, Network!UpdatePc
<1>5. ConfLocked'
  BY <1>1, <1>2, <1>3 DEF ConfTypes, ConfLocked
<1>6. confreaders' \subseteq Users /\ confwriter' \in Users \cup {Nothing}
  BY <1>1 DEF ConfTypes
<1> QED BY <1>1, <1>2, <1>3, <1>4, <1>5, <1>6, ConfStep DEF Held, Network!UpdatePc, Holds

LEMMA ConfNextBegins ==
  ASSUME Network!ConfAssumption, ConfInv, NEW u \in Users, Network!NextBegins(u) PROVE ConfInv'
<1> USE DEF ConfInv
<1> DEFINE new == [call[u] EXCEPT !.pc = "read", !.ring = call[u].ring]
<1>1. /\ call[u].pc = "walk" /\ PlaceOf(call[u])
      /\ confwriter = Nothing /\ confwriter' = confwriter /\ confreaders' = confreaders \cup {u}
      /\ UNCHANGED <<netwib_priv_conf, rings, needtobeupdated, added, obtained>>
  BY DEF Network!NextBegins, Network!At, ConfPlaces, Network!Lock!ReadBegins
<1>2. /\ new \in Calls /\ new.op = call[u].op /\ new.entry = call[u].entry
      /\ new.pc = "read" /\ new.ring = call[u].ring
  BY <1>1 DEF ConfTypes, Calls, Network!UpdatePc, Network!ReadPc
<1>3. call' = [call EXCEPT ![u] = new]
  BY DEF Network!NextBegins, Network!Goes, ConfTypes
<1> HIDE DEF new
<1>4. PlaceOf(new)
  BY <1>1, <1>2 DEF PlaceOf, PlaceIn, Held, Network!UpdatePc
<1>5. ConfLocked'
  BY <1>1, <1>2, <1>3 DEF ConfTypes, ConfLocked, Network!ConfAssumption
<1>6. confreaders' \subseteq Users /\ confwriter' \in Users \cup {Nothing}
  BY <1>1 DEF ConfTypes
<1> QED BY <1>1, <1>2, <1>3, <1>4, <1>5, <1>6, ConfStep DEF Held, Network!UpdatePc, Holds

LEMMA ConfIndexClose ==
  ASSUME Network!ConfAssumption, ConfInv, NEW u \in Users, Network!IndexClose(u) PROVE ConfInv'
<1> USE DEF ConfInv
<1> DEFINE new == [call[u] EXCEPT !.pc = "idle", !.ring = Nothing, !.ret = "OK"]
<1>1. /\ call[u].pc = "walk" /\ PlaceOf(call[u])
      /\ UNCHANGED <<netwib_priv_conf, rings, needtobeupdated, added, obtained,
                     confreaders, confwriter>>
  BY DEF Network!IndexClose, Network!At, ConfPlaces
<1>2. /\ new \in Calls /\ new.op = call[u].op /\ new.entry = call[u].entry
      /\ new.pc = "idle"
  BY <1>1 DEF ConfTypes, Calls, Network!UpdatePc, Network!ReadPc
<1>3. call' = [call EXCEPT ![u] = new]
  BY DEF Network!IndexClose, Network!Returns, ConfTypes
<1> HIDE DEF new
<1>4. PlaceOf(new)
  BY <1>1, <1>2 DEF PlaceOf, PlaceIn, Held, Network!UpdatePc
<1>5. ConfLocked'
  BY <1>1, <1>2, <1>3 DEF ConfTypes, ConfLocked
<1>6. confreaders' \subseteq Users /\ confwriter' \in Users \cup {Nothing}
  BY <1>1 DEF ConfTypes
<1> QED BY <1>1, <1>2, <1>3, <1>4, <1>5, <1>6, ConfStep DEF Held, Network!UpdatePc, Holds

LEMMA ConfFindBegins ==
  ASSUME Network!ConfAssumption, ConfInv, NEW u \in Users, Network!FindBegins(u) PROVE ConfInv'
<1> USE DEF ConfInv
<1> DEFINE new == [call[u] EXCEPT !.pc = "found", !.ring = netwib_priv_conf]
<1>1. /\ call[u].pc = "search" /\ PlaceOf(call[u])
      /\ confwriter = Nothing /\ confwriter' = confwriter /\ confreaders' = confreaders \cup {u}
      /\ UNCHANGED <<netwib_priv_conf, rings, needtobeupdated, added, obtained>>
  BY DEF Network!FindBegins, Network!At, ConfPlaces, Network!Lock!ReadBegins
<1>2. /\ new \in Calls /\ new.op = call[u].op /\ new.entry = call[u].entry
      /\ new.pc = "found" /\ new.ring = netwib_priv_conf
  BY <1>1 DEF ConfTypes, Calls, Network!UpdatePc, Network!ReadPc
<1>3. call' = [call EXCEPT ![u] = new]
  BY DEF Network!FindBegins, Network!Goes, ConfTypes
<1> HIDE DEF new
<1>4. PlaceOf(new)
  BY <1>1, <1>2 DEF PlaceOf, PlaceIn, Held, Network!UpdatePc
<1>5. ConfLocked'
  BY <1>1, <1>2, <1>3 DEF ConfTypes, ConfLocked, Network!ConfAssumption
<1>6. confreaders' \subseteq Users /\ confwriter' \in Users \cup {Nothing}
  BY <1>1 DEF ConfTypes
<1> QED BY <1>1, <1>2, <1>3, <1>4, <1>5, <1>6, ConfStep DEF Held, Network!UpdatePc, Holds

LEMMA ConfDevnumBegins ==
  ASSUME Network!ConfAssumption, ConfInv, NEW u \in Users, Network!DevnumBegins(u) PROVE ConfInv'
<1> USE DEF ConfInv
<1> DEFINE new == [call[u] EXCEPT !.pc = "devices", !.ring = netwib_priv_conf]
<1>1. /\ call[u].pc = "devnum" /\ PlaceOf(call[u])
      /\ confwriter = Nothing /\ confwriter' = confwriter /\ confreaders' = confreaders \cup {u}
      /\ UNCHANGED <<netwib_priv_conf, rings, needtobeupdated, added, obtained>>
  BY DEF Network!DevnumBegins, Network!At, ConfPlaces, Network!Lock!ReadBegins
<1>2. /\ new \in Calls /\ new.op = call[u].op /\ new.entry = call[u].entry
      /\ new.pc = "devices" /\ new.ring = netwib_priv_conf
  BY <1>1 DEF ConfTypes, Calls, Network!UpdatePc, Network!ReadPc
<1>3. call' = [call EXCEPT ![u] = new]
  BY DEF Network!DevnumBegins, Network!Goes, ConfTypes
<1> HIDE DEF new
<1>4. PlaceOf(new)
  BY <1>1, <1>2 DEF PlaceOf, PlaceIn, Held, Network!UpdatePc
<1>5. ConfLocked'
  BY <1>1, <1>2, <1>3 DEF ConfTypes, ConfLocked, Network!ConfAssumption
<1>6. confreaders' \subseteq Users /\ confwriter' \in Users \cup {Nothing}
  BY <1>1 DEF ConfTypes
<1> QED BY <1>1, <1>2, <1>3, <1>4, <1>5, <1>6, ConfStep DEF Held, Network!UpdatePc, Holds

LEMMA ConfDevnumEnds ==
  ASSUME Network!ConfAssumption, ConfInv, NEW u \in Users, Network!DevnumEnds(u) PROVE ConfInv'
<1> USE DEF ConfInv
<1> DEFINE new == [call[u] EXCEPT !.pc = "add", !.ring = Nothing]
<1>1. /\ call[u].pc = "devices" /\ PlaceOf(call[u])
      /\ u \in confreaders /\ confwriter' = confwriter /\ confreaders' = confreaders \ {u}
      /\ UNCHANGED <<netwib_priv_conf, rings, needtobeupdated, added, obtained>>
  BY DEF Network!DevnumEnds, Network!At, ConfPlaces, Network!Lock!ReadEnds
<1>2. /\ new \in Calls /\ new.op = call[u].op /\ new.entry = call[u].entry
      /\ new.pc = "add"
  BY <1>1 DEF ConfTypes, Calls, Network!UpdatePc, Network!ReadPc
<1>3. call' = [call EXCEPT ![u] = new]
  BY DEF Network!DevnumEnds, Network!Goes, ConfTypes
<1> HIDE DEF new
<1>4. PlaceOf(new)
  BY <1>1, <1>2 DEF PlaceOf, PlaceIn, Held, Network!UpdatePc
<1>5. ConfLocked'
  BY <1>1, <1>2, <1>3 DEF ConfTypes, ConfLocked
<1>6. confreaders' \subseteq Users /\ confwriter' \in Users \cup {Nothing}
  BY <1>1 DEF ConfTypes
<1> QED BY <1>1, <1>2, <1>3, <1>4, <1>5, <1>6, ConfStep DEF Held, Network!UpdatePc, Holds

LEMMA ConfAddBegins ==
  ASSUME Network!ConfAssumption, ConfInv, NEW u \in Users, Network!AddBegins(u) PROVE ConfInv'
<1> USE DEF ConfInv
<1> DEFINE new == [call[u] EXCEPT !.pc = "append", !.ring = netwib_priv_conf]
<1>1. /\ call[u].pc = "add" /\ PlaceOf(call[u])
      /\ confwriter = Nothing /\ confreaders = {} /\ confwriter' = u /\ confreaders' = confreaders
      /\ UNCHANGED <<netwib_priv_conf, rings, needtobeupdated, added, obtained>>
      /\ Len(rings[netwib_priv_conf]) < TableMax
  BY DEF Network!AddBegins, Network!At, ConfPlaces, Network!Lock!WriteBegins
<1>2. /\ new \in Calls /\ new.op = call[u].op /\ new.entry = call[u].entry
      /\ new.pc = "append" /\ new.ring = netwib_priv_conf
  BY <1>1 DEF ConfTypes, Calls, Network!UpdatePc, Network!ReadPc
<1>3. call' = [call EXCEPT ![u] = new]
  BY DEF Network!AddBegins, Network!Goes, ConfTypes
<1> HIDE DEF new
<1>4. PlaceOf(new)
  BY <1>1, <1>2 DEF PlaceOf, PlaceIn, Held, Network!UpdatePc
<1>5. ConfLocked'
  BY <1>1, <1>2, <1>3 DEF ConfTypes, ConfLocked, Network!ConfAssumption
<1>6. confreaders' \subseteq Users /\ confwriter' \in Users \cup {Nothing}
  BY <1>1 DEF ConfTypes
<1> QED BY <1>1, <1>2, <1>3, <1>4, <1>5, <1>6, ConfStep DEF Held, Network!UpdatePc, Holds

\* A walk goes on to the next entry, or ends.
LEMMA ConfNextEnds ==
  ASSUME Network!ConfAssumption, ConfInv, NEW u \in Users, Network!NextEnds(u) PROVE ConfInv'
<1> USE DEF ConfInv
<1>1. /\ call[u].pc = "read" /\ PlaceOf(call[u])
      /\ u \in confreaders /\ confwriter' = confwriter /\ confreaders' = confreaders \ {u}
      /\ UNCHANGED <<netwib_priv_conf, rings, needtobeupdated, added, obtained>>
  BY DEF Network!NextEnds, Network!At, ConfPlaces, Network!Lock!ReadEnds
<1>2. PICK new \in Calls :
        /\ new.op = call[u].op /\ new.entry = call[u].entry
        /\ new.pc = "idle" \/ (new.pc = "walk" /\ new.ring = call[u].ring)
        /\ call' = [call EXCEPT ![u] = new]
  <2>1. CASE call[u].pos < Len(rings[call[u].ring])
    <3> DEFINE new == [call[u] EXCEPT !.pc = "walk", !.pos = @ + 1]
    <3>1. Len(rings[call[u].ring]) <= TableMax /\ Len(rings[call[u].ring]) \in Nat
      <4>1. rings[netwib_priv_conf] \in Tables
        BY DEF ConfTypes, ConfRings
      <4> QED BY <1>1, <4>1 DEF PlaceOf, PlaceIn, Tables
    <3>2. call[u].pos + 1 \in 0 .. TableMax
      BY <2>1, <3>1 DEF ConfTypes, Calls, Network!ConfAssumption
    <3>3. /\ new \in Calls /\ new.op = call[u].op /\ new.entry = call[u].entry
          /\ new.pc = "walk" /\ new.ring = call[u].ring
      BY <3>2 DEF ConfTypes, Calls
    <3>4. call' = [call EXCEPT ![u] = new]
      BY <2>1 DEF Network!NextEnds, ConfTypes
    <3> QED BY <3>3, <3>4
  <2>2. CASE ~(call[u].pos < Len(rings[call[u].ring]))
    <3> DEFINE new == [call[u] EXCEPT !.pc = "idle", !.ring = Nothing, !.ret = "DATAEND"]
    <3>1. /\ new \in Calls /\ new.op = call[u].op /\ new.entry = call[u].entry
          /\ new.pc = "idle"
      BY DEF ConfTypes, Calls
    <3>2. call' = [call EXCEPT ![u] = new]
      BY <2>2 DEF Network!NextEnds, Network!Returns, ConfTypes
    <3> QED BY <3>1, <3>2
  <2> QED BY <2>1, <2>2
<1>3. PlaceOf(new)
  BY <1>1, <1>2 DEF PlaceOf, PlaceIn, Held, Network!UpdatePc
<1>4. ConfLocked'
  BY <1>1, <1>2 DEF ConfTypes, ConfLocked
<1>5. confreaders' \subseteq Users /\ confwriter' \in Users \cup {Nothing}
  BY <1>1 DEF ConfTypes
<1> QED BY <1>1, <1>2, <1>3, <1>4, <1>5, ConfStep DEF Held, Network!UpdatePc, Holds

\* An entry is found, or will be asked elsewhere.
LEMMA ConfFind ==
  ASSUME Network!ConfAssumption, ConfInv, NEW u \in Users, Network!Find(u) PROVE ConfInv'
<1> USE DEF ConfInv
<1>1. /\ call[u].pc = "found" /\ PlaceOf(call[u])
      /\ u \in confreaders /\ confwriter' = confwriter /\ confreaders' = confreaders \ {u}
      /\ UNCHANGED <<netwib_priv_conf, rings, needtobeupdated, added, obtained>>
  BY DEF Network!Find, Network!At, ConfPlaces, Network!Lock!ReadEnds
<1>2. PICK new \in Calls :
        /\ new.op = call[u].op /\ new.entry = call[u].entry /\ new.pc \in {"idle", "query"}
        /\ call' = [call EXCEPT ![u] = new]
  <2>1. CASE Network!Returns(u, "OK")
    <3> DEFINE new == [call[u] EXCEPT !.pc = "idle", !.ring = Nothing, !.ret = "OK"]
    <3>1. /\ new \in Calls /\ new.op = call[u].op /\ new.entry = call[u].entry
          /\ new.pc = "idle"
      BY DEF ConfTypes, Calls
    <3>2. call' = [call EXCEPT ![u] = new]
      BY <2>1 DEF Network!Returns, ConfTypes
    <3> QED BY <3>1, <3>2
  <2>2. CASE Network!Goes(u, "query", Nothing)
    <3> DEFINE new == [call[u] EXCEPT !.pc = "query", !.ring = Nothing]
    <3>1. /\ new \in Calls /\ new.op = call[u].op /\ new.entry = call[u].entry
          /\ new.pc = "query"
      BY DEF ConfTypes, Calls
    <3>2. call' = [call EXCEPT ![u] = new]
      BY <2>2 DEF Network!Goes, ConfTypes
    <3> QED BY <3>1, <3>2
  <2> QED BY <2>1, <2>2 DEF Network!Find
<1>3. PlaceOf(new)
  BY <1>1, <1>2 DEF PlaceOf, PlaceIn, Held, Network!UpdatePc
<1>4. ConfLocked'
  BY <1>1, <1>2 DEF ConfTypes, ConfLocked
<1>5. confreaders' \subseteq Users /\ confwriter' \in Users \cup {Nothing}
  BY <1>1 DEF ConfTypes
<1> QED BY <1>1, <1>2, <1>3, <1>4, <1>5, ConfStep DEF Held, Network!UpdatePc, Holds

LEMMA ConfQuery ==
  ASSUME Network!ConfAssumption, ConfInv, NEW u \in Users, Network!Query(u) PROVE ConfInv'
<1> USE DEF ConfInv
<1>1. /\ call[u].pc = "query" /\ PlaceOf(call[u])
      /\ UNCHANGED <<netwib_priv_conf, rings, needtobeupdated, added, obtained,
                     confreaders, confwriter>>
  BY DEF Network!Query, Network!At, ConfPlaces
<1>2. PICK new \in Calls :
        /\ new.op = call[u].op /\ new.entry = call[u].entry /\ new.pc \in {"idle", "devnum"}
        /\ call' = [call EXCEPT ![u] = new]
  <2>1. CASE Network!Returns(u, "NOTCONVERTED")
    <3> DEFINE new == [call[u] EXCEPT !.pc = "idle", !.ring = Nothing, !.ret = "NOTCONVERTED"]
    <3>1. /\ new \in Calls /\ new.op = call[u].op /\ new.entry = call[u].entry
          /\ new.pc = "idle"
      BY DEF ConfTypes, Calls
    <3>2. call' = [call EXCEPT ![u] = new]
      BY <2>1 DEF Network!Returns, ConfTypes
    <3> QED BY <3>1, <3>2
  <2>2. CASE Network!Goes(u, "devnum", call[u].ring)
    <3> DEFINE new == [call[u] EXCEPT !.pc = "devnum", !.ring = call[u].ring]
    <3>1. /\ new \in Calls /\ new.op = call[u].op /\ new.entry = call[u].entry
          /\ new.pc = "devnum"
      BY DEF ConfTypes, Calls
    <3>2. call' = [call EXCEPT ![u] = new]
      BY <2>2 DEF Network!Goes, ConfTypes
    <3> QED BY <3>1, <3>2
  <2> QED BY <2>1, <2>2 DEF Network!Query
<1>3. new.pc = "devnum" => new.op \in {"find", "add"}
  BY <1>1, <1>2 DEF PlaceOf, PlaceIn
<1>4. PlaceOf(new)
  BY <1>1, <1>2, <1>3 DEF PlaceOf, PlaceIn, Held, Network!UpdatePc
<1>5. ConfLocked'
  BY <1>1, <1>2 DEF ConfTypes, ConfLocked
<1>6. confreaders' \subseteq Users /\ confwriter' \in Users \cup {Nothing}
  BY <1>1 DEF ConfTypes
<1> QED BY <1>1, <1>2, <1>4, <1>5, <1>6, ConfStep DEF Held, Network!UpdatePc, Holds

\* A call begins under the rule that is enough.
LEMMA ConfCall ==
  ASSUME Network!ConfAssumption, ~AsDocumented, ConfInv, NEW u \in Users,
         NEW op \in {"walk", "update", "find", "add"}, NEW e \in Entry \cup {Nothing},
         op \in {"find", "add"} => e \in Entry, Network!Call(u, op, e)
  PROVE  ConfInv'
<1> USE DEF ConfInv
<1> DEFINE new == [Network!Idle EXCEPT !.pc = Network!FirstPc(op), !.op = op, !.entry = e]
<1>1. /\ call[u].pc = "idle" /\ call' = [call EXCEPT ![u] = new]
      /\ Network!UserTakesCare(u, op)
      /\ UNCHANGED <<netwib_priv_conf, rings, needtobeupdated, added, obtained,
                     confreaders, confwriter>>
  BY DEF Network!Call, Network!At
<1>2. /\ Network!FirstPc(op) = "obtain" => op # "add"
      /\ Network!FirstPc(op) = "open" => op = "walk" /\ ~needtobeupdated
      /\ Network!FirstPc(op) = "search" => op = "find" /\ ~needtobeupdated
      /\ Network!FirstPc(op) = "devnum" => op = "add"
      /\ Network!FirstPc(op) \in {"obtain", "open", "search", "devnum"}
  BY DEF Network!FirstPc, Network!Start
<1>3. /\ new \in Calls /\ new.op = op /\ new.entry = e /\ new.pc = Network!FirstPc(op)
  <2>1. Network!Idle \in Calls /\ Network!Idle.pc = "idle"
    BY DEF Calls, Network!Idle, Network!ConfAssumption
  <2> QED BY <1>2, <2>1 DEF Calls, Network!UpdatePc
<1> HIDE DEF new
<1>4. PlaceOf(new)
  BY <1>2, <1>3 DEF PlaceOf, PlaceIn, Held, Network!UpdatePc, ConfRings
<1>5. ConfLocked'
  BY <1>1, <1>2, <1>3 DEF ConfTypes, ConfLocked
<1>6. \A v \in Users \ {u} :
        /\ new.op = "walk" /\ new.pc # "idle" => ~Network!Updating(v)
        /\ new.pc \in Network!UpdatePc => ~Network!Walking(v)
  BY <1>1, <1>2, <1>3 DEF Network!UserTakesCare, Network!UpdatePc
<1>7. confreaders' \subseteq Users /\ confwriter' \in Users \cup {Nothing}
  BY <1>1 DEF ConfTypes
<1> QED BY <1>1, <1>2, <1>3, <1>4, <1>5, <1>6, <1>7, ConfMove DEF Held, Holds

-----------------------------------------------------------------------------
(* An update, and an addition *)

\* What stays true of the other calls when the rings change.
LEMMA PlacesStay ==
  ASSUME ConfInv, NEW u \in Users, NEW new \in Calls, call' = [call EXCEPT ![u] = new],
         StillPlace(new), \A v \in Users \ {u} : PlaceOf(call[v]) => StillPlace(call[v])
  PROVE  ConfPlaces'
<1>1. \A v \in Users : v # u => call'[v] = call[v]
  BY DEF ConfInv, ConfTypes
<1>2. call'[u] = new
  BY DEF ConfInv, ConfTypes
<1> QED BY <1>1, <1>2 DEF ConfPlaces, ConfInv, PlaceOf, StillPlace

LEMMA WalksStay ==
  ASSUME ConfInv, NEW u \in Users, NEW new \in Calls, call' = [call EXCEPT ![u] = new],
         new.op = call[u].op, call[u].pc # "idle",
         new.pc \in Network!UpdatePc => call[u].pc \in Network!UpdatePc
  PROVE  WalksAlone'
<1>1. \A v \in Users : v # u => call'[v] = call[v]
  BY DEF ConfInv, ConfTypes
<1>2. call'[u] = new
  BY DEF ConfInv, ConfTypes
<1> QED BY <1>1, <1>2 DEF ConfInv, WalksAlone, Network!Walking, Network!Updating, Network!At

\* The ring that is obtained was free, so that nobody uses it.
LEMMA ConfObtain ==
  ASSUME Network!ConfAssumption, ConfInv, NEW u \in Users, NEW table \in SystemTables,
         NEW b \in Block, Network!Obtain(u, table, b)
  PROVE  ConfInv'
<1> USE DEF ConfInv
<1> DEFINE new == [call[u] EXCEPT !.pc = "wrlock", !.ring = b]
<1>1. /\ call[u].pc = "obtain" /\ PlaceOf(call[u]) /\ rings[b] = Nothing
      /\ rings' = [rings EXCEPT ![b] = table] /\ obtained' = obtained \union {b}
      /\ UNCHANGED <<netwib_priv_conf, needtobeupdated, added, confreaders, confwriter>>
  BY DEF Network!Obtain, Network!At, ConfPlaces
<1>2. /\ new \in Calls /\ new.op = call[u].op /\ new.entry = call[u].entry
      /\ new.pc = "wrlock" /\ new.ring = b
  BY <1>1 DEF ConfTypes, Calls, Network!UpdatePc
<1>3. call' = [call EXCEPT ![u] = new]
  BY DEF Network!Obtain, Network!Goes, ConfTypes
<1> HIDE DEF new
<1>4. /\ b # netwib_priv_conf /\ \A v \in Users : Holds(v) => call[v].ring # b
      /\ table \in Tables /\ table # Nothing
      /\ rings'[netwib_priv_conf] = rings[netwib_priv_conf]
  BY <1>1, TablesAre DEF ConfRings, ConfTypes
<1>5. ConfTypes'
  BY <1>1, <1>2, <1>3, <1>4 DEF ConfTypes
<1>6. ConfLocked'
  BY <1>1, <1>2, <1>3 DEF ConfTypes, ConfLocked
<1>7. ConfPlaces'
  <2>1. StillPlace(new)
    BY <1>1, <1>2, <1>4 DEF PlaceOf, StillPlace, PlaceIn, Held, Network!UpdatePc
  <2>2. \A v \in Users \ {u} : PlaceOf(call[v]) => StillPlace(call[v])
    BY <1>1, <1>2, <1>3, <1>4 DEF PlaceOf, StillPlace, PlaceIn, ConfTypes
  <2> QED BY <1>2, <1>3, <2>1, <2>2, PlacesStay
<1>8. /\ \A v \in Users : v # u => call'[v] = call[v]
      /\ call'[u] = new
      /\ \A v \in Users : Holds(v)' <=> Holds(v) \/ v = u
  BY <1>1, <1>2, <1>3 DEF ConfTypes, Holds, Held
<1>9. ConfRings'
  <2>1. \A c \in Block : rings'[c] # Nothing <=> rings[c] # Nothing \/ c = b
    BY <1>1, <1>4 DEF ConfTypes
  <2>2. \A c \in Block : rings'[c] # Nothing <=>
          c = netwib_priv_conf \/ \E v \in Users : Holds(v)' /\ call'[v].ring = c
    BY <1>1, <1>2, <1>8, <2>1 DEF ConfRings, Holds, Held
  <2>3. \A v, w \in Users : v # w /\ Holds(v)' /\ Holds(w)' => call'[v].ring # call'[w].ring
    BY <1>2, <1>4, <1>8 DEF ConfRings
  <2> QED BY <1>1, <1>4, <2>2, <2>3 DEF ConfRings
<1>10. WalksAlone'
  BY <1>1, <1>2, <1>3, WalksStay DEF Network!UpdatePc
<1> QED BY <1>5, <1>6, <1>7, <1>9, <1>10

\* The new ring and the old one are exchanged: whoever else uses the current
\* ring would walk, and none does, or have the lock.
LEMMA ConfSwap ==
  ASSUME Network!ConfAssumption, ConfInv, NEW u \in Users, Network!Swap(u) PROVE ConfInv'
<1> USE DEF ConfInv
<1> DEFINE new == [call[u] EXCEPT !.pc = "updated", !.ring = netwib_priv_conf]
           b == call[u].ring
<1>1. /\ call[u].pc = "swap" /\ PlaceOf(call[u]) /\ netwib_priv_conf' = b /\ added' = {}
      /\ UNCHANGED <<rings, needtobeupdated, obtained, confreaders, confwriter>>
  BY DEF Network!Swap, Network!At, ConfPlaces
<1>2. /\ new \in Calls /\ new.op = call[u].op /\ new.entry = call[u].entry
      /\ new.pc = "updated" /\ new.ring = netwib_priv_conf
  BY <1>1 DEF ConfTypes, Calls, Network!UpdatePc
<1>3. call' = [call EXCEPT ![u] = new]
  BY DEF Network!Swap, Network!Goes, ConfTypes
<1>4. /\ b \in Block /\ b # netwib_priv_conf /\ b \in obtained /\ Holds(u)
      /\ \A v \in Users : v # u /\ Holds(v) => call[v].ring # b
  BY <1>1 DEF PlaceOf, StillPlace, PlaceIn, Held, ConfRings, Holds
<1> HIDE DEF new, b
<1>5. ConfTypes'
  BY <1>1, <1>2, <1>3, <1>4 DEF ConfTypes
<1>6. ConfLocked'
  BY <1>1, <1>2, <1>3 DEF ConfTypes, ConfLocked
<1>7. ConfPlaces'
  <2>1. StillPlace(new)
    BY <1>1, <1>2, <1>4 DEF ConfTypes, PlaceOf, StillPlace, PlaceIn, Held, Network!UpdatePc
  <2>2. ASSUME NEW v \in Users \ {u}, PlaceOf(call[v]) PROVE StillPlace(call[v])
    <3>1. confwriter = u /\ confreaders = {}
      BY <1>1 DEF ConfLocked, ConfTypes, Network!ConfAssumption
    <3>2. call[v].pc \notin {"read", "found", "devices", "append"}
      BY <3>1 DEF ConfLocked
    <3>3. call[v].pc # "walk"
      <4>1. Network!Updating(u)
        BY <1>1 DEF Network!Updating, Network!UpdatePc
      <4>2. call[v].pc = "walk" => Network!Walking(v)
        BY <2>2 DEF PlaceOf, StillPlace, PlaceIn, Network!Walking, Network!At
      <4> QED BY <4>1, <4>2 DEF WalksAlone
    <3>4. call[v].pc \in Held => call[v].ring # b
      BY <1>4 DEF Holds
    <3> QED BY <1>1, <1>4, <2>2, <3>2, <3>3, <3>4 DEF PlaceOf, StillPlace, PlaceIn
  <2> QED BY <1>2, <1>3, <2>1, <2>2, PlacesStay
<1>8. /\ \A v \in Users : v # u => call'[v] = call[v]
      /\ call'[u] = new
      /\ \A v \in Users : Holds(v)' <=> Holds(v)
  BY <1>1, <1>2, <1>3, <1>4 DEF ConfTypes, Holds, Held
<1>9. ConfRings'
  <2>1. \A v \in Users : Holds(v) => call[v].ring # netwib_priv_conf
    BY DEF ConfPlaces, PlaceOf, PlaceIn, Holds
  <2>2. \A c \in Block : rings'[c] # Nothing <=>
          c = netwib_priv_conf' \/ \E v \in Users : Holds(v)' /\ call'[v].ring = c
    <3>1. ASSUME NEW c \in Block
          PROVE  c = netwib_priv_conf \/ (\E v \in Users : Holds(v) /\ call[v].ring = c) <=>
                 c = b \/ \E v \in Users : Holds(v)' /\ call'[v].ring = c
      <4>1. call'[u].ring = netwib_priv_conf /\ call[u].ring = b
        BY <1>2, <1>8 DEF b
      <4> QED BY <1>4, <1>8, <4>1
    <3> QED BY <1>1, <3>1 DEF ConfRings
  <2>3. \A v, w \in Users : v # w /\ Holds(v)' /\ Holds(w)' => call'[v].ring # call'[w].ring
    BY <1>2, <1>8, <2>1 DEF ConfRings
  <2> QED BY <1>1, <1>4, <2>2, <2>3 DEF ConfRings
<1>10. WalksAlone'
  BY <1>1, <1>2, <1>3, WalksStay DEF Network!UpdatePc
<1> QED BY <1>5, <1>6, <1>7, <1>9, <1>10

LEMMA ConfSwapEnds ==
  ASSUME Network!ConfAssumption, ConfInv, NEW u \in Users, Network!SwapEnds(u) PROVE ConfInv'
<1> USE DEF ConfInv
<1> DEFINE new == [call[u] EXCEPT !.pc = "close", !.ring = call[u].ring]
<1>1. /\ call[u].pc = "updated" /\ PlaceOf(call[u]) /\ needtobeupdated' = FALSE
      /\ confwriter = u /\ confwriter' = Nothing
      /\ UNCHANGED <<netwib_priv_conf, rings, added, obtained, confreaders>>
  BY DEF Network!SwapEnds, Network!At, ConfPlaces, Network!Lock!WriteEnds
<1>2. /\ new \in Calls /\ new.op = call[u].op /\ new.entry = call[u].entry
      /\ new.pc = "close" /\ new.ring = call[u].ring
  BY <1>1, ZenonT(60) DEF ConfTypes, Calls, Network!UpdatePc
<1>3. call' = [call EXCEPT ![u] = new]
  BY DEF Network!SwapEnds, Network!Goes, ConfTypes
<1> HIDE DEF new
<1>4. netwib_priv_conf \in obtained
  BY <1>1 DEF PlaceOf, StillPlace, PlaceIn
<1>5. ConfTypes'
  BY <1>1, <1>2, <1>3 DEF ConfTypes
<1>6. ConfLocked'
  BY <1>1, <1>2, <1>3 DEF ConfTypes, ConfLocked, Network!ConfAssumption
<1>7. ConfPlaces'
  <2>1. StillPlace(new)
    BY <1>1, <1>2 DEF PlaceOf, StillPlace, PlaceIn, Held, Network!UpdatePc
  <2>2. \A v \in Users \ {u} : PlaceOf(call[v]) => StillPlace(call[v])
    BY <1>1 DEF PlaceOf, StillPlace, PlaceIn
  <2> QED BY <1>2, <1>3, <2>1, <2>2, PlacesStay
<1>8. \A v \in Users : /\ Holds(v)' <=> Holds(v)
                       /\ call'[v].ring = call[v].ring
  BY <1>1, <1>2, <1>3 DEF ConfTypes, Holds, Held
<1>9. ConfRings'
  BY <1>1, <1>4, <1>8 DEF ConfRings
<1>10. WalksAlone'
  BY <1>1, <1>2, <1>3, WalksStay DEF Network!UpdatePc
<1> QED BY <1>5, <1>6, <1>7, <1>9, <1>10

\* The ring that was swapped out is freed: nobody uses it, nor holds it too.
LEMMA ConfCloseOld ==
  ASSUME Network!ConfAssumption, ConfInv, NEW u \in Users, Network!CloseOld(u) PROVE ConfInv'
<1> USE DEF ConfInv
<1> DEFINE op == call[u].op
           b == call[u].ring
           new == [call[u] EXCEPT !.pc = Network!Start(op), !.ring = Nothing]
<1>1. /\ call[u].pc = "close" /\ PlaceOf(call[u])
      /\ rings' = [rings EXCEPT ![b] = Nothing] /\ obtained' = obtained \ {b}
      /\ UNCHANGED <<netwib_priv_conf, needtobeupdated, added, confreaders, confwriter>>
  BY DEF Network!CloseOld, Network!At, ConfPlaces
<1>2. /\ \/ op = "walk" /\ Network!Start(op) = "open"
         \/ op = "find" /\ Network!Start(op) = "search"
         \/ op = "update" /\ Network!Start(op) = "idle"
      /\ op = "find" => call[u].entry \in Entry
  BY <1>1 DEF Network!Start, PlaceOf, PlaceIn, Network!UpdatePc
<1>3. /\ new \in Calls /\ new.op = op /\ new.entry = call[u].entry
      /\ new.pc = Network!Start(op)
  BY <1>2 DEF ConfTypes, Calls
<1>4. call' = [call EXCEPT ![u] = new]
  BY DEF Network!CloseOld, Network!Goes, ConfTypes
<1>5. /\ b \in Block /\ b # netwib_priv_conf /\ netwib_priv_conf \in obtained /\ Holds(u)
      /\ \A v \in Users : v # u /\ Holds(v) => call[v].ring # b
      /\ rings'[netwib_priv_conf] = rings[netwib_priv_conf]
  BY <1>1 DEF PlaceOf, PlaceIn, Held, ConfRings, Holds, ConfTypes
<1> HIDE DEF new, op, b
<1>6. ConfTypes'
  BY <1>1, <1>3, <1>4, <1>5 DEF ConfTypes
<1>7. ConfLocked'
  BY <1>1, <1>2, <1>3, <1>4 DEF ConfTypes, ConfLocked
<1>8. ConfPlaces'
  <2>1. StillPlace(new)
    BY <1>1, <1>2, <1>3, <1>5 DEF StillPlace, PlaceIn, Held, Network!UpdatePc
  <2>2. ASSUME NEW v \in Users \ {u}, PlaceOf(call[v]) PROVE StillPlace(call[v])
    <3>1. call[v].pc \in {"wrlock", "swap"} => call[v].ring # b
      BY <1>5 DEF Holds, Held
    <3> QED BY <1>1, <1>5, <2>2, <3>1 DEF PlaceOf, StillPlace, PlaceIn
  <2> QED BY <1>3, <1>4, <2>1, <2>2, PlacesStay
<1>9. /\ \A v \in Users : v # u => call'[v] = call[v]
      /\ call'[u] = new
      /\ \A v \in Users : Holds(v)' <=> Holds(v) /\ v # u
  BY <1>2, <1>3, <1>4 DEF ConfTypes, Holds, Held
<1>10. ConfRings'
  <2>1. \A c \in Block : rings'[c] # Nothing <=> rings[c] # Nothing /\ c # b
    BY <1>1 DEF ConfTypes
  <2>2. \A c \in Block : rings'[c] # Nothing <=>
          c = netwib_priv_conf \/ \E v \in Users : Holds(v)' /\ call'[v].ring = c
    BY <1>5, <1>9, <2>1 DEF ConfRings, b
  <2>3. \A v, w \in Users : v # w /\ Holds(v)' /\ Holds(w)' => call'[v].ring # call'[w].ring
    BY <1>9 DEF ConfRings
  <2> QED BY <1>1, <1>5, <2>2, <2>3 DEF ConfRings
<1>11. WalksAlone'
  BY <1>1, <1>2, <1>3, <1>4, WalksStay DEF Network!UpdatePc, op
<1> QED BY <1>6, <1>7, <1>8, <1>10, <1>11

LEMMA AppendToSet ==
  ASSUME NEW s \in Seq(Entry), NEW e \in Entry
  PROVE  /\ Append(s, e) \in Seq(Entry) /\ Len(Append(s, e)) = Len(s) + 1
         /\ Network!ToSet(Append(s, e)) = Network!ToSet(s) \cup {e}
<1>1. /\ Append(s, e) \in Seq(Entry) /\ Len(Append(s, e)) = Len(s) + 1
      /\ \A j \in 1 .. Len(s) : Append(s, e)[j] = s[j]
      /\ Append(s, e)[Len(s) + 1] = e
  OBVIOUS
<1>2. DOMAIN s = 1 .. Len(s) /\ DOMAIN Append(s, e) = 1 .. Len(s) + 1 /\ Len(s) \in Nat
  BY <1>1
<1>3. 1 .. Len(s) + 1 = (1 .. Len(s)) \cup {Len(s) + 1}
  BY <1>2
<1> QED BY <1>1, <1>2, <1>3 DEF Network!ToSet

\* The entry is added while nobody else has the lock, so that there is room.
LEMMA ConfAdd ==
  ASSUME Network!ConfAssumption, ConfInv, NEW u \in Users, Network!Add(u) PROVE ConfInv'
<1> USE DEF ConfInv
<1> DEFINE e == call[u].entry
           s == rings[netwib_priv_conf]
           new == [call[u] EXCEPT !.pc = "idle", !.ring = Nothing, !.ret = "OK"]
<1>1. /\ call[u].pc = "append" /\ PlaceOf(call[u]) /\ e \in Entry
      /\ rings' = [rings EXCEPT ![netwib_priv_conf] = Append(s, e)]
      /\ added' = added \union {e} /\ confwriter = u /\ confwriter' = Nothing
      /\ UNCHANGED <<netwib_priv_conf, needtobeupdated, obtained, confreaders>>
  BY DEF Network!Add, Network!At, ConfPlaces, PlaceOf, PlaceIn, Network!Lock!WriteEnds, ConfTypes
<1>2. /\ new \in Calls /\ new.op = call[u].op /\ new.entry = e /\ new.pc = "idle"
  BY DEF ConfTypes, Calls
<1>3. call' = [call EXCEPT ![u] = new]
  BY DEF Network!Add, Network!Returns, ConfTypes
<1>4. /\ s \in Tables /\ Append(s, e) \in Tables
      /\ Network!ToSet(Append(s, e)) = Network!ToSet(s) \cup {e}
  <2>1. s \in Tables
    BY DEF ConfTypes, ConfRings
  <2>2. Len(s) < TableMax
    BY <1>1 DEF PlaceOf, PlaceIn
  <2> QED BY <1>1, <2>1, <2>2, AppendToSet DEF Tables, Network!ConfAssumption
<1>5. \A c \in Block : rings'[c] # Nothing <=> rings[c] # Nothing
  BY <1>1, <1>4, TablesAre DEF ConfTypes
<1> HIDE DEF new
<1>6. ConfTypes'
  BY <1>1, <1>2, <1>3, <1>4 DEF ConfTypes
<1>7. ConfLocked'
  BY <1>1, <1>2, <1>3 DEF ConfTypes, ConfLocked, Network!ConfAssumption
<1>8. ConfPlaces'
  <2>1. StillPlace(new)
    BY <1>1, <1>2 DEF PlaceOf, StillPlace, PlaceIn, Held, Network!UpdatePc
  <2>2. \A v \in Users \ {u} : PlaceOf(call[v]) => StillPlace(call[v])
    BY <1>1 DEF PlaceOf, StillPlace, PlaceIn, ConfLocked
  <2> QED BY <1>2, <1>3, <2>1, <2>2, PlacesStay
<1>9. \A v \in Users : /\ Holds(v)' <=> Holds(v)
                       /\ Holds(v) => call'[v].ring = call[v].ring
  BY <1>1, <1>2, <1>3 DEF ConfTypes, Holds, Held
<1>10. ConfRings'
  <2>1. added' \subseteq Network!ToSet(rings'[netwib_priv_conf])
    BY <1>1, <1>4 DEF ConfTypes, ConfRings
  <2> QED BY <1>1, <1>5, <1>9, <2>1 DEF ConfRings
<1>11. WalksAlone'
  BY <1>1, <1>2, <1>3, WalksStay DEF Network!UpdatePc
<1> QED BY <1>6, <1>7, <1>8, <1>10, <1>11

-----------------------------------------------------------------------------
LEMMA ConfKeep ==
  ASSUME Network!ConfAssumption, ~AsDocumented, ConfInv, Network!Next PROVE ConfInv'
<1>1. PICK u \in Users :
        \/ \E op \in {"walk", "update"} : Network!Call(u, op, Nothing)
        \/ \E op \in {"find", "add"}, e \in Entry : Network!Call(u, op, e)
        \/ \E table \in SystemTables, b \in Block : Network!Obtain(u, table, b)
        \/ Network!ObtainFails(u) \/ Network!SwapBegins(u) \/ Network!Swap(u)
        \/ Network!SwapEnds(u) \/ Network!CloseOld(u)
        \/ Network!Open(u) \/ Network!NextBegins(u) \/ Network!NextEnds(u)
        \/ Network!IndexClose(u)
        \/ Network!FindBegins(u) \/ Network!Find(u) \/ Network!Query(u)
        \/ Network!DevnumBegins(u) \/ Network!DevnumEnds(u)
        \/ Network!AddBegins(u) \/ Network!Add(u)
  BY DEF Network!Next
<1>2. CASE \E op \in {"walk", "update"} : Network!Call(u, op, Nothing)
  BY <1>2, ConfCall
<1>3. CASE \E op \in {"find", "add"}, e \in Entry : Network!Call(u, op, e)
  BY <1>3, ConfCall
<1> QED
  BY <1>1, <1>2, <1>3, ConfObtain, ConfObtainFails, ConfSwapBegins, ConfSwap, ConfSwapEnds,
     ConfCloseOld, ConfOpen, ConfNextBegins, ConfNextEnds, ConfIndexClose, ConfFindBegins,
     ConfFind, ConfQuery, ConfDevnumBegins, ConfDevnumEnds, ConfAddBegins, ConfAdd

LEMMA ConfStay == ASSUME ConfInv, UNCHANGED confvars PROVE ConfInv'
BY DEF confvars, ConfInv, ConfTypes, ConfLocked, ConfPlaces, PlaceOf, PlaceIn, ConfRings, Holds,
       WalksAlone, Network!Walking, Network!Updating, Network!At

LEMMA ConfTrue ==
  ASSUME Network!ConfAssumption, ConfInv
  PROVE  Network!TypeOK /\ Network!NoFreedUse /\ Network!ConfIsTrue
<1> USE DEF ConfInv
<1>1. Network!TypeOK
  BY DEF Network!TypeOK, ConfTypes, Calls
<1>2. Network!NoFreedUse
  BY DEF Network!NoFreedUse, Network!Freed, Network!ReadPc, ConfPlaces, PlaceOf, PlaceIn,
         ConfRings, ConfTypes
<1>3. Network!UpdatePc \ {"obtain"} = Held
  BY DEF Network!UpdatePc, Held
<1>4. Network!InHand = {call[u].ring : u \in {v \in Users : Holds(v)}}
  BY <1>3 DEF Network!InHand, Holds
<1>5. \A u \in Users : Holds(u) => call[u].ring \in Block /\ call[u].ring # netwib_priv_conf
  BY DEF Holds, ConfPlaces, PlaceOf, PlaceIn
<1>6. {b \in Block : ~Network!Freed(b)} = {netwib_priv_conf} \union Network!InHand
  BY <1>4, <1>5 DEF Network!Freed, ConfRings, ConfTypes
<1>7. netwib_priv_conf \notin Network!InHand
  BY <1>4, <1>5
<1>8. \A u, v \in Users :
        u # v /\ {call[u].pc, call[v].pc} \subseteq Network!UpdatePc \ {"obtain"} =>
          call[u].ring # call[v].ring
  BY <1>3 DEF ConfRings, Holds
<1>9. \A u \in Users : call[u].pc \in {"read", "found"} => call[u].ring \in obtained
  BY DEF ConfPlaces, PlaceOf, PlaceIn
<1> QED BY <1>1, <1>2, <1>6, <1>7, <1>8, <1>9 DEF Network!ConfIsTrue, ConfRings

-----------------------------------------------------------------------------
(* The behaviours of MCLocks *)

SharedInv == NamesInv /\ ConfInv

LEMMA SharedInitially == ASSUME MCInit PROVE SharedInv
BY LocksAssumption, NamesInitially, ConfInitially DEF MCInit, SharedInv

LEMMA SharedKeep ==
  ASSUME ~AsDocumented, SharedInv, [MCNext]_allvars PROVE SharedInv'
<1>1. Names!Next \/ UNCHANGED namesvars
  BY DEF MCNext, allvars, sharedvars
<1>2. Network!Next \/ UNCHANGED confvars
  BY DEF MCNext, allvars, sharedvars
<1>3. NamesInv'
  BY <1>1, LocksAssumption, NamesKeep, NamesStay DEF SharedInv
<1>4. ConfInv'
  BY <1>2, LocksAssumption, ConfKeep, ConfStay DEF SharedInv
<1> QED BY <1>3, <1>4 DEF SharedInv

\* No thread reads an item of the cache of names, or a ring of the
\* configuration, that another one freed (dnscache.c:134-146, conf.c:252-257);
\* none is lost; the cache answers what the system gave, and the configuration
\* holds what was added to it: when nobody updates while another one walks.
THEOREM SharedIsTrue == ASSUME ~AsDocumented PROVE MCSpec => []CachesAreTrue
<1>1. SharedInv => CachesAreTrue
  BY LocksAssumption, NamesTrue, ConfTrue DEF SharedInv, CachesAreTrue
<1>2. MCInit => SharedInv
  BY SharedInitially
<1>3. SharedInv /\ [MCNext]_allvars => SharedInv'
  BY SharedKeep
<1> QED BY <1>1, <1>2, <1>3, PTL DEF MCSpec

-----------------------------------------------------------------------------
(* Lists of threads *)

LEMMA AppendIs ==
  ASSUME NEW S, NEW s \in Seq(S), NEW e \in S
  PROVE  /\ Append(s, e) \in Seq(S) /\ Len(Append(s, e)) = Len(s) + 1
         /\ \A j \in 1 .. Len(s) : Append(s, e)[j] = s[j]
         /\ Append(s, e)[Len(s) + 1] = e
OBVIOUS

LEMMA RemovedIs ==
  ASSUME NEW S, NEW s \in Seq(S), NEW i \in 1 .. Len(s),
         NEW r, r = SubSeq(s, 1, i - 1) \o SubSeq(s, i + 1, Len(s))
  PROVE  /\ r \in Seq(S) /\ Len(r) = Len(s) - 1
         /\ \A j \in 1 .. Len(r) : r[j] = IF j < i THEN s[j] ELSE s[j + 1]
<1> DEFINE a == SubSeq(s, 1, i - 1)
           b == SubSeq(s, i + 1, Len(s))
<1>1. /\ a \in Seq(S) /\ Len(a) = i - 1
      /\ \A j \in 1 .. i - 1 : a[j] = s[j]
  BY SubSeqProperties, \A j \in 1 .. i - 1 : s[j] \in S
<1>2. /\ b \in Seq(S) /\ Len(b) = Len(s) - i
      /\ \A j \in 1 .. Len(s) - i : b[j] = s[i + j]
  BY SubSeqProperties, \A j \in i + 1 .. Len(s) : s[j] \in S
<1> HIDE DEF a, b
<1>3. /\ a \o b \in Seq(S) /\ Len(a \o b) = Len(s) - 1
      /\ \A j \in 1 .. Len(s) - 1 : (a \o b)[j] = IF j < i THEN s[j] ELSE s[j + 1]
  <2>1. /\ a \o b \in Seq(S) /\ Len(a \o b) = Len(a) + Len(b)
        /\ \A j \in 1 .. Len(a) + Len(b) :
             (a \o b)[j] = IF j <= Len(a) THEN a[j] ELSE b[j - Len(a)]
    BY <1>1, <1>2, ConcatProperties
  <2>2. ASSUME NEW j \in 1 .. Len(s) - 1
        PROVE  (a \o b)[j] = IF j < i THEN s[j] ELSE s[j + 1]
    <3>1. CASE j < i
      BY <1>1, <1>2, <2>1, <3>1
    <3>2. CASE ~(j < i)
      <4>1. j - Len(a) \in 1 .. Len(s) - i /\ i + (j - Len(a)) = j + 1
        BY <1>1, <3>2
      <4>2. (a \o b)[j] = b[j - Len(a)]
        <5>1. j \in 1 .. Len(a) + Len(b) /\ ~(j <= Len(a))
          BY <1>1, <1>2, <3>2
        <5> QED BY <2>1, <5>1
      <4> QED BY <1>2, <3>2, <4>1, <4>2
    <3> QED BY <3>1, <3>2
  <2> QED BY <1>1, <1>2, <2>1, <2>2
<1> QED BY <1>3 DEF a, b

-----------------------------------------------------------------------------
(* The search of a password *)

SearchLocals ==
  [pc : {"init", "mono", "launch", "wait", "close", "over"}, more : BOOLEAN,
   threadid : Nat, abstime : {"unset", "ZERO", "INFINITE"}, at : Nat,
   ret : {"OK", "DATAEND", "ERROR"}, logins : Nat, passwords : Nat,
   numthread : Nat, stop : BOOLEAN]
Trial == [couple : Brute!Couple, id : Nat]

BruteTypes ==
  /\ search \in SearchLocals /\ search.at \in 1 .. search.numthread + 1
  /\ login \in 0 .. search.logins /\ password \in 0 .. search.passwords
  /\ list \in Seq(Trial)
  /\ work \in [Brute!Couple -> Brute!Answer \union {"none", "runs"}]
  /\ manathr \subseteq Brute!Couple /\ thrmana \subseteq Brute!Couple
  /\ shown \subseteq Brute!Couple

\* The couples come in their order.
Past(c) == c[1] < login \/ (c[1] = login /\ c[2] <= password)
InOrder == \A c \in Brute!Couple : work[c] # "none" <=> Past(c)

\* Each thread of the list has a couple of its own.
ThreadsApart ==
  /\ \A i \in DOMAIN list : work[list[i].couple] # "none"
  /\ \A i, j \in DOMAIN list : list[i].couple = list[j].couple => i = j
  /\ \A c \in Brute!Couple : work[c] = "runs" => c \in Brute!Threads
  /\ IsFiniteSet(Brute!Threads) /\ Cardinality(Brute!Threads) = Len(list)
  /\ Len(list) <= search.numthread

BrutePlaces ==
  /\ Brute!At("init") => login = 0 /\ password = 0 /\ search.more
  /\ search.pc \in {"mono", "launch", "wait", "close"} => login >= 1
  /\ search.pc \in {"launch", "wait", "close"} => search.numthread >= 2
  /\ search.pc \in {"init", "mono", "over"} => list = <<>>
  /\ search.pc \in {"init", "mono", "launch", "wait"} => search.ret = "OK"

\* Until an error, what a thread brought is shown when it leaves the list, and
\* the memory that is allocated is that of the threads in the list.
NothingIsLost ==
  search.ret = "OK" =>
    /\ \A c \in Brute!Couple :
         /\ c \in shown <=> work[c] \in Brute!Answer /\ c \notin Brute!Threads
         /\ work[c] = "error" => c \in Brute!Threads
         /\ c \in manathr <=> work[c] \in {"runs", "error"}
         /\ c \in thrmana <=> c \in Brute!Threads /\ work[c] \in {"good", "bad"}

\* Launches stop at the last couple, or when a good one is enough.
Enough ==
  \/ \A c \in Brute!Couple : work[c] # "none"
  \/ search.stop /\ \E c \in Brute!Couple : work[c] = "good"
StopsInTime ==
  search.ret = "OK" =>
    /\ search.pc \in {"launch", "wait", "close"} /\ ~search.more => Enough
    /\ search.pc = "close" => ~search.more /\ list = <<>>
    /\ search.pc = "over" => Enough

BruteInv ==
  /\ BruteTypes /\ InOrder /\ ThreadsApart /\ BrutePlaces /\ NothingIsLost
  /\ StopsInTime

LEMMA BruteInitially ==
  ASSUME Brute!SetupsAreSound, Brute!Init PROVE BruteInv
<1>1. PICK setup \in Setups :
        search = [pc |-> "init", more |-> TRUE, threadid |-> 1, abstime |-> "unset",
                  at |-> 1, ret |-> "OK", logins |-> setup.logins,
                  passwords |-> setup.passwords,
                  numthread |-> setup.numthread, stop |-> setup.stop]
  BY DEF Brute!Init
<1>2. /\ login = 0 /\ password = 0 /\ list = <<>> /\ manathr = {} /\ thrmana = {} /\ shown = {}
      /\ work = [c \in Brute!Couple |-> "none"]
  BY DEF Brute!Init
<1>3. search \in SearchLocals
  BY <1>1 DEF Brute!SetupsAreSound, SearchLocals
<1>4. BruteTypes
  BY <1>1, <1>2, <1>3 DEF BruteTypes, Brute!Couple, SearchLocals
<1>5. InOrder
  BY <1>2 DEF InOrder, Past, Brute!Couple
<1>6. Len(list) = 0 /\ DOMAIN list = {}
  BY <1>2
<1>7. Brute!Threads = {}
  BY <1>6 DEF Brute!Threads
<1>8. ThreadsApart
  BY <1>2, <1>3, <1>6, <1>7, FS_EmptySet DEF ThreadsApart, SearchLocals
<1>9. BrutePlaces /\ StopsInTime
  BY <1>1, <1>2 DEF BrutePlaces, StopsInTime, Brute!At
<1>10. NothingIsLost
  BY <1>2, <1>7 DEF NothingIsLost, Brute!Answer
<1> QED BY <1>4, <1>5, <1>8, <1>9, <1>10 DEF BruteInv

\* The list after a launch, and after a removal.
LEMMA OneMore ==
  ASSUME BruteInv, NEW c \in Brute!Couple, NEW n \in Nat, c \notin Brute!Threads,
         list' = Append(list, [couple |-> c, id |-> n])
  PROVE  /\ list' \in Seq(Trial) /\ Len(list') = Len(list) + 1
         /\ Brute!Threads' = Brute!Threads \union {c}
         /\ \A i, j \in DOMAIN list' : list'[i].couple = list'[j].couple => i = j
         /\ IsFiniteSet(Brute!Threads') /\ Cardinality(Brute!Threads') = Len(list')
<1> DEFINE e == [couple |-> c, id |-> n]
<1>1. list \in Seq(Trial) /\ e \in Trial
  BY DEF BruteInv, BruteTypes, Trial
<1>2. /\ list' \in Seq(Trial) /\ Len(list') = Len(list) + 1
      /\ \A j \in 1 .. Len(list) : list'[j] = list[j]
      /\ list'[Len(list) + 1] = e
  BY <1>1, AppendIs
<1>3. DOMAIN list = 1 .. Len(list) /\ DOMAIN list' = 1 .. Len(list) + 1 /\ Len(list) \in Nat
  BY <1>1, <1>2
<1>4. e.couple = c
  OBVIOUS
<1> HIDE DEF e
<1>5. Brute!Threads' = Brute!Threads \union {c}
  BY <1>2, <1>3, <1>4 DEF Brute!Threads
<1>6. ASSUME NEW i \in DOMAIN list', NEW j \in DOMAIN list', list'[i].couple = list'[j].couple
      PROVE  i = j
  <2>1. \A k \in 1 .. Len(list) : list[k].couple # c
    BY <1>3 DEF Brute!Threads
  <2>2. \A k, l \in 1 .. Len(list) : list[k].couple = list[l].couple => k = l
    BY <1>3 DEF BruteInv, ThreadsApart
  <2> QED BY <1>2, <1>3, <1>4, <1>6, <2>1, <2>2
<1>7. IsFiniteSet(Brute!Threads) /\ Cardinality(Brute!Threads) = Len(list)
  BY DEF BruteInv, ThreadsApart
<1>8. /\ IsFiniteSet(Brute!Threads \union {c})
      /\ Cardinality(Brute!Threads \union {c}) = Len(list) + 1
  BY <1>7, FS_AddElement
<1> QED BY <1>2, <1>5, <1>6, <1>8

LEMMA OneLess ==
  ASSUME BruteInv, search.at <= Len(list), list' = Brute!Removed
  PROVE  /\ list' \in Seq(Trial) /\ Len(list') = Len(list) - 1
         /\ Brute!Here \in Trial /\ Brute!Here.couple \in Brute!Threads
         /\ Brute!Threads' = Brute!Threads \ {Brute!Here.couple}
         /\ \A i, j \in DOMAIN list' : list'[i].couple = list'[j].couple => i = j
         /\ IsFiniteSet(Brute!Threads') /\ Cardinality(Brute!Threads') = Len(list')
<1> DEFINE a == search.at
           c == Brute!Here.couple
<1>1. list \in Seq(Trial) /\ a \in 1 .. Len(list) /\ Len(list) \in Nat
  BY DEF BruteInv, BruteTypes, SearchLocals
<1>2. /\ list' \in Seq(Trial) /\ Len(list') = Len(list) - 1
      /\ \A j \in 1 .. Len(list') : list'[j] = IF j < a THEN list[j] ELSE list[j + 1]
  <2>1. list' = SubSeq(list, 1, a - 1) \o SubSeq(list, a + 1, Len(list))
    BY DEF Brute!Removed
  <2>2. ASSUME NEW r, r = SubSeq(list, 1, a - 1) \o SubSeq(list, a + 1, Len(list))
        PROVE  /\ r \in Seq(Trial) /\ Len(r) = Len(list) - 1
               /\ \A j \in 1 .. Len(r) : r[j] = IF j < a THEN list[j] ELSE list[j + 1]
    <3> HIDE DEF a
    <3> QED BY <1>1, <2>2, RemovedIs
  <2> QED BY <2>1, <2>2
<1>3. DOMAIN list = 1 .. Len(list) /\ DOMAIN list' = 1 .. Len(list) - 1
  BY <1>1, <1>2
<1>4. list[a] \in Trial /\ Brute!Here = list[a] /\ c = list[a].couple
  BY <1>1 DEF Brute!Here
<1> HIDE DEF a, c
<1>5. \A k, l \in 1 .. Len(list) : list[k].couple = list[l].couple => k = l
  BY <1>3 DEF BruteInv, ThreadsApart
<1>6. c \in Brute!Threads
  BY <1>1, <1>3, <1>4 DEF Brute!Threads
<1>7. Brute!Threads' = Brute!Threads \ {c}
  <2>1. ASSUME NEW j \in DOMAIN list' PROVE list'[j].couple \in Brute!Threads \ {c}
    <3>1. PICK k \in 1 .. Len(list) : k # a /\ list'[j] = list[k]
      <4>1. CASE j < a
        BY <1>1, <1>2, <1>3, <4>1
      <4>2. CASE ~(j < a)
        <5>1. j + 1 \in 1 .. Len(list) /\ j + 1 # a /\ list'[j] = list[j + 1]
          BY <1>1, <1>2, <1>3, <4>2
        <5> QED BY <5>1
      <4> QED BY <4>1, <4>2
    <3> QED BY <1>1, <1>3, <1>4, <1>5, <3>1 DEF Brute!Threads
  <2>2. ASSUME NEW k \in DOMAIN list, list[k].couple # c
        PROVE  \E j \in DOMAIN list' : list'[j].couple = list[k].couple
    <3>1. CASE k < a
      BY <1>1, <1>2, <1>3, <3>1
    <3>2. CASE k > a
      <4>1. k - 1 \in DOMAIN list' /\ list'[k - 1] = list[k]
        BY <1>1, <1>2, <1>3, <3>2
      <4> QED BY <4>1
    <3> QED BY <1>1, <1>3, <1>4, <2>2, <3>1, <3>2
  <2> QED BY <2>1, <2>2 DEF Brute!Threads
<1>8. ASSUME NEW i \in DOMAIN list', NEW j \in DOMAIN list', list'[i].couple = list'[j].couple
      PROVE  i = j
  BY <1>1, <1>2, <1>3, <1>5, <1>8
<1>9. IsFiniteSet(Brute!Threads) /\ Cardinality(Brute!Threads) = Len(list)
  BY DEF BruteInv, ThreadsApart
<1>10. /\ IsFiniteSet(Brute!Threads \ {c})
       /\ Cardinality(Brute!Threads \ {c}) = Len(list) - 1
  BY <1>6, <1>9, FS_RemoveElement
<1> QED BY <1>2, <1>4, <1>6, <1>7, <1>8, <1>10

LEMMA ThreadsAreCouples ==
  ASSUME BruteTypes PROVE \A c \in Brute!Threads : c \in Brute!Couple
<1>1. ASSUME NEW i \in DOMAIN list PROVE list[i].couple \in Brute!Couple
  <2>1. list \in Seq(Trial) /\ i \in 1 .. Len(list)
    BY DEF BruteTypes
  <2>2. list[i] \in Trial
    BY <2>1, ElementOfSeq
  <2> QED BY <2>2 DEF Trial
<1> QED BY <1>1 DEF Brute!Threads

\* A step of the manager's locals alone.
LEMMA LocalStep ==
  ASSUME BruteInv, search' \in SearchLocals, search'.at \in 1 .. search.numthread + 1,
         search'.logins = search.logins, search'.passwords = search.passwords,
         search'.numthread = search.numthread, search'.ret = "OK" => search.ret = "OK",
         UNCHANGED <<login, password, list, work, manathr, thrmana, shown>>,
         BrutePlaces', StopsInTime'
  PROVE  BruteInv'
<1>1. Brute!Couple' = Brute!Couple /\ Brute!Threads' = Brute!Threads
  BY DEF Brute!Couple, Brute!Threads
<1>2. BruteTypes'
  BY <1>1 DEF BruteInv, BruteTypes, Brute!Answer, SearchLocals, Trial
<1>3. InOrder'
  BY <1>1 DEF BruteInv, InOrder, Past
<1>4. ThreadsApart'
  BY <1>1 DEF BruteInv, ThreadsApart
<1>5. NothingIsLost'
  BY <1>1 DEF BruteInv, NothingIsLost, Brute!Answer
<1> QED BY <1>2, <1>3, <1>4, <1>5 DEF BruteInv

LEMMA BeginKeeps == ASSUME BruteInv, Brute!Begin PROVE BruteInv'
<1>1. /\ search \in SearchLocals /\ search.pc = "init" /\ login = 0 /\ password = 0
      /\ list = <<>> /\ search.at \in 1 .. search.numthread + 1 /\ search.ret = "OK"
  BY DEF BruteInv, BruteTypes, BrutePlaces, Brute!Begin, Brute!At
<1>2. UNCHANGED <<password, list, work, manathr, thrmana, shown>>
  BY DEF Brute!Begin
<1>3. CASE search.logins = 0
  <2>1. search' = [search EXCEPT !.pc = "over", !.ret = "DATAEND"] /\ login' = login
    BY <1>3 DEF Brute!Begin
  <2>2. /\ search' \in SearchLocals /\ search'.pc = "over" /\ search'.ret = "DATAEND"
        /\ search'.at = search.at /\ search'.logins = search.logins
        /\ search'.passwords = search.passwords /\ search'.numthread = search.numthread
    BY <1>1, <2>1 DEF SearchLocals
  <2>3. BrutePlaces' /\ StopsInTime'
    BY <1>1, <1>2, <2>2 DEF BrutePlaces, StopsInTime, Brute!At
  <2> QED BY <1>1, <1>2, <2>1, <2>2, <2>3, LocalStep
<1>4. CASE search.logins # 0
  <2>1. search' = [search EXCEPT !.pc = IF search.numthread <= 1 THEN "mono" ELSE "launch"]
        /\ login' = 1
    BY <1>4 DEF Brute!Begin, Brute!Goes
  <2>2. /\ search' \in SearchLocals /\ search'.ret = "OK"
        /\ search'.pc = IF search.numthread <= 1 THEN "mono" ELSE "launch"
        /\ search'.at = search.at /\ search'.logins = search.logins
        /\ search'.passwords = search.passwords /\ search'.numthread = search.numthread
        /\ search'.more = search.more /\ search'.stop = search.stop
    BY <1>1, <2>1 DEF SearchLocals
  <2>3. Brute!Couple' = Brute!Couple /\ Brute!Threads' = Brute!Threads
    BY <1>2, <2>2 DEF Brute!Couple, Brute!Threads
  <2>4. BruteTypes'
    BY <1>1, <1>2, <1>4, <2>1, <2>2, <2>3 DEF BruteInv, BruteTypes, SearchLocals
  <2>5. InOrder'
    BY <1>1, <1>2, <2>1, <2>3 DEF BruteInv, InOrder, Past, Brute!Couple
  <2>6. ThreadsApart'
    BY <1>2, <2>2, <2>3 DEF BruteInv, ThreadsApart
  <2>7. NothingIsLost'
    BY <1>1, <1>2, <2>2, <2>3 DEF BruteInv, NothingIsLost, Brute!Answer
  <2>8. BrutePlaces'
    BY <1>1, <1>2, <2>1, <2>2 DEF BrutePlaces, Brute!At, SearchLocals
  <2>9. StopsInTime'
    <3>1. search.more
      BY <1>1 DEF BruteInv, BrutePlaces, Brute!At
    <3> QED BY <2>2, <3>1 DEF StopsInTime
  <2> QED BY <2>4, <2>5, <2>6, <2>7, <2>8, <2>9 DEF BruteInv
<1> QED BY <1>3, <1>4

\* The couple that is taken is the next one, and was not tried.
LEMMA Taken ==
  ASSUME BruteInv, login >= 1, NEW c \in Brute!Couple, Brute!Takes(c),
         Brute!Couple' = Brute!Couple, search'.logins = search.logins,
         search'.passwords = search.passwords,
         NEW answer, answer # "none", work' = [work EXCEPT ![c] = answer]
  PROVE  /\ work[c] = "none" /\ c \notin Brute!Threads /\ (c \notin shown \/ search.ret # "OK")
         /\ login' \in 0 .. search.logins /\ password' \in 0 .. search.passwords /\ login' >= 1
         /\ InOrder'
<1>1. /\ login \in Nat /\ password \in 0 .. search.passwords
      /\ search.logins \in Nat /\ search.passwords \in Nat
      /\ work \in [Brute!Couple -> Brute!Answer \union {"none", "runs"}]
  BY DEF BruteInv, BruteTypes, SearchLocals
<1>2. /\ c[1] \in 1 .. search.logins /\ c[2] \in 1 .. search.passwords
      /\ c = <<c[1], c[2]>> /\ login' = c[1] /\ password' = c[2]
      /\ c = IF password < search.passwords THEN <<login, password + 1>> ELSE <<login + 1, 1>>
  BY DEF Brute!Takes, Brute!Couple, Brute!NextCouple
<1>3. /\ password < search.passwords => c[1] = login /\ c[2] = password + 1
      /\ ~ (password < search.passwords) => c[1] = login + 1 /\ c[2] = 1
  BY <1>2
<1>4. work[c] = "none"
  BY <1>1, <1>2, <1>3 DEF BruteInv, InOrder, Past
<1>5. c \notin Brute!Threads
  BY <1>4 DEF BruteInv, ThreadsApart, Brute!Threads
<1>6. c \notin shown \/ search.ret # "OK"
  BY <1>4 DEF BruteInv, NothingIsLost, Brute!Answer
<1>7. login' \in 0 .. search.logins /\ password' \in 0 .. search.passwords /\ login' >= 1
  BY <1>1, <1>2
<1>8. ASSUME NEW d \in Brute!Couple
      PROVE  work'[d] # "none" <=> (d[1] < login' \/ (d[1] = login' /\ d[2] <= password'))
  <2>1. /\ d[1] \in 1 .. search.logins /\ d[2] \in 1 .. search.passwords /\ d = <<d[1], d[2]>>
    BY DEF Brute!Couple
  <2>2. CASE d = c
    BY <1>1, <1>2, <2>2
  <2>3. CASE d # c
    <3>1. work'[d] = work[d] /\ (work[d] # "none" <=> Past(d))
      BY <1>1, <2>3 DEF BruteInv, InOrder
    <3>2. d[1] # c[1] \/ d[2] # c[2]
      BY <1>2, <2>1, <2>3
    <3> QED BY <1>1, <1>2, <1>3, <2>1, <3>1, <3>2 DEF Past
  <2> QED BY <2>2, <2>3
<1>9. InOrder'
  BY <1>8 DEF InOrder, Past
<1> QED BY <1>4, <1>5, <1>6, <1>7, <1>9

\* When there is no next couple, none is left.
LEMMA NoneLeft ==
  ASSUME BruteInv, login >= 1, ~ Brute!MoreCouples PROVE \A c \in Brute!Couple : work[c] # "none"
<1>1. /\ login \in 0 .. search.logins /\ password \in 0 .. search.passwords
      /\ search.logins \in Nat /\ search.passwords \in Nat
  BY DEF BruteInv, BruteTypes, SearchLocals
<1>2. password = search.passwords /\ (login = search.logins \/ search.passwords = 0)
  BY <1>1 DEF Brute!MoreCouples
<1>3. ASSUME NEW c \in Brute!Couple PROVE Past(c)
  BY <1>1, <1>2 DEF Past, Brute!Couple
<1> QED BY <1>3 DEF BruteInv, InOrder

LEMMA TryKeeps ==
  ASSUME BruteInv, NEW c \in Brute!Couple, NEW answer \in Brute!Answer, Brute!Try(c, answer)
  PROVE  BruteInv'
<1>1. /\ search \in SearchLocals /\ search.pc = "mono" /\ login >= 1 /\ list = <<>>
      /\ search.ret = "OK" /\ Brute!Takes(c) /\ search.at \in 1 .. search.numthread + 1
  BY DEF BruteInv, BruteTypes, BrutePlaces, Brute!Try, Brute!At
<1>2. /\ work' = [work EXCEPT ![c] = answer] /\ UNCHANGED <<list, manathr, thrmana>>
      /\ shown' = IF answer = "error" THEN shown ELSE shown \union {c}
  BY DEF Brute!Try
<1>3. /\ search' \in SearchLocals /\ search'.at = search.at /\ search'.logins = search.logins
      /\ search'.passwords = search.passwords /\ search'.numthread = search.numthread
      /\ search'.stop = search.stop /\ search'.more = search.more
      /\ search'.pc \in {"mono", "over"}
      /\ answer = "error" => search'.ret = "ERROR" /\ search'.pc = "over"
      /\ answer # "error" =>
           search'.ret = "OK" /\ (search'.pc = "over" => answer = "good" /\ search.stop)
  <2>1. CASE answer = "error"
    BY <1>1, <2>1, ZenonT(60) DEF Brute!Try, SearchLocals
  <2>2. CASE answer = "good" /\ search.stop
    BY <1>1, <2>2 DEF Brute!Try, Brute!Goes, SearchLocals
  <2>3. CASE answer # "error" /\ ~ (answer = "good" /\ search.stop)
    BY <1>1, <2>3 DEF Brute!Try, SearchLocals
  <2> QED BY <2>1, <2>2, <2>3
<1>4. Brute!Couple' = Brute!Couple /\ Brute!Threads' = Brute!Threads
  BY <1>2, <1>3 DEF Brute!Couple, Brute!Threads
<1>5. /\ work[c] = "none" /\ c \notin Brute!Threads /\ InOrder' /\ login' >= 1
      /\ login' \in 0 .. search.logins /\ password' \in 0 .. search.passwords
  BY <1>1, <1>2, <1>3, <1>4, Taken DEF Brute!Answer
<1>6. work \in [Brute!Couple -> Brute!Answer \union {"none", "runs"}]
  BY DEF BruteInv, BruteTypes
<1>7. BruteTypes'
  BY <1>2, <1>3, <1>4, <1>5 DEF BruteInv, BruteTypes, Brute!Answer, SearchLocals, Trial
<1>8. Brute!Threads = {}
  BY <1>1 DEF Brute!Threads
<1>9. ThreadsApart'
  BY <1>1, <1>2, <1>3, <1>4, <1>6 DEF BruteInv, ThreadsApart, Brute!Answer
<1>10. BrutePlaces'
  BY <1>1, <1>2, <1>3, <1>5 DEF BrutePlaces, Brute!At
<1>11. NothingIsLost'
  BY <1>1, <1>2, <1>3, <1>4, <1>5, <1>6 DEF BruteInv, NothingIsLost, Brute!Answer
<1>12. StopsInTime'
  BY <1>2, <1>3, <1>4, <1>6 DEF StopsInTime, Enough
<1> QED BY <1>5, <1>7, <1>9, <1>10, <1>11, <1>12 DEF BruteInv

LEMMA TryEndKeeps == ASSUME BruteInv, Brute!TryEnd PROVE BruteInv'
<1>1. /\ search \in SearchLocals /\ search.pc = "mono" /\ login >= 1 /\ list = <<>>
      /\ search.at \in 1 .. search.numthread + 1 /\ search' = [search EXCEPT !.pc = "over"]
      /\ UNCHANGED <<login, password, list, work, manathr, thrmana, shown>>
      /\ ~ Brute!MoreCouples
  BY DEF BruteInv, BruteTypes, BrutePlaces, Brute!TryEnd, Brute!At, Brute!Goes
<1>2. /\ search' \in SearchLocals /\ search'.pc = "over" /\ search'.ret = search.ret
      /\ search'.at = search.at /\ search'.logins = search.logins
      /\ search'.passwords = search.passwords /\ search'.numthread = search.numthread
  BY <1>1 DEF SearchLocals
<1>3. Brute!Couple' = Brute!Couple
  BY <1>2 DEF Brute!Couple
<1>4. BrutePlaces' /\ StopsInTime'
  BY <1>1, <1>2, <1>3, NoneLeft DEF BrutePlaces, StopsInTime, Enough, Brute!At
<1> QED BY <1>1, <1>2, <1>4, LocalStep

LEMMA LaunchKeeps ==
  ASSUME BruteInv, NEW c \in Brute!Couple, Brute!Launch(c) PROVE BruteInv'
<1>1. /\ search \in SearchLocals /\ search.pc = "launch" /\ login >= 1 /\ search.ret = "OK"
      /\ search.numthread >= 2 /\ Brute!Takes(c) /\ search.more /\ Len(list) < search.numthread
      /\ list \in Seq(Trial) /\ work \in [Brute!Couple -> Brute!Answer \union {"none", "runs"}]
  BY DEF BruteInv, BruteTypes, BrutePlaces, Brute!Launch, Brute!At, Brute!MayLaunch
<1>2. /\ work' = [work EXCEPT ![c] = "runs"] /\ manathr' = manathr \union {c}
      /\ list' = Append(list, [couple |-> c, id |-> search.threadid])
      /\ UNCHANGED <<thrmana, shown>>
      /\ search' = [search EXCEPT !.pc = "wait", !.abstime = "ZERO", !.at = 1,
                                  !.threadid = @ + 1]
  BY DEF Brute!Launch
<1>3. /\ search' \in SearchLocals /\ search'.at = 1 /\ search'.logins = search.logins
      /\ search'.passwords = search.passwords /\ search'.numthread = search.numthread
      /\ search'.stop = search.stop /\ search'.more = search.more
      /\ search'.pc = "wait" /\ search'.ret = "OK" /\ search.threadid \in Nat
  <2> DEFINE n == search.threadid + 1
  <2>1. search.threadid \in Nat /\ n \in Nat
    BY <1>1 DEF SearchLocals
  <2>2. search' = [search EXCEPT !.pc = "wait", !.abstime = "ZERO", !.at = 1, !.threadid = n]
    BY <1>2
  <2> HIDE DEF n
  <2> QED BY <1>1, <2>1, <2>2 DEF SearchLocals
<1>4. Brute!Couple' = Brute!Couple
  BY <1>3 DEF Brute!Couple
<1>5. /\ work[c] = "none" /\ c \notin Brute!Threads /\ c \notin shown /\ InOrder' /\ login' >= 1
      /\ login' \in 0 .. search.logins /\ password' \in 0 .. search.passwords
  <2>1. "runs" # "none"
    OBVIOUS
  <2> QED BY <1>1, <1>2, <1>3, <1>4, <2>1, Taken
<1>6. /\ list' \in Seq(Trial) /\ Len(list') = Len(list) + 1
      /\ Brute!Threads' = Brute!Threads \union {c}
      /\ \A i, j \in DOMAIN list' : list'[i].couple = list'[j].couple => i = j
      /\ IsFiniteSet(Brute!Threads') /\ Cardinality(Brute!Threads') = Len(list')
  BY <1>2, <1>3, <1>5, OneMore
<1>7. BruteTypes'
  <2>1. work' \in [Brute!Couple -> Brute!Answer \union {"none", "runs"}]
    BY <1>1, <1>2
  <2>2. 1 \in 1 .. search.numthread + 1
    BY <1>1 DEF SearchLocals
  <2>3. Seq(Trial)' = Seq(Trial)
    BY <1>4 DEF Trial
  <2> QED BY <1>2, <1>3, <1>4, <1>5, <1>6, <2>1, <2>2, <2>3
          DEF BruteInv, BruteTypes, Brute!Answer, SearchLocals
<1>8. ThreadsApart'
  <2>1. \A d \in Brute!Threads : work[d] # "none"
    BY DEF BruteInv, ThreadsApart, Brute!Threads
  <2>2. \A d \in Brute!Threads : d \in Brute!Couple
    BY ThreadsAreCouples DEF BruteInv
  <2>3. \A d \in Brute!Threads' : work'[d] # "none"
    BY <1>1, <1>2, <1>6, <2>1, <2>2
  <2>4. \A i \in DOMAIN list' : work'[list'[i].couple] # "none"
    BY <2>3 DEF Brute!Threads
  <2>5. \A d \in Brute!Couple : work'[d] = "runs" => d \in Brute!Threads'
    BY <1>1, <1>2, <1>6 DEF BruteInv, ThreadsApart
  <2>6. Len(list') <= search.numthread
    BY <1>1, <1>6 DEF SearchLocals
  <2> QED BY <1>3, <1>4, <1>6, <2>4, <2>5, <2>6 DEF ThreadsApart
<1>9. BrutePlaces'
  BY <1>1, <1>3, <1>5 DEF BrutePlaces, Brute!At
<1>10. NothingIsLost'
  <2> SUFFICES ASSUME NEW d \in Brute!Couple
        PROVE  /\ d \in shown' <=> work'[d] \in Brute!Answer /\ d \notin Brute!Threads'
               /\ work'[d] = "error" => d \in Brute!Threads'
               /\ d \in manathr' <=> work'[d] \in {"runs", "error"}
               /\ d \in thrmana' <=> d \in Brute!Threads' /\ work'[d] \in {"good", "bad"}
    BY <1>4 DEF NothingIsLost, Brute!Answer
  <2> QED BY <1>1, <1>2, <1>5, <1>6 DEF BruteInv, NothingIsLost, Brute!Answer
<1>11. StopsInTime'
  BY <1>1, <1>3 DEF StopsInTime
<1> QED BY <1>5, <1>7, <1>8, <1>9, <1>10, <1>11 DEF BruteInv

LEMMA LaunchNoneKeeps == ASSUME BruteInv, Brute!LaunchNone PROVE BruteInv'
<1> DEFINE more == search.more /\ ~ Brute!MayLaunch
<1>1. /\ search \in SearchLocals /\ search.pc = "launch" /\ login >= 1 /\ search.ret = "OK"
      /\ search.numthread >= 2 /\ ~ (Brute!MayLaunch /\ Brute!MoreCouples)
      /\ UNCHANGED <<login, password, list, work, manathr, thrmana, shown>>
      /\ search' = [search EXCEPT !.pc = IF list = <<>> THEN "close" ELSE "wait",
                                  !.abstime = "INFINITE", !.at = 1, !.more = more]
  BY DEF BruteInv, BruteTypes, BrutePlaces, Brute!LaunchNone, Brute!At, SearchLocals
<1>2. more \in BOOLEAN
  BY DEF Brute!MayLaunch
<1> HIDE DEF more
<1>3. /\ search' \in SearchLocals /\ search'.at = 1 /\ search'.logins = search.logins
      /\ search'.passwords = search.passwords /\ search'.numthread = search.numthread
      /\ search'.stop = search.stop /\ search'.more = more /\ search'.ret = "OK"
      /\ search'.pc = IF list = <<>> THEN "close" ELSE "wait"
  BY <1>1, <1>2 DEF SearchLocals
<1>4. Brute!Couple' = Brute!Couple
  BY <1>3 DEF Brute!Couple
<1>5. BrutePlaces'
  BY <1>1, <1>3 DEF BrutePlaces, Brute!At
<1>6. ~ more => Enough
  <2>1. CASE Brute!MayLaunch
    BY <1>1, <2>1, NoneLeft DEF Enough
  <2>2. CASE ~ Brute!MayLaunch
    BY <1>1, <2>2 DEF more, BruteInv, StopsInTime
  <2> QED BY <2>1, <2>2
<1>7. Enough' <=> Enough
  BY <1>1, <1>3, <1>4 DEF Enough
<1>8. list = <<>> => ~ more
  <2>1. Len(<<>>) = 0
    OBVIOUS
  <2> QED BY <1>1, <2>1 DEF more, Brute!MayLaunch, SearchLocals
<1>9. StopsInTime'
  BY <1>1, <1>3, <1>6, <1>7, <1>8 DEF StopsInTime
<1>10. 1 \in 1 .. search.numthread + 1
  BY <1>1 DEF SearchLocals
<1> QED BY <1>1, <1>3, <1>5, <1>9, <1>10, LocalStep

LEMMA WalkKeeps == ASSUME BruteInv, Brute!WaitNext \/ Brute!WaitTurn \/ Brute!CloseEnd PROVE BruteInv'
<1>1. /\ search \in SearchLocals /\ search.at \in 1 .. search.numthread + 1
      /\ search.pc \in {"wait", "close"} /\ Len(list) \in Nat /\ Len(list) <= search.numthread
      /\ UNCHANGED <<login, password, list, work, manathr, thrmana, shown>>
      /\ BrutePlaces /\ StopsInTime
  BY DEF BruteInv, BruteTypes, ThreadsApart, Brute!WaitNext, Brute!WaitTurn, Brute!CloseEnd,
         Brute!Waits, Brute!At
<1>2. /\ search' \in SearchLocals /\ search'.at \in 1 .. search.numthread + 1
      /\ search'.logins = search.logins /\ search'.passwords = search.passwords
      /\ search'.numthread = search.numthread /\ search'.stop = search.stop
      /\ search'.more = search.more /\ search'.ret = search.ret
      /\ \/ search'.pc = search.pc
         \/ search'.pc = "launch" /\ search.pc = "wait"
         \/ search'.pc = "over" /\ search.pc = "close" /\ list = <<>>
  <2>1. CASE Brute!WaitNext
    BY <1>1, <2>1 DEF Brute!WaitNext, SearchLocals
  <2>2. CASE Brute!WaitTurn
    <3>1. 1 \in 1 .. search.numthread + 1
      BY <1>1 DEF SearchLocals
    <3> QED BY <1>1, <2>2, <3>1 DEF Brute!WaitTurn, Brute!At, SearchLocals
  <2>3. CASE Brute!CloseEnd
    BY <1>1, <2>3 DEF Brute!CloseEnd, Brute!Goes, Brute!At, SearchLocals
  <2> QED BY <2>1, <2>2, <2>3
<1>3. Brute!Couple' = Brute!Couple
  BY <1>2 DEF Brute!Couple
<1>4. Enough' <=> Enough
  BY <1>1, <1>2, <1>3 DEF Enough
<1>5. BrutePlaces'
  BY <1>1, <1>2 DEF BrutePlaces, Brute!At
<1>6. StopsInTime'
  BY <1>1, <1>2, <1>4 DEF StopsInTime
<1> QED BY <1>1, <1>2, <1>5, <1>6, LocalStep

\* What a removal from the list leaves right whatever was brought.
LEMMA ListShrinks ==
  ASSUME BruteInv, search.at <= Len(list), list' = Brute!Removed,
         work[Brute!Here.couple] \in Brute!Answer, search' \in SearchLocals,
         search'.at \in 1 .. search.numthread + 1, search'.logins = search.logins,
         search'.passwords = search.passwords, search'.numthread = search.numthread,
         UNCHANGED <<login, password, work, manathr>>,
         shown' \subseteq Brute!Couple, thrmana' \subseteq Brute!Couple
  PROVE  /\ BruteTypes' /\ InOrder' /\ ThreadsApart' /\ Brute!Couple' = Brute!Couple
         /\ Brute!Threads' = Brute!Threads \ {Brute!Here.couple}
<1> DEFINE c == Brute!Here.couple
<1>1. /\ list' \in Seq(Trial) /\ Len(list') = Len(list) - 1
      /\ c \in Brute!Threads /\ Brute!Threads' = Brute!Threads \ {c}
      /\ \A i, j \in DOMAIN list' : list'[i].couple = list'[j].couple => i = j
      /\ IsFiniteSet(Brute!Threads') /\ Cardinality(Brute!Threads') = Len(list')
  BY OneLess
<1> HIDE DEF c
<1>2. Brute!Couple' = Brute!Couple
  BY DEF Brute!Couple
<1>3. BruteTypes'
  <2>1. Seq(Trial)' = Seq(Trial)
    BY <1>2 DEF Trial
  <2> QED BY <1>1, <1>2, <2>1 DEF BruteInv, BruteTypes, SearchLocals, Brute!Answer
<1>4. InOrder'
  BY <1>2 DEF BruteInv, InOrder, Past
<1>5. ThreadsApart'
  <2>0. \A d \in Brute!Threads : work[d] # "none"
    BY DEF BruteInv, ThreadsApart, Brute!Threads
  <2>1. \A d \in Brute!Threads' : work'[d] # "none"
    BY <1>1, <2>0
  <2>2. \A i \in DOMAIN list' : work'[list'[i].couple] # "none"
    BY <2>1 DEF Brute!Threads
  <2>3. work[c] # "runs"
    BY DEF c, Brute!Answer
  <2>4. \A d \in Brute!Couple : work'[d] = "runs" => d \in Brute!Threads'
    BY <1>1, <2>3 DEF BruteInv, ThreadsApart
  <2>5. Len(list') <= search.numthread
    <3>1. Len(list) \in Nat /\ Len(list) <= search.numthread /\ search.numthread \in Nat
      BY DEF BruteInv, BruteTypes, ThreadsApart, SearchLocals
    <3> QED BY <1>1, <3>1
  <2> QED BY <1>1, <1>2, <2>2, <2>4, <2>5 DEF ThreadsApart
<1> QED BY <1>1, <1>2, <1>3, <1>4, <1>5 DEF c

LEMMA EventKeeps == ASSUME BruteInv, Brute!WaitEvent PROVE BruteInv'
<1> DEFINE c == Brute!Here.couple
           n == Brute!Here.id
<1>1. /\ search \in SearchLocals /\ search.pc = "wait" /\ login >= 1 /\ search.ret = "OK"
      /\ search.numthread >= 2 /\ search.at <= Len(list) /\ list' = Brute!Removed
      /\ work[c] \in Brute!Answer /\ search.at \in 1 .. search.numthread + 1
      /\ UNCHANGED <<login, password, work, manathr>>
  BY DEF BruteInv, BruteTypes, BrutePlaces, Brute!WaitEvent, Brute!At, Brute!Asked
<1>2. Brute!Here \in Trial /\ c \in Brute!Threads
  BY <1>1, OneLess
<1>3. c \in Brute!Couple /\ n \in Nat /\ shown \subseteq Brute!Couple /\ thrmana \subseteq Brute!Couple
  BY <1>2 DEF Trial, BruteInv, BruteTypes
<1>4. CASE work[c] = "error"
  <2>1. UNCHANGED <<thrmana, shown>>
    BY <1>4 DEF Brute!WaitEvent, Brute!Asked
  <2>2. search' = [search EXCEPT !.pc = "close", !.ret = "ERROR", !.threadid = n, !.at = 1]
    BY <1>4 DEF Brute!WaitEvent, Brute!Asked
  <2>3. 1 \in 1 .. search.numthread + 1
    BY <1>1 DEF SearchLocals
  <2>4. /\ search' \in SearchLocals /\ search'.at = 1 /\ search'.logins = search.logins
        /\ search'.passwords = search.passwords /\ search'.numthread = search.numthread
        /\ search'.pc = "close" /\ search'.ret = "ERROR"
    <3> HIDE DEF c, n
    <3> QED BY <1>1, <1>3, <2>2 DEF SearchLocals
  <2>5. BruteTypes' /\ InOrder' /\ ThreadsApart'
    BY <1>1, <1>3, <2>1, <2>3, <2>4, ListShrinks
  <2>6. BrutePlaces' /\ NothingIsLost' /\ StopsInTime'
    BY <1>1, <2>4 DEF BrutePlaces, NothingIsLost, StopsInTime, Brute!At
  <2> QED BY <2>5, <2>6 DEF BruteInv
<1>5. CASE work[c] # "error"
  <2> DEFINE more == search.more /\ ~ (work[c] = "good" /\ search.stop)
  <2>1. shown' = shown \union {c} /\ thrmana' = thrmana \ {c}
    BY <1>5 DEF Brute!WaitEvent, Brute!Asked
  <2>2. search' = [search EXCEPT !.pc = "launch", !.threadid = n, !.more = more]
    BY <1>5 DEF Brute!WaitEvent, Brute!Asked
  <2>3. more \in BOOLEAN
    OBVIOUS
  <2>4. /\ search' \in SearchLocals /\ search'.at = search.at /\ search'.logins = search.logins
        /\ search'.passwords = search.passwords /\ search'.numthread = search.numthread
        /\ search'.stop = search.stop /\ search'.more = more
        /\ search'.pc = "launch" /\ search'.ret = "OK"
    <3> HIDE DEF c, n, more
    <3> QED BY <1>1, <1>3, <2>2, <2>3 DEF SearchLocals
  <2>5. /\ BruteTypes' /\ InOrder' /\ ThreadsApart' /\ Brute!Couple' = Brute!Couple
        /\ Brute!Threads' = Brute!Threads \ {c}
    BY <1>1, <1>3, <2>1, <2>4, ListShrinks
  <2>6. BrutePlaces'
    BY <1>1, <2>4 DEF BrutePlaces, Brute!At
  <2>7. NothingIsLost'
    <3> HIDE DEF c
    <3> SUFFICES ASSUME NEW d \in Brute!Couple
          PROVE  /\ d \in shown' <=> work'[d] \in Brute!Answer /\ d \notin Brute!Threads'
                 /\ work'[d] = "error" => d \in Brute!Threads'
                 /\ d \in manathr' <=> work'[d] \in {"runs", "error"}
                 /\ d \in thrmana' <=> d \in Brute!Threads' /\ work'[d] \in {"good", "bad"}
      BY <2>5 DEF NothingIsLost, Brute!Answer
    <3> QED BY <1>1, <1>2, <1>5, <2>1, <2>5 DEF BruteInv, NothingIsLost, Brute!Answer
  <2>8. StopsInTime'
    <3>1. ~ more => Enough
      <4>1. ~ search.more => Enough
        BY <1>1 DEF BruteInv, StopsInTime
      <4> QED BY <1>3, <4>1 DEF Enough
    <3>2. Enough' <=> Enough
      BY <1>1, <2>4, <2>5 DEF Enough
    <3> HIDE DEF more
    <3> QED BY <2>4, <3>1, <3>2 DEF StopsInTime
  <2> QED BY <2>5, <2>6, <2>7, <2>8 DEF BruteInv
<1> QED BY <1>4, <1>5

LEMMA CloseKeeps == ASSUME BruteInv, Brute!CloseEvent PROVE BruteInv'
<1>1. /\ search \in SearchLocals /\ search.pc = "close" /\ login >= 1
      /\ search.numthread >= 2 /\ search.at <= Len(list) /\ list' = Brute!Removed
      /\ work[Brute!Here.couple] \in Brute!Answer /\ search' = [search EXCEPT !.at = 1]
      /\ UNCHANGED <<login, password, work, manathr, thrmana, shown>>
      /\ thrmana \subseteq Brute!Couple /\ shown \subseteq Brute!Couple
  BY DEF BruteInv, BruteTypes, BrutePlaces, Brute!CloseEvent, Brute!At, Brute!Asked
<1>2. 1 \in 1 .. search.numthread + 1 /\ search.at \in Nat /\ search.at >= 1
  BY <1>1 DEF BruteInv, BruteTypes, SearchLocals
<1>3. search.ret # "OK"
  <2>1. Len(<<>>) = 0
    OBVIOUS
  <2>2. list # <<>>
    BY <1>1, <1>2, <2>1
  <2> QED BY <1>1, <2>2 DEF BruteInv, StopsInTime
<1>4. /\ search' \in SearchLocals /\ search'.at = 1 /\ search'.logins = search.logins
      /\ search'.passwords = search.passwords /\ search'.numthread = search.numthread
      /\ search'.pc = "close" /\ search'.ret = search.ret
  BY <1>1 DEF SearchLocals
<1>5. BruteTypes' /\ InOrder' /\ ThreadsApart'
  BY <1>1, <1>2, <1>4, ListShrinks
<1>6. BrutePlaces' /\ NothingIsLost' /\ StopsInTime'
  BY <1>1, <1>3, <1>4 DEF BrutePlaces, NothingIsLost, StopsInTime, Brute!At
<1> QED BY <1>5, <1>6 DEF BruteInv

LEMMA WorkerKeeps ==
  ASSUME BruteInv, NEW c \in Brute!Couple, Brute!WorkerEnds(c) PROVE BruteInv'
<1>1. PICK answer \in Brute!Answer :
        /\ work' = [work EXCEPT ![c] = answer]
        /\ IF answer = "error" THEN UNCHANGED <<manathr, thrmana>>
           ELSE manathr' = manathr \ {c} /\ thrmana' = thrmana \union {c}
  BY DEF Brute!WorkerEnds
<1>2. /\ work[c] = "runs" /\ UNCHANGED <<search, login, password, list, shown>>
      /\ work \in [Brute!Couple -> Brute!Answer \union {"none", "runs"}]
      /\ manathr \subseteq Brute!Couple /\ thrmana \subseteq Brute!Couple
  BY DEF Brute!WorkerEnds, BruteInv, BruteTypes
<1>3. Brute!Couple' = Brute!Couple /\ Brute!Threads' = Brute!Threads /\ c \in Brute!Threads
  BY <1>2 DEF Brute!Couple, Brute!Threads, BruteInv, ThreadsApart
<1>4. \A d \in Brute!Couple : work'[d] = IF d = c THEN answer ELSE work[d]
  BY <1>1, <1>2
<1>5. BruteTypes'
  <2>1. Seq(Trial)' = Seq(Trial)
    BY <1>3 DEF Trial
  <2>2. /\ work' \in [Brute!Couple -> Brute!Answer \union {"none", "runs"}]
        /\ manathr' \subseteq Brute!Couple /\ thrmana' \subseteq Brute!Couple
    BY <1>1, <1>2
  <2> QED BY <1>2, <1>3, <2>1, <2>2 DEF BruteInv, BruteTypes, SearchLocals, Brute!Answer
<1>6. InOrder'
  BY <1>2, <1>3, <1>4 DEF BruteInv, InOrder, Past, Brute!Answer
<1>7. ThreadsApart'
  <2>1. \A d \in Brute!Threads : d \in Brute!Couple /\ work[d] # "none"
    BY ThreadsAreCouples DEF BruteInv, ThreadsApart, Brute!Threads
  <2>2. \A i \in DOMAIN list : work'[list[i].couple] # "none"
    BY <1>4, <2>1 DEF Brute!Threads, Brute!Answer
  <2> QED BY <1>2, <1>3, <1>4, <2>2 DEF BruteInv, ThreadsApart, Brute!Answer
<1>8. BrutePlaces'
  BY <1>2 DEF BruteInv, BrutePlaces, Brute!At
<1>9. NothingIsLost'
  <2> SUFFICES ASSUME search.ret = "OK", NEW d \in Brute!Couple
        PROVE  /\ d \in shown' <=> work'[d] \in Brute!Answer /\ d \notin Brute!Threads'
               /\ work'[d] = "error" => d \in Brute!Threads'
               /\ d \in manathr' <=> work'[d] \in {"runs", "error"}
               /\ d \in thrmana' <=> d \in Brute!Threads' /\ work'[d] \in {"good", "bad"}
    BY <1>2, <1>3 DEF NothingIsLost, Brute!Answer
  <2> QED BY <1>1, <1>2, <1>3, <1>4 DEF BruteInv, NothingIsLost, Brute!Answer
<1>10. StopsInTime'
  <2>1. Enough => Enough'
    BY <1>2, <1>3, <1>4 DEF Enough, Brute!Answer
  <2> QED BY <1>2, <2>1 DEF BruteInv, StopsInTime
<1> QED BY <1>5, <1>6, <1>7, <1>8, <1>9, <1>10 DEF BruteInv

LEMMA BruteKeeps == ASSUME BruteInv, Brute!Next PROVE BruteInv'
BY BeginKeeps, TryKeeps, TryEndKeeps, LaunchKeeps, LaunchNoneKeeps, WalkKeeps, EventKeeps,
   CloseKeeps, WorkerKeeps DEF Brute!Next, Brute!Manager, Brute!Worker

LEMMA SameCardinality == \A S : Brute!Cardinality(S) = Cardinality(S)
BY DEF Brute!Cardinality, Cardinality, Brute!IsFiniteSet, IsFiniteSet

LEMMA BruteIsRight == ASSUME BruteInv PROVE Brute!TypeOK /\ Brute!SearchIsComplete
<1>1. Brute!TypeOK
  <2>1. Brute!Threads \subseteq Brute!Couple
    BY ThreadsAreCouples DEF BruteInv
  <2> QED BY <2>1 DEF BruteInv, BruteTypes, SearchLocals, Brute!TypeOK
<1>2. /\ Brute!Running \subseteq Brute!Threads /\ IsFiniteSet(Brute!Threads)
      /\ Cardinality(Brute!Threads) = Len(list) /\ Len(list) \in Nat
      /\ Len(list) <= search.numthread /\ search.numthread \in Nat
  BY DEF BruteInv, BruteTypes, SearchLocals, ThreadsApart, Brute!Running
<1>3. Cardinality(Brute!Running) <= search.numthread
  <2>1. /\ IsFiniteSet(Brute!Running)
        /\ Cardinality(Brute!Running) <= Cardinality(Brute!Threads)
    BY <1>2, FS_Subset
  <2>2. Cardinality(Brute!Running) \in Nat
    BY <2>1, FS_CardinalityType
  <2> QED BY <1>2, <2>1, <2>2
<1>4. ASSUME Brute!At("over")
      PROVE  /\ Brute!Running = {} /\ list = <<>>
             /\ search.ret = "OK" =>
                  /\ manathr = {} /\ thrmana = {} /\ shown = Brute!Tried
                  /\ \/ Brute!Tried = Brute!Couple
                     \/ search.stop /\ \E c \in Brute!Tried : work[c] = "good"
  <2>1. list = <<>>
    BY <1>4 DEF BruteInv, BrutePlaces, Brute!At
  <2>2. Brute!Threads = {} /\ Brute!Running = {}
    BY <1>2, <2>1 DEF Brute!Threads
  <2>3. /\ manathr \subseteq Brute!Couple /\ thrmana \subseteq Brute!Couple
        /\ shown \subseteq Brute!Couple
        /\ work \in [Brute!Couple -> Brute!Answer \union {"none", "runs"}]
    BY DEF BruteInv, BruteTypes
  <2>4. \A c \in Brute!Couple : work[c] # "runs"
    BY <2>2 DEF Brute!Running
  <2>5. ASSUME search.ret = "OK"
        PROVE  manathr = {} /\ thrmana = {} /\ shown = Brute!Tried
    BY <2>2, <2>3, <2>4, <2>5 DEF BruteInv, NothingIsLost, Brute!Tried
  <2>6. ASSUME search.ret = "OK"
        PROVE  \/ Brute!Tried = Brute!Couple
               \/ search.stop /\ \E c \in Brute!Tried : work[c] = "good"
    <3>1. Enough
      BY <1>4, <2>6 DEF BruteInv, StopsInTime, Brute!At
    <3> QED BY <2>3, <2>4, <3>1 DEF Enough, Brute!Tried, Brute!Answer
  <2> QED BY <2>1, <2>2, <2>5, <2>6
<1> QED BY <1>1, <1>2, <1>3, <1>4, SameCardinality DEF Brute!SearchIsComplete

-----------------------------------------------------------------------------
(* The download of a site *)

\* Levels are stored below the greatest one, so that the next one exists.
UrlInfo == [level : 1 .. LevelMax - 1, type : {"HTML"} \union site.get]
Download == [url : Spider!Page, info : UrlInfo, work : {"runs", "brought", "failed"}]

SpiderTypes ==
  /\ site \in Sites
  /\ spider \in [pc : {"init", "mono", "launch", "wait", "close", "over"},
                 abstime : {"unset", "ZERO", "INFINITE"}, ret : {"OK", "ERROR"}]
  /\ DOMAIN todownload \subseteq Spider!Page
  /\ \A u \in DOMAIN todownload : todownload[u] \in UrlInfo
  /\ inprogress \subseteq Spider!Page
  /\ DOMAIN downloaded \subseteq Spider!Page
  /\ \A u \in DOMAIN downloaded :
       downloaded[u] \in [parsehtml : BOOLEAN, level : 1 .. LevelMax - 1]
  /\ downloads \in Seq(Download)

\* Each url is in one hash, and each thread of the list has one in progress.
Apart ==
  /\ DOMAIN todownload \intersect DOMAIN downloaded = {}
  /\ inprogress \intersect (DOMAIN todownload \union DOMAIN downloaded) = {}
  /\ \A i, j \in DOMAIN downloads : downloads[i].url = downloads[j].url => i = j
  /\ IsFiniteSet(Spider!InList) /\ Cardinality(Spider!InList) = Len(downloads)
  /\ Len(downloads) <= site.maxthreads
  /\ Spider!InList \subseteq inprogress
  /\ spider.ret = "OK" => Spider!InList = inprogress

SpiderPlaces ==
  /\ spider.pc \in {"init", "mono", "over"} => downloads = <<>>
  /\ spider.pc \in {"init", "mono"} => inprogress = {}
  /\ spider.pc \in {"launch", "wait", "close"} => site.maxthreads >= 2
  /\ spider.pc \in {"init", "mono", "launch", "wait"} => spider.ret = "OK"
  /\ spider.pc \in {"close", "over"} /\ spider.ret = "OK" =>
       todownload = Spider!Empty /\ downloads = <<>>

\* Until an error, what is wanted is in one of the hashes.
Seen == DOMAIN todownload \union inprogress \union DOMAIN downloaded
Start(i) == [url |-> site.start[i], type |-> "HTML"]
LinksAreSeen(u) ==
  \A link \in Spider!LinksOf(u) :
    downloaded[u].parsehtml /\ Spider!Wanted(link, downloaded[u].level + 1) =>
      link.url \in Seen
NothingIsMissed ==
  spider.ret = "OK" =>
    /\ spider.pc # "init" =>
         \A i \in DOMAIN site.start : Spider!Wanted(Start(i), 1) => site.start[i] \in Seen
    /\ \A u \in DOMAIN downloaded : LinksAreSeen(u)

SpiderInv == SpiderTypes /\ Apart /\ SpiderPlaces /\ NothingIsMissed

LEMMA SpiderInitially ==
  ASSUME Spider!SitesAreSound, Spider!Init PROVE SpiderInv
<1>1. /\ downloads = <<>> /\ inprogress = {} /\ site \in Sites
      /\ DOMAIN todownload = {} /\ DOMAIN downloaded = {}
      /\ spider = [pc |-> "init", abstime |-> "unset", ret |-> "OK"]
  BY DEF Spider!Init, Spider!Empty
<1>2. Spider!InList = {} /\ site.maxthreads \in Nat /\ Len(downloads) = 0
  BY <1>1 DEF Spider!InList, Spider!SitesAreSound
<1>3. IsFiniteSet({}) /\ Cardinality({}) = 0
  BY FS_EmptySet
<1>4. SpiderTypes
  BY <1>1 DEF SpiderTypes
<1>5. Apart
  BY <1>1, <1>2, <1>3 DEF Apart
<1>6. SpiderPlaces
  BY <1>1 DEF SpiderPlaces
<1>7. NothingIsMissed
  BY <1>1 DEF NothingIsMissed
<1> QED BY <1>4, <1>5, <1>6, <1>7 DEF SpiderInv

LEMMA FirstOf ==
  ASSUME NEW T, T \subseteq Nat, T # {}
  PROVE  \E k \in T : \A j \in T : k <= j
<1> DEFINE R == {p \in Nat \X Nat : p[1] < p[2]}
<1>1. R = OpToRel(<, Nat)
  BY DEF OpToRel
<1>2. IsWellFoundedOn(R, Nat)
  BY <1>1, NatLessThanWellFounded
<1>3. PICK k \in T : \A j \in T : ~ (<<j, k>> \in R)
  <2> HIDE DEF R
  <2> QED BY <1>2, WFMin
<1>4. ASSUME NEW j \in T PROVE k <= j
  <2>1. j \in Nat /\ k \in Nat
    OBVIOUS
  <2>2. ~(j < k)
    BY <1>3, <2>1
  <2> QED BY <2>1, <2>2
<1> QED BY <1>4

\* What the urls of a page leave of those to download.
Adds(new, links, level) ==
  /\ DOMAIN todownload \subseteq DOMAIN new /\ DOMAIN new \subseteq Spider!Page
  /\ \A u \in DOMAIN new : new[u] \in UrlInfo
  /\ \A u \in DOMAIN new \ DOMAIN todownload :
       /\ u \notin DOMAIN downloaded
       /\ site.maxthreads > 1 => u \notin inprogress
  /\ \A k \in DOMAIN links : Spider!Wanted(links[k], level) =>
       links[k].url \in DOMAIN new \union inprogress \union DOMAIN downloaded

LEMMA SiteIsSound ==
  ASSUME Spider!SitesAreSound, site \in Sites
  PROVE  /\ LevelMax \in Nat /\ LevelMax >= 2
         /\ \A u \in Spider!Page : site.links[u] \in Seq(Spider!Link)
         /\ site.start \in Seq(STRING) /\ site.acl \subseteq Spider!Page
         /\ site.maxthreads \in Nat
BY DEF Spider!SitesAreSound, Spider!Page

LEMMA AddsAll ==
  ASSUME Spider!SitesAreSound, SpiderTypes, NEW links \in Seq(Spider!Link),
         NEW level \in 1 .. LevelMax, NEW new, new = Spider!AddAll(todownload, links, level)
  PROVE  Adds(new, links, level)
<1> DEFINE wanted == {k \in DOMAIN links : Spider!Wanted(links[k], level)}
           first(k) == \A j \in wanted : links[j].url = links[k].url => k <= j
           firsts == {k \in wanted : /\ ~Spider!Known(todownload, links[k].url)
                                     /\ first(k)}
           urls == {links[k].url : k \in firsts}
           item(u) == Spider!InfoOf(links[CHOOSE k \in firsts : links[k].url = u], level)
<1>1. /\ DOMAIN new = DOMAIN todownload \union urls
      /\ \A u \in DOMAIN new : new[u] = IF u \in DOMAIN todownload THEN todownload[u]
                                        ELSE item(u)
  BY DEF Spider!AddAll
<1>2. DOMAIN links \subseteq Nat /\ \A k \in DOMAIN links : links[k] \in Spider!Link
  BY ElementOfSeq
<1>3. ASSUME NEW u \in urls
      PROVE  /\ u \in Spider!Page /\ item(u) \in UrlInfo
             /\ ~Spider!Known(todownload, u)
  <2>1. PICK k \in firsts : k = CHOOSE i \in firsts : links[i].url = u
    OBVIOUS
  <2>2. links[k].url = u
    BY <2>1
  <2>3. Spider!Wanted(links[k], level) /\ ~Spider!Known(todownload, u)
    BY <2>2
  <2>4. u \in Spider!Page
    BY <2>2, <2>3, SiteIsSound DEF SpiderTypes, Spider!Wanted
  <2>5. Spider!StoredLevel(level) \in 1 .. LevelMax - 1
    BY DEF Spider!StoredLevel, Spider!SitesAreSound
  <2>6. item(u) = [level |-> Spider!StoredLevel(level), type |-> links[k].type]
    BY <2>1 DEF Spider!InfoOf
  <2> QED BY <2>3, <2>4, <2>5, <2>6 DEF Spider!Wanted, UrlInfo
<1>4. ASSUME NEW k \in DOMAIN links, Spider!Wanted(links[k], level),
             ~Spider!Known(todownload, links[k].url)
      PROVE  links[k].url \in urls
  <2> DEFINE same == {j \in wanted : links[j].url = links[k].url}
  <2>1. same \subseteq Nat /\ same # {}
    BY <1>2, <1>4
  <2> HIDE DEF same
  <2>2. PICK j \in same : \A i \in same : j <= i
    BY <2>1, FirstOf
  <2>3. j \in wanted /\ links[j].url = links[k].url
    BY DEF same
  <2>4. first(j)
    BY <2>2, <2>3 DEF same
  <2>5. j \in firsts
    BY <1>4, <2>3, <2>4
  <2> QED BY <2>3, <2>5
<1> HIDE DEF wanted, first, firsts, urls, item
<1> USE <1>1, <1>3
<1>5. DOMAIN todownload \subseteq DOMAIN new /\ DOMAIN new \subseteq Spider!Page
  BY DEF SpiderTypes
<1>6. \A u \in DOMAIN new : new[u] \in UrlInfo
  BY DEF SpiderTypes
<1>7. \A u \in DOMAIN new \ DOMAIN todownload : ~Spider!Known(todownload, u)
  OBVIOUS
<1>8. \A k \in DOMAIN links : Spider!Wanted(links[k], level) =>
        links[k].url \in DOMAIN new \union inprogress \union DOMAIN downloaded
  BY <1>4 DEF Spider!Known
<1> QED BY <1>5, <1>6, <1>7, <1>8 DEF Adds, Spider!Known

\* What is met stays met.
LEMMA StillSeen ==
  ASSUME NothingIsMissed, UNCHANGED <<site, downloaded>>, Seen \subseteq Seen',
         spider.pc # "init" \/ spider'.pc = "init", spider'.ret = "OK" => spider.ret = "OK"
  PROVE  NothingIsMissed'
<1> SUFFICES ASSUME spider'.ret = "OK"
    PROVE  /\ spider'.pc # "init" =>
                \A i \in DOMAIN site'.start :
                  Spider!Wanted(Start(i), 1)' => site'.start[i] \in Seen'
           /\ \A u \in DOMAIN downloaded' : LinksAreSeen(u)'
  BY DEF NothingIsMissed
<1>1. ASSUME NEW link, NEW level, Spider!Wanted(link, level)' PROVE Spider!Wanted(link, level)
  BY <1>1 DEF Spider!Wanted, Spider!LevelAllows
<1>2. ASSUME NEW u \in DOMAIN downloaded' PROVE LinksAreSeen(u)'
  <2>1. LinksAreSeen(u)
    BY DEF NothingIsMissed
  <2> QED BY <1>1, <2>1 DEF LinksAreSeen, Spider!LinksOf
<1>3. ASSUME spider'.pc # "init", NEW i \in DOMAIN site'.start, Spider!Wanted(Start(i), 1)'
      PROVE  site'.start[i] \in Seen'
  BY <1>1, <1>3 DEF NothingIsMissed, Start
<1> QED BY <1>2, <1>3

\* The steps that move the manager only.
LEMMA ManagerMoves ==
  ASSUME SpiderInv, UNCHANGED <<site, todownload, inprogress, downloaded, downloads>>,
         spider' \in [pc : {"init", "mono", "launch", "wait", "close", "over"},
                      abstime : {"unset", "ZERO", "INFINITE"}, ret : {"OK", "ERROR"}],
         spider.pc # "init", spider'.ret = "OK" => spider.ret = "OK", SpiderPlaces'
  PROVE  SpiderInv'
<1>1. SpiderTypes'
  <2>1. UrlInfo' = UrlInfo /\ Spider!Page' = Spider!Page
    BY DEF UrlInfo, Spider!Page
  <2>2. Download' = Download
    BY <2>1 DEF Download
  <2> QED BY <2>1, <2>2 DEF SpiderInv, SpiderTypes
<1>2. Apart'
  BY DEF SpiderInv, Apart, Spider!InList
<1>3. NothingIsMissed'
  BY StillSeen DEF SpiderInv, Seen
<1> QED BY <1>1, <1>2, <1>3 DEF SpiderInv

LEMMA MoveKeeps ==
  ASSUME SpiderInv, Spider!SitesAreSound,
         \/ Spider!GetFails \/ Spider!GetEnd \/ Spider!LaunchNone \/ Spider!WaitNothing
         \/ Spider!CloseEnd
  PROVE  SpiderInv'
<1> USE DEF SpiderInv, SpiderTypes, SpiderPlaces, Spider!At, Spider!Goes, Spider!Fails
<1>1. CASE Spider!GetFails
  BY <1>1, ManagerMoves DEF Spider!GetFails
<1>2. CASE Spider!GetEnd
  BY <1>2, ManagerMoves DEF Spider!GetEnd
<1>3. CASE Spider!WaitNothing
  BY <1>3, ManagerMoves DEF Spider!WaitNothing
<1>4. CASE Spider!CloseEnd
  BY <1>4, ManagerMoves DEF Spider!CloseEnd
<1>5. CASE Spider!LaunchNone
  <2>1. downloads = <<>> => ~(todownload # Spider!Empty)
    <3>1. Len(<<>>) = 0
      OBVIOUS
    <3>2. site.maxthreads >= 2 /\ site.maxthreads \in Nat
      BY <1>5, SiteIsSound DEF Spider!LaunchNone
    <3>3. 0 < site.maxthreads
      BY <3>2
    <3> QED BY <1>5, <3>1, <3>3 DEF Spider!LaunchNone, Spider!MayLaunch
  <2>2. SpiderPlaces' /\ spider'.ret = spider.ret /\ spider.pc # "init"
    BY <1>5, <2>1 DEF Spider!LaunchNone, Spider!Waits
  <2>3. spider' \in [pc : {"init", "mono", "launch", "wait", "close", "over"},
                     abstime : {"unset", "ZERO", "INFINITE"}, ret : {"OK", "ERROR"}]
    BY <1>5 DEF Spider!LaunchNone, Spider!Waits
  <2> QED BY <1>5, <2>2, <2>3, ManagerMoves DEF Spider!LaunchNone
<1> QED BY <1>1, <1>2, <1>3, <1>4, <1>5

\* What the user asks is to download, or was not wanted.
LEMMA StartKeeps == ASSUME SpiderInv, Spider!SitesAreSound, Spider!Begin PROVE SpiderInv'
<1> DEFINE asked == [i \in DOMAIN site.start |-> Start(i)]
<1> USE DEF Spider!Begin, Spider!At, Spider!Goes
<1>1. /\ UNCHANGED <<site, inprogress, downloaded, downloads>> /\ spider.pc = "init"
      /\ spider'.ret = "OK" /\ downloads = <<>> /\ inprogress = {}
  BY DEF SpiderInv, SpiderTypes, SpiderPlaces
<1>2. Adds(todownload', asked, 1)
  <2>1. asked \in Seq(Spider!Link)
    <3>1. site.start \in Seq(STRING)
      BY SiteIsSound DEF SpiderInv, SpiderTypes
    <3>2. ASSUME NEW i \in DOMAIN site.start PROVE Start(i) \in Spider!Link
      <4>1. site.start[i] \in STRING
        BY <3>1, ElementOfSeq
      <4> QED BY <4>1 DEF Start, Spider!Link, Spider!UriContain
    <3> QED BY <3>1, <3>2
  <2>2. 1 \in 1 .. LevelMax
    BY SiteIsSound DEF SpiderInv, SpiderTypes
  <2>3. todownload' = Spider!AddAll(todownload, asked, 1)
    BY DEF Start
  <2> HIDE DEF asked
  <2> QED BY <2>1, <2>2, <2>3, AddsAll DEF SpiderInv
<1>3. SpiderTypes'
  <2>1. UrlInfo' = UrlInfo /\ Spider!Page' = Spider!Page
    BY <1>1 DEF UrlInfo, Spider!Page
  <2>2. Download' = Download
    BY <2>1 DEF Download
  <2> QED BY <1>1, <1>2, <2>1, <2>2 DEF SpiderInv, SpiderTypes, Adds
<1>4. Apart'
  BY <1>1, <1>2 DEF SpiderInv, Apart, Adds, Spider!InList
<1>5. SpiderPlaces'
  <2>1. site.maxthreads \in Nat
    BY SiteIsSound DEF SpiderInv, SpiderTypes
  <2>2. ~(site.maxthreads <= 1) => site.maxthreads >= 2
    BY <2>1
  <2> QED BY <1>1, <2>2 DEF SpiderInv, SpiderTypes, SpiderPlaces
<1>6. NothingIsMissed'
  <2>1. Seen \subseteq Seen' /\ Seen' = DOMAIN todownload' \union inprogress \union DOMAIN downloaded
    BY <1>1, <1>2 DEF Adds, Seen
  <2>2. ASSUME NEW i \in DOMAIN site.start, Spider!Wanted(Start(i), 1)
        PROVE  site.start[i] \in Seen'
    <3>1. i \in DOMAIN asked /\ asked[i] = Start(i) /\ asked[i].url = site.start[i]
      BY DEF Start
    <3> HIDE DEF asked
    <3> QED BY <1>2, <2>1, <2>2, <3>1 DEF Adds
  <2>3. \A u \in DOMAIN downloaded : LinksAreSeen(u)
    BY <1>1 DEF SpiderInv, SpiderPlaces, NothingIsMissed
  <2>4. ASSUME NEW link, NEW level PROVE Spider!Wanted(link, level)' <=> Spider!Wanted(link, level)
    BY <1>1 DEF Spider!Wanted, Spider!LevelAllows
  <2>5. \A u \in DOMAIN downloaded' : LinksAreSeen(u)'
    BY <1>1, <2>1, <2>3, <2>4 DEF LinksAreSeen, Spider!LinksOf
  <2>6. \A i \in DOMAIN site'.start : Spider!Wanted(Start(i), 1)' => site'.start[i] \in Seen'
    BY <1>1, <2>2, <2>4 DEF Start
  <2> QED BY <2>5, <2>6 DEF NothingIsMissed
<1> QED BY <1>3, <1>4, <1>5, <1>6 DEF SpiderInv

\* The list of threads, when one is launched and when one leaves it.
LEMMA DownloadAdded ==
  ASSUME SpiderTypes, Apart, NEW d \in Download, d.url \notin Spider!InList,
         downloads' = Append(downloads, d)
  PROVE  /\ downloads' \in Seq(Download) /\ Len(downloads') = Len(downloads) + 1
         /\ Spider!InList' = Spider!InList \union {d.url}
         /\ \A i, j \in DOMAIN downloads' : downloads'[i].url = downloads'[j].url => i = j
         /\ IsFiniteSet(Spider!InList') /\ Cardinality(Spider!InList') = Len(downloads')
<1>1. downloads \in Seq(Download)
  BY DEF SpiderTypes
<1>2. /\ downloads' \in Seq(Download) /\ Len(downloads') = Len(downloads) + 1
      /\ \A j \in 1 .. Len(downloads) : downloads'[j] = downloads[j]
      /\ downloads'[Len(downloads) + 1] = d
  BY <1>1, AppendIs
<1>3. /\ DOMAIN downloads = 1 .. Len(downloads) /\ Len(downloads) \in Nat
      /\ DOMAIN downloads' = 1 .. Len(downloads) + 1
  BY <1>1, <1>2
<1>4. Spider!InList' = Spider!InList \union {d.url}
  BY <1>2, <1>3 DEF Spider!InList
<1>5. ASSUME NEW i \in DOMAIN downloads', NEW j \in DOMAIN downloads',
             downloads'[i].url = downloads'[j].url
      PROVE  i = j
  <2>1. \A k \in 1 .. Len(downloads) : downloads[k].url # d.url
    BY <1>3 DEF Spider!InList
  <2>2. \A k, l \in 1 .. Len(downloads) : downloads[k].url = downloads[l].url => k = l
    BY <1>3 DEF Apart
  <2> QED BY <1>2, <1>3, <1>5, <2>1, <2>2
<1>6. /\ IsFiniteSet(Spider!InList \union {d.url})
      /\ Cardinality(Spider!InList \union {d.url}) = Len(downloads) + 1
  BY FS_AddElement DEF Apart
<1> QED BY <1>2, <1>4, <1>5, <1>6

LEMMA DownloadRemoved ==
  ASSUME SpiderTypes, Apart, NEW a \in DOMAIN downloads,
         downloads' = Spider!RemoveAt(downloads, a)
  PROVE  /\ downloads' \in Seq(Download) /\ Len(downloads') = Len(downloads) - 1
         /\ downloads[a] \in Download /\ downloads[a].url \in Spider!InList
         /\ Spider!InList' = Spider!InList \ {downloads[a].url}
         /\ \A i, j \in DOMAIN downloads' : downloads'[i].url = downloads'[j].url => i = j
         /\ IsFiniteSet(Spider!InList') /\ Cardinality(Spider!InList') = Len(downloads')
<1> DEFINE u == downloads[a].url
<1>1. downloads \in Seq(Download) /\ a \in 1 .. Len(downloads) /\ Len(downloads) \in Nat
  BY DEF SpiderTypes
<1>2. /\ downloads' \in Seq(Download) /\ Len(downloads') = Len(downloads) - 1
      /\ \A j \in 1 .. Len(downloads') :
           downloads'[j] = IF j < a THEN downloads[j] ELSE downloads[j + 1]
  <2>1. downloads' = SubSeq(downloads, 1, a - 1)
                       \o SubSeq(downloads, a + 1, Len(downloads))
    BY DEF Spider!RemoveAt
  <2>2. ASSUME NEW r, r = SubSeq(downloads, 1, a - 1)
                            \o SubSeq(downloads, a + 1, Len(downloads))
        PROVE  /\ r \in Seq(Download) /\ Len(r) = Len(downloads) - 1
               /\ \A j \in 1 .. Len(r) : r[j] = IF j < a THEN downloads[j] ELSE downloads[j + 1]
    BY <1>1, <2>2, RemovedIs, ZenonT(60)
  <2> QED BY <2>1, <2>2
<1>3. DOMAIN downloads = 1 .. Len(downloads) /\ DOMAIN downloads' = 1 .. Len(downloads) - 1
  BY <1>1, <1>2
<1>4. downloads[a] \in Download /\ u = downloads[a].url /\ u \in Spider!InList
  BY <1>1, ElementOfSeq DEF Spider!InList
<1> HIDE DEF u
<1>5. \A k, l \in 1 .. Len(downloads) : downloads[k].url = downloads[l].url => k = l
  BY <1>3 DEF Apart
<1>6. ASSUME NEW j \in 1 .. Len(downloads) - 1
      PROVE  \E k \in 1 .. Len(downloads) :
               k # a /\ downloads'[j] = downloads[k] /\ k = IF j < a THEN j ELSE j + 1
  <2>1. CASE j < a
    BY <1>1, <1>2, <2>1
  <2>2. CASE ~(j < a)
    <3>1. j + 1 \in 1 .. Len(downloads) /\ j + 1 # a /\ downloads'[j] = downloads[j + 1]
      BY <1>1, <1>2, <2>2
    <3> QED BY <2>2, <3>1
  <2> QED BY <2>1, <2>2
<1>7. Spider!InList' = Spider!InList \ {u}
  <2>1. ASSUME NEW j \in DOMAIN downloads' PROVE downloads'[j].url \in Spider!InList \ {u}
    <3>1. PICK k \in 1 .. Len(downloads) : k # a /\ downloads'[j] = downloads[k]
      BY <1>3, <1>6
    <3> QED BY <1>1, <1>3, <1>4, <1>5, <3>1 DEF Spider!InList
  <2>2. ASSUME NEW k \in DOMAIN downloads, downloads[k].url # u
        PROVE  \E j \in DOMAIN downloads' : downloads'[j].url = downloads[k].url
    <3>1. CASE k < a
      BY <1>1, <1>2, <1>3, <3>1
    <3>2. CASE k > a
      <4>1. k - 1 \in DOMAIN downloads' /\ downloads'[k - 1] = downloads[k]
        BY <1>1, <1>2, <1>3, <3>2
      <4> QED BY <4>1
    <3> QED BY <1>1, <1>3, <1>4, <2>2, <3>1, <3>2
  <2> QED BY <2>1, <2>2 DEF Spider!InList
<1>8. ASSUME NEW i \in DOMAIN downloads', NEW j \in DOMAIN downloads',
             downloads'[i].url = downloads'[j].url
      PROVE  i = j
  <2>1. PICK k \in 1 .. Len(downloads) :
          downloads'[i] = downloads[k] /\ k = IF i < a THEN i ELSE i + 1
    BY <1>3, <1>6
  <2>2. PICK l \in 1 .. Len(downloads) :
          downloads'[j] = downloads[l] /\ l = IF j < a THEN j ELSE j + 1
    BY <1>3, <1>6
  <2>3. k = l
    BY <1>5, <1>8, <2>1, <2>2
  <2> QED BY <1>1, <1>3, <2>1, <2>2, <2>3
<1>9. /\ IsFiniteSet(Spider!InList \ {u})
      /\ Cardinality(Spider!InList \ {u}) = Len(downloads) - 1
  <2>1. IsFiniteSet(Spider!InList) /\ Cardinality(Spider!InList) = Len(downloads)
    BY DEF Apart
  <2> QED BY <1>4, <2>1, FS_RemoveElement
<1> QED BY <1>2, <1>4, <1>7, <1>8, <1>9

LEMMA SiteStays ==
  ASSUME UNCHANGED site
  PROVE  /\ UrlInfo' = UrlInfo /\ Spider!Page' = Spider!Page /\ Download' = Download
         /\ \A link, level : Spider!Wanted(link, level)' <=> Spider!Wanted(link, level)
<1>1. UrlInfo' = UrlInfo /\ Spider!Page' = Spider!Page
  BY DEF UrlInfo, Spider!Page
<1>2. ASSUME NEW link, NEW level PROVE Spider!Wanted(link, level)' <=> Spider!Wanted(link, level)
  BY DEF Spider!Wanted, Spider!LevelAllows
<1> QED BY <1>1, <1>2 DEF Download

LEMMA LaunchedKeeps ==
  ASSUME SpiderInv, Spider!SitesAreSound, NEW u \in DOMAIN todownload, Spider!Launch(u)
  PROVE  SpiderInv'
<1> DEFINE d == [url |-> u, work |-> "runs", info |-> todownload[u]]
<1>1. /\ UNCHANGED <<site, downloaded>> /\ spider.pc = "launch" /\ spider.ret = "OK"
      /\ spider' \in [pc : {"init", "mono", "launch", "wait", "close", "over"},
                      abstime : {"unset", "ZERO", "INFINITE"}, ret : {"OK", "ERROR"}]
      /\ spider'.pc = "wait" /\ spider'.ret = "OK" /\ Len(downloads) < site.maxthreads
      /\ downloads' = Append(downloads, d) /\ inprogress' = inprogress \union {u}
  BY DEF Spider!Launch, Spider!At, Spider!Waits, Spider!MayLaunch, SpiderInv, SpiderTypes,
         SpiderPlaces
<1>2. /\ DOMAIN todownload' = DOMAIN todownload \ {u}
      /\ \A v \in DOMAIN todownload' : todownload'[v] = todownload[v]
  BY DEF Spider!Launch, Spider!Without
<1>3. u \in Spider!Page /\ todownload[u] \in UrlInfo /\ u \notin Spider!InList
  BY DEF SpiderInv, SpiderTypes, Apart
<1>4. d \in Download /\ d.url = u
  BY <1>3 DEF Download
<1> HIDE DEF d
<1>5. /\ downloads' \in Seq(Download) /\ Len(downloads') = Len(downloads) + 1
      /\ Spider!InList' = Spider!InList \union {u}
      /\ \A i, j \in DOMAIN downloads' : downloads'[i].url = downloads'[j].url => i = j
      /\ IsFiniteSet(Spider!InList') /\ Cardinality(Spider!InList') = Len(downloads')
  BY <1>1, <1>3, <1>4, DownloadAdded DEF SpiderInv
<1>6. SpiderTypes'
  BY <1>1, <1>2, <1>3, <1>5, SiteStays DEF SpiderInv, SpiderTypes
<1>7. Len(downloads') <= site.maxthreads
  <2>1. site.maxthreads \in Nat /\ Len(downloads) \in Nat
    BY SiteIsSound DEF SpiderInv, SpiderTypes
  <2> QED BY <1>1, <1>5, <2>1
<1>8. Apart'
  BY <1>1, <1>2, <1>5, <1>7 DEF SpiderInv, Apart
<1>9. SpiderPlaces'
  BY <1>1 DEF SpiderInv, SpiderPlaces
<1>10. NothingIsMissed'
  <2>1. Seen \subseteq Seen'
    BY <1>1, <1>2 DEF Seen
  <2> QED BY <1>1, <2>1, StillSeen DEF SpiderInv
<1> QED BY <1>6, <1>8, <1>9, <1>10 DEF SpiderInv

\* What a page that was run leaves to download.
LEMMA Reads ==
  ASSUME Spider!SitesAreSound, SpiderTypes, NEW u \in Spider!Page, NEW info \in UrlInfo,
         NEW outcome, NEW new, new = Spider!UrlsRead(u, info, outcome)
  PROVE  /\ Adds(new, <<>>, 1)
         /\ outcome = "OK" /\ Spider!ParseHtml(u, info) =>
              Adds(new, site.links[u], info.level + 1)
<1>1. CASE ~(Spider!ParseHtml(u, info) /\ outcome # "unread")
  <2>1. new = todownload
    BY <1>1 DEF Spider!UrlsRead
  <2>2. Adds(todownload, <<>>, 1)
    BY DEF Adds, SpiderTypes
  <2>3. ~(outcome = "OK" /\ Spider!ParseHtml(u, info))
    <3>1. "OK" # "unread"
      OBVIOUS
    <3> QED BY <1>1, <3>1
  <2> QED BY <2>1, <2>2, <2>3
<1>2. CASE Spider!ParseHtml(u, info) /\ outcome # "unread"
  <2>1. new = Spider!AddAll(todownload, site.links[u], info.level + 1)
    BY <1>2 DEF Spider!UrlsRead
  <2>2. site.links[u] \in Seq(Spider!Link) /\ LevelMax \in Nat /\ LevelMax >= 2
    BY SiteIsSound DEF SpiderTypes
  <2>3. info.level + 1 \in 1 .. LevelMax
    BY <2>2 DEF UrlInfo
  <2>4. Adds(new, site.links[u], info.level + 1)
    BY <2>1, <2>2, <2>3, AddsAll
  <2>5. Adds(new, <<>>, 1)
    BY <2>4 DEF Adds
  <2> QED BY <2>4, <2>5
<1> QED BY <1>1, <1>2

\* The links of a page that is stored are met, as those of the others.
LEMMA PageIsSeen ==
  ASSUME SpiderInv, UNCHANGED site, NEW u \in Spider!Page, NEW info \in UrlInfo, NEW new,
         Spider!ParseHtml(u, info) => Adds(new, site.links[u], info.level + 1),
         DOMAIN todownload \subseteq DOMAIN new,
         DOMAIN new \union inprogress \union DOMAIN downloaded \subseteq Seen',
         downloaded' = Spider!Stored(u, info, "OK"), u \notin DOMAIN downloaded,
         spider.ret = "OK", spider.pc # "init"
  PROVE  NothingIsMissed'
<1>1. /\ DOMAIN downloaded' = DOMAIN downloaded \union {u}
      /\ \A v \in DOMAIN downloaded : downloaded'[v] = downloaded[v]
      /\ downloaded'[u] = [parsehtml |-> Spider!ParseHtml(u, info), level |-> info.level]
  BY DEF Spider!Stored, Spider!Put
<1>2. Seen \subseteq Seen'
  BY DEF Seen
<1>3. ASSUME NEW i \in DOMAIN site'.start, Spider!Wanted(Start(i), 1)'
      PROVE  site'.start[i] \in Seen'
  <2>1. Start(i)' = Start(i)
    BY DEF Start
  <2>2. Spider!Wanted(Start(i), 1)
    BY <1>3, <2>1, SiteStays
  <2> QED BY <1>2, <2>2 DEF SpiderInv, NothingIsMissed
<1>4. ASSUME NEW v \in DOMAIN downloaded PROVE LinksAreSeen(v)'
  <2>1. LinksAreSeen(v)
    BY DEF SpiderInv, NothingIsMissed
  <2>2. Spider!LinksOf(v)' = Spider!LinksOf(v)
    BY DEF Spider!LinksOf
  <2> QED BY <1>1, <1>2, <2>1, <2>2, SiteStays DEF LinksAreSeen
<1>5. LinksAreSeen(u)'
  <2> SUFFICES ASSUME NEW k \in DOMAIN site.links[u], Spider!ParseHtml(u, info),
                      Spider!Wanted(site.links[u][k], info.level + 1)
        PROVE  site.links[u][k].url \in Seen'
    BY <1>1, SiteStays DEF LinksAreSeen, Spider!LinksOf
  <2> QED BY DEF Adds
<1> QED BY <1>1, <1>3, <1>4, <1>5 DEF NothingIsMissed

LEMMA FetchKeeps ==
  ASSUME SpiderInv, Spider!SitesAreSound, NEW u \in DOMAIN todownload,
         NEW outcome \in Spider!RunOutcome, Spider!Get(u, outcome)
  PROVE  SpiderInv'
<1> DEFINE info == todownload[u]
           new == Spider!UrlsRead(u, info, outcome)
<1>1. /\ UNCHANGED <<site, inprogress, downloads>> /\ spider.pc = "mono" /\ spider.ret = "OK"
      /\ downloads = <<>> /\ inprogress = {}
      /\ todownload' = IF outcome = "OK" THEN Spider!Without(new, u) ELSE new
      /\ downloaded' = Spider!Stored(u, info, outcome)
      /\ spider' \in [pc : {"init", "mono", "launch", "wait", "close", "over"},
                      abstime : {"unset", "ZERO", "INFINITE"}, ret : {"OK", "ERROR"}]
      /\ outcome = "OK" => spider' = spider
      /\ outcome # "OK" => spider'.pc = "over" /\ spider'.ret = "ERROR"
  BY DEF Spider!Get, Spider!At, Spider!Fails, SpiderInv, SpiderTypes, SpiderPlaces
<1>2. u \in Spider!Page /\ info \in UrlInfo /\ u \notin DOMAIN downloaded
  BY DEF SpiderInv, SpiderTypes, Apart
<1> HIDE DEF info
<1>3. /\ Adds(new, <<>>, 1)
      /\ outcome = "OK" /\ Spider!ParseHtml(u, info) =>
           Adds(new, site.links[u], info.level + 1)
  BY <1>2, Reads DEF SpiderInv
<1> HIDE DEF new
<1>4. /\ DOMAIN todownload \subseteq DOMAIN new /\ DOMAIN new \subseteq Spider!Page
      /\ \A v \in DOMAIN new : new[v] \in UrlInfo
      /\ DOMAIN new \intersect DOMAIN downloaded = {}
  BY <1>3 DEF Adds, SpiderInv, Apart
<1>5. /\ DOMAIN todownload' = IF outcome = "OK" THEN DOMAIN new \ {u} ELSE DOMAIN new
      /\ \A v \in DOMAIN todownload' : todownload'[v] = new[v]
  BY <1>1 DEF Spider!Without
<1>6. IF outcome = "OK"
      THEN /\ DOMAIN downloaded' = DOMAIN downloaded \union {u}
           /\ \A v \in DOMAIN downloaded : downloaded'[v] = downloaded[v]
           /\ downloaded'[u] = [parsehtml |-> Spider!ParseHtml(u, info), level |-> info.level]
      ELSE downloaded' = downloaded
  BY <1>1, <1>2 DEF Spider!Stored, Spider!Put
<1>7. SpiderTypes'
  <2>1. \A v \in DOMAIN downloaded' :
          downloaded'[v] \in [parsehtml : BOOLEAN, level : 1 .. LevelMax - 1]
    <3>1. Spider!ParseHtml(u, info) \in BOOLEAN /\ info.level \in 1 .. LevelMax - 1
      BY <1>2 DEF Spider!ParseHtml, UrlInfo
    <3> QED BY <1>6, <3>1 DEF SpiderInv, SpiderTypes
  <2>2. DOMAIN downloaded' \subseteq Spider!Page
    BY <1>2, <1>6 DEF SpiderInv, SpiderTypes
  <2> QED BY <1>1, <1>4, <1>5, <2>1, <2>2, SiteStays DEF SpiderInv, SpiderTypes
<1>8. Apart'
  <2>1. Spider!InList' = Spider!InList
    BY <1>1 DEF Spider!InList
  <2>2. DOMAIN todownload' \intersect DOMAIN downloaded' = {}
    BY <1>4, <1>5, <1>6
  <2>3. spider'.ret = "OK" => spider.ret = "OK"
    BY <1>1
  <2> QED BY <1>1, <2>1, <2>2, <2>3 DEF SpiderInv, Apart
<1>9. SpiderPlaces'
  BY <1>1 DEF SpiderInv, SpiderPlaces
<1>10. NothingIsMissed'
  <2>1. CASE outcome = "OK"
    <3>1. DOMAIN new \union inprogress \union DOMAIN downloaded \subseteq Seen'
      BY <1>1, <1>5, <1>6, <2>1 DEF Seen
    <3> QED BY <1>1, <1>2, <1>3, <1>4, <2>1, <3>1, PageIsSeen
  <2>2. CASE outcome # "OK"
    BY <1>1, <2>2 DEF NothingIsMissed
  <2> QED BY <2>1, <2>2
<1> QED BY <1>7, <1>8, <1>9, <1>10 DEF SpiderInv

LEMMA BroughtKeeps ==
  ASSUME SpiderInv, Spider!SitesAreSound, NEW a \in DOMAIN downloads,
         NEW outcome \in Spider!RunOutcome, Spider!WaitEvent(a, outcome)
  PROVE  SpiderInv'
<1> DEFINE u == downloads[a].url
           info == downloads[a].info
<1>1. /\ downloads' = Spider!RemoveAt(downloads, a)
      /\ site' = site /\ spider.pc = "wait" /\ spider.ret = "OK" /\ site.maxthreads >= 2
      /\ todownload' = Spider!UrlsRead(u, info, outcome)
      /\ downloaded' = Spider!Stored(u, info, outcome)
      /\ spider' \in [pc : {"init", "mono", "launch", "wait", "close", "over"},
                      abstime : {"unset", "ZERO", "INFINITE"}, ret : {"OK", "ERROR"}]
      /\ outcome = "OK" => /\ spider'.pc = "launch" /\ spider'.ret = "OK"
                           /\ inprogress' = inprogress \ {u}
      /\ outcome # "OK" => /\ spider'.pc = "close" /\ spider'.ret = "ERROR"
                           /\ inprogress' = inprogress
  BY DEF Spider!WaitEvent, Spider!At, Spider!Goes, Spider!Fails, SpiderInv, SpiderTypes,
         SpiderPlaces
<1>2. /\ downloads' \in Seq(Download) /\ Len(downloads') = Len(downloads) - 1
      /\ downloads[a] \in Download /\ u \in Spider!InList
      /\ Spider!InList' = Spider!InList \ {u}
      /\ \A i, j \in DOMAIN downloads' : downloads'[i].url = downloads'[j].url => i = j
      /\ IsFiniteSet(Spider!InList') /\ Cardinality(Spider!InList') = Len(downloads')
  BY <1>1, DownloadRemoved DEF SpiderInv
<1>3. u \in Spider!Page /\ info \in UrlInfo
  BY <1>2 DEF Download
<1> HIDE DEF u, info
<1>4. u \in inprogress /\ u \notin DOMAIN downloaded /\ Spider!InList = inprogress
  BY <1>1, <1>2 DEF SpiderInv, Apart
<1>5. /\ Adds(todownload', <<>>, 1)
      /\ outcome = "OK" /\ Spider!ParseHtml(u, info) =>
           Adds(todownload', site.links[u], info.level + 1)
  BY <1>1, <1>3, Reads DEF SpiderInv
<1>6. site.maxthreads > 1 /\ Len(downloads') <= site.maxthreads
  <2>1. site.maxthreads \in Nat /\ Len(downloads) \in Nat /\ Len(downloads) <= site.maxthreads
    BY SiteIsSound DEF SpiderInv, SpiderTypes, Apart
  <2> QED BY <1>1, <1>2, <2>1
<1>7. /\ DOMAIN todownload \subseteq DOMAIN todownload'
      /\ DOMAIN todownload' \subseteq Spider!Page
      /\ \A v \in DOMAIN todownload' : todownload'[v] \in UrlInfo
      /\ DOMAIN todownload' \intersect (DOMAIN downloaded \union inprogress) = {}
  BY <1>5, <1>6 DEF Adds, SpiderInv, Apart
<1>8. IF outcome = "OK"
      THEN /\ DOMAIN downloaded' = DOMAIN downloaded \union {u}
           /\ \A v \in DOMAIN downloaded : downloaded'[v] = downloaded[v]
           /\ downloaded'[u] = [parsehtml |-> Spider!ParseHtml(u, info), level |-> info.level]
      ELSE downloaded' = downloaded
  <2>1. downloaded' = Spider!Stored(u, info, outcome)
    BY <1>1
  <2> QED BY <1>4, <2>1 DEF Spider!Stored, Spider!Put
<1>9. SpiderTypes'
  <2>1. \A v \in DOMAIN downloaded' :
          downloaded'[v] \in [parsehtml : BOOLEAN, level : 1 .. LevelMax - 1]
    <3>1. Spider!ParseHtml(u, info) \in BOOLEAN /\ info.level \in 1 .. LevelMax - 1
      BY <1>3 DEF Spider!ParseHtml, UrlInfo
    <3> QED BY <1>8, <3>1 DEF SpiderInv, SpiderTypes
  <2>2. DOMAIN downloaded' \subseteq Spider!Page /\ inprogress' \subseteq Spider!Page
    BY <1>1, <1>3, <1>8 DEF SpiderInv, SpiderTypes
  <2> QED BY <1>1, <1>2, <1>7, <2>1, <2>2, SiteStays DEF SpiderInv, SpiderTypes
<1>10. Apart'
  <2>1. inprogress \intersect DOMAIN downloaded = {}
    BY DEF SpiderInv, Apart
  <2>2. /\ DOMAIN todownload' \intersect DOMAIN downloaded' = {}
        /\ inprogress' \intersect (DOMAIN todownload' \union DOMAIN downloaded') = {}
    BY <1>1, <1>4, <1>7, <1>8, <2>1
  <2>3. /\ Spider!InList' \subseteq inprogress'
        /\ spider'.ret = "OK" => Spider!InList' = inprogress'
    BY <1>1, <1>2, <1>4
  <2> QED BY <1>1, <1>2, <1>6, <2>2, <2>3 DEF Apart
<1>11. SpiderPlaces'
  <2>1. spider'.pc \in {"launch", "close"} /\ site'.maxthreads >= 2
    BY <1>1
  <2>2. spider'.pc = "launch" => spider'.ret = "OK"
    BY <1>1
  <2>3. spider'.pc = "close" => spider'.ret = "ERROR"
    BY <1>1
  <2> QED BY <2>1, <2>2, <2>3 DEF SpiderPlaces
<1>12. NothingIsMissed'
  <2>1. CASE outcome = "OK"
    <3>1. DOMAIN todownload' \union inprogress \union DOMAIN downloaded \subseteq Seen'
      BY <1>1, <1>8, <2>1 DEF Seen
    <3>2. spider.pc # "init"
      BY <1>1
    <3> QED BY <1>1, <1>3, <1>4, <1>5, <1>7, <2>1, <3>1, <3>2, PageIsSeen
  <2>2. CASE outcome # "OK"
    BY <1>1, <2>2 DEF NothingIsMissed
  <2> QED BY <2>1, <2>2
<1> QED BY <1>9, <1>10, <1>11, <1>12 DEF SpiderInv

LEMMA LeftKeeps ==
  ASSUME SpiderInv, Spider!SitesAreSound, NEW a \in DOMAIN downloads,
         Spider!WaitError(a) \/ Spider!CloseEvent(a)
  PROVE  SpiderInv'
<1>1. /\ downloads' = Spider!RemoveAt(downloads, a)
      /\ UNCHANGED <<site, todownload, inprogress, downloaded>>
      /\ spider.pc \in {"wait", "close"} /\ spider'.pc = "close" /\ spider'.ret = "ERROR"
      /\ spider' \in [pc : {"init", "mono", "launch", "wait", "close", "over"},
                      abstime : {"unset", "ZERO", "INFINITE"}, ret : {"OK", "ERROR"}]
  <2>1. CASE Spider!WaitError(a)
    BY <2>1 DEF Spider!WaitError, Spider!At, Spider!Fails, SpiderInv, SpiderTypes
  <2>2. CASE Spider!CloseEvent(a)
    <3>1. spider.ret # "OK"
      <4>1. spider.pc = "close" /\ downloads # <<>>
        BY <2>2 DEF Spider!CloseEvent, Spider!At
      <4> QED BY <4>1 DEF SpiderInv, SpiderPlaces
    <3> QED BY <2>2, <3>1 DEF Spider!CloseEvent, Spider!At, SpiderInv, SpiderTypes
  <2> QED BY <2>1, <2>2
<1>2. /\ downloads' \in Seq(Download) /\ Len(downloads') = Len(downloads) - 1
      /\ Spider!InList' = Spider!InList \ {downloads[a].url}
      /\ \A i, j \in DOMAIN downloads' : downloads'[i].url = downloads'[j].url => i = j
      /\ IsFiniteSet(Spider!InList') /\ Cardinality(Spider!InList') = Len(downloads')
  BY <1>1, DownloadRemoved DEF SpiderInv
<1>3. SpiderTypes'
  BY <1>1, <1>2, SiteStays DEF SpiderInv, SpiderTypes
<1>4. Apart'
  <2>1. site.maxthreads \in Nat /\ Len(downloads) \in Nat /\ Len(downloads) <= site.maxthreads
    BY SiteIsSound DEF SpiderInv, SpiderTypes, Apart
  <2>2. Len(downloads') <= site'.maxthreads
    BY <1>1, <1>2, <2>1
  <2> QED BY <1>1, <1>2, <2>2 DEF SpiderInv, Apart
<1>5. SpiderPlaces'
  BY <1>1 DEF SpiderInv, SpiderPlaces
<1>6. NothingIsMissed'
  BY <1>1 DEF NothingIsMissed
<1> QED BY <1>3, <1>4, <1>5, <1>6 DEF SpiderInv

LEMMA EndsKeeps ==
  ASSUME SpiderInv, NEW a \in DOMAIN downloads, Spider!WorkerEnds(a) PROVE SpiderInv'
<1>1. UNCHANGED <<site, spider, todownload, inprogress, downloaded>>
  BY DEF Spider!WorkerEnds
<1>2. PICK how \in {"brought", "failed"} : downloads' = [downloads EXCEPT ![a].work = how]
  BY DEF Spider!WorkerEnds
<1>3. downloads \in Seq(Download)
  BY DEF SpiderInv, SpiderTypes
<1>4. downloads[a] \in Download
  BY <1>3, ElementOfSeq
<1>5. [downloads[a] EXCEPT !.work = how] \in Download
  BY <1>4 DEF Download
<1>6. downloads' \in Seq(Download) /\ Len(downloads') = Len(downloads)
  <2>1. downloads' = [downloads EXCEPT ![a] = [downloads[a] EXCEPT !.work = how]]
    BY <1>2
  <2> QED BY <1>3, <1>5, <2>1
<1>7. /\ DOMAIN downloads' = DOMAIN downloads
      /\ \A i \in DOMAIN downloads : downloads'[i].url = downloads[i].url
  <2>1. DOMAIN downloads' = DOMAIN downloads
    BY <1>2
  <2>2. ASSUME NEW i \in DOMAIN downloads PROVE downloads'[i].url = downloads[i].url
    BY <1>2, <1>4 DEF Download
  <2> QED BY <2>1, <2>2
<1>8. Spider!InList' = Spider!InList
  BY <1>7 DEF Spider!InList
<1>9. SpiderTypes'
  BY <1>1, <1>6, SiteStays DEF SpiderInv, SpiderTypes
<1>10. Apart'
  BY <1>1, <1>6, <1>7, <1>8 DEF SpiderInv, Apart
<1>11. SpiderPlaces'
  <2>1. spider.pc \notin {"init", "mono", "over"} /\ ~(spider.pc = "close" /\ spider.ret = "OK")
    BY DEF SpiderInv, SpiderPlaces
  <2> QED BY <1>1, <2>1 DEF SpiderInv, SpiderPlaces
<1>12. NothingIsMissed'
  <2>1. Seen' = Seen
    BY <1>1 DEF Seen
  <2> QED BY <1>1, <2>1, StillSeen DEF SpiderInv
<1> QED BY <1>9, <1>10, <1>11, <1>12 DEF SpiderInv

LEMMA SpiderKeeps ==
  ASSUME SpiderInv, Spider!SitesAreSound, Spider!Next PROVE SpiderInv'
<1>1. CASE Spider!Manager
  BY <1>1, StartKeeps, MoveKeeps, LaunchedKeeps, FetchKeeps, LeftKeeps, BroughtKeeps
     DEF Spider!Manager
<1>2. CASE Spider!Worker
  BY <1>2, EndsKeeps DEF Spider!Worker
<1> QED BY <1>1, <1>2 DEF Spider!Next

LEMMA SameSize == \A S : Spider!Cardinality(S) = Cardinality(S)
BY DEF Spider!Cardinality, Cardinality, Spider!IsFiniteSet, IsFiniteSet

LEMMA SpiderIsRight ==
  ASSUME SpiderInv, Spider!SitesAreSound PROVE Spider!TypeOK /\ Spider!SiteIsWhole
<1>1. LevelMax \in Nat /\ site.maxthreads \in Nat
  BY SiteIsSound DEF SpiderInv, SpiderTypes
<1>2. Spider!TypeOK
  <2>1. \A info \in UrlInfo : info \in Spider!Info
    BY <1>1 DEF UrlInfo, Spider!Info
  <2>2. ASSUME NEW u \in DOMAIN downloaded
        PROVE  downloaded[u] \in [parsehtml : BOOLEAN, level : 1 .. LevelMax]
    <3>1. downloaded[u] \in [parsehtml : BOOLEAN, level : 1 .. LevelMax - 1]
      BY DEF SpiderInv, SpiderTypes
    <3>2. 1 .. LevelMax - 1 \subseteq 1 .. LevelMax
      BY <1>1
    <3> QED BY <3>1, <3>2
  <2>3. ASSUME NEW i \in DOMAIN downloads
        PROVE  downloads[i] \in [url : Spider!Page, info : Spider!Info,
                                 work : {"runs", "brought", "failed"}]
    <3>1. downloads[i] \in Download
      BY ElementOfSeq DEF SpiderInv, SpiderTypes
    <3> QED BY <2>1, <3>1 DEF Download
  <2> QED BY <2>1, <2>2, <2>3 DEF SpiderInv, SpiderTypes, Spider!TypeOK
<1>3. Spider!OnePlaceEach /\ Len(downloads) <= site.maxthreads
  BY SameSize DEF SpiderInv, Apart, Spider!OnePlaceEach
<1>4. ASSUME spider.pc = "over"
      PROVE  /\ downloads = <<>>
             /\ spider.ret = "OK" => todownload = Spider!Empty /\ inprogress = {}
  <2>1. downloads = <<>>
    BY <1>4 DEF SpiderInv, SpiderPlaces
  <2>2. Spider!InList = {}
    BY <2>1 DEF Spider!InList
  <2> QED BY <1>4, <2>1, <2>2 DEF SpiderInv, SpiderPlaces, Apart
<1>5. ASSUME spider.pc = "over", spider.ret = "OK"
      PROVE  /\ \A i \in DOMAIN site.start :
                  Spider!Wanted(Start(i), 1) => site.start[i] \in DOMAIN downloaded
             /\ \A u \in DOMAIN downloaded : \A link \in Spider!LinksOf(u) :
                  downloaded[u].parsehtml /\ Spider!Wanted(link, downloaded[u].level + 1) =>
                    link.url \in DOMAIN downloaded
  <2>1. Seen = DOMAIN downloaded
    BY <1>4, <1>5 DEF Seen, Spider!Empty
  <2> QED BY <1>5, <2>1 DEF SpiderInv, NothingIsMissed, LinksAreSeen
<1> QED BY <1>2, <1>3, <1>4, <1>5 DEF Spider!SiteIsWhole, Spider!At, Start

LEMMA BruteStays ==
  ASSUME BruteInv,
         UNCHANGED <<search, login, password, list, work, manathr, thrmana, shown>>
  PROVE  BruteInv'
<1>1. /\ Brute!Couple' = Brute!Couple /\ Brute!Threads' = Brute!Threads
  BY DEF Brute!Couple, Brute!Threads
<1>2. Trial' = Trial
  BY <1>1 DEF Trial
<1>3. BruteTypes'
  BY <1>1, <1>2 DEF BruteInv, BruteTypes
<1>4. InOrder'
  BY <1>1 DEF BruteInv, InOrder, Past
<1>5. ThreadsApart'
  BY <1>1 DEF BruteInv, ThreadsApart
<1>6. BrutePlaces'
  BY DEF BruteInv, BrutePlaces, Brute!At
<1>7. NothingIsLost'
  BY <1>1 DEF BruteInv, NothingIsLost, Brute!Answer
<1>8. StopsInTime'
  BY <1>1 DEF BruteInv, StopsInTime, Enough
<1> QED BY <1>3, <1>4, <1>5, <1>6, <1>7, <1>8 DEF BruteInv

LEMMA SpiderStays ==
  ASSUME SpiderInv,
         UNCHANGED <<site, spider, todownload, inprogress, downloaded, downloads>>
  PROVE  SpiderInv'
<1>1. SpiderTypes'
  BY SiteStays DEF SpiderInv, SpiderTypes
<1>2. Apart'
  BY DEF SpiderInv, Apart, Spider!InList
<1>3. SpiderPlaces'
  BY DEF SpiderInv, SpiderPlaces
<1>4. NothingIsMissed'
  <2>1. Seen' = Seen
    BY DEF Seen
  <2> QED BY <2>1, StillSeen DEF SpiderInv
<1> QED BY <1>1, <1>2, <1>3, <1>4 DEF SpiderInv

-----------------------------------------------------------------------------
(* The behaviours that the runs check: one subject acts, the others stay. *)

LEMMA WorkersInitially == MCInit => BruteInv /\ SpiderInv
BY LocksAssumption, BruteInitially, SpiderInitially DEF MCInit

LEMMA WorkersKeep == BruteInv /\ SpiderInv /\ [MCNext]_allvars => BruteInv' /\ SpiderInv'
<1> SUFFICES ASSUME BruteInv, SpiderInv, [MCNext]_allvars PROVE BruteInv' /\ SpiderInv'
  OBVIOUS
<1>1. Brute!Next \/ UNCHANGED brutevars
  BY DEF MCNext, allvars
<1>2. Spider!Next \/ UNCHANGED spidervars
  BY DEF MCNext, allvars
<1>3. BruteInv'
  BY <1>1, BruteKeeps, BruteStays DEF brutevars
<1>4. SpiderInv'
  BY <1>2, LocksAssumption, SpiderKeeps, SpiderStays DEF spidervars
<1> QED BY <1>3, <1>4

LEMMA LocksKeep ==
  Release /\ LockInv /\ WaitInv /\ [MCNext]_allvars => LockInv' /\ WaitInv'
<1> SUFFICES ASSUME Release, LockInv, WaitInv, [MCNext]_allvars PROVE LockInv' /\ WaitInv'
  OBVIOUS
<1>1. [Next]_vars
  BY DEF MCNext, allvars
<1>2. [WaitNext]_waitvars
  <2>1. Poller \subseteq Waiter /\ Alone \subseteq Cond
    BY LocksAssumption DEF WaitSetAssumption
  <2> QED BY <2>1 DEF MCNext, allvars, ActsIn, WaitNext
<1> QED BY <1>1, <1>2, NextStep, PollKeeps

\* Never more threads than asked at the same time, none left when it ends, and
\* every job done once: each couple tried and shown unless a good one stops the
\* search, each url of a site in one hash and, without an error, all that the
\* pages refer to downloaded (brute.c:104-312, webspidermt.c:118-215).
THEOREM JobsDone == MCSpec => []JobsAreDone
<1>1. BruteInv /\ SpiderInv => JobsAreDone
  BY LocksAssumption, BruteIsRight, SpiderIsRight DEF JobsAreDone
<1> QED BY <1>1, WorkersInitially, WorkersKeep, PTL DEF MCSpec

\* The types of the locks, of the waits, of the search, of the spider, of the
\* cache of names and of the configuration, in the behaviours that compose them
\* (threadrwl_netwib.c, threadcond_posix.c, wait.c, waitlist.c, brute.c,
\* webspidermt.c, dnscache.c, conf.c).
THEOREM TypesCorrect == ASSUME Release, ~AsDocumented PROVE MCSpec => []TypesOK
<1>1. MCInit => LockInv /\ WaitInv
  BY InitLockInv, PollInitially DEF MCInit
<1>2. LockInv /\ WaitInv /\ [MCNext]_allvars => LockInv' /\ WaitInv'
  BY LocksKeep
<1>3. LockInv => TypeOK
  BY CountedCard DEF LockInv, LockTypes, Counter, TypeOK
<1>4. SharedInv => Names!TypeOK /\ Network!TypeOK
  BY LocksAssumption, NamesTrue, ConfTrue DEF SharedInv
<1>5. LockInv /\ WaitInv /\ BruteInv /\ SpiderInv /\ SharedInv => TypesOK
  BY <1>3, <1>4, LocksAssumption, Strengthens, BruteIsRight, SpiderIsRight DEF TypesOK
<1>6. MCInit => SharedInv
  BY SharedInitially
<1>7. SharedInv /\ [MCNext]_allvars => SharedInv'
  BY SharedKeep
<1> QED BY <1>1, <1>2, <1>5, <1>6, <1>7, WorkersInitially, WorkersKeep, PTL DEF MCSpec
=============================================================================
