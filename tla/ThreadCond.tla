----------------------------- MODULE ThreadCond -----------------------------
(***************************************************************************)
(* Conditions of netwib (sys/pieces/threadcond_posix.c): a flag and a      *)
(* value under a mutex, and a POSIX condition on which threads sleep.      *)
(*                                                                         *)
(* Each call holds the mutex from its start to its end, except while it    *)
(* sleeps in pthread_cond_wait, so that a call is one step, or two.        *)
(***************************************************************************)
EXTENDS Integers, Sequences, FiniteSets, EndTime

CONSTANTS
  Cond,       \* conditions
  Waiter,     \* threads that wait for them
  Value,      \* values that are broadcast
  Notset,     \* what an unset value contains
  DebugBuild  \* NETWIB_DEBUG_NOTSET: reinit writes over the value

VARIABLES
  reached,    \* fields of each condition
  value,
  sleep,      \* where each thread is in netwib_thread_cond_wait
  event,      \* *pevent and *pvalue of its last call
  pvalue,
  heard       \* the values it could be told (kept by the model only)
condvars == <<reached, value, sleep, event, pvalue, heard>>

Awake == [at |-> "awake", cond |-> Notset, endless |-> FALSE]

CondInit ==
  /\ reached = [c \in Cond |-> FALSE]
  /\ value = [c \in Cond |-> Notset]
  /\ sleep = [t \in Waiter |-> Awake]
  /\ event = [t \in Waiter |-> FALSE]
  /\ pvalue = [t \in Waiter |-> Notset]
  /\ heard = [t \in Waiter |-> {}]

In(t, at, c) == sleep[t].at = at /\ sleep[t].cond = c
Woken(S) ==
  [t \in Waiter |-> IF t \in S THEN [sleep[t] EXCEPT !.at = "woken"] ELSE sleep[t]]

(* The fields of the condition, and what those who wait for it may be told. *)
Reaches(c, v) ==
  /\ reached' = [reached EXCEPT ![c] = TRUE]
  /\ value' = [value EXCEPT ![c] = v]
  /\ heard' = [t \in Waiter |-> heard[t] \union {w \in {v} : sleep[t].cond = c}]

(* Faulty form: one thread only is woken, as by pthread_cond_signal. *)
FaultyBroadcast(c, v) ==
  /\ Reaches(c, v)
  /\ LET asleep == {t \in Waiter : In(t, "asleep", c)}
     IN  sleep' = IF asleep = {} THEN sleep
                  ELSE Woken({CHOOSE t \in asleep : TRUE})
  /\ UNCHANGED <<event, pvalue>>

(* All those who sleep on c are woken; those whose end time is reached, but
   who have not the mutex yet, stay late. *)
Broadcast(c, v) ==
  /\ Reaches(c, v)
  /\ sleep' = Woken({t \in Waiter : In(t, "asleep", c)})
  /\ UNCHANGED <<event, pvalue>>

Reinit(c) ==
  /\ reached' = [reached EXCEPT ![c] = FALSE]
  /\ value' = IF DebugBuild THEN [value EXCEPT ![c] = Notset] ELSE value
  /\ UNCHANGED <<sleep, event, pvalue, heard>>

(* netwib_thread_cond_wait: the condition is reached, or the thread sleeps. *)
Wait(t, c, when) ==
  /\ sleep[t].at = "awake"
  /\ \/ /\ reached[c]
        /\ event' = [event EXCEPT ![t] = TRUE]
        /\ pvalue' = [pvalue EXCEPT ![t] = value[c]]
        /\ heard' = [heard EXCEPT ![t] = {value[c]}]
        /\ UNCHANGED sleep
     \/ /\ ~reached[c]
        /\ sleep' = [sleep EXCEPT ![t] =
             [at |-> "asleep", cond |-> c, endless |-> when = "INFINITE"]]
        /\ heard' = [heard EXCEPT ![t] = {}]
        /\ UNCHANGED <<event, pvalue>>
  /\ UNCHANGED <<reached, value>>

TimeOut(t) ==
  /\ sleep[t].at = "asleep" /\ ~sleep[t].endless
  /\ sleep' = [sleep EXCEPT ![t].at = "late"]
  /\ UNCHANGED <<reached, value, event, pvalue, heard>>

(* The thread has the mutex again: it trusts what pthread_cond_wait returned
   and does not look at the flag, which a reinit may have reset.  The spurious
   wakeups that POSIX allows are left out: the call takes them for events. *)
WakeUp(t) ==
  /\ sleep[t].at = "woken"
  /\ event' = [event EXCEPT ![t] = TRUE]
  /\ pvalue' = [pvalue EXCEPT ![t] = value[sleep[t].cond]]
  /\ sleep' = [sleep EXCEPT ![t] = Awake]
  /\ UNCHANGED <<reached, value, heard>>

GiveUp(t) ==
  /\ sleep[t].at = "late"
  /\ event' = [event EXCEPT ![t] = FALSE]
  /\ sleep' = [sleep EXCEPT ![t] = Awake]
  /\ UNCHANGED <<reached, value, pvalue, heard>>

(* The program has read what its call returned (kept by the model only). *)
Forget(t) ==
  /\ sleep[t].at = "awake"
  /\ event' = [event EXCEPT ![t] = FALSE]
  /\ pvalue' = [pvalue EXCEPT ![t] = Notset]
  /\ heard' = [heard EXCEPT ![t] = {}]
  /\ UNCHANGED <<reached, value, sleep>>

Slept(t) == TimeOut(t) \/ WakeUp(t) \/ GiveUp(t)

-----------------------------------------------------------------------------
CondTypeOK ==
  /\ reached \in [Cond -> BOOLEAN] /\ value \in [Cond -> Value \union {Notset}]
  /\ event \in [Waiter -> BOOLEAN] /\ pvalue \in [Waiter -> Value \union {Notset}]
  /\ \A t \in Waiter : sleep[t].at \in {"awake", "asleep", "woken", "late"}

(* A wait that says that its condition is reached gives a value that was in
   force when it began, or was broadcast since, never an unset one, even when
   another broadcast or a reinit comes before the thread has the mutex
   (threadcond_posix.c:100-102, 126-159). *)
ValueIsReal ==
  \A t \in Waiter :
    event[t] /\ sleep[t].at = "awake" => pvalue[t] \in heard[t] \ {Notset}

(* Nobody sleeps on a condition that is reached: no wakeup is lost
   (threadcond.h:34-36, "Inform every waiting thread"). *)
NobodySleepsOn ==
  \A t \in Waiter, c \in Cond : In(t, "asleep", c) => ~reached[c]
=============================================================================
