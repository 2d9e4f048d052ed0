------------------------------ MODULE WaitSet ------------------------------
(***************************************************************************)
(* Waits for one of several events, by polling: netwib_wait_wait5          *)
(* (sys/wait.c) and netwib_waitlist_wait (sys/waitlist.c), over waits for  *)
(* conditions.  Threads wait for conditions, alone or with others, while a *)
(* program broadcasts and resets them.                                     *)
(***************************************************************************)
EXTENDS ThreadCond

CONSTANTS
  Poller,   \* threads that poll; the others wait for one condition, asleep
  Lists,    \* the sequences of conditions that the first wait for
  Alone     \* the conditions that the others wait for

WaitSetAssumption ==
  /\ Poller \subseteq Waiter /\ Alone \subseteq Cond
  /\ Lists \subseteq Seq(Cond)
  /\ Notset \notin Cond /\ Notset \notin Value

VARIABLES
  poll,     \* the locals of the call of each poller, then its result
  steady,   \* conditions reached since the call began, without a reset
  since     \* conditions reached at some time since it began
waitvars == <<condvars, poll, steady, since>>

NoPoll == [pc |-> "idle", of |-> "wait5", abstime |-> "ZERO", waits |-> <<>>,
           pos |-> 1, got |-> {}, ret |-> "OK"]

WaitInit ==
  /\ CondInit
  /\ poll = [t \in Poller |-> NoPoll]
  /\ steady = [t \in Poller |-> {}] /\ since = [t \in Poller |-> {}]

Watched(t) == {poll[t].waits[i] : i \in DOMAIN poll[t].waits}
Reached == {c \in Cond : reached[c]}
Running(t) == poll[t].pc \in {"clock", "scan", "answer"}

-----------------------------------------------------------------------------
(* The program *)

ProgramBroadcast(c, v) ==
  /\ Broadcast(c, v)
  /\ since' = [t \in Poller |-> IF Running(t) THEN since[t] \union {c}
                                                  ELSE since[t]]
  /\ UNCHANGED <<poll, steady>>

ProgramReinit(c) ==
  /\ Reinit(c)
  /\ steady' = [t \in Poller |-> steady[t] \ {c}]
  /\ UNCHANGED <<poll, since>>

DirectWait(t, c, when) ==
  t \notin Poller /\ Wait(t, c, when) /\ UNCHANGED <<poll, steady, since>>

(* netwib_wait_wait5 and netwib_waitlist_wait.  ret is a local variable of
   the second one. *)
PollCall(t, of, waits, when) ==
  /\ poll[t].pc = "idle"
  /\ poll' = [poll EXCEPT ![t] =
       [pc |-> IF when = "TIMED" THEN "clock" ELSE "scan",
        of |-> of, abstime |-> when, waits |-> waits, pos |-> 1, got |-> {},
        ret |-> IF of = "waitlist" THEN "LOINTERNALERROR" ELSE "OK"]]
  /\ steady' = [steady EXCEPT ![t] = Reached]
  /\ since' = [since EXCEPT ![t] = Reached]
  /\ UNCHANGED condvars

(* The program has read the result. *)
PollRead(t) ==
  /\ poll[t].pc = "done"
  /\ poll' = [poll EXCEPT ![t] = NoPoll]
  /\ steady' = [steady EXCEPT ![t] = {}]
  /\ since' = [since EXCEPT ![t] = {}]
  /\ UNCHANGED condvars

-----------------------------------------------------------------------------
(* The turns of a call *)

Poll(t, from, next) ==
  /\ poll[t].pc = from
  /\ poll' = [poll EXCEPT ![t] = next]
  /\ UNCHANGED <<steady, since>>

(* Each wait of the turn is asked without waiting. *)
Ask(t) ==
  /\ poll[t].pos <= Len(poll[t].waits)
  /\ Poll(t, "scan", [poll[t] EXCEPT !.pc = "answer"])
  /\ Wait(t, poll[t].waits[poll[t].pos], "ZERO")

Answer(t) ==
  /\ LET now == IF event[t] THEN {poll[t].waits[poll[t].pos]} ELSE {}
     IN  Poll(t, "answer", [poll[t] EXCEPT !.pc = "scan", !.pos = @ + 1,
                                          !.got = @ \union now])
  /\ Forget(t)

(* Faulty form: the next turn goes on where the last one ended. *)
FaultyTurn(t) == [poll[t] EXCEPT !.pc = "scan"]

Turn(t) == [poll[t] EXCEPT !.pc = "scan", !.pos = 1, !.got = {}]

(* At the end of a turn, the call returns what it got, or goes on; with
   NETWIB_TIME_ZERO netwib_waitlist_wait goes on into its timed loop. *)
TurnEnd(t) ==
  /\ poll[t].pos > Len(poll[t].waits)
  /\ \/ /\ poll[t].abstime = "ZERO" /\ poll[t].of = "wait5"
        /\ Poll(t, "scan", [poll[t] EXCEPT !.pc = "done"])
     \/ /\ poll[t].abstime = "ZERO" /\ poll[t].of = "waitlist"
        /\ Poll(t, "scan", [poll[t] EXCEPT !.pc = "clock"])
     \/ /\ poll[t].abstime # "ZERO" /\ poll[t].got # {}
        /\ Poll(t, "scan", [poll[t] EXCEPT !.pc = "done", !.ret = "OK"])
     \/ /\ poll[t].abstime = "TIMED" /\ poll[t].got = {}
        /\ Poll(t, "scan", [poll[t] EXCEPT !.pc = "clock", !.ret = "OK"])
     \/ /\ poll[t].abstime = "INFINITE" /\ poll[t].got = {}
        /\ Poll(t, "scan", Turn(t))
  /\ UNCHANGED condvars

(* netwib_time_iselapsed, which is true of NETWIB_TIME_ZERO. *)
Clock(t, elapsed) ==
  /\ poll[t].abstime = "ZERO" => elapsed
  /\ Poll(t, "clock", IF elapsed THEN [poll[t] EXCEPT !.pc = "done", !.got = {}]
                                  ELSE Turn(t))
  /\ UNCHANGED condvars

PollStep(t) ==
  \/ Ask(t) \/ Answer(t) \/ TurnEnd(t)
  \/ \E elapsed \in BOOLEAN : Clock(t, elapsed)

-----------------------------------------------------------------------------
WaitStep(t) ==
  \/ Slept(t) /\ UNCHANGED <<poll, steady, since>>
  \/ t \in Poller /\ PollStep(t)

(* The program changes the conditions, and makes calls. *)
Change(c) == ProgramReinit(c) \/ \E v \in Value : ProgramBroadcast(c, v)

WaitCall(t) ==
  \/ \E c \in Alone, when \in AbsTime : DirectWait(t, c, when)
  \/ t \notin Poller /\ event[t] /\ Forget(t)
     /\ UNCHANGED <<poll, steady, since>>
  \/ t \in Poller /\ PollRead(t)
  \/ t \in Poller /\ \E waits \in Lists, when \in AbsTime :
       PollCall(t, "wait5", waits, when) \/ PollCall(t, "waitlist", waits, when)

WaitNext == (\E c \in Cond : Change(c)) \/ \E t \in Waiter : WaitCall(t) \/ WaitStep(t)

(* The scheduler runs the threads that are inside a call. *)
WaitFairness == \A t \in Waiter : WF_waitvars(WaitStep(t))
WaitSpec == WaitInit /\ [][WaitNext]_waitvars /\ WaitFairness

-----------------------------------------------------------------------------
WaitTypeOK ==
  /\ CondTypeOK
  /\ \A t \in Poller :
       /\ poll[t].pc \in {"idle", "clock", "scan", "answer", "done"}
       /\ poll[t].pos \in 1 .. Len(poll[t].waits) + 1
       /\ poll[t].got \subseteq Watched(t) /\ steady[t] \subseteq Reached

(* What a call returns once it is done: it names only conditions that were
   reached while it ran, and, unless its end time came, each one that was
   reached from its start to its end; when it names none, its time is over. *)
Tells(t) ==
  poll[t].pc = "done" =>
    /\ poll[t].got \subseteq since[t]
    /\ poll[t].abstime # "TIMED" =>
         steady[t] \intersect Watched(t) \subseteq poll[t].got
    /\ poll[t].abstime = "INFINITE" => poll[t].got # {}

(* The events of conditions: ValueIsReal and NobodySleepsOn of ThreadCond,
   and what netwib_wait_wait5 and the waits of a list that are not of
   NETWIB_TIME_ZERO return (wait.c:207-334, waitlist.c:108-209). *)
EventsAreReal ==
  /\ ValueIsReal /\ NobodySleepsOn
  /\ \A t \in Poller :
       (poll[t].of = "waitlist" => poll[t].abstime # "ZERO") => Tells(t)

(* Whoever waits for a condition, alone or among others, returns once the
   condition is reached for good. *)
WaitsFor(t, c) ==
  sleep[t].cond = c \/ (t \in Poller /\ Running(t) /\ c \in Watched(t))
WaitsReturn ==
  \A t \in Waiter, c \in Cond :
    <>[]reached[c] => [](WaitsFor(t, c) => <>~WaitsFor(t, c))
=============================================================================
