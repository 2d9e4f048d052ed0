-------------------------------- MODULE Brute --------------------------------
(***************************************************************************)
(* The search of a login and a password (netwox modules/brute.c).  A       *)
(* manager launches one thread per couple to try, never more than          *)
(* numthread at a time, and waits for their ends through a list of         *)
(* threads; with one thread it tries the couples itself.                   *)
(*                                                                         *)
(* The walk of netwib_threadlist_wait is detailed, since threads end while *)
(* it goes on; how a thread ends and is joined is that of ThreadJoin.      *)
(***************************************************************************)
EXTENDS Integers, Sequences, FiniteSets

CONSTANT Setups   \* [logins, passwords, numthread, stop]: bounds of the check

VARIABLES
  search,    \* the parameters and the locals of netwox_brute
  login,     \* where the index of logins stands
  password,  \* where the index of passwords stands, 0 before the first one
  list,      \* the list of threads: the couple and the id of each
  work,      \* how the trial of each couple went
  manathr,   \* couples whose netwox_brute_mt_manathr is allocated
  thrmana,   \* couples whose netwox_brute_mt_thrmana is allocated
  shown      \* history: couples whose result was displayed

\* Numbers as the code keeps them; no number of threads is refused.
SetupsAreSound ==
  \A setup \in Setups :
    {setup.logins, setup.passwords, setup.numthread} \subseteq Nat
    /\ setup.stop \in BOOLEAN

vars == <<search, login, password, list, work, manathr, thrmana, shown>>

Couple == (1 .. search.logins) \X (1 .. search.passwords)

\* What pfunc answers; "retry" is asked again, and changes nothing.
Answer == {"good", "bad", "error"}

Init ==
  /\ \E setup \in Setups :
       search = [pc |-> "init", more |-> TRUE, threadid |-> 1, abstime |-> "unset",
                 at |-> 1, ret |-> "OK", logins |-> setup.logins,
                 passwords |-> setup.passwords,
                 numthread |-> setup.numthread, stop |-> setup.stop]
  /\ login = 0 /\ password = 0 /\ list = <<>>
  /\ work = [c \in Couple |-> "none"]
  /\ manathr = {} /\ thrmana = {} /\ shown = {}

At(pc) == search.pc = pc
Goes(pc) == search' = [search EXCEPT !.pc = pc]

\* netwox_brute: the first login is taken at once.
Begin ==
  /\ At("init")
  /\ IF search.logins = 0
     THEN /\ search' = [search EXCEPT !.pc = "over", !.ret = "DATAEND"]
          /\ UNCHANGED login
     ELSE /\ Goes(IF search.numthread <= 1 THEN "mono" ELSE "launch")
          /\ login' = 1
  /\ UNCHANGED <<password, list, work, manathr, thrmana, shown>>

\* netwox_brute_nextcouple: the passwords of a login, then the next login.
MoreCouples == \/ password < search.passwords
               \/ login < search.logins /\ search.passwords # 0

NextCouple == IF password < search.passwords THEN <<login, password + 1>>
                                             ELSE <<login + 1, 1>>

Takes(c) == MoreCouples /\ c = NextCouple /\ login' = c[1] /\ password' = c[2]

\* netwox_brute_core_monothread
Try(c, answer) ==
  /\ At("mono")
  /\ Takes(c)
  /\ work' = [work EXCEPT ![c] = answer]
  /\ shown' = IF answer = "error" THEN shown ELSE shown \union {c}
  /\ CASE answer = "error" -> search' = [search EXCEPT !.pc = "over", !.ret = "ERROR"]
       [] answer = "good" /\ search.stop -> Goes("over")
       [] OTHER -> UNCHANGED search
  /\ UNCHANGED <<list, manathr, thrmana>>

TryEnd ==
  /\ At("mono") /\ ~MoreCouples
  /\ Goes("over")
  /\ UNCHANGED <<login, password, list, work, manathr, thrmana, shown>>

-----------------------------------------------------------------------------
(* netwox_brute_core_multithread, the manager *)

MayLaunch == search.more /\ Len(list) < search.numthread

\* A thread is launched; what has ended is then looked at without waiting.
Launch(c) ==
  /\ At("launch") /\ MayLaunch
  /\ Takes(c)
  /\ manathr' = manathr \union {c}
  /\ work' = [work EXCEPT ![c] = "runs"]
  /\ list' = Append(list, [couple |-> c, id |-> search.threadid])
  /\ search' = [search EXCEPT !.pc = "wait", !.abstime = "ZERO", !.at = 1,
                               !.threadid = @ + 1]
  /\ UNCHANGED <<thrmana, shown>>

\* No thread is launched; the end of one is awaited.  An empty list ends all.
LaunchNone ==
  /\ At("launch")
  /\ ~(MayLaunch /\ MoreCouples)
  /\ search' = [search EXCEPT !.pc = IF list = <<>> THEN "close" ELSE "wait",
                               !.abstime = "INFINITE", !.at = 1,
                               !.more = @ /\ ~MayLaunch]
  /\ UNCHANGED <<login, password, list, work, manathr, thrmana, shown>>

Waits == At("wait") \/ At("close")
Here == list[search.at]
Asked == work[Here.couple]

\* The thread where the walk stands has not ended.
WaitNext ==
  /\ Waits /\ search.at <= Len(list)
  /\ Asked = "runs"
  /\ search' = [search EXCEPT !.at = @ + 1]
  /\ UNCHANGED <<login, password, list, work, manathr, thrmana, shown>>

WaitTurn ==
  /\ Waits /\ list # <<>> /\ search.at > Len(list)
  /\ search' = [search EXCEPT !.at = 1,
                   !.pc = IF At("wait") /\ search.abstime = "ZERO" THEN "launch" ELSE @]
  /\ UNCHANGED <<login, password, list, work, manathr, thrmana, shown>>

Removed == SubSeq(list, 1, search.at - 1)
             \o SubSeq(list, search.at + 1, Len(list))

\* A thread that ended is closed, and its id goes to threadid.  A good result
\* may stop the launches; an error leaves the loop.
WaitEvent ==
  /\ At("wait") /\ search.at <= Len(list)
  /\ Asked \in Answer
  /\ list' = Removed
  /\ IF Asked = "error"
     THEN /\ search' = [search EXCEPT !.pc = "close", !.ret = "ERROR",
                                       !.threadid = Here.id, !.at = 1]
          /\ UNCHANGED <<thrmana, shown>>
     ELSE /\ search' = [search EXCEPT !.pc = "launch", !.threadid = Here.id,
                          !.more = @ /\ ~(Asked = "good" /\ search.stop)]
          /\ shown' = shown \union {Here.couple}
          /\ thrmana' = thrmana \ {Here.couple}
  /\ UNCHANGED <<login, password, work, manathr>>

\* netwib_threadlist_close: what the other threads answer is not read.
CloseEvent ==
  /\ At("close") /\ search.at <= Len(list)
  /\ Asked \in Answer
  /\ list' = Removed
  /\ search' = [search EXCEPT !.at = 1]
  /\ UNCHANGED <<login, password, work, manathr, thrmana, shown>>

CloseEnd ==
  /\ At("close") /\ list = <<>>
  /\ Goes("over")
  /\ UNCHANGED <<login, password, list, work, manathr, thrmana, shown>>

Manager ==
  \/ Begin \/ TryEnd \/ LaunchNone \/ WaitNext \/ WaitTurn \/ WaitEvent
  \/ CloseEvent \/ CloseEnd
  \/ \E c \in Couple : Launch(c)
  \/ \E c \in Couple, answer \in Answer : Try(c, answer)

-----------------------------------------------------------------------------
\* netwox_brute_mt_core, the thread of the couple c
WorkerEnds(c) ==
  /\ work[c] = "runs"
  /\ \E answer \in Answer :
       /\ work' = [work EXCEPT ![c] = answer]
       /\ IF answer = "error" THEN UNCHANGED <<manathr, thrmana>>
          ELSE manathr' = manathr \ {c} /\ thrmana' = thrmana \union {c}
  /\ UNCHANGED <<search, login, password, list, shown>>

Worker == \E c \in Couple : WorkerEnds(c)

Next == Manager \/ Worker

-----------------------------------------------------------------------------
Threads == {list[i].couple : i \in DOMAIN list}
Running == {c \in Couple : work[c] = "runs"}
Tried == {c \in Couple : work[c] \in Answer}

TypeOK ==
  /\ search.pc \in {"init", "mono", "launch", "wait", "close", "over"}
  /\ search.more \in BOOLEAN /\ search.threadid \in Nat
  /\ search.abstime \in {"unset", "ZERO", "INFINITE"}
  /\ search.at \in 1 .. search.numthread + 1
  /\ search.ret \in {"OK", "DATAEND", "ERROR"}
  /\ login \in 0 .. search.logins /\ password \in 0 .. search.passwords
  /\ Threads \subseteq Couple
  /\ work \in [Couple -> Answer \union {"none", "runs"}]
  /\ manathr \subseteq Couple /\ thrmana \subseteq Couple
  /\ shown \subseteq Couple

\* "We ensure to not have more than numthread at the same time" (brute.c:104),
\* and no thread outlives the search.  Without an error every couple was tried
\* once and its result shown, unless a good one had to stop the search, and
\* nothing that threads and manager allocate for each other is left
\* (brute.c:113, 164, 253-312).
SearchIsComplete ==
  /\ Cardinality(Running) <= search.numthread
  /\ Cardinality(Threads) = Len(list) /\ Running \subseteq Threads
  /\ At("over") =>
       /\ Running = {} /\ list = <<>>
       /\ search.ret = "OK" =>
            /\ manathr = {} /\ thrmana = {}
            /\ shown = Tried
            /\ \/ Tried = Couple
               \/ search.stop /\ \E c \in Tried : work[c] = "good"

\* The search ends once the hosts have answered (brute.c:256-312).
SearchEnds == <>At("over")
=============================================================================
