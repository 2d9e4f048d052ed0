------------------------------ MODULE IoChain ------------------------------
(***************************************************************************)
(* netwib io chains (sys/io.c, sys/ionew.c, sys/priv/io.c) and the         *)
(* compound ios that use other ios (sys/pieces/iousual_rdwr.c,             *)
(* iousual_tee.c, iousual_debug.c).                                        *)
(*                                                                         *)
(* Each link counts its users per way; netwib_io_close frees the links of  *)
(* a chain whose counters are zero, pass after pass, until a pass frees    *)
(* nothing.  The pfclose callback of a compound io gives back the uses it  *)
(* had and may call netwib_io_close on its ios, in the middle of the close *)
(* that is freeing the compound io: calls is the stack of these calls.     *)
(* The library gives these functions no lock: one thread runs them, so     *)
(* that only netwib_io_close is cut into steps (its loop, and the calls of *)
(* the pfclose callbacks, which may fail).                                 *)
(*                                                                         *)
(* A counter is an unbounded integer: the code tests it against zero only, *)
(* and 2^32 users are out of reach; below zero stands for a wrapped one.   *)
(***************************************************************************)
EXTENDS IoGraph, Sequences, Functions

CONSTANTS Kinds,         \* the kinds of compound ios that callers make
          SupportSets,   \* the ways a new link may support
          CallTypes,     \* the way types that callers pass
          LossTypes,     \* the way types whose support links give up
          SelfUnplug,    \* callers may unplug before the head of their chain
          SharedHold,    \* the ios closed along with one may share links
          PfcloseFails,  \* a pfclose callback may return an error
          NestedFails    \* also in a close that the close of a compound io makes

ASSUME ConfigAssumption ==
  /\ Kinds \subseteq {"rdwr", "tee", "debug"}
  /\ SupportSets \subseteq SUBSET Way
  /\ CallTypes \subseteq WayType
  /\ LossTypes \subseteq WayType
  /\ {SelfUnplug, SharedHold, PfcloseFails, NestedFails} \subseteq BOOLEAN

VARIABLES alive,      \* allocated links
          supported,  \* supported[x]: the ways x supports
          pnext,      \* pnext[w][x]
          numusers,   \* numusers[w][x]
          held,       \* what a compound io uses, and what it will close
          calls,      \* the calls of netwib_io_close, the innermost one last
          before,     \* history: the links when the outermost call began
          ret,        \* code returned by the last call
          ppio        \* caller's pointer after netwib_io_close

vars == <<alive, supported, pnext, numusers, held, calls, before, ret, ppio>>

NoUse == [w \in Way |-> {}]      \* nobody, in each way
NotHeld == [use |-> NoUse, ends |-> <<>>]
NoLinks == [w \in Way |-> [x \in Io |-> NULL]]
NoSnapshot == [alive |-> {}, pnext |-> NoLinks, held |-> [x \in Io |-> NotHeld]]

Init ==
  /\ alive = {}
  /\ supported = [x \in Io |-> {}]
  /\ pnext = NoLinks
  /\ numusers = [w \in Way |-> [x \in Io |-> 0]]
  /\ held = [x \in Io |-> NotHeld]
  /\ calls = <<>>
  /\ before = NoSnapshot
  /\ ret = "OK"
  /\ ppio = NULL

----------------------------------------------------------------------------
(* Helpers *)

\* The ways that the argument "type" of a call stands for.
WaysOf(t, x) ==
  IF t = "SUPPORTED" THEN supported[x]
  ELSE [READ |-> {"rd"}, WRITE |-> {"wr"}, RDWR |-> Way][t]

\* A link or NULL for each way: a in the given ways.
In(ways, a) == [w \in Way |-> IF w \in ways THEN a ELSE NULL]

SetOf(a) == {a} \ {NULL}
NextOf(w, a) == IF a = NULL THEN NULL ELSE pnext[w][a]

\* numusers++ on the links of plus[w], numusers-- on those of minus[w].
Recounted(plus, minus) ==
  [w \in Way |-> [x \in Io |->
     numusers[w][x] + (IF x \in plus[w] THEN 1 ELSE 0)
                    - (IF x \in minus[w] THEN 1 ELSE 0)]]

Return(code) == ret' = code /\ ppio' = NULL

Fail(code) ==
  /\ Return(code)
  /\ UNCHANGED <<alive, supported, pnext, numusers, held, calls, before>>

\* The chain is cut after at[w]; user[w] loses a user.
CutAfter(at, user) ==
  /\ pnext' = Relinked(pnext, at, NULL)
  /\ numusers' = Recounted(NoUse, [w \in Way |-> SetOf(user[w])])
  /\ Return("OK")
  /\ UNCHANGED <<alive, supported, held, calls, before>>

----------------------------------------------------------------------------
(* Building and cutting chains *)

\* netwib_io_init
Create(x, ways) ==
  /\ calls = <<>>
  /\ x \notin alive
  /\ alive' = alive \cup {x}
  /\ supported' = [supported EXCEPT ![x] = ways]
  /\ pnext' = [w \in Way |-> [pnext[w] EXCEPT ![x] = NULL]]
  /\ numusers' = [w \in Way |-> [numusers[w] EXCEPT ![x] = 0]]
  /\ Return("OK")
  /\ UNCHANGED <<held, calls, before>>

\* The ways a plug touches.
PlugWays(p, t, q) == IF t = "SUPPORTED" THEN supported[p] \cap supported[q]
                     ELSE WaysOf(t, p)

\* Callers build chains from the program towards the final links (io.h:14),
\* so that plugging never closes a loop, in one way, across the two or
\* through a compound io.
Uses == [x \in Io |-> held[x].use]

NoLoop(p, t, q) ==
  LET below == Below(pnext, Uses, q)
  IN  \A w \in PlugWays(p, t, q) :
         Ends(pnext[w], p) /\ Last(pnext[w], p) \notin below

Plug(p, t, q) ==
  /\ calls = <<>>
  /\ {p, q} \subseteq alive
  /\ NoLoop(p, t, q)
  /\ LET ways == PlugWays(p, t, q)
     IN  /\ pnext' = Relinked(pnext, [w \in Way |-> IF w \in ways
                                       THEN Last(pnext[w], p) ELSE NULL], q)
         /\ numusers' = Recounted([w \in Way |-> IF w \in ways THEN {q}
                                                 ELSE {}], NoUse)
  /\ Return("OK")
  /\ UNCHANGED <<alive, supported, held, calls, before>>

\* The caller asks for the next link of x, and the two ways disagree.
Conflict(p, t, x, wantnext) ==
  /\ wantnext
  /\ t = "RDWR" \/ (t = "SUPPORTED" /\ supported[p] = Way)
  /\ pnext["rd"][x] # pnext["wr"][x]

UnplugNext(p, t, wantnext) ==
  /\ calls = <<>>
  /\ p \in alive
  /\ IF Conflict(p, t, p, wantnext)
     THEN Fail("CONFLICT")
     ELSE LET at == In(IF t = "SUPPORTED" THEN Way ELSE WaysOf(t, p), p)
          IN  CutAfter(at, [w \in Way |-> NextOf(w, at[w])])

\* netwib_priv_io_search fails in one of the ways.
NotFound(p, t, s) == \E w \in WaysOf(t, p) : ~Found(pnext[w], p, s)

\* Faulty form: both counters go down whatever the way asked for.
UnplugBeforeMiscount(p, t, s) ==
  /\ calls = <<>>
  /\ {p, s} \subseteq alive
  /\ s # p
  /\ ~NotFound(p, t, s)
  /\ CutAfter([w \in Way |-> IF w \in WaysOf(t, p)
                             THEN Prev(pnext[w], p, s) ELSE NULL],
              In(Way, s))

UnplugBefore(p, t, s) ==
  /\ calls = <<>>
  /\ {p, s} \subseteq alive
  /\ SelfUnplug \/ s # p
  /\ IF NotFound(p, t, s)
     THEN Fail("NOTFOUND")
     ELSE LET ways == WaysOf(t, p)
          IN  CutAfter([w \in Way |-> IF w \in ways
                                      THEN Prev(pnext[w], p, s) ELSE NULL],
                       In(ways, s))

UnplugAfter(p, t, s, wantafter) ==
  /\ calls = <<>>
  /\ {p, s} \subseteq alive
  /\ IF NotFound(p, t, s)
     THEN Fail("NOTFOUND")
     ELSE IF Conflict(p, t, s, wantafter)
     THEN Fail("CONFLICT")
     ELSE LET at == In(WaysOf(t, p), s)
          IN  CutAfter(at, [w \in Way |-> NextOf(w, at[w])])

\* netwib_io_ctl_set_support(FALSE): a link that reached its end gives up
\* some of its ways.
LoseSupport(x, t) ==
  /\ calls = <<>>
  /\ x \in alive
  /\ supported[x] \cap WaysOf(t, x) # {}
  /\ supported' = [supported EXCEPT ![x] = @ \ WaysOf(t, x)]
  /\ Return("OK")
  /\ UNCHANGED <<alive, pnext, numusers, held, calls, before>>

----------------------------------------------------------------------------
(* Compound ios: rdwr reads from a and writes to b, tee does both on both, *)
(* debug reports to a what is done on b.                                   *)

\* Faulty form: the written io is not counted.
UseOfReadOnly(kind, a, b) ==
  [w \in Way |-> IF w = "rd" THEN {a} ELSE {}]

UseOf(kind, a, b) ==
  [rdwr |-> [w \in Way |-> IF w = "rd" THEN {a} ELSE {b}],
   tee |-> [w \in Way |-> {a, b}],
   debug |-> [w \in Way |-> (IF w = "wr" THEN {a} ELSE {})
                            \cup (IF w \in supported[b] THEN {b} ELSE {})]][kind]

\* A compound io is a link that supports both ways, and has no next one yet.
\* Callers give a tee or a debug io two different ios, and a debug io one
\* that still supports some way: it counts itself as a user of b in the ways
\* b supports, so that of a mute b it would not be a user at all.
HolderInit(h, kind, a, b, atend) ==
  /\ calls = <<>>
  /\ h \notin alive
  /\ {a, b} \subseteq alive
  /\ kind = "rdwr" \/ a # b
  /\ kind = "debug" => supported[b] # {}
  /\ alive' = alive \cup {h}
  /\ supported' = [supported EXCEPT ![h] = Way]
  /\ numusers' = Recounted(UseOf(kind, a, b), NoUse)
  /\ held' = [held EXCEPT ![h] = [use |-> UseOf(kind, a, b),
                                  ends |-> IF atend THEN <<a, b>> ELSE <<>>]]
  /\ Return("OK")
  /\ UNCHANGED <<pnext, calls, before>>

----------------------------------------------------------------------------
(* netwib_io_close *)

\* The ios that a close of x may close: x, and those that are to be closed by
\* the compound ios of the rings of these.
ClosedWith(pn, hd, x) ==
  LET full == {S \in SUBSET Io :
                 /\ x \in S
                 /\ \A r \in S, c \in Io : \/ Range(hd[c].ends) \subseteq S
                                          \/ c \notin CloseRing(pn, r)}
  IN  {r \in Io : \A S \in full : r \in S}

\* What callers are asked when a close of x may close others: their rings
\* share no link, and each is given to one compound io to close, x to none.
OneOwner(pn, hd, x) ==
  LET ios == ClosedWith(pn, hd, x)
      links == UNION {CloseRing(pn, r) : r \in ios}
  IN  /\ \A r, s \in ios : r # s => CloseRing(pn, r) \cap CloseRing(pn, s) = {}
      /\ \A c, d \in links : \A i \in DOMAIN hd[c].ends, j \in DOMAIN hd[d].ends :
            /\ hd[c].ends[i] # x
            /\ hd[c].ends[i] = hd[d].ends[j] => c = d /\ i = j

\* netwib_io_close enters its loop on x.
Closing(x) ==
  [pio |-> x, ring |-> CloseRing(pnext, x), todo |-> CloseRing(pnext, x),
   ioremoved |-> FALSE, at |-> NULL, done |-> 0]

CloseBegin(x) ==
  /\ calls = <<>>
  /\ x \in alive
  /\ SharedHold \/ OneOwner(pnext, held, x)
  /\ calls' = <<Closing(x)>>
  /\ before' = [alive |-> alive, pnext |-> pnext, held |-> held]
  /\ UNCHANGED <<alive, supported, pnext, numusers, held, ret, ppio>>

\* The innermost call: it walks over its ring (at is NULL), or is in the
\* pfclose of the link at, which has closed done of the ios it closes.
Top == calls[Len(calls)]
Walking == calls # <<>> /\ Top.at = NULL
InPfclose == calls # <<>> /\ Top.at # NULL
ToClose == held[Top.at].ends

\* y comes before z in the ring of the innermost call: the read chain is added
\* first, then what the write chain adds to it.
Precedes(y, z) ==
  LET next == before.pnext
      rdchain == Chain(next["rd"], Top.pio)
  IN  IF y \in rdchain THEN z \in Chain(next["rd"], y) \/ z \notin rdchain
      ELSE z \in Chain(next["wr"], y) \ rdchain

\* y is the link that the pass has come to.
Current(y) ==
  /\ Walking
  /\ y \in Top.todo \cap alive
  /\ \A z \in Top.todo : Precedes(y, z)

\* Faulty form: only the readers are counted.
InUseReadOnly(y) == numusers["rd"][y] # 0

InUse(y) == \E w \in Way : numusers[w][y] # 0

\* netwib_priv_io_close_current refuses a link that has users...
CloseKeep(y) ==
  /\ Current(y)
  /\ InUse(y)
  /\ calls' = [calls EXCEPT ![Len(calls)].todo = @ \ {y}]
  /\ UNCHANGED <<alive, supported, pnext, numusers, held, before, ret, ppio>>

\* Faulty form: the ways the ios support now, not those they supported when
\* the compound io was made.
GivenBackUnsaved(h) ==
  [w \in Way |-> {x \in held[h].use[w] : w \in supported[x]}]

\* The uses a compound io gives back: those it took at its creation
\* (havetodecread and havetodecwrite of the debug io).
GivenBack(h) == held[h].use

\* ... and calls pfclose on one that has none: a compound io first stops using
\* its ios...
Pfclose(y) ==
  /\ Current(y)
  /\ ~InUse(y)
  /\ numusers' = Recounted(NoUse, GivenBack(y))
  /\ calls' = [calls EXCEPT ![Len(calls)] = [Top EXCEPT !.at = y, !.done = 0]]
  /\ UNCHANGED <<alive, supported, pnext, held, before, ret, ppio>>

\* Faulty form: the second io is not closed.
PfcloseFirstOnly ==
  /\ InPfclose
  /\ Top.done < Len(ToClose)
  /\ ToClose[Top.done + 1] \in alive
  /\ calls' = Append([calls EXCEPT ![Len(calls)].done = 2],
                     Closing(ToClose[Top.done + 1]))
  /\ UNCHANGED <<alive, supported, pnext, numusers, held, before, ret, ppio>>

\* ... then, if asked to at its creation, closes the first and the second.
PfcloseNext ==
  /\ InPfclose
  /\ Top.done < Len(ToClose)
  /\ ToClose[Top.done + 1] \in alive
  /\ calls' = Append([calls EXCEPT ![Len(calls)].done = @ + 1],
                     Closing(ToClose[Top.done + 1]))
  /\ UNCHANGED <<alive, supported, pnext, numusers, held, before, ret, ppio>>

\* After its pfclose the link is freed: its next links lose a user.
CloseFree ==
  /\ InPfclose
  /\ Top.done = Len(ToClose)
  /\ LET y == Top.at
     IN  /\ numusers' = Recounted(NoUse, [w \in Way |-> SetOf(pnext[w][y])])
         /\ alive' = alive \ {y}
         /\ pnext' = [w \in Way |-> [pnext[w] EXCEPT ![y] = NULL]]
         /\ supported' = [supported EXCEPT ![y] = {}]
         /\ held' = [held EXCEPT ![y] = NotHeld]
         /\ calls' = [calls EXCEPT ![Len(calls)] =
                        [Top EXCEPT !.ring = Top.ring \ {y}, !.todo = Top.todo \ {y},
                                    !.ioremoved = TRUE, !.at = NULL]]
  /\ UNCHANGED <<before, ret, ppio>>

\* The pfclose of a final link reports an error: the link stays, every loop is
\* left at once and the caller's pointer is not looked at.
CloseError(y) ==
  /\ Current(y)
  /\ ~InUse(y)
  /\ held[y] = NotHeld
  /\ PfcloseFails
  /\ Len(calls) = 1 \/ NestedFails
  /\ calls' = <<>>
  /\ before' = NoSnapshot
  /\ ret' = "ERROR"
  /\ ppio' = calls[1].pio
  /\ UNCHANGED <<alive, supported, pnext, numusers, held>>

PassDone == Walking /\ Top.todo = {}

\* Nothing was freed, or nothing is left.
LastPass == PassDone /\ (~Top.ioremoved \/ Top.ring = {})

\* Faulty form: ioremoved is not reset.
NextPassNoReset ==
  /\ PassDone
  /\ ~LastPass
  /\ calls' = [calls EXCEPT ![Len(calls)].todo = Top.ring]
  /\ UNCHANGED <<alive, supported, pnext, numusers, held, before, ret, ppio>>

\* Another pass, for the links whose users have just gone.
NextPass ==
  /\ PassDone
  /\ ~LastPass
  /\ calls' = [calls EXCEPT ![Len(calls)] =
                  [Top EXCEPT !.todo = Top.ring, !.ioremoved = FALSE]]
  /\ UNCHANGED <<alive, supported, pnext, numusers, held, before, ret, ppio>>

\* The end of the innermost call; the outermost one looks whether the
\* caller's link went.
CloseEnd ==
  /\ LastPass
  /\ calls' = SubSeq(calls, 1, Len(calls) - 1)
  /\ IF Len(calls) = 1
     THEN /\ ret' = "OK"
          /\ ppio' = IF Top.pio \in Top.ring THEN Top.pio ELSE NULL
          /\ before' = NoSnapshot
     ELSE UNCHANGED <<before, ret, ppio>>
  /\ UNCHANGED <<alive, supported, pnext, numusers, held>>

----------------------------------------------------------------------------
ChainStep ==
  \/ \E x \in Io, ways \in SupportSets : Create(x, ways)
  \/ \E p, q \in Io, t \in CallTypes : Plug(p, t, q)
  \/ \E p \in Io, t \in CallTypes, b \in BOOLEAN : UnplugNext(p, t, b)
  \/ \E p, s \in Io, t \in CallTypes : UnplugBefore(p, t, s)
  \/ \E p, s \in Io, t \in CallTypes, b \in BOOLEAN : UnplugAfter(p, t, s, b)
  \/ \E x \in Io, t \in LossTypes : LoseSupport(x, t)

HolderStep ==
  \E h, a, b \in Io, kind \in Kinds, atend \in BOOLEAN :
     HolderInit(h, kind, a, b, atend)

CloseLoop ==
  \/ \E y \in Io : CloseKeep(y) \/ Pfclose(y) \/ CloseError(y)
  \/ PfcloseNext
  \/ CloseFree
  \/ NextPass
  \/ CloseEnd

Next ==
  \/ ChainStep
  \/ HolderStep
  \/ \E x \in Io : CloseBegin(x)
  \/ CloseLoop

\* A close that has begun runs to its end: it is sequential code.
Spec == Init /\ [][Next]_vars /\ WF_vars(CloseLoop)
----------------------------------------------------------------------------
(* Properties *)

HeldType == [use : [Way -> SUBSET Io], ends : Seq(Io)]
CallType == [pio : Io, ring : SUBSET Io, todo : SUBSET Io,
             ioremoved : BOOLEAN, at : Io \cup {NULL}, done : Nat]

\* The types of the variables; no counter goes below zero, where the code's
\* unsigned one would wrap and make its link immortal.
TypeOK ==
  /\ alive \subseteq Io
  /\ supported \in [Io -> SUBSET Way]
  /\ pnext \in [Way -> [Io -> Io \cup {NULL}]]
  /\ numusers \in [Way -> [Io -> Nat]]
  /\ held \in [Io -> HeldType]
  /\ calls \in Seq(CallType)
  /\ before \in [alive : SUBSET Io, pnext : [Way -> [Io -> Io \cup {NULL}]],
                 held : [Io -> HeldType]]
  /\ ret \in {"OK", "NOTFOUND", "CONFLICT", "ERROR"}
  /\ ppio \in Io \cup {NULL}

\* The links whose pfclose runs: a compound io among them has given its uses
\* back already.
Leaving == {calls[i].at : i \in DOMAIN calls}

\* The compound ios that use x in the way w.
HoldersOf(w, x) == {h \in Io \ Leaving : x \in held[h].use[w]}

\* A link's counter is the number of links plugged to it plus the number of
\* compound ios that use it, in each way, even half way through a close that
\* runs inside another one.
CountsMatch ==
  \A w \in Way, x \in Io :
     numusers[w][x] = Cardinality(Preds(pnext[w], x))
                      + Cardinality(HoldersOf(w, x))

\* No pointer of an allocated link, and no compound io, leads to a freed
\* link: netwib_io_close (io.c:1085) frees a link only when nobody uses it.
NoDangling ==
  \A w \in Way, x \in alive :
     /\ pnext[w][x] \in alive \cup {NULL}
     /\ x \notin Leaving => held[x].use[w] \subseteq alive

\* netwib_io_close is entered with an allocated link only, as its check
\* netwib_debug_leak_valid_io demands, and a call that goes on after the
\* pfclose of a link, which may have closed others, finds allocated links
\* only in what is left of its pass.
ClosesLiveLink ==
  /\ Walking => Top.todo \subseteq alive
  /\ InPfclose /\ Top.done < Len(ToClose) => ToClose[Top.done + 1] \in alive

\* Seen between two calls of the program.
Owner == INSTANCE IoOwner WITH
  alive <- IF calls # <<>> THEN before.alive ELSE alive,
  pnext <- IF calls # <<>> THEN before.pnext ELSE pnext,
  held <- IF calls # <<>> THEN before.held ELSE held

\* The counters implement ownership: the many steps of a close, with those
\* of the closes that it causes, amount to one that frees exactly the links
\* nobody else can reach, a failing close never frees a link that has a
\* user, the caller's pointer becomes NULL when its link went, and a call
\* that reports NOTFOUND or CONFLICT cuts no way at all.
OwnerSpec == Owner!Spec

\* The passes of netwib_io_close end, each one but the last frees a link, and
\* so do the closes that begin inside one.
CloseTerminates == calls # <<>> ~> calls = <<>>
============================================================================
