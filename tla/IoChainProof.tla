---------------------------- MODULE IoChainProof ----------------------------
(***************************************************************************)
(* The counters of the io chains are right, no pointer dangles, and        *)
(* closing an io frees exactly the links that nobody outside of its chains *)
(* can reach, for any number of links and of compound ios, and however     *)
(* deep the closes of the compound ios run inside one another.             *)
(***************************************************************************)
EXTENDS IoChain, FiniteSetTheorems, SequenceTheorems, WellFoundedInduction, TLAPS

----------------------------------------------------------------------------
(* Counting the links plugged to x *)

LEMMA PredsFinite ==
  ASSUME NEW nx, NEW x
  PROVE  IsFiniteSet(Preds(nx, x))
BY IoAssumption, FS_Subset DEF Preds

\* One more, or one less, link plugged to x.
LEMMA PredsCard ==
  ASSUME NEW nx, NEW x, NEW a
  PROVE  /\ Cardinality(Preds(nx, x)) \in Nat
         /\ a \notin Preds(nx, x) =>
              Cardinality(Preds(nx, x) \cup {a}) = Cardinality(Preds(nx, x)) + 1
         /\ a \in Preds(nx, x) =>
              Cardinality(Preds(nx, x) \ {a}) = Cardinality(Preds(nx, x)) - 1
<1> DEFINE S == Preds(nx, x)
<1>1. IsFiniteSet(S)
  BY PredsFinite
<1> HIDE DEF S
<1>2. /\ Cardinality(S) \in Nat
      /\ a \notin S => Cardinality(S \cup {a}) = Cardinality(S) + 1
      /\ a \in S => Cardinality(S \ {a}) = Cardinality(S) - 1
  BY <1>1, FS_CardinalityType, FS_AddElement, FS_RemoveElement
<1> QED BY <1>2 DEF S

----------------------------------------------------------------------------
(* Walking a chain *)

\* A set that holds x and is closed under the pointers holds x's chain.
LEMMA ChainIn ==
  ASSUME NEW nx, NEW x, NEW S \in SUBSET Io, x \in S,
         \A y \in S : nx[y] \in S \cup {NULL}
  PROVE  Chain(nx, x) \subseteq S
<1>1. ClosedUnder(nx, S)
  BY DEF ClosedUnder
<1> QED BY <1>1 DEF Chain

\* The link netwib_priv_io_last returns is the end of the chain.
LEMMA LastIsEnd ==
  ASSUME NEW nx, NEW x, Ends(nx, x)
  PROVE  /\ Last(nx, x) \in Chain(nx, x)
         /\ nx[Last(nx, x)] = NULL
BY DEF Ends, Last

\* The link netwib_priv_io_search returns points to the searched one.
LEMMA PrevPoints ==
  ASSUME NEW nx \in [Io -> Io \cup {NULL}], NEW x \in Io, NEW s \in Io, s # x,
         Found(nx, x, s)
  PROVE  /\ Prev(nx, x, s) \in Chain(nx, x)
         /\ nx[Prev(nx, x, s)] = s
<1> DEFINE S == Chain(nx, x) \ {s}
<1>1. x \in Chain(nx, x) /\ Chain(nx, x) \subseteq Io
  BY DEF Chain
<1>2. \A y \in Chain(nx, x) : nx[y] \in Chain(nx, x) \cup {NULL}
  <2> SUFFICES ASSUME NEW y \in Chain(nx, x), nx[y] # NULL,
                      NEW S1 \in SUBSET Io, x \in S1, ClosedUnder(nx, S1)
               PROVE  nx[y] \in S1
    BY <1>1 DEF Chain
  <2>1. y \in S1
    BY DEF Chain
  <2> QED BY <2>1 DEF ClosedUnder
<1>3. \E y \in Chain(nx, x) : nx[y] = s
  <2> SUFFICES ASSUME \A y \in Chain(nx, x) : nx[y] # s
               PROVE  FALSE
    OBVIOUS
  <2>1. x \in S /\ S \in SUBSET Io /\ \A y \in S : nx[y] \in S \cup {NULL}
    BY <1>1, <1>2
  <2>2. Chain(nx, x) \subseteq S
    BY ONLY <2>1, ChainIn
  <2> QED BY <2>2 DEF Found
<1> QED BY <1>3 DEF Prev

----------------------------------------------------------------------------
(* The inductive invariant *)

PnextType == [Way -> [Io -> Io \cup {NULL}]]

\* The counters are only known to be integers before they are known right.
TypeInv ==
  /\ alive \subseteq Io
  /\ supported \in [Io -> SUBSET Way]
  /\ pnext \in PnextType
  /\ numusers \in [Way -> [Io -> Int]]
  /\ held \in [Io -> HeldType]
  /\ calls \in Seq(CallType)
  /\ before \in [alive : SUBSET Io, pnext : PnextType, held : [Io -> HeldType]]
  /\ ret \in {"OK", "NOTFOUND", "CONFLICT", "ERROR"}
  /\ ppio \in Io \cup {NULL}

\* A freed link has no pointer and uses nothing; a compound io uses the ios it
\* will close.
Bookkeeping ==
  /\ \A x \in Io : x \notin alive =>
        held[x] = NotHeld /\ \A w \in Way : pnext[w][x] = NULL
  /\ \A x \in Io : \A k \in DOMAIN held[x].ends :
        \E w \in Way : held[x].ends[k] \in held[x].use[w]

\* The links freed since the outermost close began, the rings it found, what
\* the compound ios will close and all the ios that may be closed along.
Gone == before.alive \ alive
Ring(x) == CloseRing(before.pnext, x)
EndsOf(c) == before.held[c].ends
Family == ClosedWith(before.pnext, before.held, calls[1].pio)

\* A close only takes links away.
Taken ==
  calls # <<>> =>
    /\ alive \subseteq before.alive
    /\ \A x \in alive : held[x] = before.held[x]
                        /\ \A w \in Way : pnext[w][x] = before.pnext[w][x]
    /\ calls[1].pio \in Io
    /\ OneOwner(before.pnext, before.held, calls[1].pio)

\* Nobody uses y.
Unused(y) ==
  \A w \in Way, x \in alive :
     pnext[w][x] # y /\ (x \notin Leaving => y \notin held[x].use[w])

\* A call of netwib_io_close: its ring has lost the freed links only; the link
\* whose pfclose runs has no user, and the ios it is yet to close are there.
Sound(f) ==
  /\ f.pio \in Family
  /\ Ring(f.pio) \subseteq before.alive
  /\ f.ring = Ring(f.pio) \ Gone
  /\ f.todo \subseteq f.ring
  /\ f.at # NULL =>
       /\ f.at \in f.ring
       /\ Unused(f.at)
       /\ f.done <= Len(EndsOf(f.at))
       /\ \A k \in DOMAIN EndsOf(f.at) : k > f.done => EndsOf(f.at)[k] \in alive

\* Each call but the innermost waits for the close of one of the ios of a
\* compound io, and no two calls close the same io.
Stack ==
  \A i \in DOMAIN calls :
    /\ Sound(calls[i])
    /\ i < Len(calls) => /\ calls[i].at # NULL
                         /\ calls[i].done \in DOMAIN EndsOf(calls[i].at)
                         /\ calls[i + 1].pio = EndsOf(calls[i].at)[calls[i].done]
    /\ \A j \in DOMAIN calls : calls[i].pio = calls[j].pio => i = j

IInv == TypeInv /\ CountsMatch /\ NoDangling /\ Bookkeeping /\ Taken /\ Stack

\* What the callers and the callbacks are asked: no unplugging before the
\* head of one's own chain, ios that are closed along share no link and are
\* closed by one compound io only, no pfclose that fails in a close that the
\* close of a compound io makes.
Careful == ~SelfUnplug /\ ~SharedHold /\ ~NestedFails

LEMMA HoldersFinite ==
  ASSUME NEW w, NEW x
  PROVE  IsFiniteSet(HoldersOf(w, x)) /\ Cardinality(HoldersOf(w, x)) \in Nat
BY IoAssumption, FS_Subset, FS_CardinalityType DEF HoldersOf

LEMMA NotHeldType == NotHeld \in HeldType
BY DEF NotHeld, NoUse, HeldType

LEMMA NotHeldUses ==
  NotHeld.ends = <<>> /\ DOMAIN NotHeld.ends = {} /\ \A w \in Way : NotHeld.use[w] = {}
BY DEF NotHeld, NoUse

LEMMA NobodyLeaves ==
  ASSUME calls = <<>>
  PROVE  Leaving = {}
<1>1. DOMAIN calls = {}
  OBVIOUS
<1> QED BY <1>1 DEF Leaving

\* The initial counters are those of links without users.
LEMMA InitIInv == Init => IInv
<1> SUFFICES ASSUME Init PROVE IInv
  OBVIOUS
<1> USE DEF Init
<1>0. calls = <<>> /\ DOMAIN calls = {} /\ calls \in Seq(CallType)
  OBVIOUS
<1>1. TypeInv
  BY <1>0, NotHeldType DEF TypeInv, PnextType, NoLinks, NoSnapshot
<1>2. CountsMatch
  <2> SUFFICES ASSUME NEW w \in Way, NEW x \in Io
               PROVE  numusers[w][x] = Cardinality(Preds(pnext[w], x))
                                       + Cardinality(HoldersOf(w, x))
    BY DEF CountsMatch
  <2>1. Preds(pnext[w], x) = {}
    BY IoAssumption DEF Preds, NoLinks
  <2>2. HoldersOf(w, x) = {}
    BY DEF HoldersOf, NotHeld, NoUse
  <2>3. numusers[w][x] = 0
    OBVIOUS
  <2> QED BY ONLY <2>1, <2>2, <2>3, FS_EmptySet
<1>3. NoDangling /\ Bookkeeping
  BY DEF NoDangling, Bookkeeping, NoLinks, NotHeld
<1>4. Taken /\ Stack
  BY <1>0 DEF Taken, Stack
<1> QED BY <1>1, <1>2, <1>3, <1>4 DEF IInv

----------------------------------------------------------------------------
(* The ios that are closed along *)

\* The ios of a compound io in the ring of one of them are among them.
LEMMA FamilyHas ==
  ASSUME NEW pn, NEW hd \in [Io -> HeldType], NEW x \in Io,
         NEW r \in ClosedWith(pn, hd, x), NEW c \in CloseRing(pn, r) \cap Io,
         NEW k \in DOMAIN hd[c].ends
  PROVE  hd[c].ends[k] \in ClosedWith(pn, hd, x)
<1>1. hd[c].ends[k] \in Io
  <2>1. hd[c].ends \in Seq(Io)
    BY DEF HeldType
  <2> QED BY <2>1, ElementOfSeq, LenProperties
<1>2. hd[c].ends[k] \in Range(hd[c].ends)
  BY DEF Range
<1> QED BY <1>1, <1>2 DEF ClosedWith

\* The closed io is.
LEMMA FamilyFirst ==
  ASSUME NEW pn, NEW hd, NEW x \in Io
  PROVE  x \in ClosedWith(pn, hd, x)
BY DEF ClosedWith

\* A link is in the ring of one of them at most, and an io is closed by one
\* compound io at most.
LEMMA FromOneOwner ==
  ASSUME NEW pn, NEW hd, NEW x, OneOwner(pn, hd, x),
         NEW r \in ClosedWith(pn, hd, x), NEW s \in ClosedWith(pn, hd, x),
         NEW c \in CloseRing(pn, r), NEW d \in CloseRing(pn, s)
  PROVE  /\ c = d => r = s
         /\ \A i \in DOMAIN hd[c].ends : hd[c].ends[i] # x
         /\ \A i \in DOMAIN hd[c].ends, j \in DOMAIN hd[d].ends :
               hd[c].ends[i] = hd[d].ends[j] => c = d /\ i = j
<1>1. c = d => r = s
  BY DEF OneOwner
<1> DEFINE links == UNION {CloseRing(pn, q) : q \in ClosedWith(pn, hd, x)}
<1>2. c \in links /\ d \in links
  OBVIOUS
<1>3. \A a, b \in links : \A i \in DOMAIN hd[a].ends, j \in DOMAIN hd[b].ends :
            /\ hd[a].ends[i] # x
            /\ hd[a].ends[i] = hd[b].ends[j] => a = b /\ i = j
  BY DEF OneOwner
<1> HIDE DEF links
<1> QED BY <1>1, <1>2, <1>3

----------------------------------------------------------------------------
(* The stack of the calls *)

\* Its innermost call changes.
LEMMA TopChanges ==
  ASSUME NEW s \in Seq(CallType), s # <<>>, NEW g \in CallType,
         NEW t, t = [s EXCEPT ![Len(s)] = g]
  PROVE  /\ t \in Seq(CallType) /\ Len(t) = Len(s) /\ DOMAIN t = DOMAIN s
         /\ DOMAIN s = 1 .. Len(s) /\ Len(s) \in DOMAIN s /\ Len(s) \in Nat /\ Len(s) >= 1
         /\ t[Len(s)] = g
         /\ \A i \in DOMAIN s : i # Len(s) => t[i] = s[i]
<1>1. Len(s) \in Nat /\ DOMAIN s = 1 .. Len(s) /\ Len(s) # 0
  BY LenProperties, EmptySeq
<1>2. Len(s) \in 1 .. Len(s)
  BY <1>1
<1>3. t \in Seq(CallType) /\ Len(t) = Len(s)
  BY <1>1, <1>2, ExceptSeq
<1> QED BY <1>1, <1>2, <1>3, LenProperties

\* A call begins.
LEMMA Pushed ==
  ASSUME NEW s \in Seq(CallType), NEW g \in CallType
  PROVE  LET t == Append(s, g)
         IN  /\ t \in Seq(CallType) /\ Len(t) = Len(s) + 1 /\ Len(s) \in Nat
             /\ DOMAIN t = 1 .. Len(s) + 1 /\ DOMAIN s = 1 .. Len(s)
             /\ t[Len(s) + 1] = g
             /\ \A i \in DOMAIN s : t[i] = s[i]
<1> DEFINE t == Append(s, g)
<1>1. /\ t \in Seq(CallType) /\ Len(t) = Len(s) + 1
      /\ \A i \in 1 .. Len(s) : t[i] = s[i]
      /\ t[Len(s) + 1] = g
  BY AppendProperties
<1>2. Len(s) \in Nat /\ DOMAIN s = 1 .. Len(s) /\ DOMAIN t = 1 .. Len(t)
  BY <1>1, LenProperties
<1> QED BY <1>1, <1>2

\* A call ends.
LEMMA Popped ==
  ASSUME NEW s \in Seq(CallType), s # <<>>
  PROVE  LET t == SubSeq(s, 1, Len(s) - 1)
         IN  /\ t \in Seq(CallType) /\ Len(t) = Len(s) - 1 /\ Len(s) \in Nat
             /\ DOMAIN t = 1 .. Len(s) - 1 /\ DOMAIN s = 1 .. Len(s) /\ Len(s) >= 1
             /\ \A i \in DOMAIN t : t[i] = s[i]
             /\ Len(s) = 1 => t = <<>>
<1> DEFINE t == SubSeq(s, 1, Len(s) - 1)
<1>1. Len(s) \in Nat /\ DOMAIN s = 1 .. Len(s) /\ Len(s) # 0
  BY LenProperties, EmptySeq
<1>2. \A i \in 1 .. Len(s) - 1 : s[i] \in CallType
  BY <1>1, ElementOfSeq
<1>3. /\ t \in Seq(CallType) /\ Len(t) = Len(s) - 1
      /\ \A i \in 1 .. Len(s) - 1 : t[i] = s[i]
  BY <1>1, <1>2, SubSeqProperties
<1>4. DOMAIN t = 1 .. Len(t)
  BY <1>3, LenProperties
<1>5. Len(s) = 1 => t = <<>>
  BY <1>3, EmptySeq
<1> QED BY <1>1, <1>3, <1>4, <1>5

----------------------------------------------------------------------------
(* Outside of the closes *)

LEMMA Outside ==
  ASSUME calls = <<>>, calls' = calls
  PROVE  Taken' /\ Stack'
<1>1. calls' = <<>> /\ DOMAIN calls' = {}
  OBVIOUS
<1> QED BY <1>1 DEF Taken, Stack

----------------------------------------------------------------------------
(* Relinking *)

LEMMA RelinkType ==
  ASSUME NEW pn \in PnextType,
         NEW at, NEW to \in Io \cup {NULL}
  PROVE  Relinked(pn, at, to) \in PnextType
BY DEF Relinked, PnextType

LEMMA RecountType ==
  ASSUME TypeInv, NEW plus, NEW minus
  PROVE  Recounted(plus, minus) \in [Way -> [Io -> Int]]
BY DEF Recounted, TypeInv

\* The walk of an allocated link meets allocated links only.
LEMMA ChainAlive ==
  ASSUME IInv, NEW w \in Way, NEW x \in alive
  PROVE  Chain(pnext[w], x) \subseteq alive
BY ChainIn DEF IInv, TypeInv, PnextType, NoDangling

\* A call that fails leaves everything as it was.
LEMMA FailStep ==
  ASSUME IInv, calls = <<>>, NEW code \in {"NOTFOUND", "CONFLICT"}, Fail(code)
  PROVE  IInv'
<1> USE DEF Fail, Return
<1>1. TypeInv'
  BY DEF IInv, TypeInv
<1>2. CountsMatch'
  BY DEF IInv, CountsMatch, HoldersOf, Leaving
<1>3. NoDangling' /\ Bookkeeping'
  BY DEF IInv, NoDangling, Bookkeeping, Leaving
<1> QED BY <1>1, <1>2, <1>3, Outside DEF IInv

\* Cutting a chain after an allocated link takes one user from the link
\* that followed it.
LEMMA CutStep ==
  ASSUME IInv, calls = <<>>, NEW at \in [Way -> alive \cup {NULL}],
         NEW user \in [Way -> Io \cup {NULL}],
         \A w \in Way : user[w] = NextOf(w, at[w]),
         CutAfter(at, user)
  PROVE  IInv'
<1> USE DEF CutAfter, Return
<1>0. at \in [Way -> Io \cup {NULL}]
  BY DEF IInv, TypeInv
<1>1. TypeInv'
  <2>1. pnext' \in PnextType
    BY RelinkType DEF IInv, TypeInv
  <2>2. numusers' \in [Way -> [Io -> Int]]
    BY RecountType DEF IInv
  <2> QED BY <2>1, <2>2 DEF IInv, TypeInv
<1>2. CountsMatch'
  <2> SUFFICES ASSUME NEW w \in Way, NEW x \in Io
               PROVE  numusers'[w][x] = Cardinality(Preds(pnext'[w], x))
                                        + Cardinality(HoldersOf(w, x)')
    BY DEF CountsMatch
  <2>1. HoldersOf(w, x)' = HoldersOf(w, x)
    BY DEF HoldersOf, Leaving
  <2>2. Preds(pnext'[w], x) = IF at[w] = NULL THEN Preds(pnext[w], x)
                              ELSE Preds(pnext[w], x) \ {at[w]}
    BY <1>0, IoAssumption DEF IInv, TypeInv, PnextType, Preds, Relinked
  <2>3. numusers'[w][x] = IF x \in SetOf(user[w]) THEN numusers[w][x] - 1
                          ELSE numusers[w][x]
    BY DEF Recounted, NoUse, IInv, TypeInv
  <2>4. x \in SetOf(user[w]) <=> at[w] \in Preds(pnext[w], x)
    BY IoAssumption, <1>0 DEF SetOf, NextOf, Preds
  <2>5. numusers[w][x] = Cardinality(Preds(pnext[w], x))
                         + Cardinality(HoldersOf(w, x))
    BY DEF IInv, CountsMatch
  <2>6. Cardinality(HoldersOf(w, x)) \in Nat
    BY HoldersFinite
  <2>7. IF x \in SetOf(user[w])
        THEN Cardinality(Preds(pnext'[w], x)) =
               Cardinality(Preds(pnext[w], x)) - 1
        ELSE Preds(pnext'[w], x) = Preds(pnext[w], x)
    <3>1. CASE at[w] \in Preds(pnext[w], x)
      <4>1. Cardinality(Preds(pnext[w], x) \ {at[w]}) =
              Cardinality(Preds(pnext[w], x)) - 1
        BY ONLY <3>1, PredsCard
      <4>2. at[w] # NULL
        BY <3>1, IoAssumption DEF Preds
      <4> QED BY ONLY <4>1, <4>2, <2>2, <2>4, <3>1
    <3>2. CASE at[w] \notin Preds(pnext[w], x)
      BY <3>2, <2>2, <2>4
    <3> QED BY <3>1, <3>2
  <2>8. Cardinality(Preds(pnext[w], x)) \in Nat
    BY PredsCard
  <2> QED BY ONLY <2>1, <2>3, <2>5, <2>6, <2>7, <2>8
<1>3. NoDangling'
  BY <1>0 DEF IInv, TypeInv, NoDangling, Relinked, PnextType, Leaving
<1>4. Bookkeeping'
  BY <1>0 DEF IInv, TypeInv, Bookkeeping, Relinked, PnextType
<1>5. Taken' /\ Stack'
  BY Outside
<1> QED BY <1>1, <1>2, <1>3, <1>4, <1>5 DEF IInv
----------------------------------------------------------------------------
(* The actions *)

LEMMA UnplugStep ==
  ASSUME IInv, Careful, NEW p \in Io, NEW s \in Io, NEW t \in WayType,
         NEW b \in BOOLEAN,
         UnplugNext(p, t, b) \/ UnplugBefore(p, t, s) \/ UnplugAfter(p, t, s, b)
  PROVE  IInv'
<1>0. calls = <<>> /\ \A w \in Way, x \in Io : pnext[w][x] \in Io \cup {NULL}
  BY DEF IInv, TypeInv, PnextType, UnplugNext, UnplugBefore, UnplugAfter
<1>a. WaysOf(t, p) \subseteq Way
  BY DEF WaysOf, WayType, Way, IInv, TypeInv
<1>1. CASE UnplugNext(p, t, b)
  <2>1. CASE Conflict(p, t, p, b)
    BY <1>1, <2>1, <1>0, FailStep DEF UnplugNext
  <2>2. CASE ~Conflict(p, t, p, b)
    <3> DEFINE at == In(IF t = "SUPPORTED" THEN Way ELSE WaysOf(t, p), p)
               user == [w \in Way |-> NextOf(w, at[w])]
    <3>1. at \in [Way -> alive \cup {NULL}]
      BY <1>1 DEF In, UnplugNext
    <3>2. user \in [Way -> Io \cup {NULL}]
      BY <3>1, <1>0 DEF NextOf, IInv, TypeInv
    <3>3. CutAfter(at, user)
      BY <1>1, <2>2 DEF UnplugNext
    <3>4. \A w \in Way : user[w] = NextOf(w, at[w])
      OBVIOUS
    <3> HIDE DEF at, user
    <3> QED BY <3>1, <3>2, <3>3, <3>4, <1>0, CutStep
  <2> QED BY <2>1, <2>2
<1>2. CASE UnplugBefore(p, t, s)
  <2>1. CASE NotFound(p, t, s)
    BY <1>2, <2>1, <1>0, FailStep DEF UnplugBefore
  <2>2. CASE ~NotFound(p, t, s)
    <3> DEFINE ways == WaysOf(t, p)
               at == [w \in Way |-> IF w \in ways THEN Prev(pnext[w], p, s)
                                    ELSE NULL]
               user == In(ways, s)
    <3>1. p \in alive /\ s \in alive /\ s # p
      BY <1>2 DEF UnplugBefore, Careful
    <3>2. ASSUME NEW w \in ways
          PROVE  Prev(pnext[w], p, s) \in alive
                 /\ pnext[w][Prev(pnext[w], p, s)] = s
      <4>1. w \in Way /\ Found(pnext[w], p, s)
        BY <1>a, <2>2, <3>2 DEF NotFound
      <4>2. pnext[w] \in [Io -> Io \cup {NULL}]
        BY <4>1 DEF IInv, TypeInv, PnextType
      <4>3. /\ Prev(pnext[w], p, s) \in Chain(pnext[w], p)
            /\ pnext[w][Prev(pnext[w], p, s)] = s
        BY <3>1, <4>1, <4>2, PrevPoints
      <4>4. Chain(pnext[w], p) \subseteq alive
        BY <3>1, <4>1, ChainAlive
      <4> QED BY <4>3, <4>4
    <3>3. at \in [Way -> alive \cup {NULL}]
      BY <3>2
    <3>4. user \in [Way -> Io \cup {NULL}]
      BY DEF In
    <3>5. CutAfter(at, user)
      BY <1>2, <2>2 DEF UnplugBefore
    <3>6. \A w \in Way : user[w] = NextOf(w, at[w])
      <4>1. NULL \notin alive
        BY IoAssumption DEF IInv, TypeInv
      <4> QED BY <3>2, <4>1 DEF In, NextOf
    <3> HIDE DEF at, user
    <3> QED BY <3>3, <3>4, <3>5, <3>6, <1>0, CutStep
  <2> QED BY <2>1, <2>2
<1>3. CASE UnplugAfter(p, t, s, b)
  <2>1. CASE NotFound(p, t, s) \/ Conflict(p, t, s, b)
    BY <1>3, <2>1, <1>0, FailStep DEF UnplugAfter
  <2>2. CASE ~(NotFound(p, t, s) \/ Conflict(p, t, s, b))
    <3> DEFINE at == In(WaysOf(t, p), s)
               user == [w \in Way |-> NextOf(w, at[w])]
    <3>1. at \in [Way -> alive \cup {NULL}]
      BY <1>3 DEF In, UnplugAfter
    <3>2. user \in [Way -> Io \cup {NULL}]
      BY <3>1, <1>0 DEF NextOf, IInv, TypeInv
    <3>3. CutAfter(at, user)
      BY <1>3, <2>2 DEF UnplugAfter
    <3>4. \A w \in Way : user[w] = NextOf(w, at[w])
      OBVIOUS
    <3> HIDE DEF at, user
    <3> QED BY <3>1, <3>2, <3>3, <3>4, <1>0, CutStep
  <2> QED BY <2>1, <2>2
<1> QED BY <1>1, <1>2, <1>3

\* Steps that touch neither links nor uses keep the counters right.
LEMMA SameCounts ==
  ASSUME CountsMatch, UNCHANGED <<pnext, numusers, held>>,
         Leaving' \cap Io = Leaving \cap Io
  PROVE  CountsMatch'
BY DEF CountsMatch, HoldersOf

LEMMA CreateStep ==
  ASSUME IInv, NEW x \in Io, NEW ways \in SupportSets, Create(x, ways)
  PROVE  IInv'
<1> USE DEF Create, Return
<1>1. \A w \in Way : numusers[w][x] = 0 /\ pnext[w][x] = NULL
  <2> SUFFICES ASSUME NEW w \in Way PROVE numusers[w][x] = 0
    BY DEF IInv, Bookkeeping
  <2>1. Preds(pnext[w], x) = {}
    <3>1. x \notin alive /\ x # NULL
      BY IoAssumption
    <3>2. \A y \in Io : pnext[w][y] \in alive \cup {NULL}
      BY DEF IInv, NoDangling, Bookkeeping
    <3> QED BY <3>1, <3>2 DEF Preds
  <2>2. HoldersOf(w, x) = {}
    BY NotHeldUses, NobodyLeaves DEF IInv, TypeInv, NoDangling, Bookkeeping, HoldersOf
  <2>3. numusers[w][x] = Cardinality(Preds(pnext[w], x))
                         + Cardinality(HoldersOf(w, x))
    BY DEF IInv, CountsMatch
  <2> QED BY ONLY <2>1, <2>2, <2>3, FS_EmptySet
<1>2. pnext' = pnext /\ numusers' = numusers
  BY <1>1 DEF IInv, TypeInv, PnextType
<1>3. TypeInv'
  BY <1>2, ConfigAssumption DEF IInv, TypeInv
<1>4. CountsMatch'
  BY <1>2, SameCounts DEF IInv, Leaving
<1>5. NoDangling' /\ Bookkeeping'
  <2>1. Leaving = {} /\ Leaving' = {} /\ held[x].use \in [Way -> {{}}] /\ held[x] = NotHeld
    BY NotHeldUses, NotHeldType, NobodyLeaves DEF IInv, Bookkeeping, Leaving, HeldType
  <2>2. NoDangling'
    BY <1>1, <1>2, <2>1 DEF IInv, NoDangling
  <2> QED BY <1>2, <2>2 DEF IInv, Bookkeeping
<1> QED BY <1>3, <1>4, <1>5, Outside DEF IInv

LEMMA QuietStep ==
  ASSUME IInv, UNCHANGED <<alive, pnext, numusers, held>>,
         Leaving' \cap Io = Leaving \cap Io, TypeInv'
  PROVE  CountsMatch' /\ NoDangling' /\ Bookkeeping'
<1>1. CountsMatch'
  BY SameCounts DEF IInv
<1>2. NoDangling'
  BY DEF IInv, TypeInv, NoDangling
<1>3. Bookkeeping'
  BY DEF IInv, Bookkeeping
<1> QED BY <1>1, <1>2, <1>3

LEMMA LoseSupportStep ==
  ASSUME IInv, NEW x \in Io, NEW t \in WayType, LoseSupport(x, t)
  PROVE  IInv'
<1> USE DEF LoseSupport, Return
<1>1. TypeInv' /\ Leaving' = Leaving
  BY DEF IInv, TypeInv, Leaving
<1> QED BY <1>1, QuietStep, Outside DEF IInv
\* Plugging gives q one more user in each way plugged.
LEMMA PlugStep ==
  ASSUME IInv, NEW p \in Io, NEW q \in Io, NEW t \in WayType, Plug(p, t, q)
  PROVE  IInv'
<1> USE DEF Plug, Return
<1> DEFINE ways == PlugWays(p, t, q)
           at == [w \in Way |-> IF w \in ways THEN Last(pnext[w], p) ELSE NULL]
<1>1. \A w \in ways \cap Way :
        /\ Last(pnext[w], p) \in alive
        /\ pnext[w][Last(pnext[w], p)] = NULL
  BY LastIsEnd, ChainAlive DEF NoLoop
<1>2. at \in [Way -> Io \cup {NULL}]
  BY <1>1 DEF IInv, TypeInv
<1>3. /\ pnext' = Relinked(pnext, at, q)
      /\ numusers' = Recounted([w \in Way |-> IF w \in ways THEN {q} ELSE {}],
                               NoUse)
  OBVIOUS
<1>4. \A w \in Way : IF w \in ways THEN at[w] \in alive /\ pnext[w][at[w]] = NULL
                     ELSE at[w] = NULL
  BY <1>1
<1> HIDE DEF at, ways
<1>5. TypeInv'
  <2>1. pnext' \in PnextType
    BY <1>3 DEF Relinked, IInv, TypeInv, PnextType
  <2>2. numusers' \in [Way -> [Io -> Int]]
    BY <1>3, RecountType DEF IInv
  <2> QED BY <2>1, <2>2 DEF IInv, TypeInv
<1>6. CountsMatch'
  <2> SUFFICES ASSUME NEW w \in Way, NEW x \in Io
               PROVE  numusers'[w][x] = Cardinality(Preds(pnext'[w], x))
                                        + Cardinality(HoldersOf(w, x)')
    BY DEF CountsMatch
  <2>1. HoldersOf(w, x)' = HoldersOf(w, x)
    BY DEF HoldersOf, Leaving
  <2>2. numusers[w][x] = Cardinality(Preds(pnext[w], x))
                         + Cardinality(HoldersOf(w, x))
    BY DEF IInv, CountsMatch
  <2>3. /\ Cardinality(Preds(pnext[w], x)) \in Nat
        /\ Cardinality(HoldersOf(w, x)) \in Nat
    BY PredsCard, HoldersFinite
  <2>4. CASE w \in ways /\ x = q
    <3>1. at[w] \notin Preds(pnext[w], x)
      BY <1>4, <2>4, IoAssumption DEF Preds
    <3>2. Preds(pnext'[w], x) = Preds(pnext[w], x) \cup {at[w]}
      BY <1>2, <1>3, <1>4, <2>4, IoAssumption
      DEF Preds, Relinked, IInv, TypeInv, PnextType
    <3>3. Cardinality(Preds(pnext[w], x) \cup {at[w]}) =
            Cardinality(Preds(pnext[w], x)) + 1
      BY ONLY <3>1, PredsCard
    <3>4. numusers'[w][x] = numusers[w][x] + 1
      BY <1>3, <2>4 DEF Recounted, NoUse, IInv, TypeInv
    <3> QED BY ONLY <2>1, <2>2, <2>3, <3>2, <3>3, <3>4
  <2>5. CASE ~(w \in ways /\ x = q)
    <3>1. Preds(pnext'[w], x) = Preds(pnext[w], x)
      BY <1>2, <1>3, <1>4, <2>5, IoAssumption
      DEF Preds, Relinked, IInv, TypeInv, PnextType
    <3>2. numusers'[w][x] = numusers[w][x]
      BY <1>3, <2>5 DEF Recounted, NoUse, IInv, TypeInv
    <3> QED BY ONLY <2>1, <2>2, <3>1, <3>2
  <2> QED BY <2>4, <2>5
<1>7. NoDangling'
  BY <1>2, <1>3 DEF IInv, TypeInv, PnextType, NoDangling, Relinked, Leaving
<1>8. Bookkeeping'
  <2>1. \A w \in Way, x \in Io : x \notin alive => pnext'[w][x] = NULL
    <3> SUFFICES ASSUME NEW w \in Way, NEW x \in Io, x \notin alive
                 PROVE  pnext'[w][x] = NULL
      BY Zenon
    <3>1. x # at[w] /\ pnext[w][x] = NULL
      BY <1>4, IoAssumption DEF IInv, Bookkeeping
    <3> QED BY <1>3, <3>1 DEF Relinked
  <2> QED BY <2>1 DEF IInv, Bookkeeping
<1> QED BY <1>5, <1>6, <1>7, <1>8, Outside DEF IInv

----------------------------------------------------------------------------
(* Compound ios come and go *)

\* One more, or one less, compound io that uses x.
LEMMA HoldersCard ==
  ASSUME NEW w, NEW x, NEW h
  PROVE  /\ Cardinality(HoldersOf(w, x)) \in Nat
         /\ h \notin HoldersOf(w, x) =>
              Cardinality(HoldersOf(w, x) \cup {h}) =
                Cardinality(HoldersOf(w, x)) + 1
         /\ h \in HoldersOf(w, x) =>
              Cardinality(HoldersOf(w, x) \ {h}) =
                Cardinality(HoldersOf(w, x)) - 1
<1> DEFINE S == HoldersOf(w, x)
<1>1. IsFiniteSet(S)
  BY HoldersFinite
<1> HIDE DEF S
<1>2. /\ Cardinality(S) \in Nat
      /\ h \notin S => Cardinality(S \cup {h}) = Cardinality(S) + 1
      /\ h \in S => Cardinality(S \ {h}) = Cardinality(S) - 1
  BY <1>1, FS_CardinalityType, FS_AddElement, FS_RemoveElement
<1> QED BY <1>2 DEF S
LEMMA UseOfType ==
  ASSUME IInv, NEW kind \in {"rdwr", "tee", "debug"}, NEW a \in Io, NEW b \in Io
  PROVE  /\ UseOf(kind, a, b) \in [Way -> SUBSET Io]
         /\ \A w \in Way : UseOf(kind, a, b)[w] \subseteq {a, b}
BY DEF UseOf

\* A compound io uses both of its ios, so that it counts among their users.
LEMMA UseOfBoth ==
  ASSUME IInv, NEW h, NEW kind \in Kinds, NEW a \in Io, NEW b \in Io, NEW atend,
         HolderInit(h, kind, a, b, atend)
  PROVE  /\ \E w \in Way : a \in UseOf(kind, a, b)[w]
         /\ \E w \in Way : b \in UseOf(kind, a, b)[w]
<1>1. kind \in {"rdwr", "tee", "debug"}
  BY ConfigAssumption
<1>2. \E w \in Way : a \in UseOf(kind, a, b)[w]
  BY <1>1 DEF UseOf, Way
<1>3. \E w \in Way : b \in UseOf(kind, a, b)[w]
  <2>1. CASE kind = "debug"
    <3>1. supported[b] \subseteq Way
      BY DEF IInv, TypeInv
    <3>2. PICK w \in Way : w \in supported[b]
      BY <2>1, <3>1 DEF HolderInit
    <3>3. b \in UseOf("debug", a, b)[w]
      BY <3>2 DEF UseOf
    <3> QED BY <2>1, <3>3
  <2>2. CASE kind # "debug"
    BY <1>1, <2>2 DEF UseOf, Way
  <2> QED BY <2>1, <2>2
<1> QED BY <1>2, <1>3

LEMMA HolderInitStep ==
  ASSUME IInv, NEW h \in Io, NEW kind \in Kinds, NEW a \in Io, NEW b \in Io,
         NEW atend \in BOOLEAN, HolderInit(h, kind, a, b, atend)
  PROVE  IInv'
<1> USE DEF HolderInit, Return
<1> DEFINE use == UseOf(kind, a, b)
           ends == IF atend THEN <<a, b>> ELSE <<>>
<1>0. kind \in {"rdwr", "tee", "debug"}
  BY ConfigAssumption
<1>1. use \in [Way -> SUBSET Io] /\ \A w \in Way : use[w] \subseteq {a, b}
  BY <1>0, UseOfType
<1>a. ends \in Seq(Io) /\ \A k \in DOMAIN ends : ends[k] = a \/ ends[k] = b
  OBVIOUS
<1>b. (\E w \in Way : a \in use[w]) /\ (\E w \in Way : b \in use[w])
  BY UseOfBoth
<1>2. /\ held' = [held EXCEPT ![h] = [use |-> use, ends |-> ends]]
      /\ numusers' = Recounted(use, NoUse)
      /\ [use |-> use, ends |-> ends] \in HeldType
  BY <1>1, <1>a DEF HeldType
<1> HIDE DEF use, ends
<1>3. TypeInv'
  <2>1. numusers' \in [Way -> [Io -> Int]]
    BY <1>2, RecountType DEF IInv
  <2>2. supported' \in [Io -> SUBSET Way]
    BY DEF IInv, TypeInv
  <2>3. held' \in [Io -> HeldType]
    BY <1>2 DEF IInv, TypeInv
  <2> QED BY <2>1, <2>2, <2>3 DEF IInv, TypeInv
<1>4. /\ held[h] = NotHeld /\ \A w \in Way : held[h].use[w] = {} /\ pnext[w][h] = NULL
      /\ Leaving = {} /\ Leaving' = {} /\ h \notin alive
  BY NotHeldUses, NobodyLeaves DEF IInv, Bookkeeping, Leaving
<1>c. \A g \in Io : held'[g] = IF g = h THEN [use |-> use, ends |-> ends] ELSE held[g]
  BY <1>2 DEF IInv, TypeInv
<1>5. CountsMatch'
  <2> SUFFICES ASSUME NEW w \in Way, NEW x \in Io
               PROVE  numusers'[w][x] = Cardinality(Preds(pnext'[w], x))
                                        + Cardinality(HoldersOf(w, x)')
    BY DEF CountsMatch
  <2>1. numusers[w][x] = Cardinality(Preds(pnext[w], x))
                         + Cardinality(HoldersOf(w, x))
    BY DEF IInv, CountsMatch
  <2>2. /\ Cardinality(Preds(pnext[w], x)) \in Nat
        /\ Cardinality(HoldersOf(w, x)) \in Nat
    BY PredsCard, HoldersFinite
  <2>3. h \notin HoldersOf(w, x)
    BY <1>4 DEF HoldersOf
  <2>4. CASE x \in use[w]
    <3>1. HoldersOf(w, x)' = HoldersOf(w, x) \cup {h}
      BY <1>c, <1>4, <2>4 DEF HoldersOf
    <3>2. Cardinality(HoldersOf(w, x) \cup {h}) =
            Cardinality(HoldersOf(w, x)) + 1
      BY ONLY <2>3, HoldersCard
    <3>3. numusers'[w][x] = numusers[w][x] + 1
      BY <1>2, <2>4 DEF Recounted, NoUse, IInv, TypeInv
    <3>4. pnext' = pnext
      OBVIOUS
    <3> QED BY ONLY <2>1, <2>2, <3>1, <3>2, <3>3, <3>4
  <2>5. CASE x \notin use[w]
    <3>1. HoldersOf(w, x)' = HoldersOf(w, x)
      BY <1>c, <1>4, <2>5 DEF HoldersOf
    <3>2. numusers'[w][x] = numusers[w][x]
      BY <1>2, <2>5 DEF Recounted, NoUse, IInv, TypeInv
    <3>3. pnext' = pnext
      OBVIOUS
    <3> QED BY ONLY <2>1, <3>1, <3>2, <3>3
  <2> QED BY <2>4, <2>5
<1>6. NoDangling'
  <2> SUFFICES ASSUME NEW w \in Way, NEW x \in alive'
               PROVE  /\ pnext[w][x] \in alive' \cup {NULL}
                      /\ held'[x].use[w] \subseteq alive'
    BY DEF NoDangling
  <2>1. x \in Io /\ alive \subseteq alive' /\ alive' = alive \cup {h} /\ {a, b} \subseteq alive
    BY DEF IInv, TypeInv
  <2>2. CASE x = h
    <3>1. held'[x].use[w] = use[w]
      BY <1>c, <2>2
    <3> QED BY <1>1, <1>4, <2>1, <2>2, <3>1
  <2>3. CASE x # h
    BY <1>4, <1>c, <2>1, <2>3 DEF IInv, NoDangling
  <2> QED BY <2>2, <2>3
<1>8. Bookkeeping'
  <2>1. ASSUME NEW x \in Io, NEW k \in DOMAIN held'[x].ends
        PROVE  \E w \in Way : held'[x].ends[k] \in held'[x].use[w]
    <3>1. CASE x = h
      BY <1>a, <1>b, <1>c, <2>1, <3>1
    <3>2. CASE x # h
      BY <1>c, <2>1, <3>2 DEF IInv, Bookkeeping
    <3> QED BY <3>1, <3>2
  <2>2. \A x \in Io : x \notin alive' =>
          held'[x] = NotHeld /\ \A w \in Way : pnext'[w][x] = NULL
    BY <1>c DEF IInv, Bookkeeping
  <2> QED BY <2>1, <2>2 DEF Bookkeeping
<1>9. Taken' /\ Stack'
  BY Outside
<1> QED BY <1>3, <1>5, <1>6, <1>8, <1>9 DEF IInv

----------------------------------------------------------------------------
(* The steps of netwib_io_close *)

\* What is known while a close runs.
LEMMA CloseFacts ==
  ASSUME IInv, calls # <<>>
  PROVE  /\ calls \in Seq(CallType) /\ DOMAIN calls = 1 .. Len(calls)
         /\ Len(calls) \in Nat /\ Len(calls) >= 1
         /\ 1 \in DOMAIN calls /\ Len(calls) \in DOMAIN calls
         /\ \A i \in DOMAIN calls : calls[i] \in CallType /\ Sound(calls[i])
         /\ Top \in CallType /\ Sound(Top)
         /\ alive \subseteq before.alive
         /\ before.held \in [Io -> HeldType] /\ before.pnext \in PnextType
         /\ before.alive \subseteq Io
         /\ calls[1].pio \in Io
         /\ OneOwner(before.pnext, before.held, calls[1].pio)
         /\ alive = before.alive \ Gone
         /\ \A x \in alive : held[x] = before.held[x]
                             /\ \A w \in Way : pnext[w][x] = before.pnext[w][x]
<1>1. calls \in Seq(CallType)
  BY DEF IInv, TypeInv
<1>2. /\ DOMAIN calls = 1 .. Len(calls) /\ Len(calls) \in Nat
      /\ Len(calls) >= 1
  BY <1>1, LenProperties, EmptySeq
<1>3. \A i \in DOMAIN calls : calls[i] \in CallType /\ Sound(calls[i])
  BY <1>1, <1>2, ElementOfSeq DEF IInv, Stack
<1>4. Top \in CallType /\ Sound(Top)
  BY <1>2, <1>3 DEF Top
<1>5. before \in [alive : SUBSET Io, pnext : PnextType, held : [Io -> HeldType]]
  BY DEF IInv, TypeInv
<1>6. alive \subseteq before.alive
  BY DEF IInv, Taken
<1> QED BY <1>1, <1>2, <1>3, <1>4, <1>5, <1>6 DEF IInv, Taken, Gone

\* The walk of an allocated link meets the links it met at the beginning.
LEMMA RingStays ==
  ASSUME IInv, calls # <<>>, NEW e \in alive
  PROVE  CloseRing(pnext, e) = Ring(e) /\ Ring(e) \subseteq alive
<1>1. ASSUME NEW w \in Way
      PROVE  /\ Chain(pnext[w], e) = Chain(before.pnext[w], e)
             /\ Chain(pnext[w], e) \subseteq alive
  <2>1. Chain(pnext[w], e) \subseteq alive /\ e \in Io
    BY ChainAlive DEF IInv, TypeInv
  <2>2. \A x \in alive : pnext[w][x] = before.pnext[w][x]
    BY CloseFacts
  <2>3. ASSUME NEW nx, NEW x \in Chain(nx, e)
        PROVE  nx[x] # NULL /\ nx[x] \in Io => nx[x] \in Chain(nx, e)
    BY DEF Chain, ClosedUnder
  <2>4. e \in Chain(pnext[w], e) /\ e \in Chain(before.pnext[w], e)
        /\ Chain(before.pnext[w], e) \in SUBSET Io /\ Chain(pnext[w], e) \in SUBSET Io
    BY <2>1 DEF Chain
  <2>5. /\ \A x \in Io : pnext[w][x] \in Io \cup {NULL} /\ before.pnext[w][x] \in Io \cup {NULL}
        /\ \A x \in Io : pnext[w][x] # NULL => x \in alive
    BY CloseFacts DEF IInv, TypeInv, PnextType, Bookkeeping
  <2>6. \A x \in Chain(pnext[w], e) : before.pnext[w][x] \in Chain(pnext[w], e) \cup {NULL}
    BY <2>1, <2>2, <2>3, <2>4, <2>5
  <2>7. \A x \in Chain(before.pnext[w], e) :
          pnext[w][x] \in Chain(before.pnext[w], e) \cup {NULL}
    BY <2>2, <2>3, <2>4, <2>5
  <2>8. Chain(before.pnext[w], e) \subseteq Chain(pnext[w], e)
    BY ONLY <2>4, <2>6, ChainIn
  <2>9. Chain(pnext[w], e) \subseteq Chain(before.pnext[w], e)
    BY ONLY <2>4, <2>7, ChainIn
  <2> QED BY <2>1, <2>8, <2>9
<1> QED BY <1>1 DEF Ring, CloseRing, Way

\* The rings of two calls share no link.
LEMMA Apart ==
  ASSUME IInv, calls # <<>>, NEW i \in DOMAIN calls, NEW j \in DOMAIN calls,
         NEW c \in Ring(calls[i].pio), c \in Ring(calls[j].pio)
  PROVE  i = j
<1>1. calls[i].pio \in Family /\ calls[j].pio \in Family
  BY CloseFacts DEF Sound
<1>2. calls[i].pio = calls[j].pio
  BY <1>1, CloseFacts, FromOneOwner DEF Family, Ring
<1> QED BY <1>2 DEF IInv, Stack

\* Where the innermost call walks, no pfclose runs.
LEMMA NotLeaving ==
  ASSUME IInv, Walking, NEW y \in Top.ring
  PROVE  y \notin Leaving /\ y \in alive /\ y \in Io
<1>1. calls # <<>> /\ Top.at = NULL
  BY DEF Walking
<1>2. y \in Ring(Top.pio) /\ y \in alive /\ y \in Io
  BY <1>1, CloseFacts DEF Sound, Gone
<1>3. ASSUME NEW i \in DOMAIN calls, calls[i].at = y
      PROVE  FALSE
  <2>1. calls[i].at # NULL
    BY <1>2, <1>3, IoAssumption
  <2>2. y \in Ring(calls[i].pio)
    BY <1>1, <1>3, <2>1, CloseFacts DEF Sound
  <2>3. i = Len(calls)
    BY <1>1, <1>2, <2>2, CloseFacts, Apart DEF Top
  <2> QED BY <1>1, <2>1, <2>3 DEF Top
<1> QED BY <1>2, <1>3 DEF Leaving

\* The calls that wait for an inner one.
Outer == {calls[i] : i \in 1 .. Len(calls) - 1}

\* The innermost call changes, and the others stay sound.
LEMMA TopStep ==
  ASSUME IInv, calls # <<>>, NEW g \in CallType, g.pio = Top.pio,
         calls' = [calls EXCEPT ![Len(calls)] = g], before' = before,
         Sound(g)', \A f \in Outer : Sound(f)'
  PROVE  Stack'
<1> DEFINE n == Len(calls)
<1>1. /\ Len(calls') = n /\ DOMAIN calls' = DOMAIN calls /\ calls'[n] = g
      /\ \A i \in DOMAIN calls : i # n => calls'[i] = calls[i]
      /\ n \in Nat /\ DOMAIN calls = 1 .. n
  BY CloseFacts, TopChanges
<1>2. \A i \in DOMAIN calls : calls'[i].pio = calls[i].pio
  BY <1>1 DEF Top
<1>3. ASSUME NEW i \in DOMAIN calls PROVE Sound(calls[i])'
  <2>1. calls'[i] = g \/ calls'[i] \in Outer
    BY <1>1, <1>3 DEF Outer
  <2>2. PICK f : f = calls'[i]
    OBVIOUS
  <2>3. Sound(f)'
    BY <2>1, <2>2
  <2> QED BY <2>2, <2>3 DEF Sound
<1>4. ASSUME NEW i \in DOMAIN calls, i < n
      PROVE  /\ calls'[i].at # NULL
             /\ calls'[i].done \in DOMAIN before'.held[calls'[i].at].ends
             /\ calls'[i + 1].pio = before'.held[calls'[i].at].ends[calls'[i].done]
  <2>1. calls'[i] = calls[i] /\ i + 1 \in DOMAIN calls
    BY <1>1, <1>4
  <2>2. calls'[i + 1].pio = calls[i + 1].pio
    BY <1>2, <2>1
  <2> QED BY <1>4, <2>1, <2>2 DEF IInv, Stack, EndsOf
<1>5. ASSUME NEW i \in DOMAIN calls, NEW j \in DOMAIN calls, calls'[i].pio = calls'[j].pio
      PROVE  i = j
  BY <1>2, <1>5 DEF IInv, Stack
<1> QED BY <1>1, <1>3, <1>4, <1>5 DEF Stack, EndsOf

\* The first io stays the same.
LEMMA SameFamily ==
  ASSUME IInv, calls # <<>>, NEW g \in CallType, g.pio = Top.pio,
         calls' = [calls EXCEPT ![Len(calls)] = g], before' = before
  PROVE  /\ Family' = Family /\ \A x : Ring(x)' = Ring(x) /\ \A c : EndsOf(c)' = EndsOf(c)
         /\ calls' # <<>> /\ calls'[1].pio = calls[1].pio
         /\ calls' \in Seq(CallType)
         /\ Leaving' \cap Io = ((Leaving \ {Top.at}) \cup {g.at}) \cap Io
<1>1. /\ Len(calls') = Len(calls) /\ DOMAIN calls' = DOMAIN calls
      /\ calls'[Len(calls)] = g
      /\ \A i \in DOMAIN calls : i # Len(calls) => calls'[i] = calls[i]
      /\ Len(calls) >= 1 /\ calls' \in Seq(CallType)
  BY CloseFacts, TopChanges
<1>2. calls'[1].pio = calls[1].pio
  BY <1>1, CloseFacts DEF Top
<1>3. calls' # <<>>
  BY <1>1, CloseFacts, EmptySeq
<1>4. Family' = Family /\ \A x : Ring(x)' = Ring(x) /\ \A c : EndsOf(c)' = EndsOf(c)
  BY <1>2 DEF Family, Ring, EndsOf
<1>5. ASSUME NEW y \in Io
      PROVE  y \in Leaving' <=> y \in (Leaving \ {Top.at}) \cup {g.at}
  <2>1. ASSUME NEW i \in DOMAIN calls, i # Len(calls), calls[i].at = y
        PROVE  y # Top.at
    <3>1. SUFFICES ASSUME y = Top.at PROVE FALSE
      OBVIOUS
    <3>2. y # NULL
      BY IoAssumption
    <3>3. y \in Ring(calls[i].pio) /\ y \in Ring(calls[Len(calls)].pio)
      BY <2>1, <3>1, <3>2, CloseFacts DEF Sound, Top
    <3> QED BY <2>1, <3>3, CloseFacts, Apart
  <2>2. y \in Leaving' <=> y = g.at \/ \E i \in DOMAIN calls : i # Len(calls) /\ y = calls[i].at
    BY <1>1, CloseFacts DEF Leaving
  <2>3. y \in Leaving <=> y = Top.at \/ \E i \in DOMAIN calls : i # Len(calls) /\ y = calls[i].at
    BY CloseFacts DEF Leaving, Top
  <2> QED BY <2>1, <2>2, <2>3
<1> QED BY <1>1, <1>2, <1>3, <1>4, <1>5

\* A call stays sound when nothing that it looks at changes.
LEMMA SoundStays ==
  ASSUME IInv, NEW f \in CallType, Sound(f), before' = before, Family' = Family,
         UNCHANGED <<alive, pnext, held>>, Leaving \cap Io \subseteq Leaving'
  PROVE  Sound(f)'
<1>1. Gone' = Gone /\ (\A x : Ring(x)' = Ring(x)) /\ (\A c : EndsOf(c)' = EndsOf(c))
  BY DEF Gone, Ring, EndsOf
<1>2. ASSUME NEW y, Unused(y) PROVE Unused(y)'
  <2>1. alive \subseteq Io
    BY DEF IInv, TypeInv
  <2> QED BY <1>2, <2>1 DEF Unused
<1> QED BY <1>1, <1>2 DEF Sound

\* A step of the walk that frees nothing.
LEMMA WalkStep ==
  ASSUME IInv, Walking, NEW todo, todo \subseteq Top.ring, NEW b \in BOOLEAN,
         calls' = [calls EXCEPT ![Len(calls)] = [Top EXCEPT !.todo = todo, !.ioremoved = b]],
         UNCHANGED <<alive, supported, pnext, numusers, held, before, ret, ppio>>
  PROVE  IInv'
<1>0. PICK g : g = [Top EXCEPT !.todo = todo, !.ioremoved = b]
  OBVIOUS
<1>1. calls # <<>> /\ Top.at = NULL /\ Top \in CallType /\ Sound(Top)
  BY CloseFacts DEF Walking
<1>2. /\ g \in CallType /\ g.pio = Top.pio /\ g.at = NULL /\ g.ring = Top.ring
      /\ g.todo = todo
  BY <1>0, <1>1 DEF CallType, Sound
<1>3. calls' = [calls EXCEPT ![Len(calls)] = g]
  BY <1>0
<1>4. /\ Family' = Family /\ (\A x : Ring(x)' = Ring(x))
      /\ calls' \in Seq(CallType) /\ calls'[1].pio = calls[1].pio
      /\ Leaving' \cap Io = Leaving \cap Io
  <2>1. NULL \notin Io
    BY IoAssumption
  <2>2. /\ Family' = Family /\ (\A x : Ring(x)' = Ring(x))
        /\ calls' \in Seq(CallType) /\ calls'[1].pio = calls[1].pio
        /\ Leaving' \cap Io = ((Leaving \ {Top.at}) \cup {g.at}) \cap Io
    BY <1>1, <1>2, <1>3, SameFamily
  <2> QED BY <1>1, <1>2, <2>1, <2>2
<1>5. Gone' = Gone
  BY DEF Gone
<1>6. Sound(g)'
  BY <1>1, <1>2, <1>4, <1>5 DEF Sound
<1>7. ASSUME NEW f \in Outer PROVE Sound(f)'
  <2>1. f \in CallType /\ Sound(f)
    BY <1>1, <1>7, CloseFacts DEF Outer
  <2> QED BY <1>4, <2>1, SoundStays
<1>8. Stack'
  BY <1>1, <1>2, <1>3, <1>6, <1>7, TopStep
<1>9. TypeInv'
  BY <1>4 DEF IInv, TypeInv
<1>10. Taken'
  BY <1>1, <1>4 DEF IInv, Taken
<1> QED BY <1>4, <1>8, <1>9, <1>10, QuietStep DEF IInv

LEMMA CloseKeepStep ==
  ASSUME IInv, NEW y \in Io, CloseKeep(y)
  PROVE  IInv'
<1>1. Walking /\ Top \in CallType /\ Sound(Top)
  BY CloseFacts DEF CloseKeep, Current, Walking
<1>2. Top.todo \ {y} \subseteq Top.ring /\ Top.ioremoved \in BOOLEAN
  BY <1>1 DEF Sound, CallType
<1>3. calls' = [calls EXCEPT ![Len(calls)] =
                  [Top EXCEPT !.todo = Top.todo \ {y}, !.ioremoved = Top.ioremoved]]
  <2>1. [Top EXCEPT !.todo = Top.todo \ {y}] =
          [Top EXCEPT !.todo = Top.todo \ {y}, !.ioremoved = Top.ioremoved]
    BY <1>1 DEF CallType
  <2>2. calls' = [calls EXCEPT ![Len(calls)] = [Top EXCEPT !.todo = Top.todo \ {y}]]
    BY DEF CloseKeep, Top
  <2> QED BY <2>1, <2>2
<1> QED BY <1>1, <1>2, <1>3, WalkStep DEF CloseKeep

LEMMA NextPassStep ==
  ASSUME IInv, NextPass
  PROVE  IInv'
<1>1. Walking
  BY DEF NextPass, PassDone
<1>2. calls' = [calls EXCEPT ![Len(calls)] =
                  [Top EXCEPT !.todo = Top.ring, !.ioremoved = FALSE]]
  BY DEF NextPass, Top
<1> QED BY <1>1, <1>2, WalkStep DEF NextPass

\* The first call walks over the links of the caller's io.
LEMMA CloseBeginStep ==
  ASSUME IInv, Careful, NEW x \in Io, CloseBegin(x)
  PROVE  IInv'
<1> USE DEF CloseBegin
<1>1. PICK g : g = Closing(x)
  OBVIOUS
<1>2. CloseRing(pnext, x) \subseteq alive /\ alive \subseteq Io /\ x \in alive
  BY ChainAlive DEF CloseRing, Way, IInv, TypeInv
<1>3. /\ g \in CallType /\ g.pio = x /\ g.at = NULL
      /\ g.ring = CloseRing(pnext, x) /\ g.todo = CloseRing(pnext, x)
  BY <1>1, <1>2 DEF Closing, CallType
<1>4. /\ calls' = <<g>> /\ calls' \in Seq(CallType) /\ DOMAIN calls' = {1}
      /\ calls'[1] = g /\ Len(calls') = 1
  BY <1>1, <1>3
<1>5. before'.alive = alive /\ before'.pnext = pnext /\ before'.held = held
  OBVIOUS
<1>6. Leaving = {} /\ Leaving' \cap Io = {}
  BY <1>3, <1>4, NobodyLeaves, IoAssumption DEF Leaving
<1>7. TypeInv'
  BY <1>4, <1>5 DEF IInv, TypeInv
<1>8. Taken'
  BY <1>2, <1>3, <1>4, <1>5 DEF Taken, Careful
<1>9. Sound(g)'
  <2>1. x \in Family'
    BY <1>3, <1>4, <1>5, FamilyFirst DEF Family
  <2>2. Gone' = {} /\ Ring(x)' = CloseRing(pnext, x)
    BY <1>5 DEF Gone, Ring
  <2> QED BY <1>2, <1>3, <1>5, <2>1, <2>2 DEF Sound
<1>10. Stack'
  <2> SUFFICES ASSUME NEW i \in DOMAIN calls' PROVE Sound(calls[i])'
    BY <1>4 DEF Stack
  <2>1. calls'[i] = g
    BY <1>4
  <2> QED BY <1>9, <2>1 DEF Sound
<1> QED BY <1>6, <1>7, <1>8, <1>10, QuietStep DEF IInv

\* A link is in use when a link or a compound io uses it.
LEMMA InUseMeans ==
  ASSUME IInv, NEW y \in Io
  PROVE  InUse(y) <=>
         \E w \in Way : Preds(pnext[w], y) # {} \/ HoldersOf(w, y) # {}
<1>1. ASSUME NEW w \in Way
      PROVE  numusers[w][y] = 0 <=> Preds(pnext[w], y) = {} /\ HoldersOf(w, y) = {}
  <2>1. numusers[w][y] = Cardinality(Preds(pnext[w], y))
                         + Cardinality(HoldersOf(w, y))
    BY DEF IInv, CountsMatch
  <2>2. /\ Cardinality(Preds(pnext[w], y)) \in Nat
        /\ Cardinality(HoldersOf(w, y)) \in Nat
        /\ IsFiniteSet(Preds(pnext[w], y))
        /\ IsFiniteSet(HoldersOf(w, y))
    BY PredsCard, PredsFinite, HoldersFinite
  <2>3. numusers[w][y] = 0 <=> /\ Cardinality(Preds(pnext[w], y)) = 0
                              /\ Cardinality(HoldersOf(w, y)) = 0
    BY ONLY <2>1, <2>2
  <2> QED BY ONLY <2>2, <2>3, FS_EmptySet
<1> QED BY <1>1 DEF InUse


\* A compound io that begins its pfclose is no user any more, and the ios that
\* it will close are there: it used them until now.
LEMMA PfcloseStep ==
  ASSUME IInv, NEW y \in Io, Pfclose(y)
  PROVE  IInv'
<1> USE DEF Pfclose, GivenBack
<1>0. Walking /\ calls # <<>> /\ Top.at = NULL /\ Top \in CallType /\ Sound(Top)
  BY CloseFacts DEF Current, Walking
<1>1. y \in Top.ring /\ y \notin Leaving /\ y \in alive
  BY <1>0, NotLeaving DEF Current, Sound
<1>2. \A w \in Way : Preds(pnext[w], y) = {} /\ HoldersOf(w, y) = {}
  BY InUseMeans
<1>3. PICK g : g = [Top EXCEPT !.at = y, !.done = 0]
  OBVIOUS
<1>4. /\ g \in CallType /\ g.pio = Top.pio /\ g.at = y /\ g.ring = Top.ring
      /\ g.todo = Top.todo /\ g.done = 0
  BY <1>0, <1>3 DEF CallType
<1>5. calls' = [calls EXCEPT ![Len(calls)] = g]
  BY <1>3 DEF Top
<1>6. /\ Family' = Family /\ (\A x : Ring(x)' = Ring(x)) /\ (\A c : EndsOf(c)' = EndsOf(c))
      /\ calls' \in Seq(CallType) /\ calls'[1].pio = calls[1].pio
      /\ Leaving' \cap Io = (Leaving \cup {y}) \cap Io
  <2>1. NULL \notin Io
    BY IoAssumption
  <2>2. /\ Family' = Family /\ (\A x : Ring(x)' = Ring(x))
        /\ (\A c : EndsOf(c)' = EndsOf(c))
        /\ calls' \in Seq(CallType) /\ calls'[1].pio = calls[1].pio
        /\ Leaving' \cap Io = ((Leaving \ {Top.at}) \cup {g.at}) \cap Io
    BY <1>0, <1>4, <1>5, SameFamily
  <2> QED BY <1>0, <1>4, <2>1, <2>2
<1>7. \A f \in Outer : Sound(f)'
  <2> SUFFICES ASSUME NEW f \in Outer PROVE Sound(f)'
    OBVIOUS
  <2>1. f \in CallType /\ Sound(f)
    BY <1>0, CloseFacts DEF Outer
  <2> QED BY <1>6, <2>1, SoundStays
<1>8. Sound(g)'
  <2>1. Unused(y)'
    <3> SUFFICES ASSUME NEW w \in Way, NEW x \in alive
                 PROVE  pnext[w][x] # y /\ (x \notin Leaving' => y \notin held[x].use[w])
      BY DEF Unused
    <3>1. x \in Io
      BY DEF IInv, TypeInv
    <3> QED BY <1>2, <1>6, <3>1 DEF Preds, HoldersOf
  <2>2. \A k \in DOMAIN EndsOf(y) : EndsOf(y)[k] \in alive
    <3>1. EndsOf(y) = held[y].ends
      BY <1>0, <1>1, CloseFacts DEF EndsOf
    <3> SUFFICES ASSUME NEW k \in DOMAIN held[y].ends PROVE held[y].ends[k] \in alive
      BY <3>1
    <3>2. PICK w \in Way : held[y].ends[k] \in held[y].use[w]
      BY DEF IInv, Bookkeeping
    <3> QED BY <1>1, <3>2 DEF IInv, NoDangling
  <2>3. 0 <= Len(EndsOf(y))
    <3>1. EndsOf(y) \in Seq(Io)
      BY <1>0, CloseFacts DEF EndsOf, HeldType
    <3> QED BY <3>1, LenProperties
  <2>4. Gone' = Gone
    BY DEF Gone
  <2> QED BY <1>0, <1>1, <1>4, <1>6, <2>1, <2>2, <2>3, <2>4 DEF Sound
<1>9. Stack'
  BY <1>0, <1>4, <1>5, <1>7, <1>8, TopStep
<1>10. TypeInv'
  <2>1. numusers' \in [Way -> [Io -> Int]]
    BY RecountType DEF IInv
  <2> QED BY <1>6, <2>1 DEF IInv, TypeInv
<1>11. Taken'
  BY <1>0, <1>6 DEF IInv, Taken
<1>12. NoDangling'
  BY <1>6 DEF IInv, TypeInv, NoDangling
<1>13. Bookkeeping'
  BY DEF IInv, Bookkeeping
<1>14. CountsMatch'
  <2> SUFFICES ASSUME NEW w \in Way, NEW x \in Io
               PROVE  numusers'[w][x] = Cardinality(Preds(pnext'[w], x))
                                        + Cardinality(HoldersOf(w, x)')
    BY DEF CountsMatch
  <2>1. numusers[w][x] = Cardinality(Preds(pnext[w], x))
                         + Cardinality(HoldersOf(w, x))
    BY DEF IInv, CountsMatch
  <2>2. /\ Cardinality(Preds(pnext[w], x)) \in Nat
        /\ Cardinality(HoldersOf(w, x)) \in Nat
    BY PredsCard, HoldersFinite
  <2>3. HoldersOf(w, x)' = HoldersOf(w, x) \ {y}
    BY <1>6 DEF HoldersOf
  <2>4. pnext' = pnext
    OBVIOUS
  <2>5. CASE x \in held[y].use[w]
    <3>1. y \in HoldersOf(w, x)
      BY <1>1, <2>5 DEF HoldersOf
    <3>2. Cardinality(HoldersOf(w, x) \ {y}) =
            Cardinality(HoldersOf(w, x)) - 1
      BY ONLY <3>1, HoldersCard
    <3>3. numusers'[w][x] = numusers[w][x] - 1
      BY <2>5 DEF Recounted, NoUse, IInv, TypeInv
    <3> QED BY ONLY <2>1, <2>2, <2>3, <2>4, <3>2, <3>3
  <2>6. CASE x \notin held[y].use[w]
    <3>1. HoldersOf(w, x) \ {y} = HoldersOf(w, x)
      BY <2>6 DEF HoldersOf
    <3>2. numusers'[w][x] = numusers[w][x]
      BY <2>6 DEF Recounted, NoUse, IInv, TypeInv
    <3> QED BY ONLY <2>1, <2>3, <2>4, <3>1, <3>2
  <2> QED BY <2>5, <2>6
<1> QED BY <1>9, <1>10, <1>11, <1>12, <1>13, <1>14 DEF IInv

\* The close of an io of a compound one begins: no other call closes it.
LEMMA PfcloseNextStep ==
  ASSUME IInv, PfcloseNext
  PROVE  IInv'
<1>a. /\ Top.done < Len(ToClose) /\ ToClose[Top.done + 1] \in alive /\ InPfclose
      /\ calls' = Append([calls EXCEPT ![Len(calls)].done = @ + 1],
                         Closing(ToClose[Top.done + 1]))
      /\ before' = before
      /\ UNCHANGED <<alive, supported, pnext, numusers, held, ret, ppio>>
  BY DEF PfcloseNext
<1> DEFINE n == Len(calls)
<1>0. /\ calls # <<>> /\ Top.at # NULL /\ Top \in CallType /\ Sound(Top)
      /\ Top.at \in alive /\ Top.at \in Io /\ Top.at \in Ring(Top.pio)
      /\ n \in DOMAIN calls /\ DOMAIN calls = 1 .. n /\ n \in Nat /\ Top = calls[n]
      /\ calls \in Seq(CallType)
  BY <1>a, CloseFacts DEF InPfclose, Sound, Gone, Top
<1>b. n = Len(calls)
  OBVIOUS
<1> HIDE DEF n
<1>1. /\ ToClose = EndsOf(Top.at) /\ EndsOf(Top.at) \in Seq(Io)
      /\ DOMAIN EndsOf(Top.at) = 1 .. Len(EndsOf(Top.at)) /\ Len(EndsOf(Top.at)) \in Nat
  <2>1. ToClose = EndsOf(Top.at) /\ EndsOf(Top.at) \in Seq(Io)
    BY <1>0, CloseFacts DEF ToClose, EndsOf, HeldType
  <2> QED BY <2>1, LenProperties
<1>2. Top.done \in Nat /\ Top.done < Len(EndsOf(Top.at))
  BY <1>a, <1>0, <1>1 DEF CallType
<1>3. PICK e : e = EndsOf(Top.at)[Top.done + 1]
  OBVIOUS
<1>4. e \in alive /\ e \in Io /\ Top.done + 1 \in DOMAIN EndsOf(Top.at)
  BY <1>a, <1>1, <1>2, <1>3 DEF IInv, TypeInv
<1>5. PICK g : g = [Top EXCEPT !.done = Top.done + 1]
  OBVIOUS
<1>6. PICK c : c = Closing(e)
  OBVIOUS
<1>7. PICK s : s = [calls EXCEPT ![n] = g]
  OBVIOUS
<1>8. /\ g \in CallType /\ g.pio = Top.pio /\ g.at = Top.at /\ g.ring = Top.ring
      /\ g.todo = Top.todo /\ g.done = Top.done + 1
  BY <1>0, <1>2, <1>5 DEF CallType
<1>9. CloseRing(pnext, e) = Ring(e) /\ Ring(e) \subseteq alive /\ alive \subseteq Io
  <2>1. CloseRing(pnext, e) = Ring(e) /\ Ring(e) \subseteq alive
    BY ONLY <1>0, <1>4, IInv, RingStays
  <2> QED BY <2>1 DEF IInv, TypeInv
<1>10. /\ c \in CallType /\ c.pio = e /\ c.at = NULL /\ c.ring = Ring(e) /\ c.todo = Ring(e)
  BY <1>4, <1>6, <1>9 DEF Closing, CallType
<1>11. calls' = Append(s, c)
  BY <1>a, <1>b, <1>1, <1>3, <1>5, <1>6, <1>7 DEF Top
<1>12. /\ s \in Seq(CallType) /\ Len(s) = n /\ DOMAIN s = DOMAIN calls /\ s[n] = g
       /\ \A i \in DOMAIN calls : i # n => s[i] = calls[i]
  BY <1>0, <1>b, <1>7, <1>8, TopChanges
<1>13. /\ calls' \in Seq(CallType) /\ Len(calls') = n + 1 /\ DOMAIN calls' = 1 .. n + 1
       /\ calls'[n + 1] = c /\ calls'[n] = g
       /\ \A i \in DOMAIN calls : i # n => calls'[i] = calls[i]
  <2>1. /\ Append(s, c) \in Seq(CallType) /\ Len(Append(s, c)) = n + 1
        /\ DOMAIN Append(s, c) = 1 .. n + 1 /\ Append(s, c)[n + 1] = c
        /\ \A i \in DOMAIN s : Append(s, c)[i] = s[i]
    BY ONLY <1>10, <1>12, Pushed
  <2> QED BY ONLY <1>0, <1>11, <1>12, <2>1
<1>14. \A i \in DOMAIN calls : calls'[i].pio = calls[i].pio /\ calls'[i].at = calls[i].at
  BY <1>0, <1>8, <1>13
<1>15. Leaving' \cap Io = Leaving \cap Io
  <2> SUFFICES ASSUME NEW y \in Io PROVE y \in Leaving' <=> y \in Leaving
    OBVIOUS
  <2>1. y \in Leaving' <=> y = c.at \/ \E i \in DOMAIN calls : y = calls'[i].at
    <3>1. \A i : i \in DOMAIN calls' <=> i \in DOMAIN calls \/ i = n + 1
      BY ONLY <1>0, <1>13
    <3> QED BY <1>13, <3>1 DEF Leaving
  <2>2. y # c.at
    BY <1>10, IoAssumption
  <2> QED BY <1>14, <2>1, <2>2 DEF Leaving
<1>16. /\ calls' # <<>> /\ calls'[1].pio = calls[1].pio
       /\ Family' = Family /\ (\A x : Ring(x)' = Ring(x)) /\ Gone' = Gone
       /\ (\A x : EndsOf(x)' = EndsOf(x))
  <2>1. 1 \in DOMAIN calls
    BY <1>0, CloseFacts
  <2>2. calls'[1].pio = calls[1].pio
    BY <1>14, <2>1
  <2>3. calls' # <<>>
    BY <1>0, <1>13, EmptySeq
  <2> QED BY <1>a, <2>2, <2>3 DEF Family, Ring, Gone, EndsOf
<1>17. ASSUME NEW f \in CallType, Sound(f) PROVE Sound(f)'
  BY <1>a, <1>15, <1>16, <1>17, SoundStays
<1>18. Sound(g)'
  <2>1. PICK f : f = Top
    OBVIOUS
  <2>2. Sound(f)'
    BY <1>0, <1>17, <2>1
  <2>3. f.at = g.at /\ f.pio = g.pio /\ f.ring = g.ring /\ f.todo = g.todo
        /\ g.done = f.done + 1 /\ f.done \in Nat /\ f.at # NULL
        /\ g.done <= Len(EndsOf(f.at))
    BY <1>0, <1>1, <1>2, <1>8, <2>1
  <2>4. g.done <= Len(EndsOf(f.at))'
    BY <1>16, <2>3
  <2>5. DOMAIN EndsOf(f.at)' = 1 .. Len(EndsOf(f.at))
    BY <1>1, <1>16, <2>1
  <2> QED BY <2>2, <2>3, <2>4, <2>5 DEF Sound
<1>19. Sound(c)'
  <2>1. e \in Family
    BY <1>0, <1>3, <1>4, CloseFacts, FamilyHas DEF Sound, Family, Ring, EndsOf
  <2>2. Ring(e) \subseteq before.alive /\ Ring(e) = Ring(e) \ Gone
    BY <1>0, <1>9, CloseFacts DEF Gone
  <2>3. Ring(e) \subseteq before'.alive
    BY <1>a, <2>2
  <2>4. Ring(e)' = Ring(e) /\ Gone' = Gone /\ Family' = Family
    BY <1>16
  <2> QED BY ONLY <1>10, <2>1, <2>2, <2>3, <2>4 DEF Sound
<1>20. ASSUME NEW i \in DOMAIN calls PROVE calls[i].pio # e
  <2>0. Top.pio \in Family /\ Top.at \in Ring(Top.pio)
    BY <1>0 DEF Sound
  <2>1. CASE i = 1
    BY <1>0, <1>3, <1>4, <2>0, <2>1, CloseFacts, FromOneOwner DEF Family, Ring, EndsOf
  <2>2. CASE i # 1
    <3> DEFINE j == i - 1
    <3>1. /\ j \in DOMAIN calls /\ j < n /\ calls[j].at # NULL
          /\ calls[j].done \in DOMAIN EndsOf(calls[j].at)
          /\ calls[i].pio = EndsOf(calls[j].at)[calls[j].done]
      <4>1. j \in DOMAIN calls /\ j < n /\ j + 1 = i
        BY <1>0, <2>2
      <4> HIDE DEF j
      <4> QED BY <4>1, <1>b DEF IInv, Stack
    <3> HIDE DEF j
    <3>2. calls[j].at \in Ring(calls[j].pio) /\ calls[j].pio \in Family
      BY <1>0, <3>1, CloseFacts DEF Sound
    <3>3. ASSUME calls[i].pio = e PROVE FALSE
      <4>1. calls[j].at = Top.at
        <5>1. \A a \in DOMAIN EndsOf(calls[j].at), b \in DOMAIN EndsOf(Top.at) :
                EndsOf(calls[j].at)[a] = EndsOf(Top.at)[b] => calls[j].at = Top.at /\ a = b
          BY <1>0, <2>0, <3>2, CloseFacts, FromOneOwner DEF Family, Ring, EndsOf
        <5>2. EndsOf(calls[j].at)[calls[j].done] = EndsOf(Top.at)[Top.done + 1]
          BY ONLY <1>3, <3>1, <3>3
        <5> QED BY ONLY <1>4, <3>1, <5>1, <5>2
      <4>2. j = n
        BY <1>0, <3>1, <3>2, <4>1, Apart
      <4> QED BY <3>1, <4>2, <1>0
    <3> QED BY <3>3
  <2> QED BY <2>1, <2>2
<1>21. Stack'
  <2>1. ASSUME NEW i \in DOMAIN calls' PROVE Sound(calls[i])'
    <3>1. PICK f : f = calls'[i]
      OBVIOUS
    <3>2. f = c \/ f = g \/ (f \in CallType /\ Sound(f))
      <4>1. i \in DOMAIN calls \/ i = n + 1
        BY ONLY <1>0, <1>13, <2>1
      <4>2. i \in DOMAIN calls => calls[i] \in CallType /\ Sound(calls[i])
        BY <1>0, CloseFacts
      <4> QED BY <1>13, <3>1, <4>1, <4>2
    <3>3. Sound(f)'
      BY <1>17, <1>18, <1>19, <3>2
    <3> QED BY <3>1, <3>3 DEF Sound
  <2>2. ASSUME NEW i \in DOMAIN calls', i < Len(calls')
        PROVE  /\ calls'[i].at # NULL
               /\ calls'[i].done \in DOMAIN before'.held[calls'[i].at].ends
               /\ calls'[i + 1].pio = before'.held[calls'[i].at].ends[calls'[i].done]
    <3>1. CASE i = n
      BY <1>a, <1>0, <1>3, <1>4, <1>8, <1>10, <1>13, <3>1 DEF EndsOf
    <3>2. CASE i # n
      <4>1. i \in DOMAIN calls /\ i < n /\ i + 1 \in DOMAIN calls
        BY ONLY <1>0, <1>13, <2>2, <3>2
      <4>2. calls'[i] = calls[i] /\ calls'[i + 1].pio = calls[i + 1].pio
        BY <1>13, <1>14, <3>2, <4>1
      <4> QED BY <1>a, <1>b, <4>1, <4>2 DEF IInv, Stack, EndsOf
    <3> QED BY <3>1, <3>2
  <2>3. ASSUME NEW i \in DOMAIN calls', NEW j \in DOMAIN calls', calls'[i].pio = calls'[j].pio
        PROVE  i = j
    <3>1. \A k \in DOMAIN calls' : k \in DOMAIN calls \/ k = n + 1
      BY ONLY <1>0, <1>13
    <3>2. \A k \in DOMAIN calls : calls'[k].pio = calls[k].pio /\ calls[k].pio # e
      BY <1>14, <1>20
    <3>3. calls'[n + 1].pio = e
      BY <1>10, <1>13
    <3> QED BY <2>3, <3>1, <3>2, <3>3 DEF IInv, Stack
  <2> QED BY <2>1, <2>2, <2>3 DEF Stack, EndsOf
<1>22. TypeInv'
  BY <1>a, <1>13 DEF IInv, TypeInv
<1>23. Taken'
  BY <1>a, <1>0, <1>16 DEF IInv, Taken
<1> QED BY <1>a, <1>15, <1>21, <1>22, <1>23, QuietStep DEF IInv

\* The ios that an outer call is yet to close are not freed by an inner one.
LEMMA PendingStays ==
  ASSUME IInv, InPfclose, NEW i \in 1 .. Len(calls) - 1,
         NEW k \in DOMAIN EndsOf(calls[i].at), k > calls[i].done
  PROVE  EndsOf(calls[i].at)[k] # Top.at
<1> SUFFICES ASSUME EndsOf(calls[i].at)[k] = Top.at PROVE FALSE
  OBVIOUS
<1> DEFINE y == Top.at
           j == Len(calls) - 1
<1>0. calls # <<>> /\ y # NULL
  BY DEF InPfclose
<1>1. /\ Len(calls) \in Nat /\ DOMAIN calls = 1 .. Len(calls)
      /\ i \in DOMAIN calls /\ i < Len(calls) /\ j \in DOMAIN calls /\ j < Len(calls)
      /\ Top = calls[j + 1] /\ Len(calls) \in DOMAIN calls
  BY <1>0, CloseFacts DEF Top
<1> HIDE DEF j
<1>2. /\ y \in Ring(Top.pio) /\ Top.pio \in Family /\ y \in Io
  BY <1>0, CloseFacts DEF Sound, Gone
<1>3. /\ calls[i].pio \in Family /\ calls[i].at \in Ring(calls[i].pio)
      /\ calls[i].at \in Io /\ calls[i].done \in Nat
      /\ calls[j].pio \in Family /\ calls[j].at \in Ring(calls[j].pio)
      /\ calls[j].done \in DOMAIN EndsOf(calls[j].at)
      /\ Top.pio = EndsOf(calls[j].at)[calls[j].done]
  <2>1. /\ calls[i].at # NULL /\ calls[j].at # NULL
        /\ calls[j].done \in DOMAIN EndsOf(calls[j].at)
        /\ Top.pio = EndsOf(calls[j].at)[calls[j].done]
    BY <1>1 DEF IInv, Stack
  <2> QED BY <1>0, <1>1, <2>1, CloseFacts DEF Sound, Gone, CallType
<1>4. y \in Family
  <2>1. /\ before.held \in [Io -> HeldType] /\ calls[1].pio \in Io
        /\ calls[i].pio \in ClosedWith(before.pnext, before.held, calls[1].pio)
        /\ calls[i].at \in CloseRing(before.pnext, calls[i].pio) \cap Io
        /\ k \in DOMAIN before.held[calls[i].at].ends
    BY <1>0, <1>3, CloseFacts DEF Family, Ring, EndsOf
  <2>2. before.held[calls[i].at].ends[k] \in ClosedWith(before.pnext, before.held, calls[1].pio)
    BY ONLY <2>1, FamilyHas
  <2> QED BY <2>2 DEF Family, EndsOf
<1>5. y \in Ring(y)
  BY <1>2 DEF Ring, CloseRing, Chain
<1>6. Top.pio = y
  BY <1>0, <1>2, <1>4, <1>5, CloseFacts, FromOneOwner DEF Family, Ring
<1>7. calls[i].at = calls[j].at /\ k = calls[j].done
  <2>1. \A a \in DOMAIN EndsOf(calls[i].at), b \in DOMAIN EndsOf(calls[j].at) :
          EndsOf(calls[i].at)[a] = EndsOf(calls[j].at)[b] => calls[i].at = calls[j].at /\ a = b
    BY <1>0, <1>3, CloseFacts, FromOneOwner DEF Family, Ring, EndsOf
  <2> QED BY ONLY <1>3, <1>6, <2>1, EndsOf(calls[i].at)[k] = Top.at,
                  k \in DOMAIN EndsOf(calls[i].at)
<1>8. i = j
  BY <1>0, <1>1, <1>3, <1>7, Apart
<1> QED BY ONLY <1>3, <1>7, <1>8, k > calls[i].done

\* Only a link without any user is freed, so that no pointer is left on it.
LEMMA CloseFreeStep ==
  ASSUME IInv, CloseFree
  PROVE  IInv'
<1>a. PICK y : y = Top.at
  OBVIOUS
<1>b. /\ InPfclose
      /\ numusers' = Recounted(NoUse, [w \in Way |-> SetOf(pnext[w][y])])
      /\ alive' = alive \ {y}
      /\ pnext' = [w \in Way |-> [pnext[w] EXCEPT ![y] = NULL]]
      /\ supported' = [supported EXCEPT ![y] = {}]
      /\ held' = [held EXCEPT ![y] = NotHeld]
      /\ calls' = [calls EXCEPT ![Len(calls)] =
                        [Top EXCEPT !.ring = Top.ring \ {y}, !.todo = Top.todo \ {y},
                                    !.ioremoved = TRUE, !.at = NULL]]
      /\ UNCHANGED <<before, ret, ppio>>
  BY <1>a DEF CloseFree
<1>0. /\ calls # <<>> /\ Top \in CallType /\ Sound(Top) /\ Top.at = y /\ y # NULL
      /\ y \in Top.ring /\ y \in Ring(Top.pio) /\ y \in alive /\ y \in Io /\ Unused(y)
  BY <1>a, <1>b, CloseFacts DEF InPfclose, Sound, Gone
<1>1. PICK g : g = [Top EXCEPT !.ring = Top.ring \ {y}, !.todo = Top.todo \ {y},
                               !.ioremoved = TRUE, !.at = NULL]
  OBVIOUS
<1>2. /\ g \in CallType /\ g.pio = Top.pio /\ g.at = NULL
      /\ g.ring = Top.ring \ {y} /\ g.todo = Top.todo \ {y}
  BY <1>0, <1>1 DEF CallType
<1>3. calls' = [calls EXCEPT ![Len(calls)] = g]
  BY <1>b, <1>1
<1>4. \A w \in Way, x \in Io : pnext'[w][x] = IF x = y THEN NULL ELSE pnext[w][x]
  BY <1>b, <1>0 DEF IInv, TypeInv, PnextType
<1>5. \A x \in Io : held'[x] = IF x = y THEN NotHeld ELSE held[x]
  BY <1>b, <1>0 DEF IInv, TypeInv
<1>6. /\ Family' = Family /\ (\A x : Ring(x)' = Ring(x)) /\ (\A c : EndsOf(c)' = EndsOf(c))
      /\ calls' \in Seq(CallType) /\ calls'[1].pio = calls[1].pio
      /\ Leaving' \cap Io = (Leaving \ {y}) \cap Io
  <2>1. NULL \notin Io
    BY IoAssumption
  <2>2. before' = before
    BY <1>b
  <2>3. /\ Family' = Family /\ (\A x : Ring(x)' = Ring(x))
        /\ (\A c : EndsOf(c)' = EndsOf(c))
        /\ calls' \in Seq(CallType) /\ calls'[1].pio = calls[1].pio
        /\ Leaving' \cap Io = ((Leaving \ {Top.at}) \cup {g.at}) \cap Io
    BY <1>0, <1>2, <1>3, <2>2, SameFamily
  <2> QED BY <1>0, <1>2, <2>1, <2>3
<1>7. Gone' = Gone \cup {y} /\ alive' \subseteq alive /\ alive \subseteq Io
  BY <1>b, <1>0, CloseFacts DEF Gone, IInv, TypeInv
<1>8. TypeInv'
  <2>1. numusers' \in [Way -> [Io -> Int]]
    BY <1>b, RecountType DEF IInv
  <2>2. pnext' \in PnextType
    BY <1>b DEF IInv, TypeInv, PnextType
  <2>3. held' \in [Io -> HeldType]
    BY <1>b, NotHeldType DEF IInv, TypeInv
  <2> QED BY <1>b, <1>6, <2>1, <2>2, <2>3 DEF IInv, TypeInv
<1>9. CountsMatch'
  <2> SUFFICES ASSUME NEW w \in Way, NEW x \in Io
               PROVE  numusers'[w][x] = Cardinality(Preds(pnext'[w], x))
                                        + Cardinality(HoldersOf(w, x)')
    BY DEF CountsMatch
  <2>1. HoldersOf(w, x)' = HoldersOf(w, x)
    <3> SUFFICES ASSUME NEW h \in Io
                 PROVE  h \notin Leaving' /\ x \in held'[h].use[w] <=>
                        h \notin Leaving /\ x \in held[h].use[w]
      BY DEF HoldersOf
    <3>1. y \in Leaving
      BY <1>a, <1>0, CloseFacts DEF Leaving, Top
    <3>2. CASE h = y
      BY <1>5, <3>1, <3>2, NotHeldUses
    <3>3. CASE h # y
      BY <1>5, <1>6, <3>3
    <3> QED BY <3>2, <3>3
  <2>2. numusers[w][x] = Cardinality(Preds(pnext[w], x))
                         + Cardinality(HoldersOf(w, x))
    BY DEF IInv, CountsMatch
  <2>3. /\ Cardinality(Preds(pnext[w], x)) \in Nat
        /\ Cardinality(HoldersOf(w, x)) \in Nat
    BY PredsCard, HoldersFinite
  <2>4. Preds(pnext'[w], x) = Preds(pnext[w], x) \ {y}
    BY <1>4, IoAssumption DEF Preds
  <2>5. CASE y \in Preds(pnext[w], x)
    <3>1. Cardinality(Preds(pnext[w], x) \ {y}) =
            Cardinality(Preds(pnext[w], x)) - 1
      BY ONLY <2>5, PredsCard
    <3>2. x \in SetOf(pnext[w][y])
      BY <2>5, IoAssumption DEF Preds, SetOf
    <3>3. numusers'[w][x] = numusers[w][x] - 1
      BY <1>b, <3>2 DEF Recounted, NoUse, IInv, TypeInv
    <3> QED BY ONLY <2>1, <2>2, <2>3, <2>4, <3>1, <3>3
  <2>6. CASE y \notin Preds(pnext[w], x)
    <3>1. Preds(pnext[w], x) \ {y} = Preds(pnext[w], x)
      BY <2>6
    <3>2. x \notin SetOf(pnext[w][y])
      BY <1>0, <2>6 DEF Preds, SetOf
    <3>3. numusers'[w][x] = numusers[w][x]
      BY <1>b, <3>2 DEF Recounted, NoUse, IInv, TypeInv
    <3> QED BY ONLY <2>1, <2>2, <2>4, <3>1, <3>3
  <2> QED BY <2>5, <2>6
<1>10. NoDangling'
  <2> SUFFICES ASSUME NEW w \in Way, NEW x \in alive'
               PROVE  /\ pnext'[w][x] \in alive' \cup {NULL}
                      /\ x \notin Leaving' => held'[x].use[w] \subseteq alive'
    BY DEF NoDangling
  <2>1. x \in alive /\ x # y /\ x \in Io /\ alive' = alive \ {y}
    BY <1>b, <1>7
  <2>2. pnext'[w][x] = pnext[w][x] /\ held'[x] = held[x] /\ (x \in Leaving' <=> x \in Leaving)
    BY <1>4, <1>5, <1>6, <2>1
  <2>3. pnext[w][x] # y /\ (x \notin Leaving => y \notin held[x].use[w])
    BY <1>0, <2>1 DEF Unused
  <2> QED BY <2>1, <2>2, <2>3 DEF IInv, NoDangling
<1>11. Bookkeeping'
  <2>1. \A x \in Io : x \notin alive' =>
          held'[x] = NotHeld /\ \A w \in Way : pnext'[w][x] = NULL
    BY <1>b, <1>4, <1>5 DEF IInv, Bookkeeping
  <2>2. \A x \in Io : \A k \in DOMAIN held'[x].ends :
          \E w \in Way : held'[x].ends[k] \in held'[x].use[w]
    BY <1>5, NotHeldUses DEF IInv, Bookkeeping
  <2> QED BY <2>1, <2>2 DEF Bookkeeping
<1>12. Taken'
  <2>1. \A x \in alive' : held'[x] = before.held[x]
                          /\ \A w \in Way : pnext'[w][x] = before.pnext[w][x]
    BY <1>b, <1>0, <1>4, <1>5, <1>7, CloseFacts
  <2>2. /\ alive' \subseteq before'.alive /\ before' = before
        /\ calls[1].pio \in Io /\ OneOwner(before.pnext, before.held, calls[1].pio)
    BY <1>b, <1>0, <1>7, CloseFacts
  <2> QED BY <1>6, <2>1, <2>2 DEF Taken
<1>13. Sound(g)'
  BY <1>b, <1>0, <1>2, <1>6, <1>7 DEF Sound
<1>14. ASSUME NEW f \in Outer PROVE Sound(f)'
  <2>1. PICK i \in 1 .. Len(calls) - 1 : f = calls[i]
    BY <1>14 DEF Outer
  <2>2. i \in DOMAIN calls /\ i < Len(calls) /\ f \in CallType /\ Sound(f)
        /\ Len(calls) \in DOMAIN calls
    BY <1>0, <2>1, CloseFacts
  <2>3. y \notin Ring(f.pio)
    <3>1. y \in Ring(calls[Len(calls)].pio)
      BY <1>0 DEF Top
    <3>2. ASSUME y \in Ring(calls[i].pio) PROVE i = Len(calls)
      BY <1>0, <2>2, <3>1, <3>2, Apart
    <3> QED BY <2>1, <2>2, <3>2
  <2>4. f.pio \in Family' /\ Ring(f.pio)' \subseteq before'.alive
        /\ f.ring = Ring(f.pio)' \ Gone' /\ f.todo \subseteq f.ring
    BY <1>b, <1>6, <1>7, <2>2, <2>3 DEF Sound
  <2>5. CASE f.at # NULL
    <3>1. f.at \in f.ring /\ f.done <= Len(EndsOf(f.at)') /\ Unused(f.at)
      BY <1>6, <2>2, <2>5 DEF Sound
    <3>2. Unused(f.at)'
      <4> SUFFICES ASSUME NEW w \in Way, NEW x \in alive'
                   PROVE  /\ pnext'[w][x] # f.at
                          /\ x \notin Leaving' => f.at \notin held'[x].use[w]
        BY DEF Unused
      <4>1. x \in alive /\ x # y /\ x \in Io
        BY <1>b, <1>7
      <4>2. pnext'[w][x] = pnext[w][x] /\ held'[x] = held[x] /\ (x \in Leaving' <=> x \in Leaving)
        BY <1>4, <1>5, <1>6, <4>1
      <4> QED BY <3>1, <4>1, <4>2 DEF Unused
    <3>3. \A k \in DOMAIN EndsOf(f.at) : k > f.done => EndsOf(f.at)[k] \in alive'
      <4>1. \A k \in DOMAIN EndsOf(f.at) : k > f.done => EndsOf(f.at)[k] # y
        BY <1>a, <1>b, <2>1, PendingStays
      <4>2. \A k \in DOMAIN EndsOf(f.at) : k > f.done => EndsOf(f.at)[k] \in alive
        BY <2>2, <2>5 DEF Sound
      <4> QED BY <1>b, <4>1, <4>2
    <3>4. EndsOf(f.at)' = EndsOf(f.at)
      BY <1>6
    <3> QED BY <2>4, <2>5, <3>1, <3>2, <3>3, <3>4 DEF Sound
  <2>6. CASE f.at = NULL
    BY <2>4, <2>6 DEF Sound
  <2> QED BY <2>5, <2>6
<1>15. Stack'
  <2>1. before' = before
    BY <1>b
  <2> QED BY <1>0, <1>2, <1>3, <1>13, <1>14, <2>1, TopStep
<1> QED BY <1>8, <1>9, <1>10, <1>11, <1>12, <1>15 DEF IInv

\* A pfclose that fails does so in the outermost call: no compound io is left
\* half closed.
LEMMA ErrorOutermost ==
  ASSUME IInv, Careful, NEW y \in Io, CloseError(y)
  PROVE  calls # <<>> /\ Leaving \cap Io = {}
<1>1. calls # <<>> /\ Top.at = NULL /\ Len(calls) = 1
  BY DEF CloseError, Careful, Current, Walking
<1>2. DOMAIN calls = {1} /\ calls[1].at = NULL
  BY <1>1, CloseFacts DEF Top
<1>3. Leaving = {NULL}
  BY <1>2 DEF Leaving
<1> QED BY <1>1, <1>3, IoAssumption

LEMMA CloseErrorStep ==
  ASSUME IInv, Careful, NEW y \in Io, CloseError(y)
  PROVE  IInv'
<1> USE DEF CloseError
<1>1. /\ calls' = <<>> /\ DOMAIN calls' = {} /\ Leaving' = {}
  BY DEF Leaving
<1>2. calls # <<>> /\ Leaving \cap Io = {}
  BY ErrorOutermost
<1>3. calls[1].pio \in Io
  BY <1>2, CloseFacts
<1>4. TypeInv'
  BY <1>1, <1>3, NotHeldType DEF IInv, TypeInv, PnextType, NoSnapshot, NoLinks
<1>5. CountsMatch'
  <2>1. \A w \in Way, x \in Io : HoldersOf(w, x)' = HoldersOf(w, x)
    BY <1>1, <1>2 DEF HoldersOf
  <2> QED BY <2>1 DEF IInv, CountsMatch
<1>6. NoDangling'
  <2>1. \A x \in alive : x \notin Leaving
    BY <1>2 DEF IInv, TypeInv
  <2> QED BY <2>1 DEF IInv, NoDangling
<1>7. Bookkeeping'
  BY DEF IInv, Bookkeeping
<1>8. Taken' /\ Stack'
  BY <1>1 DEF Taken, Stack
<1> QED BY <1>4, <1>5, <1>6, <1>7, <1>8 DEF IInv

\* The call that waited for the innermost one goes on.
LEMMA CloseEndStep ==
  ASSUME IInv, CloseEnd
  PROVE  IInv'
<1> USE DEF CloseEnd
<1> DEFINE n == Len(calls)
<1>0. /\ calls # <<>> /\ Top.at = NULL /\ Top \in CallType /\ Top = calls[n]
      /\ calls \in Seq(CallType)
  BY CloseFacts DEF LastPass, PassDone, Walking, Top
<1>1. /\ calls' \in Seq(CallType) /\ Len(calls') = n - 1 /\ n \in Nat
      /\ DOMAIN calls' = 1 .. n - 1 /\ DOMAIN calls = 1 .. n /\ n >= 1
      /\ \A i \in DOMAIN calls' : calls'[i] = calls[i]
      /\ n = 1 => calls' = <<>>
  BY <1>0, Popped
<1>b. n = Len(calls)
  OBVIOUS
<1> HIDE DEF n
<1>2. Leaving' \cap Io = Leaving \cap Io
  <2> SUFFICES ASSUME NEW y \in Io PROVE y \in Leaving' <=> y \in Leaving
    OBVIOUS
  <2>1. y # Top.at
    BY <1>0, IoAssumption
  <2>2. \A i : i \in DOMAIN calls <=> i \in DOMAIN calls' \/ i = n
    BY ONLY <1>1
  <2> QED BY <1>0, <1>1, <2>1, <2>2 DEF Leaving
<1>3. TypeInv'
  <2>1. Top.pio \in Io
    BY <1>0 DEF CallType
  <2>2. ret' \in {"OK", "NOTFOUND", "CONFLICT", "ERROR"} /\ ppio' \in Io \cup {NULL}
    BY <2>1 DEF IInv, TypeInv
  <2>3. before' \in [alive : SUBSET Io, pnext : PnextType, held : [Io -> HeldType]]
    BY NotHeldType DEF IInv, TypeInv, PnextType, NoSnapshot, NoLinks
  <2> QED BY <1>1, <2>2, <2>3 DEF IInv, TypeInv
<1>4. CASE n = 1
  <2>1. Taken' /\ Stack'
    BY <1>1, <1>4 DEF Taken, Stack
  <2> QED BY <1>2, <1>3, <2>1, QuietStep DEF IInv
<1>5. CASE n # 1
  <2>1. before' = before /\ n > 1 /\ 1 \in DOMAIN calls'
    BY <1>b, <1>1, <1>5
  <2>2. calls'[1].pio = calls[1].pio /\ Family' = Family
    BY <1>1, <2>1 DEF Family
  <2>3. Taken'
    BY <1>0, <2>1, <2>2 DEF IInv, Taken
  <2>4. ASSUME NEW i \in DOMAIN calls' PROVE Sound(calls[i])'
    <3>1. PICK f : f = calls'[i]
      OBVIOUS
    <3>2. f = calls[i] /\ i \in DOMAIN calls
      BY <1>1, <2>4, <3>1
    <3>3. f \in CallType /\ Sound(f)
      BY <1>0, <3>2, CloseFacts
    <3>4. Sound(f)'
      BY <1>2, <2>1, <2>2, <3>3, SoundStays
    <3> QED BY <3>1, <3>4 DEF Sound
  <2>5. ASSUME NEW i \in DOMAIN calls', i < n - 1
        PROVE  /\ calls'[i].at # NULL
               /\ calls'[i].done \in DOMAIN before'.held[calls'[i].at].ends
               /\ calls'[i + 1].pio = before'.held[calls'[i].at].ends[calls'[i].done]
    <3>1. i \in DOMAIN calls /\ i < n /\ i + 1 \in DOMAIN calls'
      BY ONLY <1>1, <2>5
    <3>2. calls'[i] = calls[i] /\ calls'[i + 1] = calls[i + 1]
      BY <1>1, <2>5, <3>1
    <3> QED BY <1>b, <2>1, <3>1, <3>2 DEF IInv, Stack, EndsOf
  <2>6. ASSUME NEW i \in DOMAIN calls', NEW j \in DOMAIN calls', calls'[i].pio = calls'[j].pio
        PROVE  i = j
    <3>1. i \in DOMAIN calls /\ j \in DOMAIN calls
      BY ONLY <1>1, <2>6
    <3> QED BY <1>1, <2>6, <3>1 DEF IInv, Stack
  <2>7. Stack'
    BY <1>1, <2>4, <2>5, <2>6 DEF Stack, EndsOf
  <2> QED BY <1>2, <1>3, <2>3, <2>7, QuietStep DEF IInv
<1> QED BY <1>4, <1>5

----------------------------------------------------------------------------
(* The invariant holds in every state *)

\* Every call of the library, and every step of a close, keeps the counters
\* right and leaves no pointer to a freed link.
LEMMA NextStep ==
  ASSUME Careful, IInv, [Next]_vars
  PROVE  IInv'
<1>1. CASE ChainStep
  BY <1>1, CreateStep, PlugStep, UnplugStep, LoseSupportStep, ConfigAssumption
  DEF ChainStep
<1>2. CASE HolderStep
  BY <1>2, HolderInitStep DEF HolderStep
<1>3. CASE \E x \in Io : CloseBegin(x)
  BY <1>3, CloseBeginStep
<1>4. CASE CloseLoop
  BY <1>4, CloseKeepStep, PfcloseStep, CloseErrorStep, PfcloseNextStep, CloseFreeStep,
     NextPassStep, CloseEndStep DEF CloseLoop
<1>5. CASE UNCHANGED vars
  <2>1. TypeInv' /\ Leaving' = Leaving
    BY <1>5 DEF vars, IInv, TypeInv, Leaving
  <2>2. Taken'
    BY <1>5 DEF vars, IInv, Taken
  <2>3. Stack'
    BY <1>5 DEF vars, IInv, Stack, Sound, Unused, Family, Ring, EndsOf, Gone, Leaving
  <2> QED BY <1>5, <2>1, <2>2, <2>3, QuietStep DEF vars, IInv
<1> QED BY <1>1, <1>2, <1>3, <1>4, <1>5 DEF Next

\* The counters are sums of cardinalities, so that none goes below zero.
LEMMA IInvTypeOK == IInv => TypeOK
<1> SUFFICES ASSUME IInv PROVE TypeOK
  OBVIOUS
<1>1. ASSUME NEW w \in Way, NEW x \in Io
      PROVE  numusers[w][x] \in Nat
  <2>1. numusers[w][x] = Cardinality(Preds(pnext[w], x))
                         + Cardinality(HoldersOf(w, x))
    BY DEF IInv, CountsMatch
  <2>2. /\ Cardinality(Preds(pnext[w], x)) \in Nat
        /\ Cardinality(HoldersOf(w, x)) \in Nat
    BY PredsCard, HoldersFinite
  <2> QED BY ONLY <2>1, <2>2
<1> QED BY <1>1 DEF IInv, TypeInv, TypeOK, PnextType

LEMMA Invariance == ASSUME Careful PROVE Spec => []IInv
BY InitIInv, NextStep, PTL DEF Spec

\* No counter of users ever goes below zero.
THEOREM TypeCorrect == ASSUME Careful PROVE Spec => []TypeOK
BY Invariance, IInvTypeOK, PTL

\* netwib_io_close and the plug and unplug functions keep each counter equal
\* to the number of links and compound ios that use the link, also while the
\* pfclose of a compound io closes other ios in the middle of a close.
THEOREM CountersAreRight == ASSUME Careful PROVE Spec => []CountsMatch
<1>1. IInv => CountsMatch
  BY DEF IInv
<1> QED BY <1>1, Invariance, PTL

\* No call leaves a pointer, or a compound io, on a freed link.
THEOREM NothingDangles == ASSUME Careful PROVE Spec => []NoDangling
<1>1. IInv => NoDangling
  BY DEF IInv
<1> QED BY <1>1, Invariance, PTL

\* However deep the closes of compound ios run inside one another, each begins
\* with an allocated io, and finds allocated links only when it goes on.
THEOREM ClosesAreLive == ASSUME Careful PROVE Spec => []ClosesLiveLink
<1>1. ASSUME IInv PROVE ClosesLiveLink
  <2>1. ASSUME Walking PROVE Top.todo \subseteq alive
    BY <1>1, <2>1, CloseFacts DEF Walking, Sound, Gone
  <2>2. ASSUME InPfclose, Top.done < Len(ToClose) PROVE ToClose[Top.done + 1] \in alive
    <3>1. /\ Top \in CallType /\ Sound(Top) /\ Top.at \in alive
      BY <1>1, <2>2, CloseFacts DEF InPfclose, Sound, Gone
    <3>2. ToClose = EndsOf(Top.at) /\ EndsOf(Top.at) \in Seq(Io)
      BY <1>1, <2>2, <3>1, CloseFacts DEF InPfclose, ToClose, EndsOf, HeldType
    <3>3. Top.done \in Nat /\ DOMAIN ToClose = 1 .. Len(ToClose) /\ Len(ToClose) \in Nat
      BY <3>1, <3>2, LenProperties DEF CallType
    <3>4. Top.done + 1 \in DOMAIN EndsOf(Top.at) /\ Top.done + 1 > Top.done
      BY <2>2, <3>2, <3>3
    <3> QED BY <2>2, <3>1, <3>2, <3>4 DEF InPfclose, Sound
  <2> QED BY <2>1, <2>2 DEF ClosesLiveLink
<1> QED BY <1>1, Invariance, PTL

----------------------------------------------------------------------------
(* What is above a link, and what is below it *)

UseType == [Io -> [Way -> SUBSET Io]]

\* The links below x hold x, whatever they point to and whatever they use.
LEMMA BelowFacts ==
  ASSUME NEW pn \in PnextType, NEW use \in UseType, NEW x \in Io
  PROVE  /\ Below(pn, use, x) \subseteq Io /\ x \in Below(pn, use, x)
         /\ \A w \in Way : \A y \in Below(pn, use, x) :
              /\ pn[w][y] \in Below(pn, use, x) \cup {NULL}
              /\ use[y][w] \subseteq Below(pn, use, x)
<1>1. Below(pn, use, x) \subseteq Io /\ x \in Below(pn, use, x)
  BY DEF Below
<1>2. ASSUME NEW w \in Way, NEW y \in Below(pn, use, x)
      PROVE  /\ pn[w][y] # NULL => pn[w][y] \in Below(pn, use, x)
             /\ use[y][w] \subseteq Below(pn, use, x)
  <2>1. pn[w][y] \in Io \cup {NULL} /\ use[y][w] \subseteq Io
    BY <1>1, <1>2 DEF PnextType, UseType
  <2>2. ASSUME NEW S \in SUBSET Io, x \in S,
               \A v \in Way : /\ ClosedUnder(pn[v], S)
                              /\ \A z \in S : use[z][v] \subseteq S
        PROVE  (pn[w][y] # NULL => pn[w][y] \in S) /\ use[y][w] \subseteq S
    <3>1. y \in S
      BY <2>2 DEF Below
    <3> QED BY <1>2, <2>2, <3>1 DEF ClosedUnder
  <2> QED BY <2>1, <2>2 DEF Below
<1> QED BY <1>1, <1>2

\* What is above a link that points to x, or uses it, is above x.
LEMMA AboveUser ==
  ASSUME NEW pn \in PnextType, NEW use \in UseType, NEW w \in Way,
         NEW x \in Io, NEW z \in Io, pn[w][z] = x \/ x \in use[z][w]
  PROVE  z \in Above(pn, use, x) /\ Above(pn, use, z) \subseteq Above(pn, use, x)
<1>1. ASSUME NEW a \in Io, z \in Below(pn, use, a) PROVE x \in Below(pn, use, a)
  BY <1>1, BelowFacts, IoAssumption
<1> QED BY <1>1, BelowFacts DEF Above

\* A set of numbers has a least one.
LEMMA LeastOf ==
  ASSUME NEW T, T \subseteq Nat, T # {}
  PROVE  \E k \in T : \A j \in T : k <= j
<1> DEFINE R == {p \in Nat \X Nat : p[1] < p[2]}
<1>1. R = OpToRel(<, Nat)
  BY DEF OpToRel
<1>2. IsWellFoundedOn(R, Nat)
  BY <1>1, NatLessThanWellFounded
<1>3. PICK k \in T : \A j \in T : ~(<<j, k>> \in R)
  <2> HIDE DEF R
  <2> QED BY <1>2, WFMin
<1>4. ASSUME NEW j \in T PROVE k <= j
  <2>1. j \in Nat /\ k \in Nat
    OBVIOUS
  <2>2. ~(j < k)
    BY <1>3, <2>1
  <2> QED BY <2>1, <2>2
<1> QED BY <1>4

\* Pointers, and the uses of compound ios, lead from the program towards the
\* final links (io.h:14).
Ordered ==
  \E rank \in [Io -> Nat] : \A w \in Way, x \in Io :
    /\ pnext[w][x] # NULL => rank[x] < rank[pnext[w][x]]
    /\ \A z \in held[x].use[w] : rank[x] < rank[z]

\* Among some links, one is used by none of the others.
LEMMA TopOf ==
  ASSUME Ordered, NEW T \in SUBSET Io, T # {}
  PROVE  \E x \in T : \A w \in Way, z \in T : pnext[w][z] # x /\ x \notin held[z].use[w]
<1>1. PICK rank \in [Io -> Nat] : \A w \in Way, x \in Io :
        /\ pnext[w][x] # NULL => rank[x] < rank[pnext[w][x]]
        /\ \A z \in held[x].use[w] : rank[x] < rank[z]
  BY DEF Ordered
<1> DEFINE ranks == {rank[x] : x \in T}
<1>2. PICK k \in ranks : \A j \in ranks : k <= j
  <2>1. ranks \subseteq Nat /\ ranks # {}
    OBVIOUS
  <2> QED BY ONLY <2>1, LeastOf
<1>3. PICK x \in T : k = rank[x]
  OBVIOUS
<1>4. ASSUME NEW w \in Way, NEW z \in T, pnext[w][z] = x \/ x \in held[z].use[w]
      PROVE  FALSE
  <2>1. rank[z] < rank[x]
    BY <1>1, <1>4, IoAssumption
  <2>2. rank[x] <= rank[z]
    BY <1>2, <1>3
  <2>3. rank[x] \in Nat /\ rank[z] \in Nat
    OBVIOUS
  <2> QED BY ONLY <2>1, <2>2, <2>3
<1> QED BY <1>4

----------------------------------------------------------------------------
(* The order of the links *)

\* Cutting, freeing and closing keep the order.
LEMMA FewerOrdered ==
  ASSUME Ordered,
         \A w \in Way, x \in Io : /\ pnext'[w][x] # NULL => pnext'[w][x] = pnext[w][x]
                                  /\ held'[x].use[w] \subseteq held[x].use[w]
  PROVE  Ordered'
BY DEF Ordered

\* Plugging above q what is not below it keeps the order: all that is below
\* q goes further down.
LEMMA PlugOrdered ==
  ASSUME IInv, Ordered, NEW p \in Io, NEW q \in Io, NEW t \in WayType, Plug(p, t, q)
  PROVE  Ordered'
<1> DEFINE ways == PlugWays(p, t, q)
           at == [w \in Way |-> IF w \in ways THEN Last(pnext[w], p) ELSE NULL]
           B == Below(pnext, Uses, q)
<1>1. PICK rank \in [Io -> Nat] : \A w \in Way, x \in Io :
        /\ pnext[w][x] # NULL => rank[x] < rank[pnext[w][x]]
        /\ \A z \in held[x].use[w] : rank[x] < rank[z]
  BY DEF Ordered
<1>2. p \in alive /\ pnext \in PnextType /\ Uses \in UseType /\ held' = held
      /\ \A x \in Io : Uses[x] = held[x].use
  BY DEF Plug, IInv, TypeInv, Uses, UseType, HeldType
<1>3. \A w \in Way : at[w] # NULL => at[w] \in Io \ B
  BY <1>2, LastIsEnd, ChainAlive DEF Plug, NoLoop, IInv, TypeInv
<1>4. \A w \in Way, x \in Io :
        pnext'[w][x] = IF x = at[w] THEN q ELSE pnext[w][x]
  BY DEF Plug, Relinked
<1>5. /\ B \subseteq Io /\ q \in B
      /\ \A w \in Way, x \in Io : x \in B => /\ pnext[w][x] \in B \cup {NULL}
                                             /\ held[x].use[w] \subseteq B
  BY <1>2, BelowFacts
<1>u. \A w \in Way, x \in Io : held[x].use[w] \subseteq Io
  BY <1>2 DEF UseType
<1> HIDE DEF ways, at, B
<1> DEFINE up(w) == IF at[w] = NULL THEN 0 ELSE rank[at[w]]
           far == up("rd") + up("wr") + 1
           new == [x \in Io |-> IF x \in B THEN rank[x] + far ELSE rank[x]]
<1>6. up("rd") \in Nat /\ up("wr") \in Nat
  BY <1>3 DEF Way
<1>7. far \in Nat /\ \A w \in Way : at[w] # NULL => rank[at[w]] < far
  <2>1. \A w \in Way : up(w) < far
    <3> HIDE DEF up
    <3> QED BY <1>6 DEF Way
  <2> QED BY <1>6, <2>1
<1> HIDE DEF far
<1>8. new \in [Io -> Nat]
  BY <1>7
<1>m. ASSUME NEW x \in Io, NEW y \in Io, rank[x] < rank[y], x \in B => y \in B
      PROVE  new[x] < new[y]
  <2>1. rank[x] \in Nat /\ rank[y] \in Nat
    OBVIOUS
  <2>2. /\ new[x] = IF x \in B THEN rank[x] + far ELSE rank[x]
        /\ new[y] = IF y \in B THEN rank[y] + far ELSE rank[y]
    OBVIOUS
  <2> QED BY ONLY <1>7, <1>m, <2>1, <2>2
<1>9. ASSUME NEW w \in Way, NEW x \in Io, pnext'[w][x] # NULL
      PROVE  new[x] < new[pnext'[w][x]]
  <2>1. CASE x = at[w]
    <3>1. pnext'[w][x] = q /\ x \notin B
      BY <1>3, <1>4, <2>1, IoAssumption
    <3>2. rank[x] < far /\ rank[q] \in Nat /\ rank[x] \in Nat
      BY <1>7, <2>1, IoAssumption
    <3>3. new[x] = rank[x] /\ new[q] = rank[q] + far
      BY <1>5, <3>1
    <3> QED BY ONLY <1>7, <3>1, <3>2, <3>3
  <2>2. CASE x # at[w]
    <3> DEFINE y == pnext[w][x]
    <3>1. pnext'[w][x] = y /\ y \in Io /\ rank[x] < rank[y]
      BY <1>1, <1>2, <1>4, <1>9, <2>2 DEF PnextType
    <3>2. x \in B => y \in B
      BY <1>5, <3>1, IoAssumption
    <3> HIDE DEF y, new
    <3> QED BY <1>m, <3>1, <3>2
  <2> QED BY <2>1, <2>2
<1>10. ASSUME NEW w \in Way, NEW x \in Io, NEW z \in held'[x].use[w]
       PROVE  new[x] < new[z]
  <2>1. z \in held[x].use[w] /\ z \in Io /\ rank[x] < rank[z]
    BY <1>1, <1>2, <1>u
  <2>2. x \in B => z \in B
    BY <1>5, <2>1
  <2> HIDE DEF new
  <2> QED BY <1>m, <2>1, <2>2
<1> HIDE DEF new
<1> QED BY <1>8, <1>9, <1>10 DEF Ordered

\* A compound io comes above all the others.
LEMMA HolderOrdered ==
  ASSUME IInv, Ordered, NEW h \in Io, NEW kind \in Kinds, NEW a \in Io, NEW b \in Io,
         NEW atend \in BOOLEAN, HolderInit(h, kind, a, b, atend)
  PROVE  Ordered'
<1>1. PICK rank \in [Io -> Nat] : \A w \in Way, x \in Io :
        /\ pnext[w][x] # NULL => rank[x] < rank[pnext[w][x]]
        /\ \A z \in held[x].use[w] : rank[x] < rank[z]
  BY DEF Ordered
<1> DEFINE new == [x \in Io |-> IF x = h THEN 0 ELSE rank[x] + 1]
<1>2. new \in [Io -> Nat]
  OBVIOUS
<1>3. ASSUME NEW x \in Io, NEW y \in Io, y # h, x # h => rank[x] < rank[y]
      PROVE  new[x] < new[y]
  <2>1. rank[x] \in Nat /\ rank[y] \in Nat
    OBVIOUS
  <2>2. new[y] = rank[y] + 1 /\ new[x] = IF x = h THEN 0 ELSE rank[x] + 1
    BY <1>3
  <2> QED BY ONLY <1>3, <2>1, <2>2
<1>4. /\ calls = <<>> /\ h \notin alive /\ pnext' = pnext /\ a \in alive /\ b \in alive
      /\ \A x \in Io : held'[x].use = IF x = h THEN UseOf(kind, a, b) ELSE held[x].use
      /\ \A w \in Way : UseOf(kind, a, b)[w] \subseteq {a, b}
      /\ Leaving = {} /\ alive \subseteq Io
  <2>1. kind \in {"rdwr", "tee", "debug"}
    BY ConfigAssumption
  <2>2. Leaving = {}
    BY NobodyLeaves DEF HolderInit
  <2> QED BY <2>1, <2>2, UseOfType DEF HolderInit, IInv, TypeInv
<1> HIDE DEF new
<1>5. ASSUME NEW w \in Way, NEW x \in Io, pnext'[w][x] # NULL
      PROVE  new[x] < new[pnext'[w][x]]
  <2>1. x \in alive /\ pnext[w][x] \in alive /\ pnext'[w][x] = pnext[w][x]
    BY <1>4, <1>5 DEF IInv, Bookkeeping, NoDangling
  <2> QED BY <1>1, <1>3, <1>4, <1>5, <2>1
<1>6. ASSUME NEW w \in Way, NEW x \in Io, NEW z \in held'[x].use[w]
      PROVE  new[x] < new[z]
  <2>1. CASE x = h
    BY <1>3, <1>4, <1>6, <2>1
  <2>2. CASE x # h
    <3>1. z \in held[x].use[w]
      BY <1>4, <1>6, <2>2
    <3>2. x \in alive
      BY <3>1, NotHeldUses DEF IInv, Bookkeeping
    <3>3. z \in alive
      BY <1>4, <3>1, <3>2 DEF IInv, NoDangling
    <3> QED BY <1>1, <1>3, <1>4, <3>1, <3>3
  <2> QED BY <2>1, <2>2
<1> QED BY <1>2, <1>5, <1>6 DEF Ordered

LEMMA InitOrdered == Init => Ordered
<1> SUFFICES ASSUME Init PROVE Ordered
  OBVIOUS
<1>1. [x \in Io |-> 0] \in [Io -> Nat]
  OBVIOUS
<1>2. \A w \in Way, x \in Io : pnext[w][x] = NULL /\ held[x].use[w] = {}
  BY NotHeldUses DEF Init, NoLinks
<1> QED BY <1>1, <1>2 DEF Ordered

LEMMA NextOrdered ==
  ASSUME IInv, Ordered, [Next]_vars
  PROVE  Ordered'
<1>0. \A w \in Way, x \in Io : pnext[w][x] \in Io \cup {NULL}
  BY DEF IInv, TypeInv, PnextType
<1>a. ASSUME NEW at, NEW user, CutAfter(at, user) PROVE Ordered'
  BY <1>0, <1>a, FewerOrdered DEF CutAfter, Relinked
<1>b. ASSUME pnext' = pnext, held' = held PROVE Ordered'
  BY <1>b, FewerOrdered
<1>1. ASSUME NEW x \in Io, NEW ways \in SupportSets, Create(x, ways) PROVE Ordered'
  BY <1>1, FewerOrdered DEF Create, IInv, TypeInv, PnextType
<1>2. ASSUME NEW p \in Io, NEW s \in Io, NEW t \in WayType, NEW b \in BOOLEAN,
             UnplugNext(p, t, b) \/ UnplugBefore(p, t, s) \/ UnplugAfter(p, t, s, b)
      PROVE  Ordered'
  BY <1>2, <1>a, <1>b DEF UnplugNext, UnplugBefore, UnplugAfter, Fail
<1>3. ASSUME NEW x \in Io, NEW t \in WayType, LoseSupport(x, t) PROVE Ordered'
  BY <1>3, <1>b DEF LoseSupport
<1>4. CASE ChainStep
  BY <1>1, <1>2, <1>3, <1>4, PlugOrdered, ConfigAssumption DEF ChainStep
<1>5. CASE HolderStep
  BY <1>5, HolderOrdered DEF HolderStep
<1>6. CASE \E x \in Io : CloseBegin(x)
  BY <1>6, <1>b DEF CloseBegin
<1>7. CASE CloseFree
  <2>1. \A w \in Way, x \in Io : pnext'[w][x] # NULL => pnext'[w][x] = pnext[w][x]
    BY <1>7 DEF CloseFree, IInv, TypeInv, PnextType
  <2>2. \A x \in Io : held'[x] = NotHeld \/ held'[x] = held[x]
    BY <1>7 DEF CloseFree, IInv, TypeInv
  <2>3. \A w \in Way, x \in Io : held'[x].use[w] \subseteq held[x].use[w]
    BY <2>2, NotHeldUses
  <2> QED BY <2>1, <2>3, FewerOrdered
<1>8. CASE CloseLoop
  BY <1>7, <1>8, <1>b DEF CloseLoop, CloseKeep, Pfclose, CloseError, PfcloseNext,
     NextPass, CloseEnd
<1>9. CASE UNCHANGED vars
  BY <1>9, <1>b DEF vars
<1> QED BY <1>4, <1>5, <1>6, <1>8, <1>9 DEF Next

----------------------------------------------------------------------------
(* What a close has done so far *)

\* What the ios used when the outermost close began, c left out, and the links
\* that must go when c closes r.
UsesBut(c) == [x \in Io |-> IF x = c THEN NotHeld.use ELSE before.held[x].use]

Reclaim(r, c) ==
  {x \in Ring(r) : Above(before.pnext, UsesBut(c), x) \cap before.alive \subseteq Ring(r)}

\* The freed links: they had no user but freed links and compound ios that go,
\* they are in the ring of the caller's io or of one that a compound io closes,
\* and a freed compound io took with it all that must go with its ios.
Settled ==
  calls # <<>> =>
    /\ \A x \in Io : x \notin before.alive =>
          before.held[x] = NotHeld /\ \A w \in Way : before.pnext[w][x] = NULL
    /\ \A x \in Gone, z \in before.alive, w \in Way :
          /\ before.pnext[w][z] = x => z \in Gone
          /\ x \in before.held[z].use[w] => z \in Gone \cup Leaving
    /\ \A x \in Gone :
          \/ x \in Ring(calls[1].pio)
          \/ \E c \in (Gone \cup Leaving) \cap Io : \E k \in DOMAIN EndsOf(c) :
                x \in Ring(EndsOf(c)[k])
    /\ \A c \in Gone : \A k \in DOMAIN EndsOf(c) : Reclaim(EndsOf(c)[k], c) \subseteq Gone

\* So did one that goes, with the ios that it has closed already.
EndsDone ==
  \A i \in DOMAIN calls : calls[i].at # NULL =>
    \A k \in DOMAIN EndsOf(calls[i].at) :
      k < calls[i].done \/ (k = calls[i].done /\ i = Len(calls)) =>
        Reclaim(EndsOf(calls[i].at)[k], calls[i].at) \subseteq Gone

\* A pass that has freed nothing yet leaves links in use behind it.
Kept ==
  Walking /\ ~Top.ioremoved => \A x \in Top.ring \ Top.todo : InUse(x)

History == Settled /\ EndsDone /\ Kept

LEMMA InitHistory == Init => History
<1> SUFFICES ASSUME Init PROVE History
  OBVIOUS
<1>1. calls = <<>> /\ DOMAIN calls = {}
  BY DEF Init
<1> QED BY <1>1 DEF History, Settled, EndsDone, Kept, Walking

LEMMA NoHistory ==
  ASSUME calls' = <<>>
  PROVE  History'
<1>1. DOMAIN calls' = {}
  OBVIOUS
<1> QED BY <1>1 DEF History, Settled, EndsDone, Kept, Walking

\* A step that frees nothing.
LEMMA SettledStays ==
  ASSUME IInv, Settled, calls # <<>>, before' = before, alive' = alive,
         calls'[1].pio = calls[1].pio, Leaving \cap Io \subseteq Leaving'
  PROVE  Settled'
<1>1. /\ Gone' = Gone /\ (\A x : Ring(x)' = Ring(x)) /\ (\A c : EndsOf(c)' = EndsOf(c))
      /\ (\A r, c : Reclaim(r, c)' = Reclaim(r, c))
  BY DEF Gone, Ring, EndsOf, Reclaim, UsesBut
<1>2. before.alive \subseteq Io
  BY CloseFacts
<1> QED BY <1>1, <1>2 DEF Settled

\* The innermost call changes.
LEMMA EndsDoneStep ==
  ASSUME IInv, EndsDone, calls # <<>>, NEW g \in CallType, g.pio = Top.pio,
         calls' = [calls EXCEPT ![Len(calls)] = g], before' = before, alive' \subseteq alive,
         g.at = NULL \/ g.done = 0
  PROVE  EndsDone'
<1> SUFFICES ASSUME NEW i \in DOMAIN calls', calls'[i].at # NULL,
                    NEW k \in DOMAIN before.held[calls'[i].at].ends,
                    k < calls'[i].done \/ (k = calls'[i].done /\ i = Len(calls'))
             PROVE  Reclaim(before.held[calls'[i].at].ends[k], calls'[i].at) \subseteq Gone'
  BY DEF EndsDone, EndsOf, Reclaim, Ring, UsesBut
<1>1. /\ Len(calls') = Len(calls) /\ DOMAIN calls' = DOMAIN calls
      /\ calls'[Len(calls)] = g
      /\ \A j \in DOMAIN calls : j # Len(calls) => calls'[j] = calls[j]
  BY CloseFacts, TopChanges
<1>2. Gone \subseteq Gone'
  BY DEF Gone
<1>3. CASE i = Len(calls)
  <2>1. g.at \in Io /\ g.done = 0
    BY <1>1, <1>3 DEF CallType
  <2>2. before.held[g.at].ends \in Seq(Io)
    BY <2>1, CloseFacts DEF HeldType
  <2>3. k \in Nat /\ k >= 1
    BY <1>1, <1>3, <2>2, LenProperties
  <2> QED BY <1>1, <1>3, <2>1, <2>3
<1>4. CASE i # Len(calls)
  <2>1. calls'[i] = calls[i] /\ i \in DOMAIN calls
    BY <1>1, <1>4
  <2> QED BY <1>1, <1>2, <1>4, <2>1 DEF EndsDone, EndsOf
<1> QED BY <1>3, <1>4

LEMMA WalkHistory ==
  ASSUME IInv, History, Walking, NEW todo \in SUBSET Io, NEW b \in BOOLEAN,
         calls' = [calls EXCEPT ![Len(calls)] = [Top EXCEPT !.todo = todo, !.ioremoved = b]],
         UNCHANGED <<alive, supported, pnext, numusers, held, before, ret, ppio>>,
         ~b => \A x \in Top.ring \ todo : InUse(x)
  PROVE  History'
<1>0. PICK g : g = [Top EXCEPT !.todo = todo, !.ioremoved = b]
  OBVIOUS
<1>1. calls # <<>> /\ Top.at = NULL /\ Top \in CallType /\ Sound(Top)
  BY CloseFacts DEF Walking
<1>2. /\ g \in CallType /\ g.pio = Top.pio /\ g.at = NULL /\ g.ring = Top.ring
      /\ g.todo = todo /\ g.ioremoved = b
  BY <1>0, <1>1 DEF CallType, Sound
<1>3. calls' = [calls EXCEPT ![Len(calls)] = g]
  BY <1>0
<1>4. calls'[1].pio = calls[1].pio /\ Leaving' \cap Io = Leaving \cap Io
  <2>1. NULL \notin Io
    BY IoAssumption
  <2>2. /\ calls'[1].pio = calls[1].pio
        /\ Leaving' \cap Io = ((Leaving \ {Top.at}) \cup {g.at}) \cap Io
    BY <1>1, <1>2, <1>3, SameFamily
  <2> QED BY <1>1, <1>2, <2>1, <2>2
<1>5. Settled'
  BY <1>1, <1>4, SettledStays DEF History
<1>6. EndsDone'
  BY <1>1, <1>2, <1>3, EndsDoneStep DEF History
<1>7. Kept'
  <2>1. Top' = g
    BY <1>1, <1>2, <1>3, CloseFacts, TopChanges DEF Top
  <2>2. \A x \in Io : InUse(x)' = InUse(x)
    BY DEF InUse
  <2>3. Top.ring \subseteq Io
    BY <1>1 DEF CallType
  <2> QED BY <1>2, <2>1, <2>2, <2>3 DEF Kept
<1> QED BY <1>5, <1>6, <1>7 DEF History

LEMMA CloseKeepHistory ==
  ASSUME IInv, History, NEW y \in Io, CloseKeep(y)
  PROVE  History'
<1>1. Walking /\ Top \in CallType /\ InUse(y)
  BY CloseFacts DEF CloseKeep, Current, Walking
<1>2. Top.todo \ {y} \in SUBSET Io /\ Top.ioremoved \in BOOLEAN
  BY <1>1 DEF CallType
<1>3. calls' = [calls EXCEPT ![Len(calls)] =
                  [Top EXCEPT !.todo = Top.todo \ {y}, !.ioremoved = Top.ioremoved]]
  <2>1. [Top EXCEPT !.todo = Top.todo \ {y}] =
          [Top EXCEPT !.todo = Top.todo \ {y}, !.ioremoved = Top.ioremoved]
    BY <1>1 DEF CallType
  <2>2. calls' = [calls EXCEPT ![Len(calls)] = [Top EXCEPT !.todo = Top.todo \ {y}]]
    BY DEF CloseKeep, Top
  <2> QED BY <2>1, <2>2
<1>4. ~Top.ioremoved => \A x \in Top.ring \ (Top.todo \ {y}) : InUse(x)
  BY <1>1 DEF History, Kept
<1> QED BY <1>1, <1>2, <1>3, <1>4, WalkHistory DEF CloseKeep

LEMMA NextPassHistory ==
  ASSUME IInv, History, NextPass
  PROVE  History'
<1>1. Walking /\ Top \in CallType
  BY CloseFacts DEF NextPass, PassDone, Walking
<1>2. Top.ring \in SUBSET Io
  BY <1>1 DEF CallType
<1>3. calls' = [calls EXCEPT ![Len(calls)] =
                  [Top EXCEPT !.todo = Top.ring, !.ioremoved = FALSE]]
  BY DEF NextPass, Top
<1> QED BY <1>1, <1>2, <1>3, WalkHistory DEF NextPass

LEMMA BeginHistory ==
  ASSUME IInv, NEW x \in Io, CloseBegin(x)
  PROVE  History'
<1> USE DEF CloseBegin
<1>1. PICK g : g = Closing(x)
  OBVIOUS
<1>2. g.at = NULL /\ g.ring = CloseRing(pnext, x) /\ g.todo = CloseRing(pnext, x)
  BY <1>1 DEF Closing
<1>3. /\ calls' = <<g>> /\ DOMAIN calls' = {1} /\ calls'[1] = g /\ Len(calls') = 1
  BY <1>1
<1>4. before'.alive = alive /\ before'.pnext = pnext /\ before'.held = held
      /\ Gone' = {}
  BY DEF Gone
<1>5. Settled'
  BY <1>4 DEF Settled, IInv, Bookkeeping
<1>6. EndsDone'
  BY <1>2, <1>3 DEF EndsDone
<1>7. Kept'
  BY <1>2, <1>3 DEF Kept, Top
<1> QED BY <1>5, <1>6, <1>7 DEF History

LEMMA PfcloseHistory ==
  ASSUME IInv, History, NEW y \in Io, Pfclose(y)
  PROVE  History'
<1> USE DEF Pfclose
<1>0. Walking /\ calls # <<>> /\ Top.at = NULL /\ Top \in CallType
  BY CloseFacts DEF Current, Walking
<1>1. PICK g : g = [Top EXCEPT !.at = y, !.done = 0]
  OBVIOUS
<1>2. g \in CallType /\ g.pio = Top.pio /\ g.at = y /\ g.done = 0 /\ y # NULL
  BY <1>0, <1>1, IoAssumption DEF CallType
<1>3. calls' = [calls EXCEPT ![Len(calls)] = g]
  BY <1>1
<1>4. calls'[1].pio = calls[1].pio /\ Leaving \cap Io \subseteq Leaving'
  <2>1. NULL \notin Io
    BY IoAssumption
  <2>2. /\ calls'[1].pio = calls[1].pio
        /\ Leaving' \cap Io = ((Leaving \ {Top.at}) \cup {g.at}) \cap Io
    BY <1>0, <1>2, <1>3, SameFamily
  <2> QED BY <1>0, <2>1, <2>2
<1>5. Settled'
  BY <1>0, <1>4, SettledStays DEF History
<1>6. EndsDone'
  BY <1>0, <1>2, <1>3, EndsDoneStep DEF History
<1>7. Kept'
  <2>1. Top' = g
    BY <1>0, <1>2, <1>3, CloseFacts, TopChanges DEF Top
  <2> QED BY <1>2, <2>1 DEF Kept, Walking
<1> QED BY <1>5, <1>6, <1>7 DEF History

\* The close of an io of a compound one begins: the one before is done with.
LEMMA PfcloseNextHistory ==
  ASSUME IInv, IInv', History, PfcloseNext
  PROVE  History'
<1>a. /\ Top.done < Len(ToClose) /\ InPfclose
      /\ calls' = Append([calls EXCEPT ![Len(calls)].done = @ + 1],
                         Closing(ToClose[Top.done + 1]))
      /\ before' = before /\ alive' = alive
  BY DEF PfcloseNext
<1> DEFINE n == Len(calls)
<1>0. /\ calls # <<>> /\ Top.at # NULL /\ Top \in CallType /\ Top = calls[n]
      /\ n \in DOMAIN calls /\ DOMAIN calls = 1 .. n /\ n \in Nat /\ n >= 1
      /\ calls \in Seq(CallType)
  BY <1>a, CloseFacts DEF InPfclose, Top
<1>b. n = Len(calls)
  OBVIOUS
<1> HIDE DEF n
<1>1. PICK g : g = [Top EXCEPT !.done = Top.done + 1]
  OBVIOUS
<1>2. PICK c : c = Closing(ToClose[Top.done + 1])
  OBVIOUS
<1>3. PICK s : s = [calls EXCEPT ![n] = g]
  OBVIOUS
<1>4. /\ g \in CallType /\ g.pio = Top.pio /\ g.at = Top.at /\ g.done = Top.done + 1
      /\ Top.done \in Nat
  <2>1. Top.done \in Nat
    BY <1>0 DEF CallType
  <2>2. Top \in CallType
    BY <1>0
  <2> QED BY ONLY <1>1, <2>1, <2>2 DEF CallType
<1>5. c.at = NULL /\ c.ring = c.todo
  BY <1>2 DEF Closing
<1>6. calls' = Append(s, c)
  BY <1>a, <1>b, <1>1, <1>2, <1>3 DEF Top
<1>7. /\ s \in Seq(CallType) /\ Len(s) = n /\ DOMAIN s = DOMAIN calls /\ s[n] = g
      /\ \A i \in DOMAIN calls : i # n => s[i] = calls[i]
  BY <1>0, <1>b, <1>3, <1>4, TopChanges
<1>8. /\ Len(calls') = n + 1 /\ DOMAIN calls' = 1 .. n + 1
      /\ calls'[n + 1] = c /\ calls'[n] = g
      /\ \A i \in DOMAIN calls : i # n => calls'[i] = calls[i]
  <2>1. calls' \in Seq(CallType)
    BY DEF IInv, TypeInv
  <2>2. Len(calls') = n + 1 /\ \A i \in 1 .. n : calls'[i] = s[i]
    BY <1>6, <1>7, AppendProperties
  <2>3. calls'[n + 1] = c
    BY <1>6, <1>7
  <2>4. DOMAIN calls' = 1 .. n + 1
    BY <2>1, <2>2, LenProperties
  <2> QED BY <1>0, <1>7, <2>2, <2>3, <2>4
<1>9. \A i \in DOMAIN calls : calls'[i].pio = calls[i].pio /\ calls'[i].at = calls[i].at
  BY <1>0, <1>4, <1>8
<1>10. Leaving \subseteq Leaving' /\ calls'[1].pio = calls[1].pio
  <2>1. \A i \in DOMAIN calls : i \in DOMAIN calls'
    BY ONLY <1>0, <1>8
  <2>2. 1 \in DOMAIN calls
    BY ONLY <1>0
  <2> QED BY <1>9, <2>1, <2>2 DEF Leaving
<1>11. Settled'
  BY <1>a, <1>0, <1>10, SettledStays DEF History
<1>12. EndsDone'
  <2> SUFFICES ASSUME NEW i \in DOMAIN calls', calls'[i].at # NULL,
                      NEW k \in DOMAIN before.held[calls'[i].at].ends,
                      k < calls'[i].done \/ (k = calls'[i].done /\ i = Len(calls'))
               PROVE  Reclaim(before.held[calls'[i].at].ends[k], calls'[i].at) \subseteq Gone
    <3>1. Gone' = Gone
      BY <1>a DEF Gone
    <3>2. before' = before
      BY <1>a
    <3> QED BY <3>1, <3>2 DEF EndsDone, EndsOf, Reclaim, Ring, UsesBut
  <2>1. i # n + 1
    BY <1>5, <1>8
  <2>2. i \in DOMAIN calls /\ i <= n
    BY ONLY <1>0, <1>8, <2>1
  <2>3. calls'[i].at = calls[i].at /\ i # Len(calls')
    BY <1>0, <1>8, <1>9, <2>2
  <2>4. CASE i = n
    <3>1. EndsOf(Top.at) \in Seq(Io)
      <4>1. Top.at \in Io
        BY <1>0 DEF CallType
      <4> QED BY <1>0, <4>1, CloseFacts DEF EndsOf, HeldType
    <3>2. k \in Nat
      BY <1>0, <2>3, <2>4, <3>1, LenProperties DEF EndsOf
    <3>3. k < Top.done \/ k = Top.done
      BY <1>4, <1>8, <2>3, <2>4, <3>2
    <3> QED BY <1>0, <1>b, <2>2, <2>3, <2>4, <3>3 DEF History, EndsDone, EndsOf
  <2>5. CASE i # n
    BY <1>8, <2>2, <2>3, <2>5 DEF History, EndsDone, EndsOf
  <2> QED BY <2>4, <2>5
<1>13. Kept'
  <2>1. Top' = c
    BY <1>8 DEF Top
  <2> QED BY <1>5, <2>1 DEF Kept
<1> QED BY <1>11, <1>12, <1>13 DEF History

LEMMA FreeHistory ==
  ASSUME IInv, History, CloseFree
  PROVE  History'
<1>a. PICK y : y = Top.at
  OBVIOUS
<1>b. /\ InPfclose /\ Top.done = Len(ToClose) /\ before' = before /\ alive' = alive \ {y}
      /\ calls' = [calls EXCEPT ![Len(calls)] =
                        [Top EXCEPT !.ring = Top.ring \ {y}, !.todo = Top.todo \ {y},
                                    !.ioremoved = TRUE, !.at = NULL]]
  BY <1>a DEF CloseFree
<1>0. /\ calls # <<>> /\ Top \in CallType /\ Sound(Top) /\ Top.at = y /\ y # NULL
      /\ y \in Ring(Top.pio) /\ y \in alive /\ y \in Io /\ Unused(y) /\ Top = calls[Len(calls)]
      /\ before.alive \subseteq Io
  BY <1>a, <1>b, CloseFacts DEF InPfclose, Sound, Gone, Top
<1>1. PICK g : g = [Top EXCEPT !.ring = Top.ring \ {y}, !.todo = Top.todo \ {y},
                               !.ioremoved = TRUE, !.at = NULL]
  OBVIOUS
<1>2. g \in CallType /\ g.pio = Top.pio /\ g.at = NULL /\ g.ioremoved = TRUE
  BY <1>0, <1>1 DEF CallType
<1>3. calls' = [calls EXCEPT ![Len(calls)] = g]
  BY <1>b, <1>1
<1>4. /\ (\A x : Ring(x)' = Ring(x)) /\ (\A c : EndsOf(c)' = EndsOf(c))
      /\ (\A r, c : Reclaim(r, c)' = Reclaim(r, c))
      /\ calls' # <<>> /\ calls'[1].pio = calls[1].pio
      /\ Leaving' \cap Io = (Leaving \ {y}) \cap Io
  <2>1. NULL \notin Io
    BY IoAssumption
  <2>2. /\ (\A x : Ring(x)' = Ring(x)) /\ (\A c : EndsOf(c)' = EndsOf(c))
        /\ calls' # <<>> /\ calls'[1].pio = calls[1].pio
        /\ Leaving' \cap Io = ((Leaving \ {Top.at}) \cup {g.at}) \cap Io
    BY <1>b, <1>0, <1>2, <1>3, SameFamily
  <2>3. \A r, c : Reclaim(r, c)' = Reclaim(r, c)
    BY <1>b DEF Reclaim, Ring, UsesBut
  <2> QED BY <1>0, <1>2, <2>1, <2>2, <2>3
<1>5. Gone' = Gone \cup {y} /\ (Gone \cup Leaving) \cap Io \subseteq Gone' \cup Leaving'
  <2>1. Gone' = Gone \cup {y}
    BY <1>b, <1>0, CloseFacts DEF Gone
  <2> QED BY <1>4, <2>1
<1>6. ASSUME NEW z \in before.alive, NEW w \in Way
      PROVE  /\ before.pnext[w][z] = y => z \in Gone'
             /\ y \in before.held[z].use[w] => z \in Gone' \cup Leaving'
  <2>1. z \in Io /\ (z \in Gone \/ z \in alive)
    BY <1>0 DEF Gone
  <2>2. CASE z \in Gone
    BY <1>5, <2>2
  <2>3. CASE z \in alive
    <3>1. held[z] = before.held[z] /\ pnext[w][z] = before.pnext[w][z]
      BY <1>0, <2>3 DEF IInv, Taken
    <3>2. pnext[w][z] # y /\ (z \notin Leaving => y \notin held[z].use[w])
      BY <1>0, <2>3 DEF Unused
    <3> QED BY <1>5, <2>1, <3>1, <3>2
  <2> QED BY <2>1, <2>2, <2>3
<1>7. \/ y \in Ring(calls[1].pio)
      \/ \E c \in Leaving \cap Io : \E k \in DOMAIN EndsOf(c) : y \in Ring(EndsOf(c)[k])
  <2>1. CASE Len(calls) = 1
    BY <1>0, <2>1
  <2>2. CASE Len(calls) # 1
    <3>1. PICK i : i = Len(calls) - 1
      OBVIOUS
    <3>2. i \in DOMAIN calls /\ i < Len(calls) /\ i + 1 = Len(calls)
      <4>1. Len(calls) \in Nat /\ Len(calls) >= 1 /\ DOMAIN calls = 1 .. Len(calls)
        BY <1>0, CloseFacts
      <4> QED BY ONLY <2>2, <3>1, <4>1
    <3>3. /\ calls[i].at # NULL /\ calls[i].done \in DOMAIN EndsOf(calls[i].at)
          /\ calls[i + 1].pio = EndsOf(calls[i].at)[calls[i].done]
      BY <3>2 DEF IInv, Stack
    <3>4. calls[i].at \in Leaving \cap Io
      BY <1>0, <3>2, <3>3, CloseFacts DEF Leaving, CallType
    <3> QED BY <1>0, <3>2, <3>3, <3>4
  <2> QED BY <2>1, <2>2
<1>8. ASSUME NEW k \in DOMAIN EndsOf(y) PROVE Reclaim(EndsOf(y)[k], y) \subseteq Gone
  <2>1. ToClose = EndsOf(y) /\ EndsOf(y) \in Seq(Io)
    BY <1>0, CloseFacts DEF ToClose, EndsOf, HeldType
  <2>2. k \in Nat /\ k <= Len(EndsOf(y)) /\ Len(EndsOf(y)) \in Nat
    BY <1>8, <2>1, LenProperties
  <2>3. k < Top.done \/ k = Top.done
    BY <1>b, <2>1, <2>2
  <2>4. Len(calls) \in DOMAIN calls
    BY <1>0, CloseFacts
  <2> QED BY <1>0, <1>8, <2>3, <2>4 DEF History, EndsDone
<1>9. Settled'
  <2>1. Settled /\ calls # <<>>
    BY <1>0 DEF History
  <2>2. ASSUME NEW x \in Gone', NEW z \in before.alive, NEW w \in Way
        PROVE  /\ before.pnext[w][z] = x => z \in Gone'
               /\ x \in before.held[z].use[w] => z \in Gone' \cup Leaving'
    <3>1. CASE x = y
      BY <1>6, <3>1
    <3>2. CASE x # y
      <4>1. x \in Gone /\ z \in Io
        BY <1>0, <1>5, <2>2, <3>2
      <4> QED BY <1>5, <2>1, <4>1 DEF Settled
    <3> QED BY <3>1, <3>2
  <2>3. ASSUME NEW x \in Gone'
        PROVE  \/ x \in Ring(calls[1].pio)
               \/ \E c \in (Gone' \cup Leaving') \cap Io : \E k \in DOMAIN EndsOf(c) :
                     x \in Ring(EndsOf(c)[k])
    <3>1. CASE x = y
      BY <1>5, <1>7, <3>1
    <3>2. CASE x # y
      <4>1. x \in Gone
        BY <1>5, <2>3, <3>2
      <4> QED BY <1>5, <2>1, <4>1 DEF Settled
    <3> QED BY <3>1, <3>2
  <2>4. ASSUME NEW c \in Gone', NEW k \in DOMAIN EndsOf(c)
        PROVE  Reclaim(EndsOf(c)[k], c) \subseteq Gone'
    <3>1. CASE c = y
      BY <1>5, <1>8, <3>1
    <3>2. CASE c # y
      <4>1. c \in Gone
        BY <1>5, <2>4, <3>2
      <4> QED BY <1>5, <2>1, <4>1 DEF Settled
    <3> QED BY <3>1, <3>2
  <2>5. \A x \in Io : x \notin before.alive =>
          before.held[x] = NotHeld /\ \A w \in Way : before.pnext[w][x] = NULL
    BY <2>1 DEF Settled
  <2> QED BY <1>b, <1>4, <2>2, <2>3, <2>4, <2>5 DEF Settled
<1>10. EndsDone'
  <2>1. alive' \subseteq alive
    BY <1>b
  <2> QED BY <1>b, <1>0, <1>2, <1>3, <2>1, EndsDoneStep DEF History
<1>11. Kept'
  <2>1. Top' = g
    BY <1>0, <1>2, <1>3, CloseFacts, TopChanges DEF Top
  <2> QED BY <1>2, <2>1 DEF Kept
<1> QED BY <1>9, <1>10, <1>11 DEF History

\* A call that ends has freed all that had to go with its io: of what is left,
\* one would have no user but what the compound io c that closes it is.
LEMMA AllGone ==
  ASSUME IInv, Ordered, History, LastPass, NEW c \in Leaving \cup {NULL}
  PROVE  Reclaim(Top.pio, c) \subseteq Gone
<1>0. /\ Walking /\ calls # <<>> /\ Top \in CallType /\ Sound(Top)
      /\ Top.todo = {} /\ (~Top.ioremoved \/ Top.ring = {})
      /\ before.alive \subseteq Io /\ Ring(Top.pio) \subseteq before.alive
      /\ Top.ring = Ring(Top.pio) \ Gone
  BY CloseFacts DEF LastPass, PassDone, Walking, Sound
<1> DEFINE use == UsesBut(c)
           T == Reclaim(Top.pio, c) \ Gone
<1> SUFFICES ASSUME T # {} PROVE FALSE
  OBVIOUS
<1>1. T \subseteq Top.ring /\ T \in SUBSET Io
  BY <1>0 DEF Reclaim
<1>2. use \in UseType /\ before.pnext \in PnextType
  BY <1>0, CloseFacts, NotHeldType DEF UsesBut, UseType, HeldType
<1>3. PICK x \in T : \A w \in Way, z \in T : pnext[w][z] # x /\ x \notin held[z].use[w]
  BY <1>1, TopOf
<1>4. x \in Io /\ x \in Reclaim(Top.pio, c) /\ InUse(x)
  BY <1>0, <1>1 DEF History, Kept
<1>5. PICK w \in Way, z \in Io : pnext[w][z] = x \/ (z \notin Leaving /\ x \in held[z].use[w])
  BY <1>4, InUseMeans DEF Preds, HoldersOf
<1>6. z \in alive
  <2>1. x # NULL
    BY <1>4, IoAssumption
  <2> QED BY <1>5, <2>1, NotHeldUses DEF IInv, Bookkeeping
<1>7. /\ z \in before.alive /\ z \notin Gone
      /\ held[z] = before.held[z] /\ pnext[w][z] = before.pnext[w][z]
  BY <1>0, <1>6 DEF IInv, Taken, Gone
<1>8. before.pnext[w][z] = x \/ x \in use[z][w]
  <2>1. z # NULL
    BY <1>5, IoAssumption
  <2> QED BY <1>5, <1>7, <2>1 DEF UsesBut
<1> HIDE DEF use
<1>9. /\ z \in Above(before.pnext, use, x)
      /\ Above(before.pnext, use, z) \subseteq Above(before.pnext, use, x)
  BY <1>2, <1>4, <1>5, <1>8, AboveUser
<1>10. z \in Reclaim(Top.pio, c)
  <2>1. Above(before.pnext, use, x) \cap before.alive \subseteq Ring(Top.pio)
    BY <1>4 DEF Reclaim, use
  <2> QED BY <1>7, <1>9, <2>1 DEF Reclaim, use
<1> QED BY <1>3, <1>5, <1>7, <1>10

LEMMA EndHistory ==
  ASSUME IInv, Ordered, History, CloseEnd
  PROVE  History'
<1> USE DEF CloseEnd
<1> DEFINE n == Len(calls)
<1>0. /\ calls # <<>> /\ Top.at = NULL /\ Top = calls[n] /\ calls \in Seq(CallType)
  BY CloseFacts DEF LastPass, PassDone, Walking, Top
<1>1. /\ Len(calls') = n - 1 /\ n \in Nat
      /\ DOMAIN calls' = 1 .. n - 1 /\ DOMAIN calls = 1 .. n /\ n >= 1
      /\ \A i \in DOMAIN calls' : calls'[i] = calls[i]
      /\ n = 1 => calls' = <<>>
  BY <1>0, Popped
<1>b. n = Len(calls)
  OBVIOUS
<1> HIDE DEF n
<1>2. CASE n = 1
  BY <1>1, <1>2, NoHistory
<1>3. CASE n # 1
  <2>1. before' = before /\ alive' = alive /\ n > 1 /\ 1 \in DOMAIN calls'
    BY <1>b, <1>1, <1>3
  <2>2. Leaving \cap Io \subseteq Leaving'
    <3> SUFFICES ASSUME NEW y \in Io, y \in Leaving PROVE y \in Leaving'
      OBVIOUS
    <3>1. PICK i \in DOMAIN calls : calls[i].at = y
      BY DEF Leaving
    <3>2. i # n
      BY <1>0, <3>1, IoAssumption
    <3>3. i \in DOMAIN calls'
      BY ONLY <1>1, <3>1, <3>2
    <3> QED BY <1>1, <3>1, <3>3 DEF Leaving
  <2>3. Settled'
    BY <1>0, <1>1, <2>1, <2>2, SettledStays DEF History
  <2>4. EndsDone'
    <3> SUFFICES ASSUME NEW i \in DOMAIN calls', calls'[i].at # NULL,
                        NEW k \in DOMAIN before.held[calls'[i].at].ends,
                        k < calls'[i].done \/ (k = calls'[i].done /\ i = Len(calls'))
                 PROVE  Reclaim(before.held[calls'[i].at].ends[k], calls'[i].at) \subseteq Gone
      BY <2>1 DEF EndsDone, EndsOf, Reclaim, Ring, UsesBut, Gone
    <3>1. i \in DOMAIN calls /\ i < n /\ calls'[i] = calls[i]
      <4>1. i \in 1 .. n - 1
        BY <1>1
      <4>2. i \in DOMAIN calls /\ i < n
        BY ONLY <1>1, <4>1
      <4> QED BY <1>1, <4>2
    <3>2. CASE k < calls[i].done
      BY <3>1, <3>2 DEF History, EndsDone, EndsOf
    <3>3. CASE k = calls[i].done /\ i = n - 1
      <4>1. calls[i].at \in Leaving
        BY <3>1 DEF Leaving
      <4>2. Top.pio = EndsOf(calls[i].at)[k]
        <5>1. calls[i + 1].pio = EndsOf(calls[i].at)[calls[i].done]
          BY <1>b, <3>1 DEF IInv, Stack
        <5>2. i + 1 = n
          BY ONLY <1>1, <3>3
        <5> QED BY <1>0, <3>3, <5>1, <5>2
      <4>3. Reclaim(Top.pio, calls[i].at) \subseteq Gone
        BY <4>1, AllGone
      <4> QED BY <3>1, <4>2, <4>3 DEF EndsOf
    <3> QED BY <1>1, <3>1, <3>2, <3>3
  <2>5. Kept'
    <3>1. PICK i : i = n - 1
      OBVIOUS
    <3>2. i \in DOMAIN calls /\ i \in DOMAIN calls' /\ i < n /\ i = Len(calls')
      BY ONLY <1>1, <2>1, <3>1
    <3>3. calls[i].at # NULL
      BY <1>b, <3>2 DEF IInv, Stack
    <3>4. Top' = calls[i]
      BY <1>1, <3>2 DEF Top
    <3> QED BY <3>3, <3>4 DEF Kept, Walking
  <2> QED BY <2>3, <2>4, <2>5 DEF History
<1> QED BY <1>2, <1>3

LEMMA NextHistory ==
  ASSUME IInv, IInv', Ordered, History, [Next]_vars
  PROVE  History'
<1>0. ASSUME calls = <<>>, calls' = calls PROVE History'
  BY <1>0, NoHistory
<1>a. ASSUME NEW at, NEW user, calls = <<>>, CutAfter(at, user) PROVE History'
  BY <1>0, <1>a DEF CutAfter
<1>b. ASSUME NEW code, calls = <<>>, Fail(code) PROVE History'
  BY <1>0, <1>b DEF Fail
<1>1. CASE ChainStep
  <2>1. ASSUME NEW p \in Io, NEW s \in Io, NEW t \in CallTypes, NEW b \in BOOLEAN,
               UnplugNext(p, t, b) \/ UnplugBefore(p, t, s) \/ UnplugAfter(p, t, s, b)
        PROVE  History'
    BY <2>1, <1>a, <1>b DEF UnplugNext, UnplugBefore, UnplugAfter
  <2> QED BY <1>1, <1>0, <2>1 DEF ChainStep, Create, Plug, LoseSupport
<1>2. CASE HolderStep
  BY <1>2, <1>0 DEF HolderStep, HolderInit
<1>3. CASE \E x \in Io : CloseBegin(x)
  BY <1>3, BeginHistory
<1>4. CASE \E y \in Io : CloseError(y)
  BY <1>4, NoHistory DEF CloseError
<1>5. CASE CloseLoop
  BY <1>4, <1>5, CloseKeepHistory, PfcloseHistory, PfcloseNextHistory, FreeHistory,
     NextPassHistory, EndHistory DEF CloseLoop
<1>6. CASE UNCHANGED vars
  <2>1. UNCHANGED <<alive, numusers, calls, before>>
    BY <1>6 DEF vars
  <2>2. Settled' /\ EndsDone'
    BY <2>1 DEF History, Settled, EndsDone, Reclaim, Ring, UsesBut, EndsOf, Gone, Leaving
  <2>3. Kept'
    BY <2>1 DEF History, Kept, Walking, Top, InUse
  <2> QED BY <2>2, <2>3 DEF History
<1> QED BY <1>1, <1>2, <1>3, <1>5, <1>6 DEF Next

----------------------------------------------------------------------------
(* The links and the uses as their owners see them *)

SeenAlive == IF calls # <<>> THEN before.alive ELSE alive
SeenPnext == IF calls # <<>> THEN before.pnext ELSE pnext
SeenHeld == IF calls # <<>> THEN before.held ELSE held

LEMMA SameGraph ==
  /\ \A nx, x : Owner!Chain(nx, x) = Chain(nx, x)
  /\ \A nx, x : Owner!Last(nx, x) = Last(nx, x)
  /\ \A pn, use, x : Owner!Above(pn, use, x) = Above(pn, use, x)
  /\ \A pn, x : Owner!CloseRing(pn, x) = CloseRing(pn, x)
  /\ \A pn, at, to : Owner!Relinked(pn, at, to) = Relinked(pn, at, to)
  /\ Owner!Way = Way /\ Owner!NotHeld = NotHeld
<1>1. Owner!Way = Way
  BY DEF Owner!Way, Way
<1>2. \A nx, S : Owner!ClosedUnder(nx, S) = ClosedUnder(nx, S)
  BY DEF Owner!ClosedUnder, ClosedUnder
<1>3. \A nx, x : Owner!Chain(nx, x) = Chain(nx, x)
  BY <1>2 DEF Owner!Chain, Chain
<1>4. \A nx, x : Owner!Last(nx, x) = Last(nx, x)
  BY <1>3 DEF Owner!Last, Last
<1>5. \A pn, use, x : Owner!Below(pn, use, x) = Below(pn, use, x)
  BY <1>1, <1>2 DEF Owner!Below, Below
<1>6. \A pn, use, x : Owner!Above(pn, use, x) = Above(pn, use, x)
  BY <1>5 DEF Owner!Above, Above
<1>7. \A pn, x : Owner!CloseRing(pn, x) = CloseRing(pn, x)
  BY <1>3 DEF Owner!CloseRing, CloseRing
<1>8. \A pn, at, to : Owner!Relinked(pn, at, to) = Relinked(pn, at, to)
  BY <1>1 DEF Owner!Relinked, Relinked
<1>9. Owner!NotHeld = NotHeld
  BY <1>1 DEF Owner!NotHeld, NotHeld, NoUse
<1> QED BY <1>1, <1>3, <1>4, <1>6, <1>7, <1>8, <1>9

\* What an owner reckons must go is what must go.
LEMMA SameReclaimable ==
  ASSUME calls # <<>>
  PROVE  \A r, c : Owner!Reclaimable(r, c) = Reclaim(r, c)
<1>1. SeenAlive = before.alive /\ SeenPnext = before.pnext /\ SeenHeld = before.held
  BY DEF SeenAlive, SeenPnext, SeenHeld
<1>2. \A c : Owner!UsesBut(c) = UsesBut(c)
  BY <1>1, SameGraph DEF Owner!UsesBut, UsesBut, SeenHeld
<1> QED BY <1>1, <1>2, SameGraph DEF Owner!Reclaimable, Reclaim, Ring, SeenAlive, SeenPnext

LEMMA SeenIdle ==
  ASSUME calls = <<>>
  PROVE  SeenAlive = alive /\ SeenPnext = pnext /\ SeenHeld = held
BY DEF SeenAlive, SeenPnext, SeenHeld

Seen == <<SeenAlive, SeenPnext, SeenHeld>>

LEMMA StillIdle ==
  ASSUME calls' = <<>>
  PROVE  SeenAlive' = alive' /\ SeenPnext' = pnext' /\ SeenHeld' = held'
BY DEF SeenAlive, SeenPnext, SeenHeld

LEMMA SeenUnchanged ==
  UNCHANGED Seen /\ UNCHANGED <<ret, ppio>> => UNCHANGED Owner!vars
BY DEF Owner!vars, Seen, SeenAlive, SeenPnext, SeenHeld

LEMMA SeenQuiet ==
  ASSUME UNCHANGED Seen, ppio' = NULL, ret' \in {"OK", "NOTFOUND", "CONFLICT"}
  PROVE  Owner!Next
BY DEF Owner!Next, Owner!Quiet, Seen, SeenAlive, SeenPnext, SeenHeld

\* netwib_io_init.
LEMMA CreateSeen ==
  ASSUME IInv, IInv', NEW x \in Io, NEW ways \in SupportSets, Create(x, ways)
  PROVE  Owner!Next
<1>1. \A w \in Way : pnext[w][x] = NULL
  BY DEF Create, IInv, Bookkeeping
<1>2. pnext' = pnext
  BY <1>1 DEF Create, IInv, TypeInv, PnextType
<1>3. /\ SeenPnext' = SeenPnext /\ SeenHeld' = SeenHeld
      /\ SeenAlive = alive /\ SeenAlive' = alive \cup {x} /\ x \notin alive
      /\ ret' = "OK" /\ ppio' = NULL
  BY <1>2, SeenIdle, StillIdle DEF Create, Return
<1>4. Owner!Create(x)
  BY <1>3 DEF Owner!Create, Owner!Return, SeenAlive, SeenPnext, SeenHeld
<1> QED BY <1>4 DEF Owner!Next

\* The functions that plug.
LEMMA PlugSeen ==
  ASSUME IInv, IInv', NEW p \in Io, NEW q \in Io, NEW t \in WayType, Plug(p, t, q)
  PROVE  Owner!Next
<1> DEFINE at(ways) == [w \in Way |-> IF w \in ways THEN Last(pnext[w], p) ELSE NULL]
           ways == PlugWays(p, t, q) \cap Way
<1>1. /\ SeenPnext' = pnext' /\ SeenPnext = pnext /\ SeenHeld' = SeenHeld
      /\ SeenAlive = alive /\ SeenAlive' = alive
      /\ ret' = "OK" /\ ppio' = NULL /\ {p, q} \subseteq alive
  BY SeenIdle, StillIdle DEF Plug, Return
<1>2. pnext' = Relinked(pnext, at(ways), q)
  <2>1. at(ways) = at(PlugWays(p, t, q))
    OBVIOUS
  <2> QED BY <2>1 DEF Plug
<1>3. ways \in SUBSET Owner!Way /\ Owner!Way = Way
  BY SameGraph
<1>4. [w \in Owner!Way |-> IF w \in ways THEN Owner!Last(SeenPnext[w], p) ELSE NULL] = at(ways)
  BY <1>1, SameGraph
<1>5. SeenPnext' = Owner!Relinked(SeenPnext, [w \in Owner!Way |->
        IF w \in ways THEN Owner!Last(SeenPnext[w], p) ELSE NULL], q)
  BY <1>1, <1>2, <1>4, SameGraph
<1> HIDE DEF ways
<1>6. Owner!Join(p, q)
  BY <1>1, <1>3, <1>5 DEF Owner!Join, Owner!Return, SeenAlive, SeenPnext, SeenHeld
<1> QED BY <1>6 DEF Owner!Next

\* A cut of the chains of p.
LEMMA CutSeen ==
  ASSUME IInv, IInv', calls = <<>>, NEW p \in alive,
         NEW at \in [Way -> alive \cup {NULL}], NEW user, CutAfter(at, user),
         \A w \in Way : at[w] # NULL => at[w] \in Chain(pnext[w], p)
  PROVE  Owner!Next
<1>1. /\ SeenPnext' = pnext' /\ SeenPnext = pnext /\ SeenHeld' = SeenHeld
      /\ SeenAlive = alive /\ SeenAlive' = alive
      /\ ret' = "OK" /\ ppio' = NULL /\ p \in Io
  BY SeenIdle, StillIdle DEF CutAfter, Return, IInv, TypeInv
<1>2. SeenPnext' = Owner!Relinked(SeenPnext, at, NULL)
  BY <1>1, SameGraph DEF CutAfter
<1>3. /\ at \in [Owner!Way -> SeenAlive \cup {NULL}]
      /\ \A w \in Owner!Way : at[w] # NULL => at[w] \in Owner!Chain(SeenPnext[w], p)
  BY <1>1, SameGraph
<1>4. Owner!Cut(p)
  BY <1>1, <1>2, <1>3 DEF Owner!Cut, Owner!Return, SeenAlive, SeenPnext, SeenHeld
<1> QED BY <1>1, <1>4 DEF Owner!Next

\* The functions that unplug: those that fail cut no way.
LEMMA UnplugSeen ==
  ASSUME IInv, IInv', Careful, NEW p \in Io, NEW s \in Io, NEW t \in WayType,
         NEW b \in BOOLEAN,
         UnplugNext(p, t, b) \/ UnplugBefore(p, t, s) \/ UnplugAfter(p, t, s, b)
  PROVE  Owner!Next
<1>0. calls = <<>> /\ p \in alive
  BY DEF UnplugNext, UnplugBefore, UnplugAfter
<1>a. WaysOf(t, p) \subseteq Way
  BY DEF WaysOf, WayType, Way, IInv, TypeInv
<1>b. ASSUME NEW code \in {"NOTFOUND", "CONFLICT"}, Fail(code) PROVE Owner!Next
  <2>1. UNCHANGED Seen
    BY <1>b, <1>0, SeenIdle, StillIdle DEF Fail, Seen
  <2> QED BY <1>b, <2>1, SeenQuiet DEF Fail, Return
<1>c. \A w \in Way : p \in Chain(pnext[w], p)
  BY DEF Chain
<1>1. CASE UnplugNext(p, t, b)
  <2>1. CASE Conflict(p, t, p, b)
    BY <1>1, <1>b, <2>1 DEF UnplugNext
  <2>2. CASE ~Conflict(p, t, p, b)
    <3> DEFINE at == In(IF t = "SUPPORTED" THEN Way ELSE WaysOf(t, p), p)
               user == [w \in Way |-> NextOf(w, at[w])]
    <3>1. /\ at \in [Way -> alive \cup {NULL}]
          /\ \A w \in Way : at[w] # NULL => at[w] \in Chain(pnext[w], p)
      BY <1>0, <1>c DEF In
    <3>2. CutAfter(at, user)
      BY <1>1, <2>2 DEF UnplugNext
    <3> HIDE DEF at, user
    <3> QED BY <1>0, <3>1, <3>2, CutSeen
  <2> QED BY <2>1, <2>2
<1>2. CASE UnplugBefore(p, t, s)
  <2>1. CASE NotFound(p, t, s)
    BY <1>2, <1>b, <2>1 DEF UnplugBefore
  <2>2. CASE ~NotFound(p, t, s)
    <3> DEFINE ways == WaysOf(t, p)
               at == [w \in Way |-> IF w \in ways THEN Prev(pnext[w], p, s)
                                    ELSE NULL]
               user == In(ways, s)
    <3>1. s # p
      BY <1>2 DEF UnplugBefore, Careful
    <3>2. ASSUME NEW w \in ways
          PROVE  Prev(pnext[w], p, s) \in Chain(pnext[w], p) \cap alive
      <4>1. w \in Way /\ Found(pnext[w], p, s)
        BY <1>a, <2>2, <3>2 DEF NotFound
      <4>2. pnext[w] \in [Io -> Io \cup {NULL}]
        BY <4>1 DEF IInv, TypeInv, PnextType
      <4> QED BY <1>0, <3>1, <4>1, <4>2, PrevPoints, ChainAlive
    <3>3. /\ at \in [Way -> alive \cup {NULL}]
          /\ \A w \in Way : at[w] # NULL => at[w] \in Chain(pnext[w], p)
      BY <3>2
    <3>4. CutAfter(at, user)
      BY <1>2, <2>2 DEF UnplugBefore
    <3> HIDE DEF at, user
    <3> QED BY <1>0, <3>3, <3>4, CutSeen
  <2> QED BY <2>1, <2>2
<1>3. CASE UnplugAfter(p, t, s, b)
  <2>1. CASE NotFound(p, t, s) \/ Conflict(p, t, s, b)
    BY <1>3, <1>b, <2>1 DEF UnplugAfter
  <2>2. CASE ~(NotFound(p, t, s) \/ Conflict(p, t, s, b))
    <3> DEFINE at == In(WaysOf(t, p), s)
               user == [w \in Way |-> NextOf(w, at[w])]
    <3>1. /\ at \in [Way -> alive \cup {NULL}]
          /\ \A w \in Way : at[w] # NULL => at[w] \in Chain(pnext[w], p)
      BY <1>3, <2>2 DEF In, UnplugAfter, NotFound, Found
    <3>2. CutAfter(at, user)
      BY <1>3, <2>2 DEF UnplugAfter
    <3> HIDE DEF at, user
    <3> QED BY <1>0, <3>1, <3>2, CutSeen
  <2> QED BY <2>1, <2>2
<1> QED BY <1>1, <1>2, <1>3

\* netwib_io_ctl_set_support.
LEMMA LoseSupportSeen ==
  ASSUME IInv, IInv', NEW x \in Io, NEW t \in WayType, LoseSupport(x, t)
  PROVE  Owner!Next
<1>1. UNCHANGED Seen
  BY SeenIdle, StillIdle DEF LoseSupport, Seen
<1> QED BY <1>1, SeenQuiet DEF LoseSupport, Return

\* A compound io begins to use its ios.
LEMMA HolderInitSeen ==
  ASSUME IInv, NEW h \in Io, NEW kind \in Kinds, NEW a \in Io, NEW b \in Io,
         NEW atend \in BOOLEAN, HolderInit(h, kind, a, b, atend)
  PROVE  Owner!Next
<1> DEFINE use == UseOf(kind, a, b)
           ends == IF atend THEN <<a, b>> ELSE <<>>
<1>1. use \in [Way -> SUBSET alive] /\ a \in use["rd"] \cup use["wr"]
      /\ b \in use["rd"] \cup use["wr"]
  <2>1. kind \in {"rdwr", "tee", "debug"}
    BY ConfigAssumption
  <2>2. use \in [Way -> SUBSET Io] /\ \A w \in Way : use[w] \subseteq {a, b}
    BY <2>1, UseOfType
  <2>3. (\E w \in Way : a \in use[w]) /\ (\E w \in Way : b \in use[w])
    BY UseOfBoth
  <2>4. {a, b} \subseteq alive
    BY DEF HolderInit
  <2> HIDE DEF use
  <2> QED BY <2>2, <2>3, <2>4 DEF Way
<1>2. held' = [held EXCEPT ![h] = [use |-> use, ends |-> ends]] /\ ends \in {<<>>, <<a, b>>}
  BY DEF HolderInit
<1> HIDE DEF use, ends
<1>3. /\ SeenAlive = alive /\ SeenAlive' = alive \cup {h} /\ h \notin alive
      /\ SeenPnext' = SeenPnext /\ SeenHeld = held /\ SeenHeld' = held'
      /\ ret' = "OK" /\ ppio' = NULL
  BY SeenIdle, StillIdle DEF HolderInit, Return
<1>4. use \in [Owner!Way -> SUBSET SeenAlive]
  BY <1>1, <1>3, SameGraph
<1>5. \E u \in [Owner!Way -> SUBSET SeenAlive] : \E c, d \in u["rd"] \cup u["wr"] :
      \E e \in {<<>>, <<c, d>>} : SeenHeld' = [SeenHeld EXCEPT ![h] = [use |-> u, ends |-> e]]
  BY <1>1, <1>2, <1>3, <1>4
<1>6. Owner!Hold(h)
  BY <1>3, <1>5 DEF Owner!Hold, Owner!Return, SeenAlive, SeenPnext, SeenHeld
<1> QED BY <1>6 DEF Owner!Next

\* The steps inside of netwib_io_close, and the closes that it makes, are not seen.
LEMMA InsideSeen ==
  ASSUME IInv, calls' # <<>>, ret' = ret, ppio' = ppio,
         \/ calls # <<>> /\ before' = before
         \/ calls = <<>> /\ before' = [alive |-> alive, pnext |-> pnext, held |-> held]
  PROVE  UNCHANGED Owner!vars
<1>1. UNCHANGED Seen
  BY DEF Seen, SeenAlive, SeenPnext, SeenHeld
<1> QED BY <1>1, SeenUnchanged

LEMMA LoopSeen ==
  ASSUME IInv, NEW y \in Io, CloseKeep(y) \/ Pfclose(y) \/ CloseFree \/ NextPass
  PROVE  UNCHANGED Owner!vars
<1>1. /\ calls # <<>> /\ before' = before /\ ret' = ret /\ ppio' = ppio
      /\ DOMAIN calls' = DOMAIN calls
  BY DEF CloseKeep, Pfclose, CloseFree, NextPass, Current, PassDone, Walking, InPfclose
<1>2. 1 \in DOMAIN calls
  BY <1>1, CloseFacts
<1>3. calls' # <<>>
  BY <1>1, <1>2
<1> QED BY <1>1, <1>3, InsideSeen

LEMMA PfcloseNextSeen ==
  ASSUME IInv, IInv', PfcloseNext
  PROVE  UNCHANGED Owner!vars
<1>1. calls # <<>> /\ before' = before /\ ret' = ret /\ ppio' = ppio
  BY DEF PfcloseNext, InPfclose
<1>2. PICK s : s = [calls EXCEPT ![Len(calls)].done = @ + 1]
  OBVIOUS
<1>3. PICK c : c = Closing(ToClose[Top.done + 1])
  OBVIOUS
<1>4. s \in Seq(CallType)
  <2>1. PICK g : g = [Top EXCEPT !.done = Top.done + 1]
    OBVIOUS
  <2>2. Top \in CallType
    BY <1>1, CloseFacts
  <2>3. Top.done \in Nat
    BY <2>2 DEF CallType
  <2>4. g \in CallType
    BY ONLY <2>1, <2>2, <2>3 DEF CallType
  <2>5. s = [calls EXCEPT ![Len(calls)] = g]
    BY <1>2, <2>1 DEF Top
  <2> QED BY <1>1, <2>4, <2>5, CloseFacts, TopChanges
<1>5. calls' = Append(s, c)
  BY <1>2, <1>3 DEF PfcloseNext
<1>6. calls' # <<>>
  <2>1. c \in CallType
    <3>1. CloseRing(pnext, ToClose[Top.done + 1]) \subseteq Io
      BY DEF CloseRing, Chain
    <3>2. ToClose[Top.done + 1] \in Io
      BY DEF PfcloseNext, IInv, TypeInv
    <3> QED BY <1>3, <3>1, <3>2 DEF Closing, CallType
  <2>2. Len(calls') = Len(s) + 1 /\ Len(s) \in Nat
    BY <1>4, <1>5, <2>1, Pushed
  <2>3. Len(<<>>) = 0
    OBVIOUS
  <2> QED BY <2>2, <2>3
<1> QED BY <1>1, <1>6, InsideSeen

\* Before and after what a close freed.
LEMMA FreedSeen ==
  ASSUME IInv, Settled, calls # <<>>, calls' = <<>>,
         UNCHANGED <<alive, pnext, held>>
  PROVE  Owner!Freed(Gone)
<1>1. /\ SeenAlive = before.alive /\ SeenPnext = before.pnext /\ SeenHeld = before.held
      /\ SeenAlive' = alive /\ SeenPnext' = pnext /\ SeenHeld' = held
  BY StillIdle DEF SeenAlive, SeenPnext, SeenHeld
<1>2. alive = before.alive \ Gone /\ Gone \subseteq Io
  BY CloseFacts DEF Gone
<1>3. ASSUME NEW x \in Io
      PROVE  /\ held[x] = IF x \in Gone THEN NotHeld ELSE before.held[x]
             /\ \A w \in Way : pnext[w][x] = IF x \in Gone THEN NULL
                                             ELSE before.pnext[w][x]
  <2>1. CASE x \in alive
    BY <1>2, <2>1, CloseFacts
  <2>2. CASE x \notin alive
    <3>1. held[x] = NotHeld /\ \A w \in Way : pnext[w][x] = NULL
      BY <2>2 DEF IInv, Bookkeeping
    <3>2. x \notin Gone => before.held[x] = NotHeld
                           /\ \A w \in Way : before.pnext[w][x] = NULL
      BY <1>2, <2>2 DEF Settled
    <3> QED BY <3>1, <3>2
  <2> QED BY <2>1, <2>2
<1>4. pnext = [w \in Way |-> [x \in Io |-> IF x \in Gone THEN NULL ELSE before.pnext[w][x]]]
  BY <1>3 DEF IInv, TypeInv, PnextType
<1>5. held = [x \in Io |-> IF x \in Gone THEN NotHeld ELSE before.held[x]]
  BY <1>3 DEF IInv, TypeInv
<1> QED BY <1>1, <1>2, <1>4, <1>5, SameGraph
        DEF Owner!Freed, SeenAlive, SeenPnext, SeenHeld

\* The closed io, which its own ring holds.
LEMMA ClosedIo ==
  ASSUME IInv, calls # <<>>
  PROVE  calls[1].pio \in Ring(calls[1].pio) /\ calls[1].pio \in before.alive
<1>1. Ring(calls[1].pio) \subseteq before.alive /\ calls[1].pio \in Io
  BY CloseFacts DEF Sound
<1>2. calls[1].pio \in Ring(calls[1].pio)
  BY <1>1 DEF Ring, CloseRing, Chain
<1> QED BY <1>1, <1>2

\* What is gone might go, when no pfclose is under way.
LEMMA GoneMayGo ==
  ASSUME IInv, Settled, calls # <<>>, Leaving \cap Io = {}
  PROVE  Owner!MayGo(calls[1].pio, Gone)
<1>1. before.alive \subseteq Io
  BY CloseFacts
<1>2. ASSUME NEW x \in Gone, NEW z \in before.alive, NEW w \in Way,
             before.pnext[w][z] = x \/ x \in before.held[z].use[w]
      PROVE  z \in Gone
  BY <1>1, <1>2 DEF Settled
<1>3. ASSUME NEW x \in Gone
      PROVE  \/ x \in Ring(calls[1].pio)
             \/ \E c \in Gone : \E k \in DOMAIN EndsOf(c) : x \in Ring(EndsOf(c)[k])
  <2> SUFFICES ASSUME x \notin Ring(calls[1].pio)
               PROVE  \E c \in Gone : \E k \in DOMAIN EndsOf(c) : x \in Ring(EndsOf(c)[k])
    OBVIOUS
  <2>1. PICK c \in (Gone \cup Leaving) \cap Io :
          \E k \in DOMAIN EndsOf(c) : x \in Ring(EndsOf(c)[k])
    BY DEF Settled
  <2> QED BY <2>1
<1>4. ASSUME NEW x \in Gone
      PROVE  \/ x \in Ring(calls[1].pio)
             \/ \E c \in Gone : \E r \in Range(EndsOf(c)) : x \in Ring(r)
  BY <1>3 DEF Range
<1>5. SeenAlive = before.alive /\ SeenPnext = before.pnext /\ SeenHeld = before.held
  BY DEF SeenAlive, SeenPnext, SeenHeld
<1> QED BY <1>2, <1>4, <1>5, SameGraph
        DEF Owner!MayGo, SeenAlive, SeenPnext, SeenHeld, Ring, EndsOf, Owner!Range, Range

\* A failing close leaves what has a user.
LEMMA CloseErrorSeen ==
  ASSUME Careful, IInv, History, NEW y \in Io, CloseError(y)
  PROVE  Owner!Next
<1>1. /\ calls # <<>> /\ calls' = <<>> /\ ret' = "ERROR" /\ ppio' = calls[1].pio
      /\ UNCHANGED <<alive, pnext, held>>
  BY DEF CloseError, Current, Walking
<1>2. PICK p : p = calls[1].pio
  OBVIOUS
<1>3. Leaving \cap Io = {}
  BY ErrorOutermost
<1>4. Owner!Freed(Gone) /\ Owner!MayGo(p, Gone)
  BY <1>1, <1>2, <1>3, FreedSeen, GoneMayGo DEF History
<1>5. Gone \in SUBSET SeenAlive /\ p \in SeenAlive /\ p \in Io
  BY <1>1, <1>2, ClosedIo, CloseFacts DEF SeenAlive, Gone
<1>6. Owner!CloseFails(p)
  BY <1>1, <1>2, <1>4, <1>5 DEF Owner!CloseFails, Owner!Return, SeenAlive
<1> QED BY <1>5, <1>6 DEF Owner!Next

\* A close that ends has freed all that must go, and nothing else; one that
\* ends inside another is not seen.
LEMMA CloseEndSeen ==
  ASSUME IInv, Ordered, History, CloseEnd
  PROVE  Owner!Next \/ UNCHANGED Owner!vars
<1>0. /\ calls # <<>> /\ Top.at = NULL /\ LastPass /\ calls \in Seq(CallType)
      /\ calls' = SubSeq(calls, 1, Len(calls) - 1)
      /\ UNCHANGED <<alive, pnext, held>>
  BY CloseFacts DEF CloseEnd, LastPass, PassDone, Walking
<1>1. /\ Len(calls') = Len(calls) - 1 /\ Len(calls) \in Nat /\ Len(calls) >= 1
      /\ Len(calls) = 1 => calls' = <<>>
  BY <1>0, Popped
<1>2. CASE Len(calls) = 1
  <2>1. /\ calls' = <<>> /\ ret' = "OK" /\ Top = calls[1]
        /\ ppio' = IF Top.pio \in Top.ring THEN Top.pio ELSE NULL
    BY <1>1, <1>2 DEF CloseEnd, Top
  <2>2. PICK p : p = calls[1].pio
    OBVIOUS
  <2>3. Leaving \cap Io = {}
    <3>1. DOMAIN calls = {1}
      BY <1>0, <1>2, CloseFacts
    <3> QED BY <1>0, <2>1, <3>1, IoAssumption DEF Leaving
  <2>4. Owner!Freed(Gone) /\ Owner!MayGo(p, Gone)
    BY <1>0, <2>1, <2>2, <2>3, FreedSeen, GoneMayGo DEF History
  <2>5. /\ Gone \in SUBSET SeenAlive /\ p \in SeenAlive /\ p \in Io
        /\ p \in Ring(p) /\ Top.ring = Ring(p) \ Gone
    BY <1>0, <2>1, <2>2, ClosedIo, CloseFacts DEF SeenAlive, Gone, Sound
  <2>6. ppio' = IF p \in Gone THEN NULL ELSE p
    BY <2>1, <2>2, <2>5
  <2>7. Owner!Complete(p, Gone)
    <3>1. Reclaim(p, NULL) \subseteq Gone
      BY <1>0, <2>1, <2>2, AllGone
    <3>2. ASSUME NEW c \in Gone, NEW r \in Range(EndsOf(c))
          PROVE  Reclaim(r, c) \subseteq Gone
      <4>1. PICK k \in DOMAIN EndsOf(c) : r = EndsOf(c)[k]
        BY <3>2 DEF Range
      <4> QED BY <1>0, <4>1 DEF History, Settled
    <3>3. SeenHeld = before.held
      BY <1>0 DEF SeenHeld
    <3> QED BY <1>0, <3>1, <3>2, <3>3, SameReclaimable
            DEF Owner!Complete, SeenHeld, EndsOf, Owner!Range, Range
  <2>8. Owner!Close(p)
    BY <2>1, <2>4, <2>5, <2>6, <2>7 DEF Owner!Close, Owner!Return, SeenAlive
  <2> QED BY <2>5, <2>8 DEF Owner!Next
<1>3. CASE Len(calls) # 1
  <2>1. before' = before /\ ret' = ret /\ ppio' = ppio
    BY <1>3 DEF CloseEnd
  <2>2. calls' # <<>>
    <3>1. Len(<<>>) = 0
      OBVIOUS
    <3>2. Len(calls') # 0
      BY ONLY <1>1, <1>3
    <3> QED BY <3>1, <3>2
  <2> QED BY <1>0, <2>1, <2>2, InsideSeen
<1> QED BY <1>2, <1>3

LEMMA StepSeen ==
  ASSUME Careful, IInv, IInv', Ordered, History, [Next]_vars
  PROVE  [Owner!Next]_Owner!vars
<1>1. CASE ChainStep
  BY <1>1, CreateSeen, PlugSeen, UnplugSeen, LoseSupportSeen, ConfigAssumption
     DEF ChainStep
<1>2. CASE HolderStep
  BY <1>2, HolderInitSeen DEF HolderStep
<1>3. CASE \E x \in Io : CloseBegin(x)
  <2>1. /\ calls = <<>> /\ ret' = ret /\ ppio' = ppio
        /\ before' = [alive |-> alive, pnext |-> pnext, held |-> held]
        /\ calls' # <<>>
    BY <1>3 DEF CloseBegin
  <2> QED BY <2>1, InsideSeen
<1>4. CASE CloseFree \/ NextPass
  <2>1. Top.pio \in Io
    BY <1>4, CloseFacts DEF CloseFree, NextPass, PassDone, Walking, InPfclose, CallType
  <2> QED BY <1>4, <2>1, LoopSeen
<1>5. CASE CloseLoop
  BY <1>4, <1>5, LoopSeen, PfcloseNextSeen, CloseErrorSeen, CloseEndSeen DEF CloseLoop
<1>6. CASE UNCHANGED vars
  <2>1. UNCHANGED Seen
    BY <1>6 DEF vars, Seen, SeenAlive, SeenPnext, SeenHeld
  <2> QED BY <1>6, <2>1, SeenUnchanged DEF vars
<1> QED BY <1>1, <1>2, <1>3, <1>5, <1>6 DEF Next

LEMMA InitSeen == Init => Owner!Init
<1> SUFFICES ASSUME Init PROVE Owner!Init
  OBVIOUS
<1>1. /\ SeenAlive = {} /\ SeenPnext = NoLinks /\ ret = "OK" /\ ppio = NULL
      /\ SeenHeld = [x \in Io |-> NotHeld]
  BY SeenIdle DEF Init
<1> QED BY <1>1, SameGraph
        DEF Owner!Init, NoLinks, SeenAlive, SeenPnext, SeenHeld

\* The counters, pass after pass, free exactly the links that nobody outside of
\* the chains of the closed io can reach, with those of the ios that the freed
\* compound ios own, and the functions that build and cut the chains do to them
\* what their owners expect.
THEOREM ImplementsOwnership == ASSUME Careful PROVE Spec => OwnerSpec
<1>1. IInv /\ Ordered /\ History /\ [Next]_vars => IInv' /\ Ordered' /\ History'
  BY NextStep, NextOrdered, NextHistory
<1>2. IInv /\ IInv' /\ Ordered /\ History /\ [Next]_vars => [Owner!Next]_Owner!vars
  BY StepSeen
<1> QED BY <1>1, <1>2, InitIInv, InitOrdered, InitHistory, InitSeen, PTL
        DEF Spec, OwnerSpec, Owner!Spec
============================================================================
