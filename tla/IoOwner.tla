------------------------------ MODULE IoOwner ------------------------------
(***************************************************************************)
(* What netwib's io chains promise their users, without the counters the   *)
(* code keeps.  Links are created, joined and cut; compound ios (rdwr,     *)
(* tee, debug) use other ios and may own them; closing an io frees, in one *)
(* step, the links of its chains that nobody outside these chains leads    *)
(* to, and those of the chains that the compound ios freed so own: no link *)
(* that is still in use is freed, none that is unused is kept.             *)
(***************************************************************************)
EXTENDS IoGraph, Sequences, Functions

VARIABLES alive,    \* the allocated links
          pnext,    \* the links' pointers, per way
          held,     \* what each link uses, and the ios it closes at its end
          ret,      \* the code the last call returned
          ppio      \* the caller's pointer after a call of netwib_io_close

vars == <<alive, pnext, held, ret, ppio>>

NotHeld == [use |-> [w \in Way |-> {}], ends |-> <<>>]

Init ==
  /\ alive = {}
  /\ pnext = [w \in Way |-> [x \in Io |-> NULL]]
  /\ held = [x \in Io |-> NotHeld]
  /\ ret = "OK"
  /\ ppio = NULL

\* What each link uses, the link c left out.
UsesBut(c) == [x \in Io |-> IF x = c THEN NotHeld.use ELSE held[x].use]

\* The links that must go when r is closed, by its owner c or, c = NULL, by
\* a caller: in r's chains, and so is everything that leads to them.
Reclaimable(r, c) ==
  {x \in CloseRing(pnext, r) :
     Above(pnext, UsesBut(c), x) \cap alive \subseteq CloseRing(pnext, r)}

\* The links of D may go: no link that stays leads to them, and each is in
\* the chains of p or of an io that a link of D owns.
MayGo(p, D) ==
  \A x \in D :
     /\ \A y \in alive, w \in Way :
           pnext[w][y] = x \/ x \in held[y].use[w] => y \in D
     /\ \/ x \in CloseRing(pnext, p)
        \/ \E c \in D : \E r \in Range(held[c].ends) : x \in CloseRing(pnext, r)

\* Nothing that must go is left out of D.
Complete(p, D) ==
  /\ Reclaimable(p, NULL) \subseteq D
  /\ \A c \in D : \A r \in Range(held[c].ends) : Reclaimable(r, c) \subseteq D

Return(code, ptr) == ret' = code /\ ppio' = ptr

Create(x) ==
  /\ Return("OK", NULL)
  /\ UNCHANGED <<pnext, held>>
  /\ x \notin alive
  /\ alive' = alive \cup {x}

\* Plugging: the end of p's chain, in some ways, now points to q.
Join(p, q) ==
  /\ Return("OK", NULL)
  /\ UNCHANGED <<alive, held>>
  /\ {p, q} \subseteq alive
  /\ \E ways \in SUBSET Way :
        pnext' = Relinked(pnext, [w \in Way |-> IF w \in ways
                                                THEN Last(pnext[w], p)
                                                ELSE NULL], q)

\* Unplugging: p's chain is cut, at most once in each way.
Cut(p) ==
  /\ Return("OK", NULL)
  /\ UNCHANGED <<alive, held>>
  /\ p \in alive
  /\ \E at \in [Way -> alive \cup {NULL}] :
        /\ pnext' = Relinked(pnext, at, NULL)
        /\ \A w \in Way : at[w] # NULL => at[w] \in Chain(pnext[w], p)

\* A call that reports an error changes nothing; so does one that concerns
\* neither links, pointers nor uses.
Quiet ==
  /\ ret' \in {"OK", "NOTFOUND", "CONFLICT"} /\ ppio' = NULL
  /\ UNCHANGED <<alive, pnext, held>>

\* A compound io is a new link, which uses allocated ones, and owns some of
\* those it uses.
Hold(h) ==
  /\ Return("OK", NULL)
  /\ UNCHANGED pnext
  /\ h \notin alive
  /\ alive' = alive \cup {h}
  /\ \E use \in [Way -> SUBSET alive] :
     \E a, b \in use["rd"] \cup use["wr"] : \E ends \in {<<>>, <<a, b>>} :
        /\ held' = [held EXCEPT ![h] = [use |-> use, ends |-> ends]]

\* The links of D are freed; a freed link's pointers and uses are gone.
Freed(D) ==
  /\ alive' = alive \ D
  /\ pnext' = [w \in Way |-> [x \in Io |-> IF x \in D THEN NULL
                                           ELSE pnext[w][x]]]
  /\ held' = [x \in Io |-> IF x \in D THEN NotHeld ELSE held[x]]

Close(p) ==
  /\ p \in alive
  /\ \E D \in SUBSET alive :
        /\ Return("OK", IF p \in D THEN NULL ELSE p)
        /\ Freed(D)
        /\ MayGo(p, D)
        /\ Complete(p, D)

\* When a link refuses to close, the links that lead to it may be gone
\* already, never one whose user is still there.
CloseFails(p) ==
  /\ Return("ERROR", p)
  /\ p \in alive
  /\ \E D \in SUBSET alive : Freed(D) /\ MayGo(p, D)

Next ==
  \/ Quiet
  \/ \E x \in Io : Create(x) \/ Hold(x) \/ Cut(x) \/ Close(x) \/ CloseFails(x)
  \/ \E p, q \in Io : Join(p, q)

Spec == Init /\ [][Next]_vars
============================================================================
