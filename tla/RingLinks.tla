----------------------------- MODULE RingLinks -----------------------------
(***************************************************************************)
(* The doubly linked ring of dat/ring.c: its head (the netwib_ring itself),*)
(* its items, and the ways the code relinks them.  A ring is a record      *)
(*   next, prev : the pnext and pprevious of the head and of every item,   *)
(*   live       : the items that are allocated,                            *)
(*   count      : numberofitems.                                           *)
(***************************************************************************)
EXTENDS Integers, Sequences

CONSTANTS
  Items,    \* the items that can be allocated
  PRing,     \* the ring itself, seen as an item by its neighbours
  Null,
  Key(_)    \* what pfunc_compare compares

RingLinksAssumption ==
  /\ PRing \notin Items /\ Null \notin Items /\ PRing # Null
  /\ \A x \in Items : Key(x) \in Int

Nodes == Items \union {PRing}

EmptyRing == [next  |-> [n \in Nodes |-> IF n = PRing THEN PRing ELSE Null],
              prev  |-> [n \in Nodes |-> IF n = PRing THEN PRing ELSE Null],
              live  |-> {},
              count |-> 0]

(* a->pnext = b; b->pprevious = a *)
Link(r, a, b) ==
  [next |-> [r.next EXCEPT ![a] = b], prev |-> [r.prev EXCEPT ![b] = a],
   live |-> r.live, count |-> r.count]

(* The memory of x is allocated, or given back, and counted. *)
Allocated(r, x) ==
  [next |-> r.next, prev |-> r.prev, live |-> r.live \union {x}, count |-> r.count + 1]
Freed(r, x) ==
  [next |-> [r.next EXCEPT ![x] = Null], prev |-> [r.prev EXCEPT ![x] = Null],
   live |-> r.live \ {x}, count |-> r.count - 1]

(* A new item linked after a, as all the functions that add do. *)
InsertAfter(r, a, x) == Link(Allocated(Link(r, a, x), x), x, r.next[a])

(* x leaves the ring between the items a and b. *)
Removed(r, a, x, b) == Freed(Link(r, a, b), x)

(* Faulty form: the item is moved before a. *)
FaultyMoved(r, a, b, x) ==
  LET out == Link(r, b, r.next[x]) IN Link(Link(out, out.prev[a], x), x, a)

(* An item equal to a that is not next to it is moved just after it. *)
Moved(r, a, b, x) ==
  LET out == Link(r, b, r.next[x]) IN Link(Link(out, x, out.next[a]), a, x)

(* The item met after some steps from p on. *)
Advance(link, p, steps) ==
  LET at[k \in 0 .. steps] == IF k = 0 THEN p ELSE link[at[k - 1]]
  IN  at[steps]

(* The items met from the head on: at most numberofitems, as the check of
   the code counts them. *)
ItemsOf(r) == [k \in 1 .. r.count |-> Advance(r.next, PRing, k)]

(* netwib_debug_ring_check: the links agree in the two directions, and
   numberofitems steps lead back to the head. *)
RingCheck(r) ==
  LET s == <<PRing>> \o ItemsOf(r) \o <<PRing>>
  IN  \A k \in 1 .. r.count + 1 :
        r.next[s[k]] = s[k + 1] /\ r.prev[s[k + 1]] = s[k]

-----------------------------------------------------------------------------
(* The merge of two consecutive half rings: n1 items from p1 to last1, then *)
(* n2 items from p2.  sorted is the last item in place, end the item that   *)
(* follows the two half rings, todo the items of the ring after them.       *)
Least(a, b) == IF a < b THEN a ELSE b

HalfRings(r, m) ==
  LET n1 == Least(m.half, m.todo)
      n2 == Least(m.half, m.todo - n1)
      first == r.next[m.sorted]
      last1 == Advance(r.next, first, n1 - 1)
  IN  [m EXCEPT !.todo = m.todo - n1 - n2, !.p1 = first, !.n1 = n1, !.last1 = last1,
                !.p2 = IF n2 > 0 THEN r.next[last1] ELSE Null, !.n2 = n2]

(* A comparison fails: what is left of the two half rings is relinked. *)
Relinked(r, m) == Link(Link(r, m.sorted, m.p1), m.last1, m.p2)

(* psorted->pnext = x, the first item of a half ring, which loses it *)
Taken1(r, m) ==
  [m EXCEPT !.sorted = m.p1, !.p1 = r.next[m.p1], !.n1 = m.n1 - 1,
            !.end = IF m.p2 = Null /\ m.n1 = 1 THEN r.next[m.p1] ELSE m.end]
Taken2(r, m) ==
  [m EXCEPT !.sorted = m.p2, !.p2 = r.next[m.p2], !.n2 = m.n2 - 1,
            !.end = IF m.n2 = 1 THEN r.next[m.p2] ELSE m.end]
=============================================================================
