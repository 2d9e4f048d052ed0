------------------------------ MODULE Bufpool ------------------------------
(***************************************************************************)
(* The pool of buffers of dat/bufpool.c: arrays of HorizontalSize buffers, *)
(* added AllocStep at a time when all of them are in use, initialized one  *)
(* by one when first needed and kept for ever.  A search does not start    *)
(* from the first buffer but from startsearchat, under which no buffer     *)
(* should be free.  The mutex makes each call one step.                    *)
(***************************************************************************)
EXTENDS Integers

CONSTANTS
  Users,            \* the threads that share the pool
  HorizontalSize,   \* buffers in an array (256 in the code)
  AllocStep,        \* arrays added at a time (2 in the code)
  MaxSize           \* the largest number of arrays: a bound of the check

BufpoolAssumption ==
  /\ HorizontalSize \in Nat \ {0}
  /\ AllocStep \in Nat \ {0}
  /\ MaxSize \in Nat

VARIABLES
  size,      \* verticalarraysize
  numinit,   \* the number of buffers initialized in each array
  inuse,     \* the buffers marked inuse
  start,     \* startsearchat_vert and startsearchat_hori
  held       \* the buffers each user was given and did not close
vars == <<size, numinit, inuse, start, held>>

(* A buffer is <<vertical position, horizontal position>>. *)
Slots == (0 .. size - 1) \X (0 .. HorizontalSize - 1)
Before(a, b) == a[1] < b[1] \/ (a[1] = b[1] /\ a[2] < b[2])

Init ==
  /\ size = AllocStep
  /\ numinit = [v \in 0 .. AllocStep - 1 |-> 0]
  /\ inuse = {} /\ start = <<0, 0>>
  /\ held = [u \in Users |-> {}]

Untouched(s) == s[2] = numinit[s[1]]    \* the next to initialize in its array
Free(s) == Untouched(s) \/ s \notin inuse

(* The buffers that a search tests: from startsearchat to the first free one. *)
Tested == {s \in Slots : /\ ~Before(s, start)
                         /\ \A r \in Slots : Before(r, s) /\ ~Before(r, start) => ~Free(r)}

(* Faulty form: the buffer is not marked. *)
FaultyGive(u, s) ==
  /\ start' = <<s[1], s[2] + 1>>
  /\ held' = [held EXCEPT ![u] = @ \union {s}]
  /\ UNCHANGED inuse

Give(u, s) ==
  /\ inuse' = inuse \union {s}
  /\ start' = <<s[1], s[2] + 1>>
  /\ held' = [held EXCEPT ![u] = @ \union {s}]

BufInit(u) ==
  \E s \in Tested :
    /\ Free(s)
    /\ numinit' = IF Untouched(s) THEN [numinit EXCEPT ![s[1]] = @ + 1] ELSE numinit
    /\ Give(u, s)
    /\ UNCHANGED size

(* Faulty form: verticalarraysize is not updated. *)
FaultyBufInitGrow(u) ==
  /\ \A s \in Tested : ~Free(s)
  /\ size + AllocStep <= MaxSize
  /\ Give(u, <<size, 0>>)
  /\ UNCHANGED <<size, numinit>>

(* Nothing is free from startsearchat on: the first buffer of the first of
   the new arrays is given. *)
BufInitGrow(u) ==
  /\ \A s \in Tested : ~Free(s)
  /\ size + AllocStep <= MaxSize
  /\ size' = size + AllocStep
  /\ numinit' = [v \in 0 .. size + AllocStep - 1 |->
                   IF v < size THEN numinit[v] ELSE IF v = size THEN 1 ELSE 0]
  /\ Give(u, <<size, 0>>)

(* Faulty form: startsearchat does not go back. *)
FaultyBufClose(u, s) ==
  /\ s \in held[u]
  /\ s \in inuse
  /\ inuse' = inuse \ {s}
  /\ held' = [held EXCEPT ![u] = @ \ {s}]
  /\ UNCHANGED <<size, numinit, start>>

BufClose(u, s) ==
  /\ s \in held[u]
  /\ s \in inuse
  /\ inuse' = inuse \ {s}
  /\ start' = IF Before(s, start) THEN s ELSE start
  /\ held' = [held EXCEPT ![u] = @ \ {s}]
  /\ UNCHANGED <<size, numinit>>

Next ==
  \/ \E u \in Users : BufInit(u)
  \/ \E u \in Users : BufInitGrow(u)
  \/ \E u \in Users : \E s \in held[u] : BufClose(u, s)

Spec == Init /\ [][Next]_vars

-----------------------------------------------------------------------------
TypeOK ==
  /\ size \in Nat
  /\ numinit \in [0 .. size - 1 -> 0 .. HorizontalSize]
  /\ inuse \subseteq Slots
  /\ start \in (0 .. size - 1) \X (0 .. HorizontalSize)
  /\ held \in [Users -> SUBSET Slots]

(* No buffer is given to two users, nor given again while a user has it
   (bufpool.c:145-187). *)
GivenOnce ==
  /\ \A u \in Users : held[u] \subseteq inuse
  /\ \A u, w \in Users : u # w => held[u] \intersect held[w] = {}

(* A search never reads the mark of a buffer that was not initialized, which
   malloc left undefined (bufpool.c:149-160). *)
ReadsInitialized == \A s \in Tested : s[2] <= numinit[s[1]]

(* The pool only grows when every buffer of every array is in use: starting
   the search at startsearchat misses none (bufpool.c:144-180, 217-223). *)
GrowsWhenFull == [][size' # size => inuse = Slots]_vars
=============================================================================
