------------------------------ MODULE IoGraph ------------------------------
(***************************************************************************)
(* The shape of netwib "io chains".  Every io link holds one pnext pointer *)
(* for each way, reading and writing; following the pointers of a way from *)
(* a link walks the chain that the link heads in that way.  The C code     *)
(* walks with while loops over the pointers; here a walk is the set of the *)
(* links it meets, the least set that holds the first link and is closed   *)
(* under pnext.                                                            *)
(*                                                                         *)
(* nx stands for the pnext pointers of one way, [Io -> Io \cup {NULL}], pn *)
(* for the pointers of both, [Way -> [Io -> Io \cup {NULL}]].              *)
(***************************************************************************)
EXTENDS Integers, FiniteSets

CONSTANTS Io,     \* the io links that may be allocated
          NULL    \* the null pointer

ASSUME IoAssumption == IsFiniteSet(Io) /\ NULL \notin Io

Way == {"rd", "wr"}
WayType == {"READ", "WRITE", "RDWR", "SUPPORTED"}

ClosedUnder(nx, S) == \A y \in S : nx[y] = NULL \/ nx[y] \in S

\* The links met when walking from x to the end of the chain.
Chain(nx, x) ==
  LET closed == {S \in SUBSET Io : x \in S /\ ClosedUnder(nx, S)}
  IN  {y \in Io : \A S \in closed : y \in S}

\* The walk ends only if it meets a link without a next one.
Ends(nx, x) == \E y \in Chain(nx, x) : nx[y] = NULL

\* netwib_priv_io_last, for one way.
Last(nx, x) == CHOOSE y \in Chain(nx, x) : nx[y] = NULL

\* netwib_priv_io_search: x itself has no previous link.
Found(nx, x, s) == s \in Chain(nx, x)
Prev(nx, x, s) ==
  IF s = x THEN NULL ELSE CHOOSE y \in Chain(nx, x) : nx[y] = s

\* The links whose pnext is x in one way.
Preds(nx, x) == {y \in Io : nx[y] = x}

\* Everything that x leads to: the next links of the two chains, and what
\* the compound ios use, use[y][w] being the links that y uses in the way w.
Below(pn, use, x) ==
  LET closed == {S \in SUBSET Io :
                   x \in S /\ \A w \in Way : /\ ClosedUnder(pn[w], S)
                                             /\ \A y \in S : use[y][w] \subseteq S}
  IN  {y \in Io : \A S \in closed : y \in S}

\* Everything that leads to x (x included).
Above(pn, use, x) == {y \in Io : x \in Below(pn, use, y)}

\* The ring netwib_io_close builds: the read chain and the write chain of x.
CloseRing(pn, x) == Chain(pn["rd"], x) \cup Chain(pn["wr"], x)

\* The pointers once each at[w] that is not NULL points to the link "to".
Relinked(pn, at, to) ==
  [w \in Way |-> [x \in Io |-> IF x = at[w] THEN to ELSE pn[w][x]]]
============================================================================
