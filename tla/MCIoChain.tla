----------------------------- MODULE MCIoChain -----------------------------
(* Model checking of IoChain on a few links. *)
EXTENDS IoChain, TLC

BothWays == {Way}

Pointers(w) == {x \in Io : pnext[w][x] # NULL}
Compounds == {x \in Io : held[x] # NotHeld}
Reduced == {x \in alive : supported[x] # Way}

\* The bound between two calls: three plain links plugged at will, or two of
\* these: a pointer, a compound io, a link that gave up a way.
Few ==
  \/ Compounds = {} /\ Reduced = {} /\ Cardinality(alive) <= 3
  \/ Cardinality(Pointers("rd")) + Cardinality(Pointers("wr"))
     + Cardinality(Compounds) + Cardinality(Reduced) <= 2

\* The results of the last call are forgotten before a close: some call that
\* does nothing and returns OK can always be made, so that no state of the
\* links is lost.
Fresh == ret = "OK" /\ ppio = NULL

MCNext ==
  /\ Next
  /\ calls' = <<>> => Few'
  /\ calls = <<>> /\ calls' # <<>> => Fresh

MCSpec == Init /\ [][MCNext]_vars /\ WF_vars(CloseLoop)
============================================================================
