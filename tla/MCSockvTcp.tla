----------------------------- MODULE MCSockvTcp -----------------------------
(* A small instance of SockvTcp: what the remote host announces and how it
   ends.  The first one is the host that DataFlows is about. *)
EXTENDS SockvTcp

MCRemotes ==
  {[windows |-> {1}, ends |-> {}],
   [windows |-> {0, 2}, ends |-> {}],
   [windows |-> {2}, ends |-> {"ackfin"}],
   [windows |-> {1}, ends |-> {"fin", "rst"}]}
=============================================================================
