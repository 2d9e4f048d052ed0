------------------------------ MODULE MCSniff ------------------------------
(***************************************************************************)
(* The instances of the two sniffing ios that TLC checks: the one that     *)
(* reorders TCP packets and the one that reassembles IP fragments.  They   *)
(* share nothing but the clock's constants, so that a behaviour is about   *)
(* one of them, its subject, and the other one stays idle.                 *)
(*                                                                         *)
(* The TCP stream has three segments, of 1 (SYN), 3 and 2 bytes, whose     *)
(* sequence numbers overflow.  The datagrams have 5, 3 and 3 bytes in      *)
(* blocks of 2; the first two share a key, as when an identifier is used   *)
(* again; the first one is cut in two and in three, with overlaps.         *)
(***************************************************************************)
EXTENDS TcpReord, IpReas

VARIABLE subject

MCStart == <<13, 14, 1, 3>>

MCKeyOf(d) == IF d = "c" THEN 2 ELSE 1
MCSizeOf(d) == IF d = "a" THEN 5 ELSE 3
Cut(d, off, len) == [of |-> d, off |-> off, len |-> len,
                     more |-> 2 * off + len < MCSizeOf(d)]
MCFragment ==
  {Cut("a", 0, 2), Cut("a", 1, 2), Cut("a", 0, 4), Cut("a", 1, 3), Cut("a", 2, 1),
   Cut("b", 0, 2), Cut("b", 1, 1), Cut("c", 0, 2), Cut("c", 1, 1)}

ASSUME IpReasAssumption

allvars == <<subject, vars, ipvars>>

MCInit == subject \in {"tcp", "ip"} /\ Init /\ IpInit

MCNext ==
  \/ subject = "tcp" /\ Next /\ UNCHANGED <<subject, ipvars>>
  \/ subject = "ip" /\ IpNext /\ UNCHANGED <<subject, vars>>

\* The fairness of TcpReord: pending packets are read.
MCSpec == MCInit /\ [][MCNext]_allvars /\ WF_vars(GivePending \/ EndPending)

-----------------------------------------------------------------------------
(* The type invariants of the two ios. *)
TypesOK == TypeOK /\ IpTypeOK
=============================================================================
