------------------------------- MODULE TcpSeq -------------------------------
(***************************************************************************)
(* Sequence numbers of TCP as net/pieces/iosniff_tcpreord.c handles them:  *)
(* unsigned integers of a fixed width, whose sums overflow, and the window *)
(* of those that may still follow the expected one.                        *)
(***************************************************************************)
EXTENDS Integers

CONSTANTS SeqMod,  \* 2^32
          Window   \* SNIFF_TCPREORD_SEQNUM_WINDOW

ASSUME SeqAssumption == SeqMod \in Nat /\ Window \in Nat /\ Window < SeqMod

SeqNum == 0 .. SeqMod - 1

\* Sum of a sequence number and a number of bytes, itself below SeqMod.
Add(seq, n) == IF seq + n >= SeqMod THEN seq + n - SeqMod ELSE seq + n

\* Faulty form: the window is tested without the case where it overflows.
SynchroNoWrap(seq, expected) ==
  ~(seq > Add(expected, Window) \/ seq < expected)

\* sniff_tcp_checksynchro
Synchro(seq, expected) ==
  IF expected <= SeqMod - 1 - Window
  THEN ~(seq > Add(expected, Window) \/ seq < expected)
  ELSE ~(seq > Add(expected, Window) /\ seq < expected)

\* What it stands for: how far seq is after expected, around the circle.
Ahead(seq, expected) ==
  IF seq >= expected THEN seq - expected ELSE seq - expected + SeqMod

=============================================================================
