------------------------------ MODULE TcpReord ------------------------------
(***************************************************************************)
(* The io that reorders the TCP packets of a sniff                         *)
(* (net/pieces/iosniff_tcpreord.c).                                        *)
(*                                                                         *)
(* Each session (addresses and ports, one direction) has an item in a      *)
(* hash: the next sequence number its user waits for, and the ring of the  *)
(* packets that came too early.  A read gives the packet that comes next,  *)
(* stores one that is ahead, drops one that is behind; after the first     *)
(* case, the following reads empty the ring of what has become in order.   *)
(*                                                                         *)
(* A session's stream is cut at borders 1, 2, ..., and Start[i] is the     *)
(* sequence number of border i.  A packet carries the bytes from a border  *)
(* to another (SYN and FIN count for one byte), so that a sender may       *)
(* retransmit several segments as one, and nothing when both borders are   *)
(* the same.  The network loses, duplicates and reorders packets.          *)
(***************************************************************************)
EXTENDS TcpSeq, Sequences, FiniteSetsExt, Functions

CONSTANTS Session,        \* keys of the hash
          Null,           \* NULL
          Start,
          Timeout,        \* SNIFF_TCPREORD_TIMEOUT
          NewItemsClean,  \* SNIFF_TCPREORD_NEWITEMS_CLEAN
          PktClean,       \* SNIFF_TCPREORD_PKT_CLEAN
          MaxRing,        \* bound: packets in a ring
          MaxNow          \* bound: seconds

Border == DOMAIN Start

\* A stream is short enough for the bytes behind not to look ahead.
ASSUME ReordAssumption ==
  /\ Null \notin Session
  /\ {Timeout, NewItemsClean, PktClean, MaxRing, MaxNow} \subseteq Nat
  /\ Start \in Seq(SeqNum)
  /\ \A i, j \in Border : i < j => Ahead(Start[i], Start[j]) > Window

Packet == {p \in [ses : Session, from : Border, to : Border] : p.from <= p.to}

SeqOf(p) == Start[p.from]

\* Bytes in the packet, with SYN or FIN.
Size(p) == Ahead(Start[p.to], Start[p.from])

\* sniff_tcp_expectedseqnum: the sum overflows, which is normal.
NextSeq(p) == Add(SeqOf(p), Size(p))

VARIABLES hash,           \* from sessions to their sniff_tcp_hashitem
          countnewitems,
          countpkt,
          plaststhi,      \* the session of the item it points to, or Null
          now,            \* the clock, in seconds
          out,            \* history: data packets given since the item exists
          early           \* history: data packets received ahead, and still so

vars == <<hash, countnewitems, countpkt, plaststhi, now, out, early>>

HashItem == [expireat : Nat, expectedseqnum : SeqNum,
             ringreadytouse : BOOLEAN, ring : Seq(Packet)]

Init ==
  /\ hash = <<>>
  /\ countnewitems = 0
  /\ countpkt = 0
  /\ plaststhi = Null
  /\ now = 0
  /\ out = [s \in Session |-> <<>>]
  /\ early = [s \in Session |-> {}]

----------------------------------------------------------------------------
(* History of what the user gets, and of what could still be given *)

Data(p) == p.from # p.to

Delivered(p) == IF Data(p) THEN Append(out[p.ses], p) ELSE out[p.ses]

\* The packets of E that are still in the window once expected is awaited.
StillAhead(E, expected) == {p \in E : Ahead(SeqOf(p), expected) <= Window}

----------------------------------------------------------------------------
(* sniff_tcp_read: a packet p has been read from the io below *)

MustClean == countnewitems > NewItemsClean \/ countpkt > PktClean

\* The hash after netwib_hash_del_criteria(sniff_tcp_hashitem_clean).
Kept == Restrict(hash, {s \in DOMAIN hash :
                          MustClean => now <= hash[s].expireat})

\* Faulty form: the counters are not reset by a cleaning.
CountForever(newitems) ==
  /\ countnewitems' = countnewitems + newitems
  /\ countpkt' = countpkt + 1

Count(newitems) ==
  /\ countnewitems' = newitems + (IF MustClean THEN 0 ELSE countnewitems)
  /\ countpkt' = 1 + (IF MustClean THEN 0 ELSE countpkt)

\* The first packet of a session is given, whatever its number.
Open(p) ==
  /\ plaststhi = Null
  /\ p.ses \notin DOMAIN Kept
  /\ hash' = [s \in DOMAIN Kept \cup {p.ses} |->
                IF s = p.ses
                THEN [expireat |-> now + Timeout, expectedseqnum |-> NextSeq(p),
                      ringreadytouse |-> FALSE, ring |-> <<>>]
                ELSE Kept[s]]
  /\ Count(1)
  /\ out' = [out EXCEPT ![p.ses] = IF Data(p) THEN <<p>> ELSE <<>>]
  /\ early' = [early EXCEPT ![p.ses] = {}]
  /\ UNCHANGED <<plaststhi, now>>

\* Is p read, with its session in the hash ?
Known(p) == plaststhi = Null /\ p.ses \in DOMAIN Kept

\* Faulty form: pending packets are announced before there is a ring.
GiveNoRing(p) ==
  /\ Known(p)
  /\ LET item == Kept[p.ses]
     IN  /\ SeqOf(p) = item.expectedseqnum
         /\ hash' = [Kept EXCEPT ![p.ses] =
                       [item EXCEPT !.expectedseqnum = NextSeq(p),
                                    !.expireat = now + Timeout]]
  /\ plaststhi' = p.ses
  /\ Count(0)
  /\ out' = [out EXCEPT ![p.ses] = Delivered(p)]
  /\ early' = [early EXCEPT ![p.ses] = StillAhead(@, NextSeq(p))]
  /\ UNCHANGED now

\* The packet that comes next is given; stored ones may follow it.
Give(p) ==
  /\ Known(p)
  /\ LET item == Kept[p.ses]
     IN  /\ SeqOf(p) = item.expectedseqnum
         /\ hash' = [Kept EXCEPT ![p.ses] =
                       [item EXCEPT !.expectedseqnum = NextSeq(p),
                                    !.expireat = now + Timeout]]
         /\ plaststhi' = IF item.ringreadytouse THEN p.ses ELSE plaststhi
  /\ Count(0)
  /\ out' = [out EXCEPT ![p.ses] = Delivered(p)]
  /\ early' = [early EXCEPT ![p.ses] = StillAhead(@, NextSeq(p))]
  /\ UNCHANGED now

\* sniff_tcp_hashitem_add_packet, for a packet that is not the next one: it is
\* stored if it is in the window, else nothing is done with it.
Store(p) ==
  /\ Known(p)
  /\ LET item == Kept[p.ses]
     IN  /\ SeqOf(p) # item.expectedseqnum
         /\ \/ /\ Synchro(SeqOf(p), item.expectedseqnum)
               /\ Len(item.ring) < MaxRing
               /\ hash' = [Kept EXCEPT ![p.ses] =
                             [item EXCEPT !.ringreadytouse = TRUE,
                                          !.ring = Append(@, p)]]
            \/ /\ ~Synchro(SeqOf(p), item.expectedseqnum)
               /\ hash' = Kept
         /\ early' = [early EXCEPT ![p.ses] =
                        IF Data(p) THEN StillAhead(@ \cup {p}, item.expectedseqnum)
                                   ELSE @]
  /\ Count(0)
  /\ UNCHANGED <<plaststhi, now, out>>

----------------------------------------------------------------------------
(* sniff_tcp_read_pending: the ring of plaststhi is searched first *)

Pending == hash[plaststhi]

\* Faulty form: any stored packet is taken for the next one.
ReadyAny == DOMAIN Pending.ring

\* Positions in the ring of the packets that come next.
Ready == {i \in DOMAIN Pending.ring :
            SeqOf(Pending.ring[i]) = Pending.expectedseqnum}

\* Packets met before what is searched are erased when they are behind: the
\* only member of Sifted(ring) has the other packets of ring, in their order.
Sifted(ring) ==
  LET kept == {i \in DOMAIN ring :
                 Synchro(SeqOf(ring[i]), Pending.expectedseqnum)}
      places == {f \in UNION {[1 .. n -> kept] : n \in 0 .. Len(ring)} :
                   /\ Range(f) = kept
                   /\ \A i, j \in DOMAIN f : i < j => f[i] < f[j]}
  IN  {[i \in DOMAIN f |-> ring[f[i]]] : f \in places}

\* Faulty form: the packet given stays in the ring.
GivePendingKeeps ==
  /\ plaststhi # Null
  /\ Ready # {}
  /\ LET p == Pending.ring[Min(Ready)]
     IN  /\ hash' = [hash EXCEPT ![plaststhi].expectedseqnum = NextSeq(p)]
         /\ out' = [out EXCEPT ![plaststhi] = Delivered(p)]
         /\ early' = [early EXCEPT ![plaststhi] = StillAhead(@, NextSeq(p))]
  /\ UNCHANGED <<countnewitems, countpkt, plaststhi, now>>

GivePending ==
  /\ plaststhi # Null
  /\ \E i \in Ready :
       LET ring == Pending.ring
           p == ring[i]
       IN  /\ \A j \in Ready : i <= j
           /\ \E before \in Sifted(SubSeq(ring, 1, i - 1)) :
                hash' = [hash EXCEPT
                  ![plaststhi].expectedseqnum = NextSeq(p),
                  ![plaststhi].ring = before \o SubSeq(ring, i + 1, Len(ring))]
           /\ out' = [out EXCEPT ![plaststhi] = Delivered(p)]
           /\ early' = [early EXCEPT ![plaststhi] = StillAhead(@, NextSeq(p))]
  /\ UNCHANGED <<countnewitems, countpkt, plaststhi, now>>

\* Faulty form: what is behind stays in the ring.
EndPendingKeeps ==
  /\ plaststhi # Null
  /\ Ready = {}
  /\ plaststhi' = Null
  /\ UNCHANGED <<hash, countnewitems, countpkt, now, out, early>>

EndPending ==
  /\ plaststhi # Null
  /\ Ready = {}
  /\ \E ring \in Sifted(Pending.ring) :
       hash' = [hash EXCEPT ![plaststhi].ring = ring]
  /\ plaststhi' = Null
  /\ UNCHANGED <<countnewitems, countpkt, now, out, early>>

----------------------------------------------------------------------------
\* The io is closed, and another one is opened.
Reopen ==
  /\ hash' = <<>>
  /\ countnewitems' = 0
  /\ countpkt' = 0
  /\ plaststhi' = Null
  /\ out' = [s \in Session |-> <<>>]
  /\ early' = [s \in Session |-> {}]
  /\ UNCHANGED now

Tick ==
  /\ now < MaxNow
  /\ now' = now + 1
  /\ UNCHANGED <<hash, countnewitems, countpkt, plaststhi, out, early>>

Read(p) == Open(p) \/ Give(p) \/ Store(p)

Next ==
  \/ \E p \in Packet : Read(p)
  \/ GivePending \/ EndPending
  \/ Reopen
  \/ Tick

\* The user of a sniff reads again: netwib_io_wait answers at once while
\* plaststhi is set.
Spec == Init /\ [][Next]_vars /\ WF_vars(GivePending \/ EndPending)

----------------------------------------------------------------------------
(* Properties *)

TypeOK ==
  /\ DOMAIN hash \subseteq Session
  /\ \A s \in DOMAIN hash : hash[s] \in HashItem
  /\ countnewitems \in 0 .. NewItemsClean + 1
  /\ countpkt \in 0 .. PktClean + 1
  /\ plaststhi \in Session \cup {Null}
  /\ now \in 0 .. MaxNow
  /\ \A s \in Session : /\ \A i \in DOMAIN out[s] : out[s][i] \in Packet
                        /\ early[s] \subseteq Packet

\* "Reorder sequences of TCP packets; remove duplicate TCP packets": the data
\* given to the user of a session starts where the data given before ends, and
\* the session waits for what follows.
InOrder ==
  \A s \in DOMAIN hash :
    LET o == out[s]
    IN  /\ \A i \in 1 .. Len(o) - 1 : o[i + 1].from = o[i].to
        /\ o # <<>> => hash[s].expectedseqnum = NextSeq(o[Len(o)])

\* A packet received in advance is never forgotten while its session lives:
\* when its turn comes it has been given, or the next reads will give it.
NothingForgotten ==
  \A s \in DOMAIN hash : plaststhi # s =>
    \A p \in early[s] : SeqOf(p) # hash[s].expectedseqnum

\* Between two runs of sniff_tcp_read_pending a ring holds packets that are
\* strictly ahead, within the window, also when the numbers overflow.
RingIsAhead ==
  \A s \in DOMAIN hash : plaststhi # s =>
    \A i \in DOMAIN hash[s].ring :
      Ahead(SeqOf(hash[s].ring[i]), hash[s].expectedseqnum) \in 1 .. Window

\* plaststhi points to an item of the hash, with a ring: no cleaning can
\* have freed it.
LastIsLive ==
  plaststhi # Null =>
    plaststhi \in DOMAIN hash /\ hash[plaststhi].ringreadytouse

\* The reads of pending packets come to an end, and new packets are read.
PendingEnds == plaststhi # Null ~> plaststhi = Null
=============================================================================
