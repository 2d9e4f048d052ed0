------------------------------- MODULE IpReas -------------------------------
(***************************************************************************)
(* The io that reassembles the fragmented IP packets of a sniff            *)
(* (net/pieces/iosniff_ipreas.c).                                          *)
(*                                                                         *)
(* The fragments of a datagram (addresses, protocol and identifier: its    *)
(* key) meet in an item of a hash, where each writes its data over what is *)
(* there; the packet is given when the last fragment was seen and no block *)
(* is missing before its end.  The item then stays, so that late copies of *)
(* the fragments give nothing, until a cleaning after its expiry.  The     *)
(* network loses, duplicates and reorders fragments, a router may cut one  *)
(* datagram in several ways, and a sender may use a key again.             *)
(***************************************************************************)
EXTENDS Integers, FiniteSets, Functions

CONSTANTS
  Datagram,       \* the datagrams sent
  KeyOf(_),       \* the key of a datagram, which several may share
  SizeOf(_),      \* its number of bytes
  Fragment,       \* the fragments received: see IsFragment
  Unit,           \* offsets count blocks of that many bytes (8 in the code)
  None,
  IpTimeout,      \* SNIFF_IPREAS_TIMEOUT
  IpNewItemsClean, \* SNIFF_IPREAS_NEWITEMS_CLEAN
  IpPktClean,     \* SNIFF_IPREAS_PKT_CLEAN
  MaxIpNow        \* bound: seconds

(* The number of blocks that len bytes fill, the last one maybe in part. *)
Blocks(len) == (len + Unit - 1) \div Unit

BlocksOf(d) == 0 .. Blocks(SizeOf(d)) - 1
Covered(f) == f.off .. f.off + Blocks(f.len) - 1

AllBlocks == UNION {BlocksOf(d) : d \in Datagram}

(* A fragment carries len bytes of a datagram from the block off on; all of
   them but the last one fill their blocks. *)
IsFragment(f) ==
  /\ f.of \in Datagram
  /\ f.off \in Nat /\ f.len \in Nat \ {0}
  /\ f.more = (Unit * f.off + f.len < SizeOf(f.of))
  /\ Unit * f.off + f.len <= SizeOf(f.of)
  /\ f.more => f.len % Unit = 0
  /\ f.more \/ f.off # 0

(* The size of datagrams is bounded, by 64 Kbytes. *)
IpReasAssumption ==
  /\ Unit \in Nat \ {0}
  /\ None \notin Datagram /\ None \notin Nat
  /\ {IpTimeout, IpNewItemsClean, IpPktClean, MaxIpNow} \subseteq Nat
  /\ \A d \in Datagram : SizeOf(d) \in Nat \ {0}
  /\ IsFiniteSet(AllBlocks)
  /\ \A f \in Fragment : IsFragment(f)

VARIABLES
  iphash,         \* from keys to their sniff_ipreas_item
  ipcountnewitems,
  ipcountpkt,
  ipnow,          \* the clock, in seconds
  given,          \* the reassembled packet that the last read gave, or None
  seen            \* history: the fragments each item received
ipvars == <<iphash, ipcountnewitems, ipcountpkt, ipnow, given, seen>>

Keys == {KeyOf(d) : d \in Datagram}

(* sniff_ipreas_item_create.  data stands for ipdataset and ipdataarray: the
   datagram whose data a block holds, None when the block is not set; header
   for linkhdr, iphdr and firstfragseen; size for ipdatasize and lastfragseen. *)
NewItem == [expireat |-> ipnow + IpTimeout, sent |-> FALSE,
            header |-> None, size |-> None,
            data |-> [b \in AllBlocks |-> None]]

IpInit ==
  /\ iphash = <<>> /\ ipcountnewitems = 0 /\ ipcountpkt = 0
  /\ ipnow = 0 /\ given = None
  /\ seen = [k \in Keys |-> {}]

IpMustClean == ipcountnewitems > IpNewItemsClean \/ ipcountpkt > IpPktClean

(* netwib_hash_del_criteria(sniff_ipreas_item_clean) *)
IpKept == Restrict(iphash, {k \in DOMAIN iphash :
                          IpMustClean => ipnow <= iphash[k].expireat})

IpCount(newitems) ==
  /\ ipcountnewitems' = newitems + (IF IpMustClean THEN 0 ELSE ipcountnewitems)
  /\ ipcountpkt' = 1 + (IF IpMustClean THEN 0 ELSE ipcountpkt)

(* The number of blocks set before the first one that is not: strlen. *)
LeadingRun(data) ==
  CHOOSE n \in 0 .. Cardinality(DOMAIN data) :
    /\ \A b \in 0 .. n - 1 : b \in DOMAIN data /\ data[b] # None
    /\ n \in DOMAIN data => data[n] = None

(* A fragment in an item that did not give its packet yet. *)
Updated(item, f) ==
  [item EXCEPT
     !.header = IF f.off = 0 /\ @ = None THEN f.of ELSE @,
     !.size = IF ~f.more /\ @ = None THEN Unit * f.off + f.len ELSE @,
     !.data = [b \in AllBlocks |-> IF b \in Covered(f) THEN f.of ELSE @[b]]]

(* Faulty form: the first and the last fragments are enough. *)
EndsSeen(item) == item.size # None /\ item.header # None

Complete(item) == item.size # None /\ LeadingRun(item.data) = Blocks(item.size)

Reassembled(item) == [header |-> item.header, size |-> item.size,
                 data |-> [b \in 0 .. Blocks(item.size) - 1 |-> item.data[b]]]

(* Faulty form: the item that gave its packet goes on. *)
FaultyReceived(item, f) ==
  LET next == Updated(item, f) IN [next EXCEPT !.sent = Complete(next)]

(* sniff_ipreas_item_reas: an item that gave its packet stays as it is. *)
Received(item, f) ==
  LET next == Updated(item, f)
  IN  IF item.sent THEN item ELSE [next EXCEPT !.sent = Complete(next)]

(* The items once f was given to item, the one of its key. *)
Reassemble(f, item) ==
  LET k == KeyOf(f.of)
      next == Received(item, f)
  IN  /\ iphash' = [key \in DOMAIN IpKept \union {k} |-> IF key = k THEN next ELSE IpKept[key]]
      /\ given' = IF next.sent /\ ~item.sent THEN Reassembled(next) ELSE None

Reads(f) ==
  \/ /\ KeyOf(f.of) \in DOMAIN IpKept
     /\ Reassemble(f, IpKept[KeyOf(f.of)])
     /\ seen' = [seen EXCEPT ![KeyOf(f.of)] = @ \union {f}]
     /\ IpCount(0)
     /\ UNCHANGED ipnow
  \/ /\ KeyOf(f.of) \notin DOMAIN IpKept
     /\ Reassemble(f, NewItem)
     /\ seen' = [seen EXCEPT ![KeyOf(f.of)] = {f}]
     /\ IpCount(1)
     /\ UNCHANGED ipnow

(* A packet that is not a fragment goes through; it counts, and cleans. *)
ReadWhole ==
  /\ iphash' = IpKept
  /\ given' = None
  /\ IpCount(0)
  /\ UNCHANGED <<ipnow, seen>>

IpTick ==
  /\ ipnow < MaxIpNow
  /\ ipnow' = ipnow + 1
  /\ UNCHANGED <<iphash, ipcountnewitems, ipcountpkt, given, seen>>

IpNext == (\E f \in Fragment : Reads(f)) \/ ReadWhole \/ IpTick

IpSpec == IpInit /\ [][IpNext]_ipvars

-----------------------------------------------------------------------------
ItemType(item) ==
  /\ item.expireat \in Nat
  /\ item.sent \in BOOLEAN
  /\ item.header \in Datagram \union {None}
  /\ item.size \in Nat \union {None}
  /\ item.data \in [AllBlocks -> Datagram \union {None}]

IpTypeOK ==
  /\ DOMAIN iphash \subseteq Keys
  /\ \A k \in DOMAIN iphash : ItemType(iphash[k])
  /\ ipcountnewitems \in 0 .. IpNewItemsClean + 1
  /\ ipcountpkt \in 0 .. IpPktClean + 1
  /\ ipnow \in 0 .. MaxIpNow
  /\ seen \in [Keys -> SUBSET Fragment]

(* The fragments of one datagram, whatever their order, copies and cuts, give
   that datagram and nothing else: what is given has its header, its size and
   its data in place (iosniff_ipreas.c:133-193). *)
GivenIsTheDatagram ==
  given # None =>
    /\ given.header # None
    /\ \A b \in DOMAIN given.data : given.data[b] # None
    /\ \A d \in Datagram :
         {f.of : f \in seen[KeyOf(given.header)]} = {d} =>
           given = [header |-> d, size |-> SizeOf(d), data |-> [b \in BlocksOf(d) |-> d]]

(* An item that received a whole datagram, and nothing of another one, has
   given it: it never waits for a fragment that it has
   (iosniff_ipreas.c:181-194). *)
Whole(d, F) == UNION {Covered(f) : f \in F} = BlocksOf(d)
GivesWhenWhole ==
  \A k \in DOMAIN iphash : \A d \in Datagram :
    {f.of : f \in seen[k]} = {d} /\ Whole(d, seen[k]) => iphash[k].sent

(* Both: each datagram is given as it was sent, and as soon as it is whole
   (iosniff_ipreas.c:133-194). *)
GivesTheDatagram == GivenIsTheDatagram /\ GivesWhenWhole

(* A datagram is given once: a second packet of a key needs another item,
   which only a cleaning after the expiry of the first one allows
   (iosniff_ipreas.c:100-115, 129-131). *)
GivenOncePerItem ==
  [][\A k \in DOMAIN iphash :
       iphash[k].sent => \/ k \in DOMAIN iphash' /\ iphash'[k] = iphash[k]
                       \/ ipnow > iphash[k].expireat]_ipvars
=============================================================================
