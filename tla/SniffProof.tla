----------------------------- MODULE SniffProof -----------------------------
(***************************************************************************)
(* Proofs about the two sniffing ios, for every stream, window, timeout    *)
(* and number of packets; for any datagrams, keys that they share, cuts,   *)
(* sizes of blocks and thresholds of cleaning.                             *)
(***************************************************************************)
EXTENDS MCSniff, FiniteSetTheorems, SequenceTheorems, WellFoundedInduction, TLAPS

-----------------------------------------------------------------------------
(* The reordering io: numbers, items, and the last item *)

\* sniff_tcp_checksynchro accepts a sequence number when it is, around the
\* circle, at most Window after the expected one: both of its cases, and the
\* sum that overflows, compute the same window.
THEOREM WindowIsRight ==
  \A seq, expected \in SeqNum :
    Synchro(seq, expected) <=> Ahead(seq, expected) <= Window
BY SeqAssumption, SMT DEF SeqNum, Synchro, Ahead, Add

\* sniff_tcp_expectedseqnum returns the number of the border a packet ends at,
\* whether or not the sum overflows.
THEOREM NextIsBorder == \A p \in Packet : NextSeq(p) = Start[p.to]
<1> SUFFICES ASSUME NEW p \in Packet
             PROVE  NextSeq(p) = Start[p.to]
  OBVIOUS
<1>1. p.from \in Border /\ p.to \in Border
  BY DEF Packet
<1>2. Start[p.from] \in SeqNum /\ Start[p.to] \in SeqNum
  BY <1>1, ReordAssumption DEF Border
<1> QED
  BY <1>2, SeqAssumption, SMT DEF NextSeq, SeqOf, Size, Ahead, Add, SeqNum

\* An item has the fields of sniff_tcp_hashitem.
IsItem(h) ==
  DOMAIN h = {"expireat", "expectedseqnum", "ringreadytouse", "ring"}

IsHash(f) == /\ f = [s \in DOMAIN f |-> f[s]]
             /\ DOMAIN f \subseteq Session
             /\ \A s \in DOMAIN f : IsItem(f[s])

\* What the proof of LastIsLive needs to know of the variables.
IInv == IsHash(hash) /\ LastIsLive

LEMMA Initially == Init => IInv
BY DEF Init, IInv, IsHash, LastIsLive

\* A cleaning leaves the items it does not delete as they are.
LEMMA KeptIsHash == IInv => IsHash(Kept)
BY DEF IInv, IsHash, Kept, Restrict

\* Writing to an item of a hash, at s, keeps the other ones.
LEMMA Written ==
  ASSUME NEW f, IsHash(f), NEW s \in DOMAIN f, NEW h, IsItem(h)
  PROVE  /\ IsHash([f EXCEPT ![s] = h])
         /\ s \in DOMAIN [f EXCEPT ![s] = h]
         /\ [f EXCEPT ![s] = h][s] = h
BY DEF IsHash

LEMMA Preserved == IInv /\ [Next]_vars => IInv'
<1> SUFFICES ASSUME IInv, [Next]_vars
             PROVE  IInv'
  OBVIOUS
<1> USE ReordAssumption
<1>k. IsHash(Kept)
  BY KeptIsHash
<1>1. ASSUME NEW p \in Packet, Open(p)
      PROVE  IInv'
  <2> DEFINE new == [expireat |-> now + Timeout, expectedseqnum |-> NextSeq(p),
                     ringreadytouse |-> FALSE, ring |-> <<>>]
  <2>1. p.ses \in Session
    BY DEF Packet
  <2>2. /\ hash' = [s \in DOMAIN Kept \cup {p.ses} |->
                      IF s = p.ses THEN new ELSE Kept[s]]
        /\ plaststhi' = Null
    BY <1>1 DEF Open
  <2>3. IsItem(new)
    BY DEF IsItem
  <2> HIDE DEF new
  <2>4. IsHash(hash')
    BY <1>k, <2>1, <2>2, <2>3 DEF IsHash
  <2> QED
    BY <2>2, <2>4 DEF IInv, IsHash, LastIsLive
<1>2. ASSUME NEW p \in Packet, Give(p)
      PROVE  IInv'
  <2> DEFINE item == Kept[p.ses]
             new == [item EXCEPT !.expectedseqnum = NextSeq(p),
                                 !.expireat = now + Timeout]
  <2>1. p.ses \in DOMAIN Kept /\ plaststhi = Null
    BY <1>2 DEF Give, Known
  <2>2. IsItem(item)
    BY <2>1, <1>k DEF IsHash
  <2>3. IsItem(new) /\ new.ringreadytouse = item.ringreadytouse
    <3> HIDE DEF item
    <3> QED
    BY <2>2 DEF IsItem
  <2>4. /\ hash' = [Kept EXCEPT ![p.ses] = new]
        /\ plaststhi' = IF item.ringreadytouse THEN p.ses ELSE plaststhi
    BY <1>2 DEF Give
  <2> HIDE DEF item, new
  <2>5. /\ IsHash(hash')
        /\ p.ses \in DOMAIN hash'
        /\ hash'[p.ses] = new
    BY <1>k, <2>1, <2>3, <2>4, Written
  <2> QED
    BY <2>1, <2>3, <2>4, <2>5 DEF IInv, IsHash, LastIsLive
<1>3. ASSUME NEW p \in Packet, Store(p)
      PROVE  IInv'
  <2> DEFINE item == Kept[p.ses]
             new == [item EXCEPT !.ringreadytouse = TRUE,
                                 !.ring = Append(@, p)]
  <2>1. p.ses \in DOMAIN Kept /\ plaststhi = Null /\ plaststhi' = Null
    BY <1>3 DEF Store, Known
  <2>2. IsItem(item)
    BY <2>1, <1>k DEF IsHash
  <2>3. IsItem(new)
    <3> HIDE DEF item
    <3> QED
    BY <2>2 DEF IsItem
  <2>4. hash' = Kept \/ hash' = [Kept EXCEPT ![p.ses] = new]
    BY <1>3 DEF Store
  <2> HIDE DEF item, new
  <2>5. IsHash(hash')
    BY <1>k, <2>1, <2>3, <2>4, Written
  <2> QED
    BY <2>1, <2>5 DEF IInv, IsHash, LastIsLive
<1>4. ASSUME plaststhi # Null, NEW e, NEW r,
             hash' = [hash EXCEPT ![plaststhi].expectedseqnum = e,
                                  ![plaststhi].ring = r]
      PROVE  /\ IsHash(hash')
             /\ plaststhi \in DOMAIN hash'
             /\ hash'[plaststhi].ringreadytouse
  <2> DEFINE item == hash[plaststhi]
             new == [item EXCEPT !.expectedseqnum = e, !.ring = r]
  <2>1. plaststhi \in DOMAIN hash /\ item.ringreadytouse
    BY <1>4 DEF IInv, LastIsLive
  <2>2. IsItem(item)
    BY <2>1 DEF IInv, IsHash
  <2>3. IsItem(new) /\ new.ringreadytouse = item.ringreadytouse
    <3> HIDE DEF item
    <3> QED
    BY <2>2 DEF IsItem
  <2>4. hash' = [hash EXCEPT ![plaststhi] = new]
    BY <1>4, <2>1
  <2> HIDE DEF item, new
  <2> QED
    BY <2>1, <2>3, <2>4, Written DEF IInv
<1>5. CASE GivePending
  <2>1. PICK e, r : hash' = [hash EXCEPT ![plaststhi].expectedseqnum = e,
                                         ![plaststhi].ring = r]
    BY <1>5 DEF GivePending
  <2>2. plaststhi # Null /\ plaststhi' = plaststhi
    BY <1>5 DEF GivePending
  <2> QED
    BY <1>4, <2>1, <2>2 DEF IInv, IsHash, LastIsLive
<1>6. CASE EndPending
  <2>0. PICK ring : hash' = [hash EXCEPT ![plaststhi].ring = ring]
    BY <1>6 DEF EndPending
  <2> DEFINE item == hash[plaststhi]
             new == [item EXCEPT !.ring = ring]
  <2>1. plaststhi \in DOMAIN hash /\ plaststhi' = Null
    BY <1>6 DEF EndPending, IInv, LastIsLive
  <2>2. IsItem(item)
    BY <2>1 DEF IInv, IsHash
  <2>3. IsItem(new)
    <3> HIDE DEF item
    <3> QED
    BY <2>2 DEF IsItem
  <2>4. hash' = [hash EXCEPT ![plaststhi] = new]
    BY <2>0
  <2> HIDE DEF item, new
  <2>5. IsHash(hash')
    BY <2>1, <2>3, <2>4, Written DEF IInv
  <2> QED
    BY <2>1, <2>5 DEF IInv, IsHash, LastIsLive
<1>7. CASE Reopen
  BY <1>7 DEF Reopen, IInv, IsHash, LastIsLive
<1>8. CASE Tick
  BY <1>8 DEF Tick, IInv, IsHash, LastIsLive
<1>9. CASE UNCHANGED vars
  BY <1>9 DEF vars, IInv, IsHash, LastIsLive
<1> QED
  BY <1>1, <1>2, <1>3, <1>5, <1>6, <1>7, <1>8, <1>9 DEF Next, Read

\* plaststhi never points to an item that a cleaning has freed, nor to one
\* that has no ring, whatever the timeout and the number of packets after
\* which the hash is cleaned.
THEOREM LastStaysLive == Spec => []LastIsLive
<1>1. IInv => LastIsLive
  BY DEF IInv
<1> QED
  BY <1>1, Initially, Preserved, PTL DEF Spec

-----------------------------------------------------------------------------
(* The reordering io gives the data of a session in order, and forgets none *)
(* of the packets it stores.  What is said of an item has two parts, of     *)
(* values only: Follows, of what was given and the number that is expected, *)
(* and Holds, of the ring and the packets that were received ahead.         *)

PacketOf(s) == {p \in Packet : p.ses = s}

\* The data given, o, is a piece of the stream that ends where x is expected.
Follows(s, x, o) ==
  /\ \E b \in Border : x = Start[b]
  /\ o \in Seq(PacketOf(s))
  /\ \A i \in 1 .. Len(o) - 1 : o[i + 1].from = o[i].to
  /\ o # <<>> => x = NextSeq(o[Len(o)])

\* The ring r holds all the packets of e, which are within the window.
Holds(s, x, r, e) ==
  /\ r \in Seq(PacketOf(s))
  /\ \A q \in e : /\ q \in Range(r)
                  /\ Data(q)
                  /\ Ahead(SeqOf(q), x) <= Window

Sound(s, h, o, e) ==
  /\ Follows(s, h.expectedseqnum, o)
  /\ Holds(s, h.expectedseqnum, h.ring, e)
  /\ ~h.ringreadytouse => h.ring = <<>>

IsAhead(h) ==
  \A i \in DOMAIN h.ring :
    Ahead(SeqOf(h.ring[i]), h.expectedseqnum) \in 1 .. Window

OInv ==
  /\ IInv
  /\ DOMAIN out = Session /\ DOMAIN early = Session
  /\ \A s \in DOMAIN hash : /\ Sound(s, hash[s], out[s], early[s])
                            /\ plaststhi # s => IsAhead(hash[s])

----------------------------------------------------------------------------
(* Packets and numbers *)

LEMMA Numbers ==
  ASSUME NEW p \in Packet
  PROVE  /\ p.from \in Border /\ p.to \in Border /\ p.from <= p.to
         /\ p.from \in Nat /\ p.to \in Nat
         /\ SeqOf(p) \in SeqNum
         /\ NextSeq(p) \in SeqNum
         /\ NextSeq(p) = Start[p.to]
BY NextIsBorder, ReordAssumption DEF Packet, Border, SeqOf

LEMMA SameNumber == \A x \in SeqNum : Ahead(x, x) = 0
BY SeqAssumption DEF SeqNum, Ahead

LEMMA SameBorder ==
  ASSUME NEW i \in Border, NEW j \in Border, Start[i] = Start[j]
  PROVE  i = j
<1>1. Start[i] \in SeqNum /\ Border \subseteq Nat
  BY ReordAssumption DEF Border
<1>2. ~(0 > Window)
  BY SeqAssumption
<1> QED
  BY <1>1, <1>2, SameNumber, ReordAssumption

\* A packet of data is not ahead of the number it ends at.
LEMMA GivenIsBehind ==
  ASSUME NEW p \in Packet, Data(p)
  PROVE  ~(Ahead(SeqOf(p), NextSeq(p)) <= Window)
<1>1. /\ p.from \in Border /\ p.to \in Border /\ p.from < p.to
      /\ NextSeq(p) = Start[p.to]
  BY Numbers DEF Data
<1>2. Ahead(Start[p.from], Start[p.to]) > Window
  BY <1>1, ReordAssumption
<1>3. Ahead(Start[p.from], Start[p.to]) \in Int /\ Window \in Int
  <2>1. Start[p.from] \in SeqNum /\ Start[p.to] \in SeqNum
    BY <1>1, ReordAssumption DEF Border
  <2> QED
    BY <2>1, SeqAssumption DEF Ahead, SeqNum
<1> QED
  BY <1>1, <1>2, <1>3 DEF SeqOf

\* Giving the packet that is expected.
LEMMA FollowsOn ==
  ASSUME NEW s, NEW x, NEW o, Follows(s, x, o),
         NEW p \in PacketOf(s), SeqOf(p) = x
  PROVE  Follows(s, NextSeq(p), IF Data(p) THEN Append(o, p) ELSE o)
<1>1. p \in Packet /\ o \in Seq(PacketOf(s))
  BY DEF PacketOf, Follows
<1>2. \E b \in Border : NextSeq(p) = Start[b]
  BY <1>1, Numbers
<1>3. CASE Data(p)
  <2> DEFINE n == Len(o)
             q == Append(o, p)
  <2>1. /\ n \in Nat
        /\ q \in Seq(PacketOf(s)) /\ Len(q) = n + 1
        /\ \A i \in 1 .. n : q[i] = o[i]
        /\ q[n + 1] = p
    BY <1>1, AppendProperties, LenProperties
  <2>2. n # 0 => p.from = o[n].to
    <3> SUFFICES ASSUME n # 0
                 PROVE  p.from = o[n].to
      OBVIOUS
    <3>1. o # <<>> /\ n \in 1 .. n
      BY <2>1, EmptySeq
    <3>2. o[n] \in PacketOf(s)
      BY <1>1, <3>1, ElementOfSeq
    <3>3. Start[p.from] = Start[o[n].to]
      BY <1>1, <3>1, <3>2, Numbers DEF Follows, PacketOf, SeqOf
    <3> QED
      BY <1>1, <3>2, <3>3, Numbers, SameBorder DEF PacketOf
  <2>3. \A i \in 1 .. n : q[i + 1].from = q[i].to
    <3> SUFFICES ASSUME NEW i \in 1 .. n
                 PROVE  q[i + 1].from = q[i].to
      OBVIOUS
    <3>1. CASE i = n
      BY <3>1, <2>1, <2>2
    <3>2. CASE i # n
      BY <3>2, <2>1 DEF Follows
    <3> QED
      BY <3>1, <3>2
  <2> HIDE DEF q
  <2>4. Follows(s, NextSeq(p), q)
    BY <1>2, <2>1, <2>3 DEF Follows
  <2> QED
    BY <1>3, <2>4 DEF q
<1>4. CASE ~Data(p)
  <2>1. NextSeq(p) = SeqOf(p)
    BY <1>1, <1>4, Numbers DEF Data, SeqOf
  <2> QED
    BY <1>4, <2>1
<1> QED
  BY <1>3, <1>4

\* The window that is left after a packet is a part of what was early.
LEMMA HoldsOn ==
  ASSUME NEW s, NEW x, NEW r, NEW e, Holds(s, x, r, e), NEW y
  PROVE  Holds(s, y, r, StillAhead(e, y))
BY DEF Holds, StillAhead

----------------------------------------------------------------------------
(* Sifting *)

LEMMA RangeOfConcat ==
  ASSUME NEW S, NEW u \in Seq(S), NEW v \in Seq(S)
  PROVE  u \o v \in Seq(S) /\ Range(u \o v) = Range(u) \cup Range(v)
<1> DEFINE w == u \o v
<1>1. /\ w \in Seq(S)
      /\ Len(w) = Len(u) + Len(v)
      /\ \A i \in 1 .. Len(u) + Len(v) :
           w[i] = IF i <= Len(u) THEN u[i] ELSE v[i - Len(u)]
  BY ConcatProperties
<1>2. /\ Len(u) \in Nat /\ DOMAIN u = 1 .. Len(u)
      /\ Len(v) \in Nat /\ DOMAIN v = 1 .. Len(v)
      /\ DOMAIN w = 1 .. Len(w)
  BY <1>1, LenProperties
<1> HIDE DEF w
<1>3. ASSUME NEW i \in DOMAIN u
      PROVE  u[i] \in Range(w)
  <2>1. i \in DOMAIN w /\ w[i] = u[i]
    BY <1>1, <1>2
  <2> QED
    BY <2>1 DEF Range
<1>4. ASSUME NEW i \in DOMAIN v
      PROVE  v[i] \in Range(w)
  <2>1. Len(u) + i \in DOMAIN w /\ w[Len(u) + i] = v[i]
    BY <1>1, <1>2
  <2> QED
    BY <2>1 DEF Range
<1>5. ASSUME NEW i \in DOMAIN w
      PROVE  w[i] \in Range(u) \cup Range(v)
  <2>1. CASE i <= Len(u)
    BY <1>1, <1>2, <2>1 DEF Range
  <2>2. CASE ~(i <= Len(u))
    <3>1. i - Len(u) \in DOMAIN v /\ w[i] = v[i - Len(u)]
      BY <1>1, <1>2, <2>2
    <3> QED
      BY <3>1 DEF Range
  <2> QED
    BY <2>1, <2>2
<1>6. Range(w) = Range(u) \cup Range(v)
  BY <1>3, <1>4, <1>5 DEF Range
<1> QED
  BY <1>1, <1>6 DEF w

LEMMA SiftedIsRight ==
  ASSUME NEW S, NEW ring \in Seq(S), NEW r \in Sifted(ring)
  PROVE  /\ r \in Seq(S)
         /\ Range(r) = {ring[k] : k \in {i \in DOMAIN ring :
                          Synchro(SeqOf(ring[i]), Pending.expectedseqnum)}}
<1> DEFINE kept == {i \in DOMAIN ring :
                      Synchro(SeqOf(ring[i]), Pending.expectedseqnum)}
<1>1. PICK f : /\ \E n \in 0 .. Len(ring) : f \in [1 .. n -> kept]
               /\ Range(f) = kept
               /\ r = [i \in DOMAIN f |-> ring[f[i]]]
  BY DEF Sifted
<1>2. PICK n \in 0 .. Len(ring) : f \in [1 .. n -> kept]
  BY <1>1
<1>3. DOMAIN ring = 1 .. Len(ring) /\ n \in Nat
  BY LenProperties
<1>4. \A k \in kept : ring[k] \in S
  BY <1>3, ElementOfSeq
<1>5. r \in [1 .. n -> S]
  BY <1>1, <1>2, <1>4
<1>6. r \in Seq(S)
  BY <1>3, <1>5, SeqDef
<1>7. Range(r) = {ring[k] : k \in kept}
  BY <1>1, <1>2 DEF Range
<1> QED
  BY <1>6, <1>7

----------------------------------------------------------------------------
(* Every step keeps what is said of the items *)

LEMMA OInitially == Init => OInv
BY Initially DEF Init, OInv

LEMMA KeptIsSound ==
  ASSUME OInv
  PROVE  /\ DOMAIN Kept \subseteq DOMAIN hash
         /\ \A s \in DOMAIN Kept : Kept[s] = hash[s]
BY DEF Kept, Restrict

\* A step that only changes the item of s, or deletes other ones.
LEMMA OneItem ==
  ASSUME OInv, IInv', NEW s,
         DOMAIN out' = Session, DOMAIN early' = Session,
         \A t \in DOMAIN hash' : t # s =>
           /\ t \in DOMAIN hash /\ hash'[t] = hash[t]
           /\ out'[t] = out[t] /\ early'[t] = early[t]
           /\ plaststhi' # t => plaststhi # t,
         s \in DOMAIN hash' =>
           /\ Sound(s, hash'[s], out'[s], early'[s])
           /\ plaststhi' # s => IsAhead(hash'[s])
  PROVE  OInv'
BY DEF OInv

LEMMA OpenIsSound ==
  ASSUME OInv, IInv', NEW p \in Packet, Open(p)
  PROVE  OInv'
<1> DEFINE s == p.ses
           o == IF Data(p) THEN <<p>> ELSE <<>>
           new == [expireat |-> now + Timeout, expectedseqnum |-> NextSeq(p),
                   ringreadytouse |-> FALSE, ring |-> <<>>]
<1>1. s \in Session /\ p \in PacketOf(s)
  BY DEF Packet, PacketOf
<1>2. /\ hash' = [t \in DOMAIN Kept \cup {s} |->
                    IF t = s THEN new ELSE Kept[t]]
      /\ out' = [out EXCEPT ![s] = o]
      /\ early' = [early EXCEPT ![s] = {}]
      /\ plaststhi = Null /\ plaststhi' = Null
  BY DEF Open
<1>3. Follows(s, NextSeq(p), o)
  <2>1. \E b \in Border : NextSeq(p) = Start[b]
    BY Numbers
  <2>2. Follows(s, NextSeq(p), <<>>)
    BY <2>1 DEF Follows
  <2>3. Follows(s, NextSeq(p), <<p>>)
    <3>1. /\ <<p>> \in Seq(PacketOf(s)) /\ Len(<<p>>) = 1
          /\ <<p>>[1] = p
      BY <1>1
    <3> QED
      BY <2>1, <3>1 DEF Follows
  <2> QED
    BY <2>2, <2>3
<1>4. Holds(s, NextSeq(p), <<>>, {})
  BY DEF Holds
<1>5. Sound(s, new, o, {}) /\ IsAhead(new)
  BY <1>3, <1>4 DEF Sound, IsAhead
<1>6. out'[s] = o /\ early'[s] = {} /\ hash'[s] = new
  BY <1>1, <1>2 DEF OInv
<1>7. \A t \in DOMAIN hash' : t # s =>
        /\ t \in DOMAIN hash /\ hash'[t] = hash[t]
        /\ out'[t] = out[t] /\ early'[t] = early[t]
        /\ plaststhi' # t => plaststhi # t
  <2> HIDE DEF new, o
  <2>1. DOMAIN hash \subseteq Session
    BY DEF OInv, IInv, IsHash
  <2> QED
    BY <1>2, <2>1, KeptIsSound DEF OInv
<1>8. DOMAIN out' = Session /\ DOMAIN early' = Session
  BY <1>2 DEF OInv
<1> HIDE DEF new, o, s
<1> QED
  BY <1>5, <1>6, <1>7, <1>8, OneItem

LEMMA GiveIsSound ==
  ASSUME OInv, IInv', NEW p \in Packet, Give(p)
  PROVE  OInv'
<1> DEFINE s == p.ses
           item == Kept[s]
           new == [item EXCEPT !.expectedseqnum = NextSeq(p),
                               !.expireat = now + Timeout]
           e == StillAhead(early[s], NextSeq(p))
<1>1. s \in DOMAIN Kept /\ p \in PacketOf(s) /\ plaststhi = Null
  BY DEF Give, Known, PacketOf
<1>2. /\ item = hash[s] /\ s \in DOMAIN hash
      /\ s \in Session /\ IsItem(item)
  BY <1>1, KeptIsSound DEF OInv, IInv, IsHash
<1>3. /\ SeqOf(p) = item.expectedseqnum
      /\ hash' = [Kept EXCEPT ![s] = new]
      /\ plaststhi' = IF item.ringreadytouse THEN s ELSE plaststhi
      /\ out' = [out EXCEPT ![s] = Delivered(p)]
      /\ early' = [early EXCEPT ![s] = e]
  BY DEF Give
<1>4. Sound(s, item, out[s], early[s])
  BY <1>2 DEF OInv
<1>5. Follows(s, NextSeq(p), Delivered(p))
  BY <1>1, <1>3, <1>4, FollowsOn DEF Sound, Delivered
<1>6. Holds(s, NextSeq(p), item.ring, e)
  BY <1>4, HoldsOn DEF Sound
<1>7. /\ new.expectedseqnum = NextSeq(p) /\ new.ring = item.ring
      /\ new.ringreadytouse = item.ringreadytouse
  <2> HIDE DEF item
  <2> QED
    BY <1>2 DEF IsItem
<1> HIDE DEF new, e
<1>8. Sound(s, new, Delivered(p), e)
  BY <1>4, <1>5, <1>6, <1>7 DEF Sound
<1>9. plaststhi' # s => IsAhead(new)
  BY <1>3, <1>4, <1>7 DEF Sound, IsAhead
<1> HIDE DEF item
<1>10. hash'[s] = new /\ out'[s] = Delivered(p) /\ early'[s] = e
  BY <1>1, <1>2, <1>3 DEF OInv
<1>11. \A t \in DOMAIN hash' : t # s =>
         /\ t \in DOMAIN hash /\ hash'[t] = hash[t]
         /\ out'[t] = out[t] /\ early'[t] = early[t]
         /\ plaststhi' # t => plaststhi # t
  <2>1. DOMAIN hash \subseteq Session /\ Null \notin Session
    BY ReordAssumption DEF OInv, IInv, IsHash
  <2>2. DOMAIN hash' = DOMAIN Kept
    BY <1>3
  <2>3. \A t \in DOMAIN hash' : t # s =>
          t \in DOMAIN hash /\ hash'[t] = hash[t] /\ plaststhi # t
    BY <1>1, <1>3, <2>1, <2>2, KeptIsSound
  <2> QED
    BY <1>3, <2>1, <2>3 DEF OInv
<1>12. DOMAIN out' = Session /\ DOMAIN early' = Session
  BY <1>3 DEF OInv
<1> HIDE DEF s
<1> QED
  BY <1>8, <1>9, <1>10, <1>11, <1>12, OneItem

LEMMA StoreIsSound ==
  ASSUME OInv, IInv', NEW p \in Packet, Store(p)
  PROVE  OInv'
<1> DEFINE s == p.ses
           item == Kept[s]
           x == item.expectedseqnum
           ring == item.ring
           new == [item EXCEPT !.ringreadytouse = TRUE,
                               !.ring = Append(@, p)]
           e == IF Data(p) THEN StillAhead(early[s] \cup {p}, x) ELSE early[s]
<1>1. /\ s \in DOMAIN Kept /\ p \in PacketOf(s)
      /\ plaststhi = Null /\ plaststhi' = Null
  BY DEF Store, Known, PacketOf
<1>2. /\ item = hash[s] /\ s \in DOMAIN hash
      /\ s \in Session /\ IsItem(item)
  BY <1>1, KeptIsSound DEF OInv, IInv, IsHash
<1>3. Sound(s, item, out[s], early[s]) /\ IsAhead(item)
  BY <1>1, <1>2, ReordAssumption DEF OInv
<1>4. /\ SeqOf(p) # x
      /\ \/ Synchro(SeqOf(p), x) /\ hash' = [Kept EXCEPT ![s] = new]
         \/ ~Synchro(SeqOf(p), x) /\ hash' = Kept
      /\ out' = out
      /\ early' = [early EXCEPT ![s] = e]
  BY DEF Store
<1>5. /\ x \in SeqNum /\ SeqOf(p) \in SeqNum
      /\ ring \in Seq(PacketOf(s))
      /\ Synchro(SeqOf(p), x) <=> Ahead(SeqOf(p), x) <= Window
  <2>1. x \in SeqNum /\ ring \in Seq(PacketOf(s))
    BY <1>3, ReordAssumption DEF Sound, Follows, Holds, Border
  <2> QED
    BY <2>1, Numbers, WindowIsRight
<1>6. /\ new.expectedseqnum = x /\ new.ring = Append(ring, p)
      /\ new.ringreadytouse
  <2> HIDE DEF item
  <2> QED
    BY <1>2 DEF IsItem
<1> HIDE DEF new
<1>7. ASSUME Synchro(SeqOf(p), x)
      PROVE  Sound(s, new, out[s], e) /\ IsAhead(new)
  <2> DEFINE r == Append(ring, p)
  <2>1. /\ r \in Seq(PacketOf(s)) /\ Len(r) = Len(ring) + 1
        /\ \A i \in 1 .. Len(ring) : r[i] = ring[i]
        /\ r[Len(ring) + 1] = p
        /\ Len(ring) \in Nat
        /\ DOMAIN ring = 1 .. Len(ring) /\ DOMAIN r = 1 .. Len(r)
    BY <1>1, <1>5, AppendProperties, LenProperties
  <2> HIDE DEF r
  <2>2. Range(ring) \subseteq Range(r) /\ p \in Range(r)
    BY <2>1 DEF Range
  <2>3. Holds(s, x, r, e)
    <3> HIDE DEF item, x, ring
    <3>1. Holds(s, x, ring, early[s])
      BY <1>3 DEF Sound, x, ring
    <3> QED
      BY <1>5, <1>7, <2>1, <2>2, <3>1 DEF Holds, StillAhead
  <2>4. Ahead(SeqOf(p), x) \in 1 .. Window
    BY <1>4, <1>5, <1>7, SeqAssumption DEF Ahead, SeqNum
  <2>5. IsAhead(new)
    <3>1. \A i \in 1 .. Len(ring) : Ahead(SeqOf(ring[i]), x) \in 1 .. Window
      BY <1>3, <2>1 DEF IsAhead
    <3>2. \A i \in DOMAIN r : i \in 1 .. Len(ring) \/ i = Len(ring) + 1
      BY <2>1
    <3> HIDE DEF item, x, ring
    <3> QED
      BY <1>6, <2>1, <2>4, <3>1, <3>2 DEF IsAhead, r
  <2> QED
    BY <1>3, <1>6, <2>3, <2>5 DEF Sound, r
<1>8. ASSUME ~Synchro(SeqOf(p), x)
      PROVE  Sound(s, item, out[s], e)
  <2>1. ASSUME NEW q \in e
        PROVE  q \in early[s]
    BY <1>5, <1>8, <2>1 DEF StillAhead
  <2> HIDE DEF e, item
  <2> QED
    BY <1>3, <2>1 DEF Sound, Holds
<1> HIDE DEF item, e
<1>9. /\ s \in DOMAIN hash'
      /\ Sound(s, hash'[s], out'[s], early'[s]) /\ IsAhead(hash'[s])
  <2>1. out'[s] = out[s] /\ early'[s] = e
    BY <1>2, <1>4 DEF OInv
  <2>2. CASE Synchro(SeqOf(p), x) /\ hash' = [Kept EXCEPT ![s] = new]
    BY <1>1, <1>7, <2>1, <2>2
  <2>3. CASE ~Synchro(SeqOf(p), x) /\ hash' = Kept
    BY <1>1, <1>3, <1>8, <2>1, <2>3 DEF item
  <2> QED
    BY <1>4, <2>2, <2>3
<1>10. \A t \in DOMAIN hash' : t # s =>
         /\ t \in DOMAIN hash /\ hash'[t] = hash[t]
         /\ out'[t] = out[t] /\ early'[t] = early[t]
         /\ plaststhi' # t => plaststhi # t
  <2>1. DOMAIN hash \subseteq Session
    BY DEF OInv, IInv, IsHash
  <2>2. /\ DOMAIN hash' = DOMAIN Kept
        /\ \A t \in DOMAIN Kept : t # s => hash'[t] = Kept[t]
    BY <1>4
  <2> QED
    BY <1>1, <1>4, <2>1, <2>2, KeptIsSound DEF OInv
<1>11. DOMAIN out' = Session /\ DOMAIN early' = Session
  BY <1>4 DEF OInv
<1> HIDE DEF s
<1> QED
  BY <1>9, <1>10, <1>11, OneItem

\* The item of plaststhi, once its fields expectedseqnum and ring are changed.
LEMMA PendingItem ==
  ASSUME OInv, plaststhi # Null, NEW x, NEW r,
         hash' = [hash EXCEPT ![plaststhi].expectedseqnum = x,
                              ![plaststhi].ring = r]
  PROVE  /\ plaststhi \in DOMAIN hash /\ plaststhi \in Session
         /\ DOMAIN hash' = DOMAIN hash
         /\ \A t \in DOMAIN hash : t # plaststhi => hash'[t] = hash[t]
         /\ hash'[plaststhi].expectedseqnum = x
         /\ hash'[plaststhi].ring = r
         /\ hash'[plaststhi].ringreadytouse
<1> DEFINE item == hash[plaststhi]
           new == [item EXCEPT !.expectedseqnum = x, !.ring = r]
<1>1. /\ plaststhi \in DOMAIN hash /\ item.ringreadytouse
      /\ plaststhi \in Session
  BY DEF OInv, IInv, IsHash, LastIsLive
<1>2. IsItem(item)
  BY <1>1 DEF OInv, IInv, IsHash
<1>3. /\ new.expectedseqnum = x /\ new.ring = r
      /\ new.ringreadytouse = item.ringreadytouse
  <2> HIDE DEF item
  <2> QED
    BY <1>2 DEF IsItem
<1>4. hash' = [hash EXCEPT ![plaststhi] = new]
  BY <1>1
<1> HIDE DEF item, new
<1> QED
  BY <1>1, <1>3, <1>4

LEMMA GivePendingIsSound ==
  ASSUME OInv, IInv', GivePending
  PROVE  OInv'
<1> DEFINE s == plaststhi
           ring == Pending.ring
           x == Pending.expectedseqnum
<1>0. PICK i \in Ready :
        LET p == ring[i]
        IN  /\ \E before \in Sifted(SubSeq(ring, 1, i - 1)) :
                 hash' = [hash EXCEPT
                   ![s].expectedseqnum = NextSeq(p),
                   ![s].ring = before \o SubSeq(ring, i + 1, Len(ring))]
            /\ out' = [out EXCEPT ![s] = Delivered(p)]
            /\ early' = [early EXCEPT ![s] = StillAhead(@, NextSeq(p))]
  BY DEF GivePending
<1> DEFINE p == ring[i]
           e == StillAhead(early[s], NextSeq(p))
<1>1. /\ s \in DOMAIN hash /\ s # Null /\ s \in Session
      /\ Sound(s, hash[s], out[s], early[s])
      /\ DOMAIN out = Session /\ DOMAIN early = Session
  BY DEF GivePending, OInv, IInv, IsHash, LastIsLive
<1>2. /\ ring \in Seq(PacketOf(s)) /\ Len(ring) \in Nat
      /\ DOMAIN ring = 1 .. Len(ring)
      /\ Follows(s, x, out[s]) /\ Holds(s, x, ring, early[s])
  BY <1>1, LenProperties DEF Sound, Holds, Pending
<1>3. i \in DOMAIN ring /\ SeqOf(p) = x
  BY <1>0 DEF Ready
<1>4. p \in PacketOf(s)
  BY <1>2, <1>3, ElementOfSeq
<1> DEFINE first == SubSeq(ring, 1, i - 1)
           last == SubSeq(ring, i + 1, Len(ring))
<1>5. PICK before \in Sifted(first) :
        hash' = [hash EXCEPT ![s].expectedseqnum = NextSeq(p),
                             ![s].ring = before \o last]
  BY <1>0
<1>6. /\ out' = [out EXCEPT ![s] = Delivered(p)]
      /\ early' = [early EXCEPT ![s] = e]
      /\ plaststhi' = plaststhi
  BY <1>0 DEF GivePending
<1> DEFINE r == before \o last
<1>7. /\ hash'[s].expectedseqnum = NextSeq(p)
      /\ hash'[s].ring = r
      /\ hash'[s].ringreadytouse
      /\ DOMAIN hash' = DOMAIN hash
      /\ \A t \in DOMAIN hash : t # s => hash'[t] = hash[t]
  <2> HIDE DEF r, ring, p
  <2> QED
    BY <1>1, <1>5, PendingItem DEF r
<1>8. /\ first \in Seq(PacketOf(s))
      /\ Len(first) = i - 1
      /\ \A k \in 1 .. i - 1 : first[k] = ring[k]
      /\ last \in Seq(PacketOf(s))
      /\ Len(last) = Len(ring) - i
      /\ \A k \in 1 .. Len(ring) - i : last[k] = ring[i + k]
  <2> HIDE DEF ring
  <2>1. \A k \in 1 .. Len(ring) : ring[k] \in PacketOf(s)
    BY <1>2, ElementOfSeq
  <2> QED
    BY <1>2, <1>3, <2>1, SubSeqProperties, SMTT(20)
<1>9. Follows(s, NextSeq(p), Delivered(p))
  <2>1. p.ses = s
    BY <1>4 DEF PacketOf
  <2> HIDE DEF p, x
  <2> QED
    BY <1>2, <1>3, <1>4, <2>1, FollowsOn DEF Delivered
<1>10. r \in Seq(PacketOf(s)) /\ Range(r) = Range(before) \cup Range(last)
  <2> HIDE DEF first, last
  <2>1. before \in Seq(PacketOf(s))
    BY <1>5, <1>8, SiftedIsRight
  <2> QED
    BY <1>8, <2>1, RangeOfConcat
<1>11. \A q \in e : q \in Range(r)
  <2> SUFFICES ASSUME NEW q \in e
               PROVE  q \in Range(r)
    OBVIOUS
  <2>1. /\ q \in early[s] /\ Ahead(SeqOf(q), NextSeq(p)) <= Window
        /\ Data(q) /\ Ahead(SeqOf(q), x) <= Window
        /\ q \in Range(ring)
    BY <1>2 DEF StillAhead, Holds
  <2>2. PICK k \in 1 .. Len(ring) : q = ring[k]
    BY <1>2, <2>1 DEF Range
  <2>3. k # i
    <3> SUFFICES ASSUME k = i
                 PROVE  FALSE
      OBVIOUS
    <3>1. q = p /\ p \in Packet
      BY <1>4, <2>2 DEF PacketOf
    <3> HIDE DEF p, e, r
    <3> QED
      BY <2>1, <3>1, GivenIsBehind
  <2>4. CASE k < i
    <3>1. k \in 1 .. i - 1
      BY <1>2, <1>3, <2>4
    <3>2. k \in DOMAIN first /\ first[k] = q
      BY <1>8, <2>2, <3>1, LenProperties
    <3>3. Synchro(SeqOf(q), x)
      <4>1. q \in Packet
        BY <1>2, <2>2, ElementOfSeq DEF PacketOf
      <4>2. x \in SeqNum
        BY <1>3, <1>4, Numbers DEF PacketOf
      <4> QED
        BY <2>1, <4>1, <4>2, Numbers, WindowIsRight
    <3>4. q \in Range(before)
      <4> HIDE DEF first
      <4> QED
        BY <1>5, <1>8, <3>2, <3>3, SiftedIsRight, ZenonT(60)
    <3> QED
      BY <1>10, <3>4
  <2>5. CASE k > i
    <3>1. k - i \in 1 .. Len(ring) - i
      BY <1>2, <1>3, <2>5
    <3>2. k - i \in DOMAIN last /\ last[k - i] = q
      <4>1. i \in Nat /\ k \in Nat
        BY <1>2, <1>3
      <4> HIDE DEF last, ring
      <4>2. DOMAIN last = 1 .. Len(ring) - i
        BY <1>8, LenProperties
      <4>3. last[k - i] = ring[i + (k - i)]
        BY <1>8, <3>1
      <4>4. i + (k - i) = k
        BY <4>1
      <4> QED
        BY <2>2, <3>1, <4>2, <4>3, <4>4
    <3> QED
      BY <1>10, <3>2 DEF Range
  <2> QED
    BY <1>2, <1>3, <2>3, <2>4, <2>5
<1>12. Holds(s, NextSeq(p), r, e)
  <2> HIDE DEF r, p
  <2> QED
    BY <1>2, <1>10, <1>11 DEF Holds, StillAhead
<1>13. Sound(s, hash'[s], out'[s], early'[s])
  <2>1. out'[s] = Delivered(p) /\ early'[s] = e
    BY <1>1, <1>6
  <2> HIDE DEF r, p, e
  <2> QED
    BY <1>7, <1>9, <1>12, <2>1 DEF Sound
<1>14. /\ DOMAIN out' = Session /\ DOMAIN early' = Session
       /\ \A t : t # s => (t \in Session =>
             out'[t] = out[t] /\ early'[t] = early[t])
  BY <1>1, <1>6
<1>15. DOMAIN hash \subseteq Session
  BY DEF OInv, IInv, IsHash
<1> QED
  BY <1>6, <1>7, <1>13, <1>14, <1>15, OneItem, ZenonT(60)

LEMMA EndPendingIsSound ==
  ASSUME OInv, IInv', EndPending
  PROVE  OInv'
<1> DEFINE s == plaststhi
           item == hash[s]
           x == item.expectedseqnum
<1>1. /\ s \in DOMAIN hash /\ s # Null /\ s \in Session
      /\ Sound(s, item, out[s], early[s])
      /\ item.ringreadytouse
      /\ DOMAIN out = Session /\ DOMAIN early = Session
  BY DEF EndPending, OInv, IInv, IsHash, LastIsLive
<1>2. PICK r \in Sifted(item.ring) : hash' = [hash EXCEPT ![s].ring = r]
  BY DEF EndPending, Pending
<1>3. plaststhi' = Null /\ out' = out /\ early' = early
  BY DEF EndPending
<1>4. /\ item.ring \in Seq(PacketOf(s))
      /\ x \in SeqNum
      /\ Follows(s, x, out[s]) /\ Holds(s, x, item.ring, early[s])
  <2> HIDE DEF item
  <2>1. Follows(s, x, out[s]) /\ Holds(s, x, item.ring, early[s])
    BY <1>1 DEF Sound
  <2> HIDE DEF x
  <2>2. x \in SeqNum
    BY <2>1, ReordAssumption DEF Follows, Border
  <2> QED
    BY <2>1, <2>2 DEF Holds
<1>5. /\ r \in Seq(PacketOf(s))
      /\ Range(r) = {item.ring[k] : k \in {j \in DOMAIN item.ring :
                       Synchro(SeqOf(item.ring[j]), x)}}
  BY <1>2, <1>4, SiftedIsRight DEF Pending
<1> DEFINE new == [item EXCEPT !.ring = r]
<1>6. /\ new.expectedseqnum = x /\ new.ring = r
      /\ new.ringreadytouse
  <2>1. IsItem(item)
    BY <1>1 DEF OInv, IInv, IsHash
  <2> HIDE DEF item
  <2> QED
    BY <1>1, <2>1 DEF IsItem
<1>7. hash' = [hash EXCEPT ![s] = new]
  BY <1>2
<1> HIDE DEF new
<1>8. Holds(s, x, r, early[s])
  <2> SUFFICES ASSUME NEW q \in early[s]
               PROVE  q \in Range(r)
    BY <1>4, <1>5 DEF Holds
  <2>1. q \in Range(item.ring) /\ Ahead(SeqOf(q), x) <= Window
    BY <1>4 DEF Holds
  <2>2. PICK k \in DOMAIN item.ring : q = item.ring[k]
    BY <2>1 DEF Range
  <2>3. q \in Packet
    BY <1>4, <2>2, LenProperties, ElementOfSeq DEF PacketOf
  <2>4. Synchro(SeqOf(q), x)
    BY <1>4, <2>1, <2>3, Numbers, WindowIsRight
  <2> QED
    BY <1>5, <2>2, <2>4
<1>9. IsAhead(new)
  <2> SUFFICES ASSUME NEW j \in DOMAIN r
               PROVE  Ahead(SeqOf(r[j]), x) \in 1 .. Window
    BY <1>6 DEF IsAhead
  <2>1. r[j] \in Range(r)
    BY DEF Range
  <2>2. PICK k \in DOMAIN item.ring :
          r[j] = item.ring[k] /\ Synchro(SeqOf(item.ring[k]), x)
    BY <1>5, <2>1
  <2>3. r[j] \in Packet
    BY <1>4, <2>2, LenProperties, ElementOfSeq DEF PacketOf
  <2>4. SeqOf(r[j]) # x
    BY <2>2 DEF EndPending, Ready, Pending
  <2>5. SeqOf(r[j]) \in SeqNum
    BY <2>3, Numbers
  <2>6. Ahead(SeqOf(r[j]), x) <= Window
    BY <1>4, <2>2, <2>5, WindowIsRight
  <2> HIDE DEF item, x
  <2> QED
    BY <1>4, <2>4, <2>5, <2>6, SeqAssumption DEF Ahead, SeqNum
<1>10. Sound(s, new, out[s], early[s])
  BY <1>4, <1>6, <1>8 DEF Sound
<1> HIDE DEF item
<1>11. DOMAIN hash' = DOMAIN hash /\ hash'[s] = new
  BY <1>1, <1>7
<1>12. \A t \in DOMAIN hash' : t # s => hash'[t] = hash[t] /\ plaststhi # t
  BY <1>7
<1> QED
  BY <1>1, <1>3, <1>9, <1>10, <1>11, <1>12, OneItem

LEMMA SoundPreserved == OInv /\ [Next]_vars => OInv'
<1> SUFFICES ASSUME OInv, [Next]_vars
             PROVE  OInv'
  OBVIOUS
<1>0. IInv'
  BY Preserved DEF OInv
<1>1. ASSUME NEW p \in Packet, Read(p)
      PROVE  OInv'
  BY <1>0, <1>1, OpenIsSound, GiveIsSound, StoreIsSound DEF Read
<1>2. CASE GivePending
  BY <1>0, <1>2, GivePendingIsSound
<1>3. CASE EndPending
  BY <1>0, <1>3, EndPendingIsSound
<1>4. CASE Reopen
  BY <1>0, <1>4 DEF Reopen, OInv
<1>5. CASE Tick
  BY <1>0, <1>5 DEF Tick, OInv
<1>6. CASE UNCHANGED vars
  BY <1>0, <1>6 DEF vars, OInv, Sound, Follows, Holds, IsAhead
<1> QED
  BY <1>1, <1>2, <1>3, <1>4, <1>5, <1>6 DEF Next

LEMMA AlwaysSound == Spec => []OInv
BY OInitially, SoundPreserved, PTL DEF Spec

----------------------------------------------------------------------------
(* The three properties *)

\* Whatever the order of the packets, their copies and the cleanings of the
\* hash, the data given for a session is without a hole and without a byte
\* given twice: the promise of the head of iosniff_tcpreord.c.
THEOREM GivesInOrder == Spec => []InOrder
<1>1. OInv => InOrder
  BY DEF OInv, Sound, Follows, InOrder
<1> QED
  BY <1>1, AlwaysSound, PTL

\* Out of the reads of its pending packets, a ring holds only packets that are
\* ahead and within the window (iosniff_tcpreord.c:345-374).
THEOREM RingStaysAhead == Spec => []RingIsAhead
<1>1. OInv => RingIsAhead
  BY DEF OInv, IsAhead, RingIsAhead
<1> QED
  BY <1>1, AlwaysSound, PTL

\* A packet received ahead is in the ring, so that it is given before any
\* read waits for its number again (iosniff_tcpreord.c:246-256, 345-374).
THEOREM ForgetsNothing == Spec => []NothingForgotten
<1>1. OInv => NothingForgotten
  <2> SUFFICES ASSUME OInv, NEW s \in DOMAIN hash, plaststhi # s,
                      NEW p \in early[s]
               PROVE  SeqOf(p) # hash[s].expectedseqnum
    BY DEF NothingForgotten
  <2> DEFINE h == hash[s]
  <2>1. Sound(s, h, out[s], early[s]) /\ IsAhead(h)
    BY DEF OInv
  <2>2. p \in Range(h.ring)
    BY <2>1 DEF Sound, Holds
  <2>3. Ahead(SeqOf(p), h.expectedseqnum) \in 1 .. Window
    BY <2>1, <2>2 DEF IsAhead, Range
  <2>4. h.expectedseqnum \in SeqNum
    BY <2>1, ReordAssumption DEF Sound, Follows, Border
  <2> QED
    BY <2>3, <2>4, SameNumber
<1> QED
  BY <1>1, AlwaysSound, PTL

----------------------------------------------------------------------------
(* The types: those of TypeOK, with a history that is one of sequences *)

ItemsTyped == \A s \in DOMAIN hash : hash[s] \in HashItem
Histories == out \in [Session -> Seq(Packet)] /\ early \in [Session -> SUBSET Packet]
Counters ==
  /\ countnewitems \in 0 .. NewItemsClean + 1 /\ countpkt \in 0 .. PktClean + 1
  /\ plaststhi \in Session \cup {Null} /\ now \in 0 .. MaxNow
TInv == ItemsTyped /\ Histories /\ Counters

LEMMA TypedInitially == Init => TInv
BY ReordAssumption, SMT DEF Init, TInv, ItemsTyped, Histories, Counters

LEMMA CountIsTyped ==
  ASSUME Counters, NEW n \in {0, 1}, Count(n)
  PROVE  countnewitems' \in 0 .. NewItemsClean + 1 /\ countpkt' \in 0 .. PktClean + 1
BY ReordAssumption, SMT DEF Counters, Count, MustClean

\* What a packet p does to the item h of its session, if it is there.
LEMMA ItemIsTyped ==
  ASSUME NEW h \in HashItem
  PROVE  /\ \A x \in SeqNum, at \in Nat :
              [h EXCEPT !.expectedseqnum = x, !.expireat = at] \in HashItem
         /\ \A r \in Seq(Packet) :
              /\ [h EXCEPT !.ringreadytouse = TRUE, !.ring = r] \in HashItem
              /\ [h EXCEPT !.ring = r] \in HashItem
         /\ \A x \in SeqNum, r \in Seq(Packet) :
              [h EXCEPT !.expectedseqnum = x, !.ring = r] \in HashItem
BY DEF HashItem

LEMMA HistoryIsTyped ==
  ASSUME Histories, NEW p \in Packet, NEW x
  PROVE  /\ p.ses \in Session
         /\ [out EXCEPT ![p.ses] = Delivered(p)] \in [Session -> Seq(Packet)]
         /\ [early EXCEPT ![p.ses] = StillAhead(@, x)] \in [Session -> SUBSET Packet]
         /\ [early EXCEPT ![p.ses] = StillAhead(@ \cup {p}, x)]
              \in [Session -> SUBSET Packet]
<1>1. p.ses \in Session
  BY DEF Packet
<1>2. out[p.ses] \in Seq(Packet) /\ early[p.ses] \in SUBSET Packet
  BY <1>1 DEF Histories
<1>3. Delivered(p) \in Seq(Packet)
  BY <1>2, AppendProperties DEF Delivered
<1> QED
  BY <1>1, <1>2, <1>3 DEF Histories, StillAhead

LEMMA KeptIsTyped ==
  ASSUME OInv, TInv PROVE  \A s \in DOMAIN Kept : Kept[s] \in HashItem
BY KeptIsSound DEF TInv, ItemsTyped

LEMMA ReadIsTyped ==
  ASSUME OInv, TInv, NEW p \in Packet, Read(p)
  PROVE  TInv'
<1> DEFINE s == p.ses
<1>1. /\ s \in Session /\ NextSeq(p) \in SeqNum /\ now + Timeout \in Nat
      /\ \A t \in DOMAIN Kept : Kept[t] \in HashItem
      /\ now' = now
  BY KeptIsTyped, Numbers, ReordAssumption DEF Packet, TInv, Counters, Read, Open, Give, Store
<1>2. CASE Open(p)
  <2> DEFINE new == [expireat |-> now + Timeout, expectedseqnum |-> NextSeq(p),
                     ringreadytouse |-> FALSE, ring |-> <<>>]
             o == IF Data(p) THEN <<p>> ELSE <<>>
  <2>1. new \in HashItem /\ o \in Seq(Packet)
    BY <1>1 DEF HashItem
  <2>2. hash' = [t \in DOMAIN Kept \cup {s} |-> IF t = s THEN new ELSE Kept[t]]
    BY <1>2 DEF Open
  <2>3. ItemsTyped'
    <3> HIDE DEF new, s
    <3> QED BY <1>1, <2>1, <2>2 DEF ItemsTyped
  <2>4. Histories'
    <3>1. out' = [out EXCEPT ![s] = o] /\ early' = [early EXCEPT ![s] = {}]
      BY <1>2 DEF Open
    <3> HIDE DEF o, s
    <3> QED BY <1>1, <2>1, <3>1 DEF Histories, TInv
  <2>5. Counters'
    <3>1. Count(1) /\ plaststhi' = plaststhi
      BY <1>2 DEF Open
    <3> QED BY <1>1, <3>1, CountIsTyped DEF TInv, Counters
  <2> QED BY <2>3, <2>4, <2>5 DEF TInv
<1>3. CASE Give(p)
  <2>1. /\ s \in DOMAIN Kept
        /\ hash' = [Kept EXCEPT ![s] = [Kept[s] EXCEPT !.expectedseqnum = NextSeq(p),
                                                       !.expireat = now + Timeout]]
        /\ out' = [out EXCEPT ![s] = Delivered(p)]
        /\ early' = [early EXCEPT ![s] = StillAhead(@, NextSeq(p))]
        /\ plaststhi' \in {s, plaststhi} /\ Count(0)
    BY <1>3 DEF Give, Known
  <2>2. ItemsTyped'
    <3> DEFINE new == [Kept[s] EXCEPT !.expectedseqnum = NextSeq(p), !.expireat = now + Timeout]
    <3>1. new \in HashItem
      BY <1>1, <2>1, ItemIsTyped
    <3> HIDE DEF new
    <3> QED BY <1>1, <2>1, <3>1 DEF ItemsTyped, new
  <2>3. Histories'
    BY <2>1, HistoryIsTyped DEF TInv, Histories
  <2>4. Counters'
    BY <1>1, <2>1, CountIsTyped DEF TInv, Counters
  <2> QED BY <2>2, <2>3, <2>4 DEF TInv
<1>4. CASE Store(p)
  <2>1. /\ s \in DOMAIN Kept
        /\ \/ hash' = [Kept EXCEPT ![s] = [Kept[s] EXCEPT !.ringreadytouse = TRUE,
                                                          !.ring = Append(Kept[s].ring, p)]]
           \/ hash' = Kept
        /\ early' = [early EXCEPT ![s] =
                       IF Data(p) THEN StillAhead(@ \cup {p}, Kept[s].expectedseqnum) ELSE @]
        /\ out' = out /\ plaststhi' = plaststhi /\ Count(0)
    BY <1>4 DEF Store, Known
  <2>2. ItemsTyped'
    <3> DEFINE new == [Kept[s] EXCEPT !.ringreadytouse = TRUE,
                                      !.ring = Append(Kept[s].ring, p)]
    <3>1. Append(Kept[s].ring, p) \in Seq(Packet)
      BY <1>1, <2>1, AppendProperties DEF HashItem
    <3>2. new \in HashItem
      BY <1>1, <2>1, <3>1, ItemIsTyped
    <3> HIDE DEF new
    <3> QED BY <1>1, <2>1, <3>2 DEF ItemsTyped, new
  <2>3. Histories'
    <3>1. CASE Data(p)
      BY <2>1, <3>1, HistoryIsTyped DEF TInv, Histories
    <3>2. CASE ~Data(p)
      BY <2>1, <3>2 DEF TInv, Histories
    <3> QED BY <3>1, <3>2
  <2>4. Counters'
    BY <1>1, <2>1, CountIsTyped DEF TInv, Counters
  <2> QED BY <2>2, <2>3, <2>4 DEF TInv
<1> QED BY <1>2, <1>3, <1>4 DEF Read

LEMMA SiftedIsTyped ==
  ASSUME NEW ring \in Seq(Packet), NEW r \in Sifted(ring)
  PROVE  r \in Seq(Packet)
BY SiftedIsRight

LEMMA PendingIsTyped ==
  ASSUME OInv, TInv, GivePending \/ EndPending
  PROVE  TInv'
<1> DEFINE s == plaststhi
           ring == Pending.ring
<1>1. s \in DOMAIN hash /\ s \in Session /\ hash[s] \in HashItem /\ ring \in Seq(Packet)
  BY DEF GivePending, EndPending, OInv, IInv, IsHash, LastIsLive, TInv, ItemsTyped, HashItem, Pending
<1>2. CASE GivePending
  <2>0. PICK i \in Ready :
          /\ \E before \in Sifted(SubSeq(ring, 1, i - 1)) :
               hash' = [hash EXCEPT
                 ![s].expectedseqnum = NextSeq(ring[i]),
                 ![s].ring = before \o SubSeq(ring, i + 1, Len(ring))]
          /\ out' = [out EXCEPT ![s] = Delivered(ring[i])]
          /\ early' = [early EXCEPT ![s] = StillAhead(@, NextSeq(ring[i]))]
    BY <1>2 DEF GivePending
  <2>1. PICK before \in Sifted(SubSeq(ring, 1, i - 1)) :
          hash' = [hash EXCEPT
            ![s].expectedseqnum = NextSeq(ring[i]),
            ![s].ring = before \o SubSeq(ring, i + 1, Len(ring))]
    BY <2>0
  <2> DEFINE p == ring[i]
             r == before \o SubSeq(ring, i + 1, Len(ring))
  <2>2. i \in 1 .. Len(ring) /\ p \in Packet /\ p.ses = s
    <3>1. hash[s].ring \in Seq(PacketOf(s)) /\ i \in DOMAIN ring
      BY <1>1, <2>0 DEF OInv, Sound, Holds, Ready
    <3>2. i \in 1 .. Len(ring)
      BY <1>1, <3>1, LenProperties
    <3>3. ring[i] \in PacketOf(s)
      BY <3>1, <3>2, ElementOfSeq DEF Pending
    <3> QED BY <3>2, <3>3 DEF PacketOf
  <2>3. NextSeq(p) \in SeqNum
    BY <2>2, Numbers
  <2>4. r \in Seq(Packet)
    <3> HIDE DEF ring
    <3>1. /\ SubSeq(ring, 1, i - 1) \in Seq(Packet)
          /\ SubSeq(ring, i + 1, Len(ring)) \in Seq(Packet)
      BY <1>1, <2>2, SubSeqProperties, ElementOfSeq, LenProperties
    <3>2. before \in Seq(Packet)
      BY <2>1, <3>1, SiftedIsTyped
    <3> QED BY <3>1, <3>2, ConcatProperties
  <2>5. ItemsTyped'
    <3> DEFINE new == [hash[s] EXCEPT !.expectedseqnum = NextSeq(p), !.ring = r]
    <3>1. new \in HashItem
      BY <1>1, <2>3, <2>4, ItemIsTyped
    <3>2. hash' = [hash EXCEPT ![s] = new]
      <4> HIDE DEF r, p, ring
      <4> QED BY <1>1, <2>1 DEF p, r
    <3> HIDE DEF new
    <3> QED BY <1>1, <3>1, <3>2 DEF ItemsTyped, TInv
  <2>6. Histories'
    BY <2>0, <2>2, HistoryIsTyped DEF TInv, Histories
  <2>7. Counters'
    BY <1>2 DEF GivePending, TInv, Counters
  <2> QED BY <2>5, <2>6, <2>7 DEF TInv
<1>3. CASE EndPending
  <2>1. PICK r \in Sifted(ring) : hash' = [hash EXCEPT ![s].ring = r]
    BY <1>3 DEF EndPending
  <2>2. r \in Seq(Packet)
    BY <1>1, <2>1, SiftedIsTyped
  <2>3. [hash[s] EXCEPT !.ring = r] \in HashItem
    BY <1>1, <2>2, ItemIsTyped
  <2>4. ItemsTyped'
    BY <1>1, <2>1, <2>3 DEF ItemsTyped, TInv
  <2>5. Histories' /\ Counters'
    BY <1>3 DEF EndPending, TInv, Histories, Counters
  <2> QED BY <2>4, <2>5 DEF TInv
<1> QED BY <1>2, <1>3

LEMMA TypedPreserved == OInv /\ TInv /\ [Next]_vars => TInv'
<1> SUFFICES ASSUME OInv, TInv, [Next]_vars PROVE TInv'
  OBVIOUS
<1>1. CASE \E p \in Packet : Read(p)
  BY <1>1, ReadIsTyped
<1>2. CASE GivePending \/ EndPending
  BY <1>2, PendingIsTyped
<1>3. CASE Reopen
  BY <1>3, ReordAssumption, SMT DEF Reopen, TInv, ItemsTyped, Histories, Counters
<1>4. CASE Tick
  BY <1>4, ReordAssumption DEF Tick, TInv, ItemsTyped, Histories, Counters
<1>5. CASE UNCHANGED vars
  BY <1>5 DEF vars, TInv, ItemsTyped, Histories, Counters
<1> QED BY <1>1, <1>2, <1>3, <1>4, <1>5 DEF Next

LEMMA TypedStrengthens == OInv /\ TInv => TypeOK
<1> SUFFICES ASSUME OInv, TInv PROVE TypeOK
  OBVIOUS
<1>1. \A s \in Session : \A i \in DOMAIN out[s] : out[s][i] \in Packet
  BY ElementOfSeq, LenProperties DEF TInv, Histories
<1> QED
  BY <1>1 DEF OInv, IInv, IsHash, TInv, ItemsTyped, Histories, Counters, TypeOK

-----------------------------------------------------------------------------
(* The io that reassembles fragments *)

-----------------------------------------------------------------------------
(* Blocks and bytes *)

\* The blocks that x bytes fill hold them, and the last one is not empty.
LEMMA BlocksHold ==
  ASSUME IpReasAssumption, NEW x \in Nat \ {0}
  PROVE  /\ Blocks(x) \in Nat \ {0}
         /\ x <= Unit * Blocks(x)
         /\ Unit * Blocks(x) < x + Unit
<1> DEFINE q == (x + Unit - 1) \div Unit
           r == (x + Unit - 1) % Unit
<1>1. Unit \in Nat /\ Unit > 0
  BY DEF IpReasAssumption
<1>2. q \in Int /\ r \in 0 .. Unit - 1 /\ x + Unit - 1 = Unit * q + r
  BY <1>1, SMT
<1>3. x <= Unit * q /\ Unit * q < x + Unit
  BY <1>1, <1>2, SMT
<1>4. q > 0
  BY <1>1, <1>2, <1>3, SMT
<1> QED
  BY <1>2, <1>3, <1>4, SMT DEF Blocks

\* Of two products by Unit the larger one has the larger factor.
LEMMA Factors ==
  ASSUME IpReasAssumption, NEW a \in Int, NEW b \in Int, Unit * a < Unit * b
  PROVE  a < b
<1>1. Unit \in Nat /\ Unit > 0
  BY DEF IpReasAssumption
<1>2. SUFFICES ASSUME b <= a PROVE Unit * b <= Unit * a
  BY <1>1, SMT
<1> QED
  BY <1>1, <1>2, SMT

\* What a fragment is, in numbers.
LEMMA FragmentFacts ==
  ASSUME IpReasAssumption, NEW f \in Fragment
  PROVE  /\ f.of \in Datagram /\ f.off \in Nat /\ f.len \in Nat \ {0}
         /\ SizeOf(f.of) \in Nat \ {0} /\ f.more \in BOOLEAN
         /\ Unit * f.off + f.len \in Nat \ {0}
         /\ f.more => Unit * f.off + f.len < SizeOf(f.of)
         /\ ~f.more => Unit * f.off + f.len = SizeOf(f.of)
<1>1. IsFragment(f) /\ f.of \in Datagram /\ f.off \in Nat /\ f.len \in Nat \ {0}
  BY DEF IpReasAssumption, IsFragment
<1>2. SizeOf(f.of) \in Nat \ {0} /\ Unit \in Nat
  BY <1>1 DEF IpReasAssumption
<1>3. Unit * f.off \in Nat
  BY <1>1, <1>2, SMT
<1>4. /\ f.more = (Unit * f.off + f.len < SizeOf(f.of))
      /\ Unit * f.off + f.len <= SizeOf(f.of)
  BY <1>1 DEF IsFragment
<1>5. f.more \in BOOLEAN
  BY <1>4
<1>6. Unit * f.off + f.len \in Nat \ {0}
  BY <1>1, <1>3, SMT
<1>7. f.more => Unit * f.off + f.len < SizeOf(f.of)
  BY <1>4, Zenon
<1>8. ~f.more => ~(Unit * f.off + f.len < SizeOf(f.of))
  BY <1>4, Zenon
<1>9. ~f.more => Unit * f.off + f.len = SizeOf(f.of)
  BY <1>2, <1>4, <1>6, <1>8, SMT
<1> QED
  BY <1>1, <1>2, <1>5, <1>6, <1>7, <1>9

\* A fragment covers blocks of its datagram.
LEMMA CoversOwn ==
  ASSUME IpReasAssumption, NEW f \in Fragment
  PROVE  Covered(f) \subseteq BlocksOf(f.of) /\ Covered(f) \subseteq AllBlocks
<1> DEFINE m == Blocks(f.len)  n == Blocks(SizeOf(f.of))
<1>1. /\ f.of \in Datagram /\ f.off \in Nat
      /\ Unit * f.off + f.len <= SizeOf(f.of)
      /\ f.len \in Nat \ {0} /\ SizeOf(f.of) \in Nat \ {0} /\ Unit \in Nat \ {0}
  BY FragmentFacts, SMT DEF IpReasAssumption
<1>2. m \in Nat /\ n \in Nat /\ Unit * m < f.len + Unit /\ SizeOf(f.of) <= Unit * n
  BY <1>1, BlocksHold
<1>3. Unit * (f.off + m) = Unit * f.off + Unit * m /\ Unit * (n + 1) = Unit * n + Unit
  BY <1>1, <1>2, SMT
<1>4. Unit * f.off \in Nat /\ Unit * m \in Nat /\ Unit * n \in Nat
  BY <1>1, <1>2, SMT
<1> HIDE DEF m, n
<1>5. Unit * (f.off + m) < Unit * (n + 1)
  BY <1>1, <1>2, <1>3, <1>4, SMT
<1>6. f.off + m < n + 1
  BY <1>1, <1>2, <1>5, Factors, SMT
<1> USE DEF m, n
<1>7. Covered(f) \subseteq BlocksOf(f.of)
  BY <1>1, <1>2, <1>6, SMT DEF Covered, BlocksOf
<1> QED
  BY <1>1, <1>7 DEF AllBlocks

\* Whoever covers the last block of a datagram is its last fragment.
LEMMA LastCovers ==
  ASSUME IpReasAssumption, NEW f \in Fragment,
         Blocks(SizeOf(f.of)) - 1 \in Covered(f)
  PROVE  ~f.more
<1> DEFINE m == Blocks(f.len)  n == Blocks(SizeOf(f.of))
<1>1. /\ f.of \in Datagram /\ f.off \in Nat
      /\ f.len \in Nat \ {0} /\ SizeOf(f.of) \in Nat \ {0} /\ Unit \in Nat \ {0}
  BY FragmentFacts, SMT DEF IpReasAssumption
<1>2. m \in Nat /\ n \in Nat \ {0} /\ Unit * m < f.len + Unit /\ SizeOf(f.of) <= Unit * n
  BY <1>1, BlocksHold
<1>3. n <= f.off + m
  BY <1>1, <1>2, SMT DEF Covered
<1>4. SUFFICES ASSUME f.more PROVE FALSE
  OBVIOUS
<1>5. Unit * f.off + f.len < SizeOf(f.of) /\ f.len % Unit = 0
  BY <1>4, FragmentFacts DEF IpReasAssumption, IsFragment
<1>6. PICK k \in Nat : f.len = Unit * k
  <2>1. f.len = Unit * (f.len \div Unit) + (f.len % Unit) /\ f.len \div Unit \in Nat
    BY <1>1, SMT
  <2>2. f.len = Unit * (f.len \div Unit)
    BY <1>1, <1>5, <2>1, SMT
  <2> QED
    BY <2>1, <2>2, Zenon
<1>7. Unit * m < Unit * (k + 1)
  <2>1. Unit * (k + 1) = Unit * k + Unit
    BY <1>1, <1>6, SMT
  <2>2. Unit * m < Unit * k + Unit
    BY <1>2, <1>6
  <2> QED
    BY <2>1, <2>2
<1>8. m <= k
  <2>1. m \in Int /\ k + 1 \in Int
    BY <1>2, <1>6, SMT
  <2>2. m < k + 1
    BY <1>7, <2>1, Factors
  <2> QED
    BY <1>2, <1>6, <2>2, SMT
<1>9. Unit * n < Unit * n + 1 /\ Unit * (f.off + k) = Unit * f.off + Unit * k
  BY <1>1, <1>2, <1>6, SMT
<1>10. Unit * (f.off + k) < Unit * n
  <2>1. Unit * n \in Nat /\ Unit * f.off \in Nat
    BY <1>1, <1>2, SMT
  <2> HIDE DEF m, n
  <2> QED
    BY <1>1, <1>2, <1>5, <1>6, <1>9, <2>1, SMT
<1>11. f.off + k < n
  BY <1>1, <1>2, <1>6, <1>10, Factors, SMT
<1> QED
  BY <1>1, <1>2, <1>3, <1>6, <1>8, <1>11, SMT

-----------------------------------------------------------------------------
(* The leading run of blocks that are set *)

IsRun(data, n) ==
  /\ n \in Nat
  /\ \A b \in 0 .. n - 1 : b \in AllBlocks /\ data[b] # None
  /\ n \in AllBlocks => data[n] = None

\* The first number of a set of naturals.
LEMMA First ==
  ASSUME NEW T, T \subseteq Nat, T # {}
  PROVE  \E n \in T : \A k \in T : n <= k
<1>1. IsWellFoundedOn(OpToRel(<, Nat), Nat)
  BY NatLessThanWellFounded
<1>2. PICK n \in T : \A k \in T : ~(<<k, n>> \in OpToRel(<, Nat))
  BY <1>1, WFMin
<1>3. n \in T /\ \A k \in T : ~(k < n)
  BY <1>2 DEF OpToRel
<1> HIDE <1>1, <1>2
<1> QED
  BY <1>3, SMT

\* Some natural number is not a block, as there are finitely many of them.
LEMMA NotABlock == ASSUME IpReasAssumption PROVE \E n \in Nat : n \notin AllBlocks
<1> SUFFICES ASSUME Nat \subseteq AllBlocks PROVE FALSE
  OBVIOUS
<1> DEFINE c == Cardinality(AllBlocks)
<1>1. IsFiniteSet(AllBlocks) /\ c \in Nat
  BY FS_CardinalityType DEF IpReasAssumption
<1>2. 0 .. c \in SUBSET AllBlocks
  BY <1>1, SMT
<1>3. Cardinality(0 .. c) = c + 1
  BY <1>1, FS_Interval, SMT
<1>4. Cardinality(0 .. c) <= c
  BY <1>1, <1>2, FS_Subset
<1> QED
  BY <1>1, <1>3, <1>4, SMT

LEMMA RunExists ==
  ASSUME IpReasAssumption, NEW data, DOMAIN data = AllBlocks
  PROVE  IsRun(data, LeadingRun(data))
<1> DEFINE T == {n \in Nat : n \in AllBlocks => data[n] = None}
           c == Cardinality(AllBlocks)
<1>1. T \subseteq Nat /\ T # {}
  BY NotABlock
<1>2. PICK n \in T : \A k \in T : n <= k
  BY <1>1, First
<1>3. \A b \in 0 .. n - 1 : b \in AllBlocks /\ data[b] # None
  BY <1>2, SMT
<1>4. IsFiniteSet(AllBlocks) /\ c \in Nat
  BY FS_CardinalityType DEF IpReasAssumption
<1>5. 0 .. n - 1 \in SUBSET AllBlocks /\ n \in Nat
  BY <1>2, <1>3
<1>6. Cardinality(0 .. n - 1) = n
  BY <1>5, FS_Interval, SMT
<1>7. n \in 0 .. c
  BY <1>4, <1>5, <1>6, FS_Subset, SMT
<1> DEFINE P(m) == /\ \A b \in 0 .. m - 1 : b \in DOMAIN data /\ data[b] # None
                   /\ m \in DOMAIN data => data[m] = None
<1>8. P(n)
  BY <1>2, <1>3
<1>9. LeadingRun(data) = CHOOSE m \in 0 .. c : P(m)
  BY DEF LeadingRun
<1> HIDE DEF P
<1>10. LeadingRun(data) \in 0 .. c /\ P(LeadingRun(data))
  BY <1>7, <1>8, <1>9
<1> QED
  BY <1>4, <1>10, SMT DEF P, IsRun

-----------------------------------------------------------------------------
(* What an item knows of the fragments that it received *)

Seen(S, b) == \E f \in S : b \in Covered(f)

\* The fields of an item.
IsIpItem(item) == DOMAIN item = {"expireat", "sent", "header", "size", "data"}

\* An item that received only fragments of d, and did not give it.
Pure(item, S, d) ==
  /\ (\E f \in S : ~f.more) => item.size = SizeOf(d)
  /\ (\A f \in S : f.more) => item.size = None
  /\ \A b \in AllBlocks : item.data[b] = IF Seen(S, b) THEN d ELSE None

\* An item that did not give its packet, and the fragments S that it received.
Fills(item, S, k) ==
  /\ ItemType(item) /\ IsIpItem(item)
  /\ item.size # 0
  /\ S \subseteq Fragment
  /\ \A f \in S : KeyOf(f.of) = k
  /\ item.header # None => \E f \in S : f.of = item.header
  /\ 0 \in AllBlocks /\ item.data[0] # None => item.header # None
  /\ \A d \in Datagram : (\A f \in S : f.of = d) => Pure(item, S, d)

LEMMA NewFills ==
  ASSUME IpReasAssumption, IpTypeOK, NEW k
  PROVE  Fills(NewItem, {}, k) /\ ~NewItem.sent
<1>1. ipnow + IpTimeout \in Nat
  BY SMT DEF IpTypeOK, IpReasAssumption
<1>2. ItemType(NewItem)
  BY <1>1 DEF NewItem, ItemType
<1> QED
  BY <1>2, SMT DEF NewItem, Fills, IsIpItem, Pure, Seen, IpReasAssumption

\* The fields of an item after one more fragment.
LEMMA UpdatedFields ==
  ASSUME NEW item, ItemType(item), IsIpItem(item), NEW f
  PROVE  LET next == Updated(item, f)
         IN  /\ next.expireat = item.expireat /\ next.sent = item.sent
             /\ next.header = IF f.off = 0 /\ item.header = None THEN f.of ELSE item.header
             /\ next.size = IF ~f.more /\ item.size = None THEN Unit * f.off + f.len
                            ELSE item.size
             /\ next.data = [b \in AllBlocks |-> IF b \in Covered(f) THEN f.of
                                                 ELSE item.data[b]]
             /\ IsIpItem(next)
BY DEF Updated, IsIpItem

\* One more fragment of the key.
LEMMA UpdatedFills ==
  ASSUME IpReasAssumption, NEW k, NEW item, NEW S, Fills(item, S, k),
         NEW f \in Fragment, KeyOf(f.of) = k
  PROVE  Fills(Updated(item, f), S \union {f}, k)
<1> DEFINE next == Updated(item, f)  F == S \union {f}
<1> USE IpReasAssumption
<1>t. ItemType(item) /\ IsIpItem(item)
  BY DEF Fills
<1>u. /\ IsIpItem(next)
      /\ next.expireat = item.expireat /\ next.sent = item.sent
      /\ next.header = IF f.off = 0 /\ item.header = None THEN f.of ELSE item.header
      /\ next.size = IF ~f.more /\ item.size = None THEN Unit * f.off + f.len
                     ELSE item.size
      /\ next.data = [b \in AllBlocks |-> IF b \in Covered(f) THEN f.of
                                          ELSE item.data[b]]
  BY <1>t, UpdatedFields
<1>f. /\ f.of \in Datagram /\ f.off \in Nat /\ f.len \in Nat \ {0}
      /\ Unit * f.off + f.len \in Nat \ {0}
      /\ ~f.more => Unit * f.off + f.len = SizeOf(f.of)
      /\ SizeOf(f.of) \in Nat \ {0} /\ f.more \in BOOLEAN
  BY FragmentFacts
<1> HIDE DEF next
<1>1. ItemType(next)
  <2>1. next.data \in [AllBlocks -> Datagram \union {None}]
    BY <1>t, <1>u, <1>f DEF ItemType
  <2>2. next.size \in Nat \union {None} /\ next.header \in Datagram \union {None}
    BY <1>t, <1>u, <1>f DEF ItemType
  <2> QED
    BY <1>t, <1>u, <2>1, <2>2 DEF ItemType
<1>2. F \subseteq Fragment /\ \A g \in F : KeyOf(g.of) = k
  BY DEF Fills
<1>3. next.header # None => \E g \in F : g.of = next.header
  BY <1>u DEF Fills
<1>4. 0 \in AllBlocks /\ next.data[0] # None => next.header # None
  <2> SUFFICES ASSUME 0 \in AllBlocks, next.data[0] # None PROVE next.header # None
    OBVIOUS
  <2>1. CASE 0 \in Covered(f)
    <3>1. Blocks(f.len) \in Nat
      BY <1>f, BlocksHold
    <3>2. f.off = 0
      BY <1>f, <2>1, <3>1, SMT DEF Covered
    <3> QED
      BY <1>u, <1>f, <3>2 DEF IpReasAssumption
  <2>2. CASE 0 \notin Covered(f)
    BY <1>u, <1>f, <2>2 DEF Fills, IpReasAssumption
  <2> QED
    BY <2>1, <2>2
<1>5. ASSUME NEW d \in Datagram, \A g \in F : g.of = d
      PROVE  Pure(next, F, d)
  <2>1. f.of = d /\ \A g \in S : g.of = d
    BY <1>5
  <2>2. Pure(item, S, d)
    BY <2>1 DEF Fills
  <2>n. SizeOf(d) # None /\ SizeOf(d) \in Nat
    BY <1>f, <2>1 DEF IpReasAssumption
  <2>3. (\E g \in F : ~g.more) => next.size = SizeOf(d)
    <3>1. CASE \E g \in S : ~g.more
      BY <1>u, <2>2, <2>n, <3>1 DEF Pure
    <3>2. CASE \A g \in S : g.more
      BY <1>u, <1>f, <2>1, <2>2, <3>2 DEF Pure
    <3> QED
      BY <3>1, <3>2
  <2>4. (\A g \in F : g.more) => next.size = None
    BY <1>u, <2>2 DEF Pure
  <2>5. ASSUME NEW b \in AllBlocks
        PROVE  next.data[b] = IF Seen(F, b) THEN d ELSE None
    <3>1. item.data[b] = IF Seen(S, b) THEN d ELSE None
      BY <2>2 DEF Pure
    <3>2. next.data[b] = IF b \in Covered(f) THEN f.of ELSE item.data[b]
      BY <1>u
    <3>3. Seen(F, b) <=> Seen(S, b) \/ b \in Covered(f)
      BY DEF Seen
    <3> QED
      BY <2>1, <3>1, <3>2, <3>3
  <2> QED
    BY <2>3, <2>4, <2>5 DEF Pure
<1>6. next.size # 0
  BY <1>u, <1>f DEF Fills
<1>7. Fills(next, F, k)
  BY <1>u, <1>1, <1>2, <1>3, <1>4, <1>5, <1>6 DEF Fills
<1> QED
  BY <1>7 DEF next

\* What a complete item has: all the blocks of its size, and its header.
LEMMA CompleteHas ==
  ASSUME IpReasAssumption, NEW k, NEW item, NEW S, Fills(item, S, k), Complete(item)
  PROVE  /\ item.size \in Nat
         /\ \A b \in 0 .. Blocks(item.size) - 1 : b \in AllBlocks /\ item.data[b] # None
<1>1. DOMAIN item.data = AllBlocks /\ item.size \in Nat
  BY DEF Fills, ItemType, Complete
<1>2. IsRun(item.data, Blocks(item.size))
  BY <1>1, RunExists DEF Complete
<1> QED
  BY <1>1, <1>2 DEF IsRun

\* A datagram whose fragments were all received is complete.
LEMMA WholeIsComplete ==
  ASSUME IpReasAssumption, NEW k, NEW item, NEW S, Fills(item, S, k),
         NEW d \in Datagram, \A f \in S : f.of = d, Whole(d, S)
  PROVE  Complete(item)
<1> DEFINE n == Blocks(SizeOf(d))  r == LeadingRun(item.data)
<1>1. S \subseteq Fragment /\ Pure(item, S, d) /\ DOMAIN item.data = AllBlocks
  BY DEF Fills, ItemType
<1>2. SizeOf(d) \in Nat \ {0} /\ n \in Nat \ {0} /\ SizeOf(d) # None
  BY BlocksHold DEF IpReasAssumption
<1>3. n - 1 \in BlocksOf(d)
  BY <1>2, SMT DEF BlocksOf
<1>4. PICK f \in S : n - 1 \in Covered(f)
  BY <1>3 DEF Whole
<1>5. ~f.more
  BY <1>1, <1>4, LastCovers
<1>6. item.size = SizeOf(d)
  BY <1>1, <1>4, <1>5 DEF Pure
<1>7. IsRun(item.data, r)
  BY <1>1, RunExists
<1>8. \A b \in AllBlocks : item.data[b] # None <=> b \in BlocksOf(d)
  <2>1. \A b \in AllBlocks : Seen(S, b) <=> b \in BlocksOf(d)
    BY DEF Whole, Seen
  <2>2. d # None
    BY DEF IpReasAssumption
  <2> QED
    BY <1>1, <2>1, <2>2 DEF Pure
<1>9. BlocksOf(d) \subseteq AllBlocks
  BY DEF AllBlocks
<1>10. r \in Nat /\ r \notin BlocksOf(d) /\ \A b \in 0 .. r - 1 : b \in BlocksOf(d)
  BY <1>7, <1>8, <1>9 DEF IsRun
<1> HIDE DEF n, r
<1>11. BlocksOf(d) = 0 .. n - 1
  BY DEF BlocksOf, n
<1>12. r = n
  <2>1. r >= n
    BY <1>2, <1>10, <1>11, SMT
  <2>2. r > n => n \in BlocksOf(d)
    BY <1>2, <1>10, SMT
  <2> QED
    BY <1>2, <1>10, <1>11, <2>1, <2>2, SMT
<1> QED
  BY <1>2, <1>6, <1>12 DEF Complete, n, r

\* The packet of a complete item.
LEMMA PacketIs ==
  ASSUME IpReasAssumption, NEW k, NEW item, NEW S, Fills(item, S, k), Complete(item)
  PROVE  LET p == Reassembled(item)
         IN  /\ p.header # None /\ KeyOf(p.header) = k
             /\ \A b \in DOMAIN p.data : p.data[b] # None
             /\ \A d \in Datagram : {f.of : f \in S} = {d} =>
                  p = [header |-> d, size |-> SizeOf(d),
                       data |-> [b \in BlocksOf(d) |-> d]]
<1> DEFINE p == Reassembled(item)  n == Blocks(item.size)
<1>1. /\ item.size \in Nat \ {0}
      /\ \A b \in 0 .. n - 1 : b \in AllBlocks /\ item.data[b] # None
  BY CompleteHas DEF Fills
<1>2. n \in Nat \ {0}
  BY <1>1, BlocksHold
<1>3. 0 \in 0 .. n - 1
  BY <1>2, SMT
<1>4. item.header # None
  BY <1>1, <1>3 DEF Fills
<1>5. PICK g \in S : g.of = item.header
  BY <1>4 DEF Fills
<1>6. KeyOf(item.header) = k
  BY <1>5 DEF Fills
<1>7. ASSUME NEW d \in Datagram, {f.of : f \in S} = {d}
      PROVE  p = [header |-> d, size |-> SizeOf(d), data |-> [b \in BlocksOf(d) |-> d]]
  <2>1. (\A f \in S : f.of = d) /\ item.header = d
    BY <1>5, <1>7
  <2>2. Pure(item, S, d)
    BY <2>1 DEF Fills
  <2>3. item.size = SizeOf(d)
    <3>1. item.size # None
      BY DEF Complete
    <3>2. \A f \in S : f.more \in BOOLEAN
      BY FragmentFacts DEF Fills
    <3> QED
      BY <2>2, <3>1, <3>2 DEF Pure
  <2>4. n - 1 \in Int /\ BlocksOf(d) = 0 .. n - 1
    BY <1>2, <2>3 DEF BlocksOf
  <2>5. \A b \in 0 .. n - 1 : item.data[b] = d
    BY <1>1, <2>2 DEF Pure
  <2> QED
    BY <2>1, <2>3, <2>4, <2>5 DEF Reassembled
<1> QED
  BY <1>1, <1>4, <1>6, <1>7 DEF Reassembled

-----------------------------------------------------------------------------
(* The inductive invariant: what every item received is of its key, and one
   that did not give its packet has what it received and is not complete. *)

Items ==
  \A k \in DOMAIN iphash :
    /\ seen[k] \subseteq Fragment /\ seen[k] # {}
    /\ \A f \in seen[k] : KeyOf(f.of) = k
    /\ ~iphash[k].sent => Fills(iphash[k], seen[k], k) /\ ~Complete(iphash[k])

IpInv == IpTypeOK /\ Items /\ GivenIsTheDatagram

LEMMA IpInitially == IpReasAssumption /\ IpInit => IpInv
<1> SUFFICES ASSUME IpReasAssumption, IpInit PROVE IpInv
  OBVIOUS
<1>1. DOMAIN iphash = {}
  BY DEF IpInit
<1>2. IpTypeOK
  BY <1>1, SMT DEF IpInit, IpTypeOK, IpReasAssumption
<1> QED
  BY <1>1, <1>2 DEF IpInit, IpInv, Items, GivenIsTheDatagram

LEMMA KeptIs == /\ DOMAIN IpKept \subseteq DOMAIN iphash
                /\ \A k \in DOMAIN IpKept : IpKept[k] = iphash[k]
BY DEF IpKept, Restrict

LEMMA Counts ==
  ASSUME IpReasAssumption, IpTypeOK, NEW n \in {0, 1}, IpCount(n)
  PROVE  ipcountnewitems' \in 0 .. IpNewItemsClean + 1 /\ ipcountpkt' \in 0 .. IpPktClean + 1
BY SMT DEF IpTypeOK, IpCount, IpMustClean, IpReasAssumption

\* What a fragment does to the item of its key, which received S before.
LEMMA ReceivedIs ==
  ASSUME IpReasAssumption, NEW f \in Fragment, NEW k, k = KeyOf(f.of), NEW item, NEW S,
         ItemType(item), ~item.sent => Fills(item, S, k)
  PROVE  LET next == Received(item, f)  F == S \union {f}
         IN  /\ ItemType(next)
             /\ ~next.sent => Fills(next, F, k) /\ ~Complete(next)
             /\ next.sent /\ ~item.sent => Fills(next, F, k) /\ Complete(next)
<1> DEFINE next == Received(item, f)  up == Updated(item, f)  F == S \union {f}
<1>1. CASE item.sent
  BY <1>1 DEF Received
<1>2. CASE ~item.sent
  <2>1. Fills(up, F, k)
    BY <1>2, UpdatedFills
  <2>2. next = [up EXCEPT !.sent = Complete(up)]
    BY <1>2 DEF Received
  <2>3. Complete(up) \in BOOLEAN
    BY DEF Complete
  <2>4. IsIpItem(up)
    BY <2>1 DEF Fills
  <2> HIDE DEF next, up
  <2>5. /\ IsIpItem(next) /\ next.sent = Complete(up)
        /\ next.expireat = up.expireat /\ next.header = up.header
        /\ next.size = up.size /\ next.data = up.data
    BY <2>2, <2>4 DEF IsIpItem
  <2>6. Complete(next) <=> Complete(up)
    BY <2>5 DEF Complete
  <2>7. ItemType(next)
    BY <2>1, <2>3, <2>5 DEF ItemType, Fills
  <2>8. Fills(next, F, k)
    BY <2>1, <2>5, <2>7 DEF Fills, Pure
  <2> QED
    BY <1>2, <2>5, <2>6, <2>7, <2>8 DEF next
<1> QED
  BY <1>1, <1>2

\* Reading a fragment into an item that received S before, none if it is new.
LEMMA ReassembleKeeps ==
  ASSUME IpReasAssumption, IpInv, NEW f \in Fragment, NEW item, NEW S,
         ItemType(item), ~item.sent => Fills(item, S, KeyOf(f.of)),
         S \subseteq Fragment, \A g \in S : KeyOf(g.of) = KeyOf(f.of),
         Reassemble(f, item), seen' = [seen EXCEPT ![KeyOf(f.of)] = S \union {f}]
  PROVE  /\ DOMAIN iphash' \subseteq Keys /\ \A k \in DOMAIN iphash' : ItemType(iphash'[k])
         /\ seen' \in [Keys -> SUBSET Fragment]
         /\ Items' /\ GivenIsTheDatagram'
<1> DEFINE k == KeyOf(f.of)  next == Received(item, f)  F == S \union {f}
<1>1. k \in Keys
  BY FragmentFacts DEF Keys
<1>2. /\ ItemType(next)
      /\ ~next.sent => Fills(next, F, k) /\ ~Complete(next)
      /\ next.sent /\ ~item.sent => Fills(next, F, k) /\ Complete(next)
  BY ReceivedIs
<1>3. iphash' = [key \in DOMAIN IpKept \union {k} |-> IF key = k THEN next ELSE IpKept[key]]
  BY DEF Reassemble
<1>4. given' = IF next.sent /\ ~item.sent THEN Reassembled(next) ELSE None
  BY DEF Reassemble
<1> HIDE DEF next, k
<1>5. \A key \in DOMAIN iphash' \ {k} :
        key \in DOMAIN iphash /\ iphash'[key] = iphash[key] /\ seen'[key] = seen[key]
  <2>1. seen \in [Keys -> SUBSET Fragment]
    BY DEF IpInv, IpTypeOK
  <2> QED
    BY <1>3, <2>1, KeptIs DEF IpInv, IpTypeOK, k
<1>6. k \in DOMAIN iphash' /\ iphash'[k] = next /\ seen'[k] = F
  BY <1>1, <1>3 DEF IpInv, IpTypeOK, k
<1>7. DOMAIN iphash' \subseteq Keys /\ \A key \in DOMAIN iphash' : ItemType(iphash'[key])
  BY <1>1, <1>2, <1>3, <1>5, <1>6, KeptIs DEF IpInv, IpTypeOK
<1>8. seen' \in [Keys -> SUBSET Fragment]
  BY DEF IpInv, IpTypeOK
<1>9. Items'
  BY <1>2, <1>5, <1>6 DEF IpInv, Items, Fills, Pure, Complete, Seen, ItemType, k
<1>10. GivenIsTheDatagram'
  <2>1. CASE next.sent /\ ~item.sent
    <3>1. Fills(next, F, k) /\ Complete(next) /\ given' = Reassembled(next)
      BY <1>2, <1>4, <2>1
    <3>2. /\ given'.header # None /\ KeyOf(given'.header) = k
          /\ \A b \in DOMAIN given'.data : given'.data[b] # None
          /\ \A d \in Datagram : {g.of : g \in F} = {d} =>
               given' = [header |-> d, size |-> SizeOf(d), data |-> [b \in BlocksOf(d) |-> d]]
      BY <3>1, PacketIs
    <3> QED
      BY <1>6, <3>2 DEF GivenIsTheDatagram
  <2>2. CASE ~(next.sent /\ ~item.sent)
    BY <1>4, <2>2 DEF GivenIsTheDatagram
  <2> QED
    BY <2>1, <2>2
<1> QED
  BY <1>7, <1>8, <1>9, <1>10

LEMMA ReadsKeeps ==
  ASSUME IpReasAssumption, IpInv, NEW f \in Fragment, Reads(f)
  PROVE  IpInv'
<1> DEFINE k == KeyOf(f.of)
<1>1. CASE /\ k \in DOMAIN IpKept /\ Reassemble(f, IpKept[k])
           /\ seen' = [seen EXCEPT ![k] = @ \union {f}] /\ IpCount(0) /\ UNCHANGED ipnow
  <2>1. k \in DOMAIN iphash /\ IpKept[k] = iphash[k]
    BY <1>1, KeptIs
  <2>2. /\ ItemType(iphash[k]) /\ seen[k] \subseteq Fragment
        /\ \A g \in seen[k] : KeyOf(g.of) = k
        /\ ~iphash[k].sent => Fills(iphash[k], seen[k], k)
    BY <2>1 DEF IpInv, IpTypeOK, Items
  <2>3. Reassemble(f, iphash[k]) /\ seen' = [seen EXCEPT ![k] = seen[k] \union {f}]
    BY <1>1, <2>1
  <2>4. /\ DOMAIN iphash' \subseteq Keys /\ \A key \in DOMAIN iphash' : ItemType(iphash'[key])
        /\ seen' \in [Keys -> SUBSET Fragment]
        /\ Items' /\ GivenIsTheDatagram'
    BY <2>2, <2>3, ReassembleKeeps
  <2>5. ipcountnewitems' \in 0 .. IpNewItemsClean + 1 /\ ipcountpkt' \in 0 .. IpPktClean + 1
    BY <1>1, Counts DEF IpInv
  <2> QED
    BY <1>1, <2>4, <2>5 DEF IpInv, IpTypeOK
<1>2. CASE /\ k \notin DOMAIN IpKept /\ Reassemble(f, NewItem)
           /\ seen' = [seen EXCEPT ![k] = {f}] /\ IpCount(1) /\ UNCHANGED ipnow
  <2>1. Fills(NewItem, {}, k) /\ ItemType(NewItem)
    BY NewFills DEF IpInv, Fills
  <2>2. seen' = [seen EXCEPT ![k] = {} \union {f}]
    BY <1>2
  <2>3. /\ DOMAIN iphash' \subseteq Keys /\ \A key \in DOMAIN iphash' : ItemType(iphash'[key])
        /\ seen' \in [Keys -> SUBSET Fragment]
        /\ Items' /\ GivenIsTheDatagram'
    <3> DEFINE S == {}  item == NewItem
    <3>1. S \subseteq Fragment /\ \A g \in S : KeyOf(g.of) = KeyOf(f.of)
      OBVIOUS
    <3>2. ItemType(item) /\ (~item.sent => Fills(item, S, KeyOf(f.of)))
      BY <2>1
    <3>3. Reassemble(f, item) /\ seen' = [seen EXCEPT ![KeyOf(f.of)] = S \union {f}]
      BY <1>2, <2>2
    <3> HIDE DEF k, S, item
    <3> QED
      BY <3>1, <3>2, <3>3, ReassembleKeeps
  <2>4. ipcountnewitems' \in 0 .. IpNewItemsClean + 1 /\ ipcountpkt' \in 0 .. IpPktClean + 1
    BY <1>2, Counts DEF IpInv
  <2> QED
    BY <1>2, <2>3, <2>4 DEF IpInv, IpTypeOK
<1> QED
  BY <1>1, <1>2 DEF Reads

LEMMA IpPreserved == IpReasAssumption /\ IpInv /\ [IpNext]_ipvars => IpInv'
<1> SUFFICES ASSUME IpReasAssumption, IpInv, [IpNext]_ipvars
             PROVE  IpInv'
  OBVIOUS
<1>1. CASE \E f \in Fragment : Reads(f)
  BY <1>1, ReadsKeeps
<1>2. CASE ReadWhole
  <2>1. /\ DOMAIN iphash' \subseteq DOMAIN iphash /\ seen' = seen
        /\ \A k \in DOMAIN iphash' : iphash'[k] = iphash[k]
    BY <1>2, KeptIs DEF ReadWhole
  <2>2. ipcountnewitems' \in 0 .. IpNewItemsClean + 1 /\ ipcountpkt' \in 0 .. IpPktClean + 1
    BY <1>2, Counts DEF IpInv, ReadWhole
  <2>3. IpTypeOK'
    BY <1>2, <2>1, <2>2 DEF IpInv, IpTypeOK, ItemType, ReadWhole
  <2>4. Items'
    BY <2>1 DEF IpInv, Items, Fills, Pure, Complete, Seen, ItemType, IsIpItem
  <2> QED
    BY <1>2, <2>3, <2>4 DEF IpInv, GivenIsTheDatagram, ReadWhole
<1>3. CASE IpTick
  <2>1. ipnow' \in 0 .. MaxIpNow
    BY <1>3, SMT DEF IpTick, IpInv, IpTypeOK, IpReasAssumption
  <2> QED
    BY <1>3, <2>1 DEF IpTick, IpInv, IpTypeOK, Items, GivenIsTheDatagram
<1>4. CASE UNCHANGED ipvars
  BY <1>4 DEF ipvars, IpInv, IpTypeOK, Items, GivenIsTheDatagram
<1> QED
  BY <1>1, <1>2, <1>3, <1>4 DEF IpNext

-----------------------------------------------------------------------------
\* The items, the counters and the clock keep their types, for any datagrams,
\* keys, cuts and thresholds of cleaning.
THEOREM ReassemblyTypeCorrect ==
  ASSUME IpReasAssumption PROVE IpSpec => []IpTypeOK
<1>1. IpInv => IpTypeOK
  BY DEF IpInv
<1>2. (IpInit => IpInv) /\ (IpInv /\ [IpNext]_ipvars => IpInv')
  BY IpInitially, IpPreserved
<1> QED
  BY <1>1, <1>2, PTL DEF IpSpec

\* An item that received a whole datagram and nothing else is complete, so
\* that it gave it.
LEMMA ItemsGive == IpReasAssumption /\ IpInv => GivesWhenWhole
<1> SUFFICES ASSUME IpReasAssumption, IpInv PROVE GivesWhenWhole
  OBVIOUS
<1>1. ASSUME NEW k \in DOMAIN iphash, NEW d \in Datagram,
             {f.of : f \in seen[k]} = {d}, Whole(d, seen[k]), ~iphash[k].sent
      PROVE  FALSE
  <2>1. Fills(iphash[k], seen[k], k) /\ ~Complete(iphash[k])
    BY <1>1 DEF IpInv, Items
  <2>2. \A f \in seen[k] : f.of = d
    BY <1>1
  <2> QED
    BY <1>1, <2>1, <2>2, WholeIsComplete
<1> QED
  BY <1>1 DEF GivesWhenWhole

\* The fragments of a datagram, in any order, any number of times and cut in
\* any ways, give it as it was sent, and as soon as they are all there
\* (iosniff_ipreas.c:133-194).
THEOREM Reassembles ==
  ASSUME IpReasAssumption PROVE IpSpec => []GivesTheDatagram
<1>1. IpInv => GivesTheDatagram
  BY ItemsGive DEF IpInv, GivesTheDatagram
<1>2. (IpInit => IpInv) /\ (IpInv /\ [IpNext]_ipvars => IpInv')
  BY IpInitially, IpPreserved
<1> QED
  BY <1>1, <1>2, PTL DEF IpSpec

\* A step changes an item that gave its packet only by deleting it, or by
\* putting a new one in its place, after its expiry.
LEMMA SentStays ==
  ASSUME IpReasAssumption, IpInv, NEW k \in DOMAIN iphash, iphash[k].sent, IpNext
  PROVE  (k \in DOMAIN iphash' /\ iphash'[k] = iphash[k]) \/ ipnow > iphash[k].expireat
<1> SUFFICES ASSUME ipnow <= iphash[k].expireat
             PROVE  k \in DOMAIN iphash' /\ iphash'[k] = iphash[k]
  BY SMT DEF IpInv, IpTypeOK, ItemType, IpReasAssumption
<1>1. k \in DOMAIN IpKept /\ IpKept[k] = iphash[k]
  BY DEF IpKept, Restrict
<1>2. CASE \E f \in Fragment : Reads(f)
  <2>1. PICK f \in Fragment : Reads(f)
    BY <1>2
  <2>2. PICK item : /\ Reassemble(f, item)
                    /\ KeyOf(f.of) \in DOMAIN IpKept => item = IpKept[KeyOf(f.of)]
    BY <2>1 DEF Reads
  <2>3. KeyOf(f.of) = k => Received(item, f) = iphash[k]
    BY <1>1, <2>2 DEF Received
  <2> QED
    BY <1>1, <2>2, <2>3 DEF Reassemble
<1>3. CASE ReadWhole \/ IpTick
  BY <1>1, <1>3 DEF ReadWhole, IpTick
<1> QED
  BY <1>2, <1>3 DEF IpNext

\* Late copies of its fragments give a datagram again only after the expiry of
\* its item (iosniff_ipreas.c:100-115, 129-131).
THEOREM GivesOnce ==
  ASSUME IpReasAssumption PROVE IpSpec => GivenOncePerItem
<1>1. IpInv /\ [IpNext]_ipvars =>
        [\A k \in DOMAIN iphash :
           iphash[k].sent => \/ k \in DOMAIN iphash' /\ iphash'[k] = iphash[k]
                           \/ ipnow > iphash[k].expireat]_ipvars
  BY SentStays
<1>2. (IpInit => IpInv) /\ (IpInv /\ [IpNext]_ipvars => IpInv')
  BY IpInitially, IpPreserved
<1> QED
  BY <1>1, <1>2, PTL DEF IpSpec, GivenOncePerItem

-----------------------------------------------------------------------------
\* The items, the counters that start a cleaning and what is kept of the
\* packets have the types of the code's structures, in both ios
\* (iosniff_tcpreord.c:16-35, iosniff_ipreas.c:17-38).
THEOREM TypesCorrect == ASSUME IpReasAssumption PROVE MCSpec => []TypesOK
<1>1. MCInit => (Init /\ IpInit)
  BY DEF MCInit
<1>2. [MCNext]_allvars => [Next]_vars /\ [IpNext]_ipvars
  BY DEF MCNext, allvars, vars, ipvars
<1>3. Init => OInv /\ TInv
  BY OInitially, TypedInitially
<1>4. OInv /\ TInv /\ [Next]_vars => OInv' /\ TInv'
  BY SoundPreserved, TypedPreserved
<1>5. (IpInit => IpInv) /\ (IpInv /\ [IpNext]_ipvars => IpInv')
  BY IpInitially, IpPreserved
<1>6. OInv /\ TInv /\ IpInv => TypesOK
  BY TypedStrengthens DEF IpInv, TypesOK
<1> QED
  BY <1>1, <1>2, <1>3, <1>4, <1>5, <1>6, PTL DEF MCSpec
=============================================================================
