--------------------------- MODULE SockvTcpProof ---------------------------
(***************************************************************************)
(* Proofs about the virtual TCP client and server, for every width of the  *)
(* numbers, initial numbers, length of the streams, windows and ends of    *)
(* the remote host, whatever the network loses, duplicates and reorders.   *)
(***************************************************************************)
EXTENDS SockvTcp, SequenceTheorems, TLAPS

Num == 0 .. NumMod - 1

-----------------------------------------------------------------------------
(* Numbers *)

LEMMA ModIs ==
  ASSUME NEW x \in Int, - NumMod <= x, x < 2 * NumMod
  PROVE  x % NumMod = IF x < 0 THEN x + NumMod ELSE IF x < NumMod THEN x ELSE x - NumMod
BY SockvTcpAssumption, SMTT(60)

LEMMA Half ==
  /\ NumMod \in Nat /\ UsrLen \in Nat /\ RemoteLen \in Nat /\ MaxSyn \in Nat
  /\ NumMod \div 2 \in Nat /\ 2 * (NumMod \div 2) \in {NumMod, NumMod - 1}
  /\ UsrLen + 2 < NumMod \div 2 /\ RemoteLen + 2 < NumMod \div 2
  /\ Isn \in Num /\ RemoteIsn \in Num /\ NumMod > 4
BY SockvTcpAssumption DEF Num

LEMMA PlusIs ==
  ASSUME NEW n \in Num, NEW k \in Int, - NumMod <= k, k <= NumMod
  PROVE  /\ Plus(n, k) \in Num
         /\ Plus(n, k) = IF n + k < 0 THEN n + k + NumMod
                         ELSE IF n + k < NumMod THEN n + k ELSE n + k - NumMod
BY Half, ModIs DEF Plus, Num

LEMMA PlusPlus ==
  ASSUME NEW n \in Num, NEW j \in Int, NEW k \in Int,
         - NumMod <= 2 * j, 2 * j <= NumMod, - NumMod <= 2 * k, 2 * k <= NumMod
  PROVE  Plus(Plus(n, j), k) = Plus(n, j + k)
<1> DEFINE p == Plus(n, j)
<1>0. /\ - NumMod <= j /\ j <= NumMod /\ - NumMod <= k /\ k <= NumMod
      /\ - NumMod <= j + k /\ j + k <= NumMod /\ j + k \in Int
  BY Half
<1>1. p \in Num /\ p \in {n + j, n + j + NumMod, n + j - NumMod}
  BY <1>0, PlusIs
<1>2. Plus(n, j + k) \in Num /\ Plus(n, j + k) \in {n + (j + k), n + (j + k) + NumMod, n + (j + k) - NumMod}
  BY <1>0, PlusIs
<1> HIDE DEF p
<1>3. Plus(p, k) \in Num /\ Plus(p, k) \in {p + k, p + k + NumMod, p + k - NumMod}
  BY <1>0, <1>1, PlusIs
<1>4. Plus(p, k) = Plus(n, j + k)
  <2>1. /\ NumMod \in Nat /\ n \in Int /\ p \in Int /\ Plus(n, j + k) \in Int /\ Plus(p, k) \in Int
        /\ 0 <= Plus(n, j + k) /\ Plus(n, j + k) < NumMod
        /\ 0 <= Plus(p, k) /\ Plus(p, k) < NumMod
    BY <1>1, <1>2, <1>3, Half DEF Num
  <2> HIDE DEF p
  <2>2. ASSUME NEW x \in Int, NEW y \in Int, 0 <= x, x < NumMod, 0 <= y, y < NumMod,
               NEW q \in Int, q \in {n + j, n + j + NumMod, n + j - NumMod},
               x \in {n + (j + k), n + (j + k) + NumMod, n + (j + k) - NumMod},
               y \in {q + k, q + k + NumMod, q + k - NumMod}
        PROVE  y = x
    BY <2>1, <2>2
  <2> QED BY <1>1, <1>2, <1>3, <2>1, <2>2
<1> QED BY <1>4 DEF p

LEMMA SamePlace ==
  ASSUME NEW n \in Num, NEW j \in Int, NEW k \in Int,
         - NumMod <= 2 * j, 2 * j < NumMod, - NumMod <= 2 * k, 2 * k < NumMod,
         Plus(n, j) = Plus(n, k)
  PROVE  j = k
<1>1. /\ - NumMod <= j /\ j <= NumMod /\ - NumMod <= k /\ k <= NumMod
  BY Half
<1>2. Plus(n, j) \in {n + j, n + j + NumMod, n + j - NumMod}
  BY <1>1, PlusIs
<1>3. Plus(n, k) \in {n + k, n + k + NumMod, n + k - NumMod}
  BY <1>1, PlusIs
<1> QED BY <1>2, <1>3, Half DEF Num

LEMMA SignedIs ==
  ASSUME NEW a \in Num, NEW b \in Num
  PROVE  /\ Signed(a - b) \in Int
         /\ - NumMod <= Signed(a - b) /\ Signed(a - b) <= NumMod
         /\ Plus(b, Signed(a - b)) = a
<1> DEFINE m == (a - b) % NumMod
<1>1. m = IF a - b < 0 THEN a - b + NumMod ELSE a - b
  BY Half, ModIs DEF Num
<1>2. Signed(a - b) = IF m >= NumMod \div 2 THEN m - NumMod ELSE m
  BY DEF Signed
<1> HIDE DEF m
<1>3. /\ Signed(a - b) \in Int
      /\ - NumMod <= Signed(a - b) /\ Signed(a - b) <= NumMod
      /\ Signed(a - b) \in {a - b, a - b + NumMod, a - b - NumMod}
  BY <1>1, <1>2, Half DEF Num
<1> DEFINE d == Signed(a - b)
<1>4. Plus(b, d) \in Num /\ Plus(b, d) \in {b + d, b + d + NumMod, b + d - NumMod}
  BY <1>3, PlusIs
<1> HIDE DEF d
<1>5. d \in Int /\ d \in {a - b, a - b + NumMod, a - b - NumMod}
  BY <1>3 DEF d
<1>6. Plus(b, d) = a
  <2>1. ASSUME NEW x \in Int, 0 <= x, x < NumMod,
               x \in {b + d, b + d + NumMod, b + d - NumMod}
        PROVE  x = a
    BY <1>5, <2>1, Half DEF Num
  <2> QED BY <1>4, <2>1, Half DEF Num
<1> QED BY <1>3, <1>6 DEF d

LEMMA SignedPlus ==
  ASSUME NEW n \in Num, NEW j \in 0 .. UsrLen + 2, NEW k \in 0 .. UsrLen + 2
  PROVE  Signed(Plus(n, j) - Plus(n, k)) = j - k
<1>1. Plus(n, j) \in Num /\ Plus(n, k) \in Num
  BY Half, PlusIs
<1>0. - NumMod <= j /\ j <= NumMod /\ - NumMod <= k /\ k <= NumMod
  BY Half
<1>3. ASSUME NEW i \in 0 .. UsrLen + 2
      PROVE  Plus(n, i) \in {n + i, n + i - NumMod}
  <2>1. i \in Int /\ - NumMod <= i /\ i <= NumMod /\ 0 <= n + i /\ n \in Int /\ NumMod \in Nat
    BY Half DEF Num
  <2> QED BY <2>1, PlusIs
<1>2. Plus(n, j) - Plus(n, k) \in {j - k, j - k + NumMod, j - k - NumMod}
  BY <1>3, Half DEF Num
<1>4. (Plus(n, j) - Plus(n, k)) % NumMod = IF j - k < 0 THEN j - k + NumMod ELSE j - k
  BY <1>1, <1>2, Half, ModIs DEF Num
<1> QED BY <1>4, Half DEF Signed

\* The bytes that left the buffer are told by the number of its first one.
LEMMA OutIs ==
  ASSUME NEW s, NEW k \in 0 .. UsrLen + 1, s.begin = Plus(Isn, 1 + k)
  PROVE  Out(s) = k
BY Half, SignedPlus DEF Out

-----------------------------------------------------------------------------
(* Streams *)

\* The m numbers that follow a.
Numbers(a, m) == [n \in 1 .. m |-> a + n]

LEMMA AreNumbers ==
  ASSUME NEW S, NEW seq \in Seq(S), NEW a \in Int,
         \A n \in 1 .. Len(seq) : seq[n] = a + n
  PROVE  seq = Numbers(a, Len(seq))
<1>1. Len(seq) \in Nat /\ seq \in [1 .. Len(seq) -> S]
  BY LenProperties
<1> QED BY <1>1 DEF Numbers

LEMMA NumbersAre ==
  ASSUME NEW a \in Int, NEW m \in Nat
  PROVE  /\ Numbers(a, m) \in Seq(Int) /\ Len(Numbers(a, m)) = m
         /\ \A n \in 1 .. m : Numbers(a, m)[n] = a + n
         /\ \A b \in Nat : a >= 0 /\ a + m <= b => Numbers(a, m) \in Seq(1 .. b)
         /\ m = 0 => Numbers(a, m) = <<>>
<1>1. Numbers(a, m) \in [1 .. m -> Int]
  BY DEF Numbers
<1>2. Numbers(a, m) \in Seq(Int) /\ Len(Numbers(a, m)) = m
  BY <1>1 DEF Numbers
<1>3. ASSUME NEW b \in Nat, a >= 0, a + m <= b
      PROVE  Numbers(a, m) \in Seq(1 .. b)
  <2>1. Numbers(a, m) \in [1 .. m -> 1 .. b]
    BY <1>3 DEF Numbers
  <2> QED BY <2>1
<1>4. \A n \in 1 .. m : Numbers(a, m)[n] = a + n
  BY DEF Numbers
<1>5. m = 0 => Numbers(a, m) = <<>>
  BY <1>2, EmptySeq
<1> QED BY <1>2, <1>3, <1>4, <1>5

LEMMA NoNumbers == Len(<<>>) = 0 /\ \A a \in Int : Numbers(a, 0) = <<>>
BY NumbersAre

LEMMA NumbersConcat ==
  ASSUME NEW a \in Int, NEW m \in Nat, NEW k \in Nat
  PROVE  Numbers(a, m) \o Numbers(a + m, k) = Numbers(a, m + k)
<1> DEFINE l == Numbers(a, m)
           r == Numbers(a + m, k)
<1>1. /\ l \in Seq(Int) /\ Len(l) = m /\ \A n \in 1 .. m : l[n] = a + n
      /\ r \in Seq(Int) /\ Len(r) = k /\ \A n \in 1 .. k : r[n] = a + m + n
  BY NumbersAre
<1> HIDE DEF l, r
<1>2. l \o r \in Seq(Int) /\ Len(l \o r) = m + k
  BY <1>1, ConcatProperties
<1>3. ASSUME NEW n \in 1 .. m + k PROVE (l \o r)[n] = a + n
  <2>1. (l \o r)[n] = IF n <= m THEN l[n] ELSE r[n - m]
    BY <1>1, ConcatProperties
  <2>2. n <= m => l[n] = a + n
    BY <1>1
  <2>3. ~(n <= m) => r[n - m] = a + n
    <3>1. ASSUME ~(n <= m) PROVE n - m \in 1 .. k /\ a + m + (n - m) = a + n
      BY <3>1
    <3> QED BY <1>1, <3>1
  <2> QED BY <2>1, <2>2, <2>3
<1>4. l \o r = Numbers(a, m + k)
  BY <1>2, <1>3, AreNumbers
<1> QED BY <1>4 DEF l, r

LEMMA NumbersFromZero ==
  ASSUME NEW n \in 0 .. RemoteLen, NEW m \in 0 .. n
  PROVE  /\ Numbers(0, m) \o Numbers(m, n - m) = Numbers(0, n)
         /\ Numbers(0, n) \in Seq(1 .. RemoteLen) /\ Len(Numbers(0, n)) = n
         /\ Len(Numbers(m, n - m)) = n - m
<1>1. m \in Nat /\ n \in Nat /\ n - m \in Nat /\ m + (n - m) = n /\ RemoteLen \in Nat /\ n <= RemoteLen
  BY Half
<1>2. Numbers(0, m) \o Numbers(m, n - m) = Numbers(0, n)
  <2>1. ASSUME NEW a \in Int, a = 0, NEW c \in Int, c = a + m, NEW k \in Nat, m + k = n
        PROVE  Numbers(a, m) \o Numbers(c, k) = Numbers(a, n)
    BY <1>1, <2>1, NumbersConcat
  <2> QED BY <1>1, <2>1
<1>3. Numbers(0, n) \in Seq(1 .. RemoteLen) /\ Len(Numbers(0, n)) = n
  <2>1. ASSUME NEW a \in Int, a = 0
        PROVE  Numbers(a, n) \in Seq(1 .. RemoteLen) /\ Len(Numbers(a, n)) = n
    BY <1>1, <2>1, NumbersAre
  <2> QED BY <2>1
<1>4. Len(Numbers(m, n - m)) = n - m
  <2>1. \A k \in Nat : Len(Numbers(m, k)) = k
    BY <1>1, NumbersAre
  <2> QED BY <1>1, <2>1
<1> QED BY <1>2, <1>3, <1>4

LEMMA NumbersRest ==
  ASSUME NEW a \in Int, NEW m \in Nat, NEW k \in 0 .. m
  PROVE  SubSeq(Numbers(a, m), k + 1, Len(Numbers(a, m))) = Numbers(a + k, m - k)
<1> DEFINE l == Numbers(a, m)
<1>1. /\ l \in Seq(Int) /\ Len(l) = m /\ \A n \in 1 .. m : l[n] = a + n
  BY NumbersAre
<1> HIDE DEF l
<1>2. \A i \in k + 1 .. m : l[i] \in Int
  BY <1>1
<1>3. /\ SubSeq(l, k + 1, m) \in Seq(Int)
      /\ Len(SubSeq(l, k + 1, m)) = m - k
      /\ \A n \in 1 .. m - k : SubSeq(l, k + 1, m)[n] = l[k + n]
  BY <1>1, <1>2, SubSeqProperties
<1>5. \A n \in 1 .. m - k : k + n \in 1 .. m /\ l[k + n] = (a + k) + n
  BY <1>1
<1> DEFINE r == SubSeq(l, k + 1, m)
<1> HIDE DEF r
<1>4. r = Numbers(a + k, m - k)
  <2>1. r \in Seq(Int) /\ Len(r) = m - k /\ \A n \in 1 .. Len(r) : r[n] = (a + k) + n
    BY <1>3, <1>5 DEF r
  <2> QED BY <2>1, AreNumbers
<1> QED BY <1>1, <1>4 DEF l, r

-----------------------------------------------------------------------------
(* The inductive invariant.  Thread, Runs and Core are about the thread, as *)
(* operators of the record it has or is about to have; Records and Answered *)
(* are about what it shares with the user; Carries is about a packet; and   *)
(* the numbers of what is on the way to the remote host are the right ones. *)

Before == {"LISTEN_INIT", "LISTEN", "SYNSENT_INIT", "SYNSENT",
           "SYNRECEIVED_INIT", "SYNRECEIVED"}
Receivers == {"ESTABLISHED_INIT", "ESTABLISHED"}
Senders == Receivers \union {"CLOSEWAIT_INIT", "CLOSEWAIT"}
Event == {"usrend", "sniff", "usr", "timeout"}
Code == {"OK", "NOSYNACK", "RST", "INTERNALERROR", "ERROR"}

Packet == [flags : SUBSET {"syn", "ack", "fin", "rst"}, seq : Num, acknum : Num,
           window : Nat, data : Seq(1 .. RemoteLen)]

Thread ==
  [pc : {"wait", "test", "machine", "over", "broken"}, role : Roles, events : SUBSET Event,
   timed : BOOLEAN, pkt : Packet \union {None}, state : States,
   local : Num, remote : Num, lastack : Num, lastwin : Nat, begin : Num,
   sentsize : 0 .. UsrLen, usrbuf : Seq(1 .. UsrLen), synsent : 0 .. MaxSyn + 1,
   done : BOOLEAN]

\* What the remote host may have sent, as far as its numbers go.
Carries(p) ==
  /\ "syn" \in p.flags => p.seq = RemoteIsn
  /\ p.flags \in {{"ack"}, {"ack", "fin"}} =>
       \E r \in Spans : /\ p.seq = NumberOf(r[1])
                        /\ p.data = SubSeq(Stream, r[1] + 1, r[2])

Runs(s, u) ==
  /\ s.pc \in {"wait", "over", "broken"} => s.events = {}
  /\ s.pc = "test" => s.events \subseteq {"usr"}
  /\ s.pc = "test" /\ "usr" \in s.events => u.tlv # <<>>
  /\ "sniff" \in s.events <=> s.pkt # None
  /\ s.pkt # None => Carries(s.pkt)
  /\ s.state = "SYNSENT_INIT" => s.synsent <= MaxSyn

\* The numbers of the handshake, and the one that the thread waits for.
Numbered(s, u) ==
  /\ s.done <=> s.state \notin Before
  /\ s.state = "SYNSENT" => s.local = Isn
  /\ s.state \in {"SYNRECEIVED_INIT", "SYNRECEIVED"} =>
       s.local = Plus(Isn, 1) /\ s.begin = Plus(Isn, 1) /\ s.remote = NumberOf(0)
  /\ s.state \in Receivers => s.remote = NumberOf(Len(u.got))

Fresh(s, u) ==
  ~s.done => /\ s.usrbuf = <<>> /\ s.sentsize = 0
             /\ u.tlv = <<>> /\ u.written = 0 /\ u.got = <<>>

Buffer(s, u) ==
  s.state \in Senders =>
    /\ Out(s) \in 0 .. UsrLen /\ s.begin = Plus(Isn, 1 + Out(s))
    /\ Out(s) < FirstUnread(u)
    /\ s.local = Plus(s.begin, s.sentsize) /\ s.sentsize <= Len(s.usrbuf)
    /\ s.usrbuf = Numbers(Out(s), FirstUnread(u) - 1 - Out(s))

Core(s, u) == Numbered(s, u) /\ Fresh(s, u) /\ Buffer(s, u)

Answered(s, u) ==
  /\ s.done => u.answers = <<"OK">>
  /\ ~s.done => u.answers = <<>> \/ (s.pc = "over" /\ Len(u.answers) = 1)
  /\ s.pc = "over" => Len(u.answers) = 1

User == [tlv : Seq(Seq(1 .. UsrLen)), written : 0 .. UsrLen, ended : BOOLEAN,
         got : Seq(1 .. RemoteLen), answers : Seq(Code)]

\* The records that the thread has to read follow each other, and are the last
\* bytes that the user wrote.
After(r) == r[1] + Len(r)
Records(u) ==
  /\ \A i \in DOMAIN u.tlv :
       /\ Len(u.tlv[i]) >= 1
       /\ u.tlv[i] = Numbers(u.tlv[i][1] - 1, Len(u.tlv[i]))
  /\ \A i \in 1 .. Len(u.tlv) - 1 : u.tlv[i + 1][1] = After(u.tlv[i])
  /\ u.tlv # <<>> => After(u.tlv[Len(u.tlv)]) = u.written + 1
  /\ u.got = Numbers(0, Len(u.got)) /\ Len(u.got) <= RemoteLen

Remote == [synced : BOOLEAN, got : Seq((1 .. UsrLen) \union {FIN}),
           windows : SUBSET Nat, ends : SUBSET {"ackfin", "fin", "rst"}]

Accepted ==
  \A n \in DOMAIN remote.got :
    remote.got[n] = n \/ (remote.got[n] = FIN /\ n = Len(remote.got))

RightByte(b) ==
  \/ b = <<Isn, SYN>>
  \/ \E k \in 1 .. UsrLen : b = <<Plus(Isn, k), k>>
  \/ \E k \in 1 .. UsrLen + 1 : b = <<Plus(Isn, k), FIN>>

ThreadInv(s, u) ==
  s \in Thread /\ Runs(s, u) /\ Core(s, u) /\ Answered(s, u)
UserInv(u) == u \in User /\ Records(u)
RemoteInv == remote \in Remote /\ Accepted
WireInv == \A b \in wire : RightByte(b)

IInv == ThreadInv(svt, user) /\ UserInv(user) /\ RemoteInv /\ WireInv

\* With NoAckOfZero: what is acknowledged is what the remote host has, and no
\* byte left the buffer before.
Acks(s) ==
  /\ s.lastack \in {0} \union Acked
  /\ s.pkt # None => s.pkt.acknum \in {0} \union Acked
  /\ s.state \in Senders => Out(s) <= Len(remote.got)
AInv == NoAckOfZero => Acks(svt)

Kept == IInv' /\ (AInv => AInv')

LEMMA Initially == Init => IInv
<1> SUFFICES ASSUME Init PROVE IInv
  OBVIOUS
<1>1. 0 \in Num /\ 0 \in 0 .. UsrLen /\ 0 \in 0 .. MaxSyn + 1 /\ 0 \in Nat /\ 0 <= MaxSyn
  BY Half DEF Num
<1>2. svt \in Thread
  BY <1>1, SockvTcpAssumption DEF Init, Thread, States, AfterInit, Event
<1>3. Runs(svt, user) /\ Core(svt, user) /\ Answered(svt, user)
  BY <1>1 DEF Init, Runs, Core, Numbered, Fresh, Buffer, Answered, Before, Receivers, Senders
<1>4. UserInv(user)
  <2>1. Numbers(0, 0) = <<>>
    BY NumbersAre
  <2> QED BY <1>1, <2>1, Half DEF Init, UserInv, User, Records
<1>5. RemoteInv /\ WireInv
  BY SockvTcpAssumption DEF Init, RemoteInv, Remote, Accepted, WireInv
<1> QED BY <1>2, <1>3, <1>4, <1>5 DEF IInv, ThreadInv

-----------------------------------------------------------------------------
(* What can be sniffed *)

LEMMA StreamIs ==
  /\ Stream \in Seq(1 .. RemoteLen) /\ Len(Stream) = RemoteLen
  /\ \A n \in 1 .. RemoteLen : Stream[n] = n
BY Half DEF Stream

LEMMA SpanIs ==
  ASSUME NEW r \in Spans
  PROVE  /\ r[1] \in -1 .. RemoteLen /\ r[2] \in -1 .. RemoteLen
         /\ r[1] <= r[2]
         /\ r[1] = -1 => r[2] = -1
         /\ SubSeq(Stream, r[1] + 1, r[2]) \in Seq(1 .. RemoteLen)
         /\ SubSeq(Stream, r[1] + 1, r[2]) = Numbers(r[1], r[2] - r[1])
<1>1. /\ r[1] \in -1 .. RemoteLen /\ r[2] \in -1 .. RemoteLen
      /\ r[1] <= r[2] /\ (r[1] = -1 => r[2] = -1)
  BY Half DEF Spans
<1>2. /\ r[1] + 1 \in Int /\ r[2] \in Int /\ r[2] - r[1] \in Nat
      /\ \A i \in r[1] + 1 .. r[2] : Stream[i] \in 1 .. RemoteLen /\ Stream[i] = i
  BY <1>1, Half, StreamIs
<1>3. /\ SubSeq(Stream, r[1] + 1, r[2]) \in Seq(1 .. RemoteLen)
      /\ Len(SubSeq(Stream, r[1] + 1, r[2])) = r[2] - r[1]
      /\ \A k \in 1 .. r[2] - r[1] : SubSeq(Stream, r[1] + 1, r[2])[k] = r[1] + k
  BY <1>1, <1>2, SubSeqProperties
<1> DEFINE d == SubSeq(Stream, r[1] + 1, r[2])
<1> HIDE DEF d
<1>4. d = Numbers(r[1], r[2] - r[1])
  <2>1. d \in Seq(1 .. RemoteLen) /\ Len(d) = r[2] - r[1]
    BY <1>3 DEF d
  <2>2. r[1] \in Int /\ \A n \in 1 .. Len(d) : d[n] = r[1] + n
    BY <1>1, <1>3, <2>1 DEF d
  <2> QED BY <2>1, <2>2, AreNumbers
<1> QED BY <1>1, <1>3, <1>4 DEF d

LEMMA NumberIs ==
  ASSUME NEW k \in -1 .. RemoteLen PROVE NumberOf(k) \in Num
BY Half, PlusIs DEF NumberOf

LEMMA GotIs ==
  ASSUME RemoteInv
  PROVE  /\ Len(remote.got) \in 0 .. UsrLen + 1
         /\ FIN \notin ToSet(remote.got) => Len(remote.got) \in 0 .. UsrLen
         /\ Acked \subseteq Num
<1> DEFINE g == remote.got
<1>1. g \in Seq((1 .. UsrLen) \union {FIN}) /\ Len(g) \in Nat /\ DOMAIN g = 1 .. Len(g)
  BY LenProperties DEF RemoteInv, Remote
<1>2. \A n \in 1 .. Len(g) : g[n] = n \/ (g[n] = FIN /\ n = Len(g))
  BY <1>1 DEF RemoteInv, Accepted
<1>3. \A n \in 1 .. Len(g) : g[n] \in 1 .. UsrLen \/ g[n] = FIN
  BY <1>1, ElementOfSeq
<1> HIDE DEF g
<1>4. \A n \in 1 .. Len(g) : n \in 1 .. UsrLen \/ (g[n] = FIN /\ n = Len(g))
  <2> SUFFICES ASSUME NEW n \in 1 .. Len(g), n \notin 1 .. UsrLen
               PROVE  g[n] = FIN /\ n = Len(g)
    OBVIOUS
  <2>1. FIN \notin Nat /\ n \in Nat
    BY <1>1, SockvTcpAssumption
  <2>2. g[n] # n
    BY <1>3, <2>1
  <2> QED BY <1>2, <2>2
<1>5. Len(g) \in 0 .. UsrLen + 1
  <2>1. CASE Len(g) \in {0, 1}
    BY <2>1, Half
  <2>2. CASE Len(g) > 1
    <3>0. Len(g) - 1 \in 1 .. Len(g) /\ Len(g) - 1 # Len(g)
      <4>1. \A n \in Nat : n > 1 => n - 1 \in 1 .. n /\ n - 1 # n
        OBVIOUS
      <4> QED BY <1>1, <2>2, <4>1
    <3>1. Len(g) - 1 \in 1 .. UsrLen
      BY <1>4, <3>0
    <3> QED BY <1>1, <3>1, Half
  <2> QED BY <1>1, <2>1, <2>2
<1>6. ASSUME FIN \notin ToSet(g) PROVE Len(g) \in 0 .. UsrLen
  <2>1. \A n \in 1 .. Len(g) : g[n] # FIN
    BY <1>1, <1>6 DEF ToSet
  <2>2. CASE Len(g) = 0
    BY <2>2, Half
  <2>3. CASE Len(g) # 0
    <3>1. Len(g) \in 1 .. Len(g)
      BY <1>1, <2>3
    <3> QED BY <1>4, <2>1, <3>1
  <2> QED BY <2>2, <2>3
<1>7. \A k \in 0 .. Len(g) : Plus(Isn, k + 1) \in Num
  BY <1>5, Half, PlusIs
<1> QED BY <1>5, <1>6, <1>7 DEF g, Acked

LEMMA OtherFlags ==
  \A f \in {{"syn", "ack"}, {"syn"}, {"rst", "ack"}, {"rst"}, {"fin"}} :
    f # {"ack"} /\ f # {"ack", "fin"}
<1> SUFFICES ASSUME NEW f \in {{"syn", "ack"}, {"syn"}, {"rst", "ack"}, {"rst"}, {"fin"}}
             PROVE  f # {"ack"} /\ f # {"ack", "fin"}
  OBVIOUS
<1>1. ("syn" \in f \/ "rst" \in f) => f # {"ack"} /\ f # {"ack", "fin"}
  OBVIOUS
<1>2. f = {"fin"} => f # {"ack"} /\ f # {"ack", "fin"}
  <2>1. "ack" \notin {"fin"}
    OBVIOUS
  <2> QED BY <2>1
<1> QED BY <1>1, <1>2

\* What carries no data for the stream of the user.
LEMMA BareCarries ==
  ASSUME NEW p, p.flags \in {{"syn", "ack"}, {"syn"}, {"rst", "ack"}, {"rst"}, {"fin"}},
         "syn" \in p.flags => p.seq = RemoteIsn
  PROVE  Carries(p)
BY OtherFlags DEF Carries

LEMMA APacket == Packet \subseteq
  [flags : SUBSET {"syn", "ack", "fin", "rst"}, seq : Nat, acknum : Nat,
   window : Nat, data : Seq(Nat)]
<1>1. Num \subseteq Nat
  BY Half DEF Num
<1>2. Seq(1 .. RemoteLen) \subseteq Seq(Nat)
  <2> SUFFICES ASSUME NEW seq \in Seq(1 .. RemoteLen) PROVE seq \in Seq(Nat)
    OBVIOUS
  <2> QED BY SeqMonotonic, 1 .. RemoteLen \subseteq Nat
<1> QED BY <1>1, <1>2 DEF Packet

\* What is sniffed has the numbers that Carries says, and acknowledges no more
\* than the remote host has, when it acknowledges anything.
LEMMA PacketsCarry ==
  ASSUME RemoteInv, NEW p \in Packets
  PROVE  p \in Packet /\ p # None /\ Carries(p) /\ p.acknum \in {0} \union Acked
<1>1. /\ Acked \subseteq Num /\ Plus(Isn, 1) \in Acked /\ 0 \in Num /\ RemoteIsn \in Num
      /\ remote.windows \subseteq Nat /\ <<>> \in Seq(1 .. RemoteLen)
  <2>1. 0 \in 0 .. Len(remote.got)
    BY GotIs
  <2>2. Plus(Isn, 1) \in Acked
    BY <2>1, 0 + 1 = 1 DEF Acked
  <2>3. 0 \in Num /\ RemoteIsn \in Num
    BY Half DEF Num
  <2> QED BY <2>2, <2>3, GotIs, EmptySeq DEF RemoteInv, Remote
<1>2. ASSUME NEW from \in 0 .. RemoteLen
      PROVE  /\ <<from, RemoteLen>> \in Spans /\ <<from, from>> \in Spans
  BY Half DEF Spans
<1> DEFINE Good == p \in Packet /\ Carries(p) /\ p.acknum \in {0} \union Acked
<1>3. ASSUME p = Syn \/ p = Refusal \/ p \in SynAcks PROVE Good
  <2>1. p \in Packet /\ p.acknum \in {0} \union Acked
    <3>1. ASSUME p = Syn PROVE p \in Packet /\ p.acknum = 0
      BY <1>1, <3>1 DEF Syn, Pkt, Packet
    <3>2. ASSUME p = Refusal PROVE p \in Packet /\ p.acknum \in Acked
      BY <1>1, <3>2 DEF Refusal, Pkt, Packet
    <3>3. ASSUME p \in SynAcks PROVE p \in Packet /\ p.acknum \in Acked
      <4>1. PICK w \in remote.windows :
              p = Pkt({"syn", "ack"}, RemoteIsn, Plus(Isn, 1), w, <<>>)
        BY <3>3 DEF SynAcks
      <4> QED BY <1>1, <4>1 DEF Pkt, Packet
    <3> QED BY <1>3, <3>1, <3>2, <3>3
  <2>2. /\ p.flags \in {{"syn", "ack"}, {"syn"}, {"rst", "ack"}, {"rst"}, {"fin"}}
        /\ "syn" \in p.flags => p.seq = RemoteIsn
    BY <1>3 DEF Syn, Refusal, SynAcks, Pkt
  <2> QED BY <2>1, <2>2, BareCarries
<1>4. ASSUME p \in Segments PROVE Good
  <2>1. PICK r \in Spans, a \in Acked, w \in remote.windows :
          p = Pkt({"ack"}, NumberOf(r[1]), a, w, SubSeq(Stream, r[1] + 1, r[2]))
    BY <1>4 DEF Segments
  <2>2. NumberOf(r[1]) \in Num /\ SubSeq(Stream, r[1] + 1, r[2]) \in Seq(1 .. RemoteLen)
    BY SpanIs, NumberIs
  <2>3. p \in Packet /\ p.acknum \in {0} \union Acked
    BY <1>1, <2>1, <2>2 DEF Pkt, Packet
  <2>4. /\ p.seq = NumberOf(r[1]) /\ p.data = SubSeq(Stream, r[1] + 1, r[2])
        /\ "syn" \notin p.flags
    BY <2>1 DEF Pkt
  <2> QED BY <2>3, <2>4 DEF Carries
<1>5. ASSUME p \in AckFins PROVE Good
  <2>1. PICK from \in 0 .. RemoteLen, a \in Acked, w \in remote.windows :
          p = Pkt({"ack", "fin"}, NumberOf(from), a, w, SubSeq(Stream, from + 1, RemoteLen))
    BY <1>5 DEF AckFins
  <2>2. NumberOf(from) \in Num /\ SubSeq(Stream, from + 1, RemoteLen) \in Seq(1 .. RemoteLen)
    BY <1>2, SpanIs, NumberIs
  <2>3. p \in Packet /\ p.acknum \in {0} \union Acked
    BY <1>1, <2>1, <2>2 DEF Pkt, Packet
  <2>4. Carries(p)
    <3>1. /\ p.seq = NumberOf(<<from, RemoteLen>>[1])
          /\ p.data = SubSeq(Stream, <<from, RemoteLen>>[1] + 1, <<from, RemoteLen>>[2])
          /\ "syn" \notin p.flags
      BY <2>1 DEF Pkt
    <3> QED BY <1>2, <3>1 DEF Carries
  <2> QED BY <2>3, <2>4
<1>6. ASSUME p \in Bare("fin") \/ p \in Bare("rst") PROVE Good
  <2>1. PICK flag \in {"fin", "rst"}, from \in 0 .. RemoteLen :
          p = Pkt({flag}, NumberOf(from), 0, 0, <<>>)
    BY <1>6 DEF Bare
  <2>2. NumberOf(from) \in Num
    BY NumberIs
  <2>3. p \in Packet /\ p.acknum \in {0} \union Acked
    BY <1>1, <2>1, <2>2 DEF Pkt, Packet
  <2>4. p.flags \in {{"rst"}, {"fin"}} /\ "syn" \notin p.flags
    BY <2>1 DEF Pkt
  <2> QED BY <2>3, <2>4, BareCarries
<1>7. Good
  BY <1>3, <1>4, <1>5, <1>6 DEF Packets, Ends
<1> QED BY <1>7, APacket, SockvTcpAssumption
-----------------------------------------------------------------------------
(* Steps of the machine *)

LEMMA StatesAre ==
  /\ DOMAIN AfterInit =
       {"LISTEN_INIT", "SYNRECEIVED_INIT", "ESTABLISHED_INIT", "FINWAIT1_INIT",
        "FINWAIT2_INIT", "CLOSEWAIT_INIT", "CLOSING_INIT", "LASTACK_INIT",
        "TIMEWAIT_INIT", "CLOSED_INIT"}
  /\ States = DOMAIN AfterInit \union
       {"LISTEN", "SYNSENT_INIT", "SYNSENT", "SYNRECEIVED", "ESTABLISHED", "FINWAIT1",
        "FINWAIT2", "CLOSEWAIT", "CLOSING", "LASTACK", "TIMEWAIT", "CLOSED",
        "CLOSED_ONRESET"}
BY DEF States, AfterInit

LEMMA SettledIs ==
  ASSUME NEW s \in Thread
  PROVE  /\ Settled(s) \in Thread
         /\ Settled(s).pc = IF s.events # {} \/ s.state # svt.state THEN "machine" ELSE "wait"
         /\ Settled(s).pkt = IF "sniff" \in s.events THEN s.pkt ELSE None
         /\ Settled(s) = [s EXCEPT !.pc = Settled(s).pc, !.pkt = Settled(s).pkt]
BY DEF Settled, Thread

LEMMA CoreSees ==
  ASSUME NEW s, NEW n, NEW u, Core(s, u),
         n.usrbuf = s.usrbuf, n.begin = s.begin, n.local = s.local, n.remote = s.remote,
         n.sentsize = s.sentsize, n.done = s.done, n.state = s.state
  PROVE  Core(n, u)
BY DEF Core, Numbered, Fresh, Buffer, Out

LEMMA Settles ==
  ASSUME NEW s \in Thread, NEW u, Core(s, u),
         "sniff" \in s.events => s.pkt # None /\ Carries(s.pkt),
         s.state = "SYNSENT_INIT" => s.synsent <= MaxSyn,
         s.done => u.answers = <<"OK">>, ~ s.done => u.answers = <<>>
  PROVE  ThreadInv(Settled(s), u)
<1> DEFINE t == Settled(s)
<1>1. /\ t \in Thread
      /\ t.pc = IF s.events # {} \/ s.state # svt.state THEN "machine" ELSE "wait"
      /\ t.pkt = IF "sniff" \in s.events THEN s.pkt ELSE None
      /\ t = [s EXCEPT !.pc = t.pc, !.pkt = t.pkt]
  BY SettledIs
<1> HIDE DEF t
<1>2. /\ t.usrbuf = s.usrbuf /\ t.begin = s.begin /\ t.local = s.local /\ t.remote = s.remote
      /\ t.sentsize = s.sentsize /\ t.done = s.done /\ t.state = s.state
      /\ t.events = s.events /\ t.synsent = s.synsent
  BY <1>1 DEF Thread
<1>3. Core(t, u)
  BY <1>2, CoreSees
<1>4. Runs(t, u)
  BY <1>1, <1>2 DEF Runs
<1>5. Answered(t, u)
  BY <1>1, <1>2 DEF Answered
<1> QED BY <1>1, <1>3, <1>4, <1>5 DEF ThreadInv, t

\* A step of the machine keeps the invariant as soon as the record s that it
\* settles and the user u that it leaves are right for each other.
LEMMA Steps ==
  ASSUME IInv, svt.pc = "machine", NEW s \in Thread, NEW u, UserInv(u), Core(s, u),
         s.events \subseteq svt.events, s.pkt = svt.pkt,
         s.state = "SYNSENT_INIT" => s.synsent <= MaxSyn,
         s.done => u.answers = <<"OK">>, ~ s.done => u.answers = <<>>,
         NoAckOfZero /\ Acks(svt) => Acks(s),
         svt' = Settled(s), user' = u, remote' = remote, WireInv'
  PROVE  Kept
<1>1. "sniff" \in s.events => s.pkt # None /\ Carries(s.pkt)
  BY DEF IInv, ThreadInv, Runs
<1>2. ThreadInv(svt', user')
  BY <1>1, Settles
<1>3. RemoteInv'
  BY DEF IInv, RemoteInv, Accepted
<1>4. AInv => AInv'
  <2> SUFFICES ASSUME Acks(s) PROVE Acks(svt)'
    BY DEF AInv, NoAckOfZero, Plus
  <2>1. /\ svt'.lastack = s.lastack /\ svt'.pkt \in {s.pkt, None} /\ svt'.state = s.state
        /\ svt'.begin = s.begin
    BY DEF Settled, Thread
  <2> QED BY <2>1 DEF Acks, Acked, Out, Plus, Signed
<1> QED BY <1>2, <1>3, <1>4 DEF IInv, Kept

\* The same when the user is left alone.
LEMMA Quiet ==
  ASSUME IInv, svt.pc = "machine", NEW s \in Thread, Core(s, user),
         s.events \subseteq svt.events, s.pkt = svt.pkt, s.done = svt.done,
         s.state = "SYNSENT_INIT" => s.synsent <= MaxSyn,
         NoAckOfZero /\ Acks(svt) => Acks(s),
         svt' = Settled(s), user' = user, remote' = remote, WireInv'
  PROVE  Kept
<1>1. UserInv(user) /\ (s.done => user.answers = <<"OK">>) /\ (~ s.done => user.answers = <<>>)
  BY DEF IInv, ThreadInv, Answered
<1> QED BY <1>1, Steps

\* Changes of state that the invariant does not notice.
Follows(a, b) ==
  /\ a \in Before <=> b \in Before
  /\ b = "SYNSENT" => a = "SYNSENT"
  /\ b \in {"SYNRECEIVED_INIT", "SYNRECEIVED"} => a \in {"SYNRECEIVED_INIT", "SYNRECEIVED"}
  /\ b \in Receivers => a \in Receivers
  /\ b \in Senders => a \in Senders

LEMMA Moves ==
  ASSUME NEW s, NEW n, NEW u, Core(s, u), Follows(s.state, n.state),
         n.usrbuf = s.usrbuf, n.sentsize = s.sentsize, n.done = s.done,
         n.state \in Before \union Senders => n.local = s.local /\ n.begin = s.begin,
         n.state \in Before \union Receivers => n.remote = s.remote
  PROVE  Core(n, u)
<1>1. Numbered(n, u)
  BY DEF Core, Numbered, Follows, Before, Receivers
<1>2. Fresh(n, u) /\ Buffer(n, u)
  BY DEF Core, Fresh, Buffer, Follows, Out, Before, Senders
<1> QED BY <1>1, <1>2 DEF Core

\* A move that changes the thread only, and what the invariant does not notice.
LEMMA Becoming ==
  ASSUME IInv, svt.pc = "machine", NEW s \in Thread, Becomes(s), Follows(svt.state, s.state),
         s.lastack = svt.lastack,
         s.events \subseteq svt.events, s.pkt = svt.pkt, s.done = svt.done,
         s.usrbuf = svt.usrbuf, s.sentsize = svt.sentsize,
         s.state \in Before \union Senders => s.local = svt.local /\ s.begin = svt.begin,
         s.state \in Before \union Receivers => s.remote = svt.remote,
         s.state = "SYNSENT_INIT" => s.synsent <= MaxSyn
  PROVE  Kept
<1>1. Core(s, user)
  BY Moves DEF IInv, ThreadInv
<1>2. WireInv'
  BY DEF Becomes, IInv, WireInv, RightByte
<1>3. Acks(svt) => Acks(s)
  BY DEF Acks, Out, Follows
<1> QED BY <1>1, <1>2, <1>3, Quiet DEF Becomes

\* The end of the loop.
LEMMA Finishes ==
  ASSUME IInv, svt.pc = "machine", NEW code \in Code, Over(code)
  PROVE  Kept
<1> DEFINE s == svt'
           u == user'
<1>1. /\ svt \in Thread /\ Runs(svt, user) /\ Core(svt, user) /\ Answered(svt, user)
      /\ user \in User /\ Records(user)
  BY DEF IInv, ThreadInv, UserInv
<1>2. s = [svt EXCEPT !.pc = "over", !.events = {}, !.pkt = None]
  BY DEF Over
<1>3. /\ s \in Thread /\ s.pc = "over" /\ s.events = {} /\ s.pkt = None
      /\ s.usrbuf = svt.usrbuf /\ s.begin = svt.begin /\ s.local = svt.local
      /\ s.remote = svt.remote /\ s.sentsize = svt.sentsize /\ s.done = svt.done
      /\ s.state = svt.state /\ s.synsent = svt.synsent
  BY <1>1, <1>2 DEF Thread
<1>4. u = IF svt.done THEN user ELSE [user EXCEPT !.answers = Append(@, code)]
  BY DEF Over
<1>5. /\ u \in User /\ u.tlv = user.tlv /\ u.written = user.written /\ u.got = user.got
      /\ svt.done => u = user
      /\ ~ svt.done => Len(u.answers) = 1
  <2>1. CASE svt.done
    BY <1>1, <1>4, <2>1
  <2>2. CASE ~ svt.done
    <3>1. user.answers = <<>>
      BY <1>1, <2>2 DEF Answered
    <3>2. Append(user.answers, code) = <<code>> /\ <<code>> \in Seq(Code) /\ Len(<<code>>) = 1
      BY <3>1
    <3>3. u = [user EXCEPT !.answers = <<code>>]
      BY <1>4, <2>2, <3>2
    <3> QED BY <1>1, <2>2, <3>2, <3>3 DEF User
  <2> QED BY <2>1, <2>2
<1> HIDE DEF s, u
<1>6. Core(s, u)
  BY <1>1, <1>3, <1>5 DEF Core, Numbered, Fresh, Buffer, Out, FirstUnread
<1>7. Runs(s, u)
  BY <1>1, <1>3, <1>5 DEF Runs
<1>8. Answered(s, u)
  <2>1. Len(<<"OK">>) = 1
    OBVIOUS
  <2>2. CASE svt.done
    BY <1>1, <1>3, <1>5, <2>1, <2>2 DEF Answered
  <2>3. CASE ~ svt.done
    BY <1>3, <1>5, <2>3 DEF Answered
  <2> QED BY <2>2, <2>3
<1>9. UserInv(u)
  BY <1>1, <1>5 DEF UserInv, Records
<1>10. RemoteInv' /\ WireInv'
  BY DEF Over, IInv, RemoteInv, Accepted, WireInv, RightByte
<1>11. AInv => AInv'
  <2>1. s.lastack = svt.lastack /\ remote' = remote
    BY <1>1, <1>2 DEF Thread, Over
  <2> QED BY <1>3, <2>1 DEF AInv, Acks, Acked, Out, Plus, Signed, NoAckOfZero, s
<1> QED BY <1>3, <1>6, <1>7, <1>8, <1>9, <1>10, <1>11 DEF IInv, ThreadInv, Kept, s, u

\* The end of the thread without the end of its loop.
LEMMA BreaksKeeps == ASSUME IInv, Breaks PROVE Kept
<1> DEFINE s == svt'
<1>1. /\ svt \in Thread /\ Runs(svt, user) /\ Core(svt, user) /\ Answered(svt, user)
      /\ user' = user
  BY DEF IInv, ThreadInv, Breaks
<1>2. s = [svt EXCEPT !.pc = "broken", !.events = {}, !.pkt = None]
  BY DEF Breaks
<1>3. /\ s \in Thread /\ s.pc = "broken" /\ s.events = {} /\ s.pkt = None
      /\ s.usrbuf = svt.usrbuf /\ s.begin = svt.begin /\ s.local = svt.local
      /\ s.remote = svt.remote /\ s.sentsize = svt.sentsize /\ s.done = svt.done
      /\ s.state = svt.state /\ s.synsent = svt.synsent
      /\ s.lastack = svt.lastack
  BY <1>1, <1>2 DEF Thread
<1>4. svt.pc # "over"
  BY DEF Breaks
<1> HIDE DEF s
<1>5. Core(s, user) /\ Runs(s, user) /\ Answered(s, user)
  BY <1>1, <1>3, <1>4 DEF Core, Numbered, Fresh, Buffer, Out, FirstUnread, Runs, Answered
<1>6. UserInv(user') /\ RemoteInv' /\ WireInv'
  BY DEF Breaks, IInv, UserInv, RemoteInv, Accepted, WireInv, RightByte
<1>7. AInv => AInv'
  <2>1. remote' = remote
    BY DEF Breaks
  <2> QED BY <1>3, <2>1 DEF AInv, Acks, Acked, Out, Plus, Signed, NoAckOfZero, s
<1> QED BY <1>1, <1>3, <1>5, <1>6, <1>7 DEF IInv, ThreadInv, Kept, s

LEMMA MaskIs ==
  /\ Mask = "usrend" => "usrend" \in svt.events
  /\ Mask = "sniff" => "sniff" \in svt.events
  /\ Mask = "usr" => "usr" \in svt.events
<1>1. CASE "usrend" \in svt.events
  BY <1>1 DEF Mask
<1>2. CASE "usrend" \notin svt.events /\ "sniff" \in svt.events
  BY <1>2 DEF Mask
<1>3. CASE "usrend" \notin svt.events /\ "sniff" \notin svt.events /\ "usr" \in svt.events
  BY <1>3 DEF Mask
<1>4. CASE "usrend" \notin svt.events /\ "sniff" \notin svt.events /\ "usr" \notin svt.events
  BY <1>4 DEF Mask
<1> QED BY <1>1, <1>2, <1>3, <1>4

\* A packet that the machine looks at is one of those that can be sniffed.
LEMMA SniffedIs ==
  ASSUME IInv, NEW states, On(states, "sniff")
  PROVE  svt.pkt \in Packet /\ Carries(svt.pkt)
<1>1. "sniff" \in svt.events
  BY MaskIs DEF On
<1> QED BY <1>1 DEF IInv, ThreadInv, Runs, Thread

\* A change of state.
LEMMA Turning ==
  ASSUME IInv, svt.pc = "machine", NEW st \in States, NEW event,
         Follows(svt.state, st), st = "SYNSENT_INIT" => svt.synsent <= MaxSyn,
         Becomes(To(st, event))
  PROVE  Kept
<1> DEFINE s == To(st, event)
<1>1. svt \in Thread
  BY DEF IInv, ThreadInv
<1>2. /\ s \in Thread /\ s.state = st /\ s.events = svt.events \ {event}
      /\ s.pkt = svt.pkt /\ s.done = svt.done /\ s.usrbuf = svt.usrbuf
      /\ s.sentsize = svt.sentsize /\ s.local = svt.local /\ s.begin = svt.begin
      /\ s.remote = svt.remote /\ s.synsent = svt.synsent /\ s.lastack = svt.lastack
  BY <1>1 DEF To, Handled, Thread
<1> HIDE DEF s
<1>3. Becomes(s)
  BY DEF s
<1> QED BY <1>2, <1>3, Becoming

\* The same with another number to wait for, once nothing is received any more.
LEMMA TurningAway ==
  ASSUME IInv, svt.pc = "machine", NEW st \in States, NEW event, NEW number \in Num,
         Follows(svt.state, st), st \notin Before \union Receivers,
         Becomes([To(st, event) EXCEPT !.remote = number])
  PROVE  Kept
<1> DEFINE s == [To(st, event) EXCEPT !.remote = number]
<1>1. svt \in Thread
  BY DEF IInv, ThreadInv
<1>2. /\ s \in Thread /\ s.state = st /\ s.events = svt.events \ {event}
      /\ s.pkt = svt.pkt /\ s.done = svt.done /\ s.usrbuf = svt.usrbuf
      /\ s.sentsize = svt.sentsize /\ s.local = svt.local /\ s.begin = svt.begin
      /\ s.synsent = svt.synsent /\ s.lastack = svt.lastack
  BY <1>1 DEF To, Handled, Thread
<1> HIDE DEF s
<1>3. Becomes(s)
  BY DEF s
<1>4. "SYNSENT_INIT" \in Before
  BY DEF Before
<1> QED BY <1>2, <1>3, <1>4, Becoming

\* An event that changes nothing.
LEMMA Handling ==
  ASSUME IInv, svt.pc = "machine", NEW event, Becomes(Handled(event))
  PROVE  Kept
<1>1. /\ svt.state \in States
      /\ svt.state = "SYNSENT_INIT" => svt.synsent <= MaxSyn
  BY DEF IInv, ThreadInv, Runs, Thread
<1>2. Handled(event) = To(svt.state, event)
  BY DEF To, Handled, IInv, ThreadInv, Thread
<1>3. Follows(svt.state, svt.state)
  BY DEF Follows
<1> QED BY <1>1, <1>2, <1>3, Turning

LEMMA EnterKeeps == ASSUME IInv, Enter PROVE Kept
<1> DEFINE s == [svt EXCEPT !.state = AfterInit[svt.state], !.timed = svt.state \notin Untimed]
<1>0. svt \in Thread /\ svt.pc = "machine" /\ svt.state \in DOMAIN AfterInit /\ Becomes(s)
  BY DEF IInv, ThreadInv, Enter
<1>1. AfterInit[svt.state] \in States
  BY <1>0 DEF States
<1>2. /\ s \in Thread /\ s.state = AfterInit[svt.state] /\ s.events = svt.events
      /\ s.pkt = svt.pkt /\ s.done = svt.done /\ s.usrbuf = svt.usrbuf
      /\ s.sentsize = svt.sentsize /\ s.local = svt.local /\ s.begin = svt.begin
      /\ s.remote = svt.remote /\ s.synsent = svt.synsent /\ s.lastack = svt.lastack
  BY <1>0, <1>1 DEF Thread
<1>3. Follows(svt.state, AfterInit[svt.state]) /\ AfterInit[svt.state] # "SYNSENT_INIT"
  BY <1>0, StatesAre DEF AfterInit, Follows, Before, Receivers, Senders
<1> HIDE DEF s
<1> QED BY <1>0, <1>2, <1>3, Becoming

LEMMA NothingKeeps == ASSUME IInv, Nothing PROVE Kept
<1>1. svt \in Thread /\ svt.pc = "machine" /\ Becomes(svt) /\ svt.state # "SYNSENT_INIT"
  BY DEF IInv, ThreadInv, Nothing, On
<1>2. Follows(svt.state, svt.state)
  BY DEF Follows
<1> QED BY <1>1, <1>2, Becoming

LEMMA SynSentTimeoutKeeps == ASSUME IInv, SynSentTimeout PROVE Kept
<1>1. svt.pc = "machine" /\ svt.state = "SYNSENT" /\ svt.synsent \in 0 .. MaxSyn + 1
  BY DEF IInv, ThreadInv, Thread, SynSentTimeout, On
<1>2. CASE svt.synsent > MaxSyn
  BY <1>1, <1>2, Finishes DEF SynSentTimeout, Code
<1>3. CASE ~ (svt.synsent > MaxSyn)
  <2>1. Follows("SYNSENT", "SYNSENT_INIT") /\ "SYNSENT_INIT" \in States
    BY StatesAre DEF Follows, Before, Receivers, Senders
  <2>2. svt.synsent <= MaxSyn
    BY <1>1, <1>3, Half
  <2> QED BY <1>1, <1>3, <2>1, <2>2, Turning DEF SynSentTimeout
<1> QED BY <1>2, <1>3

LEMMA SynReceivedTimeoutKeeps == ASSUME IInv, SynReceivedTimeout PROVE Kept
<1>1. Follows("SYNRECEIVED", "LISTEN_INIT") /\ "LISTEN_INIT" \in States
  BY StatesAre DEF Follows, Before, Receivers, Senders
<1> QED BY <1>1, Turning DEF SynReceivedTimeout, On

LEMMA OverKeeps ==
  ASSUME IInv, NotConnected \/ Left \/ Closed \/ ClosedOnReset \/ Fails
  PROVE  Kept
BY Finishes DEF NotConnected, Left, Closed, ClosedOnReset, Fails, On, Code

LEMMA IgnoredKeeps == ASSUME IInv, Ignored PROVE Kept
BY Handling DEF Ignored, On

\* The states after the user's end, and what each moves to.
LEMMA Ending ==
  /\ \A a \in {"FINWAIT1", "FINWAIT2", "CLOSING", "LASTACK", "TIMEWAIT"} :
       \A b \in {"CLOSED_INIT", "CLOSED", "FINWAIT2_INIT", "CLOSING_INIT", "TIMEWAIT_INIT"} :
         Follows(a, b) /\ b \notin Before \union Receivers /\ b # "SYNSENT_INIT"
  /\ {"CLOSED_INIT", "CLOSED", "FINWAIT2_INIT", "CLOSING_INIT", "TIMEWAIT_INIT"} \subseteq States
BY StatesAre DEF Follows, Before, Receivers, Senders

LEMMA EndTimeoutKeeps == ASSUME IInv, EndTimeout PROVE Kept
<1>1. CASE svt.state = "LASTACK"
  BY <1>1, Ending, Turning DEF EndTimeout, On
<1>2. CASE svt.state # "LASTACK"
  BY <1>2, Ending, Turning DEF EndTimeout, On
<1> QED BY <1>1, <1>2

LEMMA FinWait1SniffKeeps == ASSUME IInv, FinWait1Sniff PROVE Kept
<1> DEFINE p == svt.pkt
<1>1. svt.pc = "machine" /\ svt.state = "FINWAIT1" /\ p.seq \in Num
  BY SniffedIs DEF FinWait1Sniff, On, Packet
<1>2. \/ Becomes(To("CLOSED_INIT", "sniff"))
      \/ Becomes(To("FINWAIT2_INIT", "sniff"))
      \/ Becomes([To("CLOSING_INIT", "sniff") EXCEPT !.remote = p.seq])
      \/ Becomes(Handled("sniff"))
  BY DEF FinWait1Sniff
<1> HIDE DEF p
<1> QED BY <1>1, <1>2, Ending, Turning, TurningAway, Handling

LEMMA FinWait2SniffKeeps == ASSUME IInv, FinWait2Sniff PROVE Kept
<1> DEFINE p == svt.pkt
<1>1. svt.pc = "machine" /\ svt.state = "FINWAIT2" /\ p.seq \in Num
  BY SniffedIs DEF FinWait2Sniff, On, Packet
<1>2. \/ Becomes(To("CLOSED_INIT", "sniff"))
      \/ Becomes([To("TIMEWAIT_INIT", "sniff") EXCEPT !.remote = p.seq])
      \/ Becomes(Handled("sniff"))
  BY DEF FinWait2Sniff
<1> HIDE DEF p
<1> QED BY <1>1, <1>2, Ending, Turning, TurningAway, Handling

LEMMA ClosingSniffKeeps == ASSUME IInv, ClosingSniff PROVE Kept
<1>1. svt.pc = "machine" /\ svt.state = "CLOSING"
  BY DEF ClosingSniff, On
<1>2. \/ Becomes(To("CLOSED_INIT", "sniff"))
      \/ Becomes(To("TIMEWAIT_INIT", "sniff"))
      \/ Becomes(Handled("sniff"))
  BY DEF ClosingSniff
<1> QED BY <1>1, <1>2, Ending, Turning, Handling

LEMMA LastAckSniffKeeps == ASSUME IInv, LastAckSniff PROVE Kept
BY Ending, Turning, Handling DEF LastAckSniff, On

LEMMA TimeWaitKeeps == ASSUME IInv, TimeWait PROVE Kept
BY Ending, Turning, Finishes DEF TimeWait, Code

\* A move that sends bytes with the right numbers.
LEMMA Spoofing ==
  ASSUME IInv, svt.pc = "machine", NEW s \in Thread, NEW bytes, Spoofs(s, bytes),
         \A b \in bytes : RightByte(b), Core(s, user),
         s.events \subseteq svt.events, s.pkt = svt.pkt, s.done = svt.done,
         s.state = "SYNSENT_INIT" => s.synsent <= MaxSyn,
         NoAckOfZero /\ Acks(svt) => Acks(s)
  PROVE  Kept
<1>1. WireInv'
  <2>1. \A b \in wire' : RightByte(b)
    BY DEF Spoofs, IInv, WireInv
  <2> QED BY <2>1 DEF WireInv, RightByte
<1> QED BY <1>1, Quiet DEF Spoofs

LEMMA SendSynKeeps == ASSUME IInv, SendSyn PROVE Kept
<1> DEFINE s == [svt EXCEPT !.state = "SYNSENT", !.local = Isn, !.timed = TRUE,
                            !.synsent = svt.synsent + 1]
<1>1. /\ svt \in Thread /\ svt.pc = "machine" /\ svt.state = "SYNSENT_INIT"
      /\ svt.synsent <= MaxSyn /\ Core(svt, user) /\ Spoofs(s, {<<Isn, SYN>>})
  BY DEF IInv, ThreadInv, Runs, SendSyn
<1>2. svt.synsent \in 0 .. MaxSyn + 1 /\ svt.synsent + 1 \in 0 .. MaxSyn + 1
  BY <1>1, Half DEF Thread
<1>3. /\ s \in Thread /\ s.state = "SYNSENT" /\ s.local = Isn /\ s.events = svt.events
      /\ s.pkt = svt.pkt /\ s.done = svt.done /\ s.usrbuf = svt.usrbuf
      /\ s.sentsize = svt.sentsize /\ s.lastack = svt.lastack
  BY <1>1, <1>2, Half, StatesAre DEF Thread
<1> HIDE DEF s
<1>4. Core(s, user)
  BY <1>1, <1>3 DEF Core, Numbered, Fresh, Buffer, Before, Receivers, Senders
<1>5. RightByte(<<Isn, SYN>>)
  BY DEF RightByte
<1>6. Acks(svt) => Acks(s)
  BY <1>3 DEF Acks, Senders, Receivers
<1> QED BY <1>1, <1>3, <1>4, <1>5, <1>6, Spoofing

LEMMA First ==
  /\ Plus(Isn, 1) \in Num /\ Plus(RemoteIsn, 1) = NumberOf(0) /\ NumberOf(0) \in Num
<1>1. 0 + 1 = 1
  OBVIOUS
<1> QED BY <1>1, Half, PlusIs DEF NumberOf

LEMMA ListenSniffKeeps == ASSUME IInv, ListenSniff PROVE Kept
<1> DEFINE p == svt.pkt
           s == [To("SYNRECEIVED_INIT", "sniff") EXCEPT !.remote = Plus(p.seq, 1),
                   !.local = Plus(Isn, 1), !.begin = Plus(Isn, 1)]
<1>1. /\ svt \in Thread /\ svt.pc = "machine" /\ svt.state = "LISTEN" /\ Core(svt, user)
      /\ p \in Packet /\ Carries(p)
  BY SniffedIs DEF IInv, ThreadInv, ListenSniff, On
<1>2. CASE p.flags = {"syn"}
  <2>1. Spoofs(s, {<<Isn, SYN>>})
    BY <1>2 DEF ListenSniff
  <2>2. Plus(p.seq, 1) = NumberOf(0)
    BY <1>1, <1>2, First DEF Carries
  <2>3. /\ s \in Thread /\ s.state = "SYNRECEIVED_INIT" /\ s.events \subseteq svt.events
        /\ s.pkt = svt.pkt /\ s.done = svt.done /\ s.usrbuf = svt.usrbuf
        /\ s.sentsize = svt.sentsize /\ s.local = Plus(Isn, 1) /\ s.begin = Plus(Isn, 1)
        /\ s.remote = NumberOf(0) /\ s.lastack = svt.lastack
    BY <1>1, <2>2, First, StatesAre DEF Thread, To, Handled
  <2> HIDE DEF s
  <2>4. Core(s, user)
    BY <1>1, <2>3 DEF Core, Numbered, Fresh, Buffer, Before, Receivers, Senders
  <2>5. RightByte(<<Isn, SYN>>)
    BY DEF RightByte
  <2>6. Acks(svt) => Acks(s)
    BY <2>3 DEF Acks, Senders, Receivers
  <2> QED BY <1>1, <2>1, <2>3, <2>4, <2>5, <2>6, Spoofing
<1>3. CASE p.flags # {"syn"}
  BY <1>1, <1>3, Handling DEF ListenSniff
<1> QED BY <1>2, <1>3

\* The handshake is done: the streams begin.
LEMMA Connects ==
  ASSUME IInv, svt.pc = "machine", svt.state \in Before, NEW s \in Thread, HandshakeDone(s),
         s.local = Plus(Isn, 1), s.begin = Plus(Isn, 1), s.remote = NumberOf(0),
         s.usrbuf = svt.usrbuf, s.sentsize = svt.sentsize,
         s.pkt = svt.pkt, s.events \subseteq svt.events, s.lastack = svt.lastack
  PROVE  Kept
<1> DEFINE n == [s EXCEPT !.state = "ESTABLISHED_INIT", !.done = TRUE]
           u == [user EXCEPT !.answers = Append(user.answers, "OK")]
<1>1. /\ svt \in Thread /\ Core(svt, user) /\ Answered(svt, user) /\ UserInv(user)
  BY DEF IInv, ThreadInv
<1>2. ~ svt.done /\ user.answers = <<>> /\ svt.usrbuf = <<>> /\ svt.sentsize = 0
      /\ user.tlv = <<>> /\ user.written = 0 /\ user.got = <<>>
  BY <1>1 DEF Core, Numbered, Fresh, Answered
<1>3. Append(user.answers, "OK") = <<"OK">> /\ <<"OK">> \in Seq(Code)
  BY <1>2 DEF Code
<1>4. /\ n \in Thread /\ n.state = "ESTABLISHED_INIT" /\ n.done /\ n.local = Plus(Isn, 1)
      /\ n.begin = Plus(Isn, 1) /\ n.remote = NumberOf(0) /\ n.usrbuf = <<>>
      /\ n.sentsize = 0 /\ n.pkt = svt.pkt /\ n.events \subseteq svt.events
      /\ n.lastack = svt.lastack
  BY <1>2, StatesAre DEF Thread
<1>5. /\ u \in User /\ u.answers = <<"OK">> /\ u.tlv = <<>> /\ u.written = 0 /\ u.got = <<>>
  BY <1>1, <1>2, <1>3 DEF UserInv, User
<1>6. svt' = Settled(n) /\ user' = u /\ remote' = remote /\ wire' = wire
  BY DEF HandshakeDone
<1> HIDE DEF n, u
<1>7. UserInv(u)
  BY <1>1, <1>2, <1>5 DEF UserInv, Records
<1>8. Numbered(n, u)
  <2>1. Len(u.got) = 0
    BY <1>5
  <2> QED BY <1>4, <2>1 DEF Numbered, Before, Receivers
<1>9. Fresh(n, u)
  BY <1>4 DEF Fresh
<1>10. Buffer(n, u)
  <2>1. 1 + 0 = 1 /\ 0 \in 0 .. UsrLen /\ 0 \in 0 .. UsrLen + 1
    BY Half
  <2>2. Out(n) = 0
    BY <1>4, <2>1, OutIs
  <2>3. FirstUnread(u) = 1
    BY <1>5, <2>1 DEF FirstUnread
  <2>4. n.local = Plus(n.begin, 0)
    BY <1>4, First, PlusIs, Half DEF Num
  <2>5. Len(n.usrbuf) = 0 /\ n.usrbuf = Numbers(0, 0)
    <3>1. n.usrbuf = <<>>
      BY <1>4
    <3> QED BY <3>1, NoNumbers
  <2> QED BY <1>4, <2>1, <2>2, <2>3, <2>4, <2>5 DEF Buffer
<1>11. WireInv'
  BY <1>6 DEF IInv, WireInv, RightByte
<1>12. Acks(svt) => Acks(n)
  <2>1. 1 + 0 = 1 /\ 0 \in 0 .. UsrLen + 1
    BY Half
  <2>2. Out(n) = 0
    BY <1>4, <2>1, OutIs
  <2>3. 0 <= Len(remote.got)
    <3>1. remote.got \in Seq((1 .. UsrLen) \union {FIN})
      BY DEF IInv, RemoteInv, Remote
    <3> QED BY <3>1, LenProperties
  <2> QED BY <1>4, <2>2, <2>3 DEF Acks
<1> QED BY <1>4, <1>5, <1>6, <1>7, <1>8, <1>9, <1>10, <1>11, <1>12, Steps DEF Core

LEMMA SynSentSniffKeeps == ASSUME IInv, SynSentSniff PROVE Kept
<1> DEFINE p == svt.pkt
           s == [Handled("sniff") EXCEPT !.local = Plus(@, 1),
                   !.begin = Plus(svt.local, 1), !.remote = Plus(p.seq, 1)]
<1>1. /\ svt \in Thread /\ svt.pc = "machine" /\ svt.state = "SYNSENT" /\ Core(svt, user)
      /\ p \in Packet /\ Carries(p) /\ svt.local = Isn
  <2>1. /\ svt \in Thread /\ Core(svt, user) /\ On({"SYNSENT"}, "sniff")
    BY DEF IInv, ThreadInv, SynSentSniff
  <2>2. p \in Packet /\ Carries(p)
    BY <2>1, SniffedIs
  <2> QED BY <2>1, <2>2 DEF On, Core, Numbered
<1>2. \/ Over("RST")
      \/ p.flags = {"syn", "ack"} /\ HandshakeDone(s)
      \/ Becomes(Handled("sniff"))
  BY DEF SynSentSniff
<1>3. ASSUME p.flags = {"syn", "ack"}, HandshakeDone(s) PROVE Kept
  <2>1. "syn" \in p.flags
    BY <1>3
  <2>2. Plus(p.seq, 1) = NumberOf(0)
    BY <1>1, <2>1, First DEF Carries
  <2>3. /\ s \in Thread /\ s.events \subseteq svt.events
        /\ s.pkt = svt.pkt /\ s.usrbuf = svt.usrbuf
        /\ s.sentsize = svt.sentsize /\ s.local = Plus(Isn, 1) /\ s.begin = Plus(Isn, 1)
        /\ s.remote = NumberOf(0) /\ s.lastack = svt.lastack
    BY <1>1, <2>2, First DEF Thread, Handled
  <2> HIDE DEF s
  <2>4. svt.state \in Before
    BY <1>1 DEF Before
  <2> QED BY <1>1, <1>3, <2>3, <2>4, Connects
<1> HIDE DEF s, p
<1> QED BY <1>1, <1>2, <1>3, Finishes, Handling DEF Code

LEMMA SynReceivedSniffKeeps == ASSUME IInv, SynReceivedSniff PROVE Kept
<1>1. /\ svt \in Thread /\ svt.pc = "machine" /\ svt.state = "SYNRECEIVED" /\ Core(svt, user)
      /\ svt.state \in Before
  BY DEF IInv, ThreadInv, SynReceivedSniff, On, Before
<1>2. \/ HandshakeDone(Handled("sniff"))
      \/ Becomes(Handled("sniff"))
  BY DEF SynReceivedSniff
<1>3. ASSUME HandshakeDone(Handled("sniff")) PROVE Kept
  <2> DEFINE s == Handled("sniff")
  <2>1. /\ s \in Thread /\ s.events \subseteq svt.events
        /\ s.pkt = svt.pkt /\ s.usrbuf = svt.usrbuf
        /\ s.sentsize = svt.sentsize /\ s.local = svt.local /\ s.begin = svt.begin
        /\ s.remote = svt.remote /\ s.lastack = svt.lastack
    BY <1>1 DEF Thread, Handled
  <2>2. svt.local = Plus(Isn, 1) /\ svt.begin = Plus(Isn, 1) /\ svt.remote = NumberOf(0)
    BY <1>1 DEF Core, Numbered
  <2>3. HandshakeDone(s)
    BY <1>3
  <2> HIDE DEF s
  <2> QED BY <1>1, <2>1, <2>2, <2>3, Connects
<1> QED BY <1>1, <1>2, <1>3, Handling

-----------------------------------------------------------------------------
(* The buffer *)

LEMMA FirstUnreadIs ==
  ASSUME NEW u, UserInv(u) PROVE FirstUnread(u) \in 1 .. UsrLen + 1
<1>1. CASE u.tlv = <<>>
  <2>1. u.written \in 0 .. UsrLen
    BY DEF UserInv, User
  <2> QED BY <1>1, <2>1, Half DEF FirstUnread
<1>2. CASE u.tlv # <<>>
  <2>1. u.tlv \in Seq(Seq(1 .. UsrLen)) /\ Len(u.tlv) \in Nat /\ DOMAIN u.tlv = 1 .. Len(u.tlv)
    BY LenProperties DEF UserInv, User
  <2>2. 1 \in DOMAIN u.tlv
    BY <1>2, <2>1, EmptySeq
  <2>3. u.tlv[1] \in Seq(1 .. UsrLen) /\ Len(u.tlv[1]) >= 1
    BY <2>1, <2>2, ElementOfSeq DEF UserInv, Records
  <2> DEFINE r == u.tlv[1]
  <2> HIDE DEF r
  <2>4. r[1] \in 1 .. UsrLen
    <3>1. r \in Seq(1 .. UsrLen) /\ Len(r) \in Nat /\ Len(r) >= 1
      BY <2>3, LenProperties DEF r
    <3>2. 1 \in 1 .. Len(r)
      BY <3>1
    <3> QED BY <3>1, <3>2, ElementOfSeq
  <2>5. FirstUnread(u) = r[1]
    BY <1>2 DEF FirstUnread, r
  <2> QED BY <2>4, <2>5, Half
<1> QED BY <1>1, <1>2

\* Where the numbers are while data can be sent: k bytes left the buffer, m are
\* in it.
LEMMA BufferIs ==
  ASSUME NEW s \in Thread, NEW u, UserInv(u), Buffer(s, u), s.state \in Senders
  PROVE  \E k \in 0 .. UsrLen, m \in 0 .. UsrLen :
           /\ k = Out(s) /\ m = Len(s.usrbuf) /\ k + m = FirstUnread(u) - 1 /\ k + m <= UsrLen
           /\ s.begin = Plus(Isn, 1 + k) /\ s.usrbuf = Numbers(k, m)
           /\ s.sentsize \in 0 .. m
           /\ s.local = Plus(Isn, 1 + k + s.sentsize)
<1> DEFINE k == Out(s)
           m == FirstUnread(u) - 1 - Out(s)
<1>1. /\ k \in 0 .. UsrLen /\ s.begin = Plus(Isn, 1 + k) /\ k < FirstUnread(u)
      /\ s.local = Plus(s.begin, s.sentsize) /\ s.sentsize <= Len(s.usrbuf)
      /\ s.usrbuf = Numbers(k, m)
  BY DEF Buffer
<1>2. FirstUnread(u) \in 1 .. UsrLen + 1 /\ s.sentsize \in 0 .. UsrLen
  BY FirstUnreadIs DEF Thread
<1> HIDE DEF k
<1>3. k \in Int /\ m \in 0 .. UsrLen /\ k + m = FirstUnread(u) - 1 /\ k + m <= UsrLen
  BY <1>1, <1>2, Half, SMTT(30) DEF k
<1>4. Len(s.usrbuf) = m
  BY <1>1, <1>3, NumbersAre
<1> HIDE DEF m
<1>5. s.sentsize \in 0 .. m
  BY <1>1, <1>2, <1>3, <1>4
<1>6. Plus(Plus(Isn, 1 + k), s.sentsize) = Plus(Isn, 1 + k + s.sentsize)
  <2>1. /\ 1 + k \in Int /\ s.sentsize \in Int
        /\ - NumMod <= 2 * (1 + k) /\ 2 * (1 + k) <= NumMod
        /\ - NumMod <= 2 * s.sentsize /\ 2 * s.sentsize <= NumMod
    BY <1>1, <1>2, Half
  <2> HIDE DEF k
  <2> QED BY <2>1, PlusPlus, Half
<1> QED BY <1>1, <1>3, <1>4, <1>5, <1>6 DEF k

LEMMA EndByte ==
  ASSUME IInv, svt.state \in Senders PROVE RightByte(<<svt.local, FIN>>)
<1>1. svt \in Thread /\ UserInv(user) /\ Buffer(svt, user)
  BY DEF IInv, ThreadInv, Core
<1>2. PICK k \in 0 .. UsrLen, m \in 0 .. UsrLen :
        /\ k + m <= UsrLen /\ svt.sentsize \in 0 .. m
        /\ svt.local = Plus(Isn, 1 + k + svt.sentsize)
  BY <1>1, BufferIs
<1>3. 1 + k + svt.sentsize \in 1 .. UsrLen + 1
  BY <1>2, Half
<1> QED BY <1>2, <1>3 DEF RightByte

LEMMA EstablishedUsrEndKeeps == ASSUME IInv, EstablishedUsrEnd PROVE Kept
<1> DEFINE s == [To("FINWAIT1_INIT", "usrend") EXCEPT !.local = Plus(@, 1)]
<1>1. /\ svt \in Thread /\ svt.pc = "machine" /\ svt.state = "ESTABLISHED" /\ Core(svt, user)
      /\ Spoofs(s, {<<svt.local, FIN>>})
  BY DEF IInv, ThreadInv, EstablishedUsrEnd, On
<1>2. Plus(svt.local, 1) \in Num
  <2>1. svt.local \in Num
    BY <1>1 DEF Thread
  <2> QED BY <2>1, PlusIs, Half
<1>3. /\ s \in Thread /\ s.state = "FINWAIT1_INIT" /\ s.events \subseteq svt.events
      /\ s.pkt = svt.pkt /\ s.done = svt.done /\ s.usrbuf = svt.usrbuf
      /\ s.sentsize = svt.sentsize /\ s.lastack = svt.lastack
  BY <1>1, <1>2, StatesAre DEF Thread, To, Handled
<1> HIDE DEF s
<1>4. /\ Follows("ESTABLISHED", "FINWAIT1_INIT")
      /\ "FINWAIT1_INIT" \notin Before \union Senders \union Receivers
  BY DEF Follows, Before, Receivers, Senders
<1>5. Core(s, user)
  BY <1>1, <1>3, <1>4, Moves
<1>6. RightByte(<<svt.local, FIN>>)
  BY <1>1, EndByte DEF Senders, Receivers
<1>7. Acks(svt) => Acks(s)
  BY <1>3, <1>4 DEF Acks
<1> QED BY <1>1, <1>3, <1>5, <1>6, <1>7, Spoofing

LEMMA CloseWaitEndKeeps == ASSUME IInv, CloseWaitEnd PROVE Kept
<1> DEFINE s == To("LASTACK_INIT", "timeout")
<1>1. /\ svt \in Thread /\ svt.pc = "machine" /\ svt.state = "CLOSEWAIT" /\ Core(svt, user)
      /\ Spoofs(s, {<<svt.local, FIN>>})
  BY DEF IInv, ThreadInv, CloseWaitEnd, On
<1>3. /\ s \in Thread /\ s.state = "LASTACK_INIT" /\ s.events \subseteq svt.events
      /\ s.pkt = svt.pkt /\ s.done = svt.done /\ s.usrbuf = svt.usrbuf
      /\ s.sentsize = svt.sentsize /\ s.lastack = svt.lastack
  BY <1>1, StatesAre DEF Thread, To, Handled
<1> HIDE DEF s
<1>4. /\ Follows("CLOSEWAIT", "LASTACK_INIT")
      /\ "LASTACK_INIT" \notin Before \union Senders \union Receivers
  BY DEF Follows, Before, Receivers, Senders
<1>5. Core(s, user)
  BY <1>1, <1>3, <1>4, Moves
<1>6. RightByte(<<svt.local, FIN>>)
  BY <1>1, EndByte DEF Senders, Receivers
<1>7. Acks(svt) => Acks(s)
  BY <1>3, <1>4 DEF Acks
<1> QED BY <1>1, <1>3, <1>5, <1>6, <1>7, Spoofing

\* What is acknowledged leaves the buffer.
LEMMA Releases ==
  ASSUME NEW s \in Thread, NEW u, UserInv(u), Core(s, u), s.state \in Senders,
         Signed(s.lastack - s.begin) > 0, Signed(s.lastack - s.begin) <= s.sentsize
  PROVE  LET r == Released(s, Signed(s.lastack - s.begin))
         IN  /\ r \in Thread /\ Core(r, u)
             /\ Out(r) = Out(s) + Signed(s.lastack - s.begin)
<1> DEFINE d == Signed(s.lastack - s.begin)
           r == Released(s, d)
<1>1. PICK k \in 0 .. UsrLen, m \in 0 .. UsrLen :
        /\ k = Out(s) /\ m = Len(s.usrbuf) /\ k + m = FirstUnread(u) - 1 /\ k + m <= UsrLen
        /\ s.begin = Plus(Isn, 1 + k) /\ s.usrbuf = Numbers(k, m)
        /\ s.sentsize \in 0 .. m
        /\ s.local = Plus(Isn, 1 + k + s.sentsize)
  BY BufferIs DEF Core
<1>2. s.lastack \in Num /\ s.begin \in Num
  BY DEF Thread
<1>3. d \in 1 .. m /\ d <= s.sentsize /\ Plus(s.begin, d) = s.lastack
  BY <1>1, <1>2, SignedIs
<1> HIDE DEF d
<1>4. s.lastack = Plus(Isn, 1 + (k + d))
  <2>1. /\ 1 + k \in Int /\ d \in Int
        /\ - NumMod <= 2 * (1 + k) /\ 2 * (1 + k) <= NumMod
        /\ - NumMod <= 2 * d /\ 2 * d <= NumMod
    BY <1>1, <1>3, Half
  <2>2. Plus(Plus(Isn, 1 + k), d) = Plus(Isn, 1 + k + d)
    BY <2>1, PlusPlus, Half
  <2>3. 1 + k + d = 1 + (k + d)
    BY <2>1
  <2> QED BY <1>1, <1>3, <2>2, <2>3
<1>5. SubSeq(s.usrbuf, d + 1, Len(s.usrbuf)) = Numbers(k + d, m - d)
  <2>1. d \in 0 .. m /\ k \in Int /\ m \in Nat
    BY <1>1, <1>3
  <2> QED BY <1>1, <2>1, NumbersRest
<1>6. /\ k + d \in 0 .. UsrLen /\ m - d \in Nat /\ (k + d) + (m - d) = k + m
      /\ s.sentsize - d \in 0 .. UsrLen /\ s.sentsize - d <= m - d
  BY <1>1, <1>3, Half
<1>7. Numbers(k + d, m - d) \in Seq(1 .. UsrLen) /\ Len(Numbers(k + d, m - d)) = m - d
  BY <1>1, <1>6, NumbersAre, Half
<1>8. /\ r \in Thread /\ r.usrbuf = Numbers(k + d, m - d) /\ r.begin = Plus(Isn, 1 + (k + d))
      /\ r.sentsize = s.sentsize - d /\ r.local = s.local /\ r.remote = s.remote
      /\ r.state = s.state /\ r.done = s.done
  BY <1>2, <1>4, <1>5, <1>6, <1>7 DEF Released, Thread
<1> HIDE DEF r
<1>9. Out(r) = k + d
  <2>1. k + d \in 0 .. UsrLen + 1
    BY <1>6, Half
  <2> QED BY <2>1, <1>8, OutIs
<1>10. r.local = Plus(r.begin, r.sentsize)
  <2>1. /\ 1 + (k + d) \in Int /\ s.sentsize - d \in Int
        /\ - NumMod <= 2 * (1 + (k + d)) /\ 2 * (1 + (k + d)) <= NumMod
        /\ - NumMod <= 2 * (s.sentsize - d) /\ 2 * (s.sentsize - d) <= NumMod
    BY <1>6, Half
  <2>2. Plus(Plus(Isn, 1 + (k + d)), s.sentsize - d) = Plus(Isn, 1 + (k + d) + (s.sentsize - d))
    BY <2>1, PlusPlus, Half
  <2>3. 1 + (k + d) + (s.sentsize - d) = 1 + k + s.sentsize
    BY <1>1, <1>3, SMTT(20)
  <2> QED BY <1>1, <1>8, <2>2, <2>3
<1>11. Buffer(r, u)
  <2>1. k + d < FirstUnread(u) /\ FirstUnread(u) - 1 - (k + d) = m - d
    BY <1>1, <1>3, <1>6, FirstUnreadIs, SMTT(30)
  <2> QED BY <1>6, <1>7, <1>8, <1>9, <1>10, <2>1 DEF Buffer
<1>12. Numbered(r, u) /\ Fresh(r, u)
  BY <1>8 DEF Core, Numbered, Fresh, Senders, Receivers, Before
<1> QED BY <1>1, <1>8, <1>9, <1>11, <1>12 DEF Core, d, r

\* What was not sent yet: the numbers after the z first ones of the buffer.
LEMMA UnsentIs ==
  ASSUME NEW r \in Thread, NEW u, UserInv(u), Core(r, u), r.state \in Senders
  PROVE  \E k \in 0 .. UsrLen, m \in 0 .. UsrLen, z \in 0 .. UsrLen :
           /\ k = Out(r) /\ m = Len(r.usrbuf) /\ z = r.sentsize
           /\ k + m <= UsrLen /\ z <= m
           /\ r.begin = Plus(Isn, 1 + k) /\ r.local = Plus(Isn, 1 + k + z)
           /\ Len(Unsent(r)) = m - z
           /\ \A i \in 1 .. m - z : Unsent(r)[i] = k + z + i
<1>1. Buffer(r, u)
  BY DEF Core
<1>2. PICK k \in 0 .. UsrLen, m \in 0 .. UsrLen :
        /\ k = Out(r) /\ m = Len(r.usrbuf) /\ k + m = FirstUnread(u) - 1 /\ k + m <= UsrLen
        /\ r.begin = Plus(Isn, 1 + k) /\ r.usrbuf = Numbers(k, m)
        /\ r.sentsize \in 0 .. m
        /\ r.local = Plus(Isn, 1 + k + r.sentsize)
  BY <1>1, BufferIs
<1> DEFINE z == r.sentsize
<1>3. z \in 0 .. m /\ z \in 0 .. UsrLen /\ z <= m
  BY <1>2 DEF Thread
<1>4. Unsent(r) = SubSeq(Numbers(k, m), z + 1, Len(Numbers(k, m)))
  BY <1>2 DEF Unsent
<1> HIDE DEF z
<1>5. k \in Int /\ m \in Nat /\ k + z \in Int /\ m - z \in Nat
  BY <1>3, Half
<1>6. Unsent(r) = Numbers(k + z, m - z)
  BY <1>3, <1>4, <1>5, NumbersRest
<1>7. Len(Unsent(r)) = m - z /\ \A i \in 1 .. m - z : Unsent(r)[i] = k + z + i
  <2>1. ASSUME NEW a \in Int, NEW c \in Nat
        PROVE  Len(Numbers(a, c)) = c /\ \A i \in 1 .. c : Numbers(a, c)[i] = a + i
    BY NumbersAre
  <2> QED BY <1>5, <1>6, <2>1
<1> QED BY <1>2, <1>3, <1>7 DEF z

\* What is sent from the buffer goes on with the right numbers.
LEMMA Sends ==
  ASSUME NEW r \in Thread, NEW u, UserInv(u), Core(r, u), r.state \in Senders,
         NEW n \in Nat, n <= Len(Unsent(r))
  PROVE  /\ n \in 0 .. UsrLen /\ r.sentsize + n \in 0 .. Len(r.usrbuf)
         /\ Plus(r.local, n) = Plus(Isn, 1 + Out(r) + (r.sentsize + n))
         /\ Plus(r.local, n) \in Num
         /\ \A i \in 1 .. n : RightByte(<<Plus(r.local, i - 1), Unsent(r)[i]>>)
<1>1. PICK k \in 0 .. UsrLen, m \in 0 .. UsrLen, z \in 0 .. UsrLen :
        /\ k = Out(r) /\ m = Len(r.usrbuf) /\ z = r.sentsize
        /\ k + m <= UsrLen /\ z <= m
        /\ r.begin = Plus(Isn, 1 + k) /\ r.local = Plus(Isn, 1 + k + z)
        /\ Len(Unsent(r)) = m - z
        /\ \A i \in 1 .. m - z : Unsent(r)[i] = k + z + i
  BY UnsentIs
<1>2. k \in Nat /\ m \in Nat /\ z \in Nat /\ n \in Nat /\ UsrLen \in Nat
  BY Half
<1>3. z <= m /\ k + m <= UsrLen /\ n <= m - z
  BY <1>1
<1>5. n \in 0 .. UsrLen /\ z + n \in 0 .. m
  BY <1>2, <1>3
<1>6. ASSUME NEW i \in 0 .. UsrLen, z + i <= m
      PROVE  Plus(r.local, i) = Plus(Isn, 1 + k + (z + i))
  <2>1. /\ 1 + k + z \in Int /\ i \in Int
        /\ - NumMod <= 2 * (1 + k + z) /\ 2 * (1 + k + z) <= NumMod
        /\ - NumMod <= 2 * i /\ 2 * i <= NumMod
    BY <1>2, <1>3, Half
  <2>2. Plus(Plus(Isn, 1 + k + z), i) = Plus(Isn, 1 + k + z + i)
    BY <2>1, PlusPlus, Half
  <2>3. 1 + k + z + i = 1 + k + (z + i)
    BY <1>2
  <2> QED BY <1>1, <2>2, <2>3
<1>7. Plus(r.local, n) \in Num
  <2>1. 1 + k + (z + n) \in Int /\ 0 <= 1 + k + (z + n) /\ 1 + k + (z + n) <= NumMod
    BY <1>2, <1>3, Half
  <2>2. Plus(Isn, 1 + k + (z + n)) \in Num
    BY <2>1, PlusIs, Half
  <2> QED BY <1>5, <1>6, <2>2
<1>8. ASSUME NEW i \in 1 .. n
      PROVE  RightByte(<<Plus(r.local, i - 1), Unsent(r)[i]>>)
  <2>1. i \in 1 .. m - z /\ i - 1 \in 0 .. UsrLen /\ z + (i - 1) <= m
    BY <1>2, <1>3
  <2>2. Plus(r.local, i - 1) = Plus(Isn, 1 + k + (z + (i - 1)))
    BY <1>6, <2>1
  <2>3. 1 + k + (z + (i - 1)) = k + z + i /\ k + z + i \in 1 .. UsrLen
    BY <1>2, <1>3, <2>1
  <2>4. Unsent(r)[i] = k + z + i
    BY <1>1, <2>1
  <2> QED BY <2>2, <2>3, <2>4 DEF RightByte
<1> QED BY <1>1, <1>5, <1>6, <1>7, <1>8

\* The number that the buffer starts with is one that the remote host acknowledges.
LEMMA SentIsAcked ==
  ASSUME IInv, NEW s \in Thread, Core(s, user), s.state \in Senders, Acks(s)
  PROVE  s.begin \in Acked
<1>1. Out(s) \in 0 .. UsrLen /\ s.begin = Plus(Isn, 1 + Out(s)) /\ Out(s) <= Len(remote.got)
  BY DEF Core, Buffer, Acks
<1>2. Len(remote.got) \in Nat
  BY GotIs, Half DEF IInv
<1>3. Out(s) \in 0 .. Len(remote.got) /\ 1 + Out(s) = Out(s) + 1
  BY <1>1, <1>2, Half
<1> QED BY <1>1, <1>3 DEF Acked

\* What leaves the buffer is what the remote host has.
LEMMA ReleasesAcked ==
  ASSUME IInv, NoAckOfZero, NEW s \in Thread, Core(s, user), s.state \in Senders, Acks(s),
         Signed(s.lastack - s.begin) > 0, Signed(s.lastack - s.begin) <= s.sentsize
  PROVE  Out(s) + Signed(s.lastack - s.begin) <= Len(remote.got)
<1> DEFINE d == Signed(s.lastack - s.begin)
           k == Out(s) + d
           G == Len(remote.got)
<1>1. k \in 1 .. UsrLen /\ s.lastack = Plus(Isn, 1 + k)
  <2> DEFINE r == Released(s, d)
  <2>1. r \in Thread /\ Core(r, user) /\ Out(r) = k
    BY Releases DEF IInv
  <2>2. r.begin = s.lastack /\ r.state = s.state
    BY DEF Released, Thread
  <2> HIDE DEF r
  <2>3. k \in 0 .. UsrLen /\ r.begin = Plus(Isn, 1 + k)
    BY <2>1, <2>2 DEF Core, Buffer
  <2>4. Out(s) \in 0 .. UsrLen /\ d \in Int
    BY SignedIs DEF Core, Buffer, Thread
  <2> HIDE DEF d
  <2>5. Out(s) + d \in 1 .. UsrLen
    BY <2>3, <2>4, Half DEF d
  <2> QED BY <2>2, <2>3, <2>5
<1>2. G \in 0 .. UsrLen + 1
  BY GotIs DEF IInv
<1> HIDE DEF k, G
<1>3. s.lastack # 0
  <2>1. 1 + k \in 2 .. UsrLen + 1
    BY <1>1, Half
  <2> QED BY <1>1, <2>1 DEF NoAckOfZero
<1>4. PICK j \in 0 .. G : s.lastack = Plus(Isn, j + 1)
  BY <1>3 DEF Acks, Acked, G
<1>5. 1 + k = j + 1
  <2>1. /\ 1 + k \in Int /\ j + 1 \in Int
        /\ - NumMod <= 2 * (1 + k) /\ 2 * (1 + k) < NumMod
        /\ - NumMod <= 2 * (j + 1) /\ 2 * (j + 1) < NumMod
    BY <1>1, <1>2, Half
  <2> QED BY <1>1, <1>4, <2>1, SamePlace, Half
<1>6. k <= G
  BY <1>1, <1>2, <1>5, Half
<1> QED BY <1>6 DEF k, d, G

LEMMA SpoofsBufferKeeps ==
  ASSUME IInv, svt.pc = "machine", NEW s \in Thread, Core(s, user), s.state \in Senders,
         s.events \subseteq svt.events, s.pkt = svt.pkt, s.done = svt.done,
         NoAckOfZero /\ Acks(svt) => Acks(s), SpoofsBuffer(s)
  PROVE  Kept
<1> DEFINE d == Signed(s.lastack - s.begin)
           r == IF d > 0 THEN Released(s, d) ELSE s
           n == Least(Room(r), Len(Unsent(r)))
           a == [s EXCEPT !.lastack = s.begin, !.lastwin = 0, !.events = s.events \ {"usr"}]
           b == [r EXCEPT !.local = Plus(r.local, n), !.sentsize = r.sentsize + n,
                          !.events = r.events \ {"usr"}]
<1>0. UserInv(user) /\ s.state # "SYNSENT_INIT"
  BY DEF IInv, Senders, Receivers
<1>1. \/ d > s.sentsize /\ Becomes(a)
      \/ /\ d <= s.sentsize
         /\ Spoofs(b, {<<Plus(r.local, i - 1), Unsent(r)[i]>> : i \in 1 .. n})
  BY DEF SpoofsBuffer
<1>2. ASSUME Becomes(a) PROVE Kept
  <2>1. /\ a \in Thread /\ a.events \subseteq svt.events /\ a.pkt = svt.pkt /\ a.done = s.done
        /\ a.usrbuf = s.usrbuf /\ a.begin = s.begin /\ a.local = s.local
        /\ a.remote = s.remote /\ a.sentsize = s.sentsize /\ a.state = s.state
        /\ a.lastack = s.begin
    BY DEF Thread
  <2>2. Becomes(a)
    BY <1>2
  <2> HIDE DEF a
  <2>3. Core(a, user)
    BY <2>1, CoreSees
  <2>4. WireInv'
    BY <2>2 DEF Becomes, IInv, WireInv, RightByte
  <2>5. Acks(s) => Acks(a)
    BY <1>0, <2>1, SentIsAcked DEF Acks, Out
  <2> QED BY <1>0, <2>1, <2>2, <2>3, <2>4, <2>5, Quiet DEF Becomes
<1>3. ASSUME d <= s.sentsize,
             Spoofs(b, {<<Plus(r.local, i - 1), Unsent(r)[i]>> : i \in 1 .. n})
      PROVE  Kept
  <2>1. /\ r \in Thread /\ Core(r, user) /\ r.state = s.state /\ r.done = s.done
        /\ r.events = s.events /\ r.pkt = s.pkt /\ r.lastack = s.lastack
    <3>1. CASE d > 0
      BY <1>0, <1>3, <3>1, Releases DEF Released, Thread
    <3>2. CASE ~ (d > 0)
      BY <3>2
    <3> QED BY <3>1, <3>2
  <2>12. NoAckOfZero /\ Acks(s) => Acks(r)
    <3> SUFFICES ASSUME NoAckOfZero, Acks(s) PROVE Acks(r)
      OBVIOUS
    <3>1. CASE d > 0
      <4>1. Out(r) = Out(s) + d
        BY <1>0, <1>3, <3>1, Releases
      <4>2. Out(s) + d <= Len(remote.got)
        BY <1>3, <3>1, ReleasesAcked
      <4> QED BY <2>1, <4>1, <4>2 DEF Acks
    <3>2. CASE ~ (d > 0)
      BY <3>2
    <3> QED BY <3>1, <3>2
  <2> HIDE DEF r
  <2>2. n \in Nat /\ n <= Len(Unsent(r))
    <3>1. Room(r) \in Nat
      BY <2>1, Half DEF Room, Thread
    <3>2. Len(Unsent(r)) \in Nat
      <4>1. PICK k \in 0 .. UsrLen, m \in 0 .. UsrLen, z \in 0 .. UsrLen :
              z <= m /\ Len(Unsent(r)) = m - z
        BY <1>0, <2>1, UnsentIs
      <4> QED BY <4>1, Half
    <3> QED BY <3>1, <3>2 DEF Least
  <2> DEFINE bytes == {<<Plus(r.local, i - 1), Unsent(r)[i]>> : i \in 1 .. n}
  <2> HIDE DEF n
  <2>3. /\ n \in 0 .. UsrLen /\ r.sentsize + n \in 0 .. Len(r.usrbuf)
        /\ Plus(r.local, n) = Plus(Isn, 1 + Out(r) + (r.sentsize + n))
        /\ Plus(r.local, n) \in Num
        /\ \A i \in 1 .. n : RightByte(<<Plus(r.local, i - 1), Unsent(r)[i]>>)
    BY <1>0, <2>1, <2>2, Sends
  <2>4. PICK k \in 0 .. UsrLen, m \in 0 .. UsrLen :
          /\ k = Out(r) /\ m = Len(r.usrbuf) /\ k + m <= UsrLen
          /\ r.begin = Plus(Isn, 1 + k)
    BY <1>0, <2>1, BufferIs DEF Core
  <2>5. r.sentsize + n \in 0 .. UsrLen /\ r.sentsize + n <= m
    <3>1. \A x \in 0 .. m : x \in 0 .. UsrLen /\ x <= m
      BY Half
    <3> QED BY <2>3, <2>4, <3>1
  <2>6. /\ b \in Thread /\ b.usrbuf = r.usrbuf /\ b.begin = r.begin /\ b.remote = r.remote
        /\ b.state = r.state /\ b.done = r.done /\ b.pkt = r.pkt
        /\ b.events \subseteq r.events /\ b.sentsize = r.sentsize + n
        /\ b.local = Plus(r.local, n) /\ b.lastack = r.lastack
    BY <2>1, <2>3, <2>5 DEF Thread
  <2>7. Spoofs(b, bytes)
    BY <1>3
  <2> HIDE DEF b
  <2>8. Out(b) = Out(r)
    BY <2>6 DEF Out
  <2>9. b.local = Plus(b.begin, b.sentsize)
    <3> DEFINE z == r.sentsize + n
    <3> HIDE DEF z
    <3>1. z \in 0 .. UsrLen
      BY <2>5 DEF z
    <3>2. /\ 1 + k \in Int /\ z \in Int
          /\ - NumMod <= 2 * (1 + k) /\ 2 * (1 + k) <= NumMod
          /\ - NumMod <= 2 * z /\ 2 * z <= NumMod
      BY <3>1, Half
    <3>3. Plus(Plus(Isn, 1 + k), z) = Plus(Isn, 1 + k + z)
      BY <3>2, PlusPlus, Half
    <3> QED BY <2>3, <2>4, <2>6, <3>3 DEF z
  <2>10. Core(b, user)
    <3>1. Buffer(b, user)
      BY <1>0, <2>1, <2>4, <2>5, <2>6, <2>8, <2>9 DEF Core, Buffer
    <3>2. Numbered(b, user) /\ Fresh(b, user)
      BY <2>1, <2>6 DEF Core, Numbered, Fresh, Senders, Receivers, Before
    <3> QED BY <3>1, <3>2 DEF Core
  <2>11. \A x \in bytes : RightByte(x)
    BY <2>3
  <2> HIDE DEF bytes
  <2>13. NoAckOfZero /\ Acks(svt) => Acks(b)
    BY <2>1, <2>6, <2>8, <2>12 DEF Acks
  <2> QED BY <1>0, <2>1, <2>6, <2>7, <2>10, <2>11, <2>13, Spoofing
<1> HIDE DEF a, b, r, n, d
<1> QED BY <1>1, <1>2, <1>3

LEMMA SendsUsrKeeps == ASSUME IInv, SendsUsr PROVE Kept
<1> DEFINE s == Handled("usr")
<1>1. /\ svt \in Thread /\ svt.pc = "machine" /\ svt.state \in Senders /\ Core(svt, user)
      /\ SpoofsBuffer(s)
  BY DEF IInv, ThreadInv, SendsUsr, On, Senders, Receivers
<1>2. /\ s \in Thread /\ s.events \subseteq svt.events /\ s.pkt = svt.pkt /\ s.done = svt.done
      /\ s.usrbuf = svt.usrbuf /\ s.begin = svt.begin /\ s.local = svt.local
      /\ s.remote = svt.remote /\ s.sentsize = svt.sentsize /\ s.state = svt.state
      /\ s.lastack = svt.lastack
  BY <1>1 DEF Handled, Thread
<1> HIDE DEF s
<1>3. Core(s, user)
  BY <1>1, <1>2, CoreSees
<1>4. Acks(svt) => Acks(s)
  BY <1>2 DEF Acks, Out
<1> QED BY <1>1, <1>2, <1>3, <1>4, SpoofsBufferKeeps

LEMMA EstablishedTimeoutKeeps == ASSUME IInv, EstablishedTimeout PROVE Kept
<1> DEFINE s == [Handled("timeout") EXCEPT !.local = Plus(@, - svt.sentsize), !.sentsize = 0]
<1>1. /\ svt \in Thread /\ svt.pc = "machine" /\ svt.state = "ESTABLISHED"
      /\ svt.state \in Senders /\ Core(svt, user) /\ UserInv(user)
      /\ Becomes(Handled("timeout")) \/ SpoofsBuffer(s)
  BY DEF IInv, ThreadInv, EstablishedTimeout, On, Senders, Receivers
<1>2. ASSUME SpoofsBuffer(s) PROVE Kept
  <2>1. PICK k \in 0 .. UsrLen, m \in 0 .. UsrLen :
          /\ k = Out(svt) /\ k + m <= UsrLen
          /\ svt.begin = Plus(Isn, 1 + k) /\ svt.sentsize \in 0 .. m
          /\ svt.local = Plus(Isn, 1 + k + svt.sentsize)
    BY <1>1, BufferIs DEF Core
  <2>2. Plus(svt.local, - svt.sentsize) = svt.begin
    <3> DEFINE z == svt.sentsize
    <3>1. z \in 0 .. m /\ svt.local = Plus(Isn, 1 + k + z)
      BY <2>1
    <3> HIDE DEF z
    <3>2. /\ 1 + k + z \in Int /\ - z \in Int
          /\ - NumMod <= 2 * (1 + k + z) /\ 2 * (1 + k + z) <= NumMod
          /\ - NumMod <= 2 * (- z) /\ 2 * (- z) <= NumMod
      BY <2>1, <3>1, Half
    <3>3. Plus(Plus(Isn, 1 + k + z), - z) = Plus(Isn, (1 + k + z) + (- z))
      BY <3>2, PlusPlus, Half
    <3>4. (1 + k + z) + (- z) = 1 + k
      BY <3>1
    <3> QED BY <2>1, <3>1, <3>3, <3>4 DEF z
  <2>3. svt.begin \in Num /\ Plus(svt.begin, 0) = svt.begin
    <3>1. svt.begin \in Num
      BY <1>1 DEF Thread
    <3>2. \A x \in Num : Plus(x, 0) = x
      BY PlusIs, Half DEF Num
    <3> QED BY <3>1, <3>2
  <2>4. /\ s \in Thread /\ s.events \subseteq svt.events /\ s.pkt = svt.pkt
        /\ s.done = svt.done /\ s.usrbuf = svt.usrbuf /\ s.begin = svt.begin
        /\ s.local = svt.begin /\ s.remote = svt.remote /\ s.sentsize = 0
        /\ s.state = svt.state /\ s.lastack = svt.lastack
    <3>1. 0 \in 0 .. UsrLen
      BY Half
    <3>2. s = [svt EXCEPT !.events = svt.events \ {"timeout"}, !.local = svt.begin, !.sentsize = 0]
      BY <1>1, <2>2 DEF Handled, Thread
    <3> HIDE DEF s
    <3> QED BY <1>1, <2>3, <3>1, <3>2 DEF Thread
  <2>5. SpoofsBuffer(s)
    BY <1>2
  <2> HIDE DEF s
  <2>6. Core(s, user)
    <3>1. Len(s.usrbuf) \in Nat
      BY <2>4, LenProperties DEF Thread
    <3>2. Out(s) = Out(svt)
      BY <2>4 DEF Out
    <3>3. Buffer(s, user)
      BY <1>1, <2>3, <2>4, <3>1, <3>2 DEF Core, Buffer
    <3>4. Numbered(s, user) /\ Fresh(s, user)
      BY <1>1, <2>4 DEF Core, Numbered, Fresh, Receivers, Before
    <3> QED BY <3>3, <3>4 DEF Core
  <2>7. Acks(svt) => Acks(s)
    BY <2>4 DEF Acks, Out
  <2> QED BY <1>1, <2>4, <2>5, <2>6, <2>7, SpoofsBufferKeeps
<1> HIDE DEF s
<1> QED BY <1>1, <1>2, Handling

-----------------------------------------------------------------------------
(* What the user is given *)

\* Data with the number that the thread waits for goes on from what the user has.
LEMMA GivesOn ==
  ASSUME NEW u, UserInv(u), NEW p, Carries(p), p.flags \in {{"ack"}, {"ack", "fin"}},
         p.seq = NumberOf(Len(u.got))
  PROVE  LET g == u.got \o p.data
         IN  /\ g \in Seq(1 .. RemoteLen) /\ g = Numbers(0, Len(g)) /\ Len(g) \in 0 .. RemoteLen
             /\ Plus(p.seq, Len(p.data)) = NumberOf(Len(g))
<1>1. PICK r \in Spans : p.seq = NumberOf(r[1]) /\ p.data = SubSeq(Stream, r[1] + 1, r[2])
  BY DEF Carries
<1> DEFINE G == Len(u.got)
           a == r[1]
           b == r[2]
<1>2. G \in 0 .. RemoteLen /\ u.got = Numbers(0, G)
  BY LenProperties DEF UserInv, Records, User
<1>3. a \in -1 .. RemoteLen /\ b \in -1 .. RemoteLen /\ a <= b /\ p.data = Numbers(a, b - a)
  BY <1>1, SpanIs
<1>4. Plus(RemoteIsn, a + 1) = Plus(RemoteIsn, G + 1)
  BY <1>1 DEF NumberOf
<1> HIDE DEF G, a, b
<1>5. a = G
  <2>1. /\ a + 1 \in Int /\ G + 1 \in Int
        /\ - NumMod <= 2 * (a + 1) /\ 2 * (a + 1) < NumMod
        /\ - NumMod <= 2 * (G + 1) /\ 2 * (G + 1) < NumMod
    BY <1>2, <1>3, Half
  <2>2. a + 1 = G + 1
    BY <1>4, <2>1, SamePlace, Half
  <2> QED BY <1>2, <1>3, <2>2
<1>6. b - G \in Nat /\ G \in Nat /\ 0 + G = G /\ G + (b - G) = b /\ b \in 0 .. RemoteLen
  BY <1>2, <1>3, <1>5, Half
<1>7. /\ u.got \o p.data = Numbers(0, b)
      /\ Len(Numbers(0, b)) = b /\ Numbers(0, b) \in Seq(1 .. RemoteLen)
      /\ Len(p.data) = b - G
  <2>1. G \in 0 .. b
    BY <1>2, <1>6
  <2>2. p.data = Numbers(G, b - G)
    BY <1>3, <1>5
  <2>3. /\ Numbers(0, G) \o Numbers(G, b - G) = Numbers(0, b)
        /\ Numbers(0, b) \in Seq(1 .. RemoteLen) /\ Len(Numbers(0, b)) = b
        /\ Len(Numbers(G, b - G)) = b - G
    BY <1>6, <2>1, NumbersFromZero
  <2> QED BY <1>2, <2>2, <2>3
<1>10. Plus(p.seq, b - G) = NumberOf(b)
  <2>1. /\ G + 1 \in Int /\ b - G \in Int
        /\ - NumMod <= 2 * (G + 1) /\ 2 * (G + 1) <= NumMod
        /\ - NumMod <= 2 * (b - G) /\ 2 * (b - G) <= NumMod
    BY <1>2, <1>6, Half
  <2>2. Plus(Plus(RemoteIsn, G + 1), b - G) = Plus(RemoteIsn, G + 1 + (b - G))
    BY <2>1, PlusPlus, Half
  <2>3. G + 1 + (b - G) = b + 1
    BY <1>6
  <2> QED BY <2>2, <2>3 DEF NumberOf, G
<1> QED BY <1>6, <1>7, <1>10

\* A step that gives data to the user.
LEMMA Giving ==
  ASSUME IInv, svt.pc = "machine", svt.state \in Receivers, NEW s \in Thread,
         svt.pkt.flags \in {{"ack"}, {"ack", "fin"}}, Carries(svt.pkt),
         svt.pkt.seq = svt.remote, Gives(s, svt.pkt.data),
         s.events \subseteq svt.events, s.pkt = svt.pkt, s.done = svt.done,
         s.usrbuf = svt.usrbuf, s.begin = svt.begin, s.local = svt.local,
         s.sentsize = svt.sentsize, s.lastack = svt.lastack, s.state \in Senders,
         s.state \in Receivers => s.remote = Plus(svt.remote, Len(svt.pkt.data))
  PROVE  Kept
<1> DEFINE p == svt.pkt
           g == user.got \o p.data
           u == [user EXCEPT !.got = g]
<1>1. /\ svt \in Thread /\ Core(svt, user) /\ Answered(svt, user) /\ UserInv(user)
      /\ svt.remote = NumberOf(Len(user.got)) /\ svt.done
  BY DEF IInv, ThreadInv, Core, Numbered, Receivers, Before
<1>2. /\ g \in Seq(1 .. RemoteLen) /\ g = Numbers(0, Len(g)) /\ Len(g) \in 0 .. RemoteLen
      /\ Plus(p.seq, Len(p.data)) = NumberOf(Len(g))
  BY <1>1, GivesOn, ZenonT(60)
<1>3. svt' = Settled(s) /\ user' = u /\ remote' = remote /\ wire' = wire
  BY DEF Gives
<1> HIDE DEF g
<1>4. /\ u.tlv = user.tlv /\ u.written = user.written /\ u.answers = user.answers
      /\ u.got = g /\ u \in User
  BY <1>1, <1>2 DEF UserInv, User
<1> HIDE DEF u
<1>5. UserInv(u)
  BY <1>1, <1>2, <1>4, Half DEF UserInv, Records
<1>6. Numbered(s, u)
  BY <1>1, <1>2, <1>4 DEF Numbered, Senders, Receivers, Before
<1>7. Fresh(s, u)
  BY <1>1 DEF Fresh
<1>8. Buffer(s, u)
  <2>1. FirstUnread(u) = FirstUnread(user)
    BY <1>4 DEF FirstUnread
  <2>2. Out(s) = Out(svt)
    BY DEF Out
  <2> QED BY <1>1, <2>1, <2>2 DEF Core, Buffer, Senders
<1>9. WireInv'
  BY <1>3 DEF IInv, WireInv, RightByte
<1>10. s.state # "SYNSENT_INIT" /\ u.answers = <<"OK">>
  BY <1>1, <1>4 DEF Senders, Receivers, Answered
<1>11. Acks(svt) => Acks(s)
  BY DEF Acks, Out, Senders
<1> QED BY <1>1, <1>3, <1>5, <1>6, <1>7, <1>8, <1>9, <1>10, <1>11, Steps DEF Core

LEMMA EstablishedSniffKeeps == ASSUME IInv, EstablishedSniff PROVE Kept
<1> DEFINE p == svt.pkt
           after == Plus(svt.remote, Len(p.data))
           a == [Handled("sniff") EXCEPT !.remote = after]
           b == [To("CLOSEWAIT_INIT", "sniff") EXCEPT !.remote = Plus(after, 1)]
           c == [To("CLOSEWAIT_INIT", "sniff") EXCEPT !.remote = Plus(@, 1)]
<1>1. /\ svt \in Thread /\ svt.pc = "machine" /\ svt.state = "ESTABLISHED"
      /\ UserInv(user) /\ Core(svt, user) /\ svt.state \in Receivers
  BY DEF IInv, ThreadInv, EstablishedSniff, On, Receivers
<1>2. p \in Packet /\ Carries(p)
  BY SniffedIs DEF EstablishedSniff
<1>3. \/ Becomes(To("CLOSED_ONRESET", "sniff"))
      \/ Becomes(c)
      \/ p.flags = {"ack"} /\ p.seq = svt.remote /\ Gives(a, p.data)
      \/ p.flags = {"ack", "fin"} /\ p.seq = svt.remote /\ Gives(b, p.data)
      \/ Becomes(Handled("sniff"))
  BY DEF EstablishedSniff
<1>4. /\ Follows("ESTABLISHED", "CLOSED_ONRESET") /\ "CLOSED_ONRESET" \in States
      /\ Follows("ESTABLISHED", "CLOSEWAIT_INIT") /\ "CLOSEWAIT_INIT" \in States
      /\ "CLOSEWAIT_INIT" \notin Before \union Receivers
  BY StatesAre DEF Follows, Before, Receivers, Senders
<1>5. svt.remote \in Num /\ Plus(svt.remote, 1) \in Num
  <2>1. svt.remote \in Num
    BY <1>1 DEF Thread
  <2> QED BY <2>1, PlusIs, Half
<1>6. ASSUME Becomes(c) PROVE Kept
  <2>1. c = [To("CLOSEWAIT_INIT", "sniff") EXCEPT !.remote = Plus(svt.remote, 1)]
    BY <1>1 DEF To, Handled, Thread
  <2> QED BY <1>1, <1>4, <1>5, <1>6, <2>1, TurningAway
<1>7. ASSUME p.flags \in {{"ack"}, {"ack", "fin"}}, p.seq = svt.remote
      PROVE  after \in Num /\ Plus(after, 1) \in Num
  <2>1. svt.remote = NumberOf(Len(user.got))
    BY <1>1 DEF Core, Numbered
  <2> DEFINE G == Len(user.got \o p.data)
  <2>2. G \in 0 .. RemoteLen /\ Plus(p.seq, Len(p.data)) = NumberOf(G)
    BY <1>1, <1>2, <1>7, <2>1, GivesOn
  <2> HIDE DEF G
  <2>4. G \in -1 .. RemoteLen
    BY <2>2, Half
  <2>3. after \in Num
    BY <1>7, <2>2, <2>4, NumberIs
  <2> HIDE DEF after
  <2> QED BY <2>3, PlusIs, Half
<1>8. ASSUME p.flags = {"ack"}, p.seq = svt.remote, Gives(a, p.data) PROVE Kept
  <2>1. after \in Num
    BY <1>7, <1>8
  <2> HIDE DEF after
  <2>2. /\ a \in Thread /\ a.events \subseteq svt.events /\ a.pkt = svt.pkt
        /\ a.done = svt.done /\ a.usrbuf = svt.usrbuf /\ a.begin = svt.begin
        /\ a.local = svt.local /\ a.sentsize = svt.sentsize /\ a.state = svt.state
        /\ a.remote = after /\ a.lastack = svt.lastack
    BY <1>1, <2>1 DEF Handled, Thread
  <2>3. Gives(a, p.data)
    BY <1>8
  <2> HIDE DEF a
  <2> QED BY <1>1, <1>2, <1>8, <2>2, <2>3, Giving DEF Senders, after
<1>9. ASSUME p.flags = {"ack", "fin"}, p.seq = svt.remote, Gives(b, p.data) PROVE Kept
  <2>1. after \in Num /\ Plus(after, 1) \in Num
    BY <1>7, <1>9
  <2> HIDE DEF after
  <2>2. /\ b \in Thread /\ b.events \subseteq svt.events /\ b.pkt = svt.pkt
        /\ b.done = svt.done /\ b.usrbuf = svt.usrbuf /\ b.begin = svt.begin
        /\ b.local = svt.local /\ b.sentsize = svt.sentsize /\ b.state = "CLOSEWAIT_INIT"
        /\ b.lastack = svt.lastack
    BY <1>1, <1>4, <2>1 DEF To, Handled, Thread
  <2>3. Gives(b, p.data)
    BY <1>9
  <2> HIDE DEF b
  <2>4. b.state \in Senders /\ b.state \notin Receivers
    BY <2>2 DEF Senders, Receivers
  <2> QED BY <1>1, <1>2, <1>9, <2>2, <2>3, <2>4, Giving
<1> HIDE DEF a, b, c, after, p
<1> QED BY <1>1, <1>3, <1>4, <1>6, <1>8, <1>9, Turning, Handling

LEMMA MachineKeeps == ASSUME IInv, Machine PROVE Kept
BY EnterKeeps, NothingKeeps, SendSynKeeps, SynSentTimeoutKeeps, SynSentSniffKeeps,
   ListenSniffKeeps, SynReceivedTimeoutKeeps, SynReceivedSniffKeeps, OverKeeps,
   EstablishedTimeoutKeeps, EstablishedUsrEndKeeps, SendsUsrKeeps, EstablishedSniffKeeps,
   CloseWaitEndKeeps, IgnoredKeeps, EndTimeoutKeeps, FinWait1SniffKeeps,
   FinWait2SniffKeeps, ClosingSniffKeeps, LastAckSniffKeeps, TimeWaitKeeps
   DEF Machine

-----------------------------------------------------------------------------
(* Waiting *)

\* A record that is read leaves the ones that follow it.
LEMMA TakesRecord ==
  ASSUME NEW u, UserInv(u), u.tlv # <<>>, NEW v, v = [u EXCEPT !.tlv = Tail(u.tlv)]
  PROVE  /\ UserInv(v) /\ v.written = u.written /\ v.got = u.got /\ v.answers = u.answers
         /\ u.tlv[1] \in Seq(1 .. UsrLen) /\ Len(u.tlv[1]) \in Nat /\ Len(u.tlv[1]) >= 1
         /\ u.tlv[1] = Numbers(FirstUnread(u) - 1, Len(u.tlv[1]))
         /\ FirstUnread(v) = FirstUnread(u) + Len(u.tlv[1])
<1> DEFINE t == u.tlv
           w == Tail(t)
<1>1. t \in Seq(Seq(1 .. UsrLen)) /\ Len(t) \in Nat /\ DOMAIN t = 1 .. Len(t) /\ u \in User
  BY LenProperties DEF UserInv, User
<1>2. Len(t) >= 1 /\ 1 \in DOMAIN t
  BY <1>1, EmptySeq
<1>3. /\ w \in Seq(Seq(1 .. UsrLen)) /\ Len(w) = Len(t) - 1 /\ DOMAIN w = 1 .. Len(t) - 1
      /\ \A i \in 1 .. Len(t) - 1 : w[i] = t[i + 1]
  <2>1. t # <<>>
    OBVIOUS
  <2>2. w \in Seq(Seq(1 .. UsrLen)) /\ Len(w) = Len(t) - 1 /\ \A i \in 1 .. Len(w) : w[i] = t[i + 1]
    BY <1>1, <2>1, HeadTailProperties
  <2> QED BY <2>2, LenProperties
<1>4. /\ \A i \in 1 .. Len(t) : Len(t[i]) >= 1 /\ t[i] = Numbers(t[i][1] - 1, Len(t[i]))
      /\ \A i \in 1 .. Len(t) - 1 : t[i + 1][1] = After(t[i])
      /\ After(t[Len(t)]) = u.written + 1
      /\ u.got = Numbers(0, Len(u.got)) /\ Len(u.got) <= RemoteLen
  BY <1>1 DEF UserInv, Records
<1>5. /\ v.tlv = w /\ v.written = u.written /\ v.got = u.got /\ v.answers = u.answers
      /\ v \in User
  BY <1>1, <1>3 DEF User
<1>6. t[1] \in Seq(1 .. UsrLen) /\ Len(t[1]) \in Nat /\ Len(t[1]) >= 1
  BY <1>1, <1>2, <1>4, ElementOfSeq, LenProperties
<1>7. FirstUnread(u) = t[1][1]
  BY DEF FirstUnread
<1> HIDE DEF w, t
<1>8. /\ \A i \in 1 .. Len(w) : Len(w[i]) >= 1 /\ w[i] = Numbers(w[i][1] - 1, Len(w[i]))
      /\ \A i \in 1 .. Len(w) - 1 : w[i + 1][1] = After(w[i])
      /\ w # <<>> => After(w[Len(w)]) = u.written + 1
  <2>1. ASSUME NEW i \in 1 .. Len(w)
        PROVE  Len(w[i]) >= 1 /\ w[i] = Numbers(w[i][1] - 1, Len(w[i]))
    <3>1. i + 1 \in 1 .. Len(t) /\ w[i] = t[i + 1]
      BY <1>1, <1>3, <2>1
    <3> QED BY <1>4, <3>1
  <2>2. ASSUME NEW i \in 1 .. Len(w) - 1 PROVE w[i + 1][1] = After(w[i])
    <3>1. i + 1 \in 1 .. Len(t) - 1 /\ w[i] = t[i + 1] /\ w[i + 1] = t[i + 1 + 1]
      <4>1. i \in 1 .. Len(t) - 1 /\ i + 1 \in 1 .. Len(t) - 1
        BY <1>1, <1>3, <2>2
      <4> QED BY <1>3, <4>1
    <3> QED BY <1>4, <3>1
  <2>3. ASSUME w # <<>> PROVE After(w[Len(w)]) = u.written + 1
    <3>1. Len(w) # 0
      BY <1>3, <2>3, EmptySeq
    <3>2. Len(w) \in 1 .. Len(t) - 1 /\ Len(w) + 1 = Len(t)
      BY <1>1, <1>3, <3>1
    <3>3. w[Len(w)] = t[Len(t)]
      BY <1>3, <3>2
    <3> QED BY <1>4, <3>3
  <2> QED BY <2>1, <2>2, <2>3
<1>9. UserInv(v)
  <2>1. DOMAIN w = 1 .. Len(w)
    BY <1>3
  <2> QED BY <1>4, <1>5, <1>8, <2>1 DEF UserInv, Records
<1>10. FirstUnread(v) = After(t[1])
  <2>1. CASE w = <<>>
    <3>1. Len(t) = 1
      <4>1. Len(w) = 0
        BY <2>1
      <4>2. Len(w) = Len(t) - 1 /\ Len(t) \in Nat
        BY <1>1, <1>3
      <4> QED BY <4>1, <4>2
    <3> QED BY <1>4, <1>5, <2>1, <3>1 DEF FirstUnread
  <2>2. CASE w # <<>>
    <3>1. 1 \in 1 .. Len(t) - 1 /\ 1 + 1 \in 1 .. Len(t)
      BY <1>1, <1>2, <1>3, <2>2, EmptySeq
    <3>2. w[1] = t[1 + 1] /\ t[1 + 1][1] = After(t[1])
      BY <1>3, <1>4, <3>1
    <3> QED BY <1>5, <2>2, <3>2 DEF FirstUnread
  <2> QED BY <2>1, <2>2
<1> QED BY <1>1, <1>2, <1>4, <1>5, <1>6, <1>7, <1>9, <1>10 DEF After, t

\* Testing the user's data leaves the thread and the user right for each other.
LEMMA Tests ==
  ASSUME IInv, svt.pc = "test", Tested
  PROVE  LET s == Read(svt)
         IN  /\ s \in Thread /\ Core(s, user') /\ UserInv(user')
             /\ s.events = svt.events /\ s.events \subseteq {"usr"} /\ s.pkt = None
             /\ s.state = svt.state /\ s.done = svt.done /\ s.synsent = svt.synsent
             /\ s.lastack = svt.lastack /\ s.begin = svt.begin
             /\ user'.answers = user.answers
<1> DEFINE s == Read(svt)
           v == user'
<1>1. /\ svt \in Thread /\ Runs(svt, user) /\ Core(svt, user) /\ UserInv(user)
      /\ svt.events \subseteq {"usr"} /\ svt.pkt = None
  BY DEF IInv, ThreadInv, Runs
<1>2. CASE "usr" \notin svt.events
  <2>1. s = svt /\ v = user
    BY <1>1, <1>2 DEF Read, Tested, UserInv, User
  <2> QED BY <1>1, <2>1
<1>3. CASE "usr" \in svt.events
  <2>1. user.tlv # <<>> /\ svt.done
    BY <1>1, <1>3 DEF Runs, Core, Fresh
  <2>2. v = [user EXCEPT !.tlv = Tail(user.tlv)]
    BY <1>3 DEF Tested
  <2> DEFINE r == user.tlv[1]
             l == Len(r)
  <2> HIDE DEF v
  <2>3. /\ UserInv(v) /\ v.written = user.written /\ v.got = user.got
        /\ v.answers = user.answers /\ r \in Seq(1 .. UsrLen) /\ l \in Nat /\ l >= 1
        /\ r = Numbers(FirstUnread(user) - 1, l) /\ FirstUnread(v) = FirstUnread(user) + l
    BY <1>1, <2>1, <2>2, TakesRecord
  <2>4. s = [svt EXCEPT !.usrbuf = svt.usrbuf \o r]
    BY <1>3 DEF Read
  <2> HIDE DEF r, l
  <2>5. svt.usrbuf \o r \in Seq(1 .. UsrLen)
    BY <1>1, <2>3, ConcatProperties DEF Thread
  <2>6. /\ s \in Thread /\ s.usrbuf = svt.usrbuf \o r /\ s.events = svt.events
        /\ s.pkt = svt.pkt /\ s.state = svt.state /\ s.done = svt.done
        /\ s.synsent = svt.synsent /\ s.local = svt.local /\ s.remote = svt.remote
        /\ s.begin = svt.begin /\ s.sentsize = svt.sentsize /\ s.lastack = svt.lastack
    BY <1>1, <2>4, <2>5 DEF Thread
  <2> HIDE DEF s
  <2>7. Numbered(s, v) /\ Fresh(s, v)
    BY <1>1, <2>1, <2>3, <2>6 DEF Core, Numbered, Fresh
  <2>8. ASSUME s.state \in Senders PROVE Buffer(s, v)
    <3>1. PICK k \in 0 .. UsrLen, m \in 0 .. UsrLen :
            /\ k = Out(svt) /\ m = Len(svt.usrbuf) /\ k + m = FirstUnread(user) - 1
            /\ svt.usrbuf = Numbers(k, m)
      <4>1. svt.state \in Senders /\ Buffer(svt, user)
        BY <1>1, <2>6, <2>8 DEF Core
      <4> QED BY <1>1, <4>1, BufferIs
    <3>2. Out(s) = k
      BY <2>6, <3>1 DEF Out
    <3>3. k \in Int /\ m \in Nat /\ l \in Nat
      BY <2>3, Half
    <3>4. r = Numbers(k + m, l)
      BY <2>3, <3>1
    <3>5. svt.usrbuf \o r = Numbers(k, m + l)
      BY <3>1, <3>3, <3>4, NumbersConcat
    <3>6. FirstUnread(user) \in Nat /\ FirstUnread(v) - 1 - k = m + l /\ k < FirstUnread(v)
      <4>1. FirstUnread(user) \in Nat
        BY <1>1, FirstUnreadIs, Half
      <4> QED BY <2>3, <3>1, <3>3, <4>1
    <3>7. Len(s.usrbuf) = m + l
      <4>1. m + l \in Nat
        BY <3>3
      <4> QED BY <2>6, <3>3, <3>5, <4>1, NumbersAre
    <3>8. s.sentsize \in 0 .. UsrLen /\ s.sentsize <= m
      BY <1>1, <2>6, <2>8, <3>1 DEF Core, Buffer, Thread
    <3>9. s.sentsize <= m + l
      BY <3>3, <3>8, Half
    <3> QED BY <1>1, <2>6, <2>8, <3>1, <3>2, <3>5, <3>6, <3>7, <3>9 DEF Core, Buffer
  <2>9. Buffer(s, v)
    BY <2>8 DEF Buffer
  <2> QED BY <1>1, <2>3, <2>6, <2>7, <2>9 DEF Core, s, v
<1> QED BY <1>2, <1>3

\* What a wait leaves: the record n that was tested with the events it found.
LEMMA Waited ==
  ASSUME IInv, svt.pc = "test", NEW n \in Thread, NEW v, UserInv(v), Core(n, v),
         "sniff" \in n.events <=> n.pkt # None, n.pkt # None => Carries(n.pkt),
         n.state = svt.state, n.done = svt.done, n.synsent = svt.synsent,
         v.answers = user.answers, Acks(svt) => Acks(n),
         svt' = Waits(n), user' = v, remote' = remote, wire' = wire
  PROVE  Kept
<1> DEFINE t == Waits(n)
<1>1. /\ t \in Thread /\ t.pc = (IF n.events = {} THEN "wait" ELSE "machine")
      /\ t.events = n.events /\ t.pkt = n.pkt /\ t.state = n.state /\ t.done = n.done
      /\ t.synsent = n.synsent /\ t.usrbuf = n.usrbuf /\ t.begin = n.begin
      /\ t.local = n.local /\ t.remote = n.remote /\ t.sentsize = n.sentsize
      /\ t.lastack = n.lastack
  BY DEF Waits, Thread
<1> HIDE DEF t
<1>2. Core(t, v)
  BY <1>1, CoreSees
<1>3. Runs(t, v)
  <2>1. svt.state = "SYNSENT_INIT" => svt.synsent <= MaxSyn
    BY DEF IInv, ThreadInv, Runs
  <2> QED BY <1>1, <2>1 DEF Runs
<1>4. Answered(t, v)
  <2>1. (svt.done => user.answers = <<"OK">>) /\ (~ svt.done => user.answers = <<>>)
    BY DEF IInv, ThreadInv, Answered
  <2> QED BY <1>1, <2>1 DEF Answered
<1>5. RemoteInv' /\ WireInv'
  BY DEF IInv, RemoteInv, Accepted, WireInv, RightByte
<1>6. AInv => AInv'
  BY <1>1 DEF AInv, NoAckOfZero, Acks, Acked, Out, Plus, Signed, t
<1> QED BY <1>1, <1>2, <1>3, <1>4, <1>5, <1>6 DEF IInv, ThreadInv, Kept, t

LEMMA TimeoutKeeps == ASSUME IInv, Timeout PROVE Kept
<1> DEFINE s == svt'
<1>1. /\ svt \in Thread /\ Runs(svt, user) /\ Core(svt, user) /\ Answered(svt, user)
      /\ svt.pc = "wait" /\ s = [svt EXCEPT !.pc = "machine", !.events = {"timeout"}]
      /\ user' = user /\ remote' = remote /\ wire' = wire
  BY DEF IInv, ThreadInv, Timeout
<1>2. /\ s \in Thread /\ s.pc = "machine" /\ s.events = {"timeout"} /\ s.pkt = svt.pkt
      /\ s.state = svt.state /\ s.done = svt.done
      /\ s.synsent = svt.synsent /\ s.usrbuf = svt.usrbuf /\ s.begin = svt.begin
      /\ s.local = svt.local /\ s.remote = svt.remote /\ s.sentsize = svt.sentsize
      /\ s.lastack = svt.lastack
  BY <1>1 DEF Thread, Event
<1> HIDE DEF s
<1>3. Core(s, user)
  BY <1>1, <1>2, CoreSees
<1>4. Runs(s, user)
  BY <1>1, <1>2 DEF Runs
<1>5. Answered(s, user)
  BY <1>1, <1>2 DEF Answered
<1>6. UserInv(user)' /\ RemoteInv' /\ WireInv'
  BY <1>1 DEF IInv, RemoteInv, Accepted, WireInv, RightByte
<1>7. AInv => AInv'
  BY <1>1, <1>2 DEF AInv, NoAckOfZero, Acks, Acked, Out, Plus, Signed, s
<1> QED BY <1>1, <1>2, <1>3, <1>4, <1>5, <1>6, <1>7 DEF IInv, ThreadInv, Kept, s

LEMMA TestUsrKeeps == ASSUME IInv, TestUsr PROVE Kept
<1> DEFINE s == svt'
<1>1. /\ svt \in Thread /\ Runs(svt, user) /\ Core(svt, user) /\ Answered(svt, user)
      /\ svt.pc = "wait"
      /\ s = [svt EXCEPT !.pc = "test", !.events = IF user.tlv = <<>> THEN {} ELSE {"usr"}]
      /\ user' = user /\ remote' = remote /\ wire' = wire
  BY DEF IInv, ThreadInv, TestUsr
<1>2. /\ s \in Thread /\ s.pc = "test" /\ s.pkt = svt.pkt
      /\ s.events \subseteq {"usr"} /\ ("usr" \in s.events => user.tlv # <<>>)
      /\ s.state = svt.state /\ s.done = svt.done
      /\ s.synsent = svt.synsent /\ s.usrbuf = svt.usrbuf /\ s.begin = svt.begin
      /\ s.local = svt.local /\ s.remote = svt.remote /\ s.sentsize = svt.sentsize
      /\ s.lastack = svt.lastack
  <2>1. CASE user.tlv = <<>>
    BY <1>1, <2>1 DEF Thread, Event
  <2>2. CASE user.tlv # <<>>
    BY <1>1, <2>2 DEF Thread, Event
  <2> QED BY <2>1, <2>2
<1> HIDE DEF s
<1>3. Core(s, user)
  <2>1. Core(svt, user)
    BY <1>1
  <2> QED BY <1>2, <2>1, CoreSees
<1>4. Runs(s, user)
  <2>1. svt.pkt = None /\ "sniff" \notin s.events
    BY <1>1, <1>2 DEF Runs
  <2> QED BY <1>1, <1>2, <2>1 DEF Runs
<1>5. Answered(s, user)
  BY <1>1, <1>2 DEF Answered
<1>6. UserInv(user)' /\ RemoteInv' /\ WireInv'
  BY <1>1 DEF IInv, RemoteInv, Accepted, WireInv, RightByte
<1>7. AInv => AInv'
  BY <1>1, <1>2 DEF AInv, NoAckOfZero, Acks, Acked, Out, Plus, Signed, s
<1> QED BY <1>1, <1>2, <1>3, <1>4, <1>5, <1>6, <1>7 DEF IInv, ThreadInv, Kept, s

LEMMA TestsKeep == ASSUME IInv, TestNothing \/ TestStray PROVE Kept
<1> DEFINE s == Read(svt)
<1>1. /\ svt.pc = "test" /\ Tested /\ remote' = remote /\ wire' = wire
  BY DEF TestNothing, TestStray
<1>2. /\ s \in Thread /\ Core(s, user') /\ UserInv(user')
      /\ s.events = svt.events /\ s.events \subseteq {"usr"} /\ s.pkt = None
      /\ s.state = svt.state /\ s.done = svt.done /\ s.synsent = svt.synsent
      /\ s.lastack = svt.lastack /\ s.begin = svt.begin
      /\ user'.answers = user.answers
  BY <1>1, Tests
<1>3. PICK E \in SUBSET {"usrend", "usr"} : svt' = Waits([s EXCEPT !.events = @ \union E])
  <2> DEFINE A == EndSeen(svt)
             B == SendsAgain(s)
  <2>1. A \in SUBSET {"usrend", "usr"} /\ A \union B \in SUBSET {"usrend", "usr"}
    BY DEF EndSeen, SendsAgain
  <2>2. \/ svt' = Waits([s EXCEPT !.events = @ \union A])
        \/ svt' = Waits([s EXCEPT !.events = @ \union A \union B])
    BY DEF TestNothing, TestStray
  <2>3. s.events \union A \union B = s.events \union (A \union B)
    OBVIOUS
  <2> HIDE DEF A, B
  <2> QED BY <2>1, <2>2, <2>3
<1> DEFINE n == [s EXCEPT !.events = @ \union E]
<1> HIDE DEF s
<1>4. /\ n \in Thread /\ n.events = s.events \union E /\ n.pkt = s.pkt
      /\ n.state = s.state /\ n.done = s.done
      /\ n.synsent = s.synsent /\ n.usrbuf = s.usrbuf /\ n.begin = s.begin
      /\ n.local = s.local /\ n.remote = s.remote /\ n.sentsize = s.sentsize
      /\ n.lastack = s.lastack
  BY <1>2 DEF Thread, Event
<1>5. svt' = Waits(n)
  BY <1>3
<1> HIDE DEF n
<1>6. Core(n, user') /\ "sniff" \notin n.events
  BY <1>2, <1>4, CoreSees
<1>7. Acks(svt) => Acks(n)
  BY <1>2, <1>4 DEF Acks, Out
<1> QED BY <1>1, <1>2, <1>4, <1>5, <1>6, <1>7, Waited

LEMMA TestSniffKeeps == ASSUME IInv, NEW p \in Packets, TestSniff(p) PROVE Kept
<1> DEFINE s == Read(svt)
           q == Sniffed(s, p)
<1>1. /\ svt.pc = "test" /\ Tested /\ remote' = remote /\ wire' = wire
  BY DEF TestSniff
<1>2. /\ s \in Thread /\ Core(s, user') /\ UserInv(user')
      /\ s.events = svt.events /\ s.events \subseteq {"usr"} /\ s.pkt = None
      /\ s.state = svt.state /\ s.done = svt.done /\ s.synsent = svt.synsent
      /\ s.lastack = svt.lastack /\ s.begin = svt.begin
      /\ user'.answers = user.answers
  BY <1>1, Tests
<1>3. PICK E \in SUBSET {"usrend", "usr"} :
        svt' = Waits([q EXCEPT !.events = @ \union E \union {"sniff"}])
  <2> DEFINE E == EndSeen(svt) \union SendsAgain(s)
  <2>1. E \in SUBSET {"usrend", "usr"}
    BY DEF EndSeen, SendsAgain
  <2>2. svt' = Waits([q EXCEPT !.events = @ \union EndSeen(svt) \union SendsAgain(s) \union {"sniff"}])
    BY DEF TestSniff
  <2>3. q.events \union EndSeen(svt) \union SendsAgain(s) = q.events \union E
    OBVIOUS
  <2> QED BY <2>1, <2>2, <2>3
<1> DEFINE n == [q EXCEPT !.events = @ \union E \union {"sniff"}]
<1>4. p \in Packet /\ p # None /\ Carries(p) /\ p.acknum \in {0} \union Acked
  BY PacketsCarry DEF IInv
<1> HIDE DEF s
<1>5. /\ q \in Thread /\ q.events = s.events /\ q.pkt = p
      /\ q.state = s.state /\ q.done = s.done
      /\ q.synsent = s.synsent /\ q.usrbuf = s.usrbuf /\ q.begin = s.begin
      /\ q.local = s.local /\ q.remote = s.remote /\ q.sentsize = s.sentsize
      /\ q.lastack \in {s.lastack, p.acknum}
  BY <1>2, <1>4 DEF Sniffed, Thread, Packet
<1> HIDE DEF q
<1>6. /\ n \in Thread /\ n.events = s.events \union E \union {"sniff"} /\ n.pkt = p
      /\ n.state = s.state /\ n.done = s.done
      /\ n.synsent = s.synsent /\ n.usrbuf = s.usrbuf /\ n.begin = s.begin
      /\ n.local = s.local /\ n.remote = s.remote /\ n.sentsize = s.sentsize
      /\ n.lastack = q.lastack
  BY <1>2, <1>5 DEF Thread, Event
<1>7. svt' = Waits(n)
  BY <1>3
<1> HIDE DEF n
<1>8. Core(n, user') /\ "sniff" \in n.events
  BY <1>2, <1>6, CoreSees
<1>9. Acks(svt) => Acks(n)
  BY <1>2, <1>4, <1>5, <1>6 DEF Acks, Out
<1> QED BY <1>1, <1>2, <1>4, <1>6, <1>7, <1>8, <1>9, Waited

LEMMA WaitKeeps == ASSUME IInv, Wait PROVE Kept
BY TimeoutKeeps, TestUsrKeeps, TestsKeep, TestSniffKeeps DEF Wait

-----------------------------------------------------------------------------
(* The user, the remote host and the network *)

LEMMA WriteKeeps == ASSUME IInv, Waiting, NEW n \in 1 .. UsrLen, Write(n) PROVE IInv'
<1> DEFINE r == [k \in 1 .. n |-> user.written + k]
           u == user'
           t == user.tlv
           w == Append(t, r)
           l == user.written
<1>1. /\ user.answers = <<"OK">> /\ l + n <= UsrLen
      /\ u = [user EXCEPT !.written = l + n, !.tlv = w]
      /\ svt' = svt /\ remote' = remote /\ wire' = wire
  BY DEF Write
<1>2. /\ svt \in Thread /\ Runs(svt, user) /\ Core(svt, user) /\ Answered(svt, user)
      /\ user \in User /\ Records(user) /\ l \in 0 .. UsrLen
  BY DEF IInv, ThreadInv, UserInv, User
<1>3. svt.done
  <2>1. svt.pc # "over" /\ user.answers # <<>>
    BY <1>1 DEF Waiting
  <2> QED BY <1>2, <2>1 DEF Answered
<1>4. l \in Nat /\ n \in Nat /\ n >= 1 /\ UsrLen \in Nat
  BY <1>2, Half
<1>5. r = Numbers(l, n)
  BY DEF Numbers
<1> HIDE DEF r, l
<1>6. r \in Seq(1 .. UsrLen) /\ Len(r) = n /\ r[1] = l + 1
  <2>1. l \in Int /\ l >= 0 /\ l + n <= UsrLen /\ 1 \in 1 .. n
    BY <1>1, <1>4
  <2>2. r \in Seq(1 .. UsrLen) /\ Len(r) = n /\ \A i \in 1 .. n : r[i] = l + i
    BY <1>4, <1>5, <2>1, NumbersAre
  <2> QED BY <2>1, <2>2
<1>7. t \in Seq(Seq(1 .. UsrLen)) /\ Len(t) \in Nat /\ DOMAIN t = 1 .. Len(t)
  BY <1>2, LenProperties DEF User
<1>8. /\ w \in Seq(Seq(1 .. UsrLen)) /\ Len(w) = Len(t) + 1 /\ DOMAIN w = 1 .. Len(t) + 1
      /\ w[Len(t) + 1] = r /\ \A i \in 1 .. Len(t) : w[i] = t[i]
  <2>1. /\ w \in Seq(Seq(1 .. UsrLen)) /\ Len(w) = Len(t) + 1
        /\ w[Len(t) + 1] = r /\ \A i \in 1 .. Len(t) : w[i] = t[i]
    BY <1>6, <1>7, AppendProperties
  <2> QED BY <2>1, LenProperties
<1>9. /\ \A i \in 1 .. Len(t) : Len(t[i]) >= 1 /\ t[i] = Numbers(t[i][1] - 1, Len(t[i]))
      /\ \A i \in 1 .. Len(t) - 1 : t[i + 1][1] = After(t[i])
      /\ t # <<>> => After(t[Len(t)]) = l + 1
      /\ user.got = Numbers(0, Len(user.got)) /\ Len(user.got) <= RemoteLen
  BY <1>2, <1>7 DEF Records, l
<1>10. /\ u \in User /\ u.tlv = w /\ u.written = l + n /\ u.got = user.got
       /\ u.answers = user.answers
  <2>1. l + n \in 0 .. UsrLen
    BY <1>1, <1>4
  <2> QED BY <1>1, <1>2, <1>8, <2>1 DEF User
<1> HIDE DEF u, t, w
<1>11. \A i \in 1 .. Len(w) : Len(w[i]) >= 1 /\ w[i] = Numbers(w[i][1] - 1, Len(w[i]))
  <2> SUFFICES ASSUME NEW i \in 1 .. Len(w)
               PROVE  Len(w[i]) >= 1 /\ w[i] = Numbers(w[i][1] - 1, Len(w[i]))
    OBVIOUS
  <2>1. CASE i = Len(t) + 1
    <3>1. l + 1 - 1 = l
      BY <1>4
    <3> QED BY <1>4, <1>5, <1>6, <1>8, <2>1, <3>1
  <2>2. CASE i # Len(t) + 1
    <3>1. i \in 1 .. Len(t)
      BY <1>7, <1>8, <2>2
    <3> QED BY <1>8, <1>9, <3>1
  <2> QED BY <2>1, <2>2
<1>12. \A i \in 1 .. Len(w) - 1 : w[i + 1][1] = After(w[i])
  <2> SUFFICES ASSUME NEW i \in 1 .. Len(w) - 1 PROVE w[i + 1][1] = After(w[i])
    OBVIOUS
  <2>0. i \in 1 .. Len(t)
    BY <1>7, <1>8
  <2>1. CASE i = Len(t)
    <3>1. t # <<>>
      BY <1>7, <2>0, EmptySeq
    <3> QED BY <1>6, <1>8, <1>9, <2>0, <2>1, <3>1
  <2>2. CASE i # Len(t)
    <3>1. i \in 1 .. Len(t) - 1 /\ i + 1 \in 1 .. Len(t)
      <4>1. Len(t) \in Nat
        BY <1>7
      <4> QED BY <2>0, <2>2, <4>1
    <3> QED BY <1>8, <1>9, <2>0, <3>1
  <2> QED BY <2>1, <2>2
<1>13. After(w[Len(w)]) = l + n + 1
  <2>1. After(r) = l + 1 + n /\ l + 1 + n = l + n + 1
    BY <1>4, <1>6 DEF After
  <2> QED BY <1>8, <2>1
<1>14. UserInv(u)
  BY <1>8, <1>9, <1>10, <1>11, <1>12, <1>13 DEF UserInv, Records
<1>15. FirstUnread(u) = FirstUnread(user) /\ w # <<>>
  <2>1. w # <<>>
    BY <1>7, <1>8, EmptySeq
  <2>2. CASE t = <<>>
    <3>1. Len(t) + 1 = 1
      BY <2>2, EmptySeq
    <3> QED BY <1>6, <1>8, <1>10, <2>1, <2>2, <3>1 DEF FirstUnread, t, l
  <2>3. CASE t # <<>>
    <3>1. 1 \in 1 .. Len(t)
      BY <1>7, <2>3, EmptySeq
    <3> QED BY <1>8, <1>10, <2>1, <2>3, <3>1 DEF FirstUnread, t
  <2> QED BY <2>1, <2>2, <2>3
<1>16. ThreadInv(svt, u)
  BY <1>2, <1>3, <1>10, <1>15 DEF ThreadInv, Runs, Core, Numbered, Fresh, Buffer, Answered
<1>17. RemoteInv' /\ WireInv'
  BY <1>1 DEF IInv, RemoteInv, Accepted, WireInv, RightByte
<1> QED BY <1>1, <1>14, <1>16, <1>17 DEF IInv, u

LEMMA CloseKeeps == ASSUME IInv, Close PROVE IInv'
<1> DEFINE u == user'
<1>1. /\ user \in User /\ UserInv(user) /\ u = [user EXCEPT !.ended = TRUE]
      /\ svt' = svt /\ remote' = remote /\ wire' = wire /\ ThreadInv(svt, user)
  BY DEF IInv, UserInv, Close
<1>2. /\ u \in User /\ u.tlv = user.tlv /\ u.written = user.written /\ u.got = user.got
      /\ u.answers = user.answers
  BY <1>1 DEF User
<1> HIDE DEF u
<1>3. UserInv(u)
  BY <1>1, <1>2 DEF UserInv, Records
<1>4. ThreadInv(svt, u)
  BY <1>1, <1>2 DEF ThreadInv, Runs, Core, Numbered, Fresh, Buffer, Answered, FirstUnread
<1>5. RemoteInv' /\ WireInv'
  BY <1>1 DEF IInv, RemoteInv, Accepted, WireInv, RightByte
<1> QED BY <1>1, <1>3, <1>4, <1>5 DEF IInv, u

LEMMA RemoteSynKeeps == ASSUME IInv, RemoteSyn PROVE IInv'
<1>1. RemoteInv'
  BY DEF IInv, RemoteInv, Remote, Accepted, RemoteSyn
<1>2. \A b \in wire' : RightByte(b)
  BY DEF IInv, WireInv, RemoteSyn
<1>3. ThreadInv(svt', user') /\ UserInv(user')
  BY DEF IInv, RemoteSyn
<1> QED BY <1>1, <1>2, <1>3 DEF IInv, WireInv, RightByte

LEMMA LosesKeeps == ASSUME IInv, Loses PROVE IInv'
<1>1. RemoteInv'
  BY DEF IInv, RemoteInv, Accepted, Loses
<1>2. \A b \in wire' : RightByte(b)
  BY DEF IInv, WireInv, Loses
<1>3. ThreadInv(svt', user') /\ UserInv(user')
  BY DEF IInv, Loses
<1> QED BY <1>1, <1>2, <1>3 DEF IInv, WireInv, RightByte

\* The byte that has the next number is the next byte, or the end.
LEMMA RemoteAcceptsKeeps == ASSUME IInv, RemoteAccepts PROVE IInv'
<1> DEFINE g == remote.got
           G == Len(g)
<1>1. PICK b \in wire : b[1] = NextNumber /\ remote' = [remote EXCEPT !.got = Append(g, b[2])]
  BY DEF RemoteAccepts
<1>2. /\ RemoteInv /\ RightByte(b) /\ FIN \notin ToSet(g)
      /\ g \in Seq((1 .. UsrLen) \union {FIN}) /\ remote \in Remote
  BY DEF IInv, WireInv, RemoteAccepts, RemoteInv, Remote
<1>3. G \in 0 .. UsrLen /\ G \in Nat /\ DOMAIN g = 1 .. G /\ UsrLen \in Nat
  BY <1>2, GotIs, LenProperties, Half
<1>4. \A n \in 1 .. G : g[n] = n
  <2>1. \A n \in 1 .. G : g[n] # FIN
    BY <1>2, <1>3 DEF ToSet
  <2> QED BY <1>2, <1>3, <2>1 DEF RemoteInv, Accepted
<1>5. b[1] = Plus(Isn, G + 1)
  BY <1>1 DEF NextNumber
<1> HIDE DEF g, G
<1>6. ASSUME NEW k \in 0 .. UsrLen + 1, b[1] = Plus(Isn, k) PROVE k = G + 1
  <2>1. /\ k \in Int /\ G + 1 \in Int
        /\ - NumMod <= 2 * k /\ 2 * k < NumMod
        /\ - NumMod <= 2 * (G + 1) /\ 2 * (G + 1) < NumMod
    BY <1>3, Half
  <2> QED BY <1>5, <1>6, <2>1, SamePlace, Half
<1>7. b[2] \in {G + 1, FIN} /\ (b[2] = FIN \/ G + 1 \in 1 .. UsrLen)
  <2>1. b # <<Isn, SYN>>
    <3> SUFFICES ASSUME b[1] = Isn PROVE FALSE
      OBVIOUS
    <3>1. Plus(Isn, 0) = Isn
      BY PlusIs, Half DEF Num
    <3>2. 0 = G + 1
      BY <1>6, <3>1, Half
    <3> QED BY <1>3, <3>2
  <2>2. ASSUME NEW k \in 1 .. UsrLen, b = <<Plus(Isn, k), k>>
        PROVE  b[2] = G + 1 /\ G + 1 \in 1 .. UsrLen
    <3>1. k \in 0 .. UsrLen + 1
      BY <1>3
    <3> QED BY <1>6, <2>2, <3>1
  <2> QED BY <1>2, <2>1, <2>2 DEF RightByte
<1> DEFINE h == Append(g, b[2])
<1>8. /\ h \in Seq((1 .. UsrLen) \union {FIN}) /\ Len(h) = G + 1
      /\ DOMAIN h = 1 .. G + 1 /\ h[G + 1] = b[2] /\ \A n \in 1 .. G : h[n] = g[n]
  <2>1. b[2] \in (1 .. UsrLen) \union {FIN} /\ g \in Seq((1 .. UsrLen) \union {FIN})
    BY <1>2, <1>7 DEF g
  <2>2. /\ h \in Seq((1 .. UsrLen) \union {FIN}) /\ Len(h) = G + 1
        /\ h[G + 1] = b[2] /\ \A n \in 1 .. G : h[n] = g[n]
    BY <2>1, AppendProperties DEF G
  <2> QED BY <2>2, LenProperties
<1>9. remote' \in Remote /\ remote'.got = h
  BY <1>1, <1>2, <1>8 DEF Remote, g
<1> HIDE DEF h
<1>10. \A n \in DOMAIN h : h[n] = n \/ (h[n] = FIN /\ n = Len(h))
  BY <1>3, <1>4, <1>7, <1>8
<1>11. \A x \in wire' : RightByte(x)
  BY DEF IInv, WireInv, RemoteAccepts
<1>12. ThreadInv(svt', user') /\ UserInv(user')
  BY DEF IInv, RemoteAccepts
<1> QED BY <1>9, <1>10, <1>11, <1>12 DEF IInv, RemoteInv, Accepted, WireInv, RightByte

\* The remote host has more and more.
LEMMA AcksGrow ==
  ASSUME IInv, RemoteInv', svt' = svt, Len(remote.got) <= Len(remote'.got)
  PROVE  AInv => AInv'
<1> SUFFICES ASSUME Acks(svt) PROVE Acks(svt)'
  BY DEF AInv, NoAckOfZero, Plus
<1>1. Len(remote.got) \in Nat /\ Len(remote'.got) \in Nat
  BY LenProperties DEF IInv, RemoteInv, Remote
<1>2. Acked \subseteq Acked'
  BY <1>1 DEF Acked, Plus
<1>3. svt.state \in Senders => Out(svt) \in Nat /\ Out(svt) <= Len(remote.got)
  BY Half DEF Acks, IInv, ThreadInv, Core, Buffer
<1>4. svt.state \in Senders => Out(svt) <= Len(remote'.got)
  BY <1>1, <1>3
<1> QED BY <1>2, <1>4 DEF Acks, Out, Plus, Signed

LEMMA EnvironmentKeeps == ASSUME IInv, Environment PROVE Kept
<1>1. IInv' /\ svt' = svt
  BY WriteKeeps, CloseKeeps, RemoteSynKeeps, RemoteAcceptsKeeps, LosesKeeps
     DEF Environment, Write, Close, RemoteSyn, RemoteAccepts, Loses
<1>2. Len(remote.got) \in Nat /\ remote \in Remote
  BY LenProperties DEF IInv, RemoteInv, Remote
<1>3. Len(remote.got) <= Len(remote'.got)
  <2>1. CASE remote'.got = remote.got
    BY <1>2, <2>1
  <2>2. CASE RemoteAccepts
    <3>1. PICK b \in wire : remote' = [remote EXCEPT !.got = Append(remote.got, b[2])]
      BY <2>2 DEF RemoteAccepts
    <3>2. remote'.got = Append(remote.got, b[2])
      BY <1>2, <3>1 DEF Remote
    <3>3. Len(Append(remote.got, b[2])) = Len(remote.got) + 1
      BY <1>2 DEF Remote
    <3> QED BY <1>2, <3>2, <3>3
  <2>3. CASE RemoteSyn
    BY <1>2, <2>3 DEF RemoteSyn, Remote
  <2> QED BY <2>1, <2>2, <2>3 DEF Environment, Write, Close, Loses
<1> QED BY <1>1, <1>3, AcksGrow DEF IInv, Kept

LEMMA Preserved == ASSUME IInv, [Next]_vars PROVE Kept
<1>1. ASSUME UNCHANGED vars PROVE Kept
  <2>1. \A b \in wire' : RightByte(b)
    BY <1>1 DEF IInv, WireInv, vars
  <2>2. ThreadInv(svt', user') /\ UserInv(user') /\ RemoteInv'
    BY <1>1 DEF IInv, vars, RemoteInv, Accepted
  <2>3. IInv'
    BY <2>1, <2>2 DEF IInv, WireInv, RightByte
  <2>4. Len(remote.got) \in Nat
    BY LenProperties DEF IInv, RemoteInv, Remote
  <2>5. Len(remote.got) <= Len(remote'.got)
    BY <1>1, <2>4 DEF vars
  <2> QED BY <1>1, <2>2, <2>3, <2>5, AcksGrow DEF Kept, vars
<1> QED BY <1>1, MachineKeeps, WaitKeeps, EnvironmentKeeps, OverKeeps, BreaksKeeps
        DEF Next

LEMMA Starts == Init => AInv
<1> SUFFICES ASSUME Init PROVE Acks(svt)
  BY DEF AInv
<1>1. svt.state \notin Senders
  BY DEF Init, Senders, Receivers
<1> QED BY <1>1 DEF Init, Acks

-----------------------------------------------------------------------------
(* Theorems *)

LEMMA Invariant == Spec => [](IInv /\ AInv)
<1>1. Init => IInv /\ AInv
  BY Initially, Starts
<1>2. IInv /\ AInv /\ [Next]_vars => (IInv /\ AInv)'
  BY Preserved DEF Kept
<1> QED BY <1>1, <1>2, PTL DEF Spec

(* The variables of the thread keep their types: the numbers stay within their
   width, the buffer and what was sent of it within what the user wrote, and a
   SYN is sent MaxSyn + 1 times at most (sockvtcp.c:291-511). *)
THEOREM TypeCorrect == Spec => []TypeOK
<1>1. IInv => TypeOK
  <2> SUFFICES ASSUME IInv PROVE TypeOK
    OBVIOUS
  <2>1. svt \in Thread /\ ("sniff" \in svt.events <=> svt.pkt # None)
    BY DEF IInv, ThreadInv, Runs
  <2> QED BY <2>1 DEF TypeOK, Thread, Num, Event
<1> QED BY <1>1, Invariant, PTL

(* Both streams are right, for any losses, copies and delays, any width of the
   numbers that the streams do not wrap around by half and any initial numbers
   (sockvtcp.c:183-231, 533-605). *)
THEOREM StreamsAreRight == Spec => []Streams
<1>1. IInv => Streams
  <2> SUFFICES ASSUME IInv PROVE Streams
    OBVIOUS
  <2>1. /\ user.got = Numbers(0, Len(user.got)) /\ Len(user.got) \in 0 .. RemoteLen
        /\ svt.state \in Receivers => svt.remote = NumberOf(Len(user.got))
    BY LenProperties DEF IInv, UserInv, User, Records, ThreadInv, Core, Numbered
  <2>2. IsPrefix(user.got, Stream)
    <3> DEFINE G == Len(user.got)
    <3>1. G \in 0 .. RemoteLen /\ user.got = Numbers(0, G)
      BY <2>1
    <3> HIDE DEF G
    <3>2. <<0, G>> \in Spans
      BY <3>1, Half DEF Spans
    <3>3. SubSeq(Stream, 0 + 1, G) = Numbers(0, G - 0)
      BY <3>2, SpanIs
    <3>4. user.got = SubSeq(Stream, 1, G) /\ G <= Len(Stream)
      BY <3>1, <3>3, StreamIs, Half
    <3> QED BY <3>1, <3>4 DEF IsPrefix, G
  <2>3. Connected => svt.state \in Receivers
    BY DEF Connected, Receivers
  <2> QED BY <2>1, <2>2, <2>3 DEF Streams, IInv, RemoteInv, Accepted
<1> QED BY <1>1, Invariant, PTL

(* The father is told at most once, before the streams begin, and no loop that
   has come to its end left him untold, an error of the machine included
   (sockvtcp.c:450, 480, 1076-1078, 1099).  Of a thread that an error of
   another call took out of its function (1050-1073) this says nothing. *)
THEOREM FatherIsAnswered == Spec => []FatherAnswered
<1>1. IInv => FatherAnswered
  <2> SUFFICES ASSUME IInv PROVE FatherAnswered
    OBVIOUS
  <2>1. Answered(svt, user) /\ Numbered(svt, user)
    BY DEF IInv, ThreadInv, Core
  <2>2. Connected => svt.done
    BY <2>1 DEF Connected, Numbered, Before
  <2>3. Len(<<"OK">>) = 1 /\ Len(<<>>) = 0
    OBVIOUS
  <2>4. Len(user.answers) <= 1
    <3>1. user.answers = <<"OK">> \/ user.answers = <<>> \/ Len(user.answers) = 1
      BY <2>1 DEF Answered
    <3>2. CASE user.answers = <<"OK">>
      <4>1. Len(user.answers) = 1
        BY <2>3, <3>2
      <4> QED BY <4>1
    <3>3. CASE user.answers = <<>>
      <4>1. Len(user.answers) = 0
        BY <2>3, <3>3
      <4> QED BY <4>1
    <3>4. CASE Len(user.answers) = 1
      BY <3>4
    <3> QED BY <3>1, <3>2, <3>3, <3>4
  <2> QED BY <2>1, <2>2, <2>4 DEF FatherAnswered, Answered
<1> QED BY <1>1, Invariant, PTL

(* When no number that acknowledges data is the 0 of a packet that acknowledges
   nothing, the buffer is what was read and is not acknowledged, and no byte
   leaves it before the remote host has it (sockvtcp.c:184-203, 499-508). *)
THEOREM BufferHoldsTheRest ==
  ASSUME NoAckOfZero PROVE Spec => []BufferIsTheRest
<1>1. IInv /\ AInv => BufferIsTheRest
  <2> SUFFICES ASSUME IInv, Acks(svt), Sending PROVE BufferIsTheRest
    BY DEF AInv, BufferIsTheRest
  <2>1. svt.state \in Senders
    BY DEF Sending, Connected, Senders, Receivers
  <2>2. Buffer(svt, user) /\ Out(svt) <= Len(remote.got)
    BY <2>1 DEF IInv, ThreadInv, Core, Acks
  <2> QED BY <2>1, <2>2 DEF BufferIsTheRest, Buffer, Numbers
<1> QED BY <1>1, Invariant, PTL
=============================================================================
