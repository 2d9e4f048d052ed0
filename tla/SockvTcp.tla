------------------------------ MODULE SockvTcp ------------------------------
(***************************************************************************)
(* The thread of a virtual TCP client or server (sockv/sockvtcp.c): a      *)
(* state machine fed with the user's calls, the packets that are sniffed   *)
(* and the end of a timer, which it waits for together.                    *)
(*                                                                         *)
(* The user writes the bytes 1, 2, ... and closes when he likes.  The      *)
(* remote host is a correct TCP; the network loses, duplicates and         *)
(* reorders in both directions: what the remote host may have sent so far  *)
(* can be sniffed at any time and any number of times.                     *)
(***************************************************************************)
EXTENDS Integers, SequencesExt

CONSTANTS
  NumMod,      \* the width of sequence numbers: 2^32 in the code
  Isn,         \* svt.isn, drawn at random in the code
  RemoteIsn,   \* the initial number of the remote host
  UsrLen,      \* bytes that the user writes at most: a bound of the check
  RemoteLen,   \* bytes that the remote host sends: a bound of the check
  Remotes,     \* remote hosts: [windows: what they announce, ends: how they end]
  Roles,       \* subset of {"cli", "ser"}
  MaxSyn,      \* the SYNs that are sent before giving up, less one: 5 in the code
  SYN, FIN,    \* what a SYN and a FIN take of the sequence numbers
  None

ASSUME SockvTcpAssumption ==
  /\ {NumMod, UsrLen, RemoteLen, MaxSyn} \subseteq Nat
  /\ UsrLen + 2 < NumMod \div 2 /\ RemoteLen + 2 < NumMod \div 2
  /\ {Isn, RemoteIsn} \subseteq 0 .. NumMod - 1
  /\ \A r \in Remotes : r.windows \subseteq Nat /\ r.ends \subseteq {"ackfin", "fin", "rst"}
  /\ Roles \subseteq {"cli", "ser"} /\ SYN \notin Nat /\ FIN \notin Nat
  /\ None \notin [flags : SUBSET {"syn", "ack", "fin", "rst"}, seq : Nat, acknum : Nat,
                  window : Nat, data : Seq(Nat)]

VARIABLES
  svt,      \* the variables of the thread, and the place pc where it is
  user,     \* tlv: records the thread has to read; written, ended; got: what
            \* he was given; answers: the codes of the information channel
  remote,   \* synced; got: the bytes accepted, FIN included; windows, ends
  wire      \* bytes sent to the remote host, <<number, byte>>, not lost yet
vars == <<svt, user, remote, wire>>

Plus(n, k) == (n + k) % NumMod
Signed(n) == LET m == n % NumMod IN IF m >= NumMod \div 2 THEN m - NumMod ELSE m

AfterInit == [LISTEN_INIT |-> "LISTEN", SYNRECEIVED_INIT |-> "SYNRECEIVED",
  ESTABLISHED_INIT |-> "ESTABLISHED", FINWAIT1_INIT |-> "FINWAIT1",
  FINWAIT2_INIT |-> "FINWAIT2", CLOSEWAIT_INIT |-> "CLOSEWAIT",
  CLOSING_INIT |-> "CLOSING", LASTACK_INIT |-> "LASTACK",
  TIMEWAIT_INIT |-> "TIMEWAIT", CLOSED_INIT |-> "CLOSED"]
Untimed == {"LISTEN_INIT", "TIMEWAIT_INIT", "CLOSED_INIT"}

Init ==
  /\ \E role \in Roles :
       svt = [pc |-> "machine", role |-> role, events |-> {}, timed |-> FALSE, pkt |-> None,
              state |-> IF role = "cli" THEN "SYNSENT_INIT" ELSE "LISTEN_INIT",
              local |-> 0, remote |-> 0, lastack |-> 0, lastwin |-> 0, begin |-> 0,
              sentsize |-> 0, usrbuf |-> <<>>, synsent |-> 0, done |-> FALSE]
  /\ user = [tlv |-> <<>>, written |-> 0, ended |-> FALSE, got |-> <<>>, answers |-> <<>>]
  /\ \E r \in Remotes :
       remote = [synced |-> FALSE, got |-> <<>>, windows |-> r.windows, ends |-> r.ends]
  /\ wire = {}

-----------------------------------------------------------------------------
(* What the remote host may have sent so far. *)
Stream == [n \in 1 .. RemoteLen |-> n]
NumberOf(pos) == Plus(RemoteIsn, pos + 1)       \* of the byte after pos bytes
Acked == {Plus(Isn, k + 1) : k \in 0 .. Len(remote.got)}
NextNumber == Plus(Isn, Len(remote.got) + 1)

Pkt(flags, seq, acknum, window, data) ==
  [flags |-> flags, seq |-> seq, acknum |-> acknum, window |-> window, data |-> data]

SynAcks == {Pkt({"syn", "ack"}, RemoteIsn, Plus(Isn, 1), w, <<>>) : w \in remote.windows}
Refusal == Pkt({"rst", "ack"}, 0, Plus(Isn, 1), 0, <<>>)
Syn == Pkt({"syn"}, RemoteIsn, 0, 0, <<>>)

(* From the number before the stream: a keep-alive. *)
Spans == {<<-1, -1>>} \union {r \in (0 .. RemoteLen) \X (0 .. RemoteLen) : r[1] <= r[2]}

Segments ==
  {Pkt({"ack"}, NumberOf(r[1]), a, w, SubSeq(Stream, r[1] + 1, r[2])) :
     r \in Spans, a \in Acked, w \in remote.windows}

AckFins ==
  {Pkt({"ack", "fin"}, NumberOf(from), a, w, SubSeq(Stream, from + 1, RemoteLen)) :
     from \in 0 .. RemoteLen, a \in Acked, w \in remote.windows}
Bare(flag) == {Pkt({flag}, NumberOf(from), 0, 0, <<>>) : from \in 0 .. RemoteLen}

Ends ==
  (IF "ackfin" \in remote.ends THEN AckFins ELSE {})
  \union UNION {Bare(flag) : flag \in remote.ends \intersect {"fin", "rst"}}

Packets ==
  (IF svt.role = "ser" THEN {Syn} ELSE {})
  \union (IF svt.role = "cli" /\ <<Isn, SYN>> \in wire THEN {Refusal} ELSE {})
  \union (IF svt.role = "cli" /\ remote.synced THEN SynAcks ELSE {})
  \union (IF remote.synced THEN Segments \union Ends ELSE {})

-----------------------------------------------------------------------------
(* Waiting: netwib_wait_wait3 tests the end of the timer, then the user's
   data, then his end and the sniff. *)
Waits(s) == [s EXCEPT !.pc = IF s.events = {} THEN "wait" ELSE "machine"]

Timeout ==
  /\ svt.pc = "wait" /\ svt.timed
  /\ svt' = [svt EXCEPT !.pc = "machine", !.events = {"timeout"}]
  /\ UNCHANGED <<user, remote, wire>>

TestUsr ==
  /\ svt.pc = "wait"
  /\ svt' = [svt EXCEPT !.pc = "test", !.events = IF user.tlv = <<>> THEN {} ELSE {"usr"}]
  /\ UNCHANGED <<user, remote, wire>>

(* eventusr: one record is read, and the end is put off. *)
Read(s) == IF "usr" \in s.events THEN [s EXCEPT !.usrbuf = @ \o user.tlv[1]] ELSE s
EndSeen(s) == IF user.ended /\ "usr" \notin s.events THEN {"usrend"} ELSE {}

(* eventsniff: any other number acknowledged is the last one. *)
Sniffed(s, p) ==
  IF p.acknum = s.lastack THEN [s EXCEPT !.pkt = p]
  ELSE [s EXCEPT !.pkt = p, !.lastack = p.acknum, !.lastwin = p.window]

(* Faulty form: an acknowledgment does not send what the window held back. *)
FaultySendsAgain(s) == {}
SendsAgain(s) == IF s.usrbuf # <<>> THEN {"usr"} ELSE {}

Tested ==
  user' = [user EXCEPT !.tlv = IF "usr" \in svt.events THEN Tail(@) ELSE @]

TestNothing ==
  /\ svt.pc = "test"
  /\ svt' = Waits([Read(svt) EXCEPT !.events = @ \union EndSeen(svt)])
  /\ Tested
  /\ UNCHANGED <<remote, wire>>

(* A packet that is not for this connection. *)
TestStray ==
  /\ svt.pc = "test"
  /\ svt' = Waits([Read(svt) EXCEPT !.events = @ \union EndSeen(svt) \union SendsAgain(Read(svt))])
  /\ Tested
  /\ UNCHANGED <<remote, wire>>

TestSniff(p) ==
  /\ svt.pc = "test"
  /\ svt' = Waits([Sniffed(Read(svt), p) EXCEPT
              !.events = @ \union EndSeen(svt) \union SendsAgain(Read(svt)) \union {"sniff"}])
  /\ Tested
  /\ UNCHANGED <<remote, wire>>

-----------------------------------------------------------------------------
(* The machine: one event at a time, in this order. *)
Mask ==
  CASE "usrend" \in svt.events -> "usrend"
    [] "usrend" \notin svt.events /\ "sniff" \in svt.events -> "sniff"
    [] svt.events \intersect {"usrend", "sniff"} = {} /\ "usr" \in svt.events -> "usr"
    [] svt.events = {"timeout"} -> "timeout"
    [] OTHER -> "none"

On(states, event) == svt.pc = "machine" /\ svt.state \in states /\ Mask = event

(* The loop goes on while there is an event or the state changes. *)
Settled(s) ==
  [s EXCEPT !.pc = IF s.events # {} \/ s.state # svt.state THEN "machine" ELSE "wait",
            !.pkt = IF "sniff" \in s.events THEN @ ELSE None]

Handled(event) == [svt EXCEPT !.events = @ \ {event}]
To(state, event) == [Handled(event) EXCEPT !.state = state]

Becomes(s) == svt' = Settled(s) /\ UNCHANGED <<user, remote, wire>>

(* netwox_sockv_thread_tcp_actionspoof2: the numbers that data, a SYN or a FIN
   take are on the way, an ACK takes none.  The remote host drops what it has. *)
Has(number) == remote.synced /\ number \in ({Isn} \union Acked) \ {NextNumber}
Spoofs(s, bytes) ==
  /\ svt' = Settled(s)
  /\ wire' = wire \union {b \in bytes : ~Has(b[1])}
  /\ UNCHANGED <<user, remote>>

(* netwox_sockv_thread_tcp_actionspoof: the data acknowledged leaves the
   buffer, then what the window allows is sent. *)
Released(s, n) ==
  [s EXCEPT !.usrbuf = SubSeq(@, n + 1, Len(@)), !.begin = s.lastack, !.sentsize = @ - n]
Unsent(s) == SubSeq(s.usrbuf, s.sentsize + 1, Len(s.usrbuf))
Room(s) == IF s.lastwin > s.sentsize THEN s.lastwin - s.sentsize ELSE 0
Least(a, b) == IF a < b THEN a ELSE b

SpoofsBuffer(s) ==
  LET acked == Signed(s.lastack - s.begin)
      r == IF acked > 0 THEN Released(s, acked) ELSE s
      n == Least(Room(r), Len(Unsent(r)))
  IN  \/ /\ acked > s.sentsize                 \* "perhaps a fake packet"
         /\ Becomes([s EXCEPT !.lastack = s.begin, !.lastwin = 0, !.events = @ \ {"usr"}])
      \/ /\ acked <= s.sentsize
         /\ Spoofs([r EXCEPT !.local = Plus(@, n), !.sentsize = @ + n, !.events = @ \ {"usr"}],
                   {<<Plus(r.local, i - 1), Unsent(r)[i]>> : i \in 1 .. n})

Gives(s, data) ==
  /\ svt' = Settled(s)
  /\ user' = [user EXCEPT !.got = @ \o data]
  /\ UNCHANGED <<remote, wire>>

(* Faulty form: the code goes to the father even after the handshake. *)
FaultyOver(code) ==
  /\ svt' = [svt EXCEPT !.pc = "over", !.events = {}, !.pkt = None]
  /\ user' = [user EXCEPT !.answers = Append(@, code)]
  /\ UNCHANGED <<remote, wire>>

(* The end of the loop; the father is told why when there was no handshake. *)
Over(code) ==
  /\ svt' = [svt EXCEPT !.pc = "over", !.events = {}, !.pkt = None]
  /\ user' = IF svt.done THEN user ELSE [user EXCEPT !.answers = Append(@, code)]
  /\ UNCHANGED <<remote, wire>>

HandshakeDone(s) ==
  /\ svt' = Settled([s EXCEPT !.state = "ESTABLISHED_INIT", !.done = TRUE])
  /\ user' = [user EXCEPT !.answers = Append(@, "OK")]
  /\ UNCHANGED <<remote, wire>>

-----------------------------------------------------------------------------
Enter ==
  /\ svt.pc = "machine" /\ svt.state \in DOMAIN AfterInit
  /\ Becomes([svt EXCEPT !.state = AfterInit[@], !.timed = svt.state \notin Untimed])

(* Nothing is left to handle: the state only changed. *)
Nothing ==
  /\ On({"LISTEN", "SYNSENT", "SYNRECEIVED", "ESTABLISHED", "FINWAIT1", "FINWAIT2",
         "CLOSEWAIT", "CLOSING", "LASTACK"}, "none")
  /\ Becomes(svt)

SendSyn ==
  /\ svt.pc = "machine" /\ svt.state = "SYNSENT_INIT"
  /\ Spoofs([svt EXCEPT !.state = "SYNSENT", !.local = Isn, !.timed = TRUE, !.synsent = @ + 1],
            {<<Isn, SYN>>})

(* Faulty form: one SYN too many. *)
FaultySynSentTimeout ==
  /\ On({"SYNSENT"}, "timeout")
  /\ IF svt.synsent > MaxSyn + 1 THEN Over("NOSYNACK")
     ELSE Becomes(To("SYNSENT_INIT", "timeout"))

SynSentTimeout ==
  /\ On({"SYNSENT"}, "timeout")
  /\ IF svt.synsent > MaxSyn THEN Over("NOSYNACK") ELSE Becomes(To("SYNSENT_INIT", "timeout"))

SynSentSniff ==
  LET p == svt.pkt
      acks == p.acknum = Plus(svt.local, 1)
  IN  /\ On({"SYNSENT"}, "sniff")
      /\ CASE p.flags = {"rst", "ack"} /\ p.seq = 0 /\ acks -> Over("RST")
           [] p.flags = {"syn", "ack"} /\ acks ->
                HandshakeDone([Handled("sniff") EXCEPT !.local = Plus(@, 1),
                  !.begin = Plus(svt.local, 1), !.remote = Plus(p.seq, 1)])
           [] OTHER -> Becomes(Handled("sniff"))

ListenSniff ==
  LET p == svt.pkt
  IN  /\ On({"LISTEN"}, "sniff")
      /\ IF p.flags = {"syn"}
         THEN Spoofs([To("SYNRECEIVED_INIT", "sniff") EXCEPT !.remote = Plus(p.seq, 1),
                        !.local = Plus(Isn, 1), !.begin = Plus(Isn, 1)], {<<Isn, SYN>>})
         ELSE Becomes(Handled("sniff"))

SynReceivedTimeout ==
  On({"SYNRECEIVED"}, "timeout") /\ Becomes(To("LISTEN_INIT", "timeout"))

SynReceivedSniff ==
  /\ On({"SYNRECEIVED"}, "sniff")
  /\ IF svt.pkt.flags = {"ack"} /\ svt.pkt.acknum = svt.local
     THEN HandshakeDone(Handled("sniff"))
     ELSE Becomes(Handled("sniff"))

(* Faulty form: a server that listens keeps listening when the user closes. *)
FaultyNotConnected ==
  \/ \E event \in {"usrend", "usr"} : On({"SYNSENT", "SYNRECEIVED"}, event) /\ Over("INTERNALERROR")
  \/ On({"LISTEN"}, "usrend") /\ Becomes(Handled("usrend"))

(* The user closes before the handshake: NETWOX_ERR_INTERNALERROR. *)
NotConnected ==
  \E event \in {"usrend", "usr"} :
    On({"LISTEN", "SYNSENT", "SYNRECEIVED"}, event) /\ Over("INTERNALERROR")

(* Faulty form: what is sent again gets new numbers. *)
FaultyEstablishedTimeout ==
  /\ On({"ESTABLISHED"}, "timeout")
  /\ IF svt.sentsize = 0 THEN Becomes(Handled("timeout"))
     ELSE SpoofsBuffer([Handled("timeout") EXCEPT !.sentsize = 0])

(* All that was sent and not acknowledged is sent again. *)
EstablishedTimeout ==
  /\ On({"ESTABLISHED"}, "timeout")
  /\ IF svt.sentsize = 0 THEN Becomes(Handled("timeout"))
     ELSE SpoofsBuffer([Handled("timeout") EXCEPT !.local = Plus(@, - svt.sentsize),
                                                  !.sentsize = 0])

EstablishedUsrEnd ==
  /\ On({"ESTABLISHED"}, "usrend")
  /\ Spoofs([To("FINWAIT1_INIT", "usrend") EXCEPT !.local = Plus(@, 1)],
            {<<svt.local, FIN>>})

SendsUsr == On({"ESTABLISHED", "CLOSEWAIT"}, "usr") /\ SpoofsBuffer(Handled("usr"))

(* Faulty form: data is taken whatever its number. *)
FaultyEstablishedSniff ==
  /\ On({"ESTABLISHED"}, "sniff")
  /\ IF svt.pkt.flags = {"ack"}
     THEN Gives([Handled("sniff") EXCEPT !.remote = Plus(@, Len(svt.pkt.data))], svt.pkt.data)
     ELSE Becomes(Handled("sniff"))

EstablishedSniff ==
  LET p == svt.pkt
      next == p.seq = svt.remote
      after == Plus(svt.remote, Len(p.data))
  IN  /\ On({"ESTABLISHED"}, "sniff")
      /\ CASE p.flags = {"rst"} /\ next -> Becomes(To("CLOSED_ONRESET", "sniff"))
           [] p.flags = {"fin"} /\ next ->
                Becomes([To("CLOSEWAIT_INIT", "sniff") EXCEPT !.remote = Plus(@, 1)])
           [] p.flags = {"ack"} /\ next ->
                Gives([Handled("sniff") EXCEPT !.remote = after], p.data)
           [] p.flags = {"ack", "fin"} /\ next ->
                Gives([To("CLOSEWAIT_INIT", "sniff") EXCEPT !.remote = Plus(after, 1)], p.data)
           [] OTHER -> Becomes(Handled("sniff"))       \* keep-alives are acknowledged

(* The remote host closed: a little time is left for the user's data. *)
CloseWaitEnd ==
  \E event \in {"timeout", "usrend"} :
    /\ On({"CLOSEWAIT"}, event)
    /\ Spoofs(To("LASTACK_INIT", "timeout"), {<<svt.local, FIN>>})

Ignored ==
  \/ On({"CLOSEWAIT"}, "sniff") /\ Becomes(Handled("sniff"))
  \/ On({"FINWAIT1", "FINWAIT2", "CLOSING", "LASTACK"}, "usr") /\ Becomes(Handled("usr"))

(* The user closed: the thread need not see the end of the connection. *)
Left ==
  On({"FINWAIT1", "FINWAIT2", "CLOSING", "LASTACK"}, "usrend") /\ Over("OK")

EndTimeout ==
  /\ On({"FINWAIT1", "FINWAIT2", "CLOSING", "LASTACK"}, "timeout")
  /\ Becomes(To(IF svt.state = "LASTACK" THEN "CLOSED" ELSE "CLOSED_INIT", "timeout"))

Reset(p) == p.flags = {"rst"} /\ p.seq = svt.remote

FinWait1Sniff ==
  LET p == svt.pkt
  IN  /\ On({"FINWAIT1"}, "sniff")
      /\ CASE Reset(p) -> Becomes(To("CLOSED_INIT", "sniff"))
           [] p.flags = {"ack"} /\ p.acknum = svt.local -> Becomes(To("FINWAIT2_INIT", "sniff"))
           [] p.flags = {"fin"} -> Becomes([To("CLOSING_INIT", "sniff") EXCEPT !.remote = p.seq])
           [] OTHER -> Becomes(Handled("sniff"))

FinWait2Sniff ==
  LET p == svt.pkt
  IN  /\ On({"FINWAIT2"}, "sniff")
      /\ CASE Reset(p) -> Becomes(To("CLOSED_INIT", "sniff"))
           [] p.flags \in {{"ack", "fin"}, {"fin"}} ->
                Becomes([To("TIMEWAIT_INIT", "sniff") EXCEPT !.remote = p.seq])
           [] OTHER -> Becomes(Handled("sniff"))

ClosingSniff ==
  LET p == svt.pkt
  IN  /\ On({"CLOSING"}, "sniff")
      /\ CASE Reset(p) -> Becomes(To("CLOSED_INIT", "sniff"))
           [] p.flags = {"ack"} /\ p.acknum = svt.local -> Becomes(To("TIMEWAIT_INIT", "sniff"))
           [] OTHER -> Becomes(Handled("sniff"))

LastAckSniff ==
  LET p == svt.pkt
  IN  /\ On({"LASTACK"}, "sniff")
      /\ IF Reset(p) \/ (p.flags = {"ack"} /\ p.acknum = Plus(svt.local, 1))
         THEN Becomes(To("CLOSED_INIT", "sniff"))
         ELSE Becomes(Handled("sniff"))

TimeWait ==
  /\ svt.pc = "machine" /\ svt.state = "TIMEWAIT"
  /\ IF Mask = "usrend" THEN Over("OK") ELSE Becomes(To("CLOSED", Mask))

(* A packet cannot be sent, or data not be given: the loop ends. *)
Fails == svt.pc = "machine" /\ svt.state # "LISTEN_INIT" /\ Over("ERROR")

(* Another call fails, the first one of the machine, a wait, a read, the
   decoding of a packet or a close: the thread returns from where it is. *)
Breaks ==
  /\ svt.pc \in {"wait", "test", "machine"}
  /\ svt' = [svt EXCEPT !.pc = "broken", !.events = {}, !.pkt = None]
  /\ UNCHANGED <<user, remote, wire>>

Closed == svt.pc = "machine" /\ svt.state = "CLOSED" /\ Over("OK")
ClosedOnReset == svt.pc = "machine" /\ svt.state = "CLOSED_ONRESET" /\ Over("RST")

-----------------------------------------------------------------------------
(* The user: he writes when he is connected (netwox_priv_io_sockv_tcpaccept). *)
Write(n) ==
  /\ user.answers = <<"OK">> /\ ~user.ended /\ user.written + n <= UsrLen
  /\ user' = [user EXCEPT !.written = @ + n,
                !.tlv = Append(@, [k \in 1 .. n |-> user.written + k])]
  /\ UNCHANGED <<svt, remote, wire>>

Close ==
  /\ ~user.ended
  /\ user' = [user EXCEPT !.ended = TRUE]
  /\ UNCHANGED <<svt, remote, wire>>

(* The remote host and the network. *)
RemoteSyn ==
  /\ <<Isn, SYN>> \in wire /\ ~remote.synced
  /\ remote' = [remote EXCEPT !.synced = TRUE]
  /\ wire' = {b \in wire : b[1] # Isn}
  /\ UNCHANGED <<svt, user>>

RemoteAccepts ==
  /\ remote.synced /\ FIN \notin ToSet(remote.got)
  /\ \E b \in wire : /\ b[1] = NextNumber
                     /\ remote' = [remote EXCEPT !.got = Append(@, b[2])]
  /\ wire' = {b \in wire : b[1] # NextNumber}
  /\ UNCHANGED <<svt, user>>

Loses ==
  /\ \E b \in wire : wire' = wire \ {b}
  /\ UNCHANGED <<svt, user, remote>>

Waiting == svt.pc \in {"wait", "test"}

Environment ==
  /\ Waiting
  /\ \/ \E n \in 1 .. UsrLen : Write(n)
     \/ Close \/ RemoteSyn \/ RemoteAccepts \/ Loses

Wait ==
  \/ Timeout \/ TestUsr \/ TestNothing \/ TestStray
  \/ \E p \in Packets : TestSniff(p)

Machine ==
  \/ Enter \/ Nothing \/ SendSyn \/ SynSentTimeout \/ SynSentSniff
  \/ ListenSniff \/ SynReceivedTimeout \/ SynReceivedSniff \/ NotConnected
  \/ EstablishedTimeout \/ EstablishedUsrEnd \/ SendsUsr \/ EstablishedSniff
  \/ CloseWaitEnd \/ Ignored \/ Left \/ EndTimeout \/ FinWait1Sniff
  \/ FinWait2Sniff \/ ClosingSniff \/ LastAckSniff \/ TimeWait \/ Closed \/ ClosedOnReset

Next == Machine \/ Wait \/ Environment \/ Fails \/ Breaks

(* The thread runs, its timers end, and it tests its events again and again
   between two ends of a timer.  The network does not lose for ever what is
   sent again for ever: neither a byte, nor the last acknowledgment. *)
LastAck ==
  \E w \in remote.windows :
    TestSniff(Pkt({"ack"}, NumberOf(0), NextNumber, w, <<>>))

Fairness ==
  /\ WF_vars(Machine) /\ WF_vars(Wait)
  /\ SF_vars(Timeout) /\ SF_vars(TestUsr)
  /\ SF_vars(Waiting /\ RemoteAccepts)
  /\ SF_vars(remote.synced /\ LastAck)

Spec == Init /\ [][Next]_vars /\ Fairness

-----------------------------------------------------------------------------
States == DOMAIN AfterInit \union {AfterInit[s] : s \in DOMAIN AfterInit}
          \union {"SYNSENT_INIT", "SYNSENT", "CLOSED_ONRESET"}

TypeOK ==
  /\ svt.pc \in {"wait", "test", "machine", "over", "broken"}
  /\ svt.state \in States
  /\ svt.events \subseteq {"usrend", "sniff", "usr", "timeout"}
  /\ {svt.local, svt.remote, svt.lastack, svt.begin} \subseteq 0 .. NumMod - 1
  /\ svt.sentsize \in 0 .. UsrLen /\ svt.usrbuf \in Seq(1 .. UsrLen)
  /\ svt.synsent \in 0 .. MaxSyn + 1
  /\ "sniff" \in svt.events <=> svt.pkt # None

(* Whatever is lost, duplicated, delayed or sent again, the remote host
   accepts the bytes of the user in order and once, and the user is given
   those of the remote host in order and once; what was not given is not
   acknowledged (sockvtcp.c:183-231, 533-605). *)
Connected == svt.state \in {"ESTABLISHED_INIT", "ESTABLISHED"}
Streams ==
  /\ \A n \in DOMAIN remote.got :
       remote.got[n] = n \/ (remote.got[n] = FIN /\ n = Len(remote.got))
  /\ IsPrefix(user.got, Stream)
  /\ Connected => svt.remote = NumberOf(Len(user.got))

(* While data can be sent, the buffer holds exactly the bytes read from the
   user that are not acknowledged, the first sentsize of them were sent, and
   no byte left the buffer before the remote host had it
   (sockvtcp.c:184-203, 499-508). *)
Sending == Connected \/ svt.state \in {"CLOSEWAIT_INIT", "CLOSEWAIT"}
Out(s) == Signed(s.begin - Plus(Isn, 1))
FirstUnread(u) == IF u.tlv = <<>> THEN u.written + 1 ELSE u.tlv[1][1]
BufferIsTheRest ==
  Sending =>
    /\ svt.local = Plus(svt.begin, svt.sentsize)
    /\ svt.sentsize <= Len(svt.usrbuf)
    /\ svt.usrbuf = [n \in 1 .. FirstUnread(user) - 1 - Out(svt) |-> Out(svt) + n]
    /\ Out(svt) <= Len(remote.got)

(* What the last conjunct needs: the code takes the number of a packet that
   acknowledges nothing, 0, for an acknowledgment (sockvtcp.c:328-331), so
   that no byte that the user writes may come just before 0. *)
NoAckOfZero == 0 \notin {Plus(Isn, k) : k \in 2 .. UsrLen + 1}

(* The father, who waits for it in netwox_priv_io_sockv_tcpaccept, is told
   at most once whether there is a connection, and is told the truth; once
   the loop of the thread has come to its end, by an error of the machine or
   not, he was told (sockvtcp.c:450, 480, 1076-1078, 1099).  A thread that
   another error took out of its loop (Breaks) may leave him waiting. *)
FatherAnswered ==
  /\ Len(user.answers) <= 1
  /\ svt.pc = "over" => Len(user.answers) = 1
  /\ Connected => user.answers = <<"OK">>

\* The ends of the thread: that of its loop, or an error in the middle of it.
Ended == {"over", "broken"}

(* netwox_priv_io_sockv_close, which waits for the thread, returns: the
   thread ends in whatever state it is (sockv.c:32-35). *)
ThreadEnds == user.ended ~> svt.pc \in Ended

(* Through a window that stays open, and as long as nobody closes and no call
   fails, each byte
   the user of a client writes reaches the remote host, though packets are
   lost, duplicated and reordered (sockvtcp.c:183-231, 498-511, 1066-1073).
   Not so for a server: a SYN that arrives again acknowledges 0, which shuts
   the window for good (sockvtcp.c:186-192, 328-331). *)
Open == Connected /\ ~user.ended /\ svt.pc \notin Ended
Lasting ==
  /\ svt.role = "cli" /\ remote.ends = {}
  /\ Cardinality(remote.windows) = 1 /\ 0 \notin remote.windows
DataFlows ==
  \A n \in 1 .. UsrLen :
    Lasting /\ user.written >= n ~> Len(remote.got) >= n \/ ~Open

(* What sockvtcp.c:1060-1062 says of a close that comes while there is still
   data to send, that it is dealt with afterwards: the FIN comes after all
   that the user wrote. *)
FinAfterAll == FIN \in ToSet(remote.got) => Len(remote.got) = user.written + 1
=============================================================================
