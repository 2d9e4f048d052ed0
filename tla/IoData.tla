------------------------------- MODULE IoData -------------------------------
(***************************************************************************)
(* The data io of netwib (sys/pieces/iousual_data.c): an intermediary link *)
(* that cuts a stream into lines, chunks, data of a fixed size, or nothing *)
(* (transparent).  Each way keeps a buffer: bytes that arrived from below  *)
(* and are not an item yet, or bytes written that did not leave yet.       *)
(*                                                                         *)
(* What is below (a file, a socket) gives some bytes, none, an error, or   *)
(* its end, and takes all that is written or fails.  Programs change the   *)
(* settings between two calls, as HTTP does between its lines and a body.  *)
(***************************************************************************)
EXTENDS Integers, Sequences, FiniteSetsExt

CONSTANTS
  CR, LF,    \* the two bytes that end lines
  Setups     \* [source: what comes from below, writes: what is written,
             \*  rdset, wrset: first settings, changes: settings set later]

(* The sizes are those that callers give: a minimum of 1 (the default, and
   httpbody.c:103, 275), no maximum (0) or one that is not below the minimum
   (httpbody.c:105, 143), no item of size 0 (record.c:527). *)
Settings ==
  {set \in [type : {"LINE", "CHUNK", "FIXED", "TRANSPARENT"}, msdos : BOOLEAN,
            minsize : Nat \ {0}, maxsize : Nat, fixedsize : Nat \ {0}] :
     set.maxsize = 0 \/ set.minsize <= set.maxsize}
DataAssumption ==
  /\ CR \in Nat /\ LF \in Nat /\ CR # LF
  /\ Setups \subseteq [source : Seq(Nat), writes : Seq(Seq(Nat)), rdset : Settings,
                       wrset : Settings, changes : SUBSET Settings]

VARIABLES
  rd, wr,       \* [set, buf, endreached] of each way
  wrsupported,  \* pio->wr.supported
  source,       \* what has not come from below yet
  writes,       \* what the program has not written yet
  changes,      \* the settings it may set
  writing,      \* a write is in its loop
  got, passed   \* what the last read gave, what was last written below
datavars ==
  <<rd, wr, wrsupported, source, writes, changes, writing, got, passed>>

Way(set) == [set |-> set, buf |-> <<>>, endreached |-> FALSE]
Init ==
  \E s \in Setups :
    /\ rd = Way(s.rdset) /\ wr = Way(s.wrset) /\ wrsupported = TRUE
    /\ source = s.source /\ writes = s.writes /\ changes = s.changes
    /\ writing = FALSE
    /\ got = [err |-> "none", data |-> <<>>] /\ passed = <<>>

-----------------------------------------------------------------------------
(* netwib_priv_io_data_contain: whether a buffer has an item, its size, and
   where the next one begins. *)

Item(size, next) == [is |-> "yes", size |-> size, next |-> next]
Nothing == [is |-> "no", size |-> 0, next |-> 0]
AtEnd == [is |-> "DATAEND", size |-> 0, next |-> 0]

LineEnds(b) == {i \in DOMAIN b : b[i] \in {CR, LF}}

\* Where the scan stops: at an LF, or at a byte that follows a CR.
Stops(b) ==
  {i \in DOMAIN b : \/ b[i] = LF
                    \/ (b[i] # CR /\ \E j \in 1 .. i - 1 : b[j] = CR)}

ContainLine(b, endreached) ==
  IF Stops(b) # {}
  THEN LET i == Min(Stops(b))
       IN  Item(Min(LineEnds(b)) - 1, IF b[i] = LF THEN i ELSE i - 1)
  ELSE IF ~endreached THEN Nothing
  ELSE IF b = <<>> THEN AtEnd
  ELSE Item(Max({1} \cup {i \in DOMAIN b : b[i] # CR}), Len(b))

\* An item of the first bytes, once there are enough of them or no more come.
ContainBlock(b, endreached, enough, size) ==
  IF Len(b) >= enough THEN Item(size, size)
  ELSE IF ~endreached THEN Nothing
  ELSE IF b = <<>> THEN AtEnd ELSE Item(Len(b), Len(b))

Contain(way) ==
  LET b == way.buf  n == Len(b)  set == way.set
  IN  CASE set.type = "LINE" -> ContainLine(b, way.endreached)
        [] set.type = "CHUNK" ->
             ContainBlock(b, way.endreached, set.minsize,
               IF set.maxsize = 0 THEN n ELSE Min({n, set.maxsize}))
        [] set.type = "FIXED" ->
             ContainBlock(b, way.endreached, set.fixedsize, set.fixedsize)
        [] set.type = "TRANSPARENT" ->
             ContainBlock(b, way.endreached, 1, n)

First(b, n) == SubSeq(b, 1, n)
Skip(b, n) == SubSeq(b, n + 1, Len(b))

-----------------------------------------------------------------------------
(* Reading *)

\* netwib_priv_fd_read: some bytes, none now, an error, or the end.
Below ==
  {[err |-> "OK", n |-> n] : n \in 1 .. Len(source)}
    \cup {[err |-> e, n |-> 0] : e \in {"DATANOTAVAIL", "ERROR"}}
    \cup (IF source = <<>> THEN {[err |-> "DATAEND", n |-> 0]} ELSE {})

Give(way, err, data) ==
  /\ rd' = way
  /\ got' = [err |-> err, data |-> data]
  /\ UNCHANGED <<wr, wrsupported, writes, changes, writing, passed>>

GiveItem(way) ==
  LET c == Contain(way)
  IN  Give([way EXCEPT !.buf = Skip(@, c.next)], "OK", First(way.buf, c.size))

\* The buffer has an item, or is at its end.
ReadStored ==
  /\ ~writing /\ Contain(rd).is # "no"
  /\ IF Contain(rd).is = "yes" THEN GiveItem(rd) ELSE Give(rd, "DATAEND", <<>>)
  /\ UNCHANGED source

\* A transparent io with nothing stored reads into the caller's buffer.
ReadThrough(a) ==
  /\ ~writing /\ Contain(rd).is = "no" /\ rd.set.type = "TRANSPARENT"
  /\ source' = Skip(source, a.n)
  /\ Give(rd, a.err, First(source, a.n))

\* The buffer once below has answered.
Filled(a) == [rd EXCEPT !.buf = @ \o First(source, a.n),
                        !.endreached = @ \/ a.err = "DATAEND"]

\* One read below, then the buffer is looked at again.
ReadMore(a) ==
  /\ ~writing /\ Contain(rd).is = "no" /\ rd.set.type # "TRANSPARENT"
  /\ source' = Skip(source, a.n)
  /\ CASE a.err \notin {"OK", "DATAEND"} -> Give(rd, a.err, <<>>)
       [] a.err \in {"OK", "DATAEND"} /\ Contain(Filled(a)).is = "yes" ->
            GiveItem(Filled(a))
       [] a.err = "DATAEND" /\ Contain(Filled(a)).is = "DATAEND" ->
            Give(Filled(a), "DATAEND", <<>>)
       [] OTHER -> Give(Filled(a), "DATANOTAVAIL", <<>>)

Eol(set) == IF set.msdos THEN <<CR, LF>> ELSE <<LF>>

\* Callers unread the item that they have just read; a line without a CR.
Unread ==
  /\ ~writing /\ got.err = "OK"
  /\ rd.set.type = "LINE" => LineEnds(got.data) = {}
  /\ rd' = [rd EXCEPT !.buf =
       got.data \o (IF rd.set.type = "LINE" THEN Eol(rd.set) ELSE <<>>) \o @]
  /\ got' = [err |-> "none", data |-> <<>>]
  /\ UNCHANGED <<wr, wrsupported, source, writes, changes, writing, passed>>

-----------------------------------------------------------------------------
(* Writing *)

\* The program's next write; one that failed is not done again.
Begin ==
  /\ ~writing /\ wrsupported /\ writes # <<>>
  /\ writes' = Tail(writes)
  /\ UNCHANGED <<rd, wrsupported, source, changes, got>>

\* A transparent io with nothing stored writes the caller's buffer.
WriteThrough(ok) ==
  /\ Begin /\ wr.set.type = "TRANSPARENT" /\ wr.buf = <<>>
  /\ passed' = IF ok THEN <<Head(writes)>> ELSE <<>>
  /\ UNCHANGED <<wr, writing>>

\* A line leaves with what an earlier call that failed has left.
WriteLine(ok) ==
  /\ Begin /\ wr.set.type = "LINE"
  /\ LET all == wr.buf \o Head(writes) \o Eol(wr.set)
     IN  /\ wr' = [wr EXCEPT !.buf = IF ok THEN <<>> ELSE all]
         /\ passed' = IF ok THEN <<all>> ELSE <<>>
  /\ UNCHANGED writing

WriteBegin ==
  /\ Begin /\ wr.set.type # "LINE"
  /\ wr.set.type = "TRANSPARENT" => wr.buf # <<>>
  /\ wr' = [wr EXCEPT !.buf = @ \o Head(writes)]
  /\ writing' = TRUE /\ passed' = <<>>

\* A call that fails returns before it has set endoffset back.
FaultyWritePiece(ok) ==
  /\ writing /\ Contain(wr).is = "yes"
  /\ LET c == Contain(wr)
     IN  /\ wr' = [wr EXCEPT !.buf = IF ok THEN Skip(@, c.next) ELSE First(@, c.size)]
         /\ passed' = IF ok THEN <<First(wr.buf, c.size)>> ELSE <<>>
  /\ writing' = ok
  /\ UNCHANGED <<rd, wrsupported, source, writes, changes, got>>

\* A turn of the loop: an item leaves, or the call fails and keeps it.
WritePiece(ok) ==
  /\ writing /\ Contain(wr).is = "yes"
  /\ LET c == Contain(wr)
     IN  /\ wr' = [wr EXCEPT !.buf = IF ok THEN Skip(@, c.next) ELSE @]
         /\ passed' = IF ok THEN <<First(wr.buf, c.size)>> ELSE <<>>
  /\ writing' = ok
  /\ UNCHANGED <<rd, wrsupported, source, writes, changes, got>>

WriteEnd ==
  /\ writing /\ Contain(wr).is = "no"
  /\ writing' = FALSE /\ passed' = <<>>
  /\ UNCHANGED <<rd, wr, wrsupported, source, writes, changes, got>>

-----------------------------------------------------------------------------
(* netwib_priv_io_data_ctl_set *)

\* NETWIB_IO_CTLTYPE_END: what is stored leaves, or the call fails.
End(ok) ==
  /\ ~writing /\ (wr.buf = <<>> => ok)
  /\ wr' = IF ok THEN [wr EXCEPT !.buf = <<>>, !.endreached = TRUE] ELSE wr
  /\ wrsupported' = (wrsupported /\ ~ok)
  /\ passed' = IF ok /\ wr.buf # <<>> THEN <<wr.buf>> ELSE <<>>
  /\ UNCHANGED <<rd, source, writes, changes, writing, got>>

\* The type and the sizes of a way are changed.
Set(w, set) ==
  /\ ~writing
  /\ rd' = IF w = "rd" THEN [rd EXCEPT !.set = set] ELSE rd
  /\ wr' = IF w = "wr" THEN [wr EXCEPT !.set = set] ELSE wr
  /\ got' = [err |-> "none", data |-> <<>>]
  /\ UNCHANGED <<wrsupported, source, writes, changes, writing, passed>>

Next ==
  \/ ReadStored
  \/ \E a \in Below : ReadThrough(a) \/ ReadMore(a)
  \/ Unread
  \/ \E ok \in BOOLEAN : WriteThrough(ok) \/ WriteLine(ok) \/ WritePiece(ok)
                           \/ End(ok)
  \/ WriteBegin
  \/ WriteEnd
  \/ \E w \in {"rd", "wr"}, set \in changes : Set(w, set)

Spec == Init /\ [][Next]_datavars

-----------------------------------------------------------------------------
TypeOK ==
  /\ \A way \in {rd, wr} : way.endreached \in BOOLEAN /\ way.buf \in Seq(Nat)
  /\ {wrsupported, writing} \subseteq BOOLEAN
  /\ got.err \in {"none", "OK", "DATANOTAVAIL", "DATAEND", "ERROR"}
  /\ Len(passed) \in {0, 1}
  /\ rd.endreached => source = <<>>

Stream == INSTANCE DataStream WITH
  toread <- rd.buf \o source, towrite <- wr.buf,
  rdset <- rd.set, wrset <- wr.set

(* A data io implements the stream of DataStream in each way: how the bytes
   arrive does not change the items (iousual_data.c:63-210, 213-255), what is
   unread is read again (369-393), and a write that fails below keeps what it
   has not passed, nothing twice, nothing lost (258-310, 407-417). *)
IsStream == Stream!Spec
=============================================================================
