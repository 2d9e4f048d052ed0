----------------------------- MODULE DataStream -----------------------------
(***************************************************************************)
(* What a data io promises, each way: a stream of bytes cut into items.    *)
(* The reader takes the items of the whole stream, the bytes that have not *)
(* arrived yet included, however they arrive; the writer fills a stream    *)
(* from which whole items leave.  No byte but the ends of lines is lost,   *)
(* added or moved.                                                         *)
(*                                                                         *)
(* A setting is [type, msdos, minsize, maxsize, fixedsize]; an item is     *)
(* described by the number of bytes it has, and the number of bytes that   *)
(* it and the end of its line take from the stream.                        *)
(***************************************************************************)
EXTENDS Integers, Sequences, FiniteSetsExt

CONSTANTS CR, LF      \* the two bytes that end lines

VARIABLES
  toread,   \* what is still to be read, arrived or not
  towrite,  \* what was written and has not left
  writes,   \* what is still to be written
  rdset,    \* the settings of the two ways
  wrset,
  got,      \* the outcome of the last read
  passed    \* the last item that left: a sequence of sequences, one or none
vars == <<toread, towrite, writes, rdset, wrset, got, passed>>

NotRead == [err |-> "none", data |-> <<>>]
NoItem == <<>>
Prefix(s, n) == SubSeq(s, 1, n)
Without(s, n) == SubSeq(s, n + 1, Len(s))
Has(S, s, from, to) == \A i \in from .. to : s[i] \in S

(* A line is the text before the first CR or LF; it takes the whole run of
   CR that follows it, then one LF.  A stream that only has CR left is the
   exception: it gives one CR as text. *)
Text(s) == Max({n \in 0 .. Len(s) : \A i \in 1 .. n : s[i] \notin {CR, LF}})
Run(s) == Max({n \in Text(s) .. Len(s) : Has({CR}, s, Text(s) + 1, n)})
Lines(s) ==
  IF s # <<>> /\ Has({CR}, s, 1, Len(s)) THEN {[size |-> 1, taken |-> Len(s)]}
  ELSE {[size |-> Text(s),
         taken |-> IF Run(s) < Len(s) /\ s[Run(s) + 1] = LF THEN Run(s) + 1
                   ELSE Run(s)]}

(* Items of n bytes, n in a set; what is left at the end may be shorter. *)
Blocks(s, set) ==
  CASE set.type = "CHUNK" ->
         {n \in 1 .. Len(s) : /\ n >= set.minsize \/ n = Len(s)
                              /\ set.maxsize # 0 => n <= set.maxsize}
    [] set.type = "FIXED" -> {Min({Len(s), set.fixedsize})}
    [] set.type = "TRANSPARENT" -> 1 .. Len(s)

Items(s, set) ==
  IF set.type = "LINE" THEN Lines(s)
  ELSE {[size |-> n, taken |-> n] : n \in Blocks(s, set)}

Init ==
  /\ towrite = <<>> /\ got = NotRead /\ passed = NoItem

Read ==
  /\ \/ \E item \in (IF toread = <<>> THEN {} ELSE Items(toread, rdset)) :
          /\ got' = [err |-> "OK", data |-> Prefix(toread, item.size)]
          /\ toread' = Without(toread, item.taken)
     \/ got' = [err |-> "DATAEND", data |-> <<>>] /\ toread = <<>>
        /\ UNCHANGED toread
     \/ \E err \in {"DATANOTAVAIL", "ERROR"} :
          got' = [err |-> err, data |-> <<>>] /\ UNCHANGED toread
  /\ UNCHANGED <<towrite, writes, rdset, wrset, passed>>

(* What was unread is the next item, and nothing else changes: the stream
   that follows it is the one that was there. *)
Unread ==
  /\ got.err = "OK" /\ got' = NotRead
  /\ [size |-> Len(got.data), taken |-> Len(toread') - Len(toread)]
       \in Items(toread', rdset)
  /\ Prefix(toread', Len(got.data)) = got.data
  /\ Without(toread', Len(toread') - Len(toread)) = toread
  /\ UNCHANGED <<towrite, writes, rdset, wrset, passed>>

(* Written bytes join the stream, a line with its end. *)
Eol(set) == IF set.type # "LINE" THEN <<>>
            ELSE IF set.msdos THEN <<CR, LF>> ELSE <<LF>>

(* What leaves is an item of the setting; lines leave with their ends, those
   kept from calls that failed first.  A write of nothing may pass as such. *)
Leaves(s) ==
  \E n \in 1 .. Len(s) :
    /\ wrset.type = "LINE" => n = Len(s)
    /\ wrset.type = "CHUNK" =>
         n >= wrset.minsize /\ (wrset.maxsize # 0 => n <= wrset.maxsize)
    /\ wrset.type = "FIXED" => n = wrset.fixedsize
    /\ passed' = <<Prefix(s, n)>> /\ towrite' = Without(s, n)

Write ==
  LET s == towrite \o Head(writes) \o Eol(wrset)
  IN  /\ writes # <<>> /\ writes' = Tail(writes)
      /\ \/ Leaves(s)
         \/ towrite' = s /\ passed' = NoItem
         \/ s = <<>> /\ towrite' = s /\ passed' = <<s>>
      /\ UNCHANGED <<toread, rdset, wrset, got>>

\* Only a transparent write may fail without keeping what it was given.
Refuse ==
  /\ wrset.type = "TRANSPARENT" /\ writes # <<>> /\ writes' = Tail(writes)
  /\ passed' = NoItem
  /\ UNCHANGED <<toread, towrite, rdset, wrset, got>>

Leave == Leaves(towrite) /\ UNCHANGED <<toread, writes, rdset, wrset, got>>

(* A call ends; the end of the stream lets all that is left leave. *)
Idle == passed' = NoItem /\ UNCHANGED <<toread, towrite, writes, rdset, wrset, got>>
End ==
  /\ towrite # <<>> /\ towrite' = <<>> /\ passed' = <<towrite>>
  /\ UNCHANGED <<toread, writes, rdset, wrset, got>>

Set ==
  /\ got' = NotRead
  /\ UNCHANGED <<toread, towrite, writes, passed>>

Next ==
  Read \/ Unread \/ Write \/ Refuse \/ Leave \/ Idle \/ End \/ Set

Spec == Init /\ [][Next]_vars
=============================================================================
