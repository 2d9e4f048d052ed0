-------------------------------- MODULE Conf --------------------------------
(***************************************************************************)
(* The configuration of the network that netwib keeps (netwib/net/conf.c,  *)
(* net/priv/conf.c): the tables of the system - devices, addresses, ARP    *)
(* cache, routes - copied at the first use and at each update.  The four   *)
(* rings live and die together: one ring stands for them, and its entries  *)
(* for those of the ARP cache, the only table to which a program adds.     *)
(* The lock is the one that RWLock specifies.  What is a walk takes the    *)
(* lock for each entry only, and opens and closes without it.              *)
(***************************************************************************)
EXTENDS Integers, SequencesExt

CONSTANTS
  User,          \* threads
  Entry,         \* what programs look for
  SystemTables,  \* what the system may answer, as sequences of entries
  TableMax,      \* greatest length of a table: a bound of the check
  Block,         \* the rings that malloc may give: a bound of the check
  AsDocumented,  \* the user obeys the comment only, or the rule that is enough
  Nothing

ConfAssumption ==
  /\ SystemTables \subseteq UNION {[1 .. n -> Entry] : n \in 0 .. TableMax}
  /\ Nothing \notin User \union Block
  /\ \A n \in 0 .. TableMax : Nothing \notin [1 .. n -> Entry]
  /\ TableMax \in Nat

VARIABLES
  netwib_priv_conf,  \* the current ring
  rings,             \* the entries of each allocated ring
  needtobeupdated,
  call,              \* the call of each thread
  added,             \* what was added since the last update (of the model only)
  obtained,          \* the rings that hold what the system gave (same)
  readers, writer
vars == <<netwib_priv_conf, rings, needtobeupdated, call, added, obtained,
          readers, writer>>

Lock == INSTANCE RWLock WITH Thread <- User, Nobody <- Nothing

Idle == [pc |-> "idle", op |-> "none", entry |-> Nothing, ring |-> Nothing,
         pos |-> 0, ret |-> "OK"]

\* netwib_priv_conf_init
Init ==
  /\ netwib_priv_conf \in Block
  /\ rings = [b \in Block |-> IF b = netwib_priv_conf THEN <<>> ELSE Nothing]
  /\ needtobeupdated = TRUE
  /\ call = [u \in User |-> Idle]
  /\ added = {} /\ obtained = {}
  /\ Lock!Init

At(u, pc) == call[u].pc = pc
Goes(u, pc, ring) == call' = [call EXCEPT ![u].pc = pc, ![u].ring = ring]
Returns(u, ret) ==
  call' = [call EXCEPT ![u].pc = "idle", ![u].ring = Nothing, ![u].ret = ret]

-----------------------------------------------------------------------------
Walking(u) == call[u].op = "walk" /\ ~At(u, "idle")
UpdatePc == {"obtain", "wrlock", "swap", "updated", "close"}
Updating(u) == call[u].pc \in UpdatePc

\* Where each operation begins, once the configuration is there.
Start(op) == CASE op = "walk" -> "open" [] op = "find" -> "search"
               [] op = "add" -> "devnum" [] op = "update" -> "idle"

\* netwib__priv_conf_eventuallyupdate tests without the lock; an add has no test.
FirstPc(op) ==
  IF op = "update" \/ (op # "add" /\ needtobeupdated) THEN "obtain" ELSE Start(op)

\* "Care must be taken to ensure nobody is currently looping": the comment is
\* about calls of update.  What is enough is wider: none of the updates of a
\* first use either, while another thread walks.
UserTakesCare(u, op) ==
  /\ \A v \in User \ {u} :
       /\ op = "update" => ~Walking(v)
       /\ op = "walk" => ~(Updating(v) /\ call[v].op = "update")
  /\ ~AsDocumented => \A v \in User \ {u} :
       /\ FirstPc(op) = "obtain" => ~Walking(v)
       /\ op = "walk" => ~Updating(v)

Call(u, op, e) ==
  /\ At(u, "idle")
  /\ UserTakesCare(u, op)
  /\ call' = [call EXCEPT ![u] = [Idle EXCEPT !.pc = FirstPc(op), !.op = op, !.entry = e]]
  /\ UNCHANGED <<netwib_priv_conf, rings, needtobeupdated, added, obtained, readers, writer>>

-----------------------------------------------------------------------------
(* netwib_priv_conf_update *)
Obtain(u, table, b) ==
  /\ At(u, "obtain")
  /\ rings[b] = Nothing
  /\ rings' = [rings EXCEPT ![b] = table]
  /\ obtained' = obtained \union {b}
  /\ Goes(u, "wrlock", b)
  /\ UNCHANGED <<netwib_priv_conf, needtobeupdated, added, readers, writer>>

ObtainFails(u) ==
  /\ At(u, "obtain")
  /\ Returns(u, "ERROR")
  /\ UNCHANGED <<netwib_priv_conf, rings, needtobeupdated, added, obtained, readers, writer>>

SwapBegins(u) ==
  /\ At(u, "wrlock")
  /\ Lock!WriteBegins(u)
  /\ Goes(u, "swap", call[u].ring)
  /\ UNCHANGED <<netwib_priv_conf, rings, needtobeupdated, added, obtained>>

Swap(u) ==
  /\ At(u, "swap")
  /\ netwib_priv_conf' = call[u].ring
  /\ Goes(u, "updated", netwib_priv_conf)
  /\ added' = {}
  /\ UNCHANGED <<rings, needtobeupdated, obtained, readers, writer>>

SwapEnds(u) ==
  /\ At(u, "updated")
  /\ needtobeupdated' = FALSE
  /\ Lock!WriteEnds(u)
  /\ Goes(u, "close", call[u].ring)
  /\ UNCHANGED <<netwib_priv_conf, rings, added, obtained>>

\* The rings that were swapped out are freed without the lock.
CloseOld(u) ==
  /\ At(u, "close")
  /\ rings' = [rings EXCEPT ![call[u].ring] = Nothing]
  /\ obtained' = obtained \ {call[u].ring}
  /\ Goes(u, Start(call[u].op), Nothing)
  /\ UNCHANGED <<netwib_priv_conf, needtobeupdated, added, readers, writer>>

-----------------------------------------------------------------------------
(* netwib_conf_devices_index, and the same for the three other tables *)
Open(u) ==
  /\ At(u, "open")
  /\ Goes(u, "walk", netwib_priv_conf)
  /\ UNCHANGED <<netwib_priv_conf, rings, needtobeupdated, added, obtained, readers, writer>>

NextBegins(u) ==
  /\ At(u, "walk")
  /\ Lock!ReadBegins(u)
  /\ Goes(u, "read", call[u].ring)
  /\ UNCHANGED <<netwib_priv_conf, rings, needtobeupdated, added, obtained>>

NextEnds(u) ==
  /\ At(u, "read")
  /\ Lock!ReadEnds(u)
  /\ IF call[u].pos < Len(rings[call[u].ring])
     THEN call' = [call EXCEPT ![u].pc = "walk", ![u].pos = @ + 1]
     ELSE Returns(u, "DATAEND")
  /\ UNCHANGED <<netwib_priv_conf, rings, needtobeupdated, added, obtained>>

\* A walk may stop before the end.
IndexClose(u) ==
  /\ At(u, "walk")
  /\ Returns(u, "OK")
  /\ UNCHANGED <<netwib_priv_conf, rings, needtobeupdated, added, obtained, readers, writer>>

-----------------------------------------------------------------------------
(* netwib_priv_confglo_arpcache_eth, as netwib_eth_init_ip calls it: an      *)
(* address that is not found is asked elsewhere, then added.  (What is asked *)
(* may walk the configuration: that is a walk as above.)                     *)
FindBegins(u) ==
  /\ At(u, "search")
  /\ Lock!ReadBegins(u)
  /\ Goes(u, "found", netwib_priv_conf)
  /\ UNCHANGED <<netwib_priv_conf, rings, needtobeupdated, added, obtained>>

Find(u) ==
  /\ At(u, "found")
  /\ Lock!ReadEnds(u)
  /\ IF call[u].entry \in ToSet(rings[call[u].ring])
     THEN Returns(u, "OK") ELSE Goes(u, "query", Nothing)
  /\ UNCHANGED <<netwib_priv_conf, rings, needtobeupdated, added, obtained>>

Query(u) ==
  /\ At(u, "query")
  /\ Goes(u, "devnum", call[u].ring) \/ Returns(u, "NOTCONVERTED")
  /\ UNCHANGED <<netwib_priv_conf, rings, needtobeupdated, added, obtained, readers, writer>>

\* netwib_priv_confglo_arpcache_add searches the device of the address with
\* one lock, and adds the entry with another one.
DevnumBegins(u) ==
  /\ At(u, "devnum")
  /\ Lock!ReadBegins(u)
  /\ Goes(u, "devices", netwib_priv_conf)
  /\ UNCHANGED <<netwib_priv_conf, rings, needtobeupdated, added, obtained>>

DevnumEnds(u) ==
  /\ At(u, "devices")
  /\ Lock!ReadEnds(u)
  /\ Goes(u, "add", Nothing)
  /\ UNCHANGED <<netwib_priv_conf, rings, needtobeupdated, added, obtained>>

AddBegins(u) ==
  /\ At(u, "add")
  /\ Len(rings[netwib_priv_conf]) < TableMax
  /\ Lock!WriteBegins(u)
  /\ Goes(u, "append", netwib_priv_conf)
  /\ UNCHANGED <<netwib_priv_conf, rings, needtobeupdated, added, obtained>>

Add(u) ==
  /\ At(u, "append")
  /\ rings' = [rings EXCEPT ![call[u].ring] = Append(@, call[u].entry)]
  /\ added' = added \union {call[u].entry}
  /\ Lock!WriteEnds(u)
  /\ Returns(u, "OK")
  /\ UNCHANGED <<netwib_priv_conf, needtobeupdated, obtained>>

Next ==
  \E u \in User :
    \/ \E op \in {"walk", "update"} : Call(u, op, Nothing)
    \/ \E op \in {"find", "add"}, e \in Entry : Call(u, op, e)
    \/ \E table \in SystemTables, b \in Block : Obtain(u, table, b)
    \/ ObtainFails(u) \/ SwapBegins(u) \/ Swap(u) \/ SwapEnds(u) \/ CloseOld(u)
    \/ Open(u) \/ NextBegins(u) \/ NextEnds(u) \/ IndexClose(u)
    \/ FindBegins(u) \/ Find(u) \/ Query(u)
    \/ DevnumBegins(u) \/ DevnumEnds(u) \/ AddBegins(u) \/ Add(u)

-----------------------------------------------------------------------------
ReadPc == {"read", "found", "devices", "append"}

TypeOK ==
  /\ netwib_priv_conf \in Block /\ obtained \subseteq Block
  /\ needtobeupdated \in BOOLEAN
  /\ added \subseteq Entry
  /\ \A u \in User :
       /\ call[u].pc \in UpdatePc \union ReadPc
                        \union {"idle", "open", "walk", "search", "query", "devnum", "add"}
       /\ call[u].op \in {"none", "walk", "update", "find", "add"}
       /\ call[u].entry \in Entry \union {Nothing}
       /\ call[u].ring \in Block \union {Nothing}
       /\ call[u].pos \in 0 .. TableMax
       /\ call[u].ret \in {"OK", "ERROR", "DATAEND", "NOTCONVERTED"}

Freed(b) == rings[b] = Nothing

\* No thread reads a ring that an update freed (conf.c:252-257, confdev.c:107).
NoFreedUse == \A u \in User : call[u].pc \in ReadPc => ~Freed(call[u].ring)

InHand == {call[u].ring : u \in {v \in User : call[v].pc \in UpdatePc \ {"obtain"}}}

\* Nobody walks nor searches the empty tables of the start; no ring is lost nor
\* freed twice; what was added since the last update is there (confarp.h:79-81).
ConfIsTrue ==
  /\ {b \in Block : ~Freed(b)} = {netwib_priv_conf} \union InHand
  /\ netwib_priv_conf \notin InHand
  /\ \A u, v \in User :
       u # v /\ {call[u].pc, call[v].pc} \subseteq UpdatePc \ {"obtain"} =>
         call[u].ring # call[v].ring
  /\ \A u \in User : call[u].pc \in {"read", "found"} => call[u].ring \in obtained
  /\ added \subseteq ToSet(rings[netwib_priv_conf])
=============================================================================
