------------------------------ MODULE DnsCache ------------------------------
(***************************************************************************)
(* The cache of resolved names that the threads of a download share        *)
(* (netwox modules/dnscache.c), as they use it: netwox_dnscache_ip.  The   *)
(* lock that covers the hash is the one that RWLock specifies.  An item    *)
(* holds the address and the name; the length written before an address    *)
(* tells IPv4 from IPv6, so that what is read is what was written.         *)
(***************************************************************************)
CONSTANTS
  User,      \* threads
  Host,      \* names
  Gives(_),  \* the addresses that the system may give for a name
  Item,      \* the items that malloc may give: a bound of the check
  Nothing

NamesAssumption ==
  /\ Nothing \notin User \union Host \union Item
  /\ \A h \in Host : Nothing \notin [host : Host, ip : Gives(h)]

VARIABLES
  phashhost,  \* the item of each name
  stored,     \* what each allocated item holds
  lookup,     \* the call of each thread
  given,      \* what the system gave for each name (kept by the model only)
  readers, writer
vars == <<phashhost, stored, lookup, given, readers, writer>>

Lock == INSTANCE RWLock WITH Thread <- User, Nobody <- Nothing

Idle == [pc |-> "idle", host |-> Nothing, item |-> Nothing, ip |-> Nothing,
         ret |-> "OK"]

Init ==
  /\ phashhost = [h \in Host |-> Nothing]
  /\ stored = [i \in Item |-> Nothing]
  /\ lookup = [u \in User |-> Idle]
  /\ given = [h \in Host |-> {}]
  /\ Lock!Init

At(u, pc) == lookup[u].pc = pc
Goes(u, pc, item) == lookup' = [lookup EXCEPT ![u].pc = pc, ![u].item = item]
Returns(u, ret, ip) ==
  lookup' = [lookup EXCEPT ![u].pc = "idle", ![u].item = Nothing,
                           ![u].ret = ret, ![u].ip = ip]

Ask(u, h) ==
  /\ At(u, "idle")
  /\ lookup' = [lookup EXCEPT ![u] = [Idle EXCEPT !.pc = "search", !.host = h]]
  /\ UNCHANGED <<phashhost, stored, given, readers, writer>>

\* Under the lock, the item of the name is searched, then read.
Search(u) ==
  /\ At(u, "search")
  /\ Lock!ReadBegins(u)
  /\ Goes(u, "found", phashhost[lookup[u].host])
  /\ UNCHANGED <<phashhost, stored, given>>

Read(u) ==
  /\ At(u, "found")
  /\ Lock!ReadEnds(u)
  /\ IF lookup[u].item = Nothing THEN Goes(u, "query", Nothing)
     ELSE Returns(u, "OK", stored[lookup[u].item].ip)
  /\ UNCHANGED <<phashhost, stored, given>>

\* The system is asked without the lock; a new item is then made.
Query(u, ip, i) ==
  LET h == lookup[u].host
  IN  /\ At(u, "query")
      /\ stored[i] = Nothing
      /\ stored' = [stored EXCEPT ![i] = [host |-> h, ip |-> ip]]
      /\ given' = [given EXCEPT ![h] = @ \union {ip}]
      /\ lookup' = [lookup EXCEPT ![u].pc = "add", ![u].item = i, ![u].ip = ip]
      /\ UNCHANGED <<phashhost, readers, writer>>

QueryFails(u) ==
  /\ At(u, "query")
  /\ Returns(u, "ERROR", Nothing)
  /\ UNCHANGED <<phashhost, stored, given, readers, writer>>

AddBegins(u) ==
  /\ At(u, "add")
  /\ Lock!WriteBegins(u)
  /\ Goes(u, "replace", lookup[u].item)
  /\ UNCHANGED <<phashhost, stored, given>>

\* Faulty form: the item that another thread put meanwhile is lost.
FaultyReplaced(h) == stored

\* netwib_hash_add frees the item that another thread put meanwhile.
Replaced(h) == [i \in Item |-> IF i = phashhost[h] THEN Nothing ELSE stored[i]]

Add(u) ==
  LET h == lookup[u].host
  IN  /\ At(u, "replace")
      /\ stored' = Replaced(h)
      /\ phashhost' = [phashhost EXCEPT ![h] = lookup[u].item]
      /\ Lock!WriteEnds(u)
      /\ Returns(u, "OK", lookup[u].ip)
      /\ UNCHANGED given

Next ==
  \E u \in User :
    \/ \E h \in Host : Ask(u, h)
    \/ Search(u) \/ Read(u) \/ QueryFails(u) \/ AddBegins(u) \/ Add(u)
    \/ \E ip \in Gives(lookup[u].host), i \in Item : Query(u, ip, i)

-----------------------------------------------------------------------------
TypeOK ==
  /\ phashhost \in [Host -> Item \union {Nothing}]
  /\ \A u \in User :
       /\ lookup[u].pc \in {"idle", "search", "found", "query", "add", "replace"}
       /\ lookup[u].host \in Host \union {Nothing}
       /\ lookup[u].item \in Item \union {Nothing}
       /\ lookup[u].ret \in {"OK", "ERROR"}
  /\ \A h \in Host : given[h] \subseteq Gives(h)

Allocated == {i \in Item : stored[i] # Nothing}
Cached == {phashhost[h] : h \in Host} \ {Nothing}
InHand == {lookup[u].item : u \in {v \in User : lookup[v].pc \in {"add", "replace"}}}

\* No thread reads an item that another one freed (dnscache.c:134, 157).
NoFreedUse ==
  \A u \in User : At(u, "found") /\ lookup[u].item # Nothing =>
                    stored[lookup[u].item] # Nothing

Answers(u) == At(u, "idle") /\ lookup[u].host # Nothing

\* "this structure can be used by two threads" (dnscache.h:3), which may
\* resolve one name at a time: no item is lost, and an answer is one that the
\* system gave for this name.
CacheIsTrue ==
  /\ Allocated = Cached \union InHand
  /\ Cached \intersect InHand = {}
  /\ \A h \in Host : phashhost[h] # Nothing => stored[phashhost[h]].host = h
  /\ \A u \in User :
       Answers(u) /\ lookup[u].ret = "OK" => lookup[u].ip \in given[lookup[u].host]
=============================================================================
