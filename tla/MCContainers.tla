---------------------------- MODULE MCContainers ----------------------------
(***************************************************************************)
(* The instances of the containers that TLC checks: a pool of buffers,     *)
(* rings, hash tables and lists of ranges with the indexes that walk them, *)
(* and the buffers of data ios.  They share nothing, so that a behaviour   *)
(* is about one of them, its subject, and the others stay idle.            *)
(***************************************************************************)
EXTENDS Ranges

CONSTANTS
  Subjects,       \* of "pool", "ring", "hash", "ranges", "data"
  Users, HorizontalSize, AllocStep, MaxSize,
  PRing, Null,
  AsDocumented,   \* see RingIndex and HashIndex
  RingItems, RingKey(_), RingFull, RingSetups,
  HashItems, HashKey(_), HashOf(_), HashFirstMax, HashSetups,
  CR, LF, DataSetups

VARIABLES
  subject,
  size, numinit, inuse, start, held,
  ring, job, last, ringindex, ringwalk, ringspare, jobs, ringfault,
  hash, hashindex, map, hashwalk, hashspare, values, hashfault,
  rd, wr, wrsupported, source, writes, changes, writing, got, passed

Pool == INSTANCE Bufpool

(* Two classes of equal items, so that an order can be stable or not; more
   items than a full ring has.  The jobs that compare start with one index at
   most, those that add and delete are done around two. *)
MCRingItems == 1 .. 6
MCRingKey(x) == x % 2
Comparisons == {"duplicate", "group", "sort"}
RingIdle == [items |-> {}, indexes |-> {}, jobs |-> {}]
MCRingSetups ==
  {RingIdle,
   [items |-> 1 .. 4, indexes |-> {1}, jobs |-> {"delete", "ring"}],
   [items |-> 1 .. 3, indexes |-> {1, 2}, jobs |-> {"delete", "ring"}],
   [items |-> 1 .. 3, indexes |-> {1}, jobs |-> Comparisons],
   [items |-> MCRingItems, indexes |-> {}, jobs |-> Comparisons]}

Ring == INSTANCE RingIndex WITH
  Items <- RingItems, Key <- RingKey, Full <- RingFull, Setups <- RingSetups,
  index <- ringindex, walk <- ringwalk, spare <- ringspare, fault <- ringfault

(* Two items of the same key, keys of the same position before an expansion
   and of different ones after it, and the other way round for none. *)
MCHashItems == 1 .. 6
MCHashKey(x) == x % 5
MCHashOf(k) == <<3, 1, 5, 2, 7>>[k + 1]
HashIdle == [items |-> {}, indexes |-> {}, values |-> {}]
MCHashSetups ==
  {HashIdle,
   [items |-> MCHashItems, indexes |-> {1}, values |-> {0}],
   [items |-> 1 .. 4, indexes |-> {1, 2}, values |-> {0}],
   [items |-> MCHashItems, indexes |-> {}, values |-> {0, 1}]}

Table == INSTANCE HashIndex WITH
  Items <- HashItems, Key <- HashKey, Hash <- HashOf, FirstMax <- HashFirstMax,
  Setups <- HashSetups, index <- hashindex, walk <- hashwalk,
  spare <- hashspare, fault <- hashfault

(* Up to three ranges of a sorted list; items of a list with duplicates that
   lie in several of its ranges. *)
RangesIdle == [inittype |-> "idle", top |-> 0]
MCRangesSetups ==
  {RangesIdle,
   [inittype |-> "SORTUNIQ", top |-> 4],
   [inittype |-> "NOTSORTUNIQ", top |-> 3],
   [inittype |-> "NOTSORTNOTUNIQ", top |-> 2]}

(* Every stream of four bytes, text, CR or LF, read line by line; streams
   read with settings that change; numbered bytes cut into blocks; writes
   with each setting, kept or changed, one of them empty. *)
Setting(type, minsize, maxsize, fixedsize) ==
  [type |-> type, msdos |-> TRUE, minsize |-> minsize, maxsize |-> maxsize,
   fixedsize |-> fixedsize]
Line == Setting("LINE", 1, 0, 1)
Chunk == Setting("CHUNK", 2, 3, 1)
Fixed == Setting("FIXED", 1, 0, 2)
Through == Setting("TRANSPARENT", 1, 0, 1)

Text(s) == [i \in DOMAIN s |-> IF s[i] = 0 THEN i ELSE s[i]]
Reading(s, set, c) ==
  [source |-> s, writes |-> <<>>, rdset |-> set, wrset |-> Line, changes |-> c]
Writing(w, set, c) ==
  [source |-> <<>>, writes |-> w, rdset |-> Line, wrset |-> set, changes |-> c]
MCDataSetups ==
  {Reading(Text(s), Line, {}) : s \in UNION {[1 .. n -> {0, 10, 13}] : n \in 0 .. 4}}
    \cup {Reading(s, Line, {Line, Chunk, Fixed, Through}) :
            s \in {<<1, 13, 10, 4, 5>>, <<1, 2, 10, 4>>}}
    \cup {Reading(<<1, 2, 3, 4, 5>>, set, {}) : set \in {Chunk, Fixed, Through}}
    \cup {Writing(<<<<1>>, <<2, 3, 4, 5>>, <<>>, <<6>>>>, set, c) :
            set \in {Line, Chunk, Fixed, Through}, c \in {{}, {Chunk, Through}}}

Data == INSTANCE IoData WITH Setups <- DataSetups

ASSUME ContainersAssumption ==
  /\ Pool!BufpoolAssumption /\ Ring!RingAssumption /\ Table!HashAssumption
  /\ Data!DataAssumption

poolvars == <<size, numinit, inuse, start, held>>
ringvars == <<ring, job, last, ringindex, ringwalk, ringspare, jobs, ringfault>>
hashvars == <<hash, hashindex, map, hashwalk, hashspare, values, hashfault>>
datavars ==
  <<rd, wr, wrsupported, source, writes, changes, writing, got, passed>>
allvars ==
  <<subject, poolvars, ringvars, hashvars, vars, datavars>>

MCInit ==
  /\ subject \in Subjects
  /\ Pool!Init /\ Ring!Init /\ Table!Init /\ Init /\ Data!Init
  /\ subject = "ring" <=> ringspare # {}
  /\ subject = "hash" <=> hashspare # {}
  /\ subject = "ranges" <=> ranges.inittype # "idle"
  /\ subject # "data" => source = <<>> /\ writes = <<>>

MCNext ==
  \/ /\ subject = "pool" /\ Pool!Next
     /\ UNCHANGED <<subject, ringvars, hashvars, vars, datavars>>
  \/ /\ subject = "ring" /\ Ring!Next
     /\ UNCHANGED <<subject, poolvars, hashvars, vars, datavars>>
  \/ /\ subject = "hash" /\ Table!Next
     /\ UNCHANGED <<subject, poolvars, ringvars, vars, datavars>>
  \/ /\ subject = "ranges" /\ Next
     /\ UNCHANGED <<subject, poolvars, ringvars, hashvars, datavars>>
  \/ /\ subject = "data" /\ Data!Next
     /\ UNCHANGED <<subject, poolvars, ringvars, hashvars, vars>>

MCSpec == MCInit /\ [][MCNext]_allvars

-----------------------------------------------------------------------------
(* The type invariants of the five. *)
TypesOK ==
  /\ Pool!TypeOK /\ Ring!TypeOK /\ Table!TypeOK /\ TypeOK /\ Data!TypeOK

(* What netwib_debug_ring_check, netwib_debug_hash_check and
   netwib_debug_ranges_check assert of the links and of the array holds after
   each call, those that fail half way included (ring.c:26-66, hash.c:97-171,
   ranges.c:198-249). *)
LinksAreSound == Ring!RingIsSound /\ Table!HashIsSound /\ RangesAreSound

(* No call reads an item that was freed while an index still points to it
   (ringi.c:173-201, hashi.c:202-253). *)
NoFreedUse == Ring!NoFreedUse /\ Table!NoFreedUse

(* A walk to the end meets once each item that was there at its start and
   that nobody deleted (ringi.h:18-25, hashi.h:19-23, ranges.c:1359-1501). *)
WalkIsComplete == Ring!WalkIsComplete /\ Table!WalkIsComplete /\ TourIsComplete

(* The buffers of a data io implement a stream cut into items, however the
   bytes arrive and whichever write below fails: no byte is lost, added or
   moved, and what is unread is read again (iousual_data.c:63-310, 369-393). *)
IsStream == Data!IsStream

(* So do the links of a ring a sequence, which its sort orders stably
   (ring.c:185-608). *)
IsSequence == Ring!IsSequence /\ IsStream

(* A search in a hash table finds what the last call put under a key
   (hash.c:304-378, 495-540); a list of ranges holds, and finds, what the
   calls added and did not delete (ports.h:21-26, 44-50). *)
FindsWhatWasPut == Table!FindsWhatWasPut /\ HoldsWhatWasAsked

(* No buffer of the pool is given to two users (bufpool.c:145-187), and the
   pool only grows when every buffer is in use (bufpool.c:144-180, 217-223). *)
GivenOnce == Pool!GivenOnce
GrowsWhenFull == Pool!GrowsWhenFull
=============================================================================
