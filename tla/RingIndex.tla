----------------------------- MODULE RingIndex -----------------------------
(***************************************************************************)
(* A ring of netwib (dat/ring.c) edited while indexes (dat/ringi.c) walk   *)
(* it.  An index keeps three raw pointers; nothing tells it that an item   *)
(* it points to was freed.  ringi.h:4-39 says which edits are allowed.     *)
(* A call that loops over the ring with callbacks of the user is a job     *)
(* done in several steps, one per callback, each of which may fail.        *)
(***************************************************************************)
EXTENDS RingLinks, FiniteSets

CONSTANTS
  Full,     \* a ring of this many items refuses more (0x7FFFFFFF in the code)
  Setups,   \* items, indexes and jobs of a behaviour: a bound of the check
  AsDocumented   \* the user obeys the comment only, or the rule that is enough

RingAssumption ==
  /\ RingLinksAssumption /\ Full \in Nat
  /\ \A s \in Setups : s.items \subseteq Items

VARIABLES
  ring,    \* the links, see RingLinks
  job,     \* the call that is in progress, and its local variables
  last,    \* the last edit: its kind, and whether it failed
  index,   \* pcurrentitem, pnextitem and ppreviousitem of each index
  walk,    \* what each index met since its rewind (kept by the model only)
  spare,   \* the items that can still be allocated
  jobs,    \* the jobs that the behaviour may do
  fault    \* a freed item was read or written
vars == <<ring, job, last, index, walk, spare, jobs, fault>>

Indexes == DOMAIN index
Start == [cur |-> Null, nxt |-> Null, prv |-> Null]
NoJob == [op |-> "none"]
Edited(op, failed) == [op |-> op, failed |-> failed]

(* A walk knows the items it must still meet: those that were there at its *)
(* rewind and that nobody deleted.  Some calls give up that promise.       *)
WalkOver(S) == [due |-> S, met |-> {}, missed |-> {}, again |-> FALSE,
                afterdel |-> FALSE, void |-> FALSE]
Voided(w) == [WalkOver({}) EXCEPT !.void = TRUE, !.afterdel = w.afterdel]

Init ==
  /\ ring = EmptyRing /\ job = NoJob /\ last = Edited("items", FALSE) /\ fault = FALSE
  /\ \E s \in Setups :
       /\ spare = s.items /\ jobs = s.jobs
       /\ index = [i \in s.indexes |-> Start]
       /\ walk = [i \in s.indexes |-> WalkOver({})]

Dangling(p) == p \notin ring.live \union {PRing, Null}

(* A call that reads the item p: when its memory was freed, what follows is
   undefined, and the behaviour ends. *)
Reading(p, Call) ==
  IF Dangling(p)
  THEN fault' = TRUE /\ UNCHANGED <<ring, job, last, index, walk, spare, jobs>>
  ELSE Call

-----------------------------------------------------------------------------
(* Calls that edit the ring in one step. *)
Add(x, a) ==
  /\ ring.count < Full
  /\ ring' = InsertAfter(ring, a, x)
  /\ last' = Edited("items", FALSE)
  /\ spare' = spare \ {x}
  /\ UNCHANGED <<job, jobs, fault>>

AddFirst(x) == Add(x, PRing) /\ UNCHANGED <<index, walk>>
AddLast(x) == Add(x, ring.prev[PRing]) /\ UNCHANGED <<index, walk>>

Without(w, gone) == [w EXCEPT !.due = @ \ gone, !.met = @ \ gone]
WalksWithout(gone) == [i \in Indexes |-> Without(walk[i], gone)]

(* The rule of the comment: the current item is not deleted, and nothing
   is deleted this way after netwib_ring_index_this_del. *)
SparesCurrent(x, i) == index[i].cur # x

(* The rule that is enough: an index that lost its current item will follow
   the two neighbours that it noted. *)
Noted(i) == {index[i].nxt, index[i].prv}
SparesNoted(x, i) == index[i].cur = Null => x \notin Noted(i)

MayDelete(x) ==
  /\ \A i \in Indexes : SparesCurrent(x, i)
  /\ IF AsDocumented THEN \A i \in Indexes : ~walk[i].afterdel
                     ELSE \A i \in Indexes : SparesNoted(x, i)

Delete(a, x) ==
  /\ MayDelete(x)
  /\ ring' = Removed(ring, a, x, ring.next[x])
  /\ walk' = WalksWithout({x})

-----------------------------------------------------------------------------
(* Jobs.  A job that reorders or compares keeps the items it found, to say
   what it did when it ends. *)
Begins(op, j) == op \in jobs /\ job' = j

Ends(op, failed) == job' = NoJob /\ last' = Edited(op, failed)

(* netwib_ring_del_criteria: at is pwork1, which precedes the tested item. *)
DelCriteria ==
  /\ ring.count > 0
  /\ Begins("delete", [op |-> "delete", at |-> PRing])
  /\ UNCHANGED <<ring, last, index, walk, spare, jobs, fault>>

DelCriteriaStep ==
  LET x == ring.next[job.at]
  IN  /\ job.op = "delete" /\ x # PRing
      /\ \/ /\ Delete(job.at, x)
            /\ last' = Edited("items", FALSE)
            /\ UNCHANGED job
         \/ /\ job' = [job EXCEPT !.at = x]
            /\ UNCHANGED <<ring, last, walk>>
      /\ UNCHANGED <<index, spare, jobs, fault>>

(* The last item was tested, or a callback failed. *)
DelCriteriaEnd ==
  /\ job.op = "delete"
  /\ job' = NoJob
  /\ UNCHANGED <<ring, last, index, walk, spare, jobs, fault>>

(* netwib_ring_del_duplicate, netwib_ring_group: a is pworka, which is
   compared with each item x that follows b (pworkb1). *)
Comparing(op) ==
  [op |-> op, a |-> ring.next[PRing], b |-> ring.next[PRing], before |-> ItemsOf(ring)]

DelDuplicate ==
  /\ ring.count >= 2
  /\ Begins("duplicate", Comparing("duplicate"))
  /\ UNCHANGED <<ring, last, index, walk, spare, jobs, fault>>

(* The equal item is deleted. *)
DelDuplicateStep ==
  LET x == ring.next[job.b]
  IN  /\ job.op = "duplicate" /\ x # PRing
      /\ \/ /\ Key(job.a) = Key(x)
            /\ Delete(job.b, x)
            /\ UNCHANGED job
         \/ /\ Key(job.a) # Key(x)
            /\ job' = [job EXCEPT !.b = x]
            /\ UNCHANGED <<ring, walk>>
      /\ UNCHANGED <<last, index, spare, jobs, fault>>

(* "The reordered items may be returned twice or never": no promise is left. *)
Reorders(op, j) ==
  /\ ring.count >= 2
  /\ Begins(op, j)
  /\ walk' = [i \in Indexes |-> Voided(walk[i])]
  /\ UNCHANGED <<ring, last, index, spare, jobs, fault>>

Group == Reorders("group", Comparing("group"))

GroupStep ==
  LET x == ring.next[job.b]
  IN  /\ job.op = "group" /\ x # PRing
      /\ \/ /\ Key(job.a) # Key(x)
            /\ job' = [job EXCEPT !.b = x]
            /\ UNCHANGED ring
         \/ /\ Key(job.a) = Key(x) /\ x = ring.next[job.a]
            /\ job' = [job EXCEPT !.a = x, !.b = x]
            /\ UNCHANGED ring
         \/ /\ Key(job.a) = Key(x) /\ x # ring.next[job.a]
            /\ ring' = Moved(ring, job.a, job.b, x)
            /\ job' = [job EXCEPT !.a = x]
      /\ UNCHANGED <<last, index, walk, spare, jobs, fault>>

(* pworka goes to the next item, if there is one. *)
NextCompared ==
  LET next == ring.next[job.a]
  IN  /\ job.op \in {"duplicate", "group"} /\ ring.next[job.b] = PRing
      /\ \/ /\ next # PRing
            /\ job' = [job EXCEPT !.a = next, !.b = next]
            /\ UNCHANGED last
         \/ /\ next = PRing
            /\ Ends(job.op, FALSE)
      /\ UNCHANGED <<ring, index, walk, spare, jobs, fault>>

CompareFails ==
  /\ job.op \in {"duplicate", "group"} /\ ring.next[job.b] # PRing
  /\ Ends(job.op, TRUE)
  /\ UNCHANGED <<ring, index, walk, spare, jobs, fault>>

(* netwib_ring_sort: half is numinhalfring. *)
Sort ==
  Reorders("sort",
    [op |-> "sort", half |-> 1, todo |-> ring.count, sorted |-> PRing,
     p1 |-> Null, n1 |-> 0, last1 |-> Null, p2 |-> Null, n2 |-> 0, end |-> Null,
     before |-> ItemsOf(ring)])

(* Two half rings were merged: the next two, the next loop, or the end. *)
SortHalves ==
  /\ job.op = "sort" /\ job.n1 = 0 /\ job.n2 = 0
  /\ \/ /\ job.todo > 0
        /\ job' = HalfRings(ring, job)
        /\ UNCHANGED last
     \/ /\ job.todo = 0 /\ 2 * job.half < ring.count
        /\ job' = [job EXCEPT !.half = 2 * job.half, !.todo = ring.count, !.sorted = PRing]
        /\ UNCHANGED last
     \/ /\ job.todo = 0 /\ 2 * job.half >= ring.count
        /\ Ends("sort", FALSE)
  /\ UNCHANGED <<ring, index, walk, spare, jobs, fault>>

(* An item is appended, and after the last one what follows the half rings. *)
Appended(x, m) ==
  LET r == Link(ring, job.sorted, x)
  IN  /\ job' = m
      /\ ring' = IF m.n1 = 0 /\ m.n2 = 0 THEN Link(r, m.sorted, m.end) ELSE r

(* The items are compared only if there is one in each half ring. *)
ComesFrom1(m) ==
  IF m.n1 > 0 /\ m.n2 > 0 THEN Key(m.p1) <= Key(m.p2) ELSE m.n1 > 0

SortStep ==
  /\ job.op = "sort"
  /\ \/ /\ job.n1 > 0 /\ ComesFrom1(job)
        /\ Appended(job.p1, Taken1(ring, job))
     \/ /\ job.n2 > 0 /\ ~ComesFrom1(job)
        /\ Appended(job.p2, Taken2(ring, job))
  /\ UNCHANGED <<last, index, walk, spare, jobs, fault>>

SortFails ==
  /\ job.op = "sort" /\ job.n1 > 0 /\ job.n2 > 0
  /\ ring' = Relinked(ring, job)
  /\ Ends("sort", TRUE)
  /\ UNCHANGED <<index, walk, spare, jobs, fault>>

-----------------------------------------------------------------------------
(* Moves of an index. *)
Rewind(i) ==
  /\ index' = [index EXCEPT ![i] = Start]
  /\ walk' = [walk EXCEPT ![i] = WalkOver(ring.live)]
  /\ UNCHANGED <<ring, job, last, spare, jobs, fault>>

CopyIndex(i, j) ==
  /\ index' = [index EXCEPT ![i] = index[j]]
  /\ walk' = [walk EXCEPT ![i] = walk[j]]
  /\ UNCHANGED <<ring, job, last, spare, jobs, fault>>

StepTo(i, x) ==
  index' = [index EXCEPT ![i] = [cur |-> x, nxt |-> ring.next[x], prv |-> ring.prev[x]]]

Met(w, S) == [w EXCEPT !.due = @ \ S, !.met = IF w.void THEN {} ELSE @ \union S,
                       !.again = @ \/ w.met \intersect S # {}, !.afterdel = FALSE]

(* Faulty form: the noted neighbour is not used. *)
FaultyNextFrom(i) == IF index[i].cur # Null THEN index[i].cur ELSE PRing

NextFrom(i) ==
  CASE index[i].cur # Null -> index[i].cur
    [] index[i].cur = Null /\ index[i].nxt # Null -> index[i].nxt
    [] OTHER -> PRing

(* The criteria refuses n items from p on; the item that follows is tested too. *)
Tested(link, p, n) == {Advance(link, p, k) : k \in 0 .. n}

(* It accepts the last item tested, or there is none: NETWIB_ERR_DATAEND, and
   the index stays where it is, as when the criteria fails. *)
NextCriteria(i, n) ==
  LET from == NextFrom(i)
      first == IF index[i].cur = Null /\ index[i].nxt # Null THEN from ELSE ring.next[from]
      x == Advance(ring.next, first, n)
      seen == Tested(ring.next, first, n) \ {PRing}
  IN  Reading(from,
        /\ n > 0 => PRing \notin Tested(ring.next, first, n - 1)
        /\ \/ /\ x # PRing
              /\ StepTo(i, x)
              /\ walk' = [walk EXCEPT ![i] = Met(@, seen)]
           \/ /\ x = PRing
              /\ walk' = [walk EXCEPT ![i].missed = walk[i].due \ seen]
              /\ UNCHANGED index
        /\ UNCHANGED <<ring, job, last, spare, jobs, fault>>)

PreviousFrom(i) ==
  CASE index[i].cur # Null -> index[i].cur
    [] index[i].cur = Null /\ index[i].prv # Null -> index[i].prv
    [] OTHER -> PRing

PreviousCriteria(i, n) ==
  LET from == PreviousFrom(i)
      first == IF index[i].cur = Null /\ index[i].prv # Null THEN from ELSE ring.prev[from]
  IN  Reading(from,
        /\ PRing \notin Tested(ring.prev, first, n)
        /\ StepTo(i, Advance(ring.prev, first, n))
        /\ walk' = [walk EXCEPT ![i] = Voided(WalkOver({}))]
        /\ UNCHANGED <<ring, job, last, spare, jobs, fault>>)

-----------------------------------------------------------------------------
(* Edits at an index. *)
PlaceFrom(i) ==
  CASE index[i].cur # Null -> index[i].cur
    [] index[i].cur = Null /\ index[i].prv # Null -> index[i].prv
    [] OTHER -> index[i].nxt

Place(i) ==
  CASE index[i].cur # Null -> index[i].cur
    [] index[i].cur = Null /\ index[i].prv # Null -> ring.next[index[i].prv]
    [] index[i].cur = Null /\ index[i].prv = Null /\ index[i].nxt # Null -> ring.prev[index[i].nxt]
    [] OTHER -> PRing

AddBefore(i, x) ==
  Reading(PlaceFrom(i), /\ Add(x, ring.prev[Place(i)])
                        /\ index' = [index EXCEPT ![i].prv = x]
                        /\ UNCHANGED walk)

(* After a deletion the place of an index is the item that follows the
   deleted one: what is added after it hides it from the walk. *)
PastThePlace(i) == index[i].cur = Null /\ index[i].prv # Null

AfterPlace(i) ==
  walk' = [walk EXCEPT ![i] = IF PastThePlace(i) THEN Voided(@) ELSE @]

AddAfter(i, x) ==
  Reading(PlaceFrom(i), /\ Add(x, Place(i))
                        /\ index' = [index EXCEPT ![i].nxt = x]
                        /\ AfterPlace(i))

(* netwib_ring_index_add_ring_criteria: the items that the criteria accepts,
   duplicated or not, are linked one after the other, place, at and end being
   pworka1, pworka2 and pworka3, until a callback fails or the ring is full. *)
AddRingCriteria(i) ==
  Reading(PlaceFrom(i),
    /\ Begins("ring", [op |-> "ring", i |-> i, place |-> Place(i), at |-> Place(i),
                       end |-> ring.next[Place(i)], before |-> ItemsOf(ring)])
    /\ UNCHANGED <<ring, last, index, walk, spare, jobs, fault>>)

AddRingStep(x) ==
  /\ job.op = "ring" /\ ring.count < Full
  /\ ring' = Allocated(Link(ring, job.at, x), x)
  /\ job' = [job EXCEPT !.at = x]
  /\ spare' = spare \ {x}
  /\ UNCHANGED <<last, index, walk, jobs, fault>>

AddRingEnd ==
  /\ job.op = "ring"
  /\ index' = [index EXCEPT ![job.i].nxt = ring.next[job.place]]
  /\ ring' = Link(ring, job.at, job.end)
  /\ Ends("items", FALSE)
  /\ AfterPlace(job.i)
  /\ UNCHANGED <<spare, jobs, fault>>

(* The neighbours that this index noted must still be there, and the item
   must not be one that another index needs. *)
MayDeleteAt(i) ==
  AsDocumented \/ /\ Noted(i) \subseteq ring.live \union {PRing}
                  /\ \A j \in Indexes \ {i} : SparesCurrent(index[i].cur, j)
                                           /\ SparesNoted(index[i].cur, j)

DeleteAt(i, x) ==
  /\ x # Null
  /\ MayDeleteAt(i)
  /\ ring' = Removed(ring, ring.prev[x], x, ring.next[x])
  /\ last' = Edited("items", FALSE)
  /\ walk' = [WalksWithout({x}) EXCEPT ![i].afterdel = TRUE]
  /\ UNCHANGED <<job, spare, jobs, fault>>

(* Faulty form: the index keeps its current item. *)
FaultyThisDel(i) == Reading(index[i].cur, DeleteAt(i, index[i].cur) /\ UNCHANGED index)

ThisDel(i) ==
  Reading(index[i].cur, /\ DeleteAt(i, index[i].cur)
                        /\ index' = [index EXCEPT ![i].cur = Null])

-----------------------------------------------------------------------------
Job ==
  \/ DelCriteriaStep \/ DelCriteriaEnd \/ DelDuplicateStep \/ GroupStep
  \/ NextCompared \/ CompareFails \/ SortHalves \/ SortStep \/ SortFails
  \/ AddRingEnd \/ \E x \in spare : AddRingStep(x)

NewItem(x) == AddFirst(x) \/ AddLast(x) \/ \E i \in Indexes : AddBefore(i, x) \/ AddAfter(i, x)

Move(i, n) == NextCriteria(i, n) \/ PreviousCriteria(i, n)

Call ==
  \/ \E x \in spare : NewItem(x)
  \/ DelCriteria \/ DelDuplicate \/ Group \/ Sort
  \/ \E i \in Indexes, n \in 0 .. ring.count : Move(i, n)
  \/ \E i \in Indexes : Rewind(i) \/ ThisDel(i) \/ AddRingCriteria(i)
  \/ \E i, j \in Indexes : CopyIndex(i, j)

Idle == job = NoJob

Next == ~fault /\ (IF Idle THEN Call ELSE Job)

Spec == Init /\ [][Next]_vars

-----------------------------------------------------------------------------
TypeOK ==
  /\ ring \in [next : [Nodes -> Nodes \union {Null}], prev : [Nodes -> Nodes \union {Null}],
              live : SUBSET Items, count : 0 .. Full]
  /\ index \in [Indexes -> [cur : Items \union {Null},
                            nxt : Nodes \union {Null}, prv : Nodes \union {Null}]]
  /\ spare \subseteq Items \ ring.live
  /\ fault \in BOOLEAN

(* Whatever is added, deleted or reordered, and wherever a callback fails,
   the links agree in both directions and lead through all the items that
   are allocated and no other, once a call is over: netwib_debug_ring_check
   (ring.c:26-66). *)
RingIsSound ==
  Idle => /\ RingCheck(ring)
          /\ {ItemsOf(ring)[k] : k \in 1 .. ring.count} = ring.live
          /\ Cardinality(ring.live) = ring.count

(* No function reads an item that was freed (ringi.c:173-201, 284-292,
   404-421): with AsDocumented the user only obeys the comment ringi.h:4-39,
   otherwise the rules MayDelete and MayDeleteAt. *)
NoFreedUse == ~fault

(* A walk to the end meets once each item that was in the ring at its start
   and that nobody deleted meanwhile, whoever adds and deletes items around
   the index (ringi.h:18-25: only the added ones may not be returned). *)
WalkIsComplete == \A i \in Indexes : walk[i].missed = {} /\ ~walk[i].again

(* The links implement a sequence: what is added stays in order, the sort
   is stable, the failure of a callback loses nothing (ring.c:185-608). *)
Sequence == INSTANCE RingSeq WITH
  items <- IF Idle \/ job.op = "delete" THEN ItemsOf(ring) ELSE job.before
IsSequence == Sequence!Spec
=============================================================================
