----------------------------- MODULE HashIndex -----------------------------
(***************************************************************************)
(* A hash table of netwib (dat/hash.c), which expands when it has more     *)
(* items than positions, edited while indexes (dat/hashi.c) walk it.  A    *)
(* chain is the sequence of the items met from table[pos] on; pnext is the *)
(* successor in it.  hashi.h:4-33 says which edits are allowed.           *)
(***************************************************************************)
EXTENDS Integers, SequencesExt

CONSTANTS
  Items,     \* the hash items that can be allocated
  Null,
  Key(_),    \* the key of an item
  Hash(_),   \* hashofkey of a key
  FirstMax,  \* tablemax at init (31 in the code)
  Setups,    \* items, indexes and values of a behaviour: a bound of the check
  AsDocumented   \* the user obeys the comment only, or the rule that is enough

HashAssumption ==
  /\ FirstMax \in Nat /\ Null \notin Items
  /\ \A x \in Items : Hash(Key(x)) \in Nat
  /\ \A s \in Setups : s.items \subseteq Items

VARIABLES
  hash,    \* table, tablemax, and currenttablepos and pitem of each item
  index,   \* pcurrentitem, pnextitem and nextitemisend of each index
  map,     \* what the calls put in the table (kept by the model only)
  walk,    \* what each index met since its rewind (kept by the model only)
  spare,   \* the items that can still be allocated
  values,  \* the values a behaviour may use
  fault    \* a freed item was read, or NETWIB_ERR_LOINTERNALERROR returned
vars == <<hash, index, map, walk, spare, values, fault>>

Indexes == DOMAIN index
Start == [cur |-> Null, nxt |-> Null, end |-> FALSE]
Keys == {Key(x) : x \in Items}

WalkOver(S) == [due |-> S, met |-> {}, missed |-> {}, again |-> FALSE,
                afterdel |-> FALSE, void |-> FALSE]
Voided(w) == [WalkOver({}) EXCEPT !.void = TRUE, !.afterdel = w.afterdel]

EmptyTable(max) == [p \in 0 .. max |-> <<>>]

Init ==
  /\ hash = [table |-> EmptyTable(FirstMax), max |-> FirstMax, count |-> 0,
             pos |-> [x \in Items |-> 0], item |-> [x \in Items |-> Null]]
  /\ map = [k \in Keys |-> Null] /\ fault = FALSE
  /\ \E s \in Setups :
       /\ spare = s.items /\ values = s.values
       /\ index = [i \in s.indexes |-> Start]
       /\ walk = [i \in s.indexes |-> WalkOver({})]

Live(h) == UNION {ToSet(h.table[p]) : p \in DOMAIN h.table}

(* The order in which a loop over the positions and their chains meets items. *)
At(h, x) == CHOOSE p \in DOMAIN h.table : Contains(h.table[p], x)
Rank(h, x) == CHOOSE k \in DOMAIN h.table[At(h, x)] : h.table[At(h, x)][k] = x
Precedes(h, x, y) ==
  \/ At(h, x) < At(h, y)
  \/ At(h, x) = At(h, y) /\ Rank(h, x) < Rank(h, y)

First(h, S) ==
  IF S = {} THEN Null ELSE CHOOSE x \in S : \A y \in S : y = x \/ Precedes(h, x, y)

(* The items of S, each one linked before those met before it. *)
Backwards(h, S) ==
  [n \in 1 .. Cardinality(S) |->
     CHOOSE x \in S : Cardinality({y \in S : Precedes(h, x, y)}) = n - 1]

(* A chain without the items of gone. *)
Unlinked(c, gone) ==
  LET kept == {k \in DOMAIN c : c[k] \notin gone}
  IN  [n \in 1 .. Cardinality(kept) |->
         c[CHOOSE k \in kept : Cardinality({j \in kept : j < k}) = n - 1]]

(* hashofkey & tablemax: tablemax + 1 is a power of two. *)
PosOf(x, max) == Hash(Key(x)) % (max + 1)

(* Faulty form: the items are put at the positions of the old table. *)
FaultyExpand(h) ==
  LET max == 2 * h.max + 1
  IN  [table |-> [p \in 0 .. max |-> Backwards(h, {x \in Live(h) : PosOf(x, h.max) = p})],
       max |-> max, count |-> h.count, item |-> h.item, pos |-> h.pos]

(* Each item goes to the head of its new chain, in the order of the old table. *)
Expand(h) ==
  LET max == 2 * h.max + 1
      live == Live(h)
  IN  [table |-> [p \in 0 .. max |-> Backwards(h, {x \in live : PosOf(x, max) = p})],
       max |-> max, count |-> h.count, item |-> h.item,
       pos |-> [x \in Items |-> IF x \in live THEN PosOf(x, max) ELSE h.pos[x]]]

Expands(h) == h.count > h.max

(* The items of a chain that have the key k. *)
Same(h, p, k) == {x \in ToSet(h.table[p]) : Key(x) = k}

Replaced(h, y, p, v) ==
  [table |-> h.table, max |-> h.max, count |-> h.count,
   pos |-> [h.pos EXCEPT ![y] = p], item |-> [h.item EXCEPT ![y] = v]]

Inserted(h, x, p, v) ==
  [table |-> [h.table EXCEPT ![p] = <<x>> \o @], max |-> h.max, count |-> h.count + 1,
   pos |-> [h.pos EXCEPT ![x] = p], item |-> [h.item EXCEPT ![x] = v]]

Add(h, x, v) ==
  LET e == IF Expands(h) THEN Expand(h) ELSE h
      p == PosOf(x, e.max)
      same == Same(e, p, Key(x))
  IN  IF same # {} THEN Replaced(e, First(e, same), p, v) ELSE Inserted(e, x, p, v)

(* netwib_hash_contains, netwib_hash_value *)
Value(h, k) ==
  LET same == Same(h, Hash(k) % (h.max + 1), k)
  IN  IF same = {} THEN Null ELSE h.item[First(h, same)]

(* The items of gone are unlinked and freed. *)
Deleted(h, gone) ==
  [table |-> [p \in DOMAIN h.table |-> Unlinked(h.table[p], gone)], max |-> h.max,
   count |-> h.count - Cardinality(gone),
   pos |-> [x \in Items |-> IF x \in gone THEN 0 ELSE h.pos[x]],
   item |-> [x \in Items |-> IF x \in gone THEN Null ELSE h.item[x]]]

-----------------------------------------------------------------------------
(* Edits of the table. *)
Without(w, gone) == [w EXCEPT !.due = @ \ gone, !.met = @ \ gone]

(* An expansion changes the order of all the items.  The comment does not
   except it, so that a user who only obeys it still expects whole walks. *)
AfterEdit(h) ==
  /\ hash' = h
  /\ spare' = spare \ Live(h)
  /\ walk' = IF h.max # hash.max /\ ~AsDocumented
             THEN [i \in Indexes |-> Voided(walk[i])]
             ELSE [i \in Indexes |-> Without(walk[i], Live(hash) \ Live(h))]
  /\ UNCHANGED <<values, fault>>

HashAdd(x, v) ==
  /\ AfterEdit(Add(hash, x, v))
  /\ map' = [map EXCEPT ![Key(x)] = v]
  /\ UNCHANGED index

(* Two items of another table, added one after the other. *)
HashAddHash(x, y, v) ==
  /\ AfterEdit(Add(Add(hash, x, v), y, v))
  /\ map' = [map EXCEPT ![Key(x)] = v, ![Key(y)] = v]
  /\ UNCHANGED index

SparesCurrent(gone, i) == index[i].cur \notin gone
SparesNoted(gone, i) == index[i].cur = Null => index[i].nxt \notin gone

MayDelete(gone) ==
  /\ \A i \in Indexes : SparesCurrent(gone, i)
  /\ IF AsDocumented THEN \A i \in Indexes : ~walk[i].afterdel
                     ELSE \A i \in Indexes : SparesNoted(gone, i)

(* netwib_hash_del_criteria frees what the criteria accepts, or what it
   accepted before a callback failed. *)
Deletes(gone) ==
  /\ MayDelete(gone)
  /\ AfterEdit(Deleted(hash, gone))
  /\ map' = [k \in Keys |-> IF k \in {Key(x) : x \in gone} THEN Null ELSE map[k]]
  /\ UNCHANGED index

(* netwib_hash_del frees the first item of the chain that has the key. *)
HashDel(k) ==
  LET same == Same(hash, Hash(k) % (hash.max + 1), k)
  IN  same # {} /\ Deletes({First(hash, same)})

-----------------------------------------------------------------------------
(* Moves of an index. *)
Rewind(i) ==
  /\ index' = [index EXCEPT ![i] = Start]
  /\ walk' = [walk EXCEPT ![i] = WalkOver(Live(hash))]
  /\ UNCHANGED <<hash, map, spare, values, fault>>

CopyIndex(i, j) ==
  /\ index' = [index EXCEPT ![i] = index[j]]
  /\ walk' = [walk EXCEPT ![i] = walk[j]]
  /\ UNCHANGED <<hash, map, spare, values, fault>>

(* netwib_priv_hash_index_next, as many times as it gives an item: the rest
   of the chain of x, then the chains after the position x says it has. *)
RestOfChain(x) ==
  {y \in ToSet(hash.table[At(hash, x)]) : Rank(hash, x) < Rank(hash, y)}
From(p) == UNION {ToSet(hash.table[q]) : q \in p .. hash.max}

After(x) == IF x = Null THEN From(0) ELSE RestOfChain(x) \union From(hash.pos[x] + 1)

Dangling(x) == x \notin Live(hash) \union {Null}

Reading(x, Call) ==
  IF Dangling(x) THEN fault' = TRUE /\ UNCHANGED <<hash, index, map, walk, spare, values>>
                 ELSE Call

Met(w, S) == [w EXCEPT !.due = @ \ S, !.met = IF w.void THEN {} ELSE @ \union S,
                       !.again = @ \/ w.met \intersect S # {}, !.afterdel = FALSE]

NextFrom(i) == IF index[i].cur # Null THEN index[i].cur ELSE index[i].nxt

(* What next tests: nothing when the deleted item was the last one. *)
Candidates(i) ==
  CASE index[i].cur # Null -> After(index[i].cur)
    [] index[i].cur = Null /\ index[i].end -> {}
    [] index[i].cur = Null /\ ~index[i].end /\ index[i].nxt # Null ->
         {index[i].nxt} \union After(index[i].nxt)
    [] OTHER -> After(Null)

StepTo(i, x) ==
  index' = [index EXCEPT ![i] = [cur |-> x, nxt |-> First(hash, After(x)),
                                 end |-> After(x) = {}]]

(* The first item that the criteria accepts is x; NETWIB_ERR_DATAEND if there
   is none: the index stays where it is. *)
NextCriteria(i, x) ==
  Reading(NextFrom(i),
    \/ /\ x \in Candidates(i)
       /\ StepTo(i, x)
       /\ walk' = [walk EXCEPT ![i] =
            Met(@, {y \in Candidates(i) : y = x \/ Precedes(hash, y, x)})]
       /\ UNCHANGED <<hash, map, spare, values, fault>>
    \/ /\ x = Null
       /\ walk' = [walk EXCEPT ![i].missed = walk[i].due \ Candidates(i)]
       /\ UNCHANGED <<hash, index, map, spare, values, fault>>)

-----------------------------------------------------------------------------
(* Edits at an index. *)
ThisReplace(i, v) ==
  LET x == index[i].cur
  IN  Reading(x, /\ x # Null
                 /\ hash' = [hash EXCEPT !.item[x] = v]
                 /\ map' = [map EXCEPT ![Key(x)] = v]
                 /\ UNCHANGED <<index, walk, spare, values, fault>>)

MayDeleteAt(i) ==
  AsDocumented \/ /\ ~Dangling(index[i].nxt)
                  /\ \A j \in Indexes \ {i} : SparesCurrent({index[i].cur}, j)
                                           /\ SparesNoted({index[i].cur}, j)

(* The item is searched in the chain of the position it says it has. *)
ThisDel(i) ==
  LET x == index[i].cur
      h == Deleted(hash, {x})
  IN  Reading(x,
        /\ x # Null
        /\ MayDeleteAt(i)
        /\ IF Contains(hash.table[hash.pos[x]], x)
           THEN /\ hash' = h
                /\ map' = [map EXCEPT ![Key(x)] = Null]
                /\ index' = [index EXCEPT ![i].cur = Null]
                /\ walk' = [[j \in Indexes |-> Without(walk[j], {x})] EXCEPT ![i].afterdel = TRUE]
                /\ UNCHANGED <<spare, values, fault>>
           ELSE fault' = TRUE /\ UNCHANGED <<hash, index, map, walk, spare, values>>)

-----------------------------------------------------------------------------
Next ==
  /\ ~fault
  /\ \/ \E x \in spare, v \in values : HashAdd(x, v)
     \/ \E x, y \in spare, v \in values : x # y /\ HashAddHash(x, y, v)
     \/ \E k \in Keys : HashDel(k)
     \/ \E S \in SUBSET Live(hash) : Deletes(S)
     \/ \E i \in Indexes, x \in Live(hash) \union {Null} : NextCriteria(i, x)
     \/ \E i \in Indexes : Rewind(i) \/ ThisDel(i)
     \/ \E i \in Indexes, v \in values : ThisReplace(i, v)
     \/ \E i, j \in Indexes : CopyIndex(i, j)

Spec == Init /\ [][Next]_vars

-----------------------------------------------------------------------------
TypeOK ==
  /\ hash.table \in [0 .. hash.max -> Seq(Items)]
  /\ hash.pos \in [Items -> 0 .. hash.max]
  /\ index \in [Indexes -> [cur : Items \union {Null}, nxt : Items \union {Null}, end : BOOLEAN]]
  /\ spare \subseteq Items \ Live(hash)
  /\ fault \in BOOLEAN

(* However the table expanded, each item is in the chain of its hash, once,
   and knows its position, and numberofitems counts them:
   netwib_debug_hash_check (hash.c:97-171). *)
HashIsSound ==
  /\ \A p \in 0 .. hash.max, x \in Live(hash) :
       Contains(hash.table[p], x) <=> p = PosOf(x, hash.max) /\ p = hash.pos[x]
  /\ \A p \in 0 .. hash.max : Cardinality(ToSet(hash.table[p])) = Len(hash.table[p])
  /\ hash.count = Cardinality(Live(hash))

(* A search finds for each key what the last call put there, and nothing for
   a key that was deleted (hash.c:304-378, 495-540). *)
FindsWhatWasPut == ~fault => \A k \in Keys : Value(hash, k) = map[k]

(* No call reads a freed item, nor loses the item an index is on: with
   AsDocumented the user only obeys hashi.h:4-33, otherwise the rules
   MayDelete and MayDeleteAt. *)
NoFreedUse == ~fault

(* A walk to the end meets once each item that was in the table at its start
   and that nobody deleted meanwhile, unless the table expands
   (hashi.h:19-23: only the added items may not be returned). *)
WalkIsComplete == \A i \in Indexes : walk[i].missed = {} /\ ~walk[i].again
=============================================================================
