------------------------------- MODULE Ranges -------------------------------
(***************************************************************************)
(* A list of ports, IP or Ethernet addresses (net/priv/ranges.c): an array *)
(* of ranges whose edges follow each other, inf, sup, inf, sup...  Edits   *)
(* write some edges and move the end of the array to the left or to the    *)
(* right; an index walks the list while it is edited.                      *)
(***************************************************************************)
EXTENDS Integers, SequencesExt, FiniteSetsExt

CONSTANTS
  Setups,      \* the types of list, each with its largest item: a bound of the check
  MaxRanges    \* a bound of the check: no more ranges are appended

ASSUME RangesAssumption == MaxRanges \in Nat /\ \A setup \in Setups : setup.top \in Nat

VARIABLES
  ranges,   \* the type of the list, its largest item and its edges
  index,    \* where an index stands: lastset, lastindex, lastinfitem, lastsupitem
  asked,    \* what the user asked for: the items, and their list when the
            \* array is not sorted (kept by the model only)
  tour      \* what the index met and must still meet (kept by the model only)
vars == <<ranges, index, asked, tour>>

Sorted == ranges.inittype = "SORTUNIQ"
Unique == ranges.inittype # "NOTSORTNOTUNIQ"
AllItems == 0 .. ranges.top
Intervals == {p \in AllItems \X AllItems : p[1] <= p[2]}

(* The range i (from 0, as in the code) has its edges at Low(i) and High(i). *)
NumRanges(s) == Len(s) \div 2
Low(i) == 2 * i + 1
High(i) == 2 * i + 2
In(s, i, v) == s[Low(i)] <= v /\ v <= s[High(i)]

(* The edges before the position d, those of mid, and those from e on: what
   the writes and the memmove of an edit leave. *)
Splice(s, d, mid, e) == SubSeq(s, 1, d - 1) \o mid \o SubSeq(s, e, Len(s))

-----------------------------------------------------------------------------
(* Searches: a range, and whether the item is in it or before it. *)
Found(i) == [at |-> i, in |-> TRUE]
Before(i) == [at |-> i, in |-> FALSE]

SearchLinearSort(s, from, v) ==
  LET ends == {i \in from .. NumRanges(s) - 1 : v <= s[High(i)]}
  IN  CASE ends = {} -> Before(NumRanges(s))
        [] ends # {} /\ v < s[Low(Min(ends))] -> Before(Min(ends))
        [] OTHER -> Found(Min(ends))

SearchLinearNotSort(s, from, v) ==
  LET around == {i \in from .. NumRanges(s) - 1 : In(s, i, v)}
  IN  IF around = {} THEN Before(NumRanges(s)) ELSE Found(Min(around))

(* From indexlow to indexhigh: the part of the list that is still searched. *)
Parts(n) == {p \in (0 .. n) \X (0 .. n) : p[1] <= p[2]}

SearchDichotomy(s, v) ==
  LET Between[p \in Parts(NumRanges(s))] ==
        LET low == p[1]
            high == p[2]
            try == low + (high - low) \div 2
        IN  IF low = high THEN Before(high)
            ELSE IF v < s[Low(try)] THEN Between[<<low, try>>]
            ELSE IF v > s[High(try)] THEN Between[<<try + 1, high>>]
            ELSE Found(try)
  IN  Between[<<0, NumRanges(s)>>]

Search(s, v) == IF Sorted THEN SearchDichotomy(s, v) ELSE SearchLinearNotSort(s, 0, v)

-----------------------------------------------------------------------------
(* Edits of a sorted list. *)
AddSort(s, v) ==
  LET found == SearchDichotomy(s, v)
      p == Low(found.at)
      edge1 == found.at # 0 /\ s[p - 1] + 1 = v
      edge2 == found.at # NumRanges(s) /\ v + 1 = s[p]
  IN  CASE found.in -> s
        [] ~found.in /\ edge1 /\ edge2 -> Splice(s, p - 1, <<>>, p + 1)
        [] ~found.in /\ edge1 /\ ~edge2 -> Splice(s, p - 1, <<v>>, p)
        [] ~found.in /\ ~edge1 /\ edge2 -> Splice(s, p, <<v>>, p + 1)
        [] OTHER -> Splice(s, p, <<v, v>>, p)

(* Faulty form: a range that begins just after the added one is not joined. *)
FaultyAddRangeSort(s, lo, hi) ==
  LET f == SearchDichotomy(s, lo)
      g == SearchLinearSort(s, f.at, hi)
      p == Low(f.at)
      q == Low(g.at)
  IN  CASE f.in /\ g.in -> Splice(s, p + 1, <<>>, q + 1)
        [] f.in /\ ~g.in -> Splice(s, p + 1, <<hi>>, q)
        [] ~f.in /\ g.in -> Splice(s, p, <<lo>>, q + 1)
        [] OTHER -> Splice(s, p, <<lo, hi>>, q)

(* A range that ends just before lo, or begins just after hi, is joined. *)
AddRangeSort(s, lo, hi) ==
  LET f == SearchDichotomy(s, lo)
      g == SearchLinearSort(s, f.at, hi)
      edgeinf == ~f.in /\ f.at # 0 /\ s[Low(f.at) - 1] + 1 = lo
      edgesup == ~g.in /\ g.at < NumRanges(s) /\ hi + 1 = s[Low(g.at)]
      infin == f.in \/ edgeinf
      supin == g.in \/ edgesup
      p == IF edgeinf THEN Low(f.at - 1) ELSE Low(f.at)
      q == Low(g.at)
  IN  CASE infin /\ supin -> Splice(s, p + 1, <<>>, q + 1)
        [] infin /\ ~supin -> Splice(s, p + 1, <<hi>>, q)
        [] ~infin /\ supin -> Splice(s, p, <<lo>>, q + 1)
        [] OTHER -> Splice(s, p, <<lo, hi>>, q)

DelItem(s, v, i) ==
  LET p == Low(i)
  IN  CASE s[p] = v /\ s[p + 1] = v -> Splice(s, p, <<>>, p + 2)
        [] s[p] = v /\ s[p + 1] # v -> Splice(s, p, <<v + 1>>, p + 1)
        [] s[p] # v /\ s[p + 1] = v -> Splice(s, p + 1, <<v - 1>>, p + 2)
        [] OTHER -> Splice(s, p + 1, <<v - 1, v + 1>>, p + 1)

(* From lo, in or before the range f.at, to hi, in or before the range g.at;
   a bound on the edge of its range takes the range whole. *)
DelItems(s, lo, f, hi, g) ==
  LET p == Low(f.at)
      upto == g.in /\ s[High(g.at)] = hi
      q == IF upto THEN Low(g.at + 1) ELSE Low(g.at)
      infin == f.in /\ s[p] # lo
      supin == g.in /\ ~upto
  IN  CASE infin /\ supin -> Splice(s, p + 1, <<lo - 1, hi + 1>>, q + 1)
        [] infin /\ ~supin -> Splice(s, p + 1, <<lo - 1>>, q)
        [] ~infin /\ supin -> Splice(s, p, <<hi + 1>>, q + 1)
        [] OTHER -> Splice(s, p, <<>>, q)

DelSort(s, v) ==
  LET found == SearchDichotomy(s, v)
  IN  IF found.in THEN DelItem(s, v, found.at) ELSE s

DelRangeSort(s, lo, hi) ==
  LET f == SearchDichotomy(s, lo)
  IN  DelItems(s, lo, f, hi, SearchLinearSort(s, f.at, hi))

-----------------------------------------------------------------------------
(* Edits of a list that is not sorted: what is deleted is looked for from
   the place of the last deletion on.  A turn of each loop changes the array
   and that place, the last ones nothing. *)
DelTurn(m, v) ==
  LET found == SearchLinearNotSort(m.edges, m.from, v)
  IN  IF found.in THEN [edges |-> DelItem(m.edges, v, found.at), from |-> found.at] ELSE m

(* Each turn deletes the item from a range, which it may cut in two. *)
DelNotSort(s, v) ==
  LET At[k \in 0 .. NumRanges(s)] ==
        IF k = 0 THEN [edges |-> s, from |-> 0] ELSE DelTurn(At[k - 1], v)
  IN  At[NumRanges(s)].edges

DelRangeTurn(m, lo, hi) ==
  LET s == m.edges
      i == m.from
  IN  CASE i >= NumRanges(s) -> m
        [] i < NumRanges(s) /\ (lo > s[High(i)] \/ hi < s[Low(i)]) ->
             [edges |-> s, from |-> i + 1]
        [] OTHER ->
             [edges |-> DelItems(s, lo, [at |-> i, in |-> lo >= s[Low(i)]], hi,
                                 IF hi > s[High(i)] THEN Before(i + 1) ELSE Found(i)),
              from |-> i]

(* Three turns at most for a range: it is cut, and its two ends are left. *)
DelRangeNotSort(s, lo, hi) ==
  LET At[k \in 0 .. 3 * NumRanges(s)] ==
        IF k = 0 THEN [edges |-> s, from |-> 0] ELSE DelRangeTurn(At[k - 1], lo, hi)
  IN  At[3 * NumRanges(s)].edges

AddNotSort(s, v) ==
  IF Unique /\ SearchLinearNotSort(s, 0, v).in THEN s ELSE s \o <<v, v>>

AddRangeNotSort(s, lo, hi) ==
  (IF Unique THEN DelRangeNotSort(s, lo, hi) ELSE s) \o <<lo, hi>>

-----------------------------------------------------------------------------
(* The questions. *)
ContainsItem(v) == Search(ranges.edges, v).in

ContainsRangeSort(lo, hi) ==
  LET f == SearchDichotomy(ranges.edges, lo)
      g == SearchLinearSort(ranges.edges, f.at, hi)
  IN  IF f.in /\ g.in /\ f.at = g.at THEN "yes" ELSE "no"

(* Past the largest item there is no next one to look for, and the question
   ends in NETWIB_ERR_LOINTERNALERROR. *)
ContainsRangeNotSort(lo, hi) ==
  LET From[searched \in AllItems] ==
        LET found == SearchLinearNotSort(ranges.edges, 0, searched)
            sup == ranges.edges[High(found.at)]
        IN  IF ~found.in THEN "no"
            ELSE IF sup = ranges.top THEN "error"
            ELSE IF sup + 1 > hi THEN "yes"
            ELSE From[sup + 1]
  IN  From[lo]

ContainsRange(lo, hi) ==
  IF Sorted THEN ContainsRangeSort(lo, hi) ELSE ContainsRangeNotSort(lo, hi)

-----------------------------------------------------------------------------
(* The calls that edit.  asked is what they mean, whatever the array. *)
Upto(lo, hi) == [k \in 1 .. hi - lo + 1 |-> lo + k - 1]
Without(s, lo, hi) ==
  FlattenSeq([k \in 1 .. Len(s) |-> IF s[k] < lo \/ s[k] > hi THEN <<s[k]>> ELSE <<>>])

(* A walk of a sorted list goes on through the edits; another is given up. *)
Edited(edges, items, list) ==
  /\ ranges' = [ranges EXCEPT !.edges = edges]
  /\ asked' = [items |-> items, list |-> IF Sorted THEN <<>> ELSE list]
  /\ tour' = IF Sorted THEN [tour EXCEPT !.due = @ \intersect items]
                       ELSE [tour EXCEPT !.met = <<>>, !.void = TRUE]

Room == Unique \/ NumRanges(ranges.edges) < MaxRanges

Add(v) ==
  /\ Room
  /\ Edited(IF Sorted THEN AddSort(ranges.edges, v) ELSE AddNotSort(ranges.edges, v),
            asked.items \union {v},
            IF Unique /\ v \in asked.items THEN asked.list ELSE Append(asked.list, v))
  /\ UNCHANGED index

AddRange(lo, hi) ==
  /\ Room
  /\ Edited(IF Sorted THEN AddRangeSort(ranges.edges, lo, hi)
                      ELSE AddRangeNotSort(ranges.edges, lo, hi),
            asked.items \union (lo .. hi),
            (IF Unique THEN Without(asked.list, lo, hi) ELSE asked.list) \o Upto(lo, hi))
  /\ UNCHANGED index

AddAll ==
  /\ Edited(<<0, ranges.top>>, AllItems, Upto(0, ranges.top))
  /\ UNCHANGED index

Del(v) ==
  /\ Edited(IF Sorted THEN DelSort(ranges.edges, v) ELSE DelNotSort(ranges.edges, v),
            asked.items \ {v}, Without(asked.list, v, v))
  /\ UNCHANGED index

DelRange(lo, hi) ==
  Edited(IF Sorted THEN DelRangeSort(ranges.edges, lo, hi)
                   ELSE DelRangeNotSort(ranges.edges, lo, hi),
         asked.items \ (lo .. hi), Without(asked.list, lo, hi))

DelAll == Edited(<<>>, {}, <<>>) /\ UNCHANGED index

-----------------------------------------------------------------------------
(* The index. *)
Rewound == [lastset |-> FALSE, lastindex |-> 0, lastinfitem |-> 0, lastsupitem |-> 0]
StartTour(S) == [due |-> IF Sorted THEN S ELSE {}, met |-> <<>>, void |-> FALSE, wrong |-> FALSE]

Init ==
  /\ \E setup \in Setups :
       ranges = [inittype |-> setup.inittype, top |-> setup.top, edges |-> <<>>]
  /\ index = Rewound /\ asked = [items |-> {}, list |-> <<>>] /\ tour = StartTour({})

Rewind ==
  /\ index' = Rewound
  /\ tour' = StartTour(asked.items)
  /\ UNCHANGED <<ranges, asked>>

(* The last item given may have moved to another range, or be gone. *)
Adjust ==
  IF index.lastindex < NumRanges(ranges.edges) /\ In(ranges.edges, index.lastindex, index.lastsupitem)
  THEN Found(index.lastindex) ELSE Search(ranges.edges, index.lastsupitem)

(* Where the walk goes on: in the range at, from the item from.  Past the
   last range, the call returns NETWIB_ERR_DATAEND. *)
AtRange(i) ==
  [at |-> i, from |-> IF i < NumRanges(ranges.edges) THEN ranges.edges[Low(i)] ELSE 0]

GoesOn ==
  LET found == Adjust
  IN  CASE ~index.lastset -> AtRange(0)
        [] index.lastset /\ ~found.in ->
             IF Sorted THEN AtRange(found.at) ELSE AtRange(NumRanges(ranges.edges))
        [] index.lastset /\ found.in /\ ranges.edges[High(found.at)] # index.lastsupitem ->
             [at |-> found.at, from |-> index.lastsupitem + 1]
        [] OTHER -> AtRange(found.at + 1)

Met(lo, hi) ==
  [tour EXCEPT !.due = @ \ (lo .. hi),
               !.met = IF Sorted \/ tour.void THEN <<>> ELSE @ \o Upto(lo, hi),
               !.wrong = @ \/ (Sorted /\ index.lastset /\ lo <= index.lastsupitem)]

Give(place, sup) ==
  /\ place.at < NumRanges(ranges.edges)
  /\ index' = [lastset |-> TRUE, lastindex |-> place.at,
               lastinfitem |-> place.from, lastsupitem |-> sup]
  /\ tour' = Met(place.from, sup)
  /\ UNCHANGED <<ranges, asked>>

Next1 == Give(GoesOn, GoesOn.from)
NextRange == Give(GoesOn, ranges.edges[High(GoesOn.at)])

DataEnd ==
  /\ GoesOn.at = NumRanges(ranges.edges)
  /\ tour' = [tour EXCEPT !.wrong = @ \/ IF Sorted THEN tour.due # {}
                                                   ELSE ~tour.void /\ tour.met # asked.list]
  /\ UNCHANGED <<ranges, index, asked>>

ThisDel == index.lastset /\ DelRange(index.lastinfitem, index.lastsupitem) /\ UNCHANGED index

EditItem(v) == Add(v) \/ Del(v)
EditRange(lo, hi) == AddRange(lo, hi) \/ (DelRange(lo, hi) /\ UNCHANGED index)
Walk == Rewind \/ Next1 \/ NextRange \/ DataEnd \/ ThisDel

Next ==
  \/ \E v \in AllItems : EditItem(v)
  \/ \E p \in Intervals : EditRange(p[1], p[2])
  \/ AddAll \/ DelAll
  \/ Walk

Spec == Init /\ [][Next]_vars

-----------------------------------------------------------------------------
TypeOK ==
  /\ ranges.edges \in Seq(AllItems)
  /\ index \in [lastset : BOOLEAN, lastindex : Nat, lastinfitem : AllItems, lastsupitem : AllItems]
  /\ asked \in [items : SUBSET AllItems, list : Seq(AllItems)]
  /\ tour.due \subseteq asked.items

(* The items of the ranges, one range after the other. *)
Listed(s) == FlattenSeq([k \in 1 .. NumRanges(s) |-> Upto(s[Low(k - 1)], s[High(k - 1)])])

(* What netwib_debug_ranges_check asserts of the array after any sequence of
   edits (ranges.c:198-249), and that two ranges of a sorted list never
   touch, on which netwib_priv_ranges_contains_range_sort relies. *)
RangesAreSound ==
  LET s == ranges.edges
  IN  /\ Len(s) % 2 = 0
      /\ \A i \in 0 .. NumRanges(s) - 1 : s[Low(i)] <= s[High(i)]
      /\ Sorted => \A i \in 1 .. NumRanges(s) - 1 : s[High(i - 1)] + 1 < s[Low(i)]

(* The array holds what the calls asked for: the set of the items, which a
   sorted array orders, the items without duplicates in the order in which
   they were added, where what is added again as a range moves to the end,
   or all of them (ports.h:21-26, 44-50); and the searches tell so, but for
   the range question that ends in an error. *)
HoldsWhatWasAsked ==
  LET s == ranges.edges
  IN  /\ {v \in AllItems : \E i \in 0 .. NumRanges(s) - 1 : In(s, i, v)} = asked.items
      /\ ~Sorted => Listed(s) = asked.list
      /\ \A v \in AllItems : ContainsItem(v) <=> v \in asked.items
      /\ \A p \in Intervals : ContainsRange(p[1], p[2]) # "error" =>
           (ContainsRange(p[1], p[2]) = "yes" <=> p[1] .. p[2] \subseteq asked.items)

(* A walk of a sorted list to its end meets, in order, all that was there at
   its start and was not deleted, whatever is added or deleted around it; a
   walk of another list meets all its items, in order and as often as they
   were added, if nobody edits it (ranges.c:1359-1501). *)
TourIsComplete == ~tour.wrong
=============================================================================
