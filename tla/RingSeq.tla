------------------------------ MODULE RingSeq ------------------------------
(***************************************************************************)
(* What a ring promises to its user: a sequence of items, to which items   *)
(* are added, from which some are deleted, which can be sorted, grouped    *)
(* and rid of its duplicates.  An operation whose callback fails stops     *)
(* half way, but never loses an item.                                      *)
(***************************************************************************)
EXTENDS Integers, SequencesExt

CONSTANTS Items, Key(_)

VARIABLES
  items,   \* the ring, from its first item to its last
  last     \* the last operation that edits, and whether it failed

OfKey(s, k) == SelectSeq(s, LAMBDA x : Key(x) = k)
FirstOfKeys(s) == SelectSeq(s, LAMBDA x : x = Head(OfKey(s, Key(x))))

(* The items of equal keys together, in the order of s, the keys in the order ks. *)
ByKeys(s, ks) == FlattenSeq([j \in 1 .. Len(ks) |-> OfKey(s, ks[j])])
Grouped(s) == ByKeys(s, [j \in 1 .. Len(FirstOfKeys(s)) |-> Key(FirstOfKeys(s)[j])])
Sorted(s) == ByKeys(s, SetToSortSeq({Key(x) : x \in ToSet(s)}, <))

Kept(s, t) == SelectSeq(s, LAMBDA x : x \in ToSet(t))
SameItems(s, t) == Len(s) = Len(t) /\ ToSet(s) = ToSet(t)

Init == items = <<>> /\ last = [op |-> "items", failed |-> FALSE]

Added == last'.op = "items" /\ Kept(items', items) = items
Deleted == last'.op = "items" /\ items' = Kept(items, items')
Deduplicated ==
  /\ last'.op = "duplicate"
  /\ items' = Kept(items, items') /\ FirstOfKeys(items') = FirstOfKeys(items)
  /\ ~last'.failed => items' = FirstOfKeys(items)
Ordered(op, Reference(_)) ==
  /\ last'.op = op
  /\ SameItems(items', items)
  /\ ~last'.failed => items' = Reference(items)

Next ==
  \/ Added \/ Deleted \/ Deduplicated
  \/ Ordered("sort", Sorted) \/ Ordered("group", Grouped)

Spec == Init /\ [][Next]_<<items, last>>
=============================================================================
