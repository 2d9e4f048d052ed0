----------------------------- MODULE RingProof -----------------------------
(***************************************************************************)
(* The links of a ring stay sound through every call, every job and every  *)
(* failure of a callback, and its indexes walk it wholly and without any   *)
(* read of a freed item, for any items, any keys, any number of indexes    *)
(* and any size of a full ring.                                            *)
(***************************************************************************)
EXTENDS RingIndex, FunctionTheorems, FiniteSetTheorems, SequenceTheorems,
        WellFoundedInduction, TLAPS

-----------------------------------------------------------------------------
(* A ring and the order of its items: o[0] and o[count + 1] are its head *)

Typed(r) ==
  /\ r = [next |-> r.next, prev |-> r.prev, live |-> r.live, count |-> r.count]
  /\ r.next \in [Nodes -> Nodes \union {Null}] /\ r.prev \in [Nodes -> Nodes \union {Null}]
  /\ r.live \in SUBSET Items /\ r.count \in 0 .. Full

Order(r, o) ==
  /\ o \in [0 .. r.count + 1 -> Nodes] /\ o[0] = PRing /\ o[r.count + 1] = PRing
  /\ \A k \in 1 .. r.count : o[k] \in r.live
  /\ \A x \in r.live : \E k \in 1 .. r.count : o[k] = x
  /\ \A j, k \in 1 .. r.count : o[j] = o[k] => j = k

Linked(r, o, k) == r.next[o[k]] = o[k + 1] /\ r.prev[o[k + 1]] = o[k]

\* All the links agree, but those after the positions of cut.
Sound(r, o, cut) ==
  /\ Typed(r) /\ Order(r, o)
  /\ \A k \in 0 .. r.count : k \in cut \/ Linked(r, o, k)

\* Two positions of the same node are the same, but for the head.
LEMMA Apart ==
  ASSUME RingAssumption, NEW r, NEW o, Typed(r), Order(r, o)
  PROVE  /\ r.count \in Nat /\ Null \notin Nodes
         /\ \A k \in 0 .. r.count + 1 : o[k] \in Nodes
         /\ \A k \in 0 .. r.count + 1 : o[k] = PRing <=> k \in {0, r.count + 1}
         /\ \A j, k \in 0 .. r.count : o[j] = o[k] => j = k
         /\ \A j, k \in 1 .. r.count + 1 : o[j] = o[k] => j = k
         /\ \A p \in r.live \union {PRing} :
              /\ \E k \in 0 .. r.count : o[k] = p
              /\ \E k \in 1 .. r.count + 1 : o[k] = p
<1>1. r.count \in Nat
  BY DEF Typed, RingAssumption
<1>2. PRing \notin r.live /\ Null \notin Nodes
  BY DEF Typed, RingAssumption, RingLinksAssumption, Nodes
<1>3. \A k \in 0 .. r.count + 1 : k \in 1 .. r.count \/ k = 0 \/ k = r.count + 1
  BY <1>1
<1>4. \A k \in 0 .. r.count + 1 : o[k] = PRing <=> k \in {0, r.count + 1}
  BY <1>1, <1>2, <1>3 DEF Order
<1>5. \A j, k \in 0 .. r.count : o[j] = o[k] => j = k
  BY <1>1, <1>3, <1>4 DEF Order
<1>6. \A j, k \in 1 .. r.count + 1 : o[j] = o[k] => j = k
  BY <1>1, <1>3, <1>4 DEF Order
<1>7. ASSUME NEW p \in r.live \union {PRing}
      PROVE  /\ \E k \in 0 .. r.count : o[k] = p
             /\ \E k \in 1 .. r.count + 1 : o[k] = p
  <2>1. CASE p = PRing
    BY <2>1, <1>1 DEF Order
  <2>2. CASE p \in r.live
    <3>1. PICK k \in 1 .. r.count : o[k] = p
      BY <2>2 DEF Order
    <3> QED BY <3>1, <1>1
  <2> QED BY <2>1, <2>2
<1>8. \A k \in 0 .. r.count + 1 : o[k] \in Nodes
  BY <1>1 DEF Order
<1> QED BY <1>1, <1>2, <1>4, <1>5, <1>6, <1>7, <1>8

\* Linking two items that follow each other mends the link.
LEMMA LinkSound ==
  ASSUME RingAssumption, NEW r, NEW o, NEW cut, Sound(r, o, cut), NEW k \in 0 .. r.count
  PROVE  Sound(Link(r, o[k], o[k + 1]), o, cut \ {k})
<1> DEFINE g == Link(r, o[k], o[k + 1])
<1>1. Typed(r) /\ Order(r, o) /\ r.count \in Nat
  BY Apart DEF Sound
<1>2. o[k] \in Nodes /\ o[k + 1] \in Nodes
  BY <1>1, Apart
<1>3. /\ g.next = [r.next EXCEPT ![o[k]] = o[k + 1]] /\ g.prev = [r.prev EXCEPT ![o[k + 1]] = o[k]]
      /\ g.live = r.live /\ g.count = r.count
      /\ g = [next |-> g.next, prev |-> g.prev, live |-> g.live, count |-> g.count]
  BY DEF Link
<1>4. r.next \in [Nodes -> Nodes \union {Null}] /\ r.prev \in [Nodes -> Nodes \union {Null}]
  BY <1>1 DEF Typed
<1> HIDE DEF g
<1>5. Typed(g)
  BY <1>1, <1>2, <1>3, <1>4 DEF Typed
<1>6. Order(g, o)
  BY <1>1, <1>3 DEF Order
<1>7. ASSUME NEW j \in 0 .. g.count, j \notin cut \ {k} PROVE Linked(g, o, j)
  <2>1. o[j] \in Nodes /\ o[j + 1] \in Nodes
    BY <1>1, <1>3, Apart
  <2>2. CASE j = k
    BY <2>2, <1>2, <1>3, <1>4 DEF Linked
  <2>3. CASE j # k
    <3>1. o[j] # o[k] /\ o[j + 1] # o[k + 1]
      <4>1. j \in 0 .. r.count /\ j + 1 \in 1 .. r.count + 1 /\ k + 1 \in 1 .. r.count + 1 /\ j + 1 # k + 1
        BY <2>3, <1>1, <1>3
      <4> QED BY <4>1, <2>3, <1>1, Apart
    <3>2. Linked(r, o, j)
      BY <1>7, <2>3, <1>3 DEF Sound
    <3> QED BY <2>1, <3>1, <3>2, <1>2, <1>3, <1>4 DEF Linked
  <2> QED BY <2>2, <2>3
<1> QED BY <1>5, <1>6, <1>7 DEF Sound, g

\* What holds with few broken links holds with more.
LEMMA Weaker ==
  ASSUME NEW r, NEW o, NEW cut, NEW more, Sound(r, o, cut), cut \subseteq more
  PROVE  Sound(r, o, more)
BY DEF Sound

-----------------------------------------------------------------------------
(* Items that come, that go, and that are moved *)

Insert(o, n, k, x) ==
  [j \in 0 .. n + 2 |-> IF j <= k THEN o[j] ELSE IF j = k + 1 THEN x ELSE o[j - 1]]
Remove(o, n, k) == [j \in 0 .. n |-> IF j < k THEN o[j] ELSE o[j + 1]]
\* The item of position j goes just after position i.
Shift(o, n, i, j) ==
  [k \in 0 .. n + 1 |-> IF k = i + 1 THEN o[j]
                        ELSE IF i + 1 < k /\ k <= j THEN o[k - 1] ELSE o[k]]

LEMMA InsertSound ==
  ASSUME RingAssumption, NEW r, NEW o, NEW k \in 0 .. r.count, Sound(r, o, {k}),
         NEW x \in Items, x \notin r.live, r.count < Full
  PROVE  Sound(Allocated(Link(r, o[k], x), x), Insert(o, r.count, k, x), {k + 1})
<1> DEFINE g == Allocated(Link(r, o[k], x), x)
           u == Insert(o, r.count, k, x)
           n == r.count
<1>1. Typed(r) /\ Order(r, o) /\ n \in Nat /\ Full \in Nat
  BY Apart DEF Sound, RingAssumption
<1>2. o[k] \in Nodes /\ x \in Nodes /\ x # PRing
  BY <1>1, Apart DEF Nodes, RingAssumption, RingLinksAssumption
<1>3. /\ g.next = [r.next EXCEPT ![o[k]] = x] /\ g.prev = [r.prev EXCEPT ![x] = o[k]]
      /\ g.live = r.live \union {x} /\ g.count = n + 1
      /\ g = [next |-> g.next, prev |-> g.prev, live |-> g.live, count |-> g.count]
  BY DEF Link, Allocated
<1>4. r.next \in [Nodes -> Nodes \union {Null}] /\ r.prev \in [Nodes -> Nodes \union {Null}]
      /\ r.live \subseteq Items
  BY <1>1 DEF Typed
<1>5. /\ u \in [0 .. n + 2 -> Nodes]
      /\ \A j \in 0 .. k : u[j] = o[j]
      /\ u[k + 1] = x
      /\ \A j \in k + 2 .. n + 2 : u[j] = o[j - 1]
  <2>1. \A j \in 0 .. n + 1 : o[j] \in Nodes
    BY <1>1, Apart
  <2> QED BY <2>1, <1>1, <1>2 DEF Insert
<1> HIDE DEF g, u
<1>6. Typed(g)
  BY <1>1, <1>2, <1>3, <1>4 DEF Typed
<1>7. Order(g, u)
  <2>1. u \in [0 .. g.count + 1 -> Nodes] /\ u[0] = PRing /\ u[g.count + 1] = PRing
    <3>1. g.count + 1 = n + 2 /\ n + 2 \in k + 2 .. n + 2 /\ (n + 2) - 1 = n + 1 /\ 0 \in 0 .. k
      BY <1>1, <1>3
    <3>2. u[0] = o[0] /\ u[n + 2] = o[n + 1]
      BY <3>1, <1>5
    <3> QED BY <3>1, <3>2, <1>1, <1>5 DEF Order
  <2>2. \A j \in 1 .. g.count : u[j] \in g.live
    <3> TAKE j \in 1 .. g.count
    <3>1. CASE j <= k
      BY <3>1, <1>1, <1>3, <1>5 DEF Order
    <3>2. CASE j = k + 1
      BY <3>2, <1>3, <1>5
    <3>3. CASE j > k + 1
      <4>1. j \in k + 2 .. n + 2 /\ j - 1 \in 1 .. n
        BY <3>3, <1>1, <1>3
      <4> QED BY <4>1, <1>1, <1>3, <1>5 DEF Order
    <3> QED BY <3>1, <3>2, <3>3, <1>1
  <2>3. ASSUME NEW y \in g.live PROVE \E j \in 1 .. g.count : u[j] = y
    <3>1. CASE y = x
      BY <3>1, <1>1, <1>3, <1>5
    <3>2. CASE y # x
      <4>1. PICK j \in 1 .. n : o[j] = y
        BY <3>2, <1>1, <1>3 DEF Order
      <4>2. CASE j <= k
        BY <4>1, <4>2, <1>1, <1>3, <1>5
      <4>3. CASE j > k
        <5>1. j + 1 \in k + 2 .. n + 2 /\ j + 1 \in 1 .. g.count /\ (j + 1) - 1 = j
          BY <4>3, <1>1, <1>3
        <5> QED BY <4>1, <5>1, <1>5
      <4> QED BY <4>2, <4>3, <1>1
    <3> QED BY <3>1, <3>2
  <2>4. ASSUME NEW i \in 1 .. g.count, NEW j \in 1 .. g.count, u[i] = u[j], i < j
        PROVE  FALSE
    <3>1. \A m \in 0 .. n + 1 : o[m] # x
      BY <1>1, <1>2 DEF Order
    <3>2. \A m, p \in 1 .. n : o[m] = o[p] => m = p
      BY <1>1 DEF Order
    <3>3. CASE j <= k
      <4>1. i \in 0 .. k /\ j \in 0 .. k /\ i \in 1 .. n /\ j \in 1 .. n /\ i # j
        BY <3>3, <2>4, <1>1, <1>3
      <4> QED BY <4>1, <3>2, <2>4, <1>5
    <3>4. CASE j = k + 1
      <4>1. u[i] = o[i] /\ i \in 0 .. n + 1
        BY <3>4, <2>4, <1>1, <1>3, <1>5
      <4> QED BY <4>1, <3>1, <3>4, <2>4, <1>5
    <3>5. CASE j > k + 1
      <4>1. u[j] = o[j - 1] /\ j - 1 \in 1 .. n
        BY <3>5, <1>1, <1>3, <1>5
      <4>2. CASE i <= k
        <5>1. u[i] = o[i] /\ i \in 1 .. n /\ i # j - 1
          BY <4>2, <3>5, <1>1, <1>3, <1>5
        <5> QED BY <5>1, <4>1, <3>2, <2>4
      <4>3. CASE i = k + 1
        BY <4>3, <4>1, <3>1, <2>4, <1>1, <1>5
      <4>4. CASE i > k + 1
        <5>1. u[i] = o[i - 1] /\ i - 1 \in 1 .. n /\ i - 1 # j - 1
          BY <4>4, <2>4, <1>1, <1>3, <1>5
        <5> QED BY <5>1, <4>1, <3>2, <2>4
      <4> QED BY <4>2, <4>3, <4>4, <1>1
    <3> QED BY <3>3, <3>4, <3>5, <1>1
  <2>5. \A i, j \in 1 .. g.count : u[i] = u[j] => i = j
    <3> TAKE i, j \in 1 .. g.count
    <3>1. i < j \/ i = j \/ j < i
      BY <1>1, <1>3
    <3> QED BY <3>1, <2>4
  <2> QED BY <2>1, <2>2, <2>3, <2>5 DEF Order
<1>8. ASSUME NEW j \in 0 .. g.count, j # k + 1 PROVE Linked(g, u, j)
  <2>1. \A m \in 0 .. n + 1 : o[m] \in Nodes /\ o[m] # x
    BY <1>1, <1>2, Apart DEF Order
  <2>2. CASE j < k
    <3>1. u[j] = o[j] /\ u[j + 1] = o[j + 1] /\ j \in 0 .. n /\ j # k
      BY <2>2, <1>1, <1>3, <1>5
    <3>2. Linked(r, o, j) /\ o[j] # o[k]
      BY <3>1, <1>1, Apart DEF Sound
    <3> QED BY <3>1, <3>2, <2>1, <1>1, <1>2, <1>3, <1>4 DEF Linked
  <2>3. CASE j = k
    BY <2>3, <1>2, <1>3, <1>4, <1>5 DEF Linked
  <2>4. CASE j > k + 1
    <3>1. u[j] = o[j - 1] /\ u[j + 1] = o[(j - 1) + 1] /\ j - 1 \in 0 .. n /\ j - 1 # k
          /\ (j - 1) + 1 \in 0 .. n + 1
      <4>1. j \in k + 2 .. n + 2 /\ j + 1 \in k + 2 .. n + 2 /\ (j + 1) - 1 = (j - 1) + 1
            /\ j - 1 \in 0 .. n /\ j - 1 # k /\ (j - 1) + 1 \in 0 .. n + 1
        BY <2>4, <1>1, <1>3
      <4> QED BY <4>1, <1>5
    <3>2. Linked(r, o, j - 1) /\ o[j - 1] # o[k]
      BY <3>1, <1>1, Apart DEF Sound
    <3>3. o[j - 1] \in Nodes /\ o[(j - 1) + 1] \in Nodes /\ o[(j - 1) + 1] # x
      <4>1. j - 1 \in 0 .. n + 1
        BY <3>1, <1>1
      <4> QED BY <4>1, <3>1, <2>1
    <3>4. g.next[o[j - 1]] = r.next[o[j - 1]] /\ g.prev[o[(j - 1) + 1]] = r.prev[o[(j - 1) + 1]]
      BY <3>2, <3>3, <1>2, <1>3, <1>4
    <3> QED BY <3>1, <3>2, <3>4 DEF Linked
  <2> QED BY <2>2, <2>3, <2>4, <1>1, <1>8
<1> QED BY <1>6, <1>7, <1>8 DEF Sound, g, u


LEMMA RemoveSound ==
  ASSUME RingAssumption, NEW r, NEW o, NEW k \in 1 .. r.count, Sound(r, o, {})
  PROVE  Sound(Removed(r, o[k - 1], o[k], o[k + 1]), Remove(o, r.count, k), {})
<1> DEFINE x == o[k]
           a == o[k - 1]
           b == o[k + 1]
           g == Removed(r, a, x, b)
           u == Remove(o, r.count, k)
           n == r.count
<1>1. Typed(r) /\ Order(r, o) /\ n \in Nat /\ Full \in Nat /\ n <= Full
  BY Apart DEF Sound, Typed, RingAssumption
<1>2. x \in r.live /\ x \in Nodes /\ x # PRing /\ a \in Nodes /\ b \in Nodes /\ a # x /\ b # x
  <2>1. k \in 0 .. n /\ k - 1 \in 0 .. n /\ k + 1 \in 1 .. n + 1 /\ k \in 1 .. n + 1
        /\ k - 1 # k /\ k + 1 # k /\ k - 1 \in 0 .. n + 1 /\ k \in 0 .. n + 1 /\ k + 1 \in 0 .. n + 1
    BY <1>1
  <2>2. x \in r.live
    BY <1>1 DEF Order
  <2>3. x # PRing
    BY <2>2, <1>1 DEF Typed, RingAssumption, RingLinksAssumption
  <2> QED BY <2>1, <2>2, <2>3, <1>1, Apart
<1>3. /\ g.next = [[r.next EXCEPT ![a] = b] EXCEPT ![x] = Null]
      /\ g.prev = [[r.prev EXCEPT ![b] = a] EXCEPT ![x] = Null]
      /\ g.live = r.live \ {x} /\ g.count = n - 1
      /\ g = [next |-> g.next, prev |-> g.prev, live |-> g.live, count |-> g.count]
  BY DEF Link, Freed, Removed
<1>4. r.next \in [Nodes -> Nodes \union {Null}] /\ r.prev \in [Nodes -> Nodes \union {Null}]
      /\ r.live \subseteq Items
  BY <1>1 DEF Typed
<1>5. /\ u \in [0 .. n -> Nodes]
      /\ \A j \in 0 .. k - 1 : u[j] = o[j]
      /\ \A j \in k .. n : u[j] = o[j + 1]
  <2>1. \A j \in 0 .. n + 1 : o[j] \in Nodes
    BY <1>1, Apart
  <2> QED BY <2>1, <1>1 DEF Remove
<1>6. \A j \in 0 .. n : \E m \in 0 .. n + 1 :
         /\ u[j] = o[m] /\ m # k /\ ((m = j /\ j < k) \/ (m = j + 1 /\ j >= k))
  <2> TAKE j \in 0 .. n
  <2>1. CASE j < k
    BY <2>1, <1>1, <1>5
  <2>2. CASE j >= k
    <3>1. j \in k .. n /\ j + 1 \in 0 .. n + 1 /\ j + 1 # k
      BY <2>2, <1>1
    <3> QED BY <3>1, <2>2, <1>5
  <2> QED BY <2>1, <2>2, <1>1
<1>7. \A j \in 0 .. n + 1 : o[j] = x <=> j = k
  <2> TAKE j \in 0 .. n + 1
  <2>1. CASE j \in 0 .. n
    BY <2>1, <1>1, Apart
  <2>2. CASE j = n + 1
    BY <2>2, <1>1, <1>2 DEF Order
  <2> QED BY <2>1, <2>2, <1>1
<1> HIDE DEF g, u
<1>8. Typed(g)
  <2>1. g.next \in [Nodes -> Nodes \union {Null}] /\ g.prev \in [Nodes -> Nodes \union {Null}]
    BY <1>2, <1>3, <1>4
  <2>2. g.count \in 0 .. Full /\ g.live \in SUBSET Items
    BY <1>1, <1>3, <1>4
  <2> QED BY <2>1, <2>2, <1>3 DEF Typed
<1>9. Order(g, u)
  <2>1. u \in [0 .. g.count + 1 -> Nodes] /\ u[0] = PRing /\ u[g.count + 1] = PRing
    <3>1. g.count + 1 = n /\ 0 \in 0 .. k - 1 /\ n \in k .. n
      BY <1>1, <1>3
    <3> QED BY <3>1, <1>1, <1>5 DEF Order
  <2>2. \A j \in 1 .. g.count : u[j] \in g.live
    <3> TAKE j \in 1 .. g.count
    <3>1. PICK m \in 0 .. n + 1 : u[j] = o[m] /\ m # k /\ ((m = j /\ j < k) \/ (m = j + 1 /\ j >= k))
      <4>1. j \in 0 .. n
        BY <1>1, <1>3
      <4> QED BY <4>1, <1>6
    <3>2. m \in 1 .. n
      BY <3>1, <1>1, <1>3
    <3> QED BY <3>1, <3>2, <1>1, <1>3, <1>7 DEF Order
  <2>3. ASSUME NEW y \in g.live PROVE \E j \in 1 .. g.count : u[j] = y
    <3>1. PICK m \in 1 .. n : o[m] = y
      BY <1>1, <1>3 DEF Order
    <3>2. m # k
      BY <3>1, <1>3
    <3>3. CASE m < k
      <4>1. m \in 0 .. k - 1 /\ m \in 1 .. g.count
        BY <3>3, <1>1, <1>3
      <4> QED BY <4>1, <3>1, <1>5
    <3>4. CASE m > k
      <4>1. m - 1 \in k .. n /\ m - 1 \in 1 .. g.count /\ (m - 1) + 1 = m
        BY <3>4, <1>1, <1>3
      <4> QED BY <4>1, <3>1, <1>5
    <3> QED BY <3>2, <3>3, <3>4, <1>1
  <2>4. \A i, j \in 1 .. g.count : u[i] = u[j] => i = j
    <3> TAKE i, j \in 1 .. g.count
    <3> HAVE u[i] = u[j]
    <3>1. i \in 0 .. n /\ j \in 0 .. n /\ i >= 1 /\ j >= 1 /\ i < n /\ j < n
      BY <1>1, <1>3
    <3>2. PICK m \in 0 .. n + 1 : u[i] = o[m] /\ m # k /\ ((m = i /\ i < k) \/ (m = i + 1 /\ i >= k))
      BY <3>1, <1>6
    <3>3. PICK p \in 0 .. n + 1 : u[j] = o[p] /\ p # k /\ ((p = j /\ j < k) \/ (p = j + 1 /\ j >= k))
      BY <3>1, <1>6
    <3>4. m \in 1 .. n /\ p \in 1 .. n
      BY <3>1, <3>2, <3>3, <1>1
    <3>5. m = p
      BY <3>2, <3>3, <3>4, <1>1 DEF Order
    <3> QED BY <3>1, <3>2, <3>3, <3>5, <1>1
  <2> QED BY <2>1, <2>2, <2>3, <2>4 DEF Order
<1>10. ASSUME NEW j \in 0 .. g.count PROVE Linked(g, u, j)
  <2>1. \A m \in 0 .. n + 1 : o[m] \in Nodes
    BY <1>1, Apart
  <2>2. CASE j = k - 1
    <3>1. u[j] = a /\ u[j + 1] = b
      <4>1. j \in 0 .. k - 1 /\ j + 1 \in k .. n /\ (j + 1) + 1 = k + 1
        BY <2>2, <1>1, <1>3
      <4> QED BY <4>1, <2>2, <1>5
    <3> QED BY <3>1, <1>2, <1>3, <1>4 DEF Linked
  <2>3. CASE j # k - 1
    <3>1. PICK m \in 0 .. n : /\ m # k /\ m # k - 1 /\ u[j] = o[m] /\ u[j + 1] = o[m + 1]
      <4>1. CASE j < k - 1
        <5>1. j \in 0 .. k - 1 /\ j + 1 \in 0 .. k - 1 /\ j \in 0 .. n /\ j # k
          BY <4>1, <1>1, <1>3
        <5> QED BY <5>1, <2>3, <1>5
      <4>2. CASE j >= k
        <5>1. j \in k .. n /\ j + 1 \in k .. n /\ j + 1 \in 0 .. n /\ j + 1 # k /\ j + 1 # k - 1
          BY <4>2, <1>1, <1>3
        <5> QED BY <5>1, <1>5
      <4> QED BY <4>1, <4>2, <2>3, <1>1, <1>3
    <3>2. Linked(r, o, m)
      BY DEF Sound
    <3>3. o[m] # a /\ o[m + 1] # b /\ o[m] # x /\ o[m + 1] # x
      <4>1. m \in 0 .. n /\ k - 1 \in 0 .. n /\ m # k - 1 /\ m + 1 \in 1 .. n + 1 /\ k + 1 \in 1 .. n + 1
            /\ m + 1 # k + 1 /\ m \in 0 .. n + 1 /\ m + 1 \in 0 .. n + 1 /\ m + 1 # k
        BY <3>1, <1>1
      <4>2. o[m] # x /\ o[m + 1] # x
        BY <4>1, <3>1, <1>7
      <4> QED BY <4>1, <4>2, <1>1, Apart
    <3>4. o[m] \in Nodes /\ o[m + 1] \in Nodes
      <4>1. m \in 0 .. n + 1 /\ m + 1 \in 0 .. n + 1
        BY <1>1
      <4> QED BY <4>1, <2>1
    <3>5. g.next[o[m]] = r.next[o[m]] /\ g.prev[o[m + 1]] = r.prev[o[m + 1]]
      BY <3>3, <3>4, <1>2, <1>3, <1>4
    <3> QED BY <3>1, <3>2, <3>5 DEF Linked
  <2> QED BY <2>2, <2>3
<1> QED BY <1>8, <1>9, <1>10 DEF Sound, g, u

Broken(n, i, j, cut) ==
  {i, i + 1, j} \union {k \in 0 .. n : (k < i \/ k > j) /\ k \in cut}
                \union {k \in 0 .. n : i + 1 < k /\ k < j /\ k - 1 \in cut}

\* A move keeps the links but those around the item, before and after.
LEMMA ShiftSound ==
  ASSUME RingAssumption, NEW r, NEW o, NEW i \in 0 .. r.count, NEW j \in 1 .. r.count, i < j,
         NEW cut, Sound(r, o, cut)
  PROVE  Sound(r, Shift(o, r.count, i, j), Broken(r.count, i, j, cut))
<1> DEFINE u == Shift(o, r.count, i, j)
           n == r.count
<1>1. Typed(r) /\ Order(r, o) /\ n \in Nat
  BY Apart DEF Sound
<1>2. \A k \in 0 .. n + 1 : o[k] \in Nodes
  BY <1>1, Apart
<1>3. /\ u \in [0 .. n + 1 -> Nodes]
      /\ \A k \in 0 .. n + 1 : u[k] = IF k = i + 1 THEN o[j]
                                      ELSE IF i + 1 < k /\ k <= j THEN o[k - 1] ELSE o[k]
  <2>1. \A k \in 0 .. n + 1 : i + 1 < k => k - 1 \in 0 .. n + 1
    BY <1>1
  <2>2. j \in 0 .. n + 1
    BY <1>1
  <2> QED BY <2>1, <2>2, <1>1, <1>2 DEF Shift
<1> DEFINE From(k) == IF k = i + 1 THEN j ELSE IF i + 1 < k /\ k <= j THEN k - 1 ELSE k
<1>4. \A k \in 0 .. n + 1 : u[k] = o[From(k)]
  BY <1>3
<1>5. \A k \in 1 .. n : From(k) \in 1 .. n
  BY <1>1
<1>6. \A k, m \in 1 .. n : From(k) = From(m) => k = m
  BY <1>1
<1>7. \A m \in 1 .. n : \E k \in 1 .. n : From(k) = m
  <2> TAKE m \in 1 .. n
  <2>1. CASE m = j
    <3>1. i + 1 \in 1 .. n /\ From(i + 1) = m
      BY <2>1, <1>1
    <3> QED BY <3>1
  <2>2. CASE i + 1 <= m /\ m < j
    <3>1. m + 1 \in 1 .. n /\ From(m + 1) = m
      BY <2>2, <1>1
    <3> QED BY <3>1
  <2>3. CASE m < i + 1 \/ m > j
    <3>1. From(m) = m
      BY <2>3, <1>1
    <3> QED BY <3>1
  <2> QED BY <2>1, <2>2, <2>3, <1>1
<1>8. From(0) = 0 /\ From(n + 1) = n + 1 /\ 0 \in 0 .. n + 1 /\ n + 1 \in 0 .. n + 1
      /\ \A k \in 1 .. n : k \in 0 .. n + 1
  BY <1>1
<1>9. \A k \in 0 .. n : \/ k \in {i, i + 1, j}
                        \/ (k < i \/ k > j) /\ From(k) = k /\ From(k + 1) = k + 1
                        \/ i + 1 < k /\ k < j /\ From(k) = k - 1 /\ From(k + 1) = (k - 1) + 1
  BY <1>1
<1> HIDE DEF u, From
<1>10. Order(r, u)
  <2>1. u[0] = PRing /\ u[n + 1] = PRing
    BY <1>1, <1>4, <1>8 DEF Order
  <2>2. \A k \in 1 .. n : u[k] \in r.live
    BY <1>1, <1>4, <1>5, <1>8 DEF Order
  <2>3. ASSUME NEW x \in r.live PROVE \E k \in 1 .. n : u[k] = x
    <3>1. PICK m \in 1 .. n : o[m] = x
      BY <1>1 DEF Order
    <3>2. PICK k \in 1 .. n : From(k) = m
      BY <1>7
    <3> QED BY <3>1, <3>2, <1>4, <1>8
  <2>4. \A k, m \in 1 .. n : u[k] = u[m] => k = m
    <3> TAKE k, m \in 1 .. n
    <3> HAVE u[k] = u[m]
    <3>1. From(k) \in 1 .. n /\ From(m) \in 1 .. n /\ o[From(k)] = o[From(m)]
      BY <1>4, <1>5, <1>8
    <3>2. From(k) = From(m)
      BY <3>1, <1>1 DEF Order
    <3> QED BY <3>2, <1>6
  <2> QED BY <2>1, <2>2, <2>3, <2>4, <1>3 DEF Order
<1> DEFINE more == Broken(n, i, j, cut)
<1>11. ASSUME NEW k \in 0 .. n, k \notin more PROVE Linked(r, u, k)
  <2>0. k \notin {i, i + 1, j} /\ (k < i \/ k > j => k \notin cut)
        /\ (i + 1 < k /\ k < j => k - 1 \notin cut)
    BY <1>11 DEF Broken
  <2>1. u[k] = o[From(k)] /\ u[k + 1] = o[From(k + 1)] /\ k \notin {i, i + 1, j}
    <3>1. k \in 0 .. n + 1 /\ k + 1 \in 0 .. n + 1
      BY <1>1
    <3> QED BY <3>1, <2>0, <1>4
  <2>2. CASE (k < i \/ k > j) /\ From(k) = k /\ From(k + 1) = k + 1
    <3>1. k \notin cut
      BY <2>2, <2>0
    <3>2. Linked(r, o, k)
      BY <3>1 DEF Sound
    <3> QED BY <2>1, <2>2, <3>2 DEF Linked
  <2>3. CASE i + 1 < k /\ k < j /\ From(k) = k - 1 /\ From(k + 1) = (k - 1) + 1
    <3>1. k - 1 \notin cut /\ k - 1 \in 0 .. n
      BY <2>3, <2>0, <1>1
    <3>2. Linked(r, o, k - 1)
      BY <3>1 DEF Sound
    <3> QED BY <2>1, <2>3, <3>2 DEF Linked
  <2> QED BY <2>1, <2>2, <2>3, <1>9
<1> HIDE DEF more
<1>12. Sound(r, u, more)
  BY <1>1, <1>10, <1>11 DEF Sound
<1> QED BY <1>12 DEF u, more


-----------------------------------------------------------------------------
(* Where some steps lead *)

LEMMA LeastOf ==
  ASSUME NEW T, T \subseteq Nat, T # {}
  PROVE  \E n \in T : \A m \in T : n <= m
<1> DEFINE R == {p \in Nat \X Nat : p[1] < p[2]}
<1>1. IsWellFoundedOn(R, Nat)
  <2>1. R = OpToRel(<, Nat)
    BY DEF OpToRel
  <2> QED BY <2>1, NatLessThanWellFounded
<1>2. PICK n \in T : \A m \in T : ~ (<<m, n>> \in R)
  <2> HIDE DEF R
  <2> QED BY <1>1, WFMin
<1>3. ASSUME NEW m \in T PROVE n <= m
  <2>1. m \in Nat /\ n \in Nat
    OBVIOUS
  <2>2. ~(m < n)
    BY <1>2, <2>1
  <2> QED BY <2>1, <2>2
<1> QED BY <1>3

Follows(g, link, p, n) ==
  g \in [0 .. n -> Nodes] /\ g[0] = p /\ \A k \in 1 .. n : g[k] = link[g[k - 1]]

LEMMA WalkIs ==
  ASSUME NEW link, NEW p, NEW n \in Nat, NEW g, Follows(g, link, p, n)
  PROVE  Advance(link, p, n) = g[n]
<1> USE DEF Follows
<1> DEFINE F(f) == [k \in 0 .. n |-> IF k = 0 THEN p ELSE link[f[k - 1]]]
           at == CHOOSE f : f = F(f)
<1>1. g = F(g)
  <2>1. \A k \in 0 .. n : g[k] = IF k = 0 THEN p ELSE link[g[k - 1]]
    <3> TAKE k \in 0 .. n
    <3>1. k = 0 \/ k \in 1 .. n
      OBVIOUS
    <3> QED BY <3>1
  <2> QED BY <2>1
<1>2. at = F(at)
  BY <1>1
<1>3. \A k \in 0 .. n : at[k] = IF k = 0 THEN p ELSE link[at[k - 1]]
  <2> HIDE DEF at
  <2> QED BY <1>2
<1>4. Advance(link, p, n) = at[n]
  BY DEF Advance
<1> HIDE DEF at
<1>5. ASSUME NEW k \in 0 .. n, at[k] # g[k] PROVE FALSE
  <2> DEFINE T == {m \in 0 .. n : at[m] # g[m]}
  <2>1. PICK m \in T : \A j \in T : m <= j
    <3>1. T \subseteq Nat /\ T # {}
      BY <1>5
    <3> HIDE DEF T
    <3> QED BY <3>1, LeastOf
  <2>2. m # 0
    BY <1>3
  <2>3. m - 1 \in 0 .. n /\ m \in 1 .. n /\ ~(m <= m - 1)
    BY <2>2
  <2>4. at[m - 1] = g[m - 1]
    BY <2>1, <2>3
  <2>5. at[m] = g[m]
    BY <2>2, <2>3, <2>4, <1>3
  <2> QED BY <2>5
<1> QED BY <1>4, <1>5

\* The steps of pnext and of pprevious follow the order.
LEMMA AdvanceIs ==
  ASSUME RingAssumption, NEW r, NEW o, Sound(r, o, {}), NEW f \in 0 .. r.count + 1, NEW n \in Nat
  PROVE  /\ f + n <= r.count + 1 => Advance(r.next, o[f], n) = o[f + n]
         /\ f - n >= 0 => Advance(r.prev, o[f], n) = o[f - n]
<1>1. r.count \in Nat /\ \A k \in 0 .. r.count : Linked(r, o, k)
  BY Apart DEF Sound
<1>2. ASSUME f + n <= r.count + 1 PROVE Advance(r.next, o[f], n) = o[f + n]
  <2> DEFINE g == [k \in 0 .. n |-> o[f + k]]
  <2>1. \A k \in 1 .. n : g[k] = r.next[g[k - 1]]
    <3> TAKE k \in 1 .. n
    <3>1. k - 1 \in 0 .. n /\ f + (k - 1) \in 0 .. r.count /\ (f + (k - 1)) + 1 = f + k
      BY <1>1, <1>2
    <3>2. Linked(r, o, f + (k - 1))
      BY <1>1, <3>1
    <3> QED BY <3>1, <3>2 DEF Linked
  <2>2. g[0] = o[f] /\ g[n] = o[f + n] /\ g \in [0 .. n -> Nodes]
    <3>1. f + 0 = f /\ \A k \in 0 .. n : f + k \in 0 .. r.count + 1
      BY <1>1, <1>2
    <3>2. \A k \in 0 .. n : o[f + k] \in Nodes
      BY <3>1, Apart DEF Sound
    <3> QED BY <3>1, <3>2
  <2> HIDE DEF g
  <2>3. Advance(r.next, o[f], n) = g[n]
    BY <2>1, <2>2, WalkIs DEF Follows
  <2> QED BY <2>2, <2>3
<1>3. ASSUME f - n >= 0 PROVE Advance(r.prev, o[f], n) = o[f - n]
  <2> DEFINE g == [k \in 0 .. n |-> o[f - k]]
  <2>1. \A k \in 1 .. n : g[k] = r.prev[g[k - 1]]
    <3> TAKE k \in 1 .. n
    <3>1. k - 1 \in 0 .. n /\ f - k \in 0 .. r.count /\ (f - k) + 1 = f - (k - 1)
      BY <1>1, <1>3
    <3>2. Linked(r, o, f - k)
      BY <1>1, <3>1
    <3> QED BY <3>1, <3>2 DEF Linked
  <2>2. g[0] = o[f] /\ g[n] = o[f - n] /\ g \in [0 .. n -> Nodes]
    <3>1. f - 0 = f /\ \A k \in 0 .. n : f - k \in 0 .. r.count + 1
      BY <1>1, <1>3
    <3>2. \A k \in 0 .. n : o[f - k] \in Nodes
      BY <3>1, Apart DEF Sound
    <3> QED BY <3>1, <3>2
  <2> HIDE DEF g
  <2>3. Advance(r.prev, o[f], n) = g[n]
    BY <2>1, <2>2, WalkIs, SMTT(30) DEF Follows
  <2> QED BY <2>2, <2>3
<1> QED BY <1>2, <1>3

\* netwib_debug_ring_check finds a sound ring sound.
LEMMA SoundChecked ==
  ASSUME RingAssumption, NEW r, NEW o, Sound(r, o, {})
  PROVE  /\ RingCheck(r)
         /\ {ItemsOf(r)[k] : k \in 1 .. r.count} = r.live
         /\ Cardinality(r.live) = r.count
<1> DEFINE n == r.count
           i == ItemsOf(r)
           s == <<PRing>> \o i \o <<PRing>>
<1>1. Typed(r) /\ Order(r, o) /\ n \in Nat /\ \A k \in 0 .. n : Linked(r, o, k)
  BY Apart DEF Sound
<1>2. i = [k \in 1 .. n |-> o[k]]
  <2>1. ASSUME NEW k \in 1 .. n PROVE Advance(r.next, PRing, k) = o[k]
    <3>1. k \in Nat /\ 0 + k <= n + 1 /\ 0 + k = k /\ 0 \in 0 .. n + 1
      BY <1>1
    <3>2. o[0] = PRing
      BY <1>1 DEF Order
    <3>3. Advance(r.next, o[0], k) = o[0 + k]
      BY <3>1, AdvanceIs
    <3> QED BY <3>1, <3>2, <3>3
  <2> QED BY <2>1 DEF ItemsOf
<1>3. i \in Seq(Nodes) /\ Len(i) = n
  <2>1. \A k \in 1 .. n : o[k] \in Nodes
    BY <1>1 DEF Order
  <2>2. i \in [1 .. n -> Nodes]
    BY <1>2, <2>1
  <2> HIDE DEF i
  <2> QED BY <2>2, <1>1
<1>4. {i[k] : k \in 1 .. n} = r.live
  <2>1. \A k \in 1 .. n : i[k] = o[k]
    BY <1>2
  <2> HIDE DEF i
  <2> QED BY <2>1, <1>1 DEF Order
<1>5. Cardinality(r.live) = n
  <2> DEFINE f == [k \in 1 .. n |-> o[k]]
  <2>1. f \in Bijection(1 .. n, r.live)
    <3>1. f \in [1 .. n -> r.live] /\ \A x \in r.live : \E k \in 1 .. n : f[k] = x
      BY <1>1 DEF Order
    <3>2. \A j, k \in 1 .. n : f[j] = f[k] => j = k
      BY <1>1 DEF Order
    <3> HIDE DEF f
    <3>3. f \in Injection(1 .. n, r.live)
      BY <3>1, <3>2, Fun_IsInj
    <3>4. f \in Surjection(1 .. n, r.live)
      BY <3>1, Fun_IsSurj
    <3> QED BY <3>3, <3>4 DEF Bijection
  <2>2. IsFiniteSet(1 .. n) /\ Cardinality(1 .. n) = n
    <3>1. Cardinality(1 .. n) = IF 1 > n THEN 0 ELSE n - 1 + 1
      BY <1>1, FS_Interval
    <3>2. IsFiniteSet(1 .. n)
      BY <1>1, FS_Interval
    <3> QED BY <3>1, <3>2, <1>1
  <2> HIDE DEF f
  <2> QED BY <2>1, <2>2, FS_Bijection DEF ExistsBijection
<1>6. \A k \in 1 .. n + 2 : s[k] = o[k - 1]
  <2> HIDE DEF i
  <2>1. PRing \in Nodes
    BY DEF Nodes
  <2>2. <<PRing>> \in Seq(Nodes)
    BY <2>1
  <2>3. <<PRing>> \o i \in Seq(Nodes) /\ Len(<<PRing>> \o i) = n + 1
        /\ \A k \in 1 .. n + 1 : (<<PRing>> \o i)[k] = IF k = 1 THEN PRing ELSE i[k - 1]
    BY <2>1, <2>2, <1>1, <1>3
  <2> DEFINE h == <<PRing>> \o i
  <2>4. \A k \in 1 .. n + 2 : s[k] = IF k <= n + 1 THEN h[k] ELSE PRing
    <3> HIDE DEF h
    <3>1. s = h \o <<PRing>>
      BY DEF h
    <3>2. h \in Seq(Nodes) /\ Len(h) = n + 1
      BY <2>3 DEF h
    <3> QED BY <3>1, <3>2, <2>2, <1>1
  <2> TAKE k \in 1 .. n + 2
  <2>5. CASE k = 1
    BY <2>5, <2>3, <2>4, <1>1 DEF Order
  <2>6. CASE k = n + 2
    <3>1. k - 1 = n + 1 /\ ~(k <= n + 1)
      BY <2>6, <1>1
    <3> QED BY <3>1, <2>4, <1>1 DEF Order
  <2>7. CASE 1 < k /\ k < n + 2
    <3>1. k \in 1 .. n + 1 /\ k - 1 \in 1 .. n /\ k # 1
      BY <2>7, <1>1
    <3>2. i[k - 1] = o[k - 1]
      BY <3>1, <1>2
    <3> QED BY <3>1, <3>2, <2>3, <2>4
  <2>8. k = 1 \/ k = n + 2 \/ (1 < k /\ k < n + 2)
    BY <1>1
  <2> QED BY ONLY <2>5, <2>6, <2>7, <2>8
<1>7. RingCheck(r)
  <2> HIDE DEF s, i
  <2>1. ASSUME NEW k \in 1 .. n + 1
        PROVE  r.next[s[k]] = s[k + 1] /\ r.prev[s[k + 1]] = s[k]
    <3>1. k \in 1 .. n + 2 /\ k + 1 \in 1 .. n + 2 /\ (k + 1) - 1 = (k - 1) + 1 /\ k - 1 \in 0 .. n
      BY <1>1
    <3>2. Linked(r, o, k - 1)
      BY <1>1, <3>1
    <3> QED BY <3>1, <3>2, <1>6 DEF Linked
  <2> QED BY <2>1 DEF RingCheck, s, i
<1> QED BY <1>4, <1>5, <1>7


-----------------------------------------------------------------------------
(* The items that are ahead of a place, and what an edit does to them *)

Ahead(r, o, p) ==
  {x \in r.live : \E k \in 0 .. r.count, m \in 1 .. r.count : o[k] = p /\ o[m] = x /\ k < m}
FromOn(r, o, p) == IF p = PRing THEN {} ELSE {p} \union Ahead(r, o, p)

\* The two rings have their common items in the same order.
Keeps(r, o, g, u) ==
  \A p \in (r.live \intersect g.live) \union {PRing}, x \in r.live \intersect g.live :
    x \in Ahead(g, u, p) <=> x \in Ahead(r, o, p)

LEMMA AheadAt ==
  ASSUME RingAssumption, NEW r, NEW o, Typed(r), Order(r, o)
  PROVE  /\ \A k \in 0 .. r.count, m \in 1 .. r.count : o[m] \in Ahead(r, o, o[k]) <=> k < m
         /\ \A k \in 0 .. r.count : \A x \in Ahead(r, o, o[k]) :
              \E m \in 1 .. r.count : o[m] = x /\ k < m
         /\ \A k \in 0 .. r.count : FromOn(r, o, o[k + 1]) = Ahead(r, o, o[k])
         /\ Ahead(r, o, PRing) = r.live
<1>1. r.count \in Nat /\ PRing \notin r.live /\ o[0] = PRing
  BY Apart DEF Typed, Order, RingAssumption, RingLinksAssumption
<1>2. ASSUME NEW k \in 0 .. r.count, NEW m \in 1 .. r.count
      PROVE  o[m] \in Ahead(r, o, o[k]) <=> k < m
  <2>1. ASSUME o[m] \in Ahead(r, o, o[k]) PROVE k < m
    <3>1. PICK j \in 0 .. r.count, i \in 1 .. r.count : o[j] = o[k] /\ o[i] = o[m] /\ j < i
      BY <2>1 DEF Ahead
    <3>2. i \in 0 .. r.count /\ m \in 0 .. r.count
      BY <1>1
    <3>3. j = k /\ i = m
      BY <3>1, <3>2, Apart
    <3> QED BY <3>1, <3>3
  <2>2. ASSUME k < m PROVE o[m] \in Ahead(r, o, o[k])
    BY <2>2 DEF Ahead, Order
  <2> QED BY <2>1, <2>2
<1>3. ASSUME NEW k \in 0 .. r.count, NEW x \in Ahead(r, o, o[k])
      PROVE  \E m \in 1 .. r.count : o[m] = x /\ k < m
  <2>1. PICK j \in 0 .. r.count, m \in 1 .. r.count : o[j] = o[k] /\ o[m] = x /\ j < m
    BY DEF Ahead
  <2>2. j = k
    BY <2>1, Apart
  <2> QED BY <2>1, <2>2
<1>4. ASSUME NEW k \in 0 .. r.count PROVE FromOn(r, o, o[k + 1]) = Ahead(r, o, o[k])
  <2>1. CASE k = r.count
    <3>1. o[k + 1] = PRing
      BY <2>1 DEF Order
    <3>2. ASSUME NEW x \in Ahead(r, o, o[k]) PROVE FALSE
      BY <1>1, <1>3, <2>1
    <3> QED BY <3>1, <3>2 DEF FromOn
  <2>2. CASE k # r.count
    <3>1. k + 1 \in 1 .. r.count /\ k + 1 \in 0 .. r.count /\ k < k + 1
      BY <2>2, <1>1
    <3>2. o[k + 1] # PRing
      BY <3>1, <1>1 DEF Order
    <3>3. o[k + 1] \in Ahead(r, o, o[k])
      BY <3>1, <1>2
    <3>4. ASSUME NEW x \in Ahead(r, o, o[k + 1]) PROVE x \in Ahead(r, o, o[k])
      <4>1. PICK m \in 1 .. r.count : o[m] = x /\ k + 1 < m
        BY <3>1, <1>3
      <4>2. k < m
        BY <4>1, <1>1
      <4> QED BY <4>1, <4>2, <1>2
    <3>5. ASSUME NEW x \in Ahead(r, o, o[k]), x # o[k + 1] PROVE x \in Ahead(r, o, o[k + 1])
      <4>1. PICK m \in 1 .. r.count : o[m] = x /\ k < m
        BY <1>3
      <4>2. k + 1 < m
        BY <4>1, <3>5, <1>1
      <4> QED BY <4>1, <4>2, <3>1, <1>2
    <3> QED BY <3>2, <3>3, <3>4, <3>5 DEF FromOn
  <2> QED BY <2>1, <2>2
<1>5. Ahead(r, o, PRing) = r.live
  <2>1. ASSUME NEW x \in r.live PROVE x \in Ahead(r, o, PRing)
    <3>1. PICK m \in 1 .. r.count : o[m] = x
      BY DEF Order
    <3>2. 0 \in 0 .. r.count /\ 0 < m
      BY <1>1
    <3> QED BY <3>1, <3>2, <1>1 DEF Ahead
  <2> QED BY <2>1 DEF Ahead
<1> QED BY <1>2, <1>3, <1>4, <1>5

LEMMA EmbeddedKeeps ==
  ASSUME RingAssumption, NEW r, NEW o, Typed(r), Order(r, o), NEW g, NEW u, Typed(g), Order(g, u),
         NEW f \in [0 .. r.count -> 0 .. g.count],
         \A m \in 0 .. r.count : o[m] \in g.live \union {PRing} => u[f[m]] = o[m],
         \A j, m \in 0 .. r.count :
           o[j] \in g.live \union {PRing} /\ o[m] \in g.live \union {PRing} => (j < m <=> f[j] < f[m])
  PROVE  Keeps(r, o, g, u)
<1>1. r.count \in Nat /\ g.count \in Nat /\ PRing \notin r.live /\ PRing \notin g.live
      /\ o[0] = PRing /\ u[0] = PRing
  BY Apart DEF Typed, Order, RingAssumption, RingLinksAssumption
<1>2. ASSUME NEW p \in (r.live \intersect g.live) \union {PRing}, NEW x \in r.live \intersect g.live
      PROVE  x \in Ahead(g, u, p) <=> x \in Ahead(r, o, p)
  <2>1. PICK k \in 0 .. r.count : o[k] = p
    BY Apart
  <2>2. PICK m \in 1 .. r.count : o[m] = x
    BY DEF Order
  <2>3. m \in 0 .. r.count
    BY <1>1
  <2>4. u[f[k]] = p /\ u[f[m]] = x /\ (k < m <=> f[k] < f[m])
    BY <2>1, <2>2, <2>3
  <2>5. f[k] \in 0 .. g.count /\ f[m] \in 0 .. g.count
    BY <2>3
  <2>6. f[m] \in 1 .. g.count
    <3>1. f[m] # 0
      BY <2>4, <1>1
    <3> QED BY <3>1, <2>5, <1>1
  <2>7. x \in Ahead(r, o, p) <=> k < m
    BY <2>1, <2>2, AheadAt
  <2>8. x \in Ahead(g, u, p) <=> f[k] < f[m]
    BY <2>4, <2>5, <2>6, AheadAt
  <2> QED BY <2>4, <2>7, <2>8
<1> QED BY <1>2 DEF Keeps

\* A new item, whatever is linked around it, does not change the order.
LEMMA InsertKeeps ==
  ASSUME RingAssumption, NEW r, NEW o, Typed(r), Order(r, o), NEW k \in 0 .. r.count, NEW x \in Items,
         x \notin r.live,
         NEW g, Typed(g), g.live = r.live \union {x}, g.count = r.count + 1,
         Order(g, Insert(o, r.count, k, x))
  PROVE  /\ Keeps(r, o, g, Insert(o, r.count, k, x))
         /\ \A j \in 0 .. k : Insert(o, r.count, k, x)[j] = o[j]
         /\ Insert(o, r.count, k, x)[k + 1] = x
         /\ \A j \in k + 2 .. r.count + 2 : Insert(o, r.count, k, x)[j] = o[j - 1]
<1> DEFINE n == r.count
           u == Insert(o, n, k, x)
           f == [m \in 0 .. n |-> IF m <= k THEN m ELSE m + 1]
<1>1. n \in Nat
  BY Apart
<1>2. /\ \A j \in 0 .. k : u[j] = o[j]
      /\ u[k + 1] = x
      /\ \A j \in k + 2 .. n + 2 : u[j] = o[j - 1]
  BY <1>1 DEF Insert
<1>3. f \in [0 .. n -> 0 .. g.count]
  BY <1>1
<1>4. \A m \in 0 .. n : u[f[m]] = o[m]
  <2> TAKE m \in 0 .. n
  <2>1. CASE m <= k
    BY <2>1, <1>1, <1>2
  <2>2. CASE m > k
    <3>1. f[m] = m + 1 /\ m + 1 \in k + 2 .. n + 2 /\ (m + 1) - 1 = m
      BY <2>2, <1>1
    <3> QED BY <3>1, <1>2
  <2> QED BY <2>1, <2>2, <1>1
<1>5. \A j, m \in 0 .. n : j < m <=> f[j] < f[m]
  BY <1>1
<1> HIDE DEF u, f
<1>6. Keeps(r, o, g, u)
  BY <1>3, <1>4, <1>5, EmbeddedKeeps DEF u
<1> QED BY <1>2, <1>6 DEF u

LEMMA RemoveKeeps ==
  ASSUME RingAssumption, NEW r, NEW o, Typed(r), Order(r, o), NEW k \in 1 .. r.count,
         NEW g, Typed(g), g.live = r.live \ {o[k]}, g.count = r.count - 1,
         Order(g, Remove(o, r.count, k))
  PROVE  /\ Keeps(r, o, g, Remove(o, r.count, k))
         /\ \A j \in 0 .. k - 1 : Remove(o, r.count, k)[j] = o[j]
         /\ \A j \in k .. r.count : Remove(o, r.count, k)[j] = o[j + 1]
<1> DEFINE n == r.count
           u == Remove(o, n, k)
           f == [m \in 0 .. n |-> IF m < k THEN m ELSE m - 1]
<1>1. n \in Nat /\ PRing \notin r.live
  BY Apart DEF Typed, RingAssumption, RingLinksAssumption
<1>2. /\ \A j \in 0 .. k - 1 : u[j] = o[j]
      /\ \A j \in k .. n : u[j] = o[j + 1]
  BY <1>1 DEF Remove
<1>3. f \in [0 .. n -> 0 .. g.count]
  BY <1>1
<1>4. \A m \in 0 .. n : o[m] \in g.live \union {PRing} => m # k
  <2>1. o[k] \in r.live
    BY DEF Order
  <2> QED BY <2>1, <1>1
<1>5. \A m \in 0 .. n : m # k => u[f[m]] = o[m]
  <2> TAKE m \in 0 .. n
  <2> HAVE m # k
  <2>1. CASE m < k
    BY <2>1, <1>1, <1>2
  <2>2. CASE m > k
    <3>1. f[m] = m - 1 /\ m - 1 \in k .. n /\ (m - 1) + 1 = m
      BY <2>2, <1>1
    <3> QED BY <3>1, <1>2
  <2> QED BY <2>1, <2>2, <1>1
<1>6. \A j, m \in 0 .. n : j # k /\ m # k => (j < m <=> f[j] < f[m])
  BY <1>1
<1> HIDE DEF u, f
<1>7. Keeps(r, o, g, u)
  <2>1. Order(g, u)
    BY DEF u
  <2>2. \A m \in 0 .. n : o[m] \in g.live \union {PRing} => u[f[m]] = o[m]
    BY <1>4, <1>5
  <2>3. \A j, m \in 0 .. n :
          o[j] \in g.live \union {PRing} /\ o[m] \in g.live \union {PRing} => (j < m <=> f[j] < f[m])
    BY <1>4, <1>6
  <2> QED BY <2>1, <2>2, <2>3, <1>3, EmbeddedKeeps
<1> QED BY <1>2, <1>7 DEF u


-----------------------------------------------------------------------------
(* Where an index stands, and what its walk still owes *)

IndexType == [cur : Items \union {Null}, nxt : Nodes \union {Null}, prv : Nodes \union {Null}]
WalkType == [due : SUBSET Items, met : SUBSET Items, missed : SUBSET Items,
             again : BOOLEAN, afterdel : BOOLEAN, void : BOOLEAN]

\* The pointers that the next call may read are those of items of the ring.
Standing(r, ix) ==
  /\ ix.cur \in r.live \union {Null}
  /\ ix.cur = Null => {ix.nxt, ix.prv} \subseteq r.live \union {PRing, Null}
  /\ ix.cur # Null => ix.nxt \notin {ix.cur, Null} /\ ix.prv \notin {ix.cur, Null}

\* The items that a walk may still meet.
Rest(r, o, ix) ==
  IF ix.cur # Null THEN Ahead(r, o, ix.cur)
  ELSE IF ix.nxt # Null THEN FromOn(r, o, ix.nxt) ELSE r.live

\* What a walk owes is ahead of it, and what it met is not.
Owes(w, S) == w.due \subseteq S /\ w.met \intersect S = {}

WalkOK(r, o, ix, w) ==
  /\ w.met \subseteq r.live /\ Owes(w, Rest(r, o, ix))
  /\ ix.cur # Null /\ ix.nxt \in r.live \union {PRing} => Owes(w, FromOn(r, o, ix.nxt))
  /\ w.void => w.due = {} /\ w.met = {}
  /\ w.missed = {} /\ ~w.again

\* A walk without promises is right wherever its index stands.
LEMMA VoidWalk ==
  ASSUME NEW r, NEW o, NEW ix, NEW w, w.due = {}, w.met = {}, w.missed = {}, ~w.again
  PROVE  WalkOK(r, o, ix, w)
BY DEF WalkOK, Owes

LEMMA RestLive ==
  ASSUME NEW r, NEW o, NEW ix, Standing(r, ix)
  PROVE  Rest(r, o, ix) \subseteq r.live
BY DEF Rest, FromOn, Ahead, Standing

\* An edit that keeps the order keeps the walks, without the deleted items.
LEMMA WalkKept ==
  ASSUME RingAssumption, NEW r, NEW o, NEW g, NEW u, Keeps(r, o, g, u),
         Typed(r), Order(r, o), Typed(g), Order(g, u),
         NEW ix, Standing(r, ix), Standing(g, ix), ix.nxt \in g.live => ix.nxt \in r.live,
         NEW w, WalkOK(r, o, ix, w),
         NEW v, v.due = w.due \ (r.live \ g.live), v.met = w.met \ (r.live \ g.live),
         v.void = w.void, v.missed = {}, ~v.again
  PROVE  WalkOK(g, u, ix, v)
<1>1. PRing # Null /\ PRing \notin r.live /\ PRing \notin g.live /\ Null \notin r.live /\ Null \notin g.live
  BY DEF Typed, RingAssumption, RingLinksAssumption
<1>2. w.met \subseteq r.live /\ w.due \subseteq r.live
  BY RestLive DEF WalkOK, Owes
<1>3. v.met \subseteq r.live \intersect g.live /\ v.due \subseteq r.live \intersect g.live
  BY <1>2
<1>4. ASSUME NEW p \in (r.live \intersect g.live) \union {PRing}, Owes(w, Ahead(r, o, p))
      PROVE  Owes(v, Ahead(g, u, p))
  BY <1>3, <1>4 DEF Owes, Keeps
<1>5. ASSUME NEW p \in (r.live \intersect g.live) \union {PRing}, Owes(w, FromOn(r, o, p))
      PROVE  Owes(v, FromOn(g, u, p))
  <2>1. CASE p = PRing
    BY <2>1, <1>5 DEF Owes, FromOn
  <2>2. CASE p # PRing
    BY <2>2, <1>3, <1>5 DEF Owes, FromOn, Keeps
  <2> QED BY <2>1, <2>2
<1>6. Owes(v, Rest(g, u, ix))
  <2>1. CASE ix.cur # Null
    <3>1. ix.cur \in r.live \intersect g.live /\ Owes(w, Ahead(r, o, ix.cur))
      BY <2>1 DEF Standing, WalkOK, Rest
    <3> QED BY <3>1, <2>1, <1>4 DEF Rest
  <2>2. CASE ix.cur = Null /\ ix.nxt # Null
    <3>1. ix.nxt \in (r.live \intersect g.live) \union {PRing} /\ Owes(w, FromOn(r, o, ix.nxt))
      BY <2>2 DEF Standing, WalkOK, Rest
    <3> QED BY <3>1, <2>2, <1>5 DEF Rest
  <2>3. CASE ix.cur = Null /\ ix.nxt = Null
    <3>1. Rest(g, u, ix) = g.live /\ Owes(w, r.live)
      BY <2>3 DEF Rest, WalkOK
    <3> QED BY <3>1, <1>2, <1>3 DEF Owes
  <2> QED BY <2>1, <2>2, <2>3
<1>7. ix.cur # Null /\ ix.nxt \in g.live \union {PRing} => Owes(v, FromOn(g, u, ix.nxt))
  <2> HAVE ix.cur # Null /\ ix.nxt \in g.live \union {PRing}
  <2>1. ix.nxt \in (r.live \intersect g.live) \union {PRing}
    OBVIOUS
  <2>2. Owes(w, FromOn(r, o, ix.nxt))
    BY <2>1 DEF WalkOK
  <2> QED BY <2>1, <2>2, <1>5
<1>8. v.void => v.due = {} /\ v.met = {}
  BY DEF WalkOK
<1> QED BY <1>3, <1>6, <1>7, <1>8 DEF WalkOK

-----------------------------------------------------------------------------
(* The jobs, and the inductive invariant *)

DeleteJob(r, o, j) ==
  /\ j = [op |-> "delete", at |-> j.at]
  /\ Sound(r, o, {}) /\ \E k \in 0 .. r.count : j.at = o[k]

CompareJob(r, o, j) ==
  /\ j = [op |-> j.op, a |-> j.a, b |-> j.b, before |-> j.before]
  /\ j.op \in {"duplicate", "group"}
  /\ Sound(r, o, {}) /\ \E i, k \in 1 .. r.count : i <= k /\ j.a = o[i] /\ j.b = o[k]

\* The items in place, those of the two half rings, and the others.  A link is
\* broken before the first half ring, and before the second one if there was one.
Halves(r, o, j, a) ==
  /\ a + j.n1 + j.n2 + j.todo = r.count
  /\ j.sorted = o[a]
  /\ j.n1 > 0 => j.p1 = o[a + 1] /\ j.last1 = o[a + j.n1]
  /\ j.n2 > 0 => j.p2 # Null /\ j.p2 = o[a + j.n1 + 1]
  /\ j.n2 = 0 /\ j.n1 > 0 /\ j.p2 # Null => j.end = o[a + j.n1 + 1]
  /\ Sound(r, o, IF j.n1 = 0 /\ j.n2 = 0 THEN {}
                 ELSE IF j.p2 = Null THEN {a} ELSE {a, a + j.n1})

SortFields ==
  {"op", "half", "todo", "sorted", "p1", "n1", "last1", "p2", "n2", "end", "before"}
SortRecord(j) == j = [f \in SortFields |-> j[f]] /\ j.op = "sort"

SortJob(r, o, j) ==
  /\ SortRecord(j)
  /\ j.half \in Nat \ {0} /\ j.n1 \in Nat /\ j.n2 \in Nat /\ j.todo \in Nat
  /\ \E a \in 0 .. r.count : Halves(r, o, j, a)

\* The items from place on were added; the link after the last one is broken.
RingJob(r, o, j) ==
  /\ j = [op |-> "ring", i |-> j.i, place |-> j.place, at |-> j.at, end |-> j.end,
          before |-> j.before]
  /\ \E p, k \in 0 .. r.count :
       /\ p <= k /\ j.place = o[p] /\ j.at = o[k] /\ j.end = o[k + 1]
       /\ Sound(r, o, IF p = k THEN {} ELSE {k})

JobOK(r, o, j) ==
  \/ j = NoJob /\ Sound(r, o, {})
  \/ DeleteJob(r, o, j) \/ CompareJob(r, o, j) \/ SortJob(r, o, j) \/ RingJob(r, o, j)

RingTypes ==
  /\ spare \subseteq Items \ ring.live
  /\ index \in [Indexes -> IndexType] /\ walk \in [Indexes -> WalkType]
  /\ job.op = "ring" => job.i \in Indexes
  /\ fault \in BOOLEAN

IndexHeld(r, o, i) ==
  /\ Standing(r, index[i]) /\ WalkOK(r, o, index[i], walk[i])
  /\ index[i].nxt \notin spare /\ index[i].prv \notin spare

\* What the index i will walk after the place at which items are added.
PlaceHeld(r, o, i, p) ==
  /\ index[i].cur # Null => index[i].cur = p
  /\ PastThePlace(i) \/ Owes(walk[i], Ahead(r, o, p))

Held(o) ==
  /\ ~fault
  /\ \A i \in Indexes : IndexHeld(ring, o, i)
  /\ job.op = "ring" => PlaceHeld(ring, o, job.i, job.place)
  /\ job.op \in {"group", "sort"} => \A i \in Indexes : walk[i].void

\* The order of the items, and with the rules that are enough where the walks are.
RingInv ==
  RingTypes /\ \E o : JobOK(ring, o, job) /\ (~AsDocumented => Held(o))

-----------------------------------------------------------------------------
(* Records *)

LEMMA OrderIs ==
  ASSUME RingAssumption, NEW r, NEW o, NEW j, JobOK(r, o, j)
  PROVE  /\ Typed(r) /\ Order(r, o) /\ r.count \in Nat
         /\ j.op \in {"none", "delete", "duplicate", "group", "sort", "ring"}
         /\ j = NoJob <=> j.op = "none"
         /\ j.op = "none" => Sound(r, o, {})
         /\ j.op = "delete" <=> DeleteJob(r, o, j)
         /\ j.op \in {"duplicate", "group"} <=> CompareJob(r, o, j)
         /\ j.op = "sort" <=> SortJob(r, o, j)
         /\ j.op = "ring" <=> RingJob(r, o, j)
<1>1. /\ DeleteJob(r, o, j) => j.op = "delete"
      /\ CompareJob(r, o, j) => j.op \in {"duplicate", "group"}
      /\ SortJob(r, o, j) => j.op = "sort"
      /\ RingJob(r, o, j) => j.op = "ring"
      /\ j = NoJob => j.op = "none"
  BY DEF NoJob, DeleteJob, CompareJob, SortJob, SortRecord, RingJob
<1>2. \/ j = NoJob /\ j.op = "none" /\ Sound(r, o, {})
      \/ DeleteJob(r, o, j) \/ CompareJob(r, o, j) \/ SortJob(r, o, j) \/ RingJob(r, o, j)
  BY <1>1 DEF JobOK
<1>3. Typed(r) /\ Order(r, o)
  BY <1>2 DEF Sound, DeleteJob, CompareJob, SortJob, RingJob, Halves
<1>4. r.count \in Nat
  BY <1>3, Apart
<1> QED BY <1>1, <1>2, <1>3, <1>4

LEMMA VoidedIs ==
  ASSUME NEW w \in WalkType
  PROVE  /\ Voided(w) \in WalkType /\ Voided(w).due = {} /\ Voided(w).met = {}
         /\ Voided(w).missed = {} /\ ~Voided(w).again /\ Voided(w).void
BY DEF Voided, WalkOver, WalkType

LEMMA WithoutIs ==
  ASSUME NEW w \in WalkType, NEW S
  PROVE  /\ Without(w, S) \in WalkType
         /\ Without(w, S).due = w.due \ S /\ Without(w, S).met = w.met \ S
         /\ Without(w, S).missed = w.missed /\ Without(w, S).again = w.again
         /\ Without(w, S).void = w.void
BY DEF Without, WalkType

LEMMA MetIs ==
  ASSUME NEW w \in WalkType, NEW S \in SUBSET Items
  PROVE  /\ Met(w, S) \in WalkType
         /\ Met(w, S).due = w.due \ S
         /\ Met(w, S).met = (IF w.void THEN {} ELSE w.met \union S)
         /\ Met(w, S).missed = w.missed /\ Met(w, S).void = w.void
         /\ (Met(w, S).again <=> w.again \/ w.met \intersect S # {})
BY DEF Met, WalkType


-----------------------------------------------------------------------------
(* What an edit leaves of the places and of the walks of the indexes *)

\* They depend on the order of the items, not on the links.
LEMMA SameWalks ==
  ASSUME NEW r, NEW g, g.live = r.live, g.count = r.count, NEW o
  PROVE  /\ \A p : Ahead(g, o, p) = Ahead(r, o, p) /\ FromOn(g, o, p) = FromOn(r, o, p)
         /\ \A ix : Standing(g, ix) <=> Standing(r, ix)
         /\ \A ix, w : WalkOK(g, o, ix, w) <=> WalkOK(r, o, ix, w)
<1>1. \A p : Ahead(g, o, p) = Ahead(r, o, p)
  BY DEF Ahead
<1>2. \A p : FromOn(g, o, p) = FromOn(r, o, p)
  BY <1>1 DEF FromOn
<1>3. \A ix : Rest(g, o, ix) = Rest(r, o, ix)
  BY <1>1, <1>2 DEF Rest
<1>4. \A ix : Standing(g, ix) <=> Standing(r, ix)
  BY DEF Standing
<1>5. \A ix, w : WalkOK(g, o, ix, w) <=> WalkOK(r, o, ix, w)
  BY <1>2, <1>3 DEF WalkOK
<1> QED BY <1>1, <1>2, <1>4, <1>5

\* A new item hides none of those ahead of the place after which it is added.
LEMMA InsertHeld ==
  ASSUME RingAssumption, NEW r, NEW o, Typed(r), Order(r, o), NEW k \in 0 .. r.count,
         NEW x \in Items, x \notin r.live,
         NEW g, Typed(g), g.live = r.live \union {x}, g.count = r.count + 1,
         NEW u, u = Insert(o, r.count, k, x), Order(g, u)
  PROVE  /\ \A ix, w : Standing(r, ix) /\ WalkOK(r, o, ix, w) /\ ix.nxt # x
                         => Standing(g, ix) /\ WalkOK(g, u, ix, w)
         /\ FromOn(g, u, x) = Ahead(g, u, o[k])
         /\ \A w : \A p \in r.live \union {PRing} :
              w.met \subseteq r.live /\ Owes(w, Ahead(r, o, p)) => Owes(w, Ahead(g, u, p))
<1>1. /\ Keeps(r, o, g, u) /\ u[k] = o[k] /\ u[k + 1] = x
  BY InsertKeeps
<1>2. r.count \in Nat /\ Null # x
  BY Apart DEF RingAssumption, RingLinksAssumption
<1>3. ASSUME NEW ix, NEW w, Standing(r, ix), WalkOK(r, o, ix, w), ix.nxt # x
      PROVE  Standing(g, ix) /\ WalkOK(g, u, ix, w)
  <2>1. Standing(g, ix)
    BY <1>3 DEF Standing
  <2>2. w.missed = {} /\ ~w.again
    BY <1>3 DEF WalkOK
  <2>3. w.due = w.due \ (r.live \ g.live) /\ w.met = w.met \ (r.live \ g.live)
    OBVIOUS
  <2>4. ix.nxt \in g.live => ix.nxt \in r.live
    BY <1>3
  <2> QED BY <2>1, <2>2, <2>3, <2>4, <1>1, <1>3, WalkKept
<1>4. FromOn(g, u, x) = Ahead(g, u, o[k])
  <2>1. k \in 0 .. g.count
    BY <1>2
  <2> QED BY <2>1, <1>1, AheadAt
<1>5. ASSUME NEW w, NEW p \in r.live \union {PRing}, w.met \subseteq r.live, Owes(w, Ahead(r, o, p))
      PROVE  Owes(w, Ahead(g, u, p))
  <2>1. Ahead(r, o, p) \subseteq r.live
    BY DEF Ahead
  <2> QED BY <2>1, <1>1, <1>5 DEF Owes, Keeps
<1> QED BY <1>3, <1>4, <1>5

\* A deleted item leaves alone the indexes that do not note it, or are not going to use it.
LEMMA RemoveHeld ==
  ASSUME RingAssumption, NEW r, NEW o, Typed(r), Order(r, o), NEW k \in 1 .. r.count,
         NEW g, Typed(g), g.live = r.live \ {o[k]}, g.count = r.count - 1,
         NEW u, u = Remove(o, r.count, k), Order(g, u),
         NEW ix, NEW w, Standing(r, ix), WalkOK(r, o, ix, w),
         ix.cur # o[k], ix.cur = Null => o[k] \notin {ix.nxt, ix.prv},
         NEW v, v.due = w.due \ {o[k]}, v.met = w.met \ {o[k]}, v.void = w.void,
         v.missed = w.missed, v.again = w.again
  PROVE  Standing(g, ix) /\ WalkOK(g, u, ix, v)
<1>1. Keeps(r, o, g, u)
  BY RemoveKeeps
<1>2. o[k] \in r.live
  BY DEF Order
<1>3. r.live \ g.live = {o[k]}
  BY <1>2
<1>4. Standing(g, ix)
  BY DEF Standing
<1>5. v.missed = {} /\ ~v.again
  BY DEF WalkOK
<1> QED BY <1>1, <1>3, <1>4, <1>5, WalkKept


-----------------------------------------------------------------------------
(* An item is added *)

LEMMA InsertAfterIs ==
  ASSUME RingAssumption, NEW r, NEW o, Sound(r, o, {}), NEW k \in 0 .. r.count,
         NEW x \in Items, x \notin r.live, r.count < Full
  PROVE  LET g == InsertAfter(r, o[k], x)
             u == Insert(o, r.count, k, x)
         IN  /\ Sound(g, u, {}) /\ Typed(g) /\ Order(g, u)
             /\ g.live = r.live \union {x} /\ g.count = r.count + 1
<1> DEFINE h == Allocated(Link(r, o[k], x), x)
           u == Insert(o, r.count, k, x)
           g == Link(h, x, r.next[o[k]])
<1>1. Typed(r) /\ Order(r, o) /\ r.count \in Nat
  BY Apart DEF Sound
<1>2. Sound(r, o, {k})
  BY Weaker
<1>3. Sound(h, u, {k + 1})
  BY <1>2, InsertSound
<1>4. h.live = r.live \union {x} /\ h.count = r.count + 1
  BY DEF Allocated, Link
<1>5. r.next[o[k]] = o[k + 1]
  BY DEF Sound, Linked
<1>6. u[k + 1] = x /\ u[(k + 1) + 1] = o[k + 1]
  <2>1. k + 1 \in 0 .. r.count + 2 /\ k + 2 \in 0 .. r.count + 2 /\ (k + 1) + 1 = k + 2
        /\ (k + 2) - 1 = k + 1 /\ ~(k + 1 <= k) /\ ~(k + 2 <= k) /\ k + 2 # k + 1
    BY <1>1
  <2> QED BY <2>1 DEF Insert
<1>7. g.live = h.live /\ g.count = h.count
  BY DEF Link
<1> HIDE DEF h, u
<1>8. Sound(g, u, {k + 1} \ {k + 1})
  <2>1. k + 1 \in 0 .. h.count
    BY <1>1, <1>4
  <2>2. Sound(Link(h, u[k + 1], u[(k + 1) + 1]), u, {k + 1} \ {k + 1})
    BY <2>1, <1>3, LinkSound
  <2> QED BY <2>2, <1>5, <1>6
<1>9. Sound(g, u, {})
  BY <1>8
<1>10. Typed(g) /\ Order(g, u)
  BY <1>9 DEF Sound
<1>11. InsertAfter(r, o[k], x) = g
  BY DEF InsertAfter, h
<1> QED BY <1>4, <1>7, <1>9, <1>10, <1>11 DEF u

\* A call that changes the ring between two calls: only the indexes are left to see.
LEMMA IdleKept ==
  ASSUME RingTypes', job' = NoJob, NEW u, Sound(ring', u, {}),
         ~AsDocumented => ~fault' /\ \A i \in Indexes' : IndexHeld(ring, u, i)'
  PROVE  RingInv'
<1>1. JobOK(ring', u, job')
  BY DEF JobOK
<1>2. job'.op = "none"
  BY DEF NoJob
<1>3. ~AsDocumented => Held(u)'
  BY <1>2 DEF Held
<1> QED BY <1>1, <1>3 DEF RingInv

LEMMA AddKept ==
  ASSUME RingAssumption, RingTypes, job = NoJob, NEW o, Sound(ring, o, {}),
         ~AsDocumented => Held(o),
         NEW x \in spare, NEW k \in 0 .. ring.count, Add(x, o[k])
  PROVE  \E u : /\ u = Insert(o, ring.count, k, x)
                /\ Sound(ring', u, {}) /\ Typed(ring') /\ Order(ring', u)
                /\ ring'.live = ring.live \union {x} /\ ring'.count = ring.count + 1
                /\ x \in Items /\ x \notin ring.live /\ x \notin spare' /\ spare' \subseteq spare
                /\ spare' \subseteq Items \ ring'.live /\ job' = NoJob /\ fault' = fault
                /\ ~AsDocumented => \A i \in Indexes :
                     /\ Standing(ring', index[i]) /\ WalkOK(ring', u, index[i], walk[i])
                     /\ index[i].nxt \notin spare /\ index[i].prv \notin spare
<1>1. x \in Items /\ x \notin ring.live /\ spare \subseteq Items \ ring.live
  BY DEF RingTypes
<1>2. Typed(ring) /\ Order(ring, o)
  BY DEF Sound
<1>3. ring.count < Full /\ ring' = InsertAfter(ring, o[k], x) /\ spare' = spare \ {x}
      /\ job' = job /\ fault' = fault
  BY DEF Add
<1> PICK u : u = Insert(o, ring.count, k, x)
  OBVIOUS
<1>4. /\ Sound(ring', u, {}) /\ Typed(ring') /\ Order(ring', u)
      /\ ring'.live = ring.live \union {x} /\ ring'.count = ring.count + 1
  BY <1>1, <1>3, InsertAfterIs
<1>5. ASSUME ~AsDocumented, NEW i \in Indexes
      PROVE  /\ Standing(ring', index[i]) /\ WalkOK(ring', u, index[i], walk[i])
             /\ index[i].nxt \notin spare /\ index[i].prv \notin spare
  <2>1. IndexHeld(ring, o, i)
    BY <1>5 DEF Held
  <2>2. Standing(ring, index[i]) /\ WalkOK(ring, o, index[i], walk[i])
        /\ index[i].nxt \notin spare /\ index[i].prv \notin spare /\ index[i].nxt # x
    BY <2>1 DEF IndexHeld
  <2> QED BY <2>2, <1>1, <1>2, <1>4, InsertHeld
<1>6. spare' \subseteq Items \ ring'.live /\ x \notin spare' /\ spare' \subseteq spare
  BY <1>1, <1>3, <1>4
<1> QED BY <1>1, <1>3, <1>4, <1>5, <1>6

LEMMA AddEndsKept ==
  ASSUME RingAssumption, RingTypes, job = NoJob, NEW o, Sound(ring, o, {}),
         ~AsDocumented => Held(o),
         NEW x \in spare, AddFirst(x) \/ AddLast(x)
  PROVE  RingInv'
<1>1. Typed(ring) /\ Order(ring, o) /\ ring.count \in Nat
  BY Apart DEF Sound
<1>2. \E k \in 0 .. ring.count : Add(x, o[k]) /\ UNCHANGED <<index, walk>>
  <2>1. CASE AddFirst(x)
    <3>1. PRing = o[0] /\ 0 \in 0 .. ring.count
      BY <1>1 DEF Order
    <3> QED BY <2>1, <3>1 DEF AddFirst
  <2>2. CASE AddLast(x)
    <3>1. ring.count \in 0 .. ring.count
      BY <1>1
    <3>2. ring.prev[PRing] = o[ring.count]
      BY <1>1, <3>1 DEF Sound, Linked, Order
    <3> QED BY <2>2, <3>1, <3>2 DEF AddLast
  <2> QED BY <2>1, <2>2
<1>3. PICK k \in 0 .. ring.count : Add(x, o[k]) /\ UNCHANGED <<index, walk>>
  BY <1>2
<1>4. PICK u : /\ Sound(ring', u, {}) /\ spare' \subseteq Items \ ring'.live /\ job' = NoJob
               /\ fault' = fault /\ spare' \subseteq spare
               /\ ~AsDocumented => \A i \in Indexes :
                     /\ Standing(ring', index[i]) /\ WalkOK(ring', u, index[i], walk[i])
                     /\ index[i].nxt \notin spare /\ index[i].prv \notin spare
  BY <1>3, AddKept
<1>5. RingTypes'
  BY <1>3, <1>4 DEF RingTypes, Indexes, NoJob
<1>6. ~AsDocumented => ~fault' /\ \A i \in Indexes' : IndexHeld(ring, u, i)'
  BY <1>3, <1>4 DEF IndexHeld, Indexes, Held
<1> QED BY <1>4, <1>5, <1>6, IdleKept


-----------------------------------------------------------------------------
(* The place of an index *)

LEMMA NeverDangling ==
  ASSUME RingAssumption, NEW o, Held(o), NEW i \in Indexes
  PROVE  /\ ~Dangling(index[i].cur) /\ ~Dangling(PlaceFrom(i))
         /\ ~Dangling(NextFrom(i)) /\ ~Dangling(PreviousFrom(i))
<1>1. Standing(ring, index[i])
  BY DEF Held, IndexHeld
<1>2. index[i].cur = Null => index[i].nxt \in ring.live \union {PRing, Null}
                             /\ index[i].prv \in ring.live \union {PRing, Null}
  BY <1>1 DEF Standing
<1> QED BY <1>1, <1>2 DEF Standing, Dangling, PlaceFrom, NextFrom, PreviousFrom

\* Only a user who obeys no more than the comment has the code read a freed item.
LEMMA FaultKept ==
  ASSUME RingTypes, NEW o, JobOK(ring, o, job), AsDocumented,
         fault' = TRUE, UNCHANGED <<ring, job, last, index, walk, spare, jobs>>
  PROVE  RingInv'
<1>1. RingTypes'
  BY DEF RingTypes, Indexes
<1>2. JobOK(ring', o, job')
  OBVIOUS
<1> QED BY <1>1, <1>2 DEF RingInv

LEMMA PlaceIs ==
  ASSUME RingAssumption, RingTypes, NEW o, Sound(ring, o, {}),
         NEW i \in Indexes, ~Dangling(PlaceFrom(i))
  PROVE  \E p \in 0 .. ring.count :
           /\ Place(i) = o[p]
           /\ index[i].cur # Null => Place(i) = index[i].cur
           /\ IndexHeld(ring, o, i) /\ ~PastThePlace(i) => Owes(walk[i], Ahead(ring, o, o[p]))
<1> DEFINE n == ring.count
           ix == index[i]
<1>1. /\ Typed(ring) /\ Order(ring, o) /\ n \in Nat /\ o[0] = PRing /\ o[n + 1] = PRing
      /\ Null # PRing /\ Null \notin ring.live /\ PRing \notin Items
  BY Apart DEF Sound, Order, Typed, RingAssumption, RingLinksAssumption
<1>2. ix \in IndexType
  BY DEF RingTypes
<1>3. IndexHeld(ring, o, i) => Owes(walk[i], Rest(ring, o, ix))
  BY DEF IndexHeld, WalkOK
<1>4. \A k \in 0 .. n : ring.next[o[k]] = o[k + 1] /\ ring.prev[o[k + 1]] = o[k]
  BY DEF Sound, Linked
<1>5. CASE ix.cur # Null
  <2>1. Place(i) = ix.cur /\ PlaceFrom(i) = ix.cur /\ Rest(ring, o, ix) = Ahead(ring, o, ix.cur)
    BY <1>5 DEF Place, PlaceFrom, Rest
  <2>2. ix.cur \in ring.live \union {PRing}
    BY <2>1, <1>5 DEF Dangling
  <2>3. PICK p \in 0 .. n : o[p] = ix.cur
    BY <2>2, <1>1, Apart
  <2> QED BY <2>1, <2>3, <1>3
<1>6. CASE ix.cur = Null /\ ix.prv # Null
  <2>1. Place(i) = ring.next[ix.prv] /\ PlaceFrom(i) = ix.prv /\ PastThePlace(i)
    BY <1>6 DEF Place, PlaceFrom, PastThePlace
  <2>2. ix.prv \in ring.live \union {PRing}
    BY <2>1, <1>6 DEF Dangling
  <2>3. PICK k \in 0 .. n : o[k] = ix.prv
    BY <2>2, <1>1, Apart
  <2>4. Place(i) = o[k + 1]
    BY <2>1, <2>3, <1>4
  <2>5. k + 1 \in 0 .. n \/ k + 1 = n + 1
    BY <1>1
  <2>6. 0 \in 0 .. n
    BY <1>1
  <2>7. \E p \in 0 .. n : Place(i) = o[p]
    BY <2>4, <2>5, <2>6, <1>1
  <2> QED BY <2>1, <2>7, <1>6
<1>7. CASE ix.cur = Null /\ ix.prv = Null /\ ix.nxt # Null
  <2>1. Place(i) = ring.prev[ix.nxt] /\ PlaceFrom(i) = ix.nxt
        /\ Rest(ring, o, ix) = FromOn(ring, o, ix.nxt)
    BY <1>7 DEF Place, PlaceFrom, Rest
  <2>2. ix.nxt \in ring.live \union {PRing}
    BY <2>1, <1>7 DEF Dangling
  <2>3. PICK k \in 1 .. n + 1 : o[k] = ix.nxt
    BY <2>2, <1>1, Apart
  <2>4. k - 1 \in 0 .. n /\ (k - 1) + 1 = k
    BY <1>1
  <2>5. Place(i) = o[k - 1]
    BY <2>1, <2>3, <2>4, <1>4
  <2>6. FromOn(ring, o, ix.nxt) = Ahead(ring, o, o[k - 1])
    BY <2>3, <2>4, <1>1, AheadAt
  <2> QED BY <2>1, <2>4, <2>5, <2>6, <1>3, <1>7
<1>8. CASE ix.cur = Null /\ ix.prv = Null /\ ix.nxt = Null
  <2>1. Place(i) = o[0] /\ Rest(ring, o, ix) = ring.live /\ 0 \in 0 .. n
    BY <1>1, <1>8 DEF Place, Rest
  <2>2. Ahead(ring, o, o[0]) = ring.live
    BY <1>1, AheadAt
  <2> QED BY <2>1, <2>2, <1>3, <1>8
<1> QED BY <1>5, <1>6, <1>7, <1>8

LEMMA AddBeforeKept ==
  ASSUME RingAssumption, RingTypes, job = NoJob, NEW o, JobOK(ring, o, job), Sound(ring, o, {}),
         ~AsDocumented => Held(o),
         NEW x \in spare, NEW i \in Indexes, AddBefore(i, x)
  PROVE  RingInv'
<1>1. CASE Dangling(PlaceFrom(i))
  BY <1>1, NeverDangling, FaultKept DEF AddBefore, Reading
<1>2. CASE ~Dangling(PlaceFrom(i))
  <2>1. Add(x, ring.prev[Place(i)]) /\ index' = [index EXCEPT ![i].prv = x] /\ walk' = walk
    BY <1>2 DEF AddBefore, Reading
  <2>2. Typed(ring) /\ Order(ring, o) /\ ring.count \in Nat
        /\ \A m \in 0 .. ring.count : ring.prev[o[m + 1]] = o[m]
    BY Apart DEF Sound, Linked
  <2>3. \E k \in 0 .. ring.count : ring.prev[Place(i)] = o[k]
    <3>1. PICK p \in 0 .. ring.count : Place(i) = o[p]
      BY <1>2, PlaceIs
    <3>2. CASE p = 0
      <4>1. ring.count \in 0 .. ring.count /\ o[p] = o[ring.count + 1]
        BY <3>2, <2>2 DEF Order
      <4> QED BY <4>1, <3>1, <2>2
    <3>3. CASE p # 0
      <4>1. p - 1 \in 0 .. ring.count /\ (p - 1) + 1 = p
        BY <3>3, <2>2
      <4> QED BY <4>1, <3>1, <2>2
    <3> QED BY <3>2, <3>3
  <2>4. PICK k \in 0 .. ring.count : ring.prev[Place(i)] = o[k]
    BY <2>3
  <2>5. Add(x, o[k])
    BY <2>1, <2>4
  <2>6. PICK u : /\ Sound(ring', u, {}) /\ spare' \subseteq Items \ ring'.live /\ job' = NoJob
                 /\ fault' = fault /\ spare' \subseteq spare /\ x \notin spare' /\ x \in Items
                 /\ ring'.live = ring.live \union {x} /\ x \notin ring.live
                 /\ ~AsDocumented => \A j \in Indexes :
                     /\ Standing(ring', index[j]) /\ WalkOK(ring', u, index[j], walk[j])
                     /\ index[j].nxt \notin spare /\ index[j].prv \notin spare
    BY <2>5, AddKept
  <2>7. /\ Indexes' = Indexes /\ index' \in [Indexes -> IndexType]
        /\ \A j \in Indexes : j # i => index'[j] = index[j]
        /\ index'[i] = [cur |-> index[i].cur, nxt |-> index[i].nxt, prv |-> x]
    BY <2>1, <2>6 DEF RingTypes, Indexes, IndexType, Nodes
  <2>8. RingTypes'
    BY <2>1, <2>6, <2>7 DEF RingTypes, NoJob
  <2>9. ASSUME ~AsDocumented, NEW j \in Indexes PROVE IndexHeld(ring, u, j)'
    <3>1. /\ Standing(ring', index[j]) /\ WalkOK(ring', u, index[j], walk[j])
          /\ index[j].nxt \notin spare' /\ index[j].prv \notin spare'
      BY <2>6, <2>9
    <3>2. CASE j # i
      BY <3>1, <3>2, <2>1, <2>7 DEF IndexHeld
    <3>3. CASE j = i
      <4>1. Standing(ring, index[i])
        BY <2>9 DEF Held, IndexHeld
      <4>2. Standing(ring', index'[i])
        BY <4>1, <3>1, <3>3, <2>6, <2>7 DEF Standing, RingAssumption, RingLinksAssumption
      <4>3. WalkOK(ring', u, index'[i], walk[i])
        BY <3>1, <3>3, <2>7 DEF WalkOK, Rest
      <4> QED BY <4>2, <4>3, <3>1, <3>3, <2>1, <2>6, <2>7 DEF IndexHeld
    <3> QED BY <3>2, <3>3
  <2>10. ~AsDocumented => ~fault' /\ \A j \in Indexes' : IndexHeld(ring, u, j)'
    BY <2>6, <2>7, <2>9 DEF Held
  <2> QED BY <2>6, <2>8, <2>10, IdleKept
<1> QED BY <1>1, <1>2

LEMMA AddAfterKept ==
  ASSUME RingAssumption, RingTypes, job = NoJob, NEW o, JobOK(ring, o, job), Sound(ring, o, {}),
         ~AsDocumented => Held(o),
         NEW x \in spare, NEW i \in Indexes, AddAfter(i, x)
  PROVE  RingInv'
<1>1. CASE Dangling(PlaceFrom(i))
  BY <1>1, NeverDangling, FaultKept DEF AddAfter, Reading
<1>2. CASE ~Dangling(PlaceFrom(i))
  <2>1. Add(x, Place(i)) /\ index' = [index EXCEPT ![i].nxt = x] /\ AfterPlace(i)
    BY <1>2 DEF AddAfter, Reading
  <2>2. Typed(ring) /\ Order(ring, o) /\ ring.count \in Nat
    BY Apart DEF Sound
  <2>3. PICK p \in 0 .. ring.count :
           /\ Place(i) = o[p]
           /\ index[i].cur # Null => Place(i) = index[i].cur
           /\ IndexHeld(ring, o, i) /\ ~PastThePlace(i) => Owes(walk[i], Ahead(ring, o, o[p]))
    BY <1>2, PlaceIs
  <2>4. Add(x, o[p])
    BY <2>1, <2>3
  <2>5. PICK u : /\ Sound(ring', u, {}) /\ spare' \subseteq Items \ ring'.live /\ job' = NoJob
                 /\ Typed(ring') /\ Order(ring', u) /\ ring'.count = ring.count + 1
                 /\ u = Insert(o, ring.count, p, x)
                 /\ fault' = fault /\ spare' \subseteq spare /\ x \notin spare' /\ x \in Items
                 /\ ring'.live = ring.live \union {x} /\ x \notin ring.live
                 /\ ~AsDocumented => \A j \in Indexes :
                     /\ Standing(ring', index[j]) /\ WalkOK(ring', u, index[j], walk[j])
                     /\ index[j].nxt \notin spare /\ index[j].prv \notin spare
    BY <2>4, AddKept
  <2>6. /\ Indexes' = Indexes /\ index' \in [Indexes -> IndexType]
        /\ \A j \in Indexes : j # i => index'[j] = index[j]
        /\ index'[i] = [cur |-> index[i].cur, nxt |-> x, prv |-> index[i].prv]
    BY <2>1, <2>5 DEF RingTypes, Indexes, IndexType, Nodes
  <2>7. /\ walk' \in [Indexes -> WalkType]
        /\ \A j \in Indexes : j # i => walk'[j] = walk[j]
        /\ walk'[i] = IF PastThePlace(i) THEN Voided(walk[i]) ELSE walk[i]
    <3>1. walk[i] \in WalkType /\ Voided(walk[i]) \in WalkType
      BY VoidedIs DEF RingTypes
    <3> QED BY <3>1, <2>1 DEF AfterPlace, RingTypes
  <2>8. RingTypes'
    BY <2>5, <2>6, <2>7 DEF RingTypes, NoJob
  <2>9. ASSUME ~AsDocumented, NEW j \in Indexes PROVE IndexHeld(ring, u, j)'
    <3>1. /\ Standing(ring', index[j]) /\ WalkOK(ring', u, index[j], walk[j])
          /\ index[j].nxt \notin spare' /\ index[j].prv \notin spare'
      BY <2>5, <2>9
    <3>2. CASE j # i
      BY <3>1, <3>2, <2>6, <2>7 DEF IndexHeld
    <3>3. CASE j = i
      <4>1. IndexHeld(ring, o, i)
        BY <2>9 DEF Held
      <4>2. Standing(ring, index[i]) /\ WalkOK(ring, o, index[i], walk[i])
        BY <4>1 DEF IndexHeld
      <4>3. Standing(ring', index'[i])
        BY <4>2, <3>1, <3>3, <2>5, <2>6 DEF Standing, RingAssumption, RingLinksAssumption
      <4>4. WalkOK(ring', u, index'[i], walk'[i])
        <5>1. CASE PastThePlace(i)
          BY <5>1, <2>7, VoidWalk, VoidedIs DEF RingTypes
        <5>2. CASE ~PastThePlace(i)
          <6>1. Owes(walk[i], Ahead(ring, o, o[p])) /\ walk'[i] = walk[i]
            BY <5>2, <4>1, <2>3, <2>7
          <6>2. o[p] \in ring.live \union {PRing} /\ walk[i].met \subseteq ring.live
            <7>1. p = 0 \/ p \in 1 .. ring.count
              BY <2>2
            <7> QED BY <7>1, <4>2, <2>2 DEF WalkOK, Order
          <6>3. Owes(walk[i], Ahead(ring', u, o[p])) /\ FromOn(ring', u, x) = Ahead(ring', u, o[p])
            BY <6>1, <6>2, <2>2, <2>5, InsertHeld
          <6>4. Rest(ring', u, index'[i]) = Ahead(ring', u, o[p])
            BY <6>3, <2>3, <2>5, <2>6 DEF Rest, RingAssumption, RingLinksAssumption
          <6> QED BY <6>1, <6>3, <6>4, <3>1, <3>3, <2>6 DEF WalkOK
        <5> QED BY <5>1, <5>2
      <4> QED BY <4>3, <4>4, <3>1, <3>3, <2>5, <2>6 DEF IndexHeld
    <3> QED BY <3>2, <3>3
  <2>10. ~AsDocumented => ~fault' /\ \A j \in Indexes' : IndexHeld(ring, u, j)'
    BY <2>5, <2>6, <2>9 DEF Held
  <2> QED BY <2>5, <2>8, <2>10, IdleKept
<1> QED BY <1>1, <1>2


-----------------------------------------------------------------------------
(* Steps that leave the order, or the promises, of the indexes *)

LEMMA StillKept ==
  ASSUME RingTypes, NEW o, ~AsDocumented => Held(o),
         ring'.live = ring.live, ring'.count = ring.count,
         UNCHANGED <<index, walk, spare, fault>>, JobOK(ring', o, job'),
         job'.op = "ring" => job'.i \in Indexes,
         ~AsDocumented /\ job'.op = "ring" => PlaceHeld(ring, o, job'.i, job'.place),
         ~AsDocumented /\ job'.op \in {"group", "sort"} => \A i \in Indexes : walk[i].void
  PROVE  RingInv'
<1>1. RingTypes'
  BY DEF RingTypes, Indexes
<1>2. ASSUME ~AsDocumented PROVE Held(o)'
  <2>1. \A i \in Indexes : IndexHeld(ring, o, i)
    BY <1>2 DEF Held
  <2>2. \A i \in Indexes' : IndexHeld(ring, o, i)'
    BY <2>1, SameWalks DEF IndexHeld, Indexes
  <2>3. job'.op = "ring" => PlaceHeld(ring, o, job.i, job.place)'
    <3>1. Ahead(ring', o, job'.place) = Ahead(ring, o, job'.place)
      BY SameWalks
    <3> QED BY <3>1, <1>2 DEF PastThePlace, PlaceHeld
  <2> QED BY <1>2, <2>2, <2>3 DEF Held, Indexes
<1> QED BY <1>1, <1>2 DEF RingInv

\* The calls that reorder the ring gave up the promises of the walks.
LEMMA VoidKept ==
  ASSUME RingTypes, NEW o, ~AsDocumented => Held(o), job.op \in {"group", "sort"},
         ring'.live = ring.live, UNCHANGED <<index, walk, spare, fault>>,
         NEW u, JobOK(ring', u, job'), job'.op \in {"none", "group", "sort"}
  PROVE  RingInv'
<1>1. RingTypes'
  BY DEF RingTypes, Indexes
<1>2. ASSUME ~AsDocumented PROVE Held(u)'
  <2>1. ASSUME NEW i \in Indexes PROVE IndexHeld(ring', u, i)
    <3>1. IndexHeld(ring, o, i) /\ walk[i].void
      BY <1>2, <2>1 DEF Held
    <3>2. /\ walk[i].due = {} /\ walk[i].met = {} /\ walk[i].missed = {} /\ ~walk[i].again
      BY <3>1 DEF IndexHeld, WalkOK
    <3>3. WalkOK(ring', u, index[i], walk[i])
      BY <3>2, VoidWalk
    <3> QED BY <3>1, <3>3 DEF IndexHeld, Standing
  <2>2. \A i \in Indexes' : IndexHeld(ring, u, i)'
    BY <2>1 DEF IndexHeld, Indexes
  <2> QED BY <1>2, <2>2 DEF Held, Indexes
<1> QED BY <1>1, <1>2 DEF RingInv

\* The calls that reorder the ring, when they begin.
LEMMA ReordersKept ==
  ASSUME RingAssumption, RingTypes, NEW o, ~AsDocumented => Held(o),
         NEW op \in {"group", "sort"}, NEW j, j.op = op, JobOK(ring, o, j), Reorders(op, j)
  PROVE  RingInv'
<1>1. /\ job' = j /\ ring' = ring /\ index' = index /\ spare' = spare /\ fault' = fault
      /\ walk' = [i \in Indexes |-> Voided(walk[i])]
  BY DEF Reorders, Begins
<1>2. \A i \in Indexes : walk[i] \in WalkType
  BY DEF RingTypes
<1>3. walk' \in [Indexes -> WalkType]
  BY <1>1, <1>2, VoidedIs
<1>4. RingTypes'
  BY <1>1, <1>3 DEF RingTypes, Indexes
<1>5. ASSUME ~AsDocumented PROVE Held(o)'
  <2>1. ASSUME NEW i \in Indexes PROVE IndexHeld(ring, o, i)' /\ walk'[i].void
    <3>1. IndexHeld(ring, o, i)
      BY <1>5 DEF Held
    <3>2. walk'[i] = Voided(walk[i])
      BY <1>1
    <3>3. WalkOK(ring, o, index[i], walk'[i]) /\ walk'[i].void
      BY <3>2, <1>2, VoidedIs, VoidWalk
    <3> QED BY <3>1, <3>3, <1>1 DEF IndexHeld
  <2>2. \A i \in Indexes' : IndexHeld(ring, o, i)' /\ walk'[i].void
    BY <2>1, <1>1 DEF Indexes
  <2> QED BY <1>1, <1>5, <2>2 DEF Held
<1> QED BY <1>1, <1>4, <1>5 DEF RingInv

-----------------------------------------------------------------------------
(* An item is deleted *)

LEMMA DeleteKept ==
  ASSUME RingAssumption, RingTypes, NEW o, Sound(ring, o, {}), ~AsDocumented => Held(o),
         NEW k \in 0 .. ring.count, ring.next[o[k]] # PRing,
         Delete(o[k], ring.next[o[k]]), UNCHANGED <<index, spare, fault>>,
         job'.op \in {"delete", "duplicate"}
  PROVE  \E u : /\ Sound(ring', u, {}) /\ ring'.count \in Nat /\ ring'.count = ring.count - 1
                /\ k <= ring'.count /\ \A m \in 0 .. k : u[m] = o[m]
                /\ RingTypes' /\ (~AsDocumented => Held(u)')
<1> DEFINE x == o[k + 1]
<1>1. /\ Typed(ring) /\ Order(ring, o) /\ ring.count \in Nat /\ o[ring.count + 1] = PRing
      /\ \A m \in 0 .. ring.count : ring.next[o[m]] = o[m + 1]
  BY Apart DEF Sound, Order, Linked
<1>2. ring.next[o[k]] = x /\ k + 1 \in 1 .. ring.count /\ (k + 1) - 1 = k
      /\ (k + 1) + 1 \in 1 .. ring.count + 1 /\ ring.next[x] = o[(k + 1) + 1]
  <2>1. ring.next[o[k]] = o[k + 1]
    BY <1>1
  <2>2. k # ring.count
    BY <2>1, <1>1
  <2>3. k + 1 \in 0 .. ring.count
    BY <2>2, <1>1
  <2> QED BY <2>1, <2>3, <1>1
<1>3. MayDelete(x) /\ ring' = Removed(ring, o[k], x, o[(k + 1) + 1]) /\ walk' = WalksWithout({x})
  BY <1>2 DEF Delete
<1> PICK u : u = Remove(o, ring.count, k + 1)
  OBVIOUS
<1>4. Sound(ring', u, {})
  <2>1. Sound(Removed(ring, o[(k + 1) - 1], o[k + 1], o[(k + 1) + 1]), Remove(o, ring.count, k + 1), {})
    BY <1>2, RemoveSound
  <2> QED BY <2>1, <1>2, <1>3
<1>5. ring'.live = ring.live \ {x} /\ ring'.count = ring.count - 1 /\ Typed(ring') /\ Order(ring', u)
  BY <1>3, <1>4 DEF Removed, Freed, Link, Sound
<1>6. \A m \in 0 .. k : u[m] = o[m]
  BY <1>1, <1>2, <1>5, RemoveKeeps
<1>7. \A i \in Indexes : walk[i] \in WalkType /\ walk'[i] = Without(walk[i], {x})
  BY <1>3 DEF RingTypes, WalksWithout
<1>8. walk' \in [Indexes -> WalkType]
  BY <1>3, <1>7, WithoutIs DEF WalksWithout
<1>9. RingTypes'
  BY <1>5, <1>8 DEF RingTypes, Indexes
<1>10. ASSUME ~AsDocumented PROVE Held(u)'
  <2>1. ASSUME NEW i \in Indexes PROVE IndexHeld(ring, u, i)'
    <3>1. IndexHeld(ring, o, i)
      BY <1>10 DEF Held
    <3>2. index[i].cur # x /\ (index[i].cur = Null => x \notin {index[i].nxt, index[i].prv})
      BY <1>3, <1>10 DEF MayDelete, SparesCurrent, SparesNoted, Noted
    <3>3. /\ walk'[i].due = walk[i].due \ {x} /\ walk'[i].met = walk[i].met \ {x}
          /\ walk'[i].void = walk[i].void /\ walk'[i].missed = walk[i].missed
          /\ walk'[i].again = walk[i].again
      BY <1>7, WithoutIs
    <3>4. Standing(ring, index[i]) /\ WalkOK(ring, o, index[i], walk[i])
      BY <3>1 DEF IndexHeld
    <3>5. Standing(ring', index[i]) /\ WalkOK(ring', u, index[i], walk'[i])
      BY <3>2, <3>3, <3>4, <1>1, <1>2, <1>5, RemoveHeld
    <3> QED BY <3>1, <3>5 DEF IndexHeld
  <2>2. \A i \in Indexes' : IndexHeld(ring, u, i)'
    BY <2>1 DEF Indexes
  <2> QED BY <1>10, <2>2 DEF Held
<1> QED BY <1>1, <1>2, <1>4, <1>5, <1>6, <1>9, <1>10

LEMMA DelCriteriaKept ==
  ASSUME RingAssumption, RingTypes, NEW o, JobOK(ring, o, job), ~AsDocumented => Held(o),
         (job = NoJob /\ DelCriteria) \/ DelCriteriaStep \/ DelCriteriaEnd
  PROVE  RingInv'
<1>1. CASE job = NoJob /\ DelCriteria
  <2>1. job' = [op |-> "delete", at |-> PRing] /\ UNCHANGED <<ring, index, walk, spare, fault>>
    BY <1>1 DEF DelCriteria, Begins
  <2>2. Sound(ring, o, {}) /\ ring.count \in Nat
    BY <1>1, OrderIs
  <2>3. o[0] = PRing /\ 0 \in 0 .. ring.count
    BY <2>2 DEF Sound, Order
  <2>4. JobOK(ring', o, job')
    BY <2>1, <2>2, <2>3 DEF JobOK, DeleteJob
  <2> QED BY <2>1, <2>4, StillKept
<1>2. CASE DelCriteriaStep
  <2> DEFINE x == ring.next[job.at]
  <2>1. job.op = "delete" /\ x # PRing /\ UNCHANGED <<index, spare, fault>>
    BY <1>2 DEF DelCriteriaStep
  <2>2. job = [op |-> "delete", at |-> job.at] /\ Sound(ring, o, {})
    BY <2>1, OrderIs DEF DeleteJob
  <2>3. PICK k \in 0 .. ring.count : job.at = o[k]
    BY <2>1, OrderIs DEF DeleteJob
  <2>4. CASE Delete(job.at, x) /\ job' = job
    <3>1. Delete(o[k], ring.next[o[k]]) /\ ring.next[o[k]] # PRing /\ job'.op \in {"delete", "duplicate"}
      BY <2>1, <2>3, <2>4
    <3>2. PICK u : /\ Sound(ring', u, {}) /\ ring'.count \in Nat /\ k <= ring'.count
                   /\ \A m \in 0 .. k : u[m] = o[m]
                   /\ RingTypes' /\ (~AsDocumented => Held(u)')
      BY <2>1, <2>2, <3>1, DeleteKept
    <3>3. k \in 0 .. ring'.count /\ u[k] = job'.at
      BY <2>3, <2>4, <3>2
    <3>4. JobOK(ring', u, job')
      BY <3>2, <3>3, <2>2, <2>4 DEF JobOK, DeleteJob
    <3> QED BY <3>2, <3>4 DEF RingInv
  <2>5. CASE job' = [job EXCEPT !.at = x] /\ UNCHANGED <<ring, walk>>
    <3>1. ring.count \in Nat /\ Order(ring, o) /\ x = o[k + 1]
      BY <2>2, <2>3, Apart DEF Sound, Linked
    <3>2. k + 1 \in 0 .. ring.count
      BY <3>1, <2>1 DEF Order
    <3>3. job' = [op |-> "delete", at |-> o[k + 1]]
      BY <3>1, <2>2, <2>5
    <3>4. JobOK(ring', o, job')
      BY <3>2, <3>3, <2>2, <2>5 DEF JobOK, DeleteJob
    <3> QED BY <3>3, <3>4, <2>1, <2>5, StillKept
  <2> QED BY <1>2, <2>4, <2>5 DEF DelCriteriaStep
<1>3. CASE DelCriteriaEnd
  <2>1. job' = NoJob /\ UNCHANGED <<ring, index, walk, spare, fault>> /\ Sound(ring, o, {})
    BY <1>3, OrderIs DEF DelCriteriaEnd, DeleteJob
  <2>2. JobOK(ring', o, job') /\ job'.op = "none"
    BY <2>1 DEF JobOK, NoJob
  <2> QED BY <2>1, <2>2, StillKept
<1> QED BY <1>1, <1>2, <1>3


-----------------------------------------------------------------------------
(* The calls that compare each item with those that follow it *)

LEMMA MovedSound ==
  ASSUME RingAssumption, NEW r, NEW o, Sound(r, o, {}),
         NEW i \in 1 .. r.count, NEW k \in 1 .. r.count, i < k, k + 1 <= r.count
  PROVE  LET g == Moved(r, o[i], o[k], o[k + 1])
             u == Shift(o, r.count, i, k + 1)
         IN  /\ Sound(g, u, {}) /\ g.live = r.live /\ g.count = r.count
             /\ u[i + 1] = o[k + 1] /\ u[k + 1] = o[k]
<1> DEFINE n == r.count
           u == Shift(o, n, i, k + 1)
           r1 == Link(r, o[k], o[k + 2])
           r2 == Link(r1, o[k + 1], o[i + 1])
           r3 == Link(r2, o[i], o[k + 1])
<1>1. Typed(r) /\ Order(r, o) /\ n \in Nat
  BY Apart DEF Sound
<1>2. /\ i \in 0 .. n /\ k \in 0 .. n /\ k + 1 \in 0 .. n /\ i + 1 \in 0 .. n /\ (k + 1) + 1 = k + 2
      /\ k + 1 \in 1 .. n /\ i < k + 1 /\ k + 2 \in 0 .. n + 1 /\ (i + 1) + 1 = i + 2
  BY <1>1
<1>3. /\ u[i] = o[i] /\ u[i + 1] = o[k + 1] /\ u[i + 2] = o[i + 1]
      /\ u[k + 1] = o[k] /\ u[k + 2] = o[k + 2]
  <2>1. \A m \in 0 .. n + 1 : u[m] = IF m = i + 1 THEN o[k + 1]
                                     ELSE IF i + 1 < m /\ m <= k + 1 THEN o[m - 1] ELSE o[m]
    BY DEF Shift
  <2>2. /\ i \in 0 .. n + 1 /\ i + 1 \in 0 .. n + 1 /\ i + 2 \in 0 .. n + 1 /\ k + 1 \in 0 .. n + 1
        /\ k + 2 \in 0 .. n + 1 /\ i + 2 # i + 1 /\ k + 1 # i + 1 /\ k + 2 # i + 1 /\ i # i + 1
        /\ ~(i + 1 < i) /\ i + 1 < i + 2 /\ i + 2 <= k + 1 /\ i + 1 < k + 1 /\ ~(k + 2 <= k + 1)
        /\ (i + 2) - 1 = i + 1 /\ (k + 1) - 1 = k
    BY <1>1
  <2> HIDE DEF u
  <2> QED BY <2>1, <2>2
<1> HIDE DEF u
<1>4. Sound(r, u, {i, i + 1, k + 1})
  <2>1. Sound(r, u, Broken(n, i, k + 1, {}))
    BY <1>2, ShiftSound DEF u
  <2>2. Broken(n, i, k + 1, {}) = {i, i + 1, k + 1}
    BY DEF Broken
  <2> QED BY <2>1, <2>2
<1>5. r1.count = n /\ r2.count = n /\ r3.count = n
      /\ r1.live = r.live /\ r2.live = r.live /\ r3.live = r.live
  BY DEF Link
<1>6. Sound(r1, u, {i, i + 1, k + 1} \ {k + 1})
  <2>1. Sound(Link(r, u[k + 1], u[(k + 1) + 1]), u, {i, i + 1, k + 1} \ {k + 1})
    BY <1>2, <1>4, LinkSound
  <2> QED BY <2>1, <1>2, <1>3
<1> HIDE DEF r1
<1>7. Sound(r2, u, ({i, i + 1, k + 1} \ {k + 1}) \ {i + 1})
  <2>1. Sound(Link(r1, u[i + 1], u[(i + 1) + 1]), u, ({i, i + 1, k + 1} \ {k + 1}) \ {i + 1})
    BY <1>2, <1>5, <1>6, LinkSound
  <2> QED BY <2>1, <1>2, <1>3
<1> HIDE DEF r2
<1>8. Sound(r3, u, (({i, i + 1, k + 1} \ {k + 1}) \ {i + 1}) \ {i})
  <2>1. Sound(Link(r2, u[i], u[i + 1]), u, (({i, i + 1, k + 1} \ {k + 1}) \ {i + 1}) \ {i})
    BY <1>2, <1>5, <1>7, LinkSound
  <2> QED BY <2>1, <1>3
<1>9. Sound(r3, u, {})
  <2>1. (({i, i + 1, k + 1} \ {k + 1}) \ {i + 1}) \ {i} \subseteq {}
    OBVIOUS
  <2> QED BY <2>1, <1>8, Weaker
<1>10. Moved(r, o[i], o[k], o[k + 1]) = r3
  <2>1. r.next[o[k + 1]] = o[k + 2] /\ r.next[o[i]] = o[i + 1]
    BY <1>2 DEF Sound, Linked
  <2>2. o[i] # o[k]
    <3>1. i # k
      BY <1>1
    <3> QED BY <3>1, <1>1 DEF Order
  <2>3. o[i] \in Nodes /\ o[k] \in Nodes
    <3>1. i \in 0 .. n + 1 /\ k \in 0 .. n + 1
      BY <1>1
    <3> QED BY <3>1, <1>1 DEF Order
  <2>4. r1.next[o[i]] = o[i + 1]
    BY <2>1, <2>2, <2>3, <1>1 DEF r1, Link, Typed
  <2> QED BY <2>1, <2>4 DEF Moved, r1, r2
<1> QED BY <1>3, <1>5, <1>9, <1>10 DEF u

LEMMA CompareBegins ==
  ASSUME RingAssumption, NEW o, Sound(ring, o, {}), ring.count >= 2, NEW op \in {"duplicate", "group"}
  PROVE  JobOK(ring, o, Comparing(op))
<1>1. 1 \in 1 .. ring.count /\ 0 \in 0 .. ring.count /\ 0 + 1 = 1 /\ 1 <= 1
  BY Apart DEF Sound
<1>2. ring.next[PRing] = o[1]
  BY <1>1 DEF Sound, Linked, Order
<1> QED BY <1>1, <1>2 DEF JobOK, CompareJob, Comparing

\* Where a job that compares stands: it tests the item of position k + 1, if there is one.
LEMMA ComparesAt ==
  ASSUME RingAssumption, NEW o, JobOK(ring, o, job), job.op \in {"duplicate", "group"}
  PROVE  /\ job = [op |-> job.op, a |-> job.a, b |-> job.b, before |-> job.before]
         /\ Sound(ring, o, {}) /\ ring.count \in Nat
         /\ \E i, k \in 1 .. ring.count :
              /\ i <= k /\ job.a = o[i] /\ job.b = o[k] /\ ring.next[job.b] = o[k + 1]
              /\ ring.next[job.b] # PRing => k + 1 \in 1 .. ring.count
              /\ ring.next[job.a] = o[i + 1]
              /\ ring.next[job.a] # PRing => i + 1 \in 1 .. ring.count
<1>1. CompareJob(ring, o, job)
  BY OrderIs
<1>2. PICK i, k \in 1 .. ring.count : i <= k /\ job.a = o[i] /\ job.b = o[k]
  BY <1>1 DEF CompareJob
<1>3. Sound(ring, o, {}) /\ ring.count \in Nat /\ Order(ring, o)
  BY <1>1, Apart DEF CompareJob, Sound
<1>4. i \in 0 .. ring.count /\ k \in 0 .. ring.count
  BY <1>3
<1>5. ring.next[job.b] = o[k + 1] /\ ring.next[job.a] = o[i + 1]
  BY <1>2, <1>3, <1>4 DEF Sound, Linked
<1>6. /\ ring.next[job.b] # PRing => k + 1 \in 1 .. ring.count
      /\ ring.next[job.a] # PRing => i + 1 \in 1 .. ring.count
  <2>1. k = ring.count \/ k + 1 \in 1 .. ring.count
    BY <1>3
  <2>2. i = ring.count \/ i + 1 \in 1 .. ring.count
    BY <1>3
  <2> QED BY <2>1, <2>2, <1>3, <1>5 DEF Order
<1> QED BY <1>1, <1>2, <1>3, <1>5, <1>6 DEF CompareJob

LEMMA DelDuplicateKept ==
  ASSUME RingAssumption, RingTypes, NEW o, JobOK(ring, o, job), ~AsDocumented => Held(o),
         (job = NoJob /\ DelDuplicate) \/ DelDuplicateStep
  PROVE  RingInv'
<1>1. CASE job = NoJob /\ DelDuplicate
  <2>1. job' = Comparing("duplicate") /\ UNCHANGED <<ring, index, walk, spare, fault>> /\ ring.count >= 2
    BY <1>1 DEF DelDuplicate, Begins
  <2>2. JobOK(ring', o, job')
    BY <1>1, <2>1, OrderIs, CompareBegins
  <2>3. job'.op = "duplicate"
    BY <2>1 DEF Comparing
  <2> QED BY <2>1, <2>2, <2>3, StillKept
<1>2. CASE DelDuplicateStep
  <2> DEFINE x == ring.next[job.b]
  <2>1. job.op = "duplicate" /\ x # PRing /\ UNCHANGED <<index, spare, fault>>
    BY <1>2 DEF DelDuplicateStep
  <2>2. /\ job = [op |-> "duplicate", a |-> job.a, b |-> job.b, before |-> job.before]
        /\ Sound(ring, o, {}) /\ ring.count \in Nat
    BY <2>1, ComparesAt
  <2>3. PICK i, k \in 1 .. ring.count :
          /\ i <= k /\ job.a = o[i] /\ job.b = o[k] /\ ring.next[job.b] = o[k + 1]
          /\ k + 1 \in 1 .. ring.count
    BY <2>1, ComparesAt
  <2>4. CASE Delete(job.b, x) /\ job' = job
    <3>1. Delete(o[k], ring.next[o[k]]) /\ ring.next[o[k]] # PRing /\ job'.op \in {"delete", "duplicate"}
          /\ k \in 0 .. ring.count
      BY <2>1, <2>2, <2>3, <2>4
    <3>2. PICK u : /\ Sound(ring', u, {}) /\ ring'.count \in Nat /\ k <= ring'.count
                   /\ \A m \in 0 .. k : u[m] = o[m]
                   /\ RingTypes' /\ (~AsDocumented => Held(u)')
      BY <2>1, <2>2, <3>1, DeleteKept
    <3>3. i \in 1 .. ring'.count /\ k \in 1 .. ring'.count /\ i \in 0 .. k /\ k \in 0 .. k
      BY <2>3, <3>2
    <3>4. job' = [op |-> "duplicate", a |-> u[i], b |-> u[k], before |-> job.before]
      BY <3>2, <3>3, <2>2, <2>3, <2>4
    <3>5. JobOK(ring', u, job')
      BY <3>2, <3>3, <3>4, <2>3 DEF JobOK, CompareJob
    <3> QED BY <3>2, <3>5 DEF RingInv
  <2>5. CASE job' = [job EXCEPT !.b = x] /\ UNCHANGED <<ring, walk>>
    <3>1. job' = [op |-> "duplicate", a |-> o[i], b |-> o[k + 1], before |-> job.before]
      BY <2>2, <2>3, <2>5
    <3>2. i <= k + 1
      BY <2>2, <2>3
    <3>3. JobOK(ring', o, job')
      BY <3>1, <3>2, <2>2, <2>3, <2>5 DEF JobOK, CompareJob
    <3> QED BY <3>1, <3>3, <2>1, <2>5, StillKept
  <2> QED BY <1>2, <2>4, <2>5 DEF DelDuplicateStep
<1> QED BY <1>1, <1>2

LEMMA CompareKept ==
  ASSUME RingAssumption, RingTypes, NEW o, JobOK(ring, o, job), ~AsDocumented => Held(o),
         NextCompared \/ CompareFails
  PROVE  RingInv'
<1>1. job.op \in {"duplicate", "group"} /\ UNCHANGED <<ring, index, walk, spare, fault>>
  BY DEF NextCompared, CompareFails
<1>2. /\ job = [op |-> job.op, a |-> job.a, b |-> job.b, before |-> job.before]
      /\ Sound(ring, o, {}) /\ ring.count \in Nat
  BY <1>1, ComparesAt
<1>3. CASE job' = NoJob
  <2>1. JobOK(ring', o, job') /\ job'.op = "none"
    BY <1>1, <1>2, <1>3 DEF JobOK, NoJob
  <2> QED BY <2>1, <1>1, StillKept
<1>4. CASE ring.next[job.a] # PRing
           /\ job' = [job EXCEPT !.a = ring.next[job.a], !.b = ring.next[job.a]]
  <2>1. PICK i, k \in 1 .. ring.count : ring.next[job.a] = o[i + 1] /\ i + 1 \in 1 .. ring.count
    BY <1>1, <1>4, ComparesAt
  <2>2. job' = [op |-> job.op, a |-> o[i + 1], b |-> o[i + 1], before |-> job.before]
    BY <2>1, <1>2, <1>4
  <2>3. JobOK(ring', o, job')
    BY <2>1, <2>2, <1>1, <1>2 DEF JobOK, CompareJob
  <2>4. job'.op = job.op
    BY <2>2
  <2>5. ~AsDocumented /\ job'.op \in {"group", "sort"} => \A i_1 \in Indexes : walk[i_1].void
    BY <2>4 DEF Held
  <2> QED BY <2>3, <2>4, <2>5, <1>1, StillKept
<1> QED BY <1>3, <1>4 DEF NextCompared, CompareFails, Ends

LEMMA GroupKept ==
  ASSUME RingAssumption, RingTypes, NEW o, JobOK(ring, o, job), ~AsDocumented => Held(o),
         (job = NoJob /\ Group) \/ GroupStep
  PROVE  RingInv'
<1>1. CASE job = NoJob /\ Group
  <2>1. JobOK(ring, o, Comparing("group")) /\ Comparing("group").op = "group"
    BY <1>1, OrderIs, CompareBegins DEF Group, Reorders, Comparing
  <2> QED BY <2>1, <1>1, ReordersKept DEF Group
<1>2. CASE GroupStep
  <2> DEFINE x == ring.next[job.b]
  <2>1. job.op = "group" /\ x # PRing /\ UNCHANGED <<index, walk, spare, fault>>
    BY <1>2 DEF GroupStep
  <2>2. /\ job = [op |-> "group", a |-> job.a, b |-> job.b, before |-> job.before]
        /\ Sound(ring, o, {}) /\ ring.count \in Nat
    BY <2>1, ComparesAt
  <2>3. PICK i, k \in 1 .. ring.count :
          /\ i <= k /\ job.a = o[i] /\ job.b = o[k] /\ x = o[k + 1] /\ ring.next[job.a] = o[i + 1]
          /\ k + 1 \in 1 .. ring.count
    BY <2>1, ComparesAt
  <2>4. i <= k + 1 /\ k + 1 <= k + 1 /\ k + 1 <= ring.count
    BY <2>2, <2>3
  <2>5. CASE job' = [job EXCEPT !.b = x] /\ ring' = ring
    <3>1. job' = [op |-> "group", a |-> o[i], b |-> o[k + 1], before |-> job.before]
      BY <2>2, <2>3, <2>5
    <3>2. JobOK(ring', o, job')
      BY <3>1, <2>2, <2>3, <2>4, <2>5 DEF JobOK, CompareJob
    <3> QED BY <3>1, <3>2, <2>1, <2>5, VoidKept
  <2>6. CASE job' = [job EXCEPT !.a = x, !.b = x] /\ ring' = ring
    <3> DEFINE j == [job EXCEPT !.a = x]
    <3>0. j = [op |-> "group", a |-> x, b |-> job.b, before |-> job.before]
      BY <2>2
    <3> HIDE DEF j
    <3>1. job' = [op |-> "group", a |-> o[k + 1], b |-> o[k + 1], before |-> job.before]
      <4>1. job' = [j EXCEPT !.b = x]
        BY <2>6 DEF j
      <4> QED BY <4>1, <3>0, <2>3
    <3>2. JobOK(ring', o, job')
      BY <3>1, <2>2, <2>3, <2>4, <2>6 DEF JobOK, CompareJob
    <3> QED BY <3>1, <3>2, <2>1, <2>6, VoidKept
  <2>7. CASE x # ring.next[job.a] /\ ring' = Moved(ring, job.a, job.b, x) /\ job' = [job EXCEPT !.a = x]
    <3>1. i < k
      BY <2>3, <2>7, <2>2
    <3> PICK u : u = Shift(o, ring.count, i, k + 1)
      OBVIOUS
    <3>2. /\ Sound(ring', u, {}) /\ ring'.live = ring.live /\ ring'.count = ring.count
          /\ u[i + 1] = o[k + 1] /\ u[k + 1] = o[k]
      BY <3>1, <2>2, <2>3, <2>4, <2>7, MovedSound
    <3>3. job' = [op |-> "group", a |-> u[i + 1], b |-> u[k + 1], before |-> job.before]
      BY <3>2, <2>2, <2>3, <2>7
    <3>4. i + 1 \in 1 .. ring'.count /\ k + 1 \in 1 .. ring'.count /\ i + 1 <= k + 1
      BY <3>1, <3>2, <2>2, <2>3
    <3>5. JobOK(ring', u, job')
      BY <3>2, <3>3, <3>4 DEF JobOK, CompareJob
    <3> QED BY <3>2, <3>3, <3>5, <2>1, VoidKept
  <2> QED BY <1>2, <2>5, <2>6, <2>7 DEF GroupStep
<1> QED BY <1>1, <1>2


-----------------------------------------------------------------------------
(* Items are added at the place of an index, one callback after the other *)

LEMMA AddRingBegins ==
  ASSUME RingAssumption, RingTypes, job = NoJob, NEW o, JobOK(ring, o, job), Sound(ring, o, {}),
         ~AsDocumented => Held(o),
         NEW i \in Indexes, AddRingCriteria(i)
  PROVE  RingInv'
<1>1. CASE Dangling(PlaceFrom(i))
  BY <1>1, NeverDangling, FaultKept DEF AddRingCriteria, Reading
<1>2. CASE ~Dangling(PlaceFrom(i))
  <2>1. /\ job' = [op |-> "ring", i |-> i, place |-> Place(i), at |-> Place(i),
                   end |-> ring.next[Place(i)], before |-> ItemsOf(ring)]
        /\ UNCHANGED <<ring, index, walk, spare, fault>>
    BY <1>2 DEF AddRingCriteria, Reading, Begins
  <2>2. PICK p \in 0 .. ring.count :
           /\ Place(i) = o[p]
           /\ index[i].cur # Null => Place(i) = index[i].cur
           /\ IndexHeld(ring, o, i) /\ ~PastThePlace(i) => Owes(walk[i], Ahead(ring, o, o[p]))
    BY <1>2, PlaceIs
  <2>3. ring.next[o[p]] = o[p + 1] /\ p <= p
    BY Apart DEF Sound, Linked
  <2>4. JobOK(ring', o, job')
    BY <2>1, <2>2, <2>3 DEF JobOK, RingJob
  <2>5. ~AsDocumented => PlaceHeld(ring, o, i, o[p])
    BY <2>2 DEF PlaceHeld, Held
  <2>6. job'.op = "ring" /\ job'.i = i /\ job'.place = o[p]
    BY <2>1, <2>2
  <2> QED BY <2>1, <2>4, <2>5, <2>6, StillKept
<1> QED BY <1>1, <1>2

LEMMA AddRingAt ==
  ASSUME RingAssumption, NEW o, JobOK(ring, o, job), job.op = "ring"
  PROVE  /\ job = [op |-> "ring", i |-> job.i, place |-> job.place, at |-> job.at, end |-> job.end,
                   before |-> job.before]
         /\ Typed(ring) /\ Order(ring, o) /\ ring.count \in Nat
         /\ \E p, k \in 0 .. ring.count :
              /\ p <= k /\ job.place = o[p] /\ job.at = o[k] /\ job.end = o[k + 1]
              /\ ring.next[o[p]] = o[p + 1] /\ Sound(ring, o, {k})
<1>1. RingJob(ring, o, job) /\ Typed(ring) /\ Order(ring, o) /\ ring.count \in Nat
  BY OrderIs
<1>2. PICK p, k \in 0 .. ring.count :
        /\ p <= k /\ job.place = o[p] /\ job.at = o[k] /\ job.end = o[k + 1]
        /\ Sound(ring, o, IF p = k THEN {} ELSE {k})
  BY <1>1 DEF RingJob
<1>3. ring.next[o[p]] = o[p + 1]
  BY <1>2 DEF Sound, Linked
<1>4. Sound(ring, o, {k})
  BY <1>2, Weaker
<1> QED BY <1>1, <1>2, <1>3, <1>4 DEF RingJob

LEMMA AddRingStepKept ==
  ASSUME RingAssumption, RingTypes, NEW o, JobOK(ring, o, job), ~AsDocumented => Held(o),
         NEW x \in spare, AddRingStep(x)
  PROVE  RingInv'
<1>1. /\ job.op = "ring" /\ ring.count < Full /\ ring' = Allocated(Link(ring, job.at, x), x)
      /\ job' = [job EXCEPT !.at = x] /\ spare' = spare \ {x} /\ UNCHANGED <<index, walk, fault>>
  BY DEF AddRingStep
<1>2. /\ job = [op |-> "ring", i |-> job.i, place |-> job.place, at |-> job.at, end |-> job.end,
                before |-> job.before]
      /\ Typed(ring) /\ Order(ring, o) /\ ring.count \in Nat
  BY <1>1, AddRingAt
<1>3. PICK p, k \in 0 .. ring.count :
        /\ p <= k /\ job.place = o[p] /\ job.at = o[k] /\ job.end = o[k + 1]
        /\ ring.next[o[p]] = o[p + 1] /\ Sound(ring, o, {k})
  BY <1>1, AddRingAt
<1>4. x \in Items /\ x \notin ring.live /\ spare \subseteq Items \ ring.live
  BY DEF RingTypes
<1> PICK u : u = Insert(o, ring.count, k, x)
  OBVIOUS
<1>5. Sound(ring', u, {k + 1})
  BY <1>1, <1>3, <1>4, InsertSound
<1>6. /\ ring'.live = ring.live \union {x} /\ ring'.count = ring.count + 1
      /\ Typed(ring') /\ Order(ring', u)
  BY <1>1, <1>5 DEF Allocated, Link, Sound
<1>7. u[p] = o[p] /\ u[k + 1] = x /\ u[(k + 1) + 1] = o[k + 1]
  <2>1. /\ \A j \in 0 .. k : u[j] = o[j]
        /\ u[k + 1] = x
        /\ \A j \in k + 2 .. ring.count + 2 : u[j] = o[j - 1]
    BY <1>2, <1>4, <1>6, InsertKeeps
  <2>2. p \in 0 .. k /\ k + 2 \in k + 2 .. ring.count + 2 /\ (k + 1) + 1 = k + 2 /\ (k + 2) - 1 = k + 1
    BY <1>2, <1>3
  <2> QED BY <2>1, <2>2
<1>8. job' = [op |-> "ring", i |-> job.i, place |-> u[p], at |-> u[k + 1], end |-> u[(k + 1) + 1],
              before |-> job.before]
  BY <1>1, <1>2, <1>3, <1>7
<1>9. JobOK(ring', u, job')
  <2>1. p \in 0 .. ring'.count /\ k + 1 \in 0 .. ring'.count /\ p <= k + 1 /\ p # k + 1
    BY <1>2, <1>3, <1>6
  <2>2. RingJob(ring', u, job')
    BY <2>1, <1>5, <1>8 DEF RingJob
  <2> QED BY <2>2 DEF JobOK
<1>10. RingTypes'
  BY <1>1, <1>4, <1>6, <1>8 DEF RingTypes, Indexes
<1>11. ASSUME ~AsDocumented PROVE Held(u)'
  <2>1. ASSUME NEW i \in Indexes PROVE IndexHeld(ring, u, i)'
    <3>1. IndexHeld(ring, o, i)
      BY <1>11 DEF Held
    <3>2. Standing(ring, index[i]) /\ WalkOK(ring, o, index[i], walk[i])
          /\ index[i].nxt \notin spare /\ index[i].prv \notin spare /\ index[i].nxt # x
      BY <3>1 DEF IndexHeld
    <3>3. Standing(ring', index[i]) /\ WalkOK(ring', u, index[i], walk[i])
      BY <3>2, <1>2, <1>4, <1>6, InsertHeld
    <3> QED BY <3>2, <3>3, <1>1 DEF IndexHeld
  <2>2. \A i \in Indexes' : IndexHeld(ring, u, i)'
    BY <2>1, <1>1 DEF Indexes
  <2>3. PlaceHeld(ring', u, job.i, u[p])
    <3>1. PlaceHeld(ring, o, job.i, o[p]) /\ job.i \in Indexes /\ IndexHeld(ring, o, job.i)
      BY <1>1, <1>3, <1>11 DEF Held, RingTypes
    <3>2. o[p] \in ring.live \union {PRing} /\ walk[job.i].met \subseteq ring.live
      <4>1. p = 0 \/ p \in 1 .. ring.count
        BY <1>2
      <4> QED BY <4>1, <3>1, <1>2 DEF IndexHeld, WalkOK, Order
    <3>3. Owes(walk[job.i], Ahead(ring, o, o[p])) => Owes(walk[job.i], Ahead(ring', u, o[p]))
      BY <3>2, <1>2, <1>4, <1>6, InsertHeld
    <3> QED BY <3>1, <3>3, <1>7 DEF PlaceHeld
  <2>4. PlaceHeld(ring, u, job.i, job.place)'
    BY <2>3, <1>1, <1>8 DEF PlaceHeld, PastThePlace
  <2>5. job'.op = "ring"
    BY <1>8
  <2> QED BY <2>2, <2>4, <2>5, <1>1, <1>11 DEF Held
<1> QED BY <1>9, <1>10, <1>11 DEF RingInv

LEMMA AddRingEndKept ==
  ASSUME RingAssumption, RingTypes, NEW o, JobOK(ring, o, job), ~AsDocumented => Held(o), AddRingEnd
  PROVE  RingInv'
<1> DEFINE i == job.i
<1>1. /\ job.op = "ring" /\ index' = [index EXCEPT ![i].nxt = ring.next[job.place]]
      /\ ring' = Link(ring, job.at, job.end) /\ job' = NoJob /\ AfterPlace(i)
      /\ UNCHANGED <<spare, fault>>
  BY DEF AddRingEnd, Ends
<1>2. Typed(ring) /\ Order(ring, o) /\ ring.count \in Nat /\ i \in Indexes
  BY <1>1, AddRingAt DEF RingTypes
<1>3. PICK p, k \in 0 .. ring.count :
        /\ p <= k /\ job.place = o[p] /\ job.at = o[k] /\ job.end = o[k + 1]
        /\ ring.next[o[p]] = o[p + 1] /\ Sound(ring, o, {k})
  BY <1>1, AddRingAt
<1>4. Sound(ring', o, {})
  <2>1. Sound(ring', o, {k} \ {k})
    BY <1>1, <1>3, LinkSound
  <2> QED BY <2>1, Weaker
<1>5. ring'.live = ring.live /\ ring'.count = ring.count
  BY <1>1 DEF Link
<1>6. /\ o[p + 1] \in Nodes /\ o[p + 1] # Null /\ o[p + 1] \in ring.live \union {PRing}
      /\ p >= 1 => o[p + 1] # o[p]
      /\ p = 0 => o[p] = PRing
  <2>1. p + 1 \in 1 .. ring.count \/ p + 1 = ring.count + 1
    BY <1>2
  <2>2. o[p + 1] \in ring.live \union {PRing}
    BY <2>1, <1>2 DEF Order
  <2>3. p >= 1 => p \in 1 .. ring.count + 1 /\ p + 1 \in 1 .. ring.count + 1 /\ p # p + 1
    BY <1>2
  <2>4. p >= 1 => o[p + 1] # o[p]
    BY <2>3, <1>2, Apart
  <2> QED BY <2>2, <2>4, <1>2 DEF Order, Nodes, Typed, RingAssumption, RingLinksAssumption
<1>7. /\ Indexes' = Indexes /\ index' \in [Indexes -> IndexType]
      /\ \A j \in Indexes : j # i => index'[j] = index[j]
      /\ index'[i] = [cur |-> index[i].cur, nxt |-> o[p + 1], prv |-> index[i].prv]
  BY <1>1, <1>2, <1>3, <1>6 DEF RingTypes, Indexes, IndexType
<1>8. /\ walk' \in [Indexes -> WalkType]
      /\ \A j \in Indexes : j # i => walk'[j] = walk[j]
      /\ walk'[i] = IF PastThePlace(i) THEN Voided(walk[i]) ELSE walk[i]
  <2>1. walk[i] \in WalkType /\ Voided(walk[i]) \in WalkType
    BY <1>2, VoidedIs DEF RingTypes
  <2> QED BY <2>1, <1>1 DEF AfterPlace, RingTypes
<1>9. RingTypes'
  BY <1>1, <1>5, <1>7, <1>8 DEF RingTypes, NoJob
<1>10. ASSUME ~AsDocumented, NEW j \in Indexes PROVE IndexHeld(ring, o, j)'
  <2>1. IndexHeld(ring, o, j)
    BY <1>10 DEF Held
  <2>2. CASE j # i
    BY <2>1, <2>2, <1>1, <1>5, <1>7, <1>8, SameWalks DEF IndexHeld
  <2>3. CASE j = i
    <3>1. PlaceHeld(ring, o, i, o[p]) /\ Standing(ring, index[i]) /\ WalkOK(ring, o, index[i], walk[i])
      BY <2>1, <2>3, <1>1, <1>3, <1>10 DEF Held, IndexHeld
    <3>2. Standing(ring, index'[i])
      <4>1. index[i].cur # Null => o[p] = index[i].cur /\ o[p] # PRing
        BY <3>1, <1>2 DEF PlaceHeld, Standing, Typed, RingAssumption, RingLinksAssumption
      <4>2. index[i].cur # Null => o[p + 1] # index[i].cur
        BY <4>1, <1>6, <1>2
      <4> QED BY <4>2, <3>1, <1>6, <1>7 DEF Standing
    <3>3. WalkOK(ring, o, index'[i], walk'[i])
      <4>1. CASE PastThePlace(i)
        BY <4>1, <1>2, <1>8, VoidWalk, VoidedIs DEF RingTypes
      <4>2. CASE ~PastThePlace(i)
        <5>1. Owes(walk[i], Ahead(ring, o, o[p])) /\ walk'[i] = walk[i]
          BY <4>2, <3>1, <1>8 DEF PlaceHeld
        <5>2. FromOn(ring, o, o[p + 1]) = Ahead(ring, o, o[p])
          BY <1>2, AheadAt
        <5>3. Rest(ring, o, index'[i]) = Ahead(ring, o, o[p])
          BY <5>2, <3>1, <1>6, <1>7 DEF Rest, PlaceHeld
        <5> QED BY <5>1, <5>2, <5>3, <3>1, <1>7 DEF WalkOK
      <4> QED BY <4>1, <4>2
    <3>4. Standing(ring', index'[i]) /\ WalkOK(ring', o, index'[i], walk'[i])
      BY <3>2, <3>3, <1>5, SameWalks
    <3>5. o[p + 1] \notin spare /\ index[i].prv \notin spare
      BY <2>1, <2>3, <1>6 DEF IndexHeld, RingTypes, RingAssumption, RingLinksAssumption
    <3> QED BY <3>4, <3>5, <2>3, <1>1, <1>7 DEF IndexHeld
  <2> QED BY <2>2, <2>3
<1>11. ~AsDocumented => ~fault' /\ \A j \in Indexes' : IndexHeld(ring, o, j)'
  BY <1>1, <1>7, <1>10 DEF Held
<1> QED BY <1>1, <1>4, <1>9, <1>11, IdleKept

LEMMA ThisDelKept ==
  ASSUME RingAssumption, RingTypes, job = NoJob, NEW o, JobOK(ring, o, job), Sound(ring, o, {}),
         ~AsDocumented => Held(o),
         NEW i \in Indexes, ThisDel(i)
  PROVE  RingInv'
<1> DEFINE x == index[i].cur
<1>1. CASE Dangling(x)
  BY <1>1, NeverDangling, FaultKept DEF ThisDel, Reading
<1>2. CASE ~Dangling(x)
  <2>1. /\ x # Null /\ MayDeleteAt(i) /\ ring' = Removed(ring, ring.prev[x], x, ring.next[x])
        /\ walk' = [WalksWithout({x}) EXCEPT ![i].afterdel = TRUE]
        /\ index' = [index EXCEPT ![i].cur = Null] /\ UNCHANGED <<job, spare, fault>>
    BY <1>2 DEF ThisDel, Reading, DeleteAt
  <2>2. Typed(ring) /\ Order(ring, o) /\ ring.count \in Nat
        /\ \A m \in 0 .. ring.count : ring.next[o[m]] = o[m + 1] /\ ring.prev[o[m + 1]] = o[m]
    BY Apart DEF Sound, Linked
  <2>3. x \in ring.live
    BY <2>1, <1>2 DEF Dangling, RingTypes, IndexType, RingAssumption, RingLinksAssumption
  <2>4. PICK k \in 1 .. ring.count : o[k] = x
    BY <2>2, <2>3 DEF Order
  <2>5. k \in 0 .. ring.count /\ k - 1 \in 0 .. ring.count /\ (k - 1) + 1 = k
    BY <2>2
  <2>6. ring.next[x] = o[k + 1] /\ ring.prev[x] = o[k - 1]
    BY <2>2, <2>4, <2>5
  <2> PICK u : u = Remove(o, ring.count, k)
    OBVIOUS
  <2>7. Sound(ring', u, {})
    BY <2>1, <2>4, <2>6, RemoveSound
  <2>8. ring'.live = ring.live \ {x} /\ ring'.count = ring.count - 1 /\ Typed(ring') /\ Order(ring', u)
    BY <2>1, <2>7 DEF Removed, Freed, Link, Sound
  <2>9. /\ Indexes' = Indexes /\ index' \in [Indexes -> IndexType]
        /\ \A j \in Indexes : j # i => index'[j] = index[j]
        /\ index'[i] = [cur |-> Null, nxt |-> index[i].nxt, prv |-> index[i].prv]
    BY <2>1 DEF RingTypes, Indexes, IndexType
  <2>10. \A j \in Indexes :
           /\ walk'[j] \in WalkType
           /\ walk'[j].due = walk[j].due \ {x} /\ walk'[j].met = walk[j].met \ {x}
           /\ walk'[j].void = walk[j].void /\ walk'[j].missed = walk[j].missed
           /\ walk'[j].again = walk[j].again
    <3> TAKE j \in Indexes
    <3> DEFINE v == Without(walk[j], {x})
    <3>1. /\ v \in WalkType
          /\ v.due = walk[j].due \ {x} /\ v.met = walk[j].met \ {x}
          /\ v.void = walk[j].void /\ v.missed = walk[j].missed /\ v.again = walk[j].again
      BY WithoutIs DEF RingTypes
    <3>2. walk'[j] = IF j = i THEN [v EXCEPT !.afterdel = TRUE] ELSE v
      BY <2>1 DEF WalksWithout
    <3> HIDE DEF v
    <3> QED BY <3>1, <3>2 DEF WalkType
  <2>11. walk' \in [Indexes -> WalkType]
    BY <2>1, <2>10 DEF WalksWithout
  <2>12. RingTypes'
    BY <2>1, <2>8, <2>9, <2>11 DEF RingTypes, NoJob
  <2>13. ASSUME ~AsDocumented, NEW j \in Indexes PROVE IndexHeld(ring, u, j)'
    <3>1. IndexHeld(ring, o, j)
      BY <2>13 DEF Held
    <3>2. /\ Standing(ring, index[j]) /\ WalkOK(ring, o, index[j], walk[j])
          /\ index[j].nxt \notin spare /\ index[j].prv \notin spare
      BY <3>1 DEF IndexHeld
    <3>3. /\ Noted(i) \subseteq ring.live \union {PRing}
          /\ j # i => SparesCurrent(x, j) /\ SparesNoted(x, j)
      BY <2>1, <2>13 DEF MayDeleteAt
    <3>4. Standing(ring, index'[j]) /\ WalkOK(ring, o, index'[j], walk[j])
          /\ index'[j].cur # x /\ (index'[j].cur = Null => x \notin {index'[j].nxt, index'[j].prv})
      <4>1. CASE j # i
        BY <4>1, <3>2, <3>3, <2>9 DEF SparesCurrent, SparesNoted, Noted
      <4>2. CASE j = i
        <5>1. index[i].nxt \in ring.live \union {PRing} /\ index[i].prv \in ring.live \union {PRing}
              /\ index[i].nxt \notin {x, Null} /\ index[i].prv \notin {x, Null}
          BY <4>2, <3>2, <3>3, <2>1 DEF Noted, Standing
        <5>2. Standing(ring, index'[i])
          BY <5>1, <2>9 DEF Standing
        <5>3. Owes(walk[i], FromOn(ring, o, index[i].nxt))
          BY <5>1, <4>2, <3>2, <2>1 DEF WalkOK
        <5>4. Rest(ring, o, index'[i]) = FromOn(ring, o, index[i].nxt)
          BY <5>1, <2>9 DEF Rest
        <5>5. WalkOK(ring, o, index'[i], walk[i])
          BY <5>3, <5>4, <4>2, <3>2, <2>9 DEF WalkOK
        <5> QED BY <5>1, <5>2, <5>5, <4>2, <2>1, <2>9
      <4> QED BY <4>1, <4>2
    <3>5. Standing(ring', index'[j]) /\ WalkOK(ring', u, index'[j], walk'[j])
      BY <3>4, <2>2, <2>4, <2>8, <2>10, RemoveHeld
    <3>6. index'[j].nxt = index[j].nxt /\ index'[j].prv = index[j].prv
      BY <2>9
    <3> QED BY <3>2, <3>5, <3>6, <2>1 DEF IndexHeld
  <2>14. ~AsDocumented => ~fault' /\ \A j \in Indexes' : IndexHeld(ring, u, j)'
    BY <2>1, <2>9, <2>13 DEF Held
  <2> QED BY <2>1, <2>7, <2>12, <2>14, IdleKept
<1> QED BY <1>1, <1>2


-----------------------------------------------------------------------------
(* The sort *)

LEMMA Taken1Is ==
  ASSUME NEW r, NEW m, SortRecord(m)
  PROVE  LET t == Taken1(r, m)
         IN  /\ SortRecord(t) /\ t.half = m.half /\ t.todo = m.todo /\ t.sorted = m.p1
             /\ t.p1 = r.next[m.p1] /\ t.n1 = m.n1 - 1 /\ t.last1 = m.last1 /\ t.p2 = m.p2
             /\ t.n2 = m.n2 /\ t.before = m.before
             /\ t.end = IF m.p2 = Null /\ m.n1 = 1 THEN r.next[m.p1] ELSE m.end
BY DEF Taken1, SortRecord, SortFields

LEMMA Taken2Is ==
  ASSUME NEW r, NEW m, SortRecord(m)
  PROVE  LET t == Taken2(r, m)
         IN  /\ SortRecord(t) /\ t.half = m.half /\ t.todo = m.todo /\ t.sorted = m.p2
             /\ t.p2 = r.next[m.p2] /\ t.n2 = m.n2 - 1 /\ t.last1 = m.last1 /\ t.p1 = m.p1
             /\ t.n1 = m.n1 /\ t.before = m.before
             /\ t.end = IF m.n2 = 1 THEN r.next[m.p2] ELSE m.end
BY DEF Taken2, SortRecord, SortFields

LEMMA HalfRingsIs ==
  ASSUME NEW r, NEW m, SortRecord(m)
  PROVE  LET t == HalfRings(r, m)
             n1 == Least(m.half, m.todo)
             n2 == Least(m.half, m.todo - n1)
             first == r.next[m.sorted]
             last1 == Advance(r.next, first, n1 - 1)
         IN  /\ SortRecord(t) /\ t.half = m.half /\ t.todo = m.todo - n1 - n2 /\ t.sorted = m.sorted
             /\ t.p1 = first /\ t.n1 = n1 /\ t.last1 = last1 /\ t.n2 = n2
             /\ t.p2 = IF n2 > 0 THEN r.next[last1] ELSE Null
             /\ t.end = m.end /\ t.before = m.before
BY DEF HalfRings, SortRecord, SortFields


\* Where a sort stands: after a items in place, what the merge may read.
LEMMA SortsAt ==
  ASSUME RingAssumption, NEW o, JobOK(ring, o, job), job.op = "sort"
  PROVE  /\ SortRecord(job) /\ job.half \in Nat \ {0} /\ job.n1 \in Nat /\ job.n2 \in Nat
         /\ job.todo \in Nat
         /\ Typed(ring) /\ Order(ring, o) /\ ring.count \in Nat
         /\ \E a \in 0 .. ring.count : Halves(ring, o, job, a)
BY OrderIs DEF SortJob

\* An item taken from the first half ring.
LEMMA Taken1Halves ==
  ASSUME RingAssumption, NEW r, NEW o, NEW j, SortRecord(j), j.n1 \in Nat, j.n2 \in Nat, j.todo \in Nat,
         NEW a \in 0 .. r.count, Halves(r, o, j, a), j.n1 > 0,
         NEW m, m = Taken1(r, j), NEW g, g = Link(r, j.sorted, j.p1),
         NEW h, h = IF m.n1 = 0 /\ m.n2 = 0 THEN Link(g, m.sorted, m.end) ELSE g
  PROVE  Halves(h, o, m, a + 1) /\ a + 1 \in 0 .. h.count /\ h.live = r.live
<1> DEFINE cut == IF j.p2 = Null THEN {a} ELSE {a, a + j.n1}
<1>1. /\ a + j.n1 + j.n2 + j.todo = r.count /\ j.sorted = o[a] /\ j.p1 = o[a + 1]
      /\ j.last1 = o[a + j.n1]
      /\ j.n2 > 0 => j.p2 # Null /\ j.p2 = o[a + j.n1 + 1]
      /\ j.n2 = 0 /\ j.p2 # Null => j.end = o[a + j.n1 + 1]
      /\ Sound(r, o, cut)
  BY DEF Halves
<1>2. r.count \in Nat
  BY <1>1, Apart DEF Sound
<1>3. /\ m.todo = j.todo /\ m.sorted = j.p1 /\ m.p1 = r.next[j.p1] /\ m.n1 = j.n1 - 1
      /\ m.last1 = j.last1 /\ m.p2 = j.p2 /\ m.n2 = j.n2
      /\ m.end = IF j.p2 = Null /\ j.n1 = 1 THEN r.next[j.p1] ELSE j.end
  BY Taken1Is
<1>4. a + 1 \in 0 .. r.count /\ a + 1 # a /\ (a + 1) + 1 = a + 2
  BY <1>1, <1>2
<1>5. a + 1 \notin cut => r.next[j.p1] = o[a + 2]
  BY <1>1, <1>4 DEF Sound, Linked
<1>6. Sound(g, o, cut \ {a}) /\ g.count = r.count /\ g.live = r.live
  BY <1>1, LinkSound DEF Link
<1>7. CASE m.n1 = 0 /\ m.n2 = 0
  <2>1. h = Link(g, m.sorted, m.end) /\ h.count = r.count /\ h.live = r.live
    BY <1>6, <1>7 DEF Link
  <2>2. j.n1 = 1 /\ j.n2 = 0 /\ a + j.n1 = a + 1 /\ a + j.n1 + 1 = a + 2
    BY <1>2, <1>3, <1>7
  <2>3. m.end = o[a + 2]
    <3>1. CASE j.p2 = Null
      BY <3>1, <2>2, <1>3, <1>4, <1>5
    <3>2. CASE j.p2 # Null
      BY <3>2, <2>2, <1>1, <1>3
    <3> QED BY <3>1, <3>2
  <2>4. Sound(h, o, (cut \ {a}) \ {a + 1})
    <3>1. Sound(Link(g, o[a + 1], o[(a + 1) + 1]), o, (cut \ {a}) \ {a + 1})
      BY <1>4, <1>6, LinkSound
    <3> QED BY <3>1, <2>1, <2>3, <1>1, <1>3, <1>4
  <2>5. (cut \ {a}) \ {a + 1} \subseteq {}
    BY <2>2
  <2>6. Sound(h, o, {})
    BY <2>4, <2>5, Weaker
  <2>7. (a + 1) + m.n1 + m.n2 + m.todo = h.count
    BY <2>1, <1>1, <1>3, <1>2
  <2> QED BY <2>1, <2>6, <2>7, <1>1, <1>3, <1>4, <1>7 DEF Halves
<1>8. CASE ~(m.n1 = 0 /\ m.n2 = 0)
  <2>1. h = g /\ h.count = r.count /\ h.live = r.live
    BY <1>6, <1>8
  <2>2. (a + 1) + m.n1 + m.n2 + m.todo = h.count /\ (a + 1) + m.n1 = a + j.n1
        /\ (a + 1) + m.n1 + 1 = a + j.n1 + 1
    BY <2>1, <1>1, <1>2, <1>3
  <2>3. m.n1 > 0 => m.p1 = o[(a + 1) + 1] /\ m.last1 = o[(a + 1) + m.n1]
    <3> HAVE m.n1 > 0
    <3>1. a + 1 \notin cut
      BY <1>1, <1>2, <1>3
    <3> QED BY <3>1, <2>2, <1>1, <1>3, <1>4, <1>5
  <2>4. m.n2 > 0 => m.p2 # Null /\ m.p2 = o[(a + 1) + m.n1 + 1]
    BY <2>2, <1>1, <1>3
  <2>5. m.n2 = 0 /\ m.n1 > 0 /\ m.p2 # Null => m.end = o[(a + 1) + m.n1 + 1]
    BY <2>2, <1>1, <1>3
  <2>6. Sound(h, o, IF m.p2 = Null THEN {a + 1} ELSE {a + 1, (a + 1) + m.n1})
    BY <2>1, <2>2, <1>3, <1>6, Weaker
  <2> QED BY <2>1, <2>2, <2>3, <2>4, <2>5, <2>6, <1>1, <1>3, <1>4, <1>8 DEF Halves
<1> QED BY <1>7, <1>8

\* An item taken from the second half ring: it passes before those of the first one.
LEMMA Taken2Halves ==
  ASSUME RingAssumption, NEW r, NEW o, NEW j, SortRecord(j), j.n1 \in Nat, j.n2 \in Nat, j.todo \in Nat,
         NEW a \in 0 .. r.count, Halves(r, o, j, a), j.n2 > 0,
         NEW m, m = Taken2(r, j), NEW g, g = Link(r, j.sorted, j.p2),
         NEW h, h = IF m.n1 = 0 /\ m.n2 = 0 THEN Link(g, m.sorted, m.end) ELSE g,
         NEW u, u = Shift(o, r.count, a, a + j.n1 + 1)
  PROVE  Halves(h, u, m, a + 1) /\ a + 1 \in 0 .. h.count /\ h.live = r.live
<1> DEFINE n == r.count
           b == a + j.n1 + 1
<1>1. /\ a + j.n1 + j.n2 + j.todo = n /\ j.sorted = o[a]
      /\ j.n1 > 0 => j.p1 = o[a + 1] /\ j.last1 = o[a + j.n1]
      /\ j.p2 = o[b] /\ j.p2 # Null /\ Sound(r, o, {a, a + j.n1})
  BY DEF Halves
<1>2. n \in Nat /\ Typed(r) /\ Order(r, o) /\ Null \notin Nodes
  BY <1>1, Apart DEF Sound
<1>3. /\ m.todo = j.todo /\ m.sorted = j.p2 /\ m.p2 = r.next[j.p2] /\ m.n2 = j.n2 - 1
      /\ m.last1 = j.last1 /\ m.p1 = j.p1 /\ m.n1 = j.n1
      /\ m.end = IF j.n2 = 1 THEN r.next[j.p2] ELSE j.end
  BY Taken2Is
<1>4. /\ b \in 1 .. n /\ b \in 0 .. n /\ a < b /\ b \notin {a, a + j.n1} /\ b + 1 \in 0 .. n + 1
      /\ a + 1 \in 0 .. n /\ (a + 1) + 1 = a + 2 /\ a + 2 \in 0 .. n + 1 /\ b = (a + 1) + j.n1
      /\ a + j.n1 \in 0 .. n
  BY <1>1, <1>2
<1>5. r.next[j.p2] = o[b + 1] /\ o[b + 1] # Null
  <2>1. Linked(r, o, b)
    BY <1>1, <1>4 DEF Sound
  <2>2. o[b + 1] \in Nodes
    BY <1>2, <1>4, Apart
  <2> QED BY <2>1, <2>2, <1>1, <1>2 DEF Linked
<1>6. /\ u[a] = o[a] /\ u[a + 1] = o[b] /\ u[b + 1] = o[b + 1]
      /\ j.n1 > 0 => u[a + 2] = o[a + 1] /\ u[b] = o[a + j.n1]
  <2>1. \A k \in 0 .. n + 1 : u[k] = IF k = a + 1 THEN o[b]
                                     ELSE IF a + 1 < k /\ k <= b THEN o[k - 1] ELSE o[k]
    BY DEF Shift
  <2>2. /\ a \in 0 .. n + 1 /\ a + 1 \in 0 .. n + 1 /\ b \in 0 .. n + 1 /\ b + 1 \in 0 .. n + 1
        /\ a # a + 1 /\ ~(a + 1 < a) /\ b + 1 # a + 1 /\ ~(b + 1 <= b)
        /\ j.n1 > 0 => /\ a + 2 # a + 1 /\ a + 1 < a + 2 /\ a + 2 <= b /\ (a + 2) - 1 = a + 1
                       /\ b # a + 1 /\ a + 1 < b /\ b <= b /\ b - 1 = a + j.n1
    BY <1>2, <1>4
  <2>3. u[a] = o[a] /\ u[a + 1] = o[b] /\ u[b + 1] = o[b + 1]
    BY <2>1, <2>2
  <2>4. j.n1 > 0 => u[a + 2] = o[a + 1] /\ u[b] = o[a + j.n1]
    <3> HAVE j.n1 > 0
    <3>1. u[a + 2] = o[a + 1]
      BY <2>1, <2>2, <1>4
    <3>2. u[b] = o[a + j.n1]
      BY <2>1, <2>2
    <3> QED BY <3>1, <3>2
  <2> QED BY <2>3, <2>4
<1> HIDE DEF b
<1>7. Sound(r, u, {a, a + 1, b})
  <2> PICK c : c = {a, a + j.n1}
    OBVIOUS
  <2>1. Sound(r, o, c) /\ u = Shift(o, n, a, b)
    BY <1>1 DEF b
  <2>2. Sound(r, Shift(o, n, a, b), Broken(n, a, b, c))
    BY <2>1, <1>4, ShiftSound
  <2>3. Broken(n, a, b, c) \subseteq {a, a + 1, b}
    <3>1. ASSUME NEW k \in 0 .. n, (k < a \/ k > b) /\ k \in c PROVE FALSE
      BY <3>1, <1>2, <1>4
    <3>2. ASSUME NEW k \in 0 .. n, a + 1 < k /\ k < b /\ k - 1 \in c PROVE FALSE
      BY <3>2, <1>2, <1>4
    <3> QED BY <3>1, <3>2 DEF Broken
  <2> QED BY <2>1, <2>2, <2>3, Weaker
<1>8. Sound(g, u, {a + 1, b}) /\ g.count = n /\ g.live = r.live
  <2>1. Sound(Link(r, u[a], u[a + 1]), u, {a, a + 1, b} \ {a})
    BY <1>7, LinkSound
  <2>2. {a, a + 1, b} \ {a} \subseteq {a + 1, b}
    OBVIOUS
  <2>3. g = Link(r, u[a], u[a + 1])
    BY <1>1, <1>6
  <2> QED BY <2>1, <2>2, <2>3, Weaker DEF Link
<1>9. CASE m.n1 = 0 /\ m.n2 = 0
  <2>1. h = Link(g, m.sorted, m.end) /\ h.count = n /\ h.live = r.live
    BY <1>8, <1>9 DEF Link
  <2>2. j.n1 = 0 /\ j.n2 = 1 /\ b = a + 1 /\ b + 1 = a + 2
    BY <1>2, <1>3, <1>4, <1>9
  <2>3. m.end = u[(a + 1) + 1] /\ m.sorted = u[a + 1]
    BY <2>2, <1>1, <1>3, <1>4, <1>5, <1>6
  <2>4. Sound(Link(g, u[a + 1], u[(a + 1) + 1]), u, {a + 1, b} \ {a + 1})
    BY <1>4, <1>8, LinkSound
  <2>5. Sound(h, u, {})
    BY <2>1, <2>2, <2>3, <2>4, Weaker
  <2>6. (a + 1) + m.n1 + m.n2 + m.todo = h.count
    BY <2>1, <1>1, <1>2, <1>3
  <2> QED BY <2>1, <2>3, <2>5, <2>6, <1>4, <1>9 DEF Halves
<1>10. CASE ~(m.n1 = 0 /\ m.n2 = 0)
  <2>1. h = g /\ h.count = n /\ h.live = r.live
    BY <1>8, <1>10
  <2>2. (a + 1) + m.n1 + m.n2 + m.todo = h.count /\ (a + 1) + m.n1 = b /\ (a + 1) + m.n1 + 1 = b + 1
    BY <2>1, <1>1, <1>2, <1>3, <1>4
  <2>3. m.n1 > 0 => m.p1 = u[(a + 1) + 1] /\ m.last1 = u[(a + 1) + m.n1]
    BY <2>2, <1>1, <1>3, <1>4, <1>6
  <2>4. m.p2 # Null /\ m.p2 = u[(a + 1) + m.n1 + 1]
    BY <2>2, <1>3, <1>5, <1>6
  <2>5. m.n2 = 0 /\ m.n1 > 0 /\ m.p2 # Null => m.end = u[(a + 1) + m.n1 + 1]
    <3> HAVE m.n2 = 0 /\ m.n1 > 0 /\ m.p2 # Null
    <3>1. j.n2 = 1
      BY <1>3
    <3> QED BY <3>1, <2>2, <1>3, <1>5, <1>6
  <2>6. Sound(h, u, {a + 1, (a + 1) + m.n1}) /\ m.sorted = u[a + 1]
    BY <2>1, <2>2, <1>1, <1>3, <1>6, <1>8
  <2> QED BY <2>1, <2>2, <2>3, <2>4, <2>5, <2>6, <1>4, <1>10 DEF Halves
<1> QED BY <1>9, <1>10


LEMMA SortHalvesKept ==
  ASSUME RingAssumption, RingTypes, NEW o, JobOK(ring, o, job), ~AsDocumented => Held(o),
         (job = NoJob /\ Sort) \/ SortHalves
  PROVE  RingInv'
<1>1. CASE job = NoJob /\ Sort
  <2> DEFINE j == [op |-> "sort", half |-> 1, todo |-> ring.count, sorted |-> PRing,
                   p1 |-> Null, n1 |-> 0, last1 |-> Null, p2 |-> Null, n2 |-> 0, end |-> Null,
                   before |-> ItemsOf(ring)]
  <2>1. Sound(ring, o, {}) /\ ring.count \in Nat
    BY <1>1, OrderIs
  <2>2. /\ SortRecord(j) /\ j.op = "sort" /\ j.half = 1 /\ j.n1 = 0 /\ j.n2 = 0
        /\ j.todo = ring.count /\ j.sorted = PRing
    BY DEF SortRecord, SortFields
  <2>3. Reorders("sort", j)
    BY <1>1 DEF Sort
  <2> HIDE DEF j
  <2>4. Halves(ring, o, j, 0) /\ 0 \in 0 .. ring.count
    BY <2>1, <2>2 DEF Halves, Sound, Order
  <2>5. JobOK(ring, o, j)
    BY <2>1, <2>2, <2>4 DEF JobOK, SortJob
  <2> QED BY <2>2, <2>3, <2>5, ReordersKept
<1>2. CASE SortHalves
  <2>1. job.op = "sort" /\ job.n1 = 0 /\ job.n2 = 0 /\ UNCHANGED <<ring, index, walk, spare, fault>>
    BY <1>2 DEF SortHalves
  <2>2. SortRecord(job) /\ job.half \in Nat \ {0} /\ job.todo \in Nat /\ ring.count \in Nat
    BY <2>1, SortsAt
  <2>3. PICK a \in 0 .. ring.count : Halves(ring, o, job, a)
    BY <2>1, SortsAt
  <2>4. a + job.todo = ring.count /\ job.sorted = o[a] /\ Sound(ring, o, {})
    BY <2>1, <2>2, <2>3 DEF Halves
  <2>5. CASE job.todo > 0 /\ job' = HalfRings(ring, job)
    <3> DEFINE n1 == Least(job.half, job.todo)
               n2 == Least(job.half, job.todo - n1)
    <3>1. /\ n1 \in Nat /\ n2 \in Nat /\ n1 > 0 /\ n1 + n2 <= job.todo /\ n1 - 1 \in Nat
          /\ a + 1 \in 0 .. ring.count + 1 /\ (a + 1) + (n1 - 1) = a + n1
          /\ a + n1 <= ring.count + 1 /\ a + n1 \in 0 .. ring.count
      BY <2>2, <2>4, <2>5 DEF Least
    <3>2. ring.next[job.sorted] = o[a + 1] /\ ring.next[o[a + n1]] = o[a + n1 + 1]
      BY <2>4, <3>1 DEF Sound, Linked
    <3>3. Advance(ring.next, o[a + 1], n1 - 1) = o[a + n1]
      BY <2>4, <3>1, AdvanceIs
    <3>4. a + n1 + 1 \in 0 .. ring.count + 1
      BY <3>1, <2>2
    <3>5. o[a + n1 + 1] # Null
      BY <2>4, <3>4, Apart DEF Sound
    <3>6. /\ SortRecord(job') /\ job'.half = job.half /\ job'.todo = job.todo - n1 - n2
          /\ job'.sorted = o[a] /\ job'.p1 = o[a + 1] /\ job'.n1 = n1 /\ job'.last1 = o[a + n1]
          /\ job'.n2 = n2 /\ job'.p2 = IF n2 > 0 THEN o[a + n1 + 1] ELSE Null
      BY <2>2, <2>4, <2>5, <3>2, <3>3, HalfRingsIs
    <3>7. a + n1 + n2 + job'.todo = ring.count /\ job'.todo \in Nat
      BY <2>2, <2>4, <3>1, <3>6
    <3> HIDE DEF n1, n2
    <3>8. Sound(ring, o, {a}) /\ Sound(ring, o, {a, a + n1})
      BY <2>4, Weaker
    <3>9. Halves(ring, o, job', a)
      BY <3>1, <3>5, <3>6, <3>7, <3>8 DEF Halves
    <3>10. JobOK(ring', o, job') /\ job'.op = "sort"
      BY <2>1, <2>2, <3>1, <3>6, <3>7, <3>9 DEF JobOK, SortJob, SortRecord
    <3> QED BY <2>1, <3>10, VoidKept
  <2>6. CASE job' = [job EXCEPT !.half = 2 * job.half, !.todo = ring.count, !.sorted = PRing]
    <3>1. /\ SortRecord(job') /\ job'.half = 2 * job.half /\ job'.todo = ring.count
          /\ job'.sorted = PRing /\ job'.n1 = 0 /\ job'.n2 = 0 /\ job'.op = "sort"
      BY <2>1, <2>2, <2>6 DEF SortRecord, SortFields
    <3>2. Halves(ring, o, job', 0) /\ 0 \in 0 .. ring.count
      BY <2>2, <2>4, <3>1 DEF Halves, Sound, Order
    <3>3. JobOK(ring', o, job')
      BY <2>1, <2>2, <3>1, <3>2 DEF JobOK, SortJob
    <3> QED BY <2>1, <3>1, <3>3, VoidKept
  <2>7. CASE job' = NoJob
    <3>1. JobOK(ring', o, job') /\ job'.op = "none"
      BY <2>1, <2>4, <2>7 DEF JobOK, NoJob
    <3> QED BY <2>1, <3>1, VoidKept
  <2> QED BY <1>2, <2>5, <2>6, <2>7 DEF SortHalves, Ends
<1> QED BY <1>1, <1>2

LEMMA SortStepKept ==
  ASSUME RingAssumption, RingTypes, NEW o, JobOK(ring, o, job), ~AsDocumented => Held(o), SortStep
  PROVE  RingInv'
<1>1. job.op = "sort" /\ UNCHANGED <<index, walk, spare, fault>>
  BY DEF SortStep
<1>2. /\ SortRecord(job) /\ job.half \in Nat \ {0} /\ job.n1 \in Nat /\ job.n2 \in Nat
      /\ job.todo \in Nat /\ ring.count \in Nat
  BY <1>1, SortsAt
<1>3. PICK a \in 0 .. ring.count : Halves(ring, o, job, a)
  BY <1>1, SortsAt
<1>4. CASE job.n1 > 0 /\ Appended(job.p1, Taken1(ring, job))
  <2>1. /\ job' = Taken1(ring, job)
        /\ ring' = IF job'.n1 = 0 /\ job'.n2 = 0
                   THEN Link(Link(ring, job.sorted, job.p1), job'.sorted, job'.end)
                   ELSE Link(ring, job.sorted, job.p1)
    BY <1>4 DEF Appended
  <2>2. Halves(ring', o, job', a + 1) /\ a + 1 \in 0 .. ring'.count /\ ring'.live = ring.live
    BY <2>1, <1>2, <1>3, <1>4, Taken1Halves
  <2>3. /\ SortRecord(job') /\ job'.half = job.half /\ job'.n1 = job.n1 - 1
        /\ job'.n2 = job.n2 /\ job'.todo = job.todo
    BY <2>1, <1>2, Taken1Is
  <2>4. JobOK(ring', o, job') /\ job'.op = "sort"
    BY <2>2, <2>3, <1>2, <1>4 DEF JobOK, SortJob, SortRecord
  <2> QED BY <2>2, <2>4, <1>1, VoidKept
<1>5. CASE job.n2 > 0 /\ Appended(job.p2, Taken2(ring, job))
  <2> PICK u : u = Shift(o, ring.count, a, a + job.n1 + 1)
    OBVIOUS
  <2>1. /\ job' = Taken2(ring, job)
        /\ ring' = IF job'.n1 = 0 /\ job'.n2 = 0
                   THEN Link(Link(ring, job.sorted, job.p2), job'.sorted, job'.end)
                   ELSE Link(ring, job.sorted, job.p2)
    BY <1>5 DEF Appended
  <2>2. Halves(ring', u, job', a + 1) /\ a + 1 \in 0 .. ring'.count /\ ring'.live = ring.live
    BY <2>1, <1>2, <1>3, <1>5, Taken2Halves
  <2>3. /\ SortRecord(job') /\ job'.half = job.half /\ job'.n1 = job.n1
        /\ job'.n2 = job.n2 - 1 /\ job'.todo = job.todo
    BY <2>1, <1>2, Taken2Is
  <2>4. JobOK(ring', u, job') /\ job'.op = "sort"
    BY <2>2, <2>3, <1>2, <1>5 DEF JobOK, SortJob, SortRecord
  <2> QED BY <2>2, <2>4, <1>1, VoidKept
<1> QED BY <1>4, <1>5 DEF SortStep

\* What is left of the two half rings is relinked: no item is lost.
LEMMA SortFailsKept ==
  ASSUME RingAssumption, RingTypes, NEW o, JobOK(ring, o, job), ~AsDocumented => Held(o), SortFails
  PROVE  RingInv'
<1>1. /\ job.op = "sort" /\ job.n1 > 0 /\ job.n2 > 0 /\ ring' = Relinked(ring, job) /\ job' = NoJob
      /\ UNCHANGED <<index, walk, spare, fault>>
  BY DEF SortFails, Ends
<1>2. job.n1 \in Nat /\ job.n2 \in Nat /\ job.todo \in Nat /\ ring.count \in Nat
  BY <1>1, SortsAt
<1>3. PICK a \in 0 .. ring.count : Halves(ring, o, job, a)
  BY <1>1, SortsAt
<1>4. /\ a + job.n1 + job.n2 + job.todo = ring.count
      /\ job.sorted = o[a] /\ job.p1 = o[a + 1] /\ job.last1 = o[a + job.n1]
      /\ job.p2 = o[a + job.n1 + 1] /\ Sound(ring, o, {a, a + job.n1})
  BY <1>1, <1>2, <1>3 DEF Halves
<1> DEFINE g == Link(ring, o[a], o[a + 1])
<1>5. g.count = ring.count /\ g.live = ring.live /\ a + job.n1 \in 0 .. ring.count
  BY <1>2, <1>4 DEF Link
<1>6. Sound(g, o, {a, a + job.n1} \ {a})
  BY <1>4, LinkSound
<1> HIDE DEF g
<1>7. Sound(Link(g, o[a + job.n1], o[a + job.n1 + 1]), o, ({a, a + job.n1} \ {a}) \ {a + job.n1})
  BY <1>5, <1>6, LinkSound
<1>8. ring' = Link(g, o[a + job.n1], o[a + job.n1 + 1])
  BY <1>1, <1>4 DEF Relinked, g
<1>9. Sound(ring', o, {}) /\ ring'.live = ring.live
  BY <1>5, <1>7, <1>8, Weaker DEF Link
<1>10. JobOK(ring', o, job') /\ job'.op = "none"
  BY <1>1, <1>9 DEF JobOK, NoJob
<1> QED BY <1>1, <1>9, <1>10, VoidKept


-----------------------------------------------------------------------------
(* Moves of an index *)

LEMMA MoveKept ==
  ASSUME RingAssumption, RingTypes, job = NoJob, NEW o, Sound(ring, o, {}), ~AsDocumented => Held(o),
         NEW i \in Indexes, NEW ix \in IndexType, NEW w \in WalkType,
         index' = [index EXCEPT ![i] = ix], walk' = [walk EXCEPT ![i] = w],
         UNCHANGED <<ring, job, spare, fault>>,
         ~AsDocumented => /\ Standing(ring, ix) /\ WalkOK(ring, o, ix, w)
                          /\ ix.nxt \notin spare /\ ix.prv \notin spare
  PROVE  RingInv'
<1>1. /\ Indexes' = Indexes /\ index' \in [Indexes -> IndexType] /\ walk' \in [Indexes -> WalkType]
      /\ \A j \in Indexes : j # i => index'[j] = index[j] /\ walk'[j] = walk[j]
      /\ index'[i] = ix /\ walk'[i] = w
  BY DEF RingTypes, Indexes
<1>2. RingTypes'
  BY <1>1 DEF RingTypes, NoJob
<1>3. ASSUME ~AsDocumented, NEW j \in Indexes PROVE IndexHeld(ring, o, j)'
  <2>1. IndexHeld(ring, o, j)
    BY <1>3 DEF Held
  <2>2. CASE j = i
    BY <2>2, <1>1, <1>3 DEF IndexHeld
  <2>3. CASE j # i
    BY <2>1, <2>3, <1>1 DEF IndexHeld
  <2> QED BY <2>2, <2>3
<1>4. ~AsDocumented => ~fault' /\ \A j \in Indexes' : IndexHeld(ring, o, j)'
  BY <1>1, <1>3 DEF Held
<1> QED BY <1>2, <1>4, IdleKept

\* An index that steps to an item notes its neighbours.
LEMMA StepIs ==
  ASSUME RingAssumption, RingTypes, NEW o, Sound(ring, o, {}), NEW m \in 1 .. ring.count,
         NEW ix, ix = [cur |-> o[m], nxt |-> ring.next[o[m]], prv |-> ring.prev[o[m]]]
  PROVE  /\ ix \in IndexType /\ Standing(ring, ix) /\ ix.nxt \notin spare /\ ix.prv \notin spare
         /\ \A w : /\ w.met \subseteq ring.live /\ Owes(w, Ahead(ring, o, o[m]))
                   /\ w.void => w.due = {} /\ w.met = {}
                   /\ w.missed = {} /\ ~w.again
                 => WalkOK(ring, o, ix, w)
<1> DEFINE n == ring.count
<1>1. Typed(ring) /\ Order(ring, o) /\ n \in Nat
  BY Apart DEF Sound
<1>2. /\ m \in 0 .. n /\ m - 1 \in 0 .. n /\ (m - 1) + 1 = m /\ m - 1 # m /\ m + 1 # m
      /\ m \in 1 .. n + 1 /\ m + 1 \in 1 .. n + 1 /\ m + 1 \in 0 .. n + 1 /\ m - 1 \in 0 .. n + 1
  BY <1>1
<1>3. ix.cur = o[m] /\ ix.nxt = o[m + 1] /\ ix.prv = o[m - 1]
  BY <1>2 DEF Sound, Linked
<1>4. o[m + 1] # o[m] /\ o[m - 1] # o[m] /\ o[m + 1] \in Nodes /\ o[m - 1] \in Nodes /\ Null \notin Nodes
  BY <1>1, <1>2, Apart
<1>5. o[m] \in ring.live /\ o[m] # Null
  BY <1>1 DEF Order, Typed, RingAssumption, RingLinksAssumption
<1>6. o[m + 1] \in ring.live \union {PRing} /\ o[m - 1] \in ring.live \union {PRing}
  <2>1. (m + 1 \in 1 .. n \/ m + 1 = n + 1) /\ (m - 1 \in 1 .. n \/ m - 1 = 0)
    BY <1>1
  <2> QED BY <2>1, <1>1 DEF Order
<1>7. ix \in IndexType
  BY <1>1, <1>3, <1>4, <1>5 DEF IndexType, Typed
<1>8. Standing(ring, ix)
  BY <1>3, <1>4, <1>5 DEF Standing
<1>9. ix.nxt \notin spare /\ ix.prv \notin spare
  BY <1>3, <1>6 DEF RingTypes, RingAssumption, RingLinksAssumption
<1>10. FromOn(ring, o, ix.nxt) = Ahead(ring, o, o[m]) /\ Rest(ring, o, ix) = Ahead(ring, o, o[m])
  BY <1>1, <1>2, <1>3, <1>5, AheadAt DEF Rest
<1> QED BY <1>7, <1>8, <1>9, <1>10 DEF WalkOK

LEMMA RewindKept ==
  ASSUME RingAssumption, RingTypes, job = NoJob, NEW o, Sound(ring, o, {}), ~AsDocumented => Held(o),
         NEW i \in Indexes, NEW j \in Indexes, Rewind(i) \/ CopyIndex(i, j)
  PROVE  RingInv'
<1>1. CASE Rewind(i)
  <2> DEFINE w == WalkOver(ring.live)
  <2>1. Start \in IndexType /\ Start.cur = Null /\ Start.nxt = Null /\ Start.prv = Null
    BY DEF Start, IndexType
  <2>2. /\ w \in WalkType /\ w.due = ring.live /\ w.met = {} /\ w.missed = {} /\ ~w.again /\ ~w.void
    BY DEF WalkOver, WalkType, Sound, Typed
  <2>3. index' = [index EXCEPT ![i] = Start] /\ walk' = [walk EXCEPT ![i] = w]
        /\ UNCHANGED <<ring, job, spare, fault>>
    BY <1>1 DEF Rewind
  <2> HIDE DEF w
  <2>4. Standing(ring, Start) /\ Start.nxt \notin spare /\ Start.prv \notin spare
    BY <2>1 DEF Standing, RingTypes, RingAssumption, RingLinksAssumption
  <2>5. WalkOK(ring, o, Start, w)
    BY <2>1, <2>2 DEF WalkOK, Rest, Owes
  <2> QED BY <2>1, <2>2, <2>3, <2>4, <2>5, MoveKept
<1>2. CASE CopyIndex(i, j)
  <2>1. index[j] \in IndexType /\ walk[j] \in WalkType
    BY DEF RingTypes
  <2>2. ~AsDocumented => /\ Standing(ring, index[j]) /\ WalkOK(ring, o, index[j], walk[j])
                         /\ index[j].nxt \notin spare /\ index[j].prv \notin spare
    BY DEF Held, IndexHeld
  <2>3. index' = [index EXCEPT ![i] = index[j]] /\ walk' = [walk EXCEPT ![i] = walk[j]]
        /\ UNCHANGED <<ring, job, spare, fault>>
    BY <1>2 DEF CopyIndex
  <2> QED BY <2>1, <2>2, <2>3, MoveKept
<1> QED BY <1>1, <1>2

\* Where the search of the next item begins, and what is still owed from there on.
LEMMA FirstIs ==
  ASSUME RingAssumption, RingTypes, NEW o, Sound(ring, o, {}),
         NEW i \in Indexes, ~Dangling(NextFrom(i)),
         NEW first, first = IF index[i].cur = Null /\ index[i].nxt # Null
                            THEN NextFrom(i) ELSE ring.next[NextFrom(i)]
  PROVE  \E f \in 0 .. ring.count :
           /\ first = o[f + 1]
           /\ IndexHeld(ring, o, i) => Owes(walk[i], Ahead(ring, o, o[f]))
<1> DEFINE n == ring.count
           ix == index[i]
<1>1. /\ Typed(ring) /\ Order(ring, o) /\ n \in Nat /\ o[0] = PRing
      /\ \A k \in 0 .. n : ring.next[o[k]] = o[k + 1]
  BY Apart DEF Sound, Order, Linked
<1>2. IndexHeld(ring, o, i) => Owes(walk[i], Rest(ring, o, ix))
  BY DEF IndexHeld, WalkOK
<1>3. CASE ix.cur # Null
  <2>1. NextFrom(i) = ix.cur /\ first = ring.next[ix.cur] /\ Rest(ring, o, ix) = Ahead(ring, o, ix.cur)
    BY <1>3 DEF NextFrom, Rest
  <2>2. ix.cur \in ring.live \union {PRing}
    BY <2>1, <1>3 DEF Dangling
  <2>3. PICK f \in 0 .. n : o[f] = ix.cur
    BY <2>2, <1>1, Apart
  <2> QED BY <2>1, <2>3, <1>1, <1>2
<1>4. CASE ix.cur = Null /\ ix.nxt # Null
  <2>1. NextFrom(i) = ix.nxt /\ first = ix.nxt /\ Rest(ring, o, ix) = FromOn(ring, o, ix.nxt)
    BY <1>4 DEF NextFrom, Rest
  <2>2. ix.nxt \in ring.live \union {PRing}
    BY <2>1, <1>4 DEF Dangling
  <2>3. PICK k \in 1 .. n + 1 : o[k] = ix.nxt
    BY <2>2, <1>1, Apart
  <2>4. k - 1 \in 0 .. n /\ (k - 1) + 1 = k
    BY <1>1
  <2>5. FromOn(ring, o, ix.nxt) = Ahead(ring, o, o[k - 1])
    BY <2>3, <2>4, <1>1, AheadAt
  <2> QED BY <2>1, <2>3, <2>4, <2>5, <1>2
<1>5. CASE ix.cur = Null /\ ix.nxt = Null
  <2>1. NextFrom(i) = PRing /\ first = ring.next[PRing] /\ Rest(ring, o, ix) = ring.live
    BY <1>5 DEF NextFrom, Rest
  <2>2. 0 \in 0 .. n /\ Ahead(ring, o, o[0]) = ring.live
    BY <1>1, AheadAt
  <2> QED BY <2>1, <2>2, <1>1, <1>2
<1> QED BY <1>3, <1>4, <1>5

SeenFrom(o, f, n) == {o[f + 1 + k] : k \in 0 .. n} \ {PRing}

\* The items met are those that followed, and those that are left are still ahead.
LEMMA MetKept ==
  ASSUME RingAssumption, NEW o, Sound(ring, o, {}), NEW f \in 0 .. ring.count, NEW n \in Nat,
         f + 1 + n <= ring.count + 1,
         NEW seen, seen = SeenFrom(o, f, n),
         NEW w \in WalkType, w.met \subseteq ring.live, Owes(w, Ahead(ring, o, o[f])),
         w.void => w.due = {} /\ w.met = {}, w.missed = {}, ~w.again
  PROVE  /\ f + 1 + n <= ring.count =>
              /\ Met(w, seen).met \subseteq ring.live
              /\ Owes(Met(w, seen), Ahead(ring, o, o[f + 1 + n]))
              /\ Met(w, seen).void => Met(w, seen).due = {} /\ Met(w, seen).met = {}
              /\ Met(w, seen).missed = {} /\ ~Met(w, seen).again
         /\ f + 1 + n = ring.count + 1 => w.due \ seen = {}
<1>1. Typed(ring) /\ Order(ring, o) /\ ring.count \in Nat /\ o[ring.count + 1] = PRing
  BY Apart DEF Sound, Order
<1>2. \A x \in seen : \E q \in 1 .. ring.count : x = o[q] /\ f < q /\ q <= f + 1 + n
  <2> TAKE x \in seen
  <2>1. PICK k \in 0 .. n : x = o[f + 1 + k] /\ x # PRing
    BY DEF SeenFrom
  <2>2. f + 1 + k \in 1 .. ring.count \/ f + 1 + k = ring.count + 1
    BY <1>1
  <2>3. f + 1 + k \in 1 .. ring.count /\ f < f + 1 + k /\ f + 1 + k <= f + 1 + n
    BY <2>1, <2>2, <1>1
  <2> QED BY <2>1, <2>3
<1>3. \A q \in 1 .. ring.count : f < q /\ q <= f + 1 + n => o[q] \in seen
  <2> TAKE q \in 1 .. ring.count
  <2> HAVE f < q /\ q <= f + 1 + n
  <2>1. q - (f + 1) \in 0 .. n /\ f + 1 + (q - (f + 1)) = q
    BY <1>1
  <2>2. o[q] # PRing
    BY <1>1 DEF Order, Typed, RingAssumption, RingLinksAssumption
  <2> QED BY <2>1, <2>2 DEF SeenFrom
<1>4. seen \subseteq Ahead(ring, o, o[f]) /\ seen \subseteq ring.live
  <2> SUFFICES ASSUME NEW x \in seen PROVE x \in Ahead(ring, o, o[f]) /\ x \in ring.live
    OBVIOUS
  <2>1. PICK q \in 1 .. ring.count : x = o[q] /\ f < q
    BY <1>2
  <2>2. o[q] \in Ahead(ring, o, o[f]) <=> f < q
    BY <1>1, AheadAt
  <2> QED BY <2>1, <2>2, <1>1 DEF Order
<1>5. \A x \in Ahead(ring, o, o[f]) \ seen : \E q \in 1 .. ring.count : x = o[q] /\ f + 1 + n < q
  <2> TAKE x \in Ahead(ring, o, o[f]) \ seen
  <2>1. PICK q \in 1 .. ring.count : o[q] = x /\ f < q
    BY <1>1, AheadAt
  <2>2. ~(q <= f + 1 + n)
    BY <2>1, <1>3
  <2> QED BY <2>1, <2>2, <1>1
<1>6. f + 1 + n = ring.count + 1 => w.due \ seen = {}
  <2> HAVE f + 1 + n = ring.count + 1
  <2>1. \A q \in 1 .. ring.count : ~(f + 1 + n < q)
    BY <1>1
  <2>2. Ahead(ring, o, o[f]) \subseteq seen
    BY <2>1, <1>5
  <2> QED BY <2>2 DEF Owes
<1>7. ASSUME f + 1 + n <= ring.count
      PROVE  /\ Met(w, seen).met \subseteq ring.live
             /\ Owes(Met(w, seen), Ahead(ring, o, o[f + 1 + n]))
             /\ Met(w, seen).void => Met(w, seen).due = {} /\ Met(w, seen).met = {}
             /\ Met(w, seen).missed = {} /\ ~Met(w, seen).again
  <2>1. seen \in SUBSET Items
    BY <1>1, <1>4 DEF Typed
  <2> DEFINE v == Met(w, seen)
  <2>2. /\ v.due = w.due \ seen /\ v.met = (IF w.void THEN {} ELSE w.met \union seen)
        /\ v.missed = w.missed /\ v.void = w.void
        /\ (v.again <=> w.again \/ w.met \intersect seen # {})
    BY <2>1, MetIs
  <2> HIDE DEF v
  <2>3. \A q \in 1 .. ring.count : o[q] \in Ahead(ring, o, o[f + 1 + n]) <=> f + 1 + n < q
    <3>1. f + 1 + n \in 0 .. ring.count
      BY <1>1, <1>7
    <3> QED BY <3>1, <1>1, AheadAt
  <2>4. w.due \ seen \subseteq Ahead(ring, o, o[f + 1 + n])
    BY <2>3, <1>5 DEF Owes
  <2>5. Ahead(ring, o, o[f + 1 + n]) \subseteq Ahead(ring, o, o[f])
    <3> SUFFICES ASSUME NEW x \in Ahead(ring, o, o[f + 1 + n]) PROVE x \in Ahead(ring, o, o[f])
      OBVIOUS
    <3>1. PICK q \in 1 .. ring.count : o[q] = x
      BY <1>1 DEF Ahead, Order
    <3>2. f < q
      BY <3>1, <2>3, <1>1
    <3> QED BY <3>1, <3>2, <1>1, AheadAt
  <2>6. seen \intersect Ahead(ring, o, o[f + 1 + n]) = {}
    <3> SUFFICES ASSUME NEW x \in seen, x \in Ahead(ring, o, o[f + 1 + n]) PROVE FALSE
      OBVIOUS
    <3>1. PICK q \in 1 .. ring.count : x = o[q] /\ f < q /\ q <= f + 1 + n
      BY <1>2
    <3> QED BY <3>1, <2>3, <1>1
  <2>7. w.met \intersect seen = {}
    BY <1>4 DEF Owes
  <2> QED BY <2>2, <2>4, <2>5, <2>6, <2>7, <1>4 DEF Owes, v
<1> QED BY <1>6, <1>7


LEMMA NextCriteriaKept ==
  ASSUME RingAssumption, RingTypes, job = NoJob, NEW o, JobOK(ring, o, job), Sound(ring, o, {}),
         ~AsDocumented => Held(o),
         NEW i \in Indexes, NEW n \in 0 .. ring.count, NextCriteria(i, n)
  PROVE  RingInv'
<1> DEFINE from == NextFrom(i)
           first == IF index[i].cur = Null /\ index[i].nxt # Null THEN from ELSE ring.next[from]
           x == Advance(ring.next, first, n)
           seen == Tested(ring.next, first, n) \ {PRing}
<1>1. CASE Dangling(from)
  BY <1>1, NeverDangling, FaultKept DEF NextCriteria, Reading
<1>2. CASE ~Dangling(from)
  <2>1. /\ n > 0 => PRing \notin Tested(ring.next, first, n - 1)
        /\ \/ x # PRing /\ StepTo(i, x) /\ walk' = [walk EXCEPT ![i] = Met(@, seen)]
           \/ /\ x = PRing /\ walk' = [walk EXCEPT ![i].missed = walk[i].due \ seen]
              /\ UNCHANGED index
        /\ UNCHANGED <<ring, job, spare, fault>>
    BY <1>2 DEF NextCriteria, Reading
  <2>2. PICK f \in 0 .. ring.count :
           /\ first = o[f + 1]
           /\ IndexHeld(ring, o, i) => Owes(walk[i], Ahead(ring, o, o[f]))
    BY <1>2, FirstIs
  <2>3. /\ Typed(ring) /\ Order(ring, o) /\ ring.count \in Nat /\ n \in Nat
        /\ o[ring.count + 1] = PRing /\ f + 1 \in 0 .. ring.count + 1
    <3>1. Typed(ring) /\ Order(ring, o)
      BY DEF Sound
    <3>2. ring.count \in Nat
      BY <3>1, Apart
    <3> QED BY <3>1, <3>2 DEF Order
  <2> HIDE DEF first
  <2>4. \A k \in Nat : f + 1 + k <= ring.count + 1 => Advance(ring.next, first, k) = o[f + 1 + k]
    BY <2>2, <2>3, AdvanceIs
  <2>5. f + 1 + n <= ring.count + 1
    <3> SUFFICES ASSUME f + 1 + n > ring.count + 1 PROVE FALSE
      BY <2>3
    <3> DEFINE k == ring.count - f
    <3>1. k \in 0 .. n - 1 /\ k \in Nat /\ f + 1 + k = ring.count + 1 /\ n > 0
      BY <2>3
    <3>2. Advance(ring.next, first, k) = PRing
      BY <3>1, <2>3, <2>4
    <3>3. PRing \in Tested(ring.next, first, n - 1)
      BY <3>1, <3>2 DEF Tested
    <3> QED BY <3>1, <3>3, <2>1
  <2>6. x = o[f + 1 + n]
    BY <2>3, <2>4, <2>5
  <2>7. seen = SeenFrom(o, f, n)
    <3>1. \A k \in 0 .. n : Advance(ring.next, first, k) = o[f + 1 + k]
      BY <2>3, <2>4, <2>5
    <3> QED BY <3>1 DEF Tested, SeenFrom
  <2> HIDE DEF x, seen
  <2>8. seen \in SUBSET Items
    <3> SUFFICES ASSUME NEW y \in seen PROVE y \in Items
      OBVIOUS
    <3>1. PICK k \in 0 .. n : y = o[f + 1 + k] /\ y # PRing
      BY <2>7 DEF SeenFrom
    <3>2. f + 1 + k \in 0 .. ring.count + 1
      BY <2>3, <2>5
    <3>3. y \in Nodes
      BY <3>1, <3>2, <2>3 DEF Order
    <3> QED BY <3>1, <3>3 DEF Nodes
  <2>9. walk[i] \in WalkType /\ index[i] \in IndexType
    BY DEF RingTypes
  <2>10. ~AsDocumented => /\ walk[i].met \subseteq ring.live /\ Owes(walk[i], Ahead(ring, o, o[f]))
                          /\ walk[i].void => walk[i].due = {} /\ walk[i].met = {}
                          /\ walk[i].missed = {} /\ ~walk[i].again
    BY <2>2 DEF Held, IndexHeld, WalkOK
  <2>11. CASE x # PRing
    <3> DEFINE ix == [cur |-> x, nxt |-> ring.next[x], prv |-> ring.prev[x]]
               w == Met(walk[i], seen)
    <3>1. f + 1 + n \in 1 .. ring.count
      BY <2>3, <2>5, <2>6, <2>11
    <3>2. index' = [index EXCEPT ![i] = ix] /\ walk' = [walk EXCEPT ![i] = w]
      BY <2>1, <2>11 DEF StepTo
    <3>3. ix \in IndexType /\ Standing(ring, ix) /\ ix.nxt \notin spare /\ ix.prv \notin spare
      BY <2>6, <3>1, StepIs
    <3>4. w \in WalkType
      BY <2>8, <2>9, MetIs
    <3>5. ~AsDocumented => WalkOK(ring, o, ix, w)
      <4> HAVE ~AsDocumented
      <4>1. /\ w.met \subseteq ring.live /\ Owes(w, Ahead(ring, o, o[f + 1 + n]))
            /\ w.void => w.due = {} /\ w.met = {}
            /\ w.missed = {} /\ ~w.again
        BY <2>3, <2>5, <2>7, <2>9, <2>10, <3>1, MetKept
      <4> QED BY <4>1, <2>6, <3>1, StepIs
    <3> HIDE DEF ix, w
    <3> QED BY <3>2, <3>3, <3>4, <3>5, <2>1, MoveKept
  <2>12. CASE x = PRing
    <3> DEFINE w == [walk[i] EXCEPT !.missed = walk[i].due \ seen]
    <3>1. f + 1 + n = ring.count + 1
      <4>1. f + 1 + n \in 0 .. ring.count + 1 /\ f + 1 + n # 0
        BY <2>3, <2>5
      <4>2. \A k \in 0 .. ring.count + 1 : o[k] = PRing <=> k \in {0, ring.count + 1}
        BY <2>3, Apart
      <4>3. f + 1 + n \in {0, ring.count + 1}
        BY <4>1, <4>2, <2>6, <2>12
      <4> QED BY <4>1, <4>3
    <3>2. index' = [index EXCEPT ![i] = index[i]] /\ walk' = [walk EXCEPT ![i] = w]
      BY <2>1, <2>12 DEF RingTypes
    <3>3. /\ w \in WalkType /\ w.due = walk[i].due /\ w.met = walk[i].met /\ w.void = walk[i].void
          /\ w.again = walk[i].again /\ w.missed = walk[i].due \ seen
      BY <2>9 DEF WalkType
    <3>4. ~AsDocumented => /\ Standing(ring, index[i]) /\ WalkOK(ring, o, index[i], w)
                           /\ index[i].nxt \notin spare /\ index[i].prv \notin spare
      <4> HAVE ~AsDocumented
      <4>1. IndexHeld(ring, o, i)
        BY DEF Held
      <4>2. walk[i].due \ seen = {}
        BY <2>3, <2>5, <2>7, <2>9, <2>10, <3>1, MetKept
      <4> QED BY <4>1, <4>2, <3>3 DEF IndexHeld, WalkOK, Owes
    <3> HIDE DEF w
    <3> QED BY <3>2, <3>3, <3>4, <2>1, <2>9, MoveKept
  <2> QED BY <2>11, <2>12
<1> QED BY <1>1, <1>2

LEMMA PreviousCriteriaKept ==
  ASSUME RingAssumption, RingTypes, job = NoJob, NEW o, JobOK(ring, o, job), Sound(ring, o, {}),
         ~AsDocumented => Held(o),
         NEW i \in Indexes, NEW n \in 0 .. ring.count, PreviousCriteria(i, n)
  PROVE  RingInv'
<1> DEFINE from == PreviousFrom(i)
           ix == index[i]
           first == IF ix.cur = Null /\ ix.prv # Null THEN from ELSE ring.prev[from]
           x == Advance(ring.prev, first, n)
<1>1. CASE Dangling(from)
  BY <1>1, NeverDangling, FaultKept DEF PreviousCriteria, Reading
<1>2. CASE ~Dangling(from)
  <2>1. /\ PRing \notin Tested(ring.prev, first, n) /\ StepTo(i, x)
        /\ walk' = [walk EXCEPT ![i] = Voided(WalkOver({}))]
        /\ UNCHANGED <<ring, job, spare, fault>>
    BY <1>2 DEF PreviousCriteria, Reading
  <2>2. /\ Typed(ring) /\ Order(ring, o) /\ ring.count \in Nat /\ n \in Nat /\ o[0] = PRing
        /\ o[ring.count + 1] = PRing
        /\ \A k \in 0 .. ring.count : ring.prev[o[k + 1]] = o[k]
    <3>1. Typed(ring) /\ Order(ring, o)
      BY DEF Sound
    <3>2. ring.count \in Nat
      BY <3>1, Apart
    <3>3. \A k \in 0 .. ring.count : ring.prev[o[k + 1]] = o[k]
      BY DEF Sound, Linked
    <3>4. o[0] = PRing /\ o[ring.count + 1] = PRing
      BY <3>1 DEF Order
    <3>5. n \in Nat
      BY <3>2
    <3> QED BY <3>1, <3>2, <3>3, <3>4, <3>5
  <2>3. \E f \in 0 .. ring.count : first = o[f]
    <3>1. CASE ix.cur # Null
      <4>1. first = ring.prev[ix.cur] /\ ix.cur \in ring.live \union {PRing}
        BY <3>1, <1>2 DEF PreviousFrom, Dangling
      <4>2. PICK k \in 1 .. ring.count + 1 : o[k] = ix.cur
        BY <4>1, <2>2, Apart
      <4>3. k - 1 \in 0 .. ring.count /\ (k - 1) + 1 = k
        BY <2>2
      <4> QED BY <4>1, <4>2, <4>3, <2>2
    <3>2. CASE ix.cur = Null /\ ix.prv # Null
      <4>1. first = ix.prv /\ ix.prv \in ring.live \union {PRing}
        BY <3>2, <1>2 DEF PreviousFrom, Dangling
      <4> QED BY <4>1, <2>2, Apart
    <3>3. CASE ix.cur = Null /\ ix.prv = Null
      <4>1. first = ring.prev[o[ring.count + 1]] /\ ring.count \in 0 .. ring.count
        BY <3>3, <2>2 DEF PreviousFrom
      <4> QED BY <4>1, <2>2
    <3> QED BY <3>1, <3>2, <3>3
  <2>4. PICK f \in 0 .. ring.count : first = o[f]
    BY <2>3
  <2> HIDE DEF first
  <2>5. \A k \in Nat : f - k >= 0 => Advance(ring.prev, first, k) = o[f - k]
    <3>1. f \in 0 .. ring.count + 1
      BY <2>2
    <3> QED BY <3>1, <2>4, AdvanceIs
  <2>6. f - n >= 1
    <3> SUFFICES ASSUME ~(f - n >= 1) PROVE FALSE
      OBVIOUS
    <3>1. f \in 0 .. n /\ f \in Nat /\ f - f = 0
      BY <2>2
    <3>2. Advance(ring.prev, first, f) = PRing
      BY <3>1, <2>2, <2>5
    <3> QED BY <3>1, <3>2, <2>1 DEF Tested
  <2>7. x = o[f - n] /\ f - n \in 1 .. ring.count
    BY <2>2, <2>5, <2>6
  <2> HIDE DEF x
  <2> DEFINE iy == [cur |-> x, nxt |-> ring.next[x], prv |-> ring.prev[x]]
             w == Voided(WalkOver({}))
  <2>8. index' = [index EXCEPT ![i] = iy]
    BY <2>1 DEF StepTo
  <2>9. iy \in IndexType /\ Standing(ring, iy) /\ iy.nxt \notin spare /\ iy.prv \notin spare
    BY <2>7, StepIs
  <2>10. WalkOver({}) \in WalkType
    BY DEF WalkOver, WalkType
  <2>11. w \in WalkType /\ w.due = {} /\ w.met = {} /\ w.missed = {} /\ ~w.again
    BY <2>10, VoidedIs
  <2>12. walk' = [walk EXCEPT ![i] = w]
    BY <2>1
  <2> HIDE DEF iy, w
  <2>13. WalkOK(ring, o, iy, w)
    BY <2>11, VoidWalk
  <2> QED BY <2>1, <2>8, <2>9, <2>11, <2>12, <2>13, MoveKept
<1> QED BY <1>1, <1>2

-----------------------------------------------------------------------------
(* The invariant, and what it says of the specification *)

LEMMA RingInit ==
  ASSUME RingAssumption, Init
  PROVE  RingInv
<1> PICK o : o = [k \in 0 .. 1 |-> PRing]
  OBVIOUS
<1>1. /\ ring.next \in [Nodes -> Nodes \union {Null}] /\ ring.prev \in [Nodes -> Nodes \union {Null}]
      /\ ring.next[PRing] = PRing /\ ring.prev[PRing] = PRing /\ ring.live = {} /\ ring.count = 0
      /\ ring = [next |-> ring.next, prev |-> ring.prev, live |-> ring.live, count |-> ring.count]
      /\ job = NoJob /\ fault = FALSE
  BY DEF Init, EmptyRing, Nodes
<1>2. Typed(ring)
  BY <1>1 DEF Typed, RingAssumption
<1>3. Order(ring, o)
  BY <1>1 DEF Order, Nodes
<1>4. Sound(ring, o, {})
  BY <1>1, <1>2, <1>3 DEF Sound, Linked
<1>5. PICK s \in Setups : /\ spare = s.items /\ index = [i \in s.indexes |-> Start]
                          /\ walk = [i \in s.indexes |-> WalkOver({})]
  BY DEF Init
<1>6. Start \in IndexType /\ Start.cur = Null /\ Start.nxt = Null /\ Start.prv = Null
  BY DEF Start, IndexType
<1>7. /\ WalkOver({}) \in WalkType /\ WalkOver({}).due = {} /\ WalkOver({}).met = {}
      /\ WalkOver({}).missed = {} /\ ~WalkOver({}).again
  BY DEF WalkOver, WalkType
<1>8. RingTypes
  BY <1>1, <1>5, <1>6, <1>7 DEF RingTypes, Indexes, RingAssumption, NoJob
<1>9. \A i \in Indexes : IndexHeld(ring, o, i)
  BY <1>1, <1>5, <1>6, <1>7, <1>8, VoidWalk
     DEF IndexHeld, Indexes, Standing, RingTypes, RingAssumption, RingLinksAssumption
<1>10. Held(o)
  BY <1>1, <1>9 DEF Held, NoJob
<1>11. JobOK(ring, o, job)
  BY <1>1, <1>4 DEF JobOK
<1> QED BY <1>8, <1>10, <1>11 DEF RingInv

LEMMA RingStep ==
  ASSUME RingAssumption, RingInv, [Next]_vars
  PROVE  RingInv'
<1>1. PICK o : JobOK(ring, o, job) /\ (~AsDocumented => Held(o))
  BY DEF RingInv
<1>2. RingTypes
  BY DEF RingInv
<1>3. CASE UNCHANGED vars
  <2>1. UNCHANGED <<ring, job, index, walk, spare, fault>>
    BY <1>3 DEF vars
  <2>2. RingTypes' /\ (Held(o) => Held(o)')
    BY <2>1, <1>2 DEF RingTypes, Indexes, Held, IndexHeld, PlaceHeld, PastThePlace
  <2> QED BY <1>1, <2>1, <2>2 DEF RingInv
<1>4. CASE Next /\ job = NoJob
  <2>1. Call /\ Sound(ring, o, {})
    BY <1>1, <1>4, OrderIs DEF Next, Idle, NoJob
  <2>2. ASSUME NEW x \in spare, NewItem(x) PROVE RingInv'
    <3>1. CASE AddFirst(x) \/ AddLast(x)
      BY <3>1, <1>1, <1>2, <1>4, <2>1, AddEndsKept
    <3>2. CASE \E i \in Indexes : AddBefore(i, x)
      BY <3>2, <1>1, <1>2, <1>4, <2>1, AddBeforeKept
    <3>3. CASE \E i \in Indexes : AddAfter(i, x)
      BY <3>3, <1>1, <1>2, <1>4, <2>1, AddAfterKept
    <3> QED BY <2>2, <3>1, <3>2, <3>3 DEF NewItem
  <2>3. CASE DelCriteria
    BY <2>3, <1>1, <1>2, <1>4, DelCriteriaKept
  <2>4. CASE DelDuplicate
    BY <2>4, <1>1, <1>2, <1>4, DelDuplicateKept
  <2>5. CASE Group
    BY <2>5, <1>1, <1>2, <1>4, GroupKept
  <2>6. CASE Sort
    BY <2>6, <1>1, <1>2, <1>4, SortHalvesKept
  <2>7. ASSUME NEW i \in Indexes, NEW n \in 0 .. ring.count, Move(i, n) PROVE RingInv'
    <3>1. CASE NextCriteria(i, n)
      BY <3>1, <1>1, <1>2, <1>4, <2>1, NextCriteriaKept
    <3>2. CASE PreviousCriteria(i, n)
      BY <3>2, <1>1, <1>2, <1>4, <2>1, PreviousCriteriaKept
    <3> QED BY <2>7, <3>1, <3>2 DEF Move
  <2>8. ASSUME NEW i \in Indexes, Rewind(i) PROVE RingInv'
    BY <2>8, <1>1, <1>2, <1>4, <2>1, RewindKept
  <2>9. ASSUME NEW i \in Indexes, ThisDel(i) PROVE RingInv'
    BY <2>9, <1>1, <1>2, <1>4, <2>1, ThisDelKept
  <2>10. ASSUME NEW i \in Indexes, AddRingCriteria(i) PROVE RingInv'
    BY <2>10, <1>1, <1>2, <1>4, <2>1, AddRingBegins
  <2>11. ASSUME NEW i \in Indexes, NEW j \in Indexes, CopyIndex(i, j) PROVE RingInv'
    BY <2>11, <1>1, <1>2, <1>4, <2>1, RewindKept
  <2> QED BY <2>1, <2>2, <2>3, <2>4, <2>5, <2>6, <2>7, <2>8, <2>9, <2>10, <2>11 DEF Call
<1>5. CASE Next /\ job # NoJob
  <2>1. Job
    BY <1>5 DEF Next, Idle
  <2>2. CASE DelCriteriaStep \/ DelCriteriaEnd
    BY <2>2, <1>1, <1>2, DelCriteriaKept
  <2>3. CASE DelDuplicateStep
    BY <2>3, <1>1, <1>2, DelDuplicateKept
  <2>4. CASE GroupStep
    BY <2>4, <1>1, <1>2, GroupKept
  <2>5. CASE NextCompared \/ CompareFails
    BY <2>5, <1>1, <1>2, CompareKept
  <2>6. CASE SortHalves
    BY <2>6, <1>1, <1>2, SortHalvesKept
  <2>7. CASE SortStep
    BY <2>7, <1>1, <1>2, SortStepKept
  <2>8. CASE SortFails
    BY <2>8, <1>1, <1>2, SortFailsKept
  <2>9. CASE AddRingEnd
    BY <2>9, <1>1, <1>2, AddRingEndKept
  <2>10. ASSUME NEW x \in spare, AddRingStep(x) PROVE RingInv'
    BY <2>10, <1>1, <1>2, AddRingStepKept
  <2> QED BY <2>1, <2>2, <2>3, <2>4, <2>5, <2>6, <2>7, <2>8, <2>9, <2>10 DEF Job
<1> QED BY <1>3, <1>4, <1>5

LEMMA RingAlways ==
  ASSUME RingAssumption
  PROVE  Spec => []RingInv
<1>1. Init => RingInv
  BY RingInit
<1>2. RingInv /\ [Next]_vars => RingInv'
  BY RingStep
<1> QED BY <1>1, <1>2, PTL DEF Spec

\* Whatever is added, deleted or reordered, and wherever a callback fails, the links
\* agree in both directions and lead through all the items that are allocated, once
\* each (ring.c:73-640, ringi.c:267-558).
THEOREM RingIsRight ==
  ASSUME RingAssumption
  PROVE  Spec => [](TypeOK /\ RingIsSound)
<1>1. RingInv => TypeOK /\ RingIsSound
  <2> HAVE RingInv
  <2>1. PICK o : JobOK(ring, o, job)
    BY DEF RingInv
  <2>2. Typed(ring) /\ RingTypes
    BY <2>1, OrderIs DEF RingInv
  <2>3. TypeOK
    BY <2>2 DEF Typed, RingTypes, TypeOK, IndexType
  <2>4. RingIsSound
    <3> SUFFICES ASSUME job = NoJob
                 PROVE  /\ RingCheck(ring)
                        /\ {ItemsOf(ring)[k] : k \in 1 .. ring.count} = ring.live
                        /\ Cardinality(ring.live) = ring.count
      BY DEF RingIsSound, Idle
    <3>1. Sound(ring, o, {})
      BY <2>1, OrderIs DEF NoJob
    <3> QED BY <3>1, SoundChecked
  <2> QED BY <2>3, <2>4
<1> QED BY <1>1, RingAlways, PTL

\* With the rules that are enough, no index reads an item that was freed, and a walk to
\* the end meets once each item that was there at its start and that nobody deleted
\* (ringi.c:141-558, ringi.h:4-39).
THEOREM IndexesAreRight ==
  ASSUME RingAssumption, ~AsDocumented
  PROVE  Spec => [](NoFreedUse /\ WalkIsComplete)
<1>1. RingInv => NoFreedUse /\ WalkIsComplete
  BY DEF RingInv, Held, IndexHeld, WalkOK, NoFreedUse, WalkIsComplete
<1> QED BY <1>1, RingAlways, PTL
=============================================================================
