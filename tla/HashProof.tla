----------------------------- MODULE HashProof -----------------------------
(***************************************************************************)
(* A hash table stays sound, finds what was put in it, and is walked       *)
(* wholly and without any read of a freed item, for any items, keys and    *)
(* hashes, any number of indexes, and any table size at the start.         *)
(***************************************************************************)
EXTENDS HashIndex, FunctionTheorems, FiniteSetTheorems, SequenceTheorems,
        WellFoundedInduction, TLAPS

-----------------------------------------------------------------------------
(* The least of some places, and the items of a set ranked by an order *)

LEMMA LeastOf ==
  ASSUME NEW T, T \subseteq Nat, T # {}
  PROVE  \E n \in T : \A m \in T : n <= m
<1> DEFINE R == {p \in Nat \X Nat : p[1] < p[2]}
<1>1. IsWellFoundedOn(R, Nat)
  <2>1. R = OpToRel(<, Nat)
    BY DEF OpToRel
  <2> QED BY <2>1, NatLessThanWellFounded
<1>2. PICK n \in T : \A m \in T : ~ (<<m, n>> \in R)
  <2> HIDE DEF R
  <2> QED BY <1>1, WFMin
<1>3. ASSUME NEW m \in T PROVE n <= m
  <2>1. m \in Nat /\ n \in Nat
    OBVIOUS
  <2>2. ~(m < n)
    BY <1>2, <2>1
  <2> QED BY <2>1, <2>2
<1> QED BY <1>3

LEMMA FirstNumbers ==
  ASSUME NEW n \in Nat
  PROVE  /\ IsFiniteSet(1 .. n) /\ Cardinality(1 .. n) = n
         /\ IsFiniteSet(0 .. n - 1) /\ Cardinality(0 .. n - 1) = n
<1>1. 0 \in Int /\ 1 \in Int /\ n \in Int /\ n - 1 \in Int
  OBVIOUS
<1>2. IsFiniteSet(1 .. n) /\ Cardinality(1 .. n) = IF 1 > n THEN 0 ELSE n - 1 + 1
  BY <1>1, FS_Interval
<1>3. /\ IsFiniteSet(0 .. n - 1)
      /\ Cardinality(0 .. n - 1) = IF 0 > n - 1 THEN 0 ELSE (n - 1) - 0 + 1
  BY <1>1, FS_Interval
<1> QED BY <1>2, <1>3

Orders(R, S) ==
  /\ \A x \in S : <<x, x>> \notin R
  /\ \A x, y, z \in S : <<x, y>> \in R /\ <<y, z>> \in R => <<x, z>> \in R
  /\ \A x, y \in S : x = y \/ <<x, y>> \in R \/ <<y, x>> \in R

Under(R, S, x) == {y \in S : <<y, x>> \in R}
Ranked(R, S) ==
  [n \in 1 .. Cardinality(S) |->
     CHOOSE x \in S : Cardinality(Under(R, S, x)) = n - 1]

LEMMA UnderGrows ==
  ASSUME NEW S, NEW R, IsFiniteSet(S), Orders(R, S), NEW x \in S, NEW y \in S
  PROVE  /\ Cardinality(Under(R, S, x)) \in 0 .. Cardinality(S) - 1
         /\ <<x, y>> \in R =>
              Cardinality(Under(R, S, x)) < Cardinality(Under(R, S, y))
<1>1. ASSUME NEW U \in SUBSET S, NEW T \in SUBSET U, T # U
      PROVE  /\ Cardinality(T) \in Nat /\ Cardinality(U) \in Nat
             /\ Cardinality(T) < Cardinality(U)
  <2>1. IsFiniteSet(U)
    BY FS_Subset
  <2>2. IsFiniteSet(T) /\ Cardinality(T) <= Cardinality(U) /\ Cardinality(T) # Cardinality(U)
    BY <2>1, <1>1, FS_Subset
  <2>3. Cardinality(T) \in Nat /\ Cardinality(U) \in Nat
    BY <2>1, <2>2, FS_CardinalityType
  <2> QED BY <2>2, <2>3
<1>2. Under(R, S, x) \in SUBSET S /\ x \notin Under(R, S, x)
  BY DEF Under, Orders
<1>3. Cardinality(Under(R, S, x)) \in Nat /\ Cardinality(S) \in Nat
      /\ Cardinality(Under(R, S, x)) < Cardinality(S)
  BY <1>1, <1>2
<1>4. ASSUME <<x, y>> \in R
      PROVE  Cardinality(Under(R, S, x)) < Cardinality(Under(R, S, y))
  <2>1. Under(R, S, x) \in SUBSET Under(R, S, y) /\ x \in Under(R, S, y)
    BY <1>4 DEF Under, Orders
  <2>2. Under(R, S, y) \in SUBSET S
    BY DEF Under
  <2> QED BY <1>1, <1>2, <2>1, <2>2
<1> QED BY <1>3, <1>4

LEMMA Ranking ==
  ASSUME NEW S, NEW R, IsFiniteSet(S), Orders(R, S)
  PROVE  /\ Cardinality(S) \in Nat
         /\ Ranked(R, S) \in [1 .. Cardinality(S) -> S]
         /\ \A m, n \in 1 .. Cardinality(S) :
              m < n => <<Ranked(R, S)[m], Ranked(R, S)[n]>> \in R
         /\ \A x \in S : \E n \in 1 .. Cardinality(S) : Ranked(R, S)[n] = x
<1> DEFINE N == Cardinality(S)
           T == 0 .. N - 1
           r == [x \in S |-> Cardinality(Under(R, S, x))]
<1>1. N \in Nat
  BY FS_CardinalityType
<1>2. r \in Injection(S, T)
  <2>1. r \in [S -> T]
    BY UnderGrows
  <2>2. ASSUME NEW a \in S, NEW b \in S, r[a] = r[b] PROVE a = b
    <3>1. ~(r[a] < r[b]) /\ ~(r[b] < r[a])
      BY <2>2, <2>1, <1>1
    <3>2. <<a, b>> \notin R /\ <<b, a>> \notin R
      BY <3>1, UnderGrows
    <3> QED BY <3>2 DEF Orders
  <2> HIDE DEF r, T
  <2> QED BY <2>1, <2>2, Fun_IsInj
<1>3. IsFiniteSet(T) /\ Cardinality(T) = N
  BY <1>1, FirstNumbers
<1>4. \A t \in T : \E x \in S : r[x] = t
  <2>1. r \in Surjection(S, T)
    <3> HIDE DEF r, T
    <3> QED BY <1>2, <1>3, FS_Injection
  <2> HIDE DEF r, T
  <2> QED BY <2>1, Fun_SurjectionProperties
<1>5. ASSUME NEW n \in 1 .. N
      PROVE  Ranked(R, S)[n] \in S /\ r[Ranked(R, S)[n]] = n - 1
  <2>1. n - 1 \in T
    BY <1>1
  <2>2. \E x \in S : Cardinality(Under(R, S, x)) = n - 1
    BY <2>1, <1>4
  <2> QED BY <2>2 DEF Ranked
<1>6. Ranked(R, S) \in [1 .. N -> S]
  BY <1>5 DEF Ranked
<1>7. ASSUME NEW m \in 1 .. N, NEW n \in 1 .. N, m < n
      PROVE  <<Ranked(R, S)[m], Ranked(R, S)[n]>> \in R
  <2> DEFINE a == Ranked(R, S)[m]  b == Ranked(R, S)[n]
  <2>1. a \in S /\ b \in S /\ r[a] = m - 1 /\ r[b] = n - 1
    BY <1>5
  <2>2. r[a] < r[b]
    BY <2>1, <1>7, <1>1
  <2>3. a # b /\ ~(r[b] < r[a])
    BY <2>1, <2>2, <1>1, <1>7
  <2> HIDE DEF a, b
  <2>4. <<b, a>> \notin R
    BY <2>1, <2>3, UnderGrows
  <2>5. <<a, b>> \in R
    BY <2>1, <2>3, <2>4 DEF Orders
  <2> QED BY <2>5 DEF a, b
<1>8. ASSUME NEW x \in S PROVE \E n \in 1 .. N : Ranked(R, S)[n] = x
  <2>1. r[x] \in T
    BY UnderGrows
  <2>2. r[x] + 1 \in 1 .. N
    BY <2>1, <1>1
  <2>3. Ranked(R, S)[r[x] + 1] \in S /\ r[Ranked(R, S)[r[x] + 1]] = r[x]
    BY <2>1, <2>2, <1>5, <1>1
  <2>4. Ranked(R, S)[r[x] + 1] = x
    <3> DEFINE y == Ranked(R, S)[r[x] + 1]
    <3>1. y \in S /\ r[y] = r[x]
      BY <2>3
    <3> HIDE DEF y, r, T
    <3>2. y = x
      BY <3>1, <1>2, Fun_InjectionProperties
    <3> QED BY <3>2 DEF y
  <2> QED BY <2>2, <2>4
<1> QED BY <1>1, <1>6, <1>7, <1>8

-----------------------------------------------------------------------------
(* A sound table: the chain of each item and its rank in it *)

Stored == (UNION {s.values : s \in Setups}) \union {Null}

TableType ==
  [table : UNION {[0 .. m -> Seq(Items)] : m \in Nat}, max : Nat, count : Nat,
   pos : [Items -> Nat], item : [Items -> Stored]]

Typed(h) ==
  /\ h \in TableType /\ h.table \in [0 .. h.max -> Seq(Items)]
  /\ h.pos \in [Items -> 0 .. h.max]
Places(h) == {pk \in (0 .. h.max) \X Nat : pk[2] \in 1 .. Len(h.table[pk[1]])}
In(h, pk) == h.table[pk[1]][pk[2]]

Placed(h) == \A pk \in Places(h) : /\ pk[1] = PosOf(In(h, pk), h.max)
                                   /\ h.pos[In(h, pk)] = pk[1]
Once(h) == \A j, k \in Places(h) : In(h, j) = In(h, k) => j = k
Keyed(h) == \A x, y \in Live(h) : Key(x) = Key(y) => x = y
Counted(h) == IsFiniteSet(Live(h)) /\ h.count = Cardinality(Live(h))

Sound(h) == Typed(h) /\ Placed(h) /\ Once(h) /\ Keyed(h) /\ Counted(h)

LEMMA TypedIs ==
  ASSUME NEW g,
         g = [table |-> g.table, max |-> g.max, count |-> g.count, pos |-> g.pos, item |-> g.item],
         g.max \in Nat /\ g.table \in [0 .. g.max -> Seq(Items)],
         g.pos \in [Items -> 0 .. g.max] /\ g.item \in [Items -> Stored] /\ g.count \in Nat
  PROVE  Typed(g)
<1>1. g.table \in UNION {[0 .. m -> Seq(Items)] : m \in Nat}
  OBVIOUS
<1>2. g.pos \in [Items -> Nat]
  OBVIOUS
<1> QED BY <1>1, <1>2 DEF Typed, TableType

\* The places of a table and its items.
LEMMA PlaceFacts ==
  ASSUME NEW h, Typed(h)
  PROVE  /\ DOMAIN h.table = 0 .. h.max /\ h.max \in Nat
         /\ \A p \in 0 .. h.max : /\ h.table[p] \in Seq(Items)
                                  /\ Len(h.table[p]) \in Nat
                                  /\ DOMAIN h.table[p] = 1 .. Len(h.table[p])
         /\ \A pk \in Places(h) : In(h, pk) \in Live(h)
         /\ \A x \in Live(h) : \E pk \in Places(h) : In(h, pk) = x
         /\ Live(h) \subseteq Items
<1>1. DOMAIN h.table = 0 .. h.max /\ h.max \in Nat
  BY DEF Typed, TableType
<1>2. \A p \in 0 .. h.max : h.table[p] \in Seq(Items)
  BY DEF Typed
<1>3. \A p \in 0 .. h.max : Len(h.table[p]) \in Nat /\ DOMAIN h.table[p] = 1 .. Len(h.table[p])
  BY <1>2, LenProperties
<1>4. ASSUME NEW pk \in Places(h) PROVE In(h, pk) \in Live(h)
  <2>1. pk[1] \in DOMAIN h.table /\ pk[2] \in DOMAIN h.table[pk[1]]
    BY <1>1, <1>3 DEF Places
  <2> QED BY <2>1 DEF Live, ToSet, In
<1>5. ASSUME NEW x \in Live(h) PROVE x \in Items /\ \E pk \in Places(h) : In(h, pk) = x
  <2>1. PICK p \in 0 .. h.max : x \in ToSet(h.table[p])
    BY <1>1 DEF Live
  <2>2. PICK k \in 1 .. Len(h.table[p]) : x = h.table[p][k]
    BY <2>1, <1>3 DEF ToSet
  <2>3. <<p, k>> \in Places(h)
    BY <2>2, <1>3 DEF Places
  <2>4. In(h, <<p, k>>) = x
    BY <2>2 DEF In
  <2>5. x \in Items
    BY <2>2, <1>2, ElementOfSeq
  <2> QED BY <2>3, <2>4, <2>5
<1> QED BY <1>1, <1>2, <1>3, <1>4, <1>5

\* The item of a place is at that place: the search finds it there.
LEMMA PlaceOf ==
  ASSUME NEW h, Sound(h), NEW pk \in Places(h)
  PROVE  At(h, In(h, pk)) = pk[1] /\ Rank(h, In(h, pk)) = pk[2]
<1> DEFINE x == In(h, pk)
<1>0. pk[1] \in 0 .. h.max /\ pk[2] \in 1 .. Len(h.table[pk[1]]) /\ x = h.table[pk[1]][pk[2]]
      /\ pk = <<pk[1], pk[2]>> /\ pk[2] \in Nat
  BY DEF Places, In
<1>1. ASSUME NEW p \in 0 .. h.max, NEW k \in 1 .. Len(h.table[p]), h.table[p][k] = x
      PROVE  p = pk[1] /\ k = pk[2]
  <2>1. <<p, k>> \in Places(h) /\ In(h, <<p, k>>) = x
    BY <1>1, PlaceFacts DEF Sound, Places, In
  <2>2. <<p, k>> = pk
    BY <2>1 DEF Sound, Once
  <2> QED BY <2>2
<1> HIDE DEF x
<1>2. Contains(h.table[pk[1]], x)
  BY <1>0 DEF Contains
<1>3. \A p \in 0 .. h.max : Contains(h.table[p], x) => p = pk[1]
  BY <1>1 DEF Contains
<1>4. DOMAIN h.table = 0 .. h.max /\ DOMAIN h.table[pk[1]] = 1 .. Len(h.table[pk[1]])
  BY <1>0, PlaceFacts DEF Sound
<1>5. At(h, x) = pk[1]
  BY <1>0, <1>2, <1>3, <1>4 DEF At
<1>6. Rank(h, x) = pk[2]
  BY <1>0, <1>1, <1>4, <1>5 DEF Rank
<1> QED BY <1>5, <1>6 DEF x

LEMMA LiveAt ==
  ASSUME NEW h, Sound(h), NEW x \in Live(h)
  PROVE  /\ x \in Items /\ At(h, x) \in 0 .. h.max
         /\ At(h, x) = PosOf(x, h.max) /\ At(h, x) = h.pos[x]
         /\ Rank(h, x) \in 1 .. Len(h.table[At(h, x)])
         /\ h.table[At(h, x)][Rank(h, x)] = x
<1>1. PICK pk \in Places(h) : In(h, pk) = x
  BY PlaceFacts DEF Sound
<1>2. pk[1] \in 0 .. h.max /\ pk[2] \in 1 .. Len(h.table[pk[1]])
  BY DEF Places
<1>3. At(h, x) = pk[1] /\ Rank(h, x) = pk[2] /\ x \in Items
  BY <1>1, PlaceOf, PlaceFacts DEF Sound
<1> QED BY <1>1, <1>2, <1>3 DEF In, Sound, Placed

\* The position of an item, and the one it asks for, are positions.
LEMMA PosOfType ==
  ASSUME HashAssumption, NEW x \in Items, NEW m \in Nat
  PROVE  PosOf(x, m) \in 0 .. m
<1>1. Hash(Key(x)) \in Nat
  BY DEF HashAssumption
<1> HIDE DEF HashAssumption
<1>2. \A a \in Nat : a % (m + 1) \in 0 .. m
  OBVIOUS
<1> QED BY <1>1, <1>2 DEF PosOf

\* The order in which a loop meets the items is a total order.
LEMMA MeetingOrder ==
  ASSUME NEW h, Sound(h)
  PROVE  /\ \A x \in Live(h) : ~Precedes(h, x, x)
         /\ \A x, y, z \in Live(h) : Precedes(h, x, y) /\ Precedes(h, y, z) => Precedes(h, x, z)
         /\ \A x, y \in Live(h) : x = y \/ Precedes(h, x, y) \/ Precedes(h, y, x)
<1>1. \A x \in Live(h) : At(h, x) \in Nat /\ Rank(h, x) \in Nat
  <2>1. ASSUME NEW x \in Live(h) PROVE At(h, x) \in Nat /\ Rank(h, x) \in Nat
    <3>1. At(h, x) \in 0 .. h.max /\ h.max \in Nat
      BY LiveAt, PlaceFacts DEF Sound
    <3>2. Len(h.table[At(h, x)]) \in Nat /\ Rank(h, x) \in 1 .. Len(h.table[At(h, x)])
      BY <3>1, LiveAt, PlaceFacts DEF Sound
    <3> QED BY <3>1, <3>2
  <2> QED BY <2>1
<1>2. \A x, y \in Live(h) : At(h, x) = At(h, y) /\ Rank(h, x) = Rank(h, y) => x = y
  BY LiveAt
<1> QED BY <1>1, <1>2 DEF Precedes

LEMMA FirstIs ==
  ASSUME NEW h, Sound(h), NEW S \in SUBSET Live(h), S # {}
  PROVE  /\ First(h, S) \in S
         /\ \A y \in S : y = First(h, S) \/ Precedes(h, First(h, S), y)
<1>0. \A x \in Live(h) : At(h, x) \in Nat /\ Rank(h, x) \in Nat
  <2>1. ASSUME NEW x \in Live(h) PROVE At(h, x) \in Nat /\ Rank(h, x) \in Nat
    <3>1. At(h, x) \in 0 .. h.max /\ h.max \in Nat
      BY LiveAt, PlaceFacts DEF Sound
    <3>2. Len(h.table[At(h, x)]) \in Nat /\ Rank(h, x) \in 1 .. Len(h.table[At(h, x)])
      BY <3>1, LiveAt, PlaceFacts DEF Sound
    <3> QED BY <3>1, <3>2
  <2> QED BY <2>1
<1>1. PICK p \in {At(h, x) : x \in S} : \A q \in {At(h, x) : x \in S} : p <= q
  <2> DEFINE T == {At(h, x) : x \in S}
  <2>1. T \subseteq Nat /\ T # {}
    BY <1>0
  <2> HIDE DEF T
  <2>2. \E q \in T : \A r \in T : q <= r
    BY <2>1, LeastOf
  <2> QED BY <2>2 DEF T
<1>2. PICK k \in {Rank(h, x) : x \in {y \in S : At(h, y) = p}} :
        \A j \in {Rank(h, x) : x \in {y \in S : At(h, y) = p}} : k <= j
  <2> DEFINE T == {Rank(h, x) : x \in {y \in S : At(h, y) = p}}
  <2>1. T \subseteq Nat /\ T # {}
    BY <1>0, <1>1
  <2> HIDE DEF T
  <2>2. \E q \in T : \A r \in T : q <= r
    BY <2>1, LeastOf
  <2> QED BY <2>2 DEF T
<1>3. PICK x \in S : At(h, x) = p /\ Rank(h, x) = k
  BY <1>2
<1>4. ASSUME NEW y \in S PROVE y = x \/ Precedes(h, x, y)
  <2>1. p <= At(h, y) /\ (At(h, y) = p => k <= Rank(h, y))
    BY <1>1, <1>2
  <2>2. x \in Live(h) /\ y \in Live(h)
    OBVIOUS
  <2>3. ~Precedes(h, y, x)
    BY <2>1, <2>2, <1>0, <1>3 DEF Precedes
  <2> QED BY <2>2, <2>3, MeetingOrder
<1>5. \E a \in S : \A y \in S : y = a \/ Precedes(h, a, y)
  BY <1>4
<1> QED BY <1>5 DEF First

-----------------------------------------------------------------------------
(* An expansion keeps the items and their values *)

LEMMA BackwardsIs ==
  ASSUME NEW h, Sound(h), NEW S \in SUBSET Live(h)
  PROVE  /\ IsFiniteSet(S) /\ Cardinality(S) \in Nat
         /\ Backwards(h, S) \in [1 .. Cardinality(S) -> S]
         /\ Backwards(h, S) \in Seq(Items) /\ Len(Backwards(h, S)) = Cardinality(S)
         /\ \A m, n \in 1 .. Cardinality(S) : Backwards(h, S)[m] = Backwards(h, S)[n] => m = n
         /\ \A x \in S : \E n \in 1 .. Cardinality(S) : Backwards(h, S)[n] = x
<1> DEFINE R == {p \in Live(h) \X Live(h) : Precedes(h, p[2], p[1])}
<1>0. IsFiniteSet(S)
  BY FS_Subset DEF Sound, Counted
<1>1. \A x, y \in Live(h) : <<y, x>> \in R <=> Precedes(h, x, y)
  OBVIOUS
<1> HIDE DEF R
<1>2. Orders(R, S)
  <2>1. \A x \in S : x \in Live(h)
    OBVIOUS
  <2>2. \A x \in S : <<x, x>> \notin R
    BY <1>1, <2>1, MeetingOrder
  <2>3. \A x, y, z \in S : <<x, y>> \in R /\ <<y, z>> \in R => <<x, z>> \in R
    BY <1>1, <2>1, MeetingOrder
  <2>4. \A x, y \in S : x = y \/ <<x, y>> \in R \/ <<y, x>> \in R
    BY <1>1, <2>1, MeetingOrder
  <2> QED BY <2>2, <2>3, <2>4 DEF Orders
<1>3. Backwards(h, S) = Ranked(R, S)
  <2>1. ASSUME NEW x \in S PROVE {y \in S : Precedes(h, x, y)} = Under(R, S, x)
    BY <1>1 DEF Under
  <2> DEFINE b(n) == CHOOSE x \in S : Cardinality({y \in S : Precedes(h, x, y)}) = n - 1
             r(n) == CHOOSE x \in S : Cardinality(Under(R, S, x)) = n - 1
  <2>2. \A n : b(n) = r(n)
    BY <2>1
  <2>3. /\ Backwards(h, S) = [n \in 1 .. Cardinality(S) |-> b(n)]
        /\ Ranked(R, S) = [n \in 1 .. Cardinality(S) |-> r(n)]
    BY DEF Backwards, Ranked
  <2> HIDE DEF b, r
  <2> QED BY <2>2, <2>3
<1>4. /\ Cardinality(S) \in Nat
      /\ Ranked(R, S) \in [1 .. Cardinality(S) -> S]
      /\ \A m, n \in 1 .. Cardinality(S) :
           m < n => <<Ranked(R, S)[m], Ranked(R, S)[n]>> \in R
      /\ \A x \in S : \E n \in 1 .. Cardinality(S) : Ranked(R, S)[n] = x
  BY <1>0, <1>2, Ranking
<1>5. \A m, n \in 1 .. Cardinality(S) : Ranked(R, S)[m] = Ranked(R, S)[n] => m = n
  <2>1. ASSUME NEW m \in 1 .. Cardinality(S), NEW n \in 1 .. Cardinality(S), m # n
        PROVE  Ranked(R, S)[m] # Ranked(R, S)[n]
    <3>1. m < n \/ n < m
      BY <2>1, <1>4
    <3>2. <<Ranked(R, S)[m], Ranked(R, S)[n]>> \in R \/ <<Ranked(R, S)[n], Ranked(R, S)[m]>> \in R
      BY <3>1, <1>4
    <3> QED BY <3>2, <1>2, <1>4 DEF Orders
  <2> QED BY <2>1
<1>6. Ranked(R, S) \in [1 .. Cardinality(S) -> Items]
  BY <1>4, PlaceFacts DEF Sound
<1>7. Ranked(R, S) \in Seq(Items) /\ Len(Ranked(R, S)) = Cardinality(S)
  BY <1>4, <1>6
<1> QED BY <1>0, <1>3, <1>4, <1>5, <1>7

LEMMA ExpandSound ==
  ASSUME HashAssumption, NEW h, Sound(h)
  PROVE  /\ Sound(Expand(h)) /\ Live(Expand(h)) = Live(h)
         /\ Expand(h).item = h.item /\ Expand(h).max # h.max
<1> DEFINE g == Expand(h)
           m == 2 * h.max + 1
           S(p) == {x \in Live(h) : PosOf(x, m) = p}
<1>1. h.max \in Nat /\ m \in Nat /\ m # h.max
  BY PlaceFacts DEF Sound
<1>2. /\ g.max = m
      /\ g.table = [p \in 0 .. m |-> Backwards(h, S(p))]
      /\ g.pos = [x \in Items |-> IF x \in Live(h) THEN PosOf(x, m) ELSE h.pos[x]]
      /\ g.count = h.count /\ g.item = h.item
      /\ g = [table |-> g.table, max |-> g.max, count |-> g.count, pos |-> g.pos, item |-> g.item]
  BY DEF Expand
<1>3. Live(h) \subseteq Items /\ \A x \in Live(h) : PosOf(x, m) \in 0 .. m
  BY PlaceFacts, PosOfType, <1>1 DEF Sound
<1>4. ASSUME NEW p \in 0 .. m
      PROVE  /\ g.table[p] \in Seq(Items) /\ Len(g.table[p]) = Cardinality(S(p))
             /\ Cardinality(S(p)) \in Nat
             /\ \A k \in 1 .. Cardinality(S(p)) : g.table[p][k] \in S(p)
             /\ \A j, k \in 1 .. Cardinality(S(p)) : g.table[p][j] = g.table[p][k] => j = k
             /\ \A x \in S(p) : \E k \in 1 .. Cardinality(S(p)) : g.table[p][k] = x
  <2>1. S(p) \in SUBSET Live(h)
    OBVIOUS
  <2>2. g.table[p] = Backwards(h, S(p))
    BY <1>2
  <2> HIDE DEF S, g
  <2> QED BY <2>1, <2>2, BackwardsIs
<1>5. Typed(g)
  <2>1. g.table \in [0 .. m -> Seq(Items)]
    BY <1>2, <1>4
  <2>2. g.pos \in [Items -> 0 .. m]
    <3>1. h.pos \in [Items -> 0 .. h.max]
      BY DEF Sound, Typed
    <3>2. \A i \in 0 .. h.max : i \in 0 .. m
      BY <1>1
    <3>3. \A x \in Items : h.pos[x] \in 0 .. m
      BY <3>1, <3>2
    <3> HIDE DEF g, m
    <3> QED BY <3>3, <1>2, <1>3
  <2>3. g.count \in Nat /\ g.item \in [Items -> Stored]
    BY <1>2 DEF Sound, Typed, TableType
  <2>4. g = [table |-> g.table, max |-> g.max, count |-> g.count, pos |-> g.pos, item |-> g.item]
    BY <1>2
  <2>5. g.max \in Nat /\ g.table \in [0 .. g.max -> Seq(Items)] /\ g.pos \in [Items -> 0 .. g.max]
    BY <2>1, <2>2, <1>1, <1>2
  <2> HIDE DEF g, m
  <2> QED BY ONLY <2>3, <2>4, <2>5, TypedIs
<1> HIDE DEF g
<1>6. \A pk \in Places(g) : In(g, pk) \in S(pk[1]) /\ pk[1] \in 0 .. m /\ pk = <<pk[1], pk[2]>>
                            /\ pk[2] \in 1 .. Cardinality(S(pk[1]))
  <2> HIDE DEF S, m
  <2> QED BY <1>2, <1>4 DEF Places, In
<1>7. Live(g) = Live(h)
  <2>1. ASSUME NEW x \in Live(g) PROVE x \in Live(h)
    <3>1. PICK pk \in Places(g) : In(g, pk) = x
      BY <1>5, PlaceFacts
    <3> QED BY <3>1, <1>6
  <2>2. ASSUME NEW x \in Live(h) PROVE x \in Live(g)
    <3>1. PICK k \in 1 .. Cardinality(S(PosOf(x, m))) : g.table[PosOf(x, m)][k] = x
      BY <1>3, <1>4, ZenonT(60)
    <3>2. <<PosOf(x, m), k>> \in Places(g) /\ In(g, <<PosOf(x, m), k>>) = x
      <4> HIDE DEF S, m
      <4> QED BY <3>1, <1>2, <1>3, <1>4 DEF Places, In
    <3> QED BY <3>2, <1>5, PlaceFacts
  <2> QED BY <2>1, <2>2
<1>8. Placed(g)
  <2>1. ASSUME NEW pk \in Places(g)
        PROVE  pk[1] = PosOf(In(g, pk), g.max) /\ g.pos[In(g, pk)] = pk[1]
    <3>1. In(g, pk) \in Live(h) /\ PosOf(In(g, pk), m) = pk[1]
      BY <1>6
    <3> QED BY <3>1, <1>2, <1>3
  <2> QED BY <2>1 DEF Placed
<1>9. Once(g)
  <2>1. ASSUME NEW j \in Places(g), NEW k \in Places(g), In(g, j) = In(g, k) PROVE j = k
    <3>1. In(g, j) \in S(j[1]) /\ In(g, k) \in S(k[1])
      BY <1>6
    <3>2. j[1] = k[1]
      BY <3>1, <2>1
    <3> HIDE DEF S, m
    <3>3. j[2] = k[2]
      BY <3>2, <2>1, <1>4, <1>6 DEF In
    <3> QED BY <3>2, <3>3, <1>6
  <2> QED BY <2>1 DEF Once
<1>10. Keyed(g) /\ Counted(g)
  BY <1>2, <1>7 DEF Sound, Keyed, Counted
<1> QED BY <1>1, <1>2, <1>5, <1>7, <1>8, <1>9, <1>10 DEF g, Sound

-----------------------------------------------------------------------------
(* A deletion keeps the other items, their values and their order *)

Thinned(c, u, gone) ==
  \E n \in Nat : \E r \in [1 .. n -> 1 .. Len(c)] :
    /\ u \in Seq(Items) /\ Len(u) = n
    /\ \A k \in 1 .. n : u[k] = c[r[k]] /\ u[k] \notin gone
    /\ \A j, k \in 1 .. n : j < k => r[j] < r[k]
    /\ \A k \in 1 .. Len(c) : c[k] \notin gone => \E j \in 1 .. n : r[j] = k

LEMMA UnlinkedIs ==
  ASSUME NEW c \in Seq(Items), NEW gone
  PROVE  Thinned(c, Unlinked(c, gone), gone)
<1> DEFINE kept == {k \in DOMAIN c : c[k] \notin gone}
           R == {p \in kept \X kept : p[1] < p[2]}
           n == Cardinality(kept)
           r == Ranked(R, kept)
<1>1. DOMAIN c = 1 .. Len(c) /\ Len(c) \in Nat
  BY LenProperties
<1>2. IsFiniteSet(kept)
  <2>1. IsFiniteSet(1 .. Len(c))
    BY <1>1, FirstNumbers
  <2>2. kept \in SUBSET (1 .. Len(c))
    BY <1>1
  <2> HIDE DEF kept
  <2> QED BY <2>1, <2>2, FS_Subset
<1>3. \A j, k \in kept : <<j, k>> \in R <=> j < k
  OBVIOUS
<1>4. \A k \in kept : k \in Nat /\ k \in 1 .. Len(c) /\ c[k] \notin gone
  BY <1>1
<1>5. \A k \in 1 .. Len(c) : c[k] \notin gone => k \in kept
  BY <1>1
<1> HIDE DEF R
<1>6. Orders(R, kept)
  <2> HIDE DEF kept
  <2> QED BY <1>3, <1>4 DEF Orders
<1>7. /\ n \in Nat /\ r \in [1 .. n -> kept]
      /\ \A j, k \in 1 .. n : j < k => <<r[j], r[k]>> \in R
      /\ \A x \in kept : \E k \in 1 .. n : r[k] = x
  <2> HIDE DEF kept
  <2> QED BY <1>2, <1>6, Ranking
<1>8. Unlinked(c, gone) = [k \in 1 .. n |-> c[r[k]]]
  <2> DEFINE b(m) == CHOOSE k \in kept : Cardinality({j \in kept : j < k}) = m - 1
             u(m) == CHOOSE k \in kept : Cardinality(Under(R, kept, k)) = m - 1
  <2>1. ASSUME NEW k \in kept PROVE {j \in kept : j < k} = Under(R, kept, k)
    <3> HIDE DEF kept
    <3> QED BY <1>3 DEF Under
  <2>2. \A m : b(m) = u(m)
    <3> HIDE DEF kept
    <3> QED BY <2>1
  <2>3. Unlinked(c, gone) = [m \in 1 .. n |-> c[b(m)]]
    BY DEF Unlinked
  <2>4. r = [m \in 1 .. n |-> u(m)]
    BY DEF Ranked
  <2> HIDE DEF b, u, r, n
  <2> QED BY <2>2, <2>3, <2>4
<1> HIDE DEF r, n, kept
<1>9. \A k \in 1 .. n : r[k] \in kept /\ r[k] \in 1 .. Len(c) /\ c[r[k]] \in Items
  BY <1>4, <1>7, ElementOfSeq
<1>10. Unlinked(c, gone) \in Seq(Items) /\ Len(Unlinked(c, gone)) = n
  BY <1>7, <1>8, <1>9
<1>11. r \in [1 .. n -> 1 .. Len(c)]
  BY <1>7, <1>9
<1>12. \A k \in 1 .. n : Unlinked(c, gone)[k] = c[r[k]] /\ Unlinked(c, gone)[k] \notin gone
  BY <1>4, <1>8, <1>9
<1>13. \A j, k \in 1 .. n : j < k => r[j] < r[k]
  BY <1>3, <1>7, <1>9
<1>14. \A k \in 1 .. Len(c) : c[k] \notin gone => \E j \in 1 .. n : r[j] = k
  BY <1>5, <1>7
<1> QED BY <1>7, <1>10, <1>11, <1>12, <1>13, <1>14 DEF Thinned

Keeps(h, g) ==
  \A x, y \in Live(h) \intersect Live(g) : Precedes(h, x, y) <=> Precedes(g, x, y)

LEMMA DeletedSound ==
  ASSUME HashAssumption, NEW h, Sound(h), NEW gone \in SUBSET Live(h)
  PROVE  /\ Sound(Deleted(h, gone)) /\ Live(Deleted(h, gone)) = Live(h) \ gone
         /\ \A x \in Live(h) \ gone : Deleted(h, gone).item[x] = h.item[x]
         /\ Deleted(h, gone).max = h.max /\ Keeps(h, Deleted(h, gone))
<1> DEFINE g == Deleted(h, gone)
<1>0. h.max \in Nat /\ Live(h) \subseteq Items /\ DOMAIN h.table = 0 .. h.max
  BY PlaceFacts DEF Sound
<1>1. /\ g.max = h.max
      /\ g.table = [p \in 0 .. h.max |-> Unlinked(h.table[p], gone)]
      /\ g.pos = [x \in Items |-> IF x \in gone THEN 0 ELSE h.pos[x]]
      /\ g.item = [x \in Items |-> IF x \in gone THEN Null ELSE h.item[x]]
      /\ g.count = h.count - Cardinality(gone)
      /\ g = [table |-> g.table, max |-> g.max, count |-> g.count, pos |-> g.pos, item |-> g.item]
  BY <1>0 DEF Deleted
<1> HIDE DEF g
<1>2. /\ h.table \in [0 .. h.max -> Seq(Items)] /\ h.pos \in [Items -> 0 .. h.max]
      /\ h.item \in [Items -> Stored] /\ h.count \in Nat
  BY DEF Sound, Typed, TableType
<1>3. /\ IsFiniteSet(Live(h) \ gone)
      /\ Cardinality(Live(h) \ gone) = g.count /\ g.count \in Nat
  <2>1. IsFiniteSet(Live(h)) /\ h.count = Cardinality(Live(h)) /\ Live(h) \intersect gone = gone
    BY DEF Sound, Counted
  <2>2. IsFiniteSet(Live(h) \ gone)
        /\ Cardinality(Live(h) \ gone) = Cardinality(Live(h)) - Cardinality(gone)
    BY <2>1, FS_Difference
  <2> QED BY <2>1, <2>2, <1>1, FS_CardinalityType
<1>4. ASSUME NEW p \in 0 .. h.max PROVE Thinned(h.table[p], g.table[p], gone)
  <2>1. h.table[p] \in Seq(Items) /\ g.table[p] = Unlinked(h.table[p], gone)
    BY <1>1, <1>2
  <2> QED BY <2>1, UnlinkedIs
<1>5. Typed(g)
  <2>1. g.table \in [0 .. h.max -> Seq(Items)]
    BY <1>1, <1>4 DEF Thinned
  <2>2. g.pos \in [Items -> 0 .. h.max] /\ g.item \in [Items -> Stored]
    BY <1>0, <1>1, <1>2 DEF Stored
  <2>3. g = [table |-> g.table, max |-> g.max, count |-> g.count, pos |-> g.pos, item |-> g.item]
    BY <1>1
  <2>4. g.max \in Nat /\ g.table \in [0 .. g.max -> Seq(Items)] /\ g.pos \in [Items -> 0 .. g.max]
        /\ g.item \in [Items -> Stored] /\ g.count \in Nat
    BY <2>1, <2>2, <1>0, <1>1, <1>3
  <2> QED BY ONLY <2>3, <2>4, TypedIs
<1>6. ASSUME NEW pk \in Places(g)
      PROVE  /\ pk[1] \in 0 .. h.max /\ pk = <<pk[1], pk[2]>> /\ pk[2] \in Nat
             /\ In(g, pk) \in Live(h) \ gone
             /\ At(h, In(g, pk)) = pk[1] /\ g.pos[In(g, pk)] = pk[1]
             /\ pk[1] = PosOf(In(g, pk), g.max)
  <2>1. pk[1] \in 0 .. h.max /\ pk[2] \in 1 .. Len(g.table[pk[1]]) /\ pk = <<pk[1], pk[2]>>
        /\ pk[2] \in Nat
    BY <1>1 DEF Places
  <2>2. PICK k \in 1 .. Len(h.table[pk[1]]) : /\ g.table[pk[1]][pk[2]] = h.table[pk[1]][k]
                                              /\ g.table[pk[1]][pk[2]] \notin gone
    BY <2>1, <1>4 DEF Thinned
  <2>3. k \in Nat
    BY <2>1, PlaceFacts DEF Sound
  <2>4. <<pk[1], k>> \in Places(h) /\ In(h, <<pk[1], k>>) = In(g, pk) /\ In(g, pk) \notin gone
    BY <2>1, <2>2, <2>3 DEF Places, In
  <2>5. In(g, pk) \in Live(h) /\ At(h, In(g, pk)) = pk[1]
    BY <2>4, PlaceFacts, PlaceOf DEF Sound
  <2>6. h.pos[In(g, pk)] = pk[1] /\ PosOf(In(g, pk), h.max) = pk[1]
    BY <2>5, LiveAt
  <2> QED BY <2>1, <2>4, <2>5, <2>6, <1>0, <1>1
<1>7. ASSUME NEW j \in Places(g), NEW k \in Places(g), j[1] = k[1]
      PROVE  Rank(h, In(g, j)) < Rank(h, In(g, k)) <=> j[2] < k[2]
  <2> DEFINE p == j[1]
  <2>0. Thinned(h.table[p], g.table[p], gone)
    BY <1>4, <1>6
  <2>1. PICK n \in Nat : \E r \in [1 .. n -> 1 .. Len(h.table[p])] :
           /\ Len(g.table[p]) = n
           /\ \A i \in 1 .. n : g.table[p][i] = h.table[p][r[i]]
           /\ \A i, l \in 1 .. n : i < l => r[i] < r[l]
    BY <2>0 DEF Thinned
  <2>12. PICK r \in [1 .. n -> 1 .. Len(h.table[p])] :
           /\ Len(g.table[p]) = n
           /\ \A i \in 1 .. n : g.table[p][i] = h.table[p][r[i]]
           /\ \A i, l \in 1 .. n : i < l => r[i] < r[l]
    BY <2>1
  <2>2. j[2] \in 1 .. n /\ k[2] \in 1 .. n /\ p \in 0 .. h.max
    BY <2>12, <1>6, <1>7 DEF Places
  <2>3. \A i \in 1 .. n : <<p, r[i]>> \in Places(h) /\ In(h, <<p, r[i]>>) = g.table[p][i] /\ r[i] \in Nat
    <3>1. Len(h.table[p]) \in Nat
      BY <2>2, PlaceFacts DEF Sound
    <3>2. \A i \in 1 .. n : r[i] \in 1 .. Len(h.table[p]) /\ r[i] \in Nat
      BY <2>12, <3>1
    <3> QED BY <2>12, <2>2, <3>2 DEF Places, In
  <2>4. ASSUME NEW i \in 1 .. n PROVE Rank(h, g.table[p][i]) = r[i]
    <3> DEFINE pk == <<p, r[i]>>
    <3>1. pk \in Places(h) /\ In(h, pk) = g.table[p][i] /\ pk[2] = r[i]
      BY <2>3
    <3> HIDE DEF pk
    <3> QED BY <3>1, PlaceOf
  <2>5. In(g, j) = g.table[p][j[2]] /\ In(g, k) = g.table[p][k[2]]
    BY <1>7 DEF In
  <2>6. Rank(h, In(g, j)) = r[j[2]] /\ Rank(h, In(g, k)) = r[k[2]]
    BY <2>2, <2>4, <2>5
  <2>7. r[j[2]] \in Nat /\ r[k[2]] \in Nat
    BY <2>2, <2>3
  <2>8. CASE j[2] < k[2]
    BY <2>12, <2>2, <2>6, <2>8
  <2>9. CASE k[2] < j[2]
    <3>1. r[k[2]] < r[j[2]]
      BY <2>12, <2>2, <2>9
    <3> QED BY <3>1, <2>2, <2>6, <2>7, <2>9
  <2>10. CASE k[2] = j[2]
    BY <2>2, <2>6, <2>7, <2>10
  <2>11. j[2] < k[2] \/ k[2] < j[2] \/ k[2] = j[2]
    BY <2>2
  <2> QED BY <2>8, <2>9, <2>10, <2>11
<1>8. Live(g) = Live(h) \ gone
  <2>1. ASSUME NEW x \in Live(g) PROVE x \in Live(h) \ gone
    <3>1. PICK pk \in Places(g) : In(g, pk) = x
      BY <1>5, PlaceFacts
    <3> QED BY <3>1, <1>6
  <2>2. ASSUME NEW x \in Live(h) \ gone PROVE x \in Live(g)
    <3>1. At(h, x) \in 0 .. h.max /\ Rank(h, x) \in 1 .. Len(h.table[At(h, x)])
          /\ h.table[At(h, x)][Rank(h, x)] = x
      BY LiveAt
    <3>2. PICK j \in 1 .. Len(g.table[At(h, x)]) : g.table[At(h, x)][j] = x /\ j \in Nat
      BY <3>1, <1>4 DEF Thinned
    <3>3. <<At(h, x), j>> \in Places(g) /\ In(g, <<At(h, x), j>>) = x
      BY <3>1, <3>2, <1>1 DEF Places, In
    <3> QED BY <3>3, <1>5, PlaceFacts
  <2> QED BY <2>1, <2>2
<1>9. Placed(g)
  BY <1>6 DEF Placed
<1>10. Once(g)
  <2>1. ASSUME NEW j \in Places(g), NEW k \in Places(g), In(g, j) = In(g, k) PROVE j = k
    <3>1. j[1] = k[1]
      BY <1>6, <2>1
    <3>2. In(g, j) \in Live(h)
      BY <1>6
    <3>3. ~Precedes(h, In(g, j), In(g, j))
      BY <3>2, MeetingOrder
    <3>4. ~(Rank(h, In(g, j)) < Rank(h, In(g, j)))
      BY <3>3 DEF Precedes
    <3>5. ~(j[2] < k[2]) /\ ~(k[2] < j[2])
      BY <3>1, <3>4, <1>7, <2>1
    <3>6. j[2] = k[2]
      BY <3>5, <1>6
    <3> QED BY <3>1, <3>6, <1>6
  <2> QED BY <2>1 DEF Once
<1>11. Keyed(g) /\ Counted(g)
  BY <1>3, <1>8 DEF Sound, Keyed, Counted
<1>12. Sound(g)
  BY <1>5, <1>9, <1>10, <1>11 DEF Sound
<1>13. Keeps(h, g)
  <2>1. ASSUME NEW x \in Live(g), NEW y \in Live(g) PROVE Precedes(h, x, y) <=> Precedes(g, x, y)
    <3>1. PICK j \in Places(g) : In(g, j) = x
      BY <1>5, PlaceFacts
    <3>2. PICK k \in Places(g) : In(g, k) = y
      BY <1>5, PlaceFacts
    <3>3. At(g, x) = j[1] /\ Rank(g, x) = j[2] /\ At(g, y) = k[1] /\ Rank(g, y) = k[2]
      BY <3>1, <3>2, <1>12, PlaceOf
    <3>4. At(h, x) = j[1] /\ At(h, y) = k[1]
      BY <3>1, <3>2, <1>6
    <3>5. j[1] = k[1] => (Rank(h, x) < Rank(h, y) <=> j[2] < k[2])
      BY <3>1, <3>2, <1>7
    <3> QED BY <3>3, <3>4, <3>5 DEF Precedes
  <2> QED BY <2>1 DEF Keeps
<1>14. \A x \in Live(h) \ gone : g.item[x] = h.item[x]
  BY <1>0, <1>1
<1> QED BY <1>1, <1>8, <1>12, <1>13, <1>14 DEF g

-----------------------------------------------------------------------------
(* An insertion, a replacement, and netwib_hash_add *)

LEMMA ReplacedSound ==
  ASSUME NEW h, Sound(h), NEW y \in Live(h), NEW v \in Stored
  PROVE  LET g == Replaced(h, y, PosOf(y, h.max), v)
         IN  /\ Sound(g) /\ Live(g) = Live(h) /\ g.max = h.max /\ Keeps(h, g)
             /\ g.item = [h.item EXCEPT ![y] = v]
<1> DEFINE g == Replaced(h, y, PosOf(y, h.max), v)
<1>1. h.pos \in [Items -> Nat] /\ h.item \in [Items -> Stored] /\ y \in Items
  BY PlaceFacts DEF Sound, Typed, TableType
<1>2. h.pos[y] = PosOf(y, h.max)
  BY LiveAt
<1>3. [h.pos EXCEPT ![y] = PosOf(y, h.max)] = h.pos
  BY <1>1, <1>2
<1>4. /\ g.table = h.table /\ g.max = h.max /\ g.count = h.count /\ g.pos = h.pos
      /\ g.item = [h.item EXCEPT ![y] = v]
      /\ g = [table |-> g.table, max |-> g.max, count |-> g.count, pos |-> g.pos, item |-> g.item]
  BY <1>3 DEF Replaced
<1> HIDE DEF g
<1>5. Typed(g)
  <2>1. g.item \in [Items -> Stored]
    BY <1>1, <1>4
  <2>2. g.max \in Nat /\ g.table \in [0 .. g.max -> Seq(Items)] /\ g.count \in Nat
        /\ g.pos \in [Items -> 0 .. g.max]
    BY <1>4 DEF Sound, Typed, TableType
  <2>3. g = [table |-> g.table, max |-> g.max, count |-> g.count, pos |-> g.pos, item |-> g.item]
    BY <1>4
  <2> QED BY ONLY <2>1, <2>2, <2>3, TypedIs
<1>6. Live(g) = Live(h)
  BY <1>4 DEF Live
<1>7. Places(g) = Places(h) /\ \A pk : In(g, pk) = In(h, pk)
  BY <1>4 DEF Places, In
<1>8. Placed(g) /\ Once(g)
  BY <1>4, <1>7 DEF Placed, Once, Sound
<1>9. Keyed(g) /\ Counted(g)
  BY <1>4, <1>6 DEF Keyed, Counted, Sound
<1>10. Keeps(h, g)
  <2>1. \A x : At(h, x) = At(g, x)
    BY <1>4 DEF At
  <2>2. \A x : Rank(h, x) = Rank(g, x)
    BY <1>4, <2>1 DEF Rank
  <2> QED BY <2>1, <2>2 DEF Keeps, Precedes
<1> QED BY <1>4, <1>5, <1>6, <1>8, <1>9, <1>10 DEF Sound, g

LEMMA InsertedSound ==
  ASSUME HashAssumption, NEW h, Sound(h), NEW x \in Items, x \notin Live(h), NEW v \in Stored,
         \A y \in Live(h) : Key(y) # Key(x)
  PROVE  LET g == Inserted(h, x, PosOf(x, h.max), v)
         IN  /\ Sound(g) /\ Live(g) = Live(h) \union {x} /\ g.max = h.max /\ Keeps(h, g)
             /\ g.item = [h.item EXCEPT ![x] = v]
<1> DEFINE p == PosOf(x, h.max)
           g == Inserted(h, x, p, v)
<1>0. h.max \in Nat /\ p \in 0 .. h.max /\ Live(h) \subseteq Items /\ DOMAIN h.table = 0 .. h.max
  BY PlaceFacts, PosOfType DEF Sound
<1> HIDE DEF p
<1>1. /\ h.table \in [0 .. h.max -> Seq(Items)] /\ h.pos \in [Items -> 0 .. h.max]
      /\ h.item \in [Items -> Stored] /\ h.count \in Nat
  BY DEF Sound, Typed, TableType
<1>2. /\ g.table = [h.table EXCEPT ![p] = <<x>> \o h.table[p]]
      /\ g.max = h.max /\ g.count = h.count + 1
      /\ g.pos = [h.pos EXCEPT ![x] = p] /\ g.item = [h.item EXCEPT ![x] = v]
      /\ g = [table |-> g.table, max |-> g.max, count |-> g.count, pos |-> g.pos, item |-> g.item]
  BY DEF Inserted
<1> HIDE DEF g
<1>3. /\ g.table[p] \in Seq(Items) /\ Len(g.table[p]) = Len(h.table[p]) + 1
      /\ Len(h.table[p]) \in Nat /\ g.table[p][1] = x
      /\ \A k \in 1 .. Len(h.table[p]) : g.table[p][k + 1] = h.table[p][k]
  <2>1. h.table[p] \in Seq(Items) /\ g.table[p] = <<x>> \o h.table[p] /\ Len(h.table[p]) \in Nat
    BY <1>0, <1>1, <1>2, LenProperties
  <2>2. <<x>> \in Seq(Items) /\ Len(<<x>>) = 1
    OBVIOUS
  <2>3. /\ <<x>> \o h.table[p] \in Seq(Items)
        /\ Len(<<x>> \o h.table[p]) = 1 + Len(h.table[p])
        /\ \A i \in 1 .. 1 + Len(h.table[p]) :
             (<<x>> \o h.table[p])[i] = IF i <= 1 THEN <<x>>[i] ELSE h.table[p][i - 1]
    <3> DEFINE c == h.table[p]  s == <<x>>
    <3>1. c \in Seq(Items) /\ s \in Seq(Items) /\ Len(s) = 1
      BY <2>1, <2>2
    <3> HIDE DEF c, s
    <3>2. /\ s \o c \in Seq(Items) /\ Len(s \o c) = 1 + Len(c)
          /\ \A i \in 1 .. 1 + Len(c) : (s \o c)[i] = IF i <= 1 THEN s[i] ELSE c[i - 1]
      BY <3>1, ConcatProperties, SMTT(30)
    <3> QED BY <3>2 DEF c, s
  <2> DEFINE c == h.table[p]  d == <<x>> \o h.table[p]
  <2>4. /\ g.table[p] = d /\ d \in Seq(Items) /\ Len(d) = 1 + Len(c) /\ Len(c) \in Nat
        /\ \A i \in 1 .. 1 + Len(c) : d[i] = IF i <= 1 THEN x ELSE c[i - 1]
    BY <2>1, <2>3
  <2> HIDE DEF c, d
  <2>5. d[1] = x /\ Len(d) = Len(c) + 1
    BY <2>4
  <2>6. ASSUME NEW k \in 1 .. Len(c) PROVE d[k + 1] = c[k]
    <3>1. k + 1 \in 1 .. 1 + Len(c) /\ ~(k + 1 <= 1) /\ k + 1 - 1 = k
      BY <2>4
    <3> QED BY <3>1, <2>4
  <2>7. /\ g.table[p] \in Seq(Items) /\ Len(g.table[p]) = Len(c) + 1
        /\ Len(c) \in Nat /\ g.table[p][1] = x
        /\ \A k \in 1 .. Len(c) : g.table[p][k + 1] = c[k]
    BY <2>4, <2>5, <2>6
  <2> QED BY <2>7 DEF c
<1>4. \A q \in 0 .. h.max : q # p => g.table[q] = h.table[q]
  BY <1>1, <1>2
<1>5. Typed(g)
  <2>1. g.table \in [0 .. h.max -> Seq(Items)]
    <3>1. <<x>> \o h.table[p] \in Seq(Items)
      BY <1>0, <1>1, <1>2, <1>3
    <3> QED BY <3>1, <1>1, <1>2
  <2>2. g.pos \in [Items -> 0 .. g.max] /\ g.item \in [Items -> Stored] /\ g.count \in Nat
    BY <1>0, <1>1, <1>2
  <2>3. g = [table |-> g.table, max |-> g.max, count |-> g.count, pos |-> g.pos, item |-> g.item]
    BY <1>2
  <2>4. g.max \in Nat /\ g.table \in [0 .. g.max -> Seq(Items)]
    BY <2>1, <1>0, <1>2
  <2> QED BY ONLY <2>2, <2>3, <2>4, TypedIs
\* The places of the chain of x are one further than they were.
<1> DEFINE Shift(pk) == <<pk[1], IF pk[1] = p THEN pk[2] + 1 ELSE pk[2]>>
<1>6. ASSUME NEW pk \in Places(h) PROVE Shift(pk) \in Places(g) /\ In(g, Shift(pk)) = In(h, pk)
  <2>1. pk[1] \in 0 .. h.max /\ pk[2] \in 1 .. Len(h.table[pk[1]]) /\ pk[2] \in Nat
        /\ Len(h.table[pk[1]]) \in Nat
    BY PlaceFacts DEF Places, Sound
  <2>2. CASE pk[1] = p
    BY <2>1, <2>2, <1>2, <1>3 DEF Places, In
  <2>3. CASE pk[1] # p
    BY <2>1, <2>3, <1>2, <1>4 DEF Places, In
  <2> QED BY <2>2, <2>3
<1>7. <<p, 1>> \in Places(g) /\ In(g, <<p, 1>>) = x
  BY <1>0, <1>2, <1>3 DEF Places, In
<1>8. ASSUME NEW pk \in Places(g) PROVE pk = <<p, 1>> \/ \E j \in Places(h) : Shift(j) = pk
  <2>1. pk[1] \in 0 .. h.max /\ pk[2] \in 1 .. Len(g.table[pk[1]]) /\ pk[2] \in Nat
        /\ pk = <<pk[1], pk[2]>>
    BY <1>2 DEF Places
  <2>2. CASE pk[1] = p /\ pk[2] = 1
    BY <2>1, <2>2
  <2>3. CASE pk[1] = p /\ pk[2] # 1
    <3>1. <<p, pk[2] - 1>> \in Places(h)
      BY <2>1, <2>3, <1>0, <1>3 DEF Places
    <3> QED BY <3>1, <2>1, <2>3
  <2>4. CASE pk[1] # p
    <3>1. pk \in Places(h)
      BY <2>1, <2>4, <1>4 DEF Places
    <3> QED BY <3>1, <2>1, <2>4
  <2> QED BY <2>2, <2>3, <2>4
<1>9. \A j, k \in Places(h) : Shift(j) = Shift(k) => j = k
  <2>1. \A j \in Places(h) : j = <<j[1], j[2]>> /\ j[2] \in Nat
    BY DEF Places
  <2> QED BY <2>1
<1>10. \A k \in Places(h) : In(h, k) \in Live(h) /\ In(h, k) # x
  BY PlaceFacts DEF Sound
<1> HIDE DEF Shift
<1>11. Live(g) = Live(h) \union {x}
  <2>1. ASSUME NEW y \in Live(g) PROVE y \in Live(h) \union {x}
    <3>1. PICK pk \in Places(g) : In(g, pk) = y
      BY <1>5, PlaceFacts
    <3> QED BY <3>1, <1>6, <1>7, <1>8, <1>10
  <2>2. ASSUME NEW y \in Live(h) \union {x} PROVE y \in Live(g)
    <3>1. \E pk \in Places(g) : In(g, pk) = y
      BY <1>6, <1>7, PlaceFacts DEF Sound
    <3> QED BY <3>1, <1>5, PlaceFacts
  <2> QED BY <2>1, <2>2
<1>12. Placed(g)
  <2>1. ASSUME NEW pk \in Places(g)
        PROVE  pk[1] = PosOf(In(g, pk), g.max) /\ g.pos[In(g, pk)] = pk[1]
    <3>1. CASE pk = <<p, 1>>
      BY <3>1, <1>1, <1>2, <1>7 DEF p
    <3>2. CASE pk # <<p, 1>>
      <4>1. PICK j \in Places(h) : Shift(j) = pk
        BY <3>2, <1>8
      <4>2. pk[1] = j[1] /\ In(g, pk) = In(h, j)
        BY <4>1, <1>6 DEF Shift
      <4>3. In(h, j) \in Items /\ In(h, j) # x
        BY <1>0, <1>10
      <4>4. g.pos[In(h, j)] = h.pos[In(h, j)]
        BY <4>3, <1>1, <1>2
      <4> QED BY <4>2, <4>4, <1>2 DEF Sound, Placed
    <3> QED BY <3>1, <3>2
  <2> QED BY <2>1 DEF Placed
<1>13. Once(g)
  <2>1. ASSUME NEW j \in Places(g), NEW k \in Places(g), In(g, j) = In(g, k) PROVE j = k
    <3>1. CASE j = <<p, 1>> \/ k = <<p, 1>>
      BY <3>1, <2>1, <1>6, <1>7, <1>8, <1>10
    <3>2. CASE j # <<p, 1>> /\ k # <<p, 1>>
      <4>1. PICK a \in Places(h) : Shift(a) = j
        BY <3>2, <1>8
      <4>2. PICK b \in Places(h) : Shift(b) = k
        BY <3>2, <1>8
      <4>3. In(h, a) = In(h, b)
        BY <4>1, <4>2, <2>1, <1>6
      <4> QED BY <4>1, <4>2, <4>3 DEF Sound, Once
    <3> QED BY <3>1, <3>2
  <2> QED BY <2>1 DEF Once
<1>14. Keyed(g)
  BY <1>11 DEF Sound, Keyed
<1>15. Counted(g)
  <2>1. IsFiniteSet(Live(h)) /\ h.count = Cardinality(Live(h))
    BY DEF Sound, Counted
  <2> QED BY <2>1, <1>2, <1>11, FS_AddElement DEF Counted
<1>16. Sound(g)
  BY <1>5, <1>12, <1>13, <1>14, <1>15 DEF Sound
<1>17. Keeps(h, g)
  <2>1. ASSUME NEW y \in Live(h), NEW z \in Live(h) PROVE Precedes(h, y, z) <=> Precedes(g, y, z)
    <3>1. PICK j \in Places(h) : In(h, j) = y
      BY PlaceFacts DEF Sound
    <3>2. PICK k \in Places(h) : In(h, k) = z
      BY PlaceFacts DEF Sound
    <3>3. At(h, y) = j[1] /\ Rank(h, y) = j[2] /\ At(h, z) = k[1] /\ Rank(h, z) = k[2]
      BY <3>1, <3>2, PlaceOf
    <3>4. At(g, y) = Shift(j)[1] /\ Rank(g, y) = Shift(j)[2]
      <4>1. Shift(j) \in Places(g) /\ In(g, Shift(j)) = y
        BY <3>1, <1>6
      <4> QED BY <4>1, <1>16, PlaceOf
    <3>5. At(g, z) = Shift(k)[1] /\ Rank(g, z) = Shift(k)[2]
      <4>1. Shift(k) \in Places(g) /\ In(g, Shift(k)) = z
        BY <3>2, <1>6
      <4> QED BY <4>1, <1>16, PlaceOf
    <3>6. j[2] \in Nat /\ k[2] \in Nat
      BY DEF Places
    <3> QED BY <3>3, <3>4, <3>5, <3>6 DEF Precedes, Shift
  <2> QED BY <2>1 DEF Keeps
<1> QED BY <1>2, <1>11, <1>16, <1>17 DEF g, p

\* The item a search finds is the only one that has the key.
LEMMA SameIs ==
  ASSUME HashAssumption, NEW h, Sound(h), NEW k \in Keys
  PROVE  /\ Same(h, Hash(k) % (h.max + 1), k) = {x \in Live(h) : Key(x) = k}
         /\ \A x \in Live(h) : Key(x) = k =>
              /\ Same(h, Hash(k) % (h.max + 1), k) = {x}
              /\ First(h, Same(h, Hash(k) % (h.max + 1), k)) = x
<1> DEFINE p == Hash(k) % (h.max + 1)
<1>1. PICK z \in Items : k = Key(z)
  BY DEF Keys
<1>2. h.max \in Nat /\ p = PosOf(z, h.max) /\ p \in 0 .. h.max
  BY <1>1, PlaceFacts, PosOfType DEF Sound, PosOf
<1>3. \A x : Key(x) = k => PosOf(x, h.max) = p
  BY DEF PosOf
<1> HIDE DEF p
<1>4. DOMAIN h.table = 0 .. h.max /\ DOMAIN h.table[p] = 1 .. Len(h.table[p])
  BY <1>2, PlaceFacts DEF Sound
<1>5. ASSUME NEW x, x \in Same(h, p, k) PROVE x \in Live(h) /\ Key(x) = k
  BY <1>2, <1>4, <1>5 DEF Same, Live
<1>6. ASSUME NEW x \in Live(h), Key(x) = k PROVE x \in Same(h, p, k)
  <2>1. At(h, x) = p /\ Rank(h, x) \in 1 .. Len(h.table[p]) /\ h.table[p][Rank(h, x)] = x
    BY <1>3, <1>6, LiveAt
  <2> QED BY <2>1, <1>4, <1>6 DEF Same, ToSet
<1>7. ASSUME NEW x \in Live(h), Key(x) = k
      PROVE  Same(h, p, k) = {x} /\ First(h, Same(h, p, k)) = x
  <2>1. Same(h, p, k) = {x}
    BY <1>5, <1>6, <1>7 DEF Sound, Keyed
  <2>2. {x} \in SUBSET Live(h) /\ {x} # {}
    OBVIOUS
  <2>3. First(h, {x}) \in {x}
    BY <2>2, FirstIs
  <2> QED BY <2>1, <2>3
<1> QED BY <1>5, <1>6, <1>7 DEF p

\* A search gives the value of the item that has the key.
LEMMA ValueIs ==
  ASSUME HashAssumption, NEW h, Sound(h), NEW k \in Keys
  PROVE  /\ \A x \in Live(h) : Key(x) = k => Value(h, k) = h.item[x]
         /\ (\A x \in Live(h) : Key(x) # k) => Value(h, k) = Null
<1>1. ASSUME NEW x \in Live(h), Key(x) = k PROVE Value(h, k) = h.item[x]
  <2>1. /\ Same(h, Hash(k) % (h.max + 1), k) # {}
        /\ First(h, Same(h, Hash(k) % (h.max + 1), k)) = x
    BY <1>1, SameIs
  <2> QED BY <2>1 DEF Value
<1>2. ASSUME \A x \in Live(h) : Key(x) # k PROVE Value(h, k) = Null
  <2>1. Same(h, Hash(k) % (h.max + 1), k) = {}
    BY <1>2, SameIs
  <2> QED BY <2>1 DEF Value
<1> QED BY <1>1, <1>2

\* What netwib_hash_add does to a table: the old items stay in it, in the same
\* order unless it expands, and the key has the value.
Added(h, g, x, v) ==
  /\ Sound(g) /\ Live(h) \subseteq Live(g) /\ Live(g) \subseteq Live(h) \union {x}
  /\ g.max >= h.max /\ (g.max = h.max => Keeps(h, g))
  /\ \A k \in Keys : Value(g, k) = IF k = Key(x) THEN v ELSE Value(h, k)

LEMMA AddIs ==
  ASSUME HashAssumption, NEW h, Sound(h), NEW x \in Items, x \notin Live(h), NEW v \in Stored
  PROVE  Added(h, Add(h, x, v), x, v)
<1> DEFINE e == IF Expands(h) THEN Expand(h) ELSE h
           p == PosOf(x, e.max)
           same == Same(e, p, Key(x))
           g == Add(h, x, v)
<1>0. Key(x) \in Keys /\ h.max \in Nat
  BY PlaceFacts DEF Keys, Sound
<1>1. /\ Sound(e) /\ Live(e) = Live(h) /\ e.item = h.item
      /\ e.max >= h.max /\ (e.max = h.max => e = h) /\ e.max \in Nat
  <2>1. CASE Expands(h)
    <3>1. Sound(Expand(h)) /\ Live(Expand(h)) = Live(h) /\ Expand(h).item = h.item
      BY ExpandSound
    <3>2. Expand(h).max = 2 * h.max + 1
      BY DEF Expand
    <3> QED BY <2>1, <3>1, <3>2, <1>0
  <2>2. CASE ~Expands(h)
    BY <2>2, <1>0
  <2> QED BY <2>1, <2>2
<1>2. g = IF same # {} THEN Replaced(e, First(e, same), p, v) ELSE Inserted(e, x, p, v)
  BY DEF Add
<1>3. p = Hash(Key(x)) % (e.max + 1)
  BY DEF PosOf
<1> HIDE DEF e, g
<1>4. /\ same = {y \in Live(e) : Key(y) = Key(x)}
      /\ \A y \in Live(e) : Key(y) = Key(x) => First(e, same) = y
  BY <1>0, <1>1, <1>3, SameIs
<1>5. \E y \in Live(g) : /\ Key(y) = Key(x) /\ g.item[y] = v
                         /\ \A z \in Live(h) : Key(z) # Key(x) => g.item[z] = h.item[z]
                         /\ Sound(g) /\ Live(h) \subseteq Live(g)
                         /\ Live(g) \subseteq Live(h) \union {x}
                         /\ g.max = e.max /\ Keeps(e, g)
  <2>0. h.item \in [Items -> Stored] /\ Live(h) \subseteq Items
    BY PlaceFacts DEF Sound, Typed, TableType
  <2>1. CASE same # {}
    <3>1. PICK y \in Live(e) : Key(y) = Key(x)
      BY <2>1, <1>4
    <3>2. First(e, same) = y /\ p = PosOf(y, e.max)
      BY <3>1, <1>4 DEF PosOf
    <3>3. g = Replaced(e, y, PosOf(y, e.max), v)
      BY <2>1, <3>2, <1>2
    <3>4. /\ Sound(g) /\ Live(g) = Live(e) /\ g.max = e.max /\ Keeps(e, g)
          /\ g.item = [e.item EXCEPT ![y] = v]
      BY <3>3, <1>1, ReplacedSound
    <3>5. y \in Live(g) /\ g.item[y] = v /\ \A z \in Live(h) : Key(z) # Key(x) => g.item[z] = h.item[z]
      BY <3>1, <3>4, <1>1, <2>0
    <3> QED BY <3>1, <3>4, <3>5, <1>1
  <2>2. CASE same = {}
    <3>1. \A y \in Live(e) : Key(y) # Key(x)
      BY <2>2, <1>4
    <3>2. g = Inserted(e, x, PosOf(x, e.max), v)
      BY <2>2, <1>2
    <3>3. /\ Sound(g) /\ Live(g) = Live(e) \union {x} /\ g.max = e.max /\ Keeps(e, g)
          /\ g.item = [e.item EXCEPT ![x] = v]
      BY <3>1, <3>2, <1>1, InsertedSound
    <3>4. x \in Live(g) /\ g.item[x] = v /\ \A z \in Live(h) : Key(z) # Key(x) => g.item[z] = h.item[z]
      BY <3>3, <1>1, <2>0
    <3> QED BY <3>3, <3>4, <1>1
  <2> QED BY <2>1, <2>2
<1>6. PICK y \in Live(g) : /\ Key(y) = Key(x) /\ g.item[y] = v
                           /\ \A z \in Live(h) : Key(z) # Key(x) => g.item[z] = h.item[z]
                           /\ Sound(g) /\ Live(h) \subseteq Live(g)
                           /\ Live(g) \subseteq Live(h) \union {x}
                           /\ g.max = e.max /\ Keeps(e, g)
  BY <1>5
<1>7. ASSUME NEW k \in Keys PROVE Value(g, k) = IF k = Key(x) THEN v ELSE Value(h, k)
  <2>1. CASE k = Key(x)
    BY <2>1, <1>6, ValueIs
  <2>2. CASE k # Key(x) /\ \E z \in Live(h) : Key(z) = k
    <3>1. PICK z \in Live(h) : Key(z) = k
      BY <2>2
    <3>2. Value(h, k) = h.item[z] /\ Value(g, k) = g.item[z]
      BY <3>1, <1>6, ValueIs
    <3> QED BY <2>2, <3>1, <3>2, <1>6
  <2>3. CASE k # Key(x) /\ \A z \in Live(h) : Key(z) # k
    <3>1. \A z \in Live(g) : Key(z) # k
      BY <2>3, <1>6
    <3> QED BY <2>3, <3>1, <1>6, ValueIs
  <2> QED BY <2>1, <2>2, <2>3
<1>8. g.max >= h.max /\ (g.max = h.max => Keeps(h, g))
  BY <1>1, <1>6
<1> QED BY <1>6, <1>7, <1>8 DEF Added, g

\* A search does not find what was deleted any more.
LEMMA DeletedValue ==
  ASSUME HashAssumption, NEW h, Sound(h), NEW gone \in SUBSET Live(h), NEW k \in Keys
  PROVE  Value(Deleted(h, gone), k)
         = IF k \in {Key(x) : x \in gone} THEN Null ELSE Value(h, k)
<1> DEFINE g == Deleted(h, gone)
<1>1. /\ Sound(g) /\ Live(g) = Live(h) \ gone
      /\ \A x \in Live(h) \ gone : g.item[x] = h.item[x]
  BY DeletedSound
<1> HIDE DEF g
<1>2. CASE k \in {Key(x) : x \in gone}
  <2>1. PICK x \in gone : Key(x) = k
    BY <1>2
  <2>2. \A y \in Live(g) : Key(y) # k
    BY <2>1, <1>1 DEF Sound, Keyed
  <2> QED BY <2>2, <1>1, <1>2, ValueIs DEF g
<1>3. CASE k \notin {Key(x) : x \in gone} /\ \E z \in Live(h) : Key(z) = k
  <2>1. PICK z \in Live(h) : Key(z) = k
    BY <1>3
  <2>2. z \in Live(g) /\ g.item[z] = h.item[z]
    BY <2>1, <1>1, <1>3
  <2>3. Value(h, k) = h.item[z] /\ Value(g, k) = g.item[z]
    BY <2>1, <2>2, <1>1, ValueIs
  <2> QED BY <2>2, <2>3, <1>3 DEF g
<1>4. CASE k \notin {Key(x) : x \in gone} /\ \A z \in Live(h) : Key(z) # k
  <2>1. \A z \in Live(g) : Key(z) # k
    BY <1>1, <1>4
  <2> QED BY <2>1, <1>1, <1>4, ValueIs DEF g
<1> QED BY <1>2, <1>3, <1>4

\* The form of Sound that netwib_debug_hash_check has.
LEMMA SoundChecked ==
  ASSUME NEW h, Sound(h)
  PROVE  /\ \A p \in 0 .. h.max, x \in Live(h) :
              Contains(h.table[p], x) <=> p = PosOf(x, h.max) /\ p = h.pos[x]
         /\ \A p \in 0 .. h.max : Cardinality(ToSet(h.table[p])) = Len(h.table[p])
<1>1. ASSUME NEW p \in 0 .. h.max, NEW x \in Live(h)
      PROVE  Contains(h.table[p], x) <=> p = PosOf(x, h.max) /\ p = h.pos[x]
  <2>1. /\ At(h, x) = PosOf(x, h.max) /\ At(h, x) = h.pos[x]
        /\ Rank(h, x) \in 1 .. Len(h.table[At(h, x)])
        /\ h.table[At(h, x)][Rank(h, x)] = x
    BY LiveAt
  <2>2. ASSUME Contains(h.table[p], x) PROVE p = At(h, x)
    <3>1. PICK k \in 1 .. Len(h.table[p]) : h.table[p][k] = x
      BY <2>2 DEF Contains
    <3>2. <<p, k>> \in Places(h) /\ In(h, <<p, k>>) = x
      <4>1. k \in Nat
        BY PlaceFacts DEF Sound
      <4> QED BY <3>1, <4>1 DEF Places, In
    <3> QED BY <3>2, PlaceOf
  <2>3. ASSUME p = At(h, x) PROVE Contains(h.table[p], x)
    BY <2>1, <2>3 DEF Contains
  <2> QED BY <2>1, <2>2, <2>3
<1>2. ASSUME NEW p \in 0 .. h.max
      PROVE  Cardinality(ToSet(h.table[p])) = Len(h.table[p])
  <2> DEFINE c == h.table[p]  N == 1 .. Len(c)
  <2>1. c \in Seq(Items) /\ Len(c) \in Nat /\ DOMAIN c = N /\ c \in [N -> Items]
    BY PlaceFacts, LenProperties DEF Sound
  <2>2. \A j, k \in N : c[j] = c[k] => j = k
    <3>1. \A j \in N : <<p, j>> \in Places(h) /\ In(h, <<p, j>>) = c[j]
      <4>1. \A j \in N : j \in Nat
        BY <2>1
      <4> QED BY <4>1 DEF Places, In
    <3> HIDE DEF c, N
    <3>2. ASSUME NEW j \in N, NEW k \in N, c[j] = c[k] PROVE j = k
      <4>1. <<p, j>> = <<p, k>>
        BY <3>1, <3>2 DEF Sound, Once
      <4> QED BY <4>1
    <3> QED BY <3>2
  <2> HIDE DEF c
  <2>3. c \in Bijection(N, ToSet(c))
    <3>1. c \in [N -> ToSet(c)] /\ \A t \in ToSet(c) : \E n \in N : c[n] = t
      BY <2>1 DEF ToSet
    <3> HIDE DEF N
    <3> QED BY <3>1, <2>2, Fun_IsBij
  <2>4. IsFiniteSet(N) /\ Cardinality(N) = Len(c)
    BY <2>1, FirstNumbers
  <2>5. Cardinality(N) = Cardinality(ToSet(c))
    <3> HIDE DEF N
    <3> QED BY <2>3, <2>4, FS_Bijection DEF ExistsBijection
  <2> QED BY <2>4, <2>5 DEF c
<1> QED BY <1>1, <1>2

-----------------------------------------------------------------------------
(* Where an index stands, and what its walk still owes *)

Ahead(h, x) == IF x = Null THEN Live(h) ELSE {y \in Live(h) : Precedes(h, x, y)}
FromOn(h, x) == {x} \union Ahead(h, x)
Rest(h, ix) ==
  IF ix.cur # Null THEN Ahead(h, ix.cur)
  ELSE IF ix.end THEN {}
  ELSE IF ix.nxt # Null THEN FromOn(h, ix.nxt) ELSE Live(h)

Standing(h, ix) ==
  /\ ix.cur \in Live(h) \union {Null}
  /\ ix.cur = Null => ix.nxt \in Live(h) \union {Null}

IndexOK(h, ix) ==
  /\ Standing(h, ix)
  /\ ix.cur # Null => (ix.end <=> ix.nxt = Null) /\ ix.nxt # ix.cur

WalkOK(h, ix, w) ==
  /\ w.met \subseteq Live(h) /\ w.due \subseteq Rest(h, ix) /\ w.met \intersect Rest(h, ix) = {}
  /\ ix.cur # Null /\ ix.end => w.due = {}
  /\ ix.cur # Null /\ ix.nxt \in Live(h) =>
       w.due \subseteq FromOn(h, ix.nxt) /\ w.met \intersect FromOn(h, ix.nxt) = {}
  /\ w.void => w.due = {} /\ w.met = {}
  /\ w.missed = {} /\ ~w.again

\* The items that next tries are those that follow in the order of the table.
LEMMA AfterIs ==
  ASSUME HashAssumption, Sound(hash), NEW x \in Live(hash) \union {Null}
  PROVE  After(x) = Ahead(hash, x)
<1>0. /\ hash.max \in Nat /\ DOMAIN hash.table = 0 .. hash.max /\ Live(hash) \subseteq Items
      /\ \A p \in 0 .. hash.max : DOMAIN hash.table[p] = 1 .. Len(hash.table[p])
  BY PlaceFacts DEF Sound
<1>1. \A y \in Live(hash), p \in 0 .. hash.max : y \in ToSet(hash.table[p]) <=> At(hash, y) = p
  <2>1. ASSUME NEW y \in Live(hash), NEW p \in 0 .. hash.max
        PROVE  y \in ToSet(hash.table[p]) <=> At(hash, y) = p
    <3>1. y \in ToSet(hash.table[p]) <=> Contains(hash.table[p], y)
      BY <1>0 DEF ToSet, Contains
    <3>2. Contains(hash.table[p], y) <=> p = PosOf(y, hash.max) /\ p = hash.pos[y]
      BY SoundChecked
    <3>3. At(hash, y) = PosOf(y, hash.max) /\ At(hash, y) = hash.pos[y]
      BY LiveAt
    <3> QED BY <3>1, <3>2, <3>3
  <2> QED BY <2>1
<1>2. \A p \in 0 .. hash.max : ToSet(hash.table[p]) \subseteq Live(hash)
  BY <1>0 DEF Live
<1>3. \A q \in Nat : From(q) = {y \in Live(hash) : At(hash, y) >= q}
  <2>1. ASSUME NEW q \in Nat PROVE From(q) = {y \in Live(hash) : At(hash, y) >= q}
    <3>1. ASSUME NEW y \in From(q) PROVE y \in Live(hash) /\ At(hash, y) >= q
      <4>1. PICK p \in q .. hash.max : y \in ToSet(hash.table[p])
        BY DEF From
      <4>2. p \in 0 .. hash.max /\ p >= q
        BY <1>0
      <4> QED BY <4>1, <4>2, <1>1, <1>2
    <3>2. ASSUME NEW y \in Live(hash), At(hash, y) >= q PROVE y \in From(q)
      <4>1. At(hash, y) \in 0 .. hash.max
        BY LiveAt
      <4>2. At(hash, y) \in q .. hash.max /\ y \in ToSet(hash.table[At(hash, y)])
        BY <4>1, <3>2, <1>0, <1>1
      <4> QED BY <4>2 DEF From
    <3> QED BY <3>1, <3>2
  <2> QED BY <2>1
<1>4. CASE x = Null
  <2>1. \A y \in Live(hash) : At(hash, y) >= 0
    <3>1. ASSUME NEW y \in Live(hash) PROVE At(hash, y) >= 0
      <4>1. At(hash, y) \in 0 .. hash.max
        BY LiveAt
      <4> QED BY <4>1, <1>0
    <3> QED BY <3>1
  <2>2. From(0) = Live(hash)
    BY <2>1, <1>3
  <2> QED BY <2>2, <1>4 DEF After, Ahead
<1>5. CASE x # Null
  <2>1. x \in Live(hash) /\ At(hash, x) \in 0 .. hash.max /\ hash.pos[x] = At(hash, x)
    BY <1>5, LiveAt
  <2>2. At(hash, x) \in Nat /\ At(hash, x) + 1 \in Nat
    BY <2>1, <1>0
  <2>3. RestOfChain(x) = {y \in Live(hash) : At(hash, y) = At(hash, x) /\ Rank(hash, x) < Rank(hash, y)}
    BY <2>1, <1>1, <1>2 DEF RestOfChain
  <2>4. From(hash.pos[x] + 1) = {y \in Live(hash) : At(hash, y) >= At(hash, x) + 1}
    BY <2>1, <2>2, <1>3
  <2>5. \A y \in Live(hash) : At(hash, y) >= At(hash, x) + 1 <=> At(hash, x) < At(hash, y)
    <3>1. ASSUME NEW y \in Live(hash)
          PROVE  At(hash, y) >= At(hash, x) + 1 <=> At(hash, x) < At(hash, y)
      <4>1. At(hash, y) \in 0 .. hash.max
        BY LiveAt
      <4> QED BY <4>1, <2>2, <1>0
    <3> QED BY <3>1
  <2>6. Ahead(hash, x) = {y \in Live(hash) : \/ At(hash, x) < At(hash, y)
                                             \/ /\ At(hash, x) = At(hash, y)
                                                /\ Rank(hash, x) < Rank(hash, y)}
    BY <1>5 DEF Ahead, Precedes
  <2>7. After(x) = RestOfChain(x) \union From(hash.pos[x] + 1)
    BY <1>5 DEF After
  <2> QED BY <2>3, <2>4, <2>5, <2>6, <2>7
<1> QED BY <1>4, <1>5

LEMMA RestLive ==
  ASSUME NEW h, NEW ix, Standing(h, ix)
  PROVE  Rest(h, ix) \subseteq Live(h)
<1>1. \A x : Ahead(h, x) \subseteq Live(h)
  BY DEF Ahead
<1>2. \A x \in Live(h) : FromOn(h, x) \subseteq Live(h)
  BY <1>1 DEF FromOn
<1> QED BY <1>1, <1>2 DEF Rest, Standing, IndexOK

LEMMA CandidatesAre ==
  ASSUME HashAssumption, Sound(hash), NEW i \in Indexes, Standing(hash, index[i]),
         index[i].end \in BOOLEAN
  PROVE  Candidates(i) = Rest(hash, index[i]) /\ Rest(hash, index[i]) \subseteq Live(hash)
<1> DEFINE ix == index[i]
<1>1. CASE ix.cur # Null
  <2>1. ix.cur \in Live(hash) \union {Null} /\ Candidates(i) = After(ix.cur)
    BY <1>1 DEF Standing, Candidates
  <2> QED BY <1>1, <2>1, AfterIs DEF Rest, Ahead
<1>2. CASE ix.cur = Null /\ ix.end
  <2>1. Candidates(i) = {}
    BY <1>2 DEF Candidates
  <2> QED BY <1>2, <2>1 DEF Rest
<1>3. CASE ix.cur = Null /\ ~ix.end /\ ix.nxt # Null
  <2>1. ix.nxt \in Live(hash) /\ Candidates(i) = {ix.nxt} \union After(ix.nxt)
    BY <1>3 DEF Standing, Candidates
  <2>2. After(ix.nxt) = Ahead(hash, ix.nxt)
    BY <2>1, AfterIs
  <2> QED BY <1>3, <2>1, <2>2 DEF Rest, FromOn, Ahead
<1>4. CASE ix.cur = Null /\ ~ix.end /\ ix.nxt = Null
  <2>1. Candidates(i) = After(Null)
    BY <1>4 DEF Candidates
  <2> QED BY <1>4, <2>1, AfterIs DEF Rest, Ahead
<1> QED BY <1>1, <1>2, <1>3, <1>4

\* The items that an edit leaves are ahead of an index as they were.
LEMMA KeptAhead ==
  ASSUME NEW h, NEW g, Keeps(h, g), NEW ix, IndexOK(h, ix), IndexOK(g, ix),
         NEW y \in Live(h) \intersect Live(g)
  PROVE  /\ y \in Rest(h, ix) <=> y \in Rest(g, ix)
         /\ ix.nxt \in Live(h) \intersect Live(g) =>
              (y \in FromOn(h, ix.nxt) <=> y \in FromOn(g, ix.nxt))
<1>1. \A x \in Live(h) \intersect Live(g) : y \in Ahead(h, x) <=> y \in Ahead(g, x)
  BY DEF Keeps, Ahead
<1>2. ix.nxt \in Live(h) \intersect Live(g) =>
        (y \in FromOn(h, ix.nxt) <=> y \in FromOn(g, ix.nxt))
  BY <1>1 DEF FromOn
<1>3. y \in Rest(h, ix) <=> y \in Rest(g, ix)
  BY <1>1, <1>2 DEF Rest, Standing, IndexOK
<1> QED BY <1>2, <1>3

LEMMA WalkKept ==
  ASSUME NEW h, NEW g, Keeps(h, g), NEW ix, IndexOK(h, ix), IndexOK(g, ix),
         ix.nxt \in Live(g) => ix.nxt \in Live(h),
         NEW w, w.due \subseteq Live(h), WalkOK(h, ix, w),
         NEW u, u.due = w.due \ (Live(h) \ Live(g)), u.met = w.met \ (Live(h) \ Live(g)),
         u.void = w.void, u.missed = w.missed, u.again = w.again
  PROVE  WalkOK(g, ix, u)
<1>1. u.met \subseteq Live(h) \intersect Live(g) /\ u.due \subseteq Live(h) \intersect Live(g)
      /\ u.met \subseteq w.met /\ u.due \subseteq w.due
  BY DEF WalkOK
<1>2. u.due \subseteq Rest(g, ix)
  BY <1>1, KeptAhead DEF WalkOK
<1>3. u.met \intersect Rest(g, ix) = {}
  BY <1>1, KeptAhead DEF WalkOK
<1>4. ix.cur # Null /\ ix.nxt \in Live(g) =>
       u.due \subseteq FromOn(g, ix.nxt) /\ u.met \intersect FromOn(g, ix.nxt) = {}
  <2> SUFFICES ASSUME ix.cur # Null, ix.nxt \in Live(g)
               PROVE  u.due \subseteq FromOn(g, ix.nxt) /\ u.met \intersect FromOn(g, ix.nxt) = {}
    OBVIOUS
  <2>1. ix.nxt \in Live(h) \intersect Live(g)
    OBVIOUS
  <2>2. \A y \in Live(h) \intersect Live(g) : y \in FromOn(h, ix.nxt) <=> y \in FromOn(g, ix.nxt)
    BY <2>1, KeptAhead
  <2> QED BY <1>1, <2>1, <2>2 DEF WalkOK
<1>5. ix.cur # Null /\ ix.end => u.due = {}
  BY <1>1 DEF WalkOK
<1>6. u.void => u.due = {} /\ u.met = {}
  BY <1>1 DEF WalkOK
<1>7. u.missed = {} /\ ~u.again
  BY DEF WalkOK
<1> QED BY <1>1, <1>2, <1>3, <1>4, <1>5, <1>6, <1>7 DEF WalkOK

-----------------------------------------------------------------------------
(* The inductive invariant *)

IndexType == [cur : Items \union {Null}, nxt : Items \union {Null}, end : BOOLEAN]
WalkType == [due : SUBSET Items, met : SUBSET Items, missed : SUBSET Items,
             again : BOOLEAN, afterdel : BOOLEAN, void : BOOLEAN]

TableInv ==
  /\ Sound(hash) /\ spare \subseteq Items \ Live(hash) /\ values \subseteq Stored
  /\ map \in [Keys -> Stored] /\ \A k \in Keys : Value(hash, k) = map[k]
  /\ index \in [Indexes -> IndexType] /\ walk \in [Indexes -> WalkType]
  /\ fault \in BOOLEAN

WalksInv ==
  /\ ~fault
  /\ \A i \in Indexes : /\ IndexOK(hash, index[i]) /\ WalkOK(hash, index[i], walk[i])
                        /\ index[i].nxt \notin spare

LEMMA VoidedIs ==
  ASSUME NEW w \in WalkType
  PROVE  /\ Voided(w) \in WalkType
         /\ Voided(w).due = {} /\ Voided(w).met = {} /\ Voided(w).missed = {}
         /\ Voided(w).again = FALSE
BY DEF WalkOver, WalkType, Voided

LEMMA WithoutIs ==
  ASSUME NEW w \in WalkType, NEW S \in SUBSET Items
  PROVE  /\ Without(w, S) \in WalkType
         /\ Without(w, S).due = w.due \ S /\ Without(w, S).met = w.met \ S
         /\ Without(w, S).void = w.void /\ Without(w, S).missed = w.missed
         /\ Without(w, S).again = w.again
BY DEF WalkType, Without

LEMMA MetIs ==
  ASSUME NEW w \in WalkType, NEW S \in SUBSET Items
  PROVE  /\ Met(w, S) \in WalkType
         /\ Met(w, S).due = w.due \ S
         /\ Met(w, S).met = (IF w.void THEN {} ELSE w.met \union S)
         /\ Met(w, S).void = w.void /\ Met(w, S).missed = w.missed
         /\ Met(w, S).again = (w.again \/ w.met \intersect S # {})
BY DEF WalkType, Met

LEMMA StartSound ==
  ASSUME HashAssumption, Init
  PROVE  /\ Sound(hash) /\ Live(hash) = {}
         /\ \A k \in Keys : Value(hash, k) = Null
<1>1. FirstMax \in Nat /\ Null \in Stored
  BY DEF HashAssumption, Stored
<1>2. /\ hash = [table |-> EmptyTable(FirstMax), max |-> FirstMax, count |-> 0,
                 pos |-> [x \in Items |-> 0], item |-> [x \in Items |-> Null]]
  BY DEF Init
<1>3. hash.max = FirstMax /\ hash.table = [p \in 0 .. FirstMax |-> <<>>] /\ hash.count = 0
      /\ hash.pos = [x \in Items |-> 0] /\ hash.item = [x \in Items |-> Null]
  BY <1>2 DEF EmptyTable
<1>4. Typed(hash)
  <2>1. hash = [table |-> hash.table, max |-> hash.max, count |-> hash.count,
                pos |-> hash.pos, item |-> hash.item]
    BY <1>2
  <2>2. hash.max \in Nat /\ hash.table \in [0 .. hash.max -> Seq(Items)]
    BY <1>1, <1>3
  <2>3. hash.pos \in [Items -> 0 .. hash.max] /\ hash.item \in [Items -> Stored] /\ hash.count \in Nat
    BY <1>1, <1>3
  <2> QED BY ONLY <2>1, <2>2, <2>3, TypedIs
<1>5. Places(hash) = {} /\ Live(hash) = {}
  <2>1. Places(hash) = {}
    BY <1>3 DEF Places
  <2> QED BY <2>1, <1>4, PlaceFacts
<1>6. Counted(hash)
  BY <1>3, <1>5, FS_EmptySet DEF Counted
<1>7. Sound(hash)
  BY <1>4, <1>5, <1>6 DEF Sound, Placed, Once, Keyed
<1> QED BY <1>5, <1>7, ValueIs

LEMMA TableStart ==
  ASSUME HashAssumption, Init
  PROVE  TableInv /\ WalksInv
<1>1. Sound(hash) /\ Live(hash) = {} /\ \A k \in Keys : Value(hash, k) = Null
  BY StartSound
<1>2. PICK s \in Setups : /\ spare = s.items /\ values = s.values
                          /\ index = [i \in s.indexes |-> Start]
                          /\ walk = [i \in s.indexes |-> WalkOver({})]
  BY DEF Init
<1>3. spare \subseteq Items /\ values \subseteq Stored /\ Null \in Stored /\ Null \notin Items
  BY <1>2 DEF HashAssumption, Stored
<1>4. map = [k \in Keys |-> Null] /\ fault = FALSE
  BY DEF Init
<1>5. Indexes = s.indexes /\ Start \in IndexType /\ WalkOver({}) \in WalkType
  BY <1>2 DEF Indexes, Start, IndexType, WalkOver, WalkType
<1>6. TableInv
  BY <1>1, <1>2, <1>3, <1>4, <1>5 DEF TableInv
<1>7. IndexOK(hash, Start) /\ WalkOK(hash, Start, WalkOver({})) /\ Start.nxt \notin spare
  BY <1>3 DEF IndexOK, Standing, WalkOK, Start, WalkOver
<1>8. WalksInv
  BY <1>2, <1>4, <1>5, <1>7 DEF WalksInv
<1> QED BY <1>6, <1>8

\* What the edits of a table that is shared by some indexes have in common.
Shrinks(g) == Live(hash) \ Live(g)

LEMMA EditTable ==
  ASSUME HashAssumption, TableInv, NEW g, Sound(g),
         Live(g) \subseteq Live(hash) \union spare, AfterEdit(g), UNCHANGED index,
         NEW m \in [Keys -> Stored], \A k \in Keys : Value(g, k) = m[k], map' = m
  PROVE  TableInv'
<1>1. /\ hash' = g /\ spare' = spare \ Live(g) /\ values' = values /\ fault' = fault
      /\ index' = index /\ Indexes' = Indexes
  BY DEF AfterEdit, Indexes
<1>2. walk' \in [Indexes -> WalkType]
  <2>1. Shrinks(g) \in SUBSET Items
    BY PlaceFacts DEF Shrinks, TableInv, Sound
  <2>2. \A i \in Indexes : Voided(walk[i]) \in WalkType /\ Without(walk[i], Shrinks(g)) \in WalkType
    BY <2>1, VoidedIs, WithoutIs DEF TableInv
  <2>3. walk' = [i \in Indexes |-> Voided(walk[i])] \/ walk' = [i \in Indexes |-> Without(walk[i], Shrinks(g))]
    BY DEF AfterEdit, Shrinks
  <2> HIDE DEF Shrinks
  <2> QED BY <2>2, <2>3
<1>3. spare' \subseteq Items \ Live(g)
  BY <1>1 DEF TableInv
<1> QED BY <1>1, <1>2, <1>3 DEF TableInv

LEMMA EditWalks ==
  ASSUME HashAssumption, ~AsDocumented, TableInv, WalksInv, NEW g, Sound(g),
         Live(g) \subseteq Live(hash) \union spare, AfterEdit(g), UNCHANGED index,
         g.max = hash.max => Keeps(hash, g),
         \A i \in Indexes : IndexOK(g, index[i])
  PROVE  WalksInv'
<1>1. /\ hash' = g /\ spare' = spare \ Live(g) /\ fault' = fault
      /\ index' = index /\ Indexes' = Indexes
  BY DEF AfterEdit, Indexes
<1>2. ASSUME NEW i \in Indexes PROVE WalkOK(g, index[i], walk'[i])
  <2>0. walk[i] \in WalkType /\ Shrinks(g) \in SUBSET Items /\ Live(hash) \subseteq Items
    BY PlaceFacts DEF Shrinks, TableInv, Sound
  <2>1. CASE g.max # hash.max
    <3>1. walk'[i] = Voided(walk[i])
      BY <2>1 DEF AfterEdit
    <3>2. /\ walk'[i].due = {} /\ walk'[i].met = {} /\ walk'[i].missed = {}
          /\ ~walk'[i].again
      <4>1. Voided(walk[i]).due = {} /\ Voided(walk[i]).met = {} /\ Voided(walk[i]).missed = {}
            /\ Voided(walk[i]).again = FALSE
        BY <2>0, VoidedIs
      <4> QED BY <4>1, <3>1
    <3> QED BY <3>2 DEF WalkOK
  <2>2. CASE g.max = hash.max
    <3>1. walk'[i] = Without(walk[i], Shrinks(g))
      BY <2>2 DEF AfterEdit, Shrinks
    <3> DEFINE w == walk[i]  u == walk'[i]
    <3>2. /\ u.due = w.due \ (Live(hash) \ Live(g)) /\ u.met = w.met \ (Live(hash) \ Live(g))
          /\ u.void = w.void /\ u.missed = w.missed /\ u.again = w.again
      <4> DEFINE d == Live(hash) \ Live(g)
      <4>1. /\ Without(w, d).due = w.due \ d /\ Without(w, d).met = w.met \ d
            /\ Without(w, d).void = w.void /\ Without(w, d).missed = w.missed
            /\ Without(w, d).again = w.again
        <5>1. d \in SUBSET Items /\ w \in WalkType
          BY <2>0 DEF Shrinks
        <5> HIDE DEF d, w
        <5> QED BY <5>1, WithoutIs
      <4>2. u = Without(w, d)
        BY <3>1 DEF Shrinks
      <4> HIDE DEF w, u, d
      <4>3. /\ u.due = w.due \ d /\ u.met = w.met \ d
            /\ u.void = w.void /\ u.missed = w.missed /\ u.again = w.again
        BY <4>1, <4>2
      <4> QED BY <4>3 DEF d
    <3>3. IndexOK(hash, index[i]) /\ IndexOK(g, index[i]) /\ WalkOK(hash, index[i], w)
      BY DEF WalksInv
    <3>4. w.due \subseteq Live(hash)
      <4>1. Rest(hash, index[i]) \subseteq Live(hash)
        BY <3>3, RestLive DEF IndexOK
      <4> QED BY <4>1, <3>3 DEF WalkOK
    <3>5. index[i].nxt \in Live(g) => index[i].nxt \in Live(hash)
      BY DEF WalksInv
    <3>6. Keeps(hash, g)
      BY <2>2
    <3> HIDE DEF w, u
    <3>7. WalkOK(g, index[i], u)
      <4> DEFINE h == hash  ix == index[i]
      <4>1. /\ Keeps(h, g) /\ IndexOK(h, ix) /\ IndexOK(g, ix)
            /\ ix.nxt \in Live(g) => ix.nxt \in Live(h)
            /\ w.due \subseteq Live(h) /\ WalkOK(h, ix, w)
            /\ u.due = w.due \ (Live(h) \ Live(g)) /\ u.met = w.met \ (Live(h) \ Live(g))
            /\ u.void = w.void /\ u.missed = w.missed /\ u.again = w.again
        BY <3>2, <3>3, <3>4, <3>5, <3>6
      <4> HIDE DEF h, ix
      <4>2. WalkOK(g, ix, u)
        BY ONLY <4>1, WalkKept
      <4> QED BY <4>2 DEF ix
    <3> QED BY <3>7 DEF u
  <2> QED BY <2>1, <2>2
<1>3. \A i \in Indexes : index[i].nxt \notin spare'
  BY <1>1 DEF WalksInv
<1> QED BY <1>1, <1>2, <1>3 DEF WalksInv

-----------------------------------------------------------------------------
(* The edits of a table keep the invariant *)

LEMMA AddKeeps ==
  ASSUME HashAssumption, TableInv, NEW x \in spare, NEW v \in values, HashAdd(x, v)
  PROVE  TableInv' /\ (~AsDocumented /\ WalksInv => WalksInv')
<1> DEFINE g == Add(hash, x, v)
           m == [map EXCEPT ![Key(x)] = v]
<1>1. x \in Items /\ x \notin Live(hash) /\ v \in Stored /\ Sound(hash) /\ Key(x) \in Keys
  BY DEF TableInv, Keys
<1>2. Added(hash, g, x, v)
  BY <1>1, AddIs
<1>3. AfterEdit(g) /\ map' = m /\ UNCHANGED index
  BY DEF HashAdd
<1>4. m \in [Keys -> Stored] /\ \A k \in Keys : Value(g, k) = m[k]
  BY <1>1, <1>2 DEF Added, TableInv
<1> HIDE DEF g, m
<1>5. Sound(g) /\ Live(g) \subseteq Live(hash) \union spare /\ Live(hash) \subseteq Live(g)
      /\ (g.max = hash.max => Keeps(hash, g))
  BY <1>2 DEF Added
<1>6. TableInv'
  BY <1>3, <1>4, <1>5, EditTable
<1>7. ASSUME ~AsDocumented, WalksInv PROVE WalksInv'
  <2>1. \A i \in Indexes : IndexOK(g, index[i])
    BY <1>5, <1>7 DEF WalksInv, IndexOK, Standing
  <2> QED BY <2>1, <1>3, <1>5, <1>7, EditWalks
<1> QED BY <1>6, <1>7

LEMMA AddHashKeeps ==
  ASSUME HashAssumption, TableInv, NEW x \in spare, NEW y \in spare, x # y, NEW v \in values,
         HashAddHash(x, y, v)
  PROVE  TableInv' /\ (~AsDocumented /\ WalksInv => WalksInv')
<1> DEFINE f == Add(hash, x, v)
           g == Add(f, y, v)
           m == [map EXCEPT ![Key(x)] = v, ![Key(y)] = v]
<1>1. /\ x \in Items /\ x \notin Live(hash) /\ v \in Stored /\ Sound(hash)
      /\ y \in Items /\ y \notin Live(hash) /\ Key(x) \in Keys /\ Key(y) \in Keys
      /\ hash.max \in Nat
  BY PlaceFacts DEF TableInv, Keys, Sound
<1>2. Added(hash, f, x, v)
  BY <1>1, AddIs
<1> HIDE DEF f
<1>3. Added(f, g, y, v)
  <2>1. Sound(f) /\ y \notin Live(f)
    BY <1>1, <1>2 DEF Added
  <2> QED BY <2>1, <1>1, AddIs
<1>4. AfterEdit(g) /\ map' = m /\ UNCHANGED index
  BY DEF HashAddHash, f
<1>5. m \in [Keys -> Stored] /\ \A k \in Keys : Value(g, k) = m[k]
  <2>1. map \in [Keys -> Stored] /\ \A k \in Keys : Value(hash, k) = map[k]
    BY DEF TableInv
  <2>2. m = [[map EXCEPT ![Key(x)] = v] EXCEPT ![Key(y)] = v]
    OBVIOUS
  <2>3. m \in [Keys -> Stored]
    BY <2>1, <1>1
  <2>4. \A k \in Keys : m[k] = IF k = Key(y) THEN v ELSE IF k = Key(x) THEN v ELSE map[k]
    BY <2>1, <1>1
  <2>5. \A k \in Keys : Value(g, k) = IF k = Key(y) THEN v ELSE IF k = Key(x) THEN v ELSE Value(hash, k)
    BY <1>2, <1>3 DEF Added
  <2> HIDE DEF m, g
  <2> QED BY <2>1, <2>3, <2>4, <2>5
<1> HIDE DEF g, m
<1>6. /\ Sound(g) /\ Live(hash) \subseteq Live(f) /\ Live(f) \subseteq Live(g)
      /\ Live(g) \subseteq Live(hash) \union spare
  BY <1>2, <1>3 DEF Added
<1>7. ASSUME g.max = hash.max PROVE Keeps(hash, g)
  <2>1. f.max \in Nat /\ g.max \in Nat
    BY <1>2, <1>3, PlaceFacts DEF Added, Sound
  <2>2. Keeps(hash, f) /\ Keeps(f, g)
    BY <2>1, <1>1, <1>2, <1>3, <1>7 DEF Added
  <2> QED BY <2>2, <1>6 DEF Keeps
<1>8. TableInv'
  BY <1>4, <1>5, <1>6, EditTable
<1>9. ASSUME ~AsDocumented, WalksInv PROVE WalksInv'
  <2>1. \A i \in Indexes : IndexOK(g, index[i])
    BY <1>6, <1>9 DEF WalksInv, IndexOK, Standing
  <2> QED BY <2>1, <1>4, <1>6, <1>7, <1>9, EditWalks
<1> QED BY <1>8, <1>9

LEMMA DeletesKeeps ==
  ASSUME HashAssumption, TableInv, NEW gone \in SUBSET Live(hash), Deletes(gone)
  PROVE  TableInv' /\ (~AsDocumented /\ WalksInv => WalksInv')
<1> DEFINE g == Deleted(hash, gone)
           m == [k \in Keys |-> IF k \in {Key(x) : x \in gone} THEN Null ELSE map[k]]
<1>1. Sound(hash)
  BY DEF TableInv
<1>2. /\ Sound(g) /\ Live(g) = Live(hash) \ gone /\ g.max = hash.max /\ Keeps(hash, g)
  BY <1>1, DeletedSound
<1>3. AfterEdit(g) /\ map' = m /\ UNCHANGED index /\ MayDelete(gone)
  BY DEF Deletes
<1>4. m \in [Keys -> Stored] /\ \A k \in Keys : Value(g, k) = m[k]
  <2>1. \A k \in Keys : Value(g, k) = IF k \in {Key(x) : x \in gone} THEN Null ELSE Value(hash, k)
    BY <1>1, DeletedValue
  <2> HIDE DEF g
  <2> QED BY <2>1 DEF TableInv, Stored
<1> HIDE DEF g, m
<1>5. TableInv'
  BY <1>2, <1>3, <1>4, EditTable
<1>6. ASSUME ~AsDocumented, WalksInv PROVE WalksInv'
  <2>1. \A i \in Indexes : index[i].cur \notin gone /\ (index[i].cur = Null => index[i].nxt \notin gone)
    BY <1>3, <1>6 DEF MayDelete, SparesCurrent, SparesNoted
  <2>2. \A i \in Indexes : IndexOK(g, index[i])
    BY <2>1, <1>2, <1>6 DEF WalksInv, IndexOK, Standing
  <2> QED BY <2>2, <1>2, <1>3, <1>6, EditWalks
<1> QED BY <1>5, <1>6

LEMMA HashDelKeeps ==
  ASSUME HashAssumption, TableInv, NEW k \in Keys, HashDel(k)
  PROVE  TableInv' /\ (~AsDocumented /\ WalksInv => WalksInv')
<1> DEFINE same == Same(hash, Hash(k) % (hash.max + 1), k)
<1>1. Sound(hash) /\ same # {} /\ Deletes({First(hash, same)})
  BY DEF TableInv, HashDel
<1>2. same \in SUBSET Live(hash)
  <2>1. same = {x \in Live(hash) : Key(x) = k}
    BY <1>1, SameIs
  <2> QED BY <2>1
<1> HIDE DEF same
<1>3. First(hash, same) \in Live(hash)
  BY <1>1, <1>2, FirstIs
<1>4. {First(hash, same)} \in SUBSET Live(hash)
  BY <1>3
<1> QED BY <1>1, <1>4, DeletesKeeps

-----------------------------------------------------------------------------
(* So do the moves of an index *)

LEMMA RewindKeeps ==
  ASSUME HashAssumption, TableInv, NEW i \in Indexes, Rewind(i)
  PROVE  TableInv' /\ (~AsDocumented /\ WalksInv => WalksInv')
<1>1. /\ index' = [index EXCEPT ![i] = Start] /\ walk' = [walk EXCEPT ![i] = WalkOver(Live(hash))]
      /\ hash' = hash /\ map' = map /\ spare' = spare /\ values' = values /\ fault' = fault
  BY DEF Rewind
<1>2. Start \in IndexType /\ WalkOver(Live(hash)) \in WalkType /\ Live(hash) \subseteq Items
  BY PlaceFacts DEF TableInv, Sound, Start, IndexType, WalkOver, WalkType
<1>3. index \in [Indexes -> IndexType] /\ walk \in [Indexes -> WalkType]
  BY DEF TableInv
<1>4. Indexes' = Indexes /\ index' \in [Indexes -> IndexType] /\ walk' \in [Indexes -> WalkType]
  BY <1>1, <1>2, <1>3 DEF Indexes
<1>5. TableInv'
  BY <1>1, <1>4 DEF TableInv
<1>6. ASSUME WalksInv PROVE WalksInv'
  <2>1. Null \notin spare
    BY DEF TableInv, HashAssumption
  <2>2. IndexOK(hash, Start) /\ Start.nxt \notin spare
    BY <2>1 DEF Start, IndexOK, Standing
  <2>3. WalkOK(hash, Start, WalkOver(Live(hash)))
    BY DEF Start, WalkOver, WalkOK, Rest
  <2>4. ASSUME NEW j \in Indexes
        PROVE  /\ IndexOK(hash, index'[j]) /\ WalkOK(hash, index'[j], walk'[j])
               /\ index'[j].nxt \notin spare
    <3>1. CASE j = i
      BY <3>1, <2>2, <2>3, <1>1, <1>3
    <3>2. CASE j # i
      BY <3>2, <1>1, <1>3, <1>6 DEF WalksInv
    <3> QED BY <3>1, <3>2
  <2> QED BY <2>4, <1>1, <1>4, <1>6 DEF WalksInv
<1> QED BY <1>5, <1>6

LEMMA CopyKeeps ==
  ASSUME HashAssumption, TableInv, NEW i \in Indexes, NEW j \in Indexes, CopyIndex(i, j)
  PROVE  TableInv' /\ (~AsDocumented /\ WalksInv => WalksInv')
<1>1. /\ index' = [index EXCEPT ![i] = index[j]] /\ walk' = [walk EXCEPT ![i] = walk[j]]
      /\ hash' = hash /\ map' = map /\ spare' = spare /\ values' = values /\ fault' = fault
  BY DEF CopyIndex
<1>2. index \in [Indexes -> IndexType] /\ walk \in [Indexes -> WalkType]
  BY DEF TableInv
<1>3. Indexes' = Indexes /\ index' \in [Indexes -> IndexType] /\ walk' \in [Indexes -> WalkType]
  BY <1>1, <1>2 DEF Indexes
<1>4. TableInv'
  BY <1>1, <1>3 DEF TableInv
<1>5. ASSUME WalksInv PROVE WalksInv'
  <2>1. ASSUME NEW k \in Indexes
        PROVE  /\ IndexOK(hash, index'[k]) /\ WalkOK(hash, index'[k], walk'[k])
               /\ index'[k].nxt \notin spare
    <3>1. CASE k = i
      BY <3>1, <1>1, <1>2, <1>5 DEF WalksInv
    <3>2. CASE k # i
      BY <3>2, <1>1, <1>2, <1>5 DEF WalksInv
    <3> QED BY <3>1, <3>2
  <2> QED BY <2>1, <1>1, <1>3, <1>5 DEF WalksInv
<1> QED BY <1>4, <1>5

LEMMA NextKeepsTable ==
  ASSUME HashAssumption, TableInv, NEW i \in Indexes, NEW x, NextCriteria(i, x)
  PROVE  TableInv'
<1>0. /\ index \in [Indexes -> IndexType] /\ walk \in [Indexes -> WalkType] /\ Sound(hash)
      /\ Live(hash) \subseteq Items
  BY PlaceFacts DEF TableInv, Sound
<1>1. CASE Dangling(NextFrom(i))
  BY <1>1 DEF NextCriteria, Reading, TableInv, Indexes
<1>2. CASE ~Dangling(NextFrom(i))
  <2>0. Standing(hash, index[i]) /\ index[i].end \in BOOLEAN
    BY <1>0, <1>2 DEF Dangling, NextFrom, Standing, IndexType
  <2>1. Candidates(i) \subseteq Live(hash)
    BY <1>0, <2>0, CandidatesAre
  <2>2. CASE x \in Candidates(i) /\ StepTo(i, x)
             /\ walk' = [walk EXCEPT ![i] =
                  Met(@, {y \in Candidates(i) : y = x \/ Precedes(hash, y, x)})]
             /\ UNCHANGED <<hash, map, spare, values, fault>>
    <3> DEFINE S == {y \in Candidates(i) : y = x \/ Precedes(hash, y, x)}
               ix == [cur |-> x, nxt |-> First(hash, After(x)), end |-> After(x) = {}]
    <3>1. x \in Live(hash) /\ After(x) = Ahead(hash, x) /\ Ahead(hash, x) \in SUBSET Live(hash)
      BY <2>1, <2>2, <1>0, AfterIs DEF Ahead
    <3>2. First(hash, After(x)) \in Items \union {Null}
      <4>1. CASE After(x) = {}
        BY <4>1 DEF First
      <4>2. CASE After(x) # {}
        BY <4>2, <3>1, <1>0, FirstIs
      <4> QED BY <4>1, <4>2
    <3>3. ix \in IndexType
      BY <3>1, <3>2, <1>0 DEF IndexType
    <3>4. index' = [index EXCEPT ![i] = ix] /\ walk' = [walk EXCEPT ![i] = Met(walk[i], S)]
      BY <2>2 DEF StepTo
    <3>5. S \in SUBSET Items /\ walk[i] \in WalkType
      BY <2>1, <1>0
    <3> HIDE DEF ix, S
    <3>6. Met(walk[i], S) \in WalkType
      BY <3>5, MetIs
    <3>7. Indexes' = Indexes /\ index' \in [Indexes -> IndexType] /\ walk' \in [Indexes -> WalkType]
      BY <3>3, <3>4, <3>6, <1>0 DEF Indexes
    <3> QED BY <2>2, <3>7 DEF TableInv
  <2>3. CASE x = Null /\ walk' = [walk EXCEPT ![i].missed = walk[i].due \ Candidates(i)]
             /\ UNCHANGED <<hash, index, map, spare, values, fault>>
    <3>1. walk[i] \in WalkType /\ walk[i].due \ Candidates(i) \in SUBSET Items
      BY <1>0 DEF WalkType
    <3>2. [walk[i] EXCEPT !.missed = walk[i].due \ Candidates(i)] \in WalkType
      BY <3>1 DEF WalkType
    <3>3. walk' \in [Indexes -> WalkType] /\ Indexes' = Indexes
      BY <2>3, <3>2, <1>0 DEF Indexes
    <3> QED BY <2>3, <3>3 DEF TableInv
  <2> QED BY <1>2, <2>2, <2>3 DEF NextCriteria, Reading
<1> QED BY <1>1, <1>2

\* The walk goes on from the item that next gave.
LEMMA NextKeepsWalks ==
  ASSUME HashAssumption, TableInv, WalksInv, NEW i \in Indexes, NEW x, NextCriteria(i, x)
  PROVE  WalksInv'
<1> DEFINE w == walk[i]
           ix == index[i]
           rest == Rest(hash, ix)
           S == {y \in rest : y = x \/ Precedes(hash, y, x)}
<1>0. /\ index \in [Indexes -> IndexType] /\ walk \in [Indexes -> WalkType] /\ Sound(hash)
      /\ Live(hash) \subseteq Items /\ Null \notin Items /\ spare \intersect Live(hash) = {}
      /\ spare \subseteq Items
  BY PlaceFacts DEF TableInv, Sound, HashAssumption
<1>1. IndexOK(hash, ix) /\ WalkOK(hash, ix, w) /\ Standing(hash, ix) /\ ix.end \in BOOLEAN
  BY <1>0 DEF WalksInv, IndexOK, IndexType
<1>2. ~Dangling(NextFrom(i))
  BY <1>1 DEF Dangling, NextFrom, Standing
<1>3. Candidates(i) = rest /\ rest \subseteq Live(hash)
  BY <1>0, <1>1, CandidatesAre
<1>4. ~fault
  BY DEF WalksInv
<1>5. CASE x \in rest /\ StepTo(i, x) /\ walk' = [walk EXCEPT ![i] = Met(w, S)]
           /\ UNCHANGED <<hash, map, spare, values, fault>>
  <2> DEFINE a == Ahead(hash, x)
             f == First(hash, a)
             jx == [cur |-> x, nxt |-> f, end |-> a = {}]
             u == Met(w, S)
  <2>1. x \in Live(hash) /\ x # Null /\ After(x) = a /\ a \in SUBSET Live(hash)
    BY <1>0, <1>3, <1>5, AfterIs DEF Ahead
  <2>2. a = {y \in Live(hash) : Precedes(hash, x, y)}
    BY <2>1 DEF Ahead
  <2>3. index' = [index EXCEPT ![i] = jx]
    BY <1>5, <2>1 DEF StepTo
  <2>4. /\ u.due = w.due \ S /\ u.met = (IF w.void THEN {} ELSE w.met \union S)
        /\ u.void = w.void /\ u.missed = w.missed
        /\ u.again = (w.again \/ w.met \intersect S # {})
    <3>1. w \in WalkType /\ S \in SUBSET Items
      BY <1>0, <1>3
    <3> HIDE DEF w, S
    <3> QED BY <3>1, MetIs
  <2>5. a = {} => f = Null
    BY DEF First
  <2>6. a # {} => f \in a /\ \A y \in a : y = f \/ Precedes(hash, f, y)
    BY <2>1, <1>0, FirstIs
  <2> HIDE DEF f, u, w, ix, a
  <2>7. \A y \in rest : y \in S \/ y \in a
    BY <1>0, <1>3, <2>1, <2>2, MeetingOrder
  <2>8. \A y \in S : y \in rest /\ y \notin a
    <3>1. ASSUME NEW y \in S PROVE y \in rest /\ y \notin a
      <4>1. y \in rest /\ y \in Live(hash) /\ (y = x \/ Precedes(hash, y, x))
        BY <1>3
      <4>2. ~Precedes(hash, x, y)
        <5>1. ~Precedes(hash, x, x)
          BY <1>0, <2>1, MeetingOrder
        <5> QED BY <4>1, <5>1, <1>0, <2>1, MeetingOrder
      <4> QED BY <4>1, <4>2, <2>2
    <3> QED BY <3>1
  <2>9. a \subseteq rest
    <3>1. ASSUME NEW y \in a PROVE y \in rest
      <4>1. y \in Live(hash) /\ Precedes(hash, x, y)
        BY <2>2
      <4>2. ASSUME NEW z \in Live(hash), x \in Ahead(hash, z) PROVE y \in Ahead(hash, z)
        BY <4>1, <4>2, <1>0, <2>1, MeetingOrder DEF Ahead
      <4>3. ASSUME NEW z \in Live(hash), x \in FromOn(hash, z) PROVE y \in FromOn(hash, z)
        <5>1. CASE x = z
          BY <5>1, <4>1, <2>1 DEF FromOn, Ahead
        <5>2. CASE x \in Ahead(hash, z)
          BY <5>2, <4>2, <4>3 DEF FromOn
        <5> QED BY <5>1, <5>2, <4>3 DEF FromOn
      <4>4. CASE ix.cur # Null
        BY <4>2, <4>4, <1>1, <1>5 DEF Rest, Standing
      <4>5. CASE ix.cur = Null
        BY <4>1, <4>3, <4>5, <1>1, <1>5 DEF Rest, Standing
      <4> QED BY <4>4, <4>5
    <3> QED BY <3>1
  <2> HIDE DEF S, rest
  <2>10. w.due \subseteq rest /\ w.met \intersect rest = {} /\ w.met \subseteq Live(hash)
         /\ w.missed = {} /\ ~w.again /\ (w.void => w.due = {} /\ w.met = {})
    BY <1>1 DEF WalkOK, rest
  <2>11. a # {} => a = FromOn(hash, f)
    <3> SUFFICES ASSUME a # {} PROVE a = FromOn(hash, f)
      OBVIOUS
    <3>1. f \in a /\ f \in Live(hash) /\ f # Null /\ \A y \in a : y = f \/ Precedes(hash, f, y)
      BY <2>1, <2>6, <1>0
    <3>2. \A y \in a : y \in FromOn(hash, f)
      BY <3>1, <2>1 DEF FromOn, Ahead
    <3>3. ASSUME NEW y \in FromOn(hash, f) PROVE y \in a
      <4>1. y = f \/ (y \in Live(hash) /\ Precedes(hash, f, y))
        BY <3>1 DEF FromOn, Ahead
      <4> QED BY <4>1, <3>1, <2>1, <2>2, <1>0, MeetingOrder
    <3> QED BY <3>2, <3>3
  <2>12. u.due \subseteq a /\ u.met \subseteq Live(hash) /\ u.met \intersect a = {}
    BY <2>4, <2>7, <2>8, <2>9, <2>10, <1>3
  <2>13. u.missed = {} /\ ~u.again /\ (u.void => u.due = {} /\ u.met = {})
    BY <2>4, <2>8, <2>10
  <2>14. f \notin spare /\ (f = Null <=> a = {}) /\ f # x
    <3>1. CASE a = {}
      BY <3>1, <2>1, <2>5, <1>0
    <3>2. CASE a # {}
      <4>1. f \in a /\ f \in Live(hash)
        BY <3>2, <2>6, <2>1
      <4>2. f # x
        BY <4>1, <2>1, <2>2, <1>0, MeetingOrder
      <4> QED BY <4>1, <4>2, <3>2, <1>0
    <3> QED BY <3>1, <3>2
  <2>15. IndexOK(hash, jx) /\ jx.nxt \notin spare
    BY <2>1, <2>14 DEF IndexOK, Standing
  <2>16. WalkOK(hash, jx, u)
    <3>1. Rest(hash, jx) = a
      BY <2>1 DEF Rest, a
    <3>2. jx.nxt \in Live(hash) => FromOn(hash, jx.nxt) = a
      BY <2>5, <2>11, <1>0
    <3> QED BY <3>1, <3>2, <2>12, <2>13 DEF WalkOK
  <2> HIDE DEF jx
  <2>17. ASSUME NEW j \in Indexes
         PROVE  /\ IndexOK(hash, index'[j]) /\ WalkOK(hash, index'[j], walk'[j])
                /\ index'[j].nxt \notin spare
    <3>1. CASE j = i
      BY <3>1, <2>3, <2>15, <2>16, <1>0, <1>5 DEF u
    <3>2. CASE j # i
      BY <3>2, <2>3, <1>0, <1>5 DEF WalksInv
    <3> QED BY <3>1, <3>2
  <2>18. Indexes' = Indexes
    BY <2>3, <1>0 DEF Indexes
  <2> QED BY <2>17, <2>18, <1>4, <1>5 DEF WalksInv
<1>6. CASE walk' = [walk EXCEPT ![i].missed = w.due \ rest]
           /\ UNCHANGED <<hash, index, map, spare, values, fault>>
  <2>1. w.due \ rest = {} /\ w.missed = {} /\ w \in WalkType
    BY <1>0, <1>1 DEF WalkOK
  <2>2. [w EXCEPT !.missed = w.due \ rest] = w
    <3>1. w.due \ rest = w.missed
      BY <2>1
    <3>2. [w EXCEPT !.missed = w.missed] = w
      BY <2>1 DEF WalkType
    <3> QED BY <3>1, <3>2
  <2>3. walk' = walk
    <3>1. walk' = [walk EXCEPT ![i] = [w EXCEPT !.missed = w.due \ rest]]
      BY <1>6
    <3> HIDE DEF rest
    <3> QED BY <3>1, <2>2, <1>0
  <2> QED BY <2>3, <1>6 DEF WalksInv, Indexes
<1>7. \/ x \in rest /\ StepTo(i, x) /\ walk' = [walk EXCEPT ![i] = Met(w, S)]
         /\ UNCHANGED <<hash, map, spare, values, fault>>
      \/ walk' = [walk EXCEPT ![i].missed = w.due \ rest]
         /\ UNCHANGED <<hash, index, map, spare, values, fault>>
  BY <1>2, <1>3 DEF NextCriteria, Reading
<1> QED BY <1>5, <1>6, <1>7

LEMMA ReplaceKeeps ==
  ASSUME HashAssumption, TableInv, NEW i \in Indexes, NEW v \in values, ThisReplace(i, v)
  PROVE  TableInv' /\ (~AsDocumented /\ WalksInv => WalksInv')
<1> DEFINE x == index[i].cur
           g == Replaced(hash, x, PosOf(x, hash.max), v)
<1>0. Sound(hash) /\ index[i] \in IndexType /\ v \in Stored /\ Null \notin Items
  BY DEF TableInv, HashAssumption
<1>1. CASE Dangling(x)
  <2>1. fault' = TRUE /\ UNCHANGED <<hash, index, map, walk, spare, values>>
    BY <1>1 DEF ThisReplace, Reading
  <2>2. TableInv'
    BY <2>1 DEF TableInv, Indexes
  <2>3. ~WalksInv
    BY <1>1 DEF WalksInv, IndexOK, Standing, Dangling
  <2> QED BY <2>2, <2>3
<1>2. CASE ~Dangling(x)
  <2>1. /\ x # Null /\ hash' = [hash EXCEPT !.item[x] = v] /\ map' = [map EXCEPT ![Key(x)] = v]
        /\ UNCHANGED <<index, walk, spare, values, fault>>
    BY <1>2 DEF ThisReplace, Reading
  <2>2. x \in Live(hash) /\ x \in Items /\ Key(x) \in Keys
    BY <1>0, <1>2, <2>1 DEF Dangling, IndexType, Keys
  <2>3. hash' = g
    <3>1. hash.pos[x] = PosOf(x, hash.max) /\ hash.pos \in [Items -> 0 .. hash.max]
      BY <1>0, <2>2, LiveAt DEF Sound, Typed
    <3>2. [hash.pos EXCEPT ![x] = PosOf(x, hash.max)] = hash.pos
      BY <3>1, <2>2
    <3>3. hash' = [hash EXCEPT !.item = [hash.item EXCEPT ![x] = v]]
      BY <2>1
    <3>4. \A m : [hash EXCEPT !.item = m] = [table |-> hash.table, max |-> hash.max,
                    count |-> hash.count, pos |-> hash.pos, item |-> m]
      <4>1. hash \in TableType
        BY <1>0 DEF Sound, Typed
      <4> DEFINE t == UNION {[0 .. m -> Seq(Items)] : m \in Nat}
                 p == [Items -> Nat]
                 s == [Items -> Stored]
      <4>2. hash \in [table : t, max : Nat, count : Nat, pos : p, item : s]
        BY <4>1 DEF TableType
      <4> HIDE DEF t, p, s
      <4> QED BY ONLY <4>2
    <3> QED BY <3>2, <3>3, <3>4 DEF Replaced
  <2>4. /\ Sound(g) /\ Live(g) = Live(hash) /\ g.max = hash.max /\ Keeps(hash, g)
        /\ g.item = [hash.item EXCEPT ![x] = v]
    BY <1>0, <2>2, ReplacedSound
  <2> HIDE DEF g
  <2>5. /\ map' \in [Keys -> Stored] /\ \A k \in Keys : Value(g, k) = map'[k]
    <3>1. map \in [Keys -> Stored] /\ hash.item \in [Items -> Stored] /\ Live(hash) \subseteq Items
          /\ \A k \in Keys : Value(hash, k) = map[k]
      BY <1>0, PlaceFacts DEF TableInv, Sound, Typed, TableType
    <3>2. map' \in [Keys -> Stored]
      BY <3>1, <2>1, <2>2, <1>0
    <3>3. ASSUME NEW k \in Keys PROVE Value(g, k) = map'[k]
      <4>1. CASE k = Key(x)
        <5>1. Value(g, k) = g.item[x]
          BY <4>1, <2>2, <2>4, ValueIs, ZenonT(60)
        <5>2. g.item[x] = v /\ map'[k] = v
          BY <4>1, <3>1, <2>1, <2>2, <2>4
        <5> QED BY <5>1, <5>2
      <4>2. CASE k # Key(x) /\ \E z \in Live(hash) : Key(z) = k
        <5>1. PICK z \in Live(hash) : Key(z) = k
          BY <4>2
        <5>2. Value(g, k) = g.item[z] /\ Value(hash, k) = hash.item[z]
          <6>1. z \in Live(g) /\ Sound(g) /\ Sound(hash)
            BY <5>1, <1>0, <2>4 DEF TableInv
          <6>2. Value(g, k) = g.item[z]
            BY <5>1, <6>1, ValueIs
          <6>3. Value(hash, k) = hash.item[z]
            BY <5>1, <6>1, ValueIs
          <6> QED BY <6>2, <6>3
        <5>3. g.item[z] = hash.item[z] /\ map'[k] = map[k]
          BY <4>2, <5>1, <3>1, <2>1, <2>2, <2>4
        <5> QED BY <5>2, <5>3, <3>1
      <4>3. CASE k # Key(x) /\ \A z \in Live(hash) : Key(z) # k
        <5>1. Value(g, k) = Null /\ Value(hash, k) = Null
          BY <4>3, <1>0, <2>4, ValueIs
        <5>2. map'[k] = map[k]
          BY <4>3, <3>1, <2>1, <2>2
        <5> QED BY <5>1, <5>2, <3>1
      <4> QED BY <4>1, <4>2, <4>3
    <3> QED BY <3>2, <3>3
  <2>6. TableInv'
    BY <2>1, <2>3, <2>4, <2>5 DEF TableInv, Indexes
  <2>7. ASSUME WalksInv PROVE WalksInv'
    <3>1. ASSUME NEW j \in Indexes
          PROVE  IndexOK(g, index[j]) /\ WalkOK(g, index[j], walk[j])
      <4> DEFINE ix == index[j]  w == walk[j]  h == hash
      <4>1. IndexOK(h, ix) /\ WalkOK(h, ix, w) /\ w \in WalkType
        BY <2>7 DEF WalksInv, TableInv
      <4>2. IndexOK(g, ix)
        BY <4>1, <2>4 DEF IndexOK, Standing
      <4>3. w.due \subseteq Live(h)
        BY <4>1, RestLive DEF WalkOK, IndexOK
      <4>4. w.due = w.due \ (Live(h) \ Live(g)) /\ w.met = w.met \ (Live(h) \ Live(g))
            /\ Keeps(h, g) /\ (ix.nxt \in Live(g) => ix.nxt \in Live(h))
        BY <2>4
      <4> HIDE DEF ix, w, h
      <4>5. WalkOK(g, ix, w)
        BY ONLY <4>1, <4>2, <4>3, <4>4, WalkKept
      <4> QED BY <4>2, <4>5 DEF ix, w
    <3> QED BY <3>1, <2>1, <2>3, <2>7 DEF WalksInv, Indexes
  <2> QED BY <2>6, <2>7
<1> QED BY <1>1, <1>2

LEMMA DelKeeps ==
  ASSUME HashAssumption, TableInv, NEW i \in Indexes, ThisDel(i)
  PROVE  TableInv' /\ (~AsDocumented /\ WalksInv => WalksInv')
<1> DEFINE x == index[i].cur
           g == Deleted(hash, {x})
<1>0. /\ Sound(hash) /\ index \in [Indexes -> IndexType] /\ walk \in [Indexes -> WalkType]
      /\ Null \notin Items /\ Live(hash) \subseteq Items
  BY PlaceFacts DEF TableInv, HashAssumption, Sound
<1>1. CASE Dangling(x)
  <2>1. fault' = TRUE /\ UNCHANGED <<hash, index, map, walk, spare, values>>
    BY <1>1 DEF ThisDel, Reading
  <2>2. TableInv'
    BY <2>1 DEF TableInv, Indexes
  <2>3. ~WalksInv
    BY <1>1 DEF WalksInv, IndexOK, Standing, Dangling
  <2> QED BY <2>2, <2>3
<1>2. CASE ~Dangling(x)
  <2>1. x # Null /\ MayDeleteAt(i)
    BY <1>2 DEF ThisDel, Reading
  <2>2. x \in Live(hash) /\ x \in Items /\ {x} \in SUBSET Live(hash) /\ Key(x) \in Keys
    BY <1>0, <1>2, <2>1 DEF Dangling, Keys
  <2>3. Contains(hash.table[hash.pos[x]], x)
    BY <1>0, <2>2, LiveAt, SoundChecked
  <2>4. /\ hash' = g /\ map' = [map EXCEPT ![Key(x)] = Null]
        /\ index' = [index EXCEPT ![i].cur = Null]
        /\ walk' = [[j \in Indexes |-> Without(walk[j], {x})] EXCEPT ![i].afterdel = TRUE]
        /\ UNCHANGED <<spare, values, fault>>
    BY <1>2, <2>1, <2>3 DEF ThisDel, Reading
  <2>5. Sound(g) /\ Live(g) = Live(hash) \ {x} /\ g.max = hash.max /\ Keeps(hash, g)
    BY <1>0, <2>2, DeletedSound
  <2>6. /\ map' \in [Keys -> Stored] /\ \A k \in Keys : Value(g, k) = map'[k]
    <3>1. \A k \in Keys : Value(g, k) = IF k \in {Key(y) : y \in {x}} THEN Null ELSE Value(hash, k)
      BY <1>0, <2>2, DeletedValue
    <3>2. map \in [Keys -> Stored] /\ \A k \in Keys : Value(hash, k) = map[k]
      BY DEF TableInv
    <3> HIDE DEF g, x
    <3>3. Null \in Stored
      BY DEF Stored
    <3> QED BY <3>1, <3>2, <3>3, <2>2, <2>4
  <2> DEFINE jx == [index[i] EXCEPT !.cur = Null]
             wo(j) == Without(walk[j], {x})
             wi == [wo(i) EXCEPT !.afterdel = TRUE]
  <2>7. jx \in IndexType /\ jx.cur = Null /\ jx.nxt = index[i].nxt /\ jx.end = index[i].end
        /\ index' = [index EXCEPT ![i] = jx] /\ Indexes' = Indexes
    <3>1. index[i] \in IndexType
      BY <1>0
    <3>2. jx \in IndexType /\ jx.cur = Null /\ jx.nxt = index[i].nxt /\ jx.end = index[i].end
      BY <3>1 DEF IndexType
    <3>3. index' = [index EXCEPT ![i] = jx]
      BY <2>4, <1>0
    <3>4. Indexes' = Indexes
      BY <3>3, <1>0 DEF Indexes
    <3> QED BY <3>2, <3>3, <3>4
  <2>8. \A j \in Indexes : /\ wo(j) \in WalkType
                           /\ wo(j).due = walk[j].due \ {x} /\ wo(j).met = walk[j].met \ {x}
                           /\ wo(j).void = walk[j].void /\ wo(j).missed = walk[j].missed
                           /\ wo(j).again = walk[j].again
    <3>1. ASSUME NEW j \in Indexes
          PROVE  /\ wo(j) \in WalkType
                 /\ wo(j).due = walk[j].due \ {x} /\ wo(j).met = walk[j].met \ {x}
                 /\ wo(j).void = walk[j].void /\ wo(j).missed = walk[j].missed
                 /\ wo(j).again = walk[j].again
      <4>1. walk[j] \in WalkType /\ {x} \in SUBSET Items
        BY <1>0, <2>2
      <4> QED BY <4>1, WithoutIs
    <3> QED BY <3>1
  <2> HIDE DEF wo
  <2>9. /\ wi \in WalkType /\ wi.due = wo(i).due /\ wi.met = wo(i).met /\ wi.void = wo(i).void
        /\ wi.missed = wo(i).missed /\ wi.again = wo(i).again
    BY <2>8 DEF WalkType
  <2>10. walk' = [j \in Indexes |-> IF j = i THEN wi ELSE wo(j)]
    BY <2>4 DEF wo
  <2> HIDE DEF wi, jx, g
  <2>11. walk' \in [Indexes -> WalkType] /\ index' \in [Indexes -> IndexType]
    BY <2>7, <2>8, <2>9, <2>10, <1>0
  <2>12. TableInv'
    BY <2>4, <2>5, <2>6, <2>7, <2>11 DEF TableInv
  <2>13. ASSUME ~AsDocumented, WalksInv PROVE WalksInv'
    <3>1. /\ index[i].nxt \in Live(hash) \union {Null}
          /\ \A j \in Indexes \ {i} : index[j].cur # x /\ (index[j].cur = Null => index[j].nxt # x)
      BY <2>1, <2>13 DEF MayDeleteAt, Dangling, SparesCurrent, SparesNoted
    <3>2. \A j \in Indexes : /\ IndexOK(hash, index[j]) /\ WalkOK(hash, index[j], walk[j])
                             /\ index[j].nxt \notin spare
      BY <2>13 DEF WalksInv
    <3>3. ASSUME NEW j \in Indexes, j # i
          PROVE  IndexOK(g, index[j]) /\ WalkOK(g, index[j], wo(j))
      <4> DEFINE ix == index[j]  w == walk[j]  u == wo(j)  h == hash
      <4>1. IndexOK(h, ix) /\ WalkOK(h, ix, w)
        BY <3>2
      <4>2. IndexOK(g, ix)
        BY <3>1, <3>3, <4>1, <2>5 DEF IndexOK, Standing
      <4>3. w.due \subseteq Live(h)
        BY <4>1, RestLive DEF WalkOK, IndexOK
      <4>4. /\ Live(h) \ Live(g) = {x} /\ Keeps(h, g) /\ (ix.nxt \in Live(g) => ix.nxt \in Live(h))
        BY <2>2, <2>5
      <4>5. /\ u.due = w.due \ (Live(h) \ Live(g)) /\ u.met = w.met \ (Live(h) \ Live(g))
            /\ u.void = w.void /\ u.missed = w.missed /\ u.again = w.again
        BY <4>4, <2>8
      <4> HIDE DEF ix, w, u, h, x
      <4>6. WalkOK(g, ix, u)
        BY ONLY <4>1, <4>2, <4>3, <4>4, <4>5, WalkKept
      <4> QED BY <4>2, <4>6 DEF ix, u
    <3>4. IndexOK(g, jx) /\ WalkOK(g, jx, wi)
      <4> DEFINE n == index[i].nxt  w == walk[i]
      <4>1. IndexOK(hash, index[i]) /\ WalkOK(hash, index[i], w) /\ index[i].cur = x /\ x # Null
        BY <3>2, <2>1
      <4>2. (jx.end <=> n = Null) /\ n # x /\ jx.cur = Null /\ jx.nxt = n
        BY <4>1, <2>7 DEF IndexOK
      <4>3. n \in Live(g) \union {Null}
        BY <3>1, <4>2, <2>5
      <4>4. IndexOK(g, jx)
        BY <4>2, <4>3 DEF IndexOK, Standing
      <4>5. /\ wi.due = w.due \ {x} /\ wi.met = w.met \ {x} /\ wi.void = w.void
            /\ wi.missed = {} /\ ~wi.again
        BY <2>8, <2>9, <4>1 DEF WalkOK
      <4>6. w.met \subseteq Live(hash) /\ w.due \subseteq Live(hash)
            /\ (w.void => w.due = {} /\ w.met = {})
        BY <4>1, RestLive DEF WalkOK, IndexOK
      <4>7. CASE jx.end
        <5>1. Rest(g, jx) = {} /\ w.due = {}
          BY <4>1, <4>2, <4>7, <2>7 DEF WalkOK, Rest
        <5> QED BY <5>1, <4>2, <4>4, <4>5, <4>6, <4>7, <2>5 DEF WalkOK
      <4>8. CASE ~jx.end
        <5>1. n \in Live(hash) /\ n \in Live(g) /\ n # Null
          BY <4>2, <4>3, <4>8, <3>1
        <5>2. Rest(g, jx) = FromOn(g, n)
          BY <4>2, <4>8, <5>1 DEF Rest
        <5>3. w.due \subseteq FromOn(hash, n) /\ w.met \intersect FromOn(hash, n) = {}
          BY <4>1, <5>1 DEF WalkOK
        <5>4. \A y \in Live(g) : y \in FromOn(hash, n) <=> y \in FromOn(g, n)
          BY <5>1, <2>5 DEF Keeps, FromOn, Ahead
        <5>5. wi.due \subseteq Live(g) /\ wi.met \subseteq Live(g)
          BY <4>5, <4>6, <2>5
        <5>6. wi.due \subseteq FromOn(g, n) /\ wi.met \intersect FromOn(g, n) = {}
          BY <5>3, <5>4, <5>5, <4>5
        <5>7. wi.void => wi.due = {} /\ wi.met = {}
          BY <4>5, <4>6
        <5>8. wi.met \intersect Rest(g, jx) = {} /\ wi.due \subseteq Rest(g, jx)
          BY <5>2, <5>6
        <5> QED BY <5>5, <5>7, <5>8, <4>2, <4>4, <4>5 DEF WalkOK
      <4> QED BY <4>7, <4>8
    <3>5. jx.nxt \notin spare
      BY <3>2, <2>7
    <3>6. ASSUME NEW j \in Indexes
          PROVE  /\ IndexOK(g, index'[j]) /\ WalkOK(g, index'[j], walk'[j])
                 /\ index'[j].nxt \notin spare
      <4>1. CASE j = i
        BY <4>1, <3>4, <3>5, <2>7, <2>10, <1>0
      <4>2. CASE j # i
        BY <4>2, <3>2, <3>3, <2>7, <2>10, <1>0
      <4> QED BY <4>1, <4>2
    <3> QED BY <3>6, <2>4, <2>7, <2>13 DEF WalksInv
  <2> QED BY <2>12, <2>13
<1> QED BY <1>1, <1>2

-----------------------------------------------------------------------------
(* The theorems *)

LEMMA TableStep ==
  ASSUME HashAssumption, TableInv, [Next]_vars
  PROVE  TableInv' /\ (~AsDocumented /\ WalksInv => WalksInv')
<1>1. CASE UNCHANGED vars
  BY <1>1 DEF vars, TableInv, WalksInv, Indexes
<1>2. ASSUME NEW x \in spare, NEW v \in values, HashAdd(x, v)
      PROVE  TableInv' /\ (~AsDocumented /\ WalksInv => WalksInv')
  BY <1>2, AddKeeps
<1>3. ASSUME NEW x \in spare, NEW y \in spare, x # y, NEW v \in values, HashAddHash(x, y, v)
      PROVE  TableInv' /\ (~AsDocumented /\ WalksInv => WalksInv')
  BY <1>3, AddHashKeeps
<1>4. ASSUME NEW k \in Keys, HashDel(k)
      PROVE  TableInv' /\ (~AsDocumented /\ WalksInv => WalksInv')
  BY <1>4, HashDelKeeps
<1>5. ASSUME NEW S \in SUBSET Live(hash), Deletes(S)
      PROVE  TableInv' /\ (~AsDocumented /\ WalksInv => WalksInv')
  BY <1>5, DeletesKeeps
<1>6. ASSUME NEW i \in Indexes, NEW x \in Live(hash) \union {Null}, NextCriteria(i, x)
      PROVE  TableInv' /\ (~AsDocumented /\ WalksInv => WalksInv')
  BY <1>6, NextKeepsTable, NextKeepsWalks
<1>7. ASSUME NEW i \in Indexes, Rewind(i) \/ ThisDel(i)
      PROVE  TableInv' /\ (~AsDocumented /\ WalksInv => WalksInv')
  BY <1>7, RewindKeeps, DelKeeps
<1>8. ASSUME NEW i \in Indexes, NEW v \in values, ThisReplace(i, v)
      PROVE  TableInv' /\ (~AsDocumented /\ WalksInv => WalksInv')
  BY <1>8, ReplaceKeeps
<1>9. ASSUME NEW i \in Indexes, NEW j \in Indexes, CopyIndex(i, j)
      PROVE  TableInv' /\ (~AsDocumented /\ WalksInv => WalksInv')
  BY <1>9, CopyKeeps
<1> QED BY <1>1, <1>2, <1>3, <1>4, <1>5, <1>6, <1>7, <1>8, <1>9 DEF Next

LEMMA TableInvGives ==
  ASSUME HashAssumption, TableInv
  PROVE  TypeOK /\ HashIsSound /\ FindsWhatWasPut
<1>1. Sound(hash) /\ DOMAIN hash.table = 0 .. hash.max /\ hash.max \in Nat
  BY PlaceFacts DEF TableInv, Sound
<1>2. HashIsSound
  <2>1. hash.count = Cardinality(Live(hash))
    BY <1>1 DEF Sound, Counted
  <2> QED BY <1>1, <2>1, SoundChecked DEF HashIsSound
<1>3. FindsWhatWasPut
  BY DEF TableInv, FindsWhatWasPut
<1>4. TypeOK
  BY <1>1 DEF TableInv, Sound, Typed, TypeOK, IndexType
<1> QED BY <1>2, <1>3, <1>4

LEMMA WalksInvGives ==
  ASSUME WalksInv
  PROVE  NoFreedUse /\ WalkIsComplete
BY DEF WalksInv, WalkOK, NoFreedUse, WalkIsComplete


(* Whatever calls are made of a table, whoever walks it, and even after a
   call that read a freed item, every item is in the chain of its key, once,
   and the table counts them; and as long as no freed item was read a search
   finds what the last call put under a key (hash.c:97-171, 304-378,
   495-540). *)
THEOREM TableIsRight ==
  ASSUME HashAssumption
  PROVE  Spec => [](TypeOK /\ HashIsSound /\ FindsWhatWasPut)
<1>1. Init => TableInv
  BY TableStart
<1>2. TableInv /\ [Next]_vars => TableInv'
  BY TableStep
<1>3. TableInv => TypeOK /\ HashIsSound /\ FindsWhatWasPut
  BY TableInvGives
<1> QED BY <1>1, <1>2, <1>3, PTL DEF Spec

(* The rules MayDelete and MayDeleteAt are enough: a user who deletes no item
   that another index is on, nor the one an index goes to after its own was
   deleted, never makes an index read a freed item, and each walk meets what
   it must, once, however the calls interleave (hashi.c:173-253). *)
THEOREM WalksAreRight ==
  ASSUME HashAssumption, ~AsDocumented
  PROVE  Spec => [](NoFreedUse /\ WalkIsComplete)
<1>1. Init => TableInv /\ WalksInv
  BY TableStart
<1>2. TableInv /\ WalksInv /\ [Next]_vars => (TableInv /\ WalksInv)'
  BY TableStep
<1>3. WalksInv => NoFreedUse /\ WalkIsComplete
  BY WalksInvGives
<1> QED BY <1>1, <1>2, <1>3, PTL DEF Spec
=============================================================================
