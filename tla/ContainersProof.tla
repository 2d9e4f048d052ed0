-------------------------- MODULE ContainersProof --------------------------
(***************************************************************************)
(* What is proved of the containers, for any lists of ranges and any       *)
(* number of edits, any pool and any data io; with the proofs of RingProof *)
(* and HashProof it gives the properties of MCContainers for any           *)
(* constants.                                                              *)
(***************************************************************************)
EXTENDS MCContainers, SequenceTheorems, WellFoundedInduction, TLAPS

(* What each instance assumes of the constants. *)
LEMMA PoolAssumed ==
  /\ HorizontalSize \in Nat \ {0}
  /\ AllocStep \in Nat \ {0}
  /\ MaxSize \in Nat
BY ContainersAssumption DEF Pool!BufpoolAssumption

LEMMA DataAssumed == Data!DataAssumption
BY ContainersAssumption

-----------------------------------------------------------------------------
(* Arrays of ranges *)

Each(s) == \A i \in 0 .. NumRanges(s) - 1 : s[Low(i)] <= s[High(i)]
Sound(s) == s \in Seq(Int) /\ Len(s) = 2 * NumRanges(s) /\ Each(s)
Spread(s) ==
  \A i, j \in 0 .. NumRanges(s) - 1 : i < j => s[High(i)] + 1 < s[Low(j)]
Holds(s, v) == \E i \in 0 .. NumRanges(s) - 1 : In(s, i, v)

LEMMA NumIs ==
  ASSUME NEW s \in Seq(Int), NEW n \in Nat, Len(s) = 2 * n
  PROVE  NumRanges(s) = n
BY DEF NumRanges

LEMMA NumNat ==
  ASSUME NEW s \in Seq(Int)
  PROVE  NumRanges(s) \in Nat
<1>1. Len(s) \in Nat
  OBVIOUS
<1> QED BY <1>1 DEF NumRanges

LEMMA JoinIs ==
  ASSUME NEW u \in Seq(Int), NEW w \in Seq(Int)
  PROVE  /\ u \o w \in Seq(Int) /\ Len(u \o w) = Len(u) + Len(w)
         /\ \A k \in 1 .. Len(u) : (u \o w)[k] = u[k]
         /\ \A k \in 1 .. Len(w) : (u \o w)[Len(u) + k] = w[k]
<1>1. /\ u \o w \in Seq(Int) /\ Len(u \o w) = Len(u) + Len(w)
      /\ \A i \in 1 .. Len(u) + Len(w) :
           (u \o w)[i] = IF i <= Len(u) THEN u[i] ELSE w[i - Len(u)]
  BY ConcatProperties
<1>2. Len(u) \in Nat /\ Len(w) \in Nat
  OBVIOUS
<1>3. ASSUME NEW k \in 1 .. Len(u) PROVE (u \o w)[k] = u[k]
  <2>1. k \in 1 .. Len(u) + Len(w) /\ k <= Len(u)
    BY <1>2
  <2> QED BY <2>1, <1>1
<1>4. ASSUME NEW k \in 1 .. Len(w) PROVE (u \o w)[Len(u) + k] = w[k]
  <2>1. Len(u) + k \in 1 .. Len(u) + Len(w) /\ ~(Len(u) + k <= Len(u)) /\ Len(u) + k - Len(u) = k
    BY <1>2
  <2> QED BY <2>1, <1>1
<1> QED BY <1>1, <1>3, <1>4

LEMMA PartIs ==
  ASSUME NEW s \in Seq(Int), NEW d \in 1 .. Len(s) + 1, NEW e \in d - 1 .. Len(s)
  PROVE  /\ SubSeq(s, d, e) \in Seq(Int) /\ Len(SubSeq(s, d, e)) = e + 1 - d
         /\ \A k \in 1 .. e + 1 - d : SubSeq(s, d, e)[k] = s[d + k - 1]
<1>1. Len(s) \in Nat /\ d \in Int /\ e \in Int /\ \A k \in d .. e : s[k] \in Int
  OBVIOUS
<1>2. /\ SubSeq(s, d, e) \in Seq(Int)
      /\ Len(SubSeq(s, d, e)) = IF d <= e THEN e - d + 1 ELSE 0
      /\ \A i \in 1 .. e - d + 1 : SubSeq(s, d, e)[i] = s[d + i - 1]
  BY <1>1, SubSeqProperties
<1>3. e - d + 1 = e + 1 - d /\ (~(d <= e) => e + 1 - d = 0)
  BY <1>1
<1> QED BY <1>2, <1>3

(* What an edit leaves of the array, edge by edge. *)
LEMMA SpliceIs ==
  ASSUME NEW s \in Seq(Int), NEW mid \in Seq(Int),
         NEW d \in 1 .. Len(s) + 1, NEW e \in d .. Len(s) + 1
  PROVE  LET t == Splice(s, d, mid, e)
         IN  /\ t \in Seq(Int)
             /\ Len(t) = d - 1 + Len(mid) + (Len(s) + 1 - e)
             /\ \A k \in 1 .. d - 1 : t[k] = s[k]
             /\ \A k \in 1 .. Len(mid) : t[d - 1 + k] = mid[k]
             /\ \A k \in e .. Len(s) : t[k - e + d + Len(mid)] = s[k]
<1> DEFINE u == SubSeq(s, 1, d - 1)
           w == SubSeq(s, e, Len(s))
           x == u \o mid
           t == Splice(s, d, mid, e)
<1>1. Len(s) \in Nat /\ Len(mid) \in Nat /\ d \in Nat /\ e \in Nat
  OBVIOUS
<1>2. u \in Seq(Int) /\ Len(u) = d - 1 /\ \A k \in 1 .. d - 1 : u[k] = s[k]
  <2>1. 1 \in 1 .. Len(s) + 1 /\ d - 1 \in 1 - 1 .. Len(s) /\ d - 1 + 1 - 1 = d - 1
    BY <1>1
  <2>2. /\ u \in Seq(Int) /\ Len(u) = d - 1
        /\ \A k \in 1 .. d - 1 : u[k] = s[1 + k - 1]
    BY <2>1, PartIs
  <2>3. \A k \in 1 .. d - 1 : 1 + k - 1 = k
    OBVIOUS
  <2> QED BY <2>2, <2>3
<1>3. /\ w \in Seq(Int) /\ Len(w) = Len(s) + 1 - e
      /\ \A k \in 1 .. Len(s) + 1 - e : w[k] = s[e + k - 1]
  <2>1. e \in 1 .. Len(s) + 1 /\ Len(s) \in e - 1 .. Len(s)
    BY <1>1
  <2> QED BY <2>1, PartIs
<1>4. t = x \o w
  BY DEF Splice
<1> HIDE DEF u, w, t
<1>5. /\ x \in Seq(Int) /\ Len(x) = d - 1 + Len(mid)
      /\ \A k \in 1 .. d - 1 : x[k] = s[k]
      /\ \A k \in 1 .. Len(mid) : x[d - 1 + k] = mid[k]
  <2>1. /\ x \in Seq(Int) /\ Len(x) = Len(u) + Len(mid)
        /\ \A k \in 1 .. Len(u) : x[k] = u[k]
        /\ \A k \in 1 .. Len(mid) : x[Len(u) + k] = mid[k]
    BY <1>2, JoinIs
  <2> QED BY <2>1, <1>2
<1> HIDE DEF x
<1>6. /\ t \in Seq(Int) /\ Len(t) = Len(x) + Len(w)
      /\ \A k \in 1 .. Len(x) : t[k] = x[k]
      /\ \A k \in 1 .. Len(w) : t[Len(x) + k] = w[k]
  BY <1>3, <1>4, <1>5, JoinIs
<1>7. ASSUME NEW k \in 1 .. d - 1 PROVE t[k] = s[k]
  <2>1. k \in 1 .. Len(x)
    BY <1>1, <1>5
  <2> QED BY <2>1, <1>5, <1>6
<1>8. ASSUME NEW k \in 1 .. Len(mid) PROVE t[d - 1 + k] = mid[k]
  <2>1. d - 1 + k \in 1 .. Len(x)
    BY <1>1, <1>5
  <2> QED BY <2>1, <1>5, <1>6
<1>9. ASSUME NEW k \in e .. Len(s) PROVE t[k - e + d + Len(mid)] = s[k]
  <2> DEFINE l == k - e + 1
  <2>1. l \in 1 .. Len(w) /\ Len(x) + l = k - e + d + Len(mid) /\ e + l - 1 = k
    BY <1>1, <1>3, <1>5
  <2> HIDE DEF l
  <2>2. t[Len(x) + l] = w[l]
    BY <2>1, <1>6
  <2>3. w[l] = s[e + l - 1]
    BY <2>1, <1>3
  <2> QED BY <2>1, <2>2, <2>3
<1>10. Len(t) = d - 1 + Len(mid) + (Len(s) + 1 - e)
  BY <1>3, <1>5, <1>6
<1> QED BY <1>6, <1>7, <1>8, <1>9, <1>10 DEF t

(* The same, range by range: the ranges of m take the place of those from
   the range a to the one before b. *)
Spliced(t, s, a, b, m) ==
  /\ t \in Seq(Int) /\ Len(t) = 2 * NumRanges(t)
  /\ NumRanges(t) = NumRanges(s) + NumRanges(m) + a - b
  /\ \A i \in 0 .. a - 1 : t[Low(i)] = s[Low(i)] /\ t[High(i)] = s[High(i)]
  /\ \A i \in 0 .. NumRanges(m) - 1 :
       t[Low(a + i)] = m[Low(i)] /\ t[High(a + i)] = m[High(i)]
  /\ \A i \in b .. NumRanges(s) - 1 :
       /\ t[Low(i - b + a + NumRanges(m))] = s[Low(i)]
       /\ t[High(i - b + a + NumRanges(m))] = s[High(i)]

LEMMA SpliceRanges ==
  ASSUME NEW s, NEW m, Sound(s), Sound(m),
         NEW a \in 0 .. NumRanges(s), NEW b \in a .. NumRanges(s)
  PROVE  Spliced(Splice(s, Low(a), m, Low(b)), s, a, b, m)
<1> DEFINE t == Splice(s, Low(a), m, Low(b))
<1>1. /\ s \in Seq(Int) /\ m \in Seq(Int)
      /\ NumRanges(s) \in Nat /\ NumRanges(m) \in Nat /\ a \in Nat /\ b \in Nat
      /\ a <= b /\ b <= NumRanges(s)
      /\ Len(s) = 2 * NumRanges(s) /\ Len(m) = 2 * NumRanges(m)
  BY NumNat DEF Sound
<1>2. Low(a) \in 1 .. Len(s) + 1 /\ Low(b) \in Low(a) .. Len(s) + 1
  BY <1>1 DEF Low
<1>3. /\ t \in Seq(Int)
      /\ Len(t) = Low(a) - 1 + Len(m) + (Len(s) + 1 - Low(b))
      /\ \A k \in 1 .. Low(a) - 1 : t[k] = s[k]
      /\ \A k \in 1 .. Len(m) : t[Low(a) - 1 + k] = m[k]
      /\ \A k \in Low(b) .. Len(s) : t[k - Low(b) + Low(a) + Len(m)] = s[k]
  BY <1>1, <1>2, SpliceIs
<1> HIDE DEF t
<1> DEFINE n == NumRanges(s) + NumRanges(m) + a - b
<1>4. n \in Nat /\ Len(t) = 2 * n
  <2>1. NumRanges(s) + NumRanges(m) + a - b \in Nat
    BY <1>1
  <2>2. NumRanges(s) \in Nat /\ NumRanges(m) \in Nat /\ a \in Nat /\ b \in Nat
    BY <1>1
  <2>3. Len(t) = Low(a) - 1 + 2 * NumRanges(m) + (2 * NumRanges(s) + 1 - Low(b))
    BY <1>1, <1>3
  <2>4. Low(a) - 1 + 2 * NumRanges(m) + (2 * NumRanges(s) + 1 - Low(b))
          = 2 * (NumRanges(s) + NumRanges(m) + a - b)
    BY <2>2 DEF Low
  <2> QED BY <2>1, <2>3, <2>4
<1>5. NumRanges(t) = n
  BY <1>3, <1>4, NumIs
<1>6. ASSUME NEW i \in 0 .. a - 1
      PROVE  t[Low(i)] = s[Low(i)] /\ t[High(i)] = s[High(i)]
  <2>1. Low(i) \in 1 .. Low(a) - 1 /\ High(i) \in 1 .. Low(a) - 1
    BY <1>1 DEF Low, High
  <2> QED BY <2>1, <1>3
<1>7. ASSUME NEW i \in 0 .. NumRanges(m) - 1
      PROVE  t[Low(a + i)] = m[Low(i)] /\ t[High(a + i)] = m[High(i)]
  <2>1. Low(i) \in 1 .. Len(m) /\ High(i) \in 1 .. Len(m)
    BY <1>1 DEF Low, High
  <2>2. Low(a + i) = Low(a) - 1 + Low(i) /\ High(a + i) = Low(a) - 1 + High(i)
    BY <1>1 DEF Low, High
  <2> QED BY <2>1, <2>2, <1>3
<1>8. ASSUME NEW i \in b .. NumRanges(s) - 1
      PROVE  /\ t[Low(i - b + a + NumRanges(m))] = s[Low(i)]
             /\ t[High(i - b + a + NumRanges(m))] = s[High(i)]
  <2>1. Low(i) \in Low(b) .. Len(s) /\ High(i) \in Low(b) .. Len(s)
    BY <1>1 DEF Low, High
  <2>2. /\ Low(i - b + a + NumRanges(m)) = Low(i) - Low(b) + Low(a) + Len(m)
        /\ High(i - b + a + NumRanges(m)) = High(i) - Low(b) + Low(a) + Len(m)
    <3>1. /\ i \in Int /\ a \in Int /\ b \in Int /\ NumRanges(m) \in Int
          /\ Len(m) = 2 * NumRanges(m)
      BY <1>1
    <3> QED BY <3>1 DEF Low, High
  <2> QED BY <2>1, <2>2, <1>3
<1> QED BY <1>3, <1>4, <1>5, <1>6, <1>7, <1>8 DEF Spliced, t

(* A range of the new array was before the new ones, is one of them, or was
   after them. *)
LEMMA SplicedAt ==
  ASSUME NEW t, NEW s, NEW m, NEW a \in 0 .. NumRanges(s), NEW b \in a .. NumRanges(s),
         Sound(s), Sound(m), Spliced(t, s, a, b, m), NEW i \in 0 .. NumRanges(t) - 1
  PROVE  \/ i \in 0 .. a - 1 /\ t[Low(i)] = s[Low(i)] /\ t[High(i)] = s[High(i)]
         \/ \E k \in 0 .. NumRanges(m) - 1 :
              i = a + k /\ t[Low(i)] = m[Low(k)] /\ t[High(i)] = m[High(k)]
         \/ \E k \in b .. NumRanges(s) - 1 :
              /\ i = k - b + a + NumRanges(m)
              /\ t[Low(i)] = s[Low(k)] /\ t[High(i)] = s[High(k)]
<1>1. NumRanges(s) \in Nat /\ NumRanges(m) \in Nat /\ a \in Nat /\ b \in Nat
  BY NumNat DEF Sound
<1>2. NumRanges(t) = NumRanges(s) + NumRanges(m) + a - b
  BY DEF Spliced
<1>3. CASE i < a
  <2>1. i \in 0 .. a - 1
    BY <1>1, <1>2, <1>3
  <2> QED BY <2>1 DEF Spliced
<1>4. CASE i >= a /\ i < a + NumRanges(m)
  <2> DEFINE k == i - a
  <2>1. k \in 0 .. NumRanges(m) - 1 /\ i = a + k
    BY <1>1, <1>2, <1>4
  <2> HIDE DEF k
  <2>2. t[Low(a + k)] = m[Low(k)] /\ t[High(a + k)] = m[High(k)]
    BY <2>1 DEF Spliced
  <2> QED BY <2>1, <2>2
<1>5. CASE i >= a + NumRanges(m)
  <2> DEFINE k == i - a - NumRanges(m) + b
  <2>1. k \in b .. NumRanges(s) - 1 /\ i = k - b + a + NumRanges(m)
    BY <1>1, <1>2, <1>5
  <2> HIDE DEF k
  <2>2. /\ t[Low(k - b + a + NumRanges(m))] = s[Low(k)]
        /\ t[High(k - b + a + NumRanges(m))] = s[High(k)]
    BY <2>1 DEF Spliced
  <2> QED BY <2>1, <2>2
<1> QED BY <1>1, <1>2, <1>3, <1>4, <1>5

LEMMA EdgesInt ==
  ASSUME NEW s, Sound(s), NEW i \in 0 .. NumRanges(s) - 1
  PROVE  s[Low(i)] \in Int /\ s[High(i)] \in Int /\ s[Low(i)] <= s[High(i)]
<1>1. Low(i) \in 1 .. Len(s) /\ High(i) \in 1 .. Len(s)
  BY NumNat DEF Sound, Low, High
<1> QED BY <1>1 DEF Sound, Each

LEMMA SplicedSound ==
  ASSUME NEW t, NEW s, NEW m, NEW a \in 0 .. NumRanges(s), NEW b \in a .. NumRanges(s),
         Sound(s), Sound(m), Spliced(t, s, a, b, m)
  PROVE  Sound(t)
<1>1. t \in Seq(Int) /\ Len(t) = 2 * NumRanges(t)
  BY DEF Spliced
<1>2. ASSUME NEW i \in 0 .. NumRanges(t) - 1 PROVE t[Low(i)] <= t[High(i)]
  <2>1. a - 1 \in Int /\ \A k \in 0 .. a - 1 : k \in 0 .. NumRanges(s) - 1
    BY NumNat DEF Sound
  <2>2. \A k \in b .. NumRanges(s) - 1 : k \in 0 .. NumRanges(s) - 1
    BY NumNat DEF Sound
  <2> QED BY <2>1, <2>2, SplicedAt, EdgesInt
<1> QED BY <1>1, <1>2 DEF Sound, Each

LEMMA SplicedSpread ==
  ASSUME NEW t, NEW s, NEW m, NEW a \in 0 .. NumRanges(s), NEW b \in a .. NumRanges(s),
         Sound(s), Sound(m), Spliced(t, s, a, b, m), Spread(s), Spread(m),
         \A i \in 0 .. a - 1, k \in 0 .. NumRanges(m) - 1 : s[High(i)] + 1 < m[Low(k)],
         \A i \in b .. NumRanges(s) - 1, k \in 0 .. NumRanges(m) - 1 : m[High(k)] + 1 < s[Low(i)]
  PROVE  Spread(t)
<1>1. NumRanges(s) \in Nat /\ NumRanges(m) \in Nat /\ a \in Nat /\ b \in Nat
  BY NumNat DEF Sound
<1>2. SUFFICES ASSUME NEW i \in 0 .. NumRanges(t) - 1, NEW j \in 0 .. NumRanges(t) - 1, i < j
               PROVE  t[High(i)] + 1 < t[Low(j)]
  BY DEF Spread
<1>3. NumRanges(t) = NumRanges(s) + NumRanges(m) + a - b
  BY DEF Spliced
<1> DEFINE At(l, h) ==
      \/ l \in 0 .. a - 1 /\ h = l
      \/ l \in a .. a + NumRanges(m) - 1 /\ h = l - a
      \/ l \in a + NumRanges(m) .. NumRanges(t) - 1 /\ h = l - a - NumRanges(m) + b
<1>4. CASE j \in 0 .. a - 1
  <2>1. i \in 0 .. a - 1 /\ j \in 0 .. NumRanges(s) - 1 /\ i \in 0 .. NumRanges(s) - 1
    BY <1>1, <1>2, <1>4
  <2>2. t[High(i)] = s[High(i)] /\ t[Low(j)] = s[Low(j)]
    BY <2>1, <1>4 DEF Spliced
  <2> QED BY <2>1, <2>2, <1>2 DEF Spread
<1>5. CASE j \in a .. a + NumRanges(m) - 1
  <2> DEFINE k == j - a
  <2>1. k \in 0 .. NumRanges(m) - 1 /\ j = a + k
    BY <1>1, <1>5
  <2> HIDE DEF k
  <2>2. t[Low(j)] = m[Low(k)]
    BY <2>1 DEF Spliced
  <2>3. CASE i \in 0 .. a - 1
    <3>1. t[High(i)] = s[High(i)]
      BY <2>3 DEF Spliced
    <3> QED BY <3>1, <2>1, <2>2, <2>3
  <2>4. CASE i \notin 0 .. a - 1
    <3> DEFINE l == i - a
    <3>1. l \in 0 .. NumRanges(m) - 1 /\ i = a + l /\ l < k
      BY <1>1, <1>2, <1>5, <2>1, <2>4
    <3> HIDE DEF l
    <3>2. t[High(i)] = m[High(l)]
      BY <3>1 DEF Spliced
    <3> QED BY <3>1, <3>2, <2>1, <2>2 DEF Spread
  <2> QED BY <2>3, <2>4
<1>6. CASE j \notin 0 .. a - 1 /\ j \notin a .. a + NumRanges(m) - 1
  <2> DEFINE k == j - a - NumRanges(m) + b
  <2>1. k \in b .. NumRanges(s) - 1 /\ j = k - b + a + NumRanges(m) /\ k \in 0 .. NumRanges(s) - 1
    BY <1>1, <1>3, <1>6
  <2> HIDE DEF k
  <2>2. t[Low(j)] = s[Low(k)]
    BY <2>1 DEF Spliced
  <2>3. CASE i \in 0 .. a - 1
    <3>1. t[High(i)] = s[High(i)]
      BY <2>3 DEF Spliced
    <3>2. i \in 0 .. NumRanges(s) - 1 /\ i < k
      BY <2>1, <2>3, <1>1
    <3> QED BY <3>1, <3>2, <2>1, <2>2 DEF Spread
  <2>4. CASE i \in a .. a + NumRanges(m) - 1
    <3> DEFINE l == i - a
    <3>1. l \in 0 .. NumRanges(m) - 1 /\ i = a + l
      BY <1>1, <2>4
    <3> HIDE DEF l
    <3>2. t[High(i)] = m[High(l)]
      BY <3>1 DEF Spliced
    <3> QED BY <3>1, <3>2, <2>1, <2>2
  <2>5. CASE i \notin 0 .. a - 1 /\ i \notin a .. a + NumRanges(m) - 1
    <3> DEFINE l == i - a - NumRanges(m) + b
    <3>1. /\ l \in b .. NumRanges(s) - 1 /\ i = l - b + a + NumRanges(m)
          /\ l \in 0 .. NumRanges(s) - 1 /\ l < k
      BY <1>1, <1>2, <1>3, <2>1, <2>5
    <3> HIDE DEF l
    <3>2. t[High(i)] = s[High(l)]
      BY <3>1 DEF Spliced
    <3> QED BY <3>1, <3>2, <2>1, <2>2 DEF Spread
  <2> QED BY <2>3, <2>4, <2>5
<1> QED BY <1>4, <1>5, <1>6

LEMMA SplicedHolds ==
  ASSUME NEW t, NEW s, NEW m, NEW a \in 0 .. NumRanges(s), NEW b \in a .. NumRanges(s),
         Sound(s), Sound(m), Spliced(t, s, a, b, m), NEW v
  PROVE  Holds(t, v) <=> \/ \E i \in 0 .. a - 1 : In(s, i, v)
                         \/ Holds(m, v)
                         \/ \E i \in b .. NumRanges(s) - 1 : In(s, i, v)
<1>1. NumRanges(s) \in Nat /\ NumRanges(m) \in Nat /\ a \in Nat /\ b \in Nat
  BY NumNat DEF Sound
<1>2. NumRanges(t) = NumRanges(s) + NumRanges(m) + a - b
  BY DEF Spliced
<1>3. ASSUME NEW i \in 0 .. NumRanges(t) - 1, In(t, i, v)
      PROVE  \/ \E k \in 0 .. a - 1 : In(s, k, v)
             \/ Holds(m, v)
             \/ \E k \in b .. NumRanges(s) - 1 : In(s, k, v)
  BY <1>3, SplicedAt DEF In, Holds
<1>4. ASSUME NEW i \in 0 .. a - 1, In(s, i, v) PROVE Holds(t, v)
  <2>1. i \in 0 .. NumRanges(t) - 1
    BY <1>1, <1>2
  <2>2. t[Low(i)] = s[Low(i)] /\ t[High(i)] = s[High(i)]
    BY DEF Spliced
  <2> QED BY <1>4, <2>1, <2>2 DEF Holds, In
<1>5. ASSUME NEW i \in 0 .. NumRanges(m) - 1, In(m, i, v) PROVE Holds(t, v)
  <2>1. a + i \in 0 .. NumRanges(t) - 1
    BY <1>1, <1>2
  <2>2. t[Low(a + i)] = m[Low(i)] /\ t[High(a + i)] = m[High(i)]
    BY DEF Spliced
  <2>3. In(t, a + i, v)
    BY <1>5, <2>2 DEF In
  <2> QED BY <2>1, <2>3 DEF Holds
<1>6. ASSUME NEW i \in b .. NumRanges(s) - 1, In(s, i, v) PROVE Holds(t, v)
  <2>1. i - b + a + NumRanges(m) \in 0 .. NumRanges(t) - 1
    BY <1>1, <1>2
  <2>2. /\ t[Low(i - b + a + NumRanges(m))] = s[Low(i)]
        /\ t[High(i - b + a + NumRanges(m))] = s[High(i)]
    BY DEF Spliced
  <2>3. In(t, i - b + a + NumRanges(m), v)
    BY <1>6, <2>2 DEF In
  <2> QED BY <2>1, <2>3 DEF Holds
<1> QED BY <1>3, <1>4, <1>5, <1>6 DEF Holds

-----------------------------------------------------------------------------
(* Searches *)

LEMMA LeastOf ==
  ASSUME NEW T, T \subseteq Nat, T # {}
  PROVE  \E n \in T : \A m \in T : n <= m
<1> DEFINE R == {p \in Nat \X Nat : p[1] < p[2]}
<1>1. IsWellFoundedOn(R, Nat)
  <2>1. R = OpToRel(<, Nat)
    BY DEF OpToRel
  <2> QED BY <2>1, NatLessThanWellFounded
<1>2. PICK n \in T : \A m \in T : ~ (<<m, n>> \in R)
  <2> HIDE DEF R
  <2> QED BY <1>1, WFMin
<1>3. ASSUME NEW m \in T PROVE n <= m
  <2>1. m \in Nat /\ n \in Nat
    OBVIOUS
  <2>2. ~(m < n)
    BY <1>2, <2>1
  <2> QED BY <2>1, <2>2
<1> QED BY <1>3

LEMMA MinIs ==
  ASSUME NEW T, T \subseteq Nat, T # {}
  PROVE  Min(T) \in T /\ \A m \in T : Min(T) <= m
BY LeastOf DEF Min

(* f is the place of v among the ranges from l to the one before h: the first
   one that does not end before v, or h. *)
Places(s, l, h, v, f) ==
  /\ f = [at |-> f.at, in |-> f.in] /\ f.at \in l .. h /\ f.in \in BOOLEAN
  /\ \A i \in l .. f.at - 1 : s[High(i)] < v
  /\ f.in => f.at < h /\ s[Low(f.at)] <= v /\ v <= s[High(f.at)]
  /\ ~f.in /\ f.at < h => v < s[Low(f.at)]

LEMMA OnePlace ==
  ASSUME NEW s, Sound(s), NEW v \in Int,
         NEW l \in Nat, NEW h \in 0 .. NumRanges(s), NEW f, NEW g,
         Places(s, l, h, v, f), Places(s, l, h, v, g)
  PROVE  f = g
<1>1. NumRanges(s) \in Nat
  BY NumNat DEF Sound
<1>2. ASSUME NEW e, NEW d, Places(s, l, h, v, e), Places(s, l, h, v, d), e.at < d.at
      PROVE  FALSE
  <2>1. e.at \in 0 .. NumRanges(s) - 1 /\ e.at \in l .. d.at - 1 /\ e.at < h
    BY <1>1, <1>2 DEF Places
  <2>2. s[High(e.at)] < v
    BY <1>2, <2>1 DEF Places
  <2>3. s[Low(e.at)] \in Int /\ s[High(e.at)] \in Int /\ s[Low(e.at)] <= s[High(e.at)]
    BY <2>1, EdgesInt
  <2> QED BY <1>2, <2>1, <2>2, <2>3 DEF Places
<1>3. f.at \in Int /\ g.at \in Int /\ f.at = g.at
  <2>1. f.at \in Int /\ g.at \in Int
    BY <1>1 DEF Places
  <2> QED BY <2>1, <1>2
<1>4. f.in = g.in
  <2>1. CASE f.at < h
    <3>1. f.at \in 0 .. NumRanges(s) - 1
      BY <1>1, <2>1 DEF Places
    <3>2. s[Low(f.at)] \in Int
      BY <3>1, EdgesInt
    <3> QED BY <3>2, <1>3, <2>1 DEF Places
  <2>2. CASE ~(f.at < h)
    BY <1>3, <2>2 DEF Places
  <2> QED BY <2>1, <2>2
<1> QED BY <1>3, <1>4 DEF Places

LEMMA SomePlace ==
  ASSUME NEW s, Sound(s), NEW v \in Int, NEW h \in 0 .. NumRanges(s), NEW l \in 0 .. h
  PROVE  LET ends == {i \in l .. h - 1 : v <= s[High(i)]}
         IN  Places(s, l, h, v,
                    CASE ends = {} -> Before(h)
                      [] ends # {} /\ v < s[Low(Min(ends))] -> Before(Min(ends))
                      [] OTHER -> Found(Min(ends)))
<1> DEFINE ends == {i \in l .. h - 1 : v <= s[High(i)]}
<1>1. NumRanges(s) \in Nat /\ h \in Nat /\ l \in Nat /\ l <= h /\ h <= NumRanges(s)
  BY NumNat DEF Sound
<1>2. \A i \in l .. h - 1 : i \in 0 .. NumRanges(s) - 1
  BY <1>1
<1>3. \A i \in l .. h - 1 : s[Low(i)] \in Int /\ s[High(i)] \in Int
  BY <1>2, EdgesInt
<1>4. CASE ends = {}
  <2>1. Places(s, l, h, v, Before(h))
    BY <1>1, <1>3, <1>4 DEF Places, Before
  <2> QED BY <2>1, <1>4
<1>5. CASE ends # {}
  <2>1. ends \subseteq Nat
    BY <1>1
  <2> DEFINE k == Min(ends)
  <2>2. k \in ends /\ \A i \in ends : k <= i
    BY <2>1, <1>5, MinIs
  <2> HIDE DEF k
  <2>3. k \in l .. h - 1 /\ v <= s[High(k)] /\ s[Low(k)] \in Int
    BY <2>2, <1>3
  <2>4. ASSUME NEW i \in l .. k - 1 PROVE s[High(i)] < v
    <3>1. i \in l .. h - 1 /\ ~(k <= i)
      BY <1>1, <2>3
    <3>2. i \notin ends
      BY <2>2, <3>1
    <3> QED BY <3>1, <3>2, <1>3
  <2>5. CASE v < s[Low(k)]
    <3>1. Places(s, l, h, v, Before(k))
      BY <1>1, <2>3, <2>4, <2>5 DEF Places, Before
    <3> QED BY <3>1, <1>5, <2>5 DEF k
  <2>6. CASE ~(v < s[Low(k)])
    <3>1. Places(s, l, h, v, Found(k))
      BY <1>1, <2>3, <2>4, <2>6 DEF Places, Found
    <3> QED BY <3>1, <1>5, <2>6 DEF k
  <2> QED BY <2>5, <2>6
<1> QED BY <1>4, <1>5

LEMMA LinearIs ==
  ASSUME NEW s, Sound(s), NEW from \in 0 .. NumRanges(s), NEW v \in Int
  PROVE  Places(s, from, NumRanges(s), v, SearchLinearSort(s, from, v))
<1>1. NumRanges(s) \in 0 .. NumRanges(s)
  BY NumNat DEF Sound
<1> QED BY <1>1, SomePlace DEF SearchLinearSort

LEMMA NotSortIs ==
  ASSUME NEW s, Sound(s), NEW from \in Nat, NEW v \in Int
  PROVE  LET f == SearchLinearNotSort(s, from, v)
         IN  /\ f = [at |-> f.at, in |-> f.in] /\ f.in \in BOOLEAN
             /\ f.in => /\ f.at \in from .. NumRanges(s) - 1 /\ In(s, f.at, v)
                        /\ \A i \in from .. f.at - 1 : ~In(s, i, v)
             /\ ~f.in => /\ f.at = NumRanges(s)
                         /\ \A i \in from .. NumRanges(s) - 1 : ~In(s, i, v)
<1> DEFINE around == {i \in from .. NumRanges(s) - 1 : In(s, i, v)}
<1>1. NumRanges(s) \in Nat
  BY NumNat DEF Sound
<1>2. CASE around = {}
  <2>1. SearchLinearNotSort(s, from, v) = Before(NumRanges(s))
    BY <1>2 DEF SearchLinearNotSort
  <2> HIDE DEF around
  <2>2. \A i \in from .. NumRanges(s) - 1 : ~In(s, i, v)
    BY <1>2 DEF around
  <2> QED BY <2>1, <2>2 DEF Before
<1>3. CASE around # {}
  <2>1. around \subseteq Nat
    BY <1>1
  <2> DEFINE k == Min(around)
  <2>2. k \in around /\ \A i \in around : k <= i
    BY <2>1, <1>3, MinIs
  <2>3. SearchLinearNotSort(s, from, v) = Found(k)
    BY <1>3 DEF SearchLinearNotSort
  <2> HIDE DEF k
  <2>4. k \in from .. NumRanges(s) - 1 /\ In(s, k, v)
    BY <2>2
  <2>5. ASSUME NEW i \in from .. k - 1 PROVE ~In(s, i, v)
    <3>1. i \in from .. NumRanges(s) - 1 /\ ~(k <= i)
      BY <1>1, <2>4
    <3> QED BY <2>2, <3>1
  <2> QED BY <2>3, <2>4, <2>5 DEF Found
<1> QED BY <1>2, <1>3

(* A turn of the dichotomy goes to the half where the place is. *)
LEMMA HalfPlace ==
  ASSUME NEW s, Sound(s), Spread(s), NEW v \in Int,
         NEW h \in 0 .. NumRanges(s), NEW l \in 0 .. h, l # h, NEW f,
         NEW try \in l .. h - 1,
         \/ v < s[Low(try)] /\ Places(s, l, try, v, f)
         \/ ~(v < s[Low(try)]) /\ v > s[High(try)] /\ Places(s, try + 1, h, v, f)
         \/ ~(v < s[Low(try)]) /\ ~(v > s[High(try)]) /\ f = Found(try)
  PROVE  Places(s, l, h, v, f)
<1>1. NumRanges(s) \in Nat /\ h \in Nat /\ l \in Nat /\ l <= h /\ h <= NumRanges(s)
  BY NumNat DEF Sound
<1>2. \A i \in l .. h - 1 : i \in 0 .. NumRanges(s) - 1
  BY <1>1
<1>3. \A i \in l .. h - 1 : s[Low(i)] \in Int /\ s[High(i)] \in Int /\ s[Low(i)] <= s[High(i)]
  BY <1>2, EdgesInt
<1>4. \A i \in l .. try - 1 : i \in l .. h - 1 /\ s[High(i)] + 1 < s[Low(try)]
  <2>1. \A i \in l .. try - 1 : i \in l .. h - 1 /\ i < try
    BY <1>1
  <2> QED BY <2>1, <1>2 DEF Spread
<1>5. CASE v < s[Low(try)] /\ Places(s, l, try, v, f)
  <2>1. f.at \in l .. h /\ (f.in => f.at < h)
    BY <1>1, <1>5 DEF Places
  <2>2. ~f.in => v < s[Low(f.at)]
    BY <1>1, <1>5 DEF Places
  <2> QED BY <1>5, <2>1, <2>2 DEF Places
<1>6. CASE ~(v < s[Low(try)]) /\ v > s[High(try)] /\ Places(s, try + 1, h, v, f)
  <2>1. f.at \in l .. h
    BY <1>1, <1>6 DEF Places
  <2>2. ASSUME NEW i \in l .. f.at - 1 PROVE s[High(i)] < v
    <3>1. i \in l .. try - 1 \/ i = try \/ i \in try + 1 .. f.at - 1
      BY <1>1, <2>1
    <3>2. CASE i \in l .. try - 1
      BY <3>2, <1>3, <1>4, <1>6
    <3>3. CASE i = try
      BY <3>3, <1>3, <1>6
    <3>4. CASE i \in try + 1 .. f.at - 1
      BY <3>4, <1>6 DEF Places
    <3> QED BY <3>1, <3>2, <3>3, <3>4
  <2> QED BY <1>6, <2>1, <2>2 DEF Places
<1>7. CASE ~(v < s[Low(try)]) /\ ~(v > s[High(try)]) /\ f = Found(try)
  <2>1. f.at = try /\ f.in = TRUE /\ f = [at |-> f.at, in |-> f.in]
    BY <1>7 DEF Found
  <2>2. ASSUME NEW i \in l .. try - 1 PROVE s[High(i)] < v
    <3>1. /\ i \in l .. h - 1 /\ s[High(i)] + 1 < s[Low(try)]
          /\ s[High(i)] \in Int /\ s[Low(try)] \in Int
      BY <1>3, <1>4
    <3> QED BY <3>1, <1>7
  <2>3. s[Low(try)] <= v /\ v <= s[High(try)]
    BY <1>3, <1>7
  <2>4. try \in l .. h /\ try < h
    BY <1>1
  <2> QED BY <2>1, <2>2, <2>3, <2>4 DEF Places
<1> QED BY <1>5, <1>6, <1>7

(* The dichotomy is "equivalent to following, but faster": to the linear
   search (ranges.c:367-373). *)
LEMMA DichotomyIs ==
  ASSUME NEW s, Sound(s), Spread(s), NEW v \in Int
  PROVE  SearchDichotomy(s, v) = SearchLinearSort(s, 0, v)
<1> DEFINE n == NumRanges(s)
           Half(low, high) == low + (high - low) \div 2
           F(f) == [p \in Parts(NumRanges(s)) |->
                      LET low == p[1]
                          high == p[2]
                          try == low + (high - low) \div 2
                      IN  IF low = high THEN Before(high)
                          ELSE IF v < s[Low(try)] THEN f[<<low, try>>]
                          ELSE IF v > s[High(try)] THEN f[<<try + 1, high>>]
                          ELSE Found(try)]
           Between == CHOOSE f : f = F(f)
           G == [p \in Parts(NumRanges(s)) |-> CHOOSE f : Places(s, p[1], p[2], v, f)]
           Turn(f, low, high) ==
             IF low = high THEN f[<<low, high>>] = Before(high)
             ELSE \/ v < s[Low(Half(low, high))] /\ f[<<low, high>>] = f[<<low, Half(low, high)>>]
                  \/ /\ ~(v < s[Low(Half(low, high))]) /\ v > s[High(Half(low, high))]
                     /\ f[<<low, high>>] = f[<<Half(low, high) + 1, high>>]
                  \/ /\ ~(v < s[Low(Half(low, high))]) /\ ~(v > s[High(Half(low, high))])
                     /\ f[<<low, high>>] = Found(Half(low, high))
<1>1. n \in Nat
  BY NumNat DEF Sound
<1>2. \A low, high \in Nat : low <= high /\ high <= n => <<low, high>> \in Parts(n)
  BY <1>1 DEF Parts
<1>3. ASSUME NEW low \in Nat, NEW high \in Nat, low <= high, high <= n
      PROVE  Places(s, low, high, v, G[<<low, high>>])
  <2>1. \E f : Places(s, low, high, v, f)
    <3>1. high \in 0 .. NumRanges(s) /\ low \in 0 .. high
      BY <1>1, <1>3
    <3> QED BY <3>1, SomePlace
  <2>2. <<low, high>> \in Parts(NumRanges(s))
    BY <1>2, <1>3
  <2>3. G[<<low, high>>] = CHOOSE f : Places(s, low, high, v, f)
    BY <2>2
  <2> QED BY <2>1, <2>3
<1>4. ASSUME NEW low \in Nat, NEW high \in Nat, low < high, high <= n
      PROVE  /\ Half(low, high) \in low .. high - 1
             /\ Half(low, high) \in Nat /\ Half(low, high) + 1 \in Nat
             /\ low <= Half(low, high) /\ Half(low, high) <= n
             /\ Half(low, high) + 1 <= high
  BY <1>1, <1>4
<1> HIDE DEF G, Half
<1>13. ASSUME NEW low \in Nat, NEW high \in Nat, low < high, high <= n
       PROVE  ~(v < s[Low(Half(low, high))] /\ v > s[High(Half(low, high))])
  <2>1. Half(low, high) \in 0 .. NumRanges(s) - 1
    BY <1>1, <1>4, <1>13
  <2> DEFINE try == Half(low, high)
  <2> HIDE DEF try
  <2>2. s[Low(try)] \in Int /\ s[High(try)] \in Int /\ s[Low(try)] <= s[High(try)]
    BY <2>1, EdgesInt DEF try
  <2>3. ~(v < s[Low(try)] /\ v > s[High(try)])
    BY <2>2
  <2> QED BY <2>3 DEF try
<1>5. ASSUME NEW low \in Nat, NEW high \in Nat, low <= high, high <= n
      PROVE  Turn(G, low, high)
  <2>1. high \in 0 .. NumRanges(s) /\ low \in 0 .. high /\ low \in Nat
    BY <1>1, <1>5
  <2>2. CASE low = high
    <3>1. Places(s, low, high, v, Before(high))
      BY <2>1, <2>2 DEF Places, Before
    <3>2. G[<<low, high>>] = Before(high)
      BY <3>1, <2>1, <1>3, <1>5, OnePlace
    <3> QED BY <3>2, <2>2
  <2>3. CASE low # high
    <3> DEFINE try == Half(low, high)
    <3>1. /\ try \in low .. high - 1 /\ try \in Nat /\ try + 1 \in Nat /\ low <= try
          /\ try <= n /\ try + 1 <= high
      BY <1>4, <1>5, <2>3
    <3> HIDE DEF try
    <3>2. Places(s, low, try, v, G[<<low, try>>]) /\ Places(s, try + 1, high, v, G[<<try + 1, high>>])
      BY <1>3, <1>5, <3>1
    <3>3. /\ v < s[Low(try)] => Places(s, low, high, v, G[<<low, try>>])
          /\ ~(v < s[Low(try)]) /\ v > s[High(try)] => Places(s, low, high, v, G[<<try + 1, high>>])
          /\ ~(v < s[Low(try)]) /\ ~(v > s[High(try)]) => Places(s, low, high, v, Found(try))
      BY <2>1, <2>3, <3>1, <3>2, HalfPlace
    <3>4. Places(s, low, high, v, G[<<low, high>>])
      BY <1>3, <1>5
    <3>5. /\ v < s[Low(try)] => G[<<low, high>>] = G[<<low, try>>]
          /\ ~(v < s[Low(try)]) /\ v > s[High(try)] => G[<<low, high>>] = G[<<try + 1, high>>]
          /\ ~(v < s[Low(try)]) /\ ~(v > s[High(try)]) => G[<<low, high>>] = Found(try)
      BY <2>1, <3>3, <3>4, OnePlace
    <3> QED BY <3>5, <2>3 DEF try
  <2> QED BY <2>2, <2>3
<1>6. G = F(G)
  <2>1. G = [p \in Parts(NumRanges(s)) |-> G[p]]
    BY DEF G
  <2>2. ASSUME NEW p \in Parts(NumRanges(s))
        PROVE  G[p] = LET low == p[1]
                          high == p[2]
                          try == low + (high - low) \div 2
                      IN  IF low = high THEN Before(high)
                          ELSE IF v < s[Low(try)] THEN G[<<low, try>>]
                          ELSE IF v > s[High(try)] THEN G[<<try + 1, high>>]
                          ELSE Found(try)
    <3>1. /\ p = <<p[1], p[2]>> /\ p[1] \in Nat /\ p[2] \in Nat /\ p[1] <= p[2] /\ p[2] <= n
      BY <1>1 DEF Parts
    <3>2. Turn(G, p[1], p[2])
      BY <1>5, <3>1
    <3>3. p[1] # p[2] => ~(v < s[Low(Half(p[1], p[2]))] /\ v > s[High(Half(p[1], p[2]))])
      <4>1. p[1] # p[2] => p[1] < p[2]
        BY <3>1
      <4> QED BY <4>1, <3>1, <1>13
    <3>4. G[p] = IF p[1] = p[2] THEN Before(p[2])
                 ELSE IF v < s[Low(Half(p[1], p[2]))] THEN G[<<p[1], Half(p[1], p[2])>>]
                 ELSE IF v > s[High(Half(p[1], p[2]))] THEN G[<<Half(p[1], p[2]) + 1, p[2]>>]
                 ELSE Found(Half(p[1], p[2]))
      BY <3>1, <3>2, <3>3
    <3> QED BY <3>4 DEF Half
  <2> QED BY <2>1, <2>2
<1>7. Between = F(Between)
  BY <1>6
<1> HIDE DEF Between
<1>8. ASSUME NEW low \in Nat, NEW high \in Nat, low <= high, high <= n
      PROVE  Turn(Between, low, high)
  <2>1. <<low, high>> \in Parts(NumRanges(s))
    BY <1>2, <1>8
  <2>2. Between[<<low, high>>] =
          IF low = high THEN Before(high)
          ELSE IF v < s[Low(Half(low, high))] THEN Between[<<low, Half(low, high)>>]
          ELSE IF v > s[High(Half(low, high))] THEN Between[<<Half(low, high) + 1, high>>]
          ELSE Found(Half(low, high))
    BY <1>7, <2>1 DEF Half
  <2>3. low # high => ~(v < s[Low(Half(low, high))] /\ v > s[High(Half(low, high))])
    BY <1>13, <1>8
  <2> QED BY <2>2, <2>3
<1>9. ASSUME NEW low \in Nat, NEW high \in Nat, low <= high, high <= n,
             Between[<<low, high>>] # G[<<low, high>>]
      PROVE  FALSE
  <2> DEFINE T == {k \in Nat : \E l, h \in Nat : /\ l <= h /\ h <= n /\ k = h - l
                                                 /\ Between[<<l, h>>] # G[<<l, h>>]}
  <2>1. PICK k \in T : \A j \in T : k <= j
    <3>1. high - low \in T
      <4>1. high - low \in Nat
        BY <1>9
      <4> QED BY <4>1, <1>9
    <3>2. T \subseteq Nat /\ T # {}
      BY <3>1
    <3> HIDE DEF T
    <3> QED BY <3>2, LeastOf
  <2>2. PICK l \in Nat, h \in Nat : /\ l <= h /\ h <= n /\ k = h - l
                                    /\ Between[<<l, h>>] # G[<<l, h>>]
    BY <2>1
  <2>3. ASSUME NEW x \in Nat, NEW y \in Nat, x <= y, y <= n, y - x < h - l
        PROVE  Between[<<x, y>>] = G[<<x, y>>]
    <3>1. y - x \in Nat /\ ~(k <= y - x)
      BY <2>2, <2>3
    <3>2. y - x \notin T
      <4> HIDE DEF T
      <4> QED BY <2>1, <3>1
    <3> QED BY <3>1, <3>2, <2>3
  <2>4. Turn(Between, l, h) /\ Turn(G, l, h)
    BY <1>5, <1>8, <2>2
  <2>5. CASE l = h
    BY <2>2, <2>4, <2>5
  <2>6. CASE l # h
    <3> DEFINE try == Half(l, h)
    <3>1. /\ try \in l .. h - 1 /\ try \in Nat /\ try + 1 \in Nat /\ l <= try
          /\ try <= n /\ try + 1 <= h
      <4>1. l < h
        BY <2>2, <2>6
      <4> QED BY <4>1, <1>4, <2>2
    <3>2. /\ Between[<<l, try>>] = G[<<l, try>>]
          /\ Between[<<try + 1, h>>] = G[<<try + 1, h>>]
      <4> HIDE DEF try
      <4>1. try - l < h - l /\ h - (try + 1) < h - l
        BY <3>1, <2>2
      <4> QED BY <4>1, <3>1, <2>2, <2>3
    <3> QED BY <2>2, <2>4, <2>6, <3>2
  <2> QED BY <2>5, <2>6
<1>10. SearchDichotomy(s, v) = Between[<<0, n>>]
  BY DEF SearchDichotomy, Between
<1>11. Places(s, 0, n, v, SearchDichotomy(s, v))
  BY <1>1, <1>3, <1>9, <1>10
<1>12. Places(s, 0, n, v, SearchLinearSort(s, 0, v)) /\ n \in 0 .. NumRanges(s)
  BY <1>1, LinearIs
<1> QED BY <1>11, <1>12, OnePlace

-----------------------------------------------------------------------------
(* The edits, each as ranges put in the place of others *)

(* One after the other: an operator that the provers leave alone. *)
Joined(u, w) == u \o w

LEMMA JoinedSeq ==
  ASSUME NEW u \in Seq(Int), NEW w \in Seq(Int)
  PROVE  Joined(u, w) \in Seq(Int)
BY ConcatProperties DEF Joined

LEMMA JoinedThree ==
  ASSUME NEW u \in Seq(Int), NEW v \in Seq(Int), NEW w \in Seq(Int)
  PROVE  Joined(Joined(u, v), w) = Joined(u, Joined(v, w))
BY ConcatAssociative DEF Joined

LEMMA SpliceJoined ==
  ASSUME NEW s, NEW d, NEW mid, NEW e
  PROVE  Splice(s, d, mid, e) = Joined(Joined(SubSeq(s, 1, d - 1), mid), SubSeq(s, e, Len(s)))
BY DEF Splice, Joined

(* A write that keeps the edge before it writes that edge again. *)
LEMMA SpliceLeft ==
  ASSUME NEW s \in Seq(Int), NEW mid \in Seq(Int), NEW d \in 1 .. Len(s), NEW e \in Nat
  PROVE  Splice(s, d + 1, mid, e) = Splice(s, d, <<s[d]>> \o mid, e)
<1>1. PICK u, w, x : u = SubSeq(s, 1, d - 1) /\ w = SubSeq(s, e, Len(s)) /\ x = <<s[d]>>
  BY Zenon
<1>2. /\ 1 \in 1 .. Len(s) /\ d - 1 \in 1 - 1 .. Len(s) /\ (d + 1) - 1 = d
      /\ 1 \in 1 .. Len(s) + 1 /\ s[d] \in Int
  OBVIOUS
<1>3. SubSeq(s, 1, d) = Joined(u, x)
  <2>1. SubSeq(s, 1, d) = SubSeq(s, 1, d - 1) \o <<s[d]>>
    BY <1>2, SubSeqRecursiveSecond
  <2> QED BY <1>1, <2>1, Zenon DEF Joined
<1>4. SubSeq(s, 1, d - 1) \in Seq(Int) /\ <<s[d]>> \in Seq(Int)
  BY <1>2, PartIs
<1>5. u \in Seq(Int) /\ x \in Seq(Int)
  BY <1>1, <1>4, Zenon
<1>6. Splice(s, d + 1, mid, e) = Joined(Joined(Joined(u, x), mid), w)
  <2>1. SubSeq(s, 1, (d + 1) - 1) = Joined(u, x)
    BY <1>2, <1>3, Zenon
  <2> QED BY <1>1, <2>1, SpliceJoined, Zenon
<1>7. Splice(s, d, <<s[d]>> \o mid, e) = Joined(Joined(u, Joined(x, mid)), w)
  <2>1. <<s[d]>> \o mid = Joined(x, mid)
    BY <1>1, Zenon DEF Joined
  <2> QED BY <1>1, <2>1, SpliceJoined, Zenon
<1>8. Joined(Joined(u, x), mid) = Joined(u, Joined(x, mid))
  BY <1>5, JoinedThree
<1> QED BY <1>6, <1>7, <1>8, Zenon

(* One that keeps the edge after it too. *)
LEMMA SpliceRight ==
  ASSUME NEW s \in Seq(Int), NEW mid \in Seq(Int), NEW d \in 1 .. Len(s) + 1, NEW e \in 1 .. Len(s)
  PROVE  Splice(s, d, mid, e) = Splice(s, d, mid \o <<s[e]>>, e + 1)
<1>1. PICK u, w, x : u = SubSeq(s, 1, d - 1) /\ w = SubSeq(s, e + 1, Len(s)) /\ x = <<s[e]>>
  BY Zenon
<1>2. /\ Len(s) \in e .. Len(s) /\ e + 1 \in 1 .. Len(s) + 1 /\ Len(s) \in (e + 1) - 1 .. Len(s)
      /\ 1 \in 1 .. Len(s) + 1 /\ d - 1 \in 1 - 1 .. Len(s) /\ s[e] \in Int
  OBVIOUS
<1>3. SubSeq(s, e, Len(s)) = Joined(x, w)
  <2>1. SubSeq(s, e, Len(s)) = <<s[e]>> \o SubSeq(s, e + 1, Len(s))
    BY <1>2, SubSeqRecursiveFirst
  <2> QED BY <1>1, <2>1, Zenon DEF Joined
<1>4. SubSeq(s, 1, d - 1) \in Seq(Int) /\ SubSeq(s, e + 1, Len(s)) \in Seq(Int) /\ <<s[e]>> \in Seq(Int)
  BY <1>2, PartIs
<1>5. u \in Seq(Int) /\ w \in Seq(Int) /\ x \in Seq(Int)
  BY <1>1, <1>4, Zenon
<1>6. Splice(s, d, mid, e) = Joined(Joined(u, mid), Joined(x, w))
  BY <1>1, <1>3, SpliceJoined, Zenon
<1>7. Splice(s, d, mid \o <<s[e]>>, e + 1) = Joined(Joined(u, Joined(mid, x)), w)
  <2>1. mid \o <<s[e]>> = Joined(mid, x)
    BY <1>1, Zenon DEF Joined
  <2> QED BY <1>1, <2>1, SpliceJoined, Zenon
<1>8. Joined(u, mid) \in Seq(Int)
  BY <1>5, JoinedSeq
<1>9. Joined(Joined(u, mid), Joined(x, w)) = Joined(Joined(Joined(u, mid), x), w)
  BY <1>5, <1>8, JoinedThree
<1>10. Joined(Joined(u, mid), x) = Joined(u, Joined(mid, x))
  BY <1>5, JoinedThree
<1> QED BY <1>6, <1>7, <1>9, <1>10, Zenon

LEMMA NoneIs == Sound(<<>>) /\ NumRanges(<<>>) = 0 /\ Spread(<<>>)
<1>1. <<>> \in Seq(Int) /\ Len(<<>>) = 2 * 0 /\ 0 \in Nat
  OBVIOUS
<1>2. NumRanges(<<>>) = 0
  BY <1>1, NumIs
<1> QED BY <1>1, <1>2 DEF Sound, Each, Spread

LEMMA PairIs ==
  ASSUME NEW l \in Int, NEW h \in Int, l <= h
  PROVE  LET m == <<l, h>>
         IN  /\ Sound(m) /\ NumRanges(m) = 1 /\ Spread(m)
             /\ m[Low(0)] = l /\ m[High(0)] = h
<1> DEFINE m == <<l, h>>
<1>1. m \in Seq(Int) /\ Len(m) = 2 * 1 /\ m[1] = l /\ m[2] = h
  OBVIOUS
<1> HIDE DEF m
<1>2. NumRanges(m) = 1
  BY <1>1, NumIs
<1>3. m[Low(0)] = l /\ m[High(0)] = h
  BY <1>1 DEF Low, High
<1>4. Each(m) /\ Spread(m)
  <2>1. \A i \in 0 .. 1 - 1 : i = 0
    OBVIOUS
  <2> QED BY <2>1, <1>2, <1>3 DEF Each, Spread
<1> QED BY <1>1, <1>2, <1>3, <1>4 DEF Sound, m

LEMMA TwoPairsAre ==
  ASSUME NEW l1 \in Int, NEW h1 \in Int, NEW l2 \in Int, NEW h2 \in Int,
         l1 <= h1, h1 + 1 < l2, l2 <= h2
  PROVE  LET m == <<l1, h1, l2, h2>>
         IN  /\ Sound(m) /\ NumRanges(m) = 2 /\ Spread(m)
             /\ m[Low(0)] = l1 /\ m[High(0)] = h1 /\ m[Low(1)] = l2 /\ m[High(1)] = h2
<1> DEFINE m == <<l1, h1, l2, h2>>
<1>1. m \in Seq(Int) /\ Len(m) = 2 * 2 /\ m[1] = l1 /\ m[2] = h1 /\ m[3] = l2 /\ m[4] = h2
  OBVIOUS
<1> HIDE DEF m
<1>2. NumRanges(m) = 2
  BY <1>1, NumIs
<1>3. m[Low(0)] = l1 /\ m[High(0)] = h1 /\ m[Low(1)] = l2 /\ m[High(1)] = h2
  BY <1>1 DEF Low, High
<1>4. \A i \in 0 .. 2 - 1 : i = 0 \/ i = 1
  OBVIOUS
<1>5. Each(m)
  BY <1>2, <1>3, <1>4 DEF Each
<1>6. Spread(m)
  <2>1. \A i, j \in 0 .. 2 - 1 : i < j => i = 0 /\ j = 1
    OBVIOUS
  <2> QED BY <2>1, <1>2, <1>3 DEF Spread
<1> QED BY <1>1, <1>2, <1>3, <1>5, <1>6 DEF Sound, m

(* Edges one after the other. *)
LEMMA TwoEdges ==
  ASSUME NEW x \in Int, NEW y \in Int
  PROVE  Joined(<<x>>, <<y>>) = <<x, y>>
<1> DEFINE u == <<x>>
           v == <<y>>
           w == <<x, y>>
           t == u \o v
<1>1. /\ u \in Seq(Int) /\ Len(u) = 1 /\ u[1] = x
      /\ v \in Seq(Int) /\ Len(v) = 1 /\ v[1] = y
      /\ w \in Seq(Int) /\ Len(w) = 2 /\ w[1] = x /\ w[2] = y
  OBVIOUS
<1> HIDE DEF u, v, w
<1>2. /\ t \in Seq(Int) /\ Len(t) = Len(u) + Len(v)
      /\ \A k \in 1 .. Len(u) : t[k] = u[k]
      /\ \A k \in 1 .. Len(v) : t[Len(u) + k] = v[k]
  BY <1>1, JoinIs
<1> HIDE DEF t
<1>3. Len(t) = 2 /\ t[1] = x /\ t[1 + 1] = y
  BY <1>1, <1>2
<1>4. \A k \in 1 .. Len(t) : t[k] = w[k]
  <2>1. \A k \in 1 .. 2 : k = 1 \/ k = 1 + 1
    OBVIOUS
  <2> QED BY <1>1, <1>3, <2>1
<1>5. t = w
  BY <1>1, <1>2, <1>3, <1>4, SeqEqual
<1> QED BY <1>5 DEF t, u, v, w, Joined

LEMMA ThreeEdges ==
  ASSUME NEW x \in Int, NEW y \in Int, NEW z \in Int
  PROVE  Joined(<<x, y>>, <<z>>) = <<x, y, z>>
<1> DEFINE u == <<x, y>>
           v == <<z>>
           w == <<x, y, z>>
           t == u \o v
<1>1. /\ u \in Seq(Int) /\ Len(u) = 2 /\ u[1] = x /\ u[2] = y
      /\ v \in Seq(Int) /\ Len(v) = 1 /\ v[1] = z
      /\ w \in Seq(Int) /\ Len(w) = 3 /\ w[1] = x /\ w[2] = y /\ w[3] = z
  OBVIOUS
<1> HIDE DEF u, v, w
<1>2. /\ t \in Seq(Int) /\ Len(t) = Len(u) + Len(v)
      /\ \A k \in 1 .. Len(u) : t[k] = u[k]
      /\ \A k \in 1 .. Len(v) : t[Len(u) + k] = v[k]
  BY <1>1, JoinIs
<1> HIDE DEF t
<1>3. Len(t) = 3 /\ t[1] = x /\ t[2] = y /\ t[2 + 1] = z
  BY <1>1, <1>2
<1>4. \A k \in 1 .. Len(t) : t[k] = w[k]
  <2>1. \A k \in 1 .. 3 : k = 1 \/ k = 2 \/ k = 2 + 1
    OBVIOUS
  <2> QED BY <1>1, <1>3, <2>1
<1>5. t = w
  BY <1>1, <1>2, <1>3, <1>4, SeqEqual
<1> QED BY <1>5 DEF t, u, v, w, Joined

LEMMA FourEdges ==
  ASSUME NEW x \in Int, NEW y \in Int, NEW z \in Int, NEW a \in Int
  PROVE  Joined(<<x>>, <<y, z, a>>) = <<x, y, z, a>>
<1> DEFINE u == <<x>>
           v == <<y, z, a>>
           w == <<x, y, z, a>>
           t == u \o v
<1>1. /\ u \in Seq(Int) /\ Len(u) = 1 /\ u[1] = x
      /\ v \in Seq(Int) /\ Len(v) = 3 /\ v[1] = y /\ v[2] = z /\ v[3] = a
      /\ w \in Seq(Int) /\ Len(w) = 4 /\ w[1] = x /\ w[2] = y /\ w[3] = z /\ w[4] = a
  OBVIOUS
<1> HIDE DEF u, v, w
<1>2. /\ t \in Seq(Int) /\ Len(t) = Len(u) + Len(v)
      /\ \A k \in 1 .. Len(u) : t[k] = u[k]
      /\ \A k \in 1 .. Len(v) : t[Len(u) + k] = v[k]
  BY <1>1, JoinIs
<1> HIDE DEF t
<1>3. Len(t) = 4 /\ t[1] = x /\ t[1 + 1] = y /\ t[1 + 2] = z /\ t[1 + 3] = a
  BY <1>1, <1>2
<1>4. \A k \in 1 .. Len(t) : t[k] = w[k]
  <2>1. \A k \in 1 .. 4 : k = 1 \/ k = 1 + 1 \/ k = 1 + 2 \/ k = 1 + 3
    OBVIOUS
  <2> QED BY <1>1, <1>3, <2>1
<1>5. t = w
  BY <1>1, <1>2, <1>3, <1>4, SeqEqual
<1> QED BY <1>5 DEF t, u, v, w, Joined

(* What may be deleted: from lo, in or before the range f.at, to hi, in or
   before the range g.at. *)
Deletable(s, lo, f, hi, g) ==
  /\ lo \in Int /\ hi \in Int /\ lo <= hi /\ f.in \in BOOLEAN /\ g.in \in BOOLEAN
  /\ f.at \in 0 .. NumRanges(s) /\ g.at \in f.at .. NumRanges(s)
  /\ f.in => f.at < NumRanges(s) /\ In(s, f.at, lo)
  /\ g.in => g.at < NumRanges(s) /\ In(s, g.at, hi)
  /\ f.in /\ g.at = f.at => g.in

(* What is left of the two ranges, and the first range after them. *)
Infin(s, lo, f) == f.in /\ s[Low(f.at)] # lo
Supin(s, hi, g) == g.in /\ s[High(g.at)] # hi
Ends(s, lo, f, hi, g) ==
  IF Infin(s, lo, f) /\ Supin(s, hi, g)
  THEN <<s[Low(f.at)], lo - 1, hi + 1, s[High(g.at)]>>
  ELSE IF Infin(s, lo, f) THEN <<s[Low(f.at)], lo - 1>>
  ELSE IF Supin(s, hi, g) THEN <<hi + 1, s[High(g.at)]>>
  ELSE <<>>
Past(g) == IF g.in THEN g.at + 1 ELSE g.at

LEMMA DeletableIs ==
  ASSUME NEW s, Sound(s), NEW lo, NEW hi, NEW f, NEW g, Deletable(s, lo, f, hi, g)
  PROVE  /\ NumRanges(s) \in Nat /\ Len(s) = 2 * NumRanges(s) /\ s \in Seq(Int)
         /\ lo \in Int /\ hi \in Int /\ lo <= hi
         /\ f.at \in Nat /\ g.at \in Nat /\ f.at <= g.at /\ g.at <= NumRanges(s)
         /\ f.at \in 0 .. NumRanges(s) /\ Past(g) \in f.at .. NumRanges(s) /\ Past(g) \in Nat
         /\ f.in => /\ f.at < NumRanges(s) /\ f.at < Past(g)
                    /\ s[Low(f.at)] \in Int /\ s[High(f.at)] \in Int
                    /\ s[Low(f.at)] <= lo /\ lo <= s[High(f.at)]
         /\ g.in => /\ g.at < NumRanges(s) /\ s[Low(g.at)] \in Int /\ s[High(g.at)] \in Int
                    /\ s[Low(g.at)] <= hi /\ hi <= s[High(g.at)]
<1>1. /\ NumRanges(s) \in Nat /\ Len(s) = 2 * NumRanges(s) /\ s \in Seq(Int)
      /\ lo \in Int /\ hi \in Int /\ lo <= hi
      /\ f.at \in Nat /\ g.at \in Nat /\ f.at <= g.at /\ g.at <= NumRanges(s)
  BY NumNat DEF Sound, Deletable
<1>2. f.at \in 0 .. NumRanges(s) /\ Past(g) \in f.at .. NumRanges(s) /\ Past(g) \in Nat
  BY <1>1 DEF Past, Deletable
<1>3. ASSUME f.in
      PROVE  /\ f.at < NumRanges(s) /\ f.at < Past(g)
             /\ s[Low(f.at)] \in Int /\ s[High(f.at)] \in Int
             /\ s[Low(f.at)] <= lo /\ lo <= s[High(f.at)]
  <2>1. f.at < NumRanges(s) /\ f.at < Past(g) /\ f.at \in 0 .. NumRanges(s) - 1
    BY <1>1, <1>3 DEF Deletable, Past
  <2> QED BY <1>3, <2>1, EdgesInt DEF Deletable, In
<1>4. ASSUME g.in
      PROVE  /\ g.at < NumRanges(s) /\ s[Low(g.at)] \in Int /\ s[High(g.at)] \in Int
             /\ s[Low(g.at)] <= hi /\ hi <= s[High(g.at)]
  <2>1. g.at < NumRanges(s) /\ g.at \in 0 .. NumRanges(s) - 1
    BY <1>1, <1>4 DEF Deletable
  <2> QED BY <1>4, <2>1, EdgesInt DEF Deletable, In
<1> QED BY <1>1, <1>2, <1>3, <1>4

(* An edge that is kept may be written again. *)
LEMMA SpliceLow ==
  ASSUME NEW s, Sound(s), NEW mid \in Seq(Int), NEW a \in 0 .. NumRanges(s) - 1,
         NEW d, d = Low(a) + 1, NEW e \in Nat
  PROVE  Splice(s, d, mid, e) = Splice(s, Low(a), Joined(<<s[Low(a)]>>, mid), e)
<1>1. NumRanges(s) \in Nat /\ Len(s) = 2 * NumRanges(s) /\ s \in Seq(Int)
  BY NumNat DEF Sound
<1>2. Low(a) \in 1 .. Len(s)
  BY <1>1 DEF Low
<1> QED BY <1>1, <1>2, SpliceLeft DEF Joined

LEMMA SpliceHigh ==
  ASSUME NEW s, Sound(s), NEW mid \in Seq(Int), NEW b \in 0 .. NumRanges(s) - 1,
         NEW d \in 1 .. Len(s) + 1, NEW e, e = Low(b) + 1, NEW c, c = b + 1
  PROVE  Splice(s, d, mid, e) = Splice(s, d, Joined(mid, <<s[High(b)]>>), Low(c))
<1>1. NumRanges(s) \in Nat /\ Len(s) = 2 * NumRanges(s) /\ s \in Seq(Int)
  BY NumNat DEF Sound
<1>2. e \in 1 .. Len(s) /\ e = High(b) /\ Low(c) = e + 1
  BY <1>1 DEF Low, High
<1>3. Splice(s, d, mid, e) = Splice(s, d, Joined(mid, <<s[e]>>), e + 1)
  BY <1>1, <1>2, SpliceRight DEF Joined
<1> QED BY <1>2, <1>3

(* The same of the writes of one edge or two, or of none. *)
LEMMA WriteAfter ==
  ASSUME NEW s, Sound(s), NEW a \in 0 .. NumRanges(s) - 1, NEW x \in Int, NEW e \in Nat,
         NEW d, d = Low(a) + 1, NEW mid, mid = <<x>>, NEW to, to = <<s[Low(a)], x>>
  PROVE  Splice(s, d, mid, e) = Splice(s, Low(a), to, e)
<1>1. s[Low(a)] \in Int /\ <<x>> \in Seq(Int)
  BY EdgesInt
<1>2. mid \in Seq(Int)
  BY <1>1, Zenon
<1>3. Splice(s, d, mid, e) = Splice(s, Low(a), Joined(<<s[Low(a)]>>, mid), e)
  BY <1>2, SpliceLow
<1>4. Joined(<<s[Low(a)]>>, <<x>>) = <<s[Low(a)], x>>
  BY <1>1, TwoEdges
<1> QED BY <1>3, <1>4, Zenon

LEMMA WriteBefore ==
  ASSUME NEW s, Sound(s), NEW b \in 0 .. NumRanges(s) - 1, NEW x \in Int,
         NEW d \in 1 .. Len(s) + 1, NEW e, e = Low(b) + 1, NEW c, c = b + 1,
         NEW mid, mid = <<x>>, NEW to, to = <<x, s[High(b)]>>
  PROVE  Splice(s, d, mid, e) = Splice(s, d, to, Low(c))
<1>1. s[High(b)] \in Int /\ <<x>> \in Seq(Int)
  BY EdgesInt
<1>2. mid \in Seq(Int)
  BY <1>1, Zenon
<1>3. Splice(s, d, mid, e) = Splice(s, d, Joined(mid, <<s[High(b)]>>), Low(c))
  <2>1. /\ Sound(s) /\ b \in 0 .. NumRanges(s) - 1 /\ d \in 1 .. Len(s) + 1
        /\ e = Low(b) + 1 /\ c = b + 1
    OBVIOUS
  <2> QED BY ONLY <1>2, <2>1, SpliceHigh
<1>4. Joined(<<x>>, <<s[High(b)]>>) = <<x, s[High(b)]>>
  BY <1>1, TwoEdges
<1> QED BY <1>3, <1>4, Zenon

LEMMA WriteBetween ==
  ASSUME NEW s, Sound(s), NEW a \in 0 .. NumRanges(s) - 1, NEW b \in 0 .. NumRanges(s) - 1,
         NEW x \in Int, NEW y \in Int,
         NEW d, d = Low(a) + 1, NEW e, e = Low(b) + 1, NEW c, c = b + 1,
         NEW mid, mid = <<x, y>>, NEW to, to = <<s[Low(a)], x, y, s[High(b)]>>
  PROVE  Splice(s, d, mid, e) = Splice(s, Low(a), to, Low(c))
<1>1. /\ s[Low(a)] \in Int /\ s[High(b)] \in Int /\ <<x, y>> \in Seq(Int)
      /\ <<x, y, s[High(b)]>> \in Seq(Int)
  BY EdgesInt
<1>2. PICK half : half = <<x, y, s[High(b)]>>
  BY Zenon
<1>3. mid \in Seq(Int) /\ half \in Seq(Int)
  BY <1>1, <1>2, Zenon
<1>4. d \in 1 .. Len(s) + 1 /\ Low(c) \in Nat
  BY NumNat DEF Sound, Low
<1>5. Splice(s, d, mid, e) = Splice(s, d, Joined(mid, <<s[High(b)]>>), Low(c))
  <2>1. Sound(s) /\ b \in 0 .. NumRanges(s) - 1 /\ e = Low(b) + 1 /\ c = b + 1
    OBVIOUS
  <2> QED BY ONLY <1>3, <1>4, <2>1, SpliceHigh
<1>6. Joined(<<x, y>>, <<s[High(b)]>>) = <<x, y, s[High(b)]>>
  BY <1>1, ThreeEdges
<1>7. Splice(s, d, mid, e) = Splice(s, d, half, Low(c))
  BY <1>2, <1>5, <1>6, Zenon
<1>8. Splice(s, d, half, Low(c)) = Splice(s, Low(a), Joined(<<s[Low(a)]>>, half), Low(c))
  BY <1>3, <1>4, SpliceLow
<1>9. Joined(<<s[Low(a)]>>, <<x, y, s[High(b)]>>) = <<s[Low(a)], x, y, s[High(b)]>>
  BY <1>1, FourEdges
<1> QED BY <1>2, <1>7, <1>8, <1>9, Zenon

LEMMA WriteNone ==
  ASSUME NEW s, Sound(s), NEW a \in 0 .. NumRanges(s) - 1, NEW b \in 0 .. NumRanges(s) - 1,
         NEW d, d = Low(a) + 1, NEW e, e = Low(b) + 1, NEW c, c = b + 1,
         NEW to, to = <<s[Low(a)], s[High(b)]>>
  PROVE  Splice(s, d, <<>>, e) = Splice(s, Low(a), to, Low(c))
<1>1. /\ s[Low(a)] \in Int /\ s[High(b)] \in Int /\ <<s[High(b)]>> \in Seq(Int) /\ <<>> \in Seq(Int)
  BY EdgesInt
<1>2. PICK half, none : half = <<s[High(b)]>> /\ none = <<>>
  BY Zenon
<1>3. half \in Seq(Int) /\ none \in Seq(Int)
  BY <1>1, <1>2, Zenon
<1>4. d \in 1 .. Len(s) + 1 /\ Low(c) \in Nat
  BY NumNat DEF Sound, Low
<1>5. Splice(s, d, none, e) = Splice(s, d, Joined(none, <<s[High(b)]>>), Low(c))
  BY <1>3, <1>4, SpliceHigh
<1>6. Joined(none, half) = half
  BY <1>2, <1>3, ConcatEmptySeq DEF Joined
<1>7. Splice(s, d, none, e) = Splice(s, d, half, Low(c))
  BY <1>2, <1>5, <1>6, Zenon
<1>8. Splice(s, d, half, Low(c)) = Splice(s, Low(a), Joined(<<s[Low(a)]>>, half), Low(c))
  BY <1>3, <1>4, SpliceLow
<1>9. Joined(<<s[Low(a)]>>, <<s[High(b)]>>) = <<s[Low(a)], s[High(b)]>>
  BY <1>1, TwoEdges
<1> QED BY <1>2, <1>7, <1>8, <1>9, Zenon

LEMMA DelItemsIs ==
  ASSUME NEW s, Sound(s), NEW lo, NEW hi, NEW f, NEW g, Deletable(s, lo, f, hi, g)
  PROVE  DelItems(s, lo, f, hi, g) = Splice(s, Low(f.at), Ends(s, lo, f, hi, g), Low(Past(g)))
<1> DEFINE p == Low(f.at)
           upto == g.in /\ s[High(g.at)] = hi
           q == IF upto THEN Low(g.at + 1) ELSE Low(g.at)
           r == IF upto THEN g.at + 1 ELSE g.at
           t == DelItems(s, lo, f, hi, g)
<1>1. /\ NumRanges(s) \in Nat /\ Len(s) = 2 * NumRanges(s)
      /\ lo - 1 \in Int /\ hi + 1 \in Int
      /\ f.at \in Nat /\ r \in Nat /\ f.at <= r /\ r <= NumRanges(s)
      /\ f.in => f.at < NumRanges(s)
      /\ g.in => g.at < NumRanges(s)
      /\ q = Low(r)
  BY DeletableIs, SMTT(30)
<1>2. /\ Infin(s, lo, f) <=> (f.in /\ s[p] # lo)
      /\ Supin(s, hi, g) <=> (g.in /\ ~upto)
      /\ Supin(s, hi, g) => Past(g) = r + 1
      /\ ~Supin(s, hi, g) => Past(g) = r
      /\ Supin(s, hi, g) => r = g.at
  BY DEF Infin, Supin, Past
<1>3. t = CASE Infin(s, lo, f) /\ Supin(s, hi, g) -> Splice(s, p + 1, <<lo - 1, hi + 1>>, q + 1)
            [] Infin(s, lo, f) /\ ~Supin(s, hi, g) -> Splice(s, p + 1, <<lo - 1>>, q)
            [] ~Infin(s, lo, f) /\ Supin(s, hi, g) -> Splice(s, p, <<hi + 1>>, q + 1)
            [] OTHER -> Splice(s, p, <<>>, q)
  BY <1>2 DEF DelItems
<1> HIDE DEF t, upto, q, r
<1>9. p \in 1 .. Len(s) + 1 /\ Low(r) \in Nat
  BY <1>1 DEF Low
<1>10. PICK x, y : x = lo - 1 /\ y = hi + 1
  BY Zenon
<1>11. x \in Int /\ y \in Int
  BY <1>1, <1>10
<1>4. CASE Infin(s, lo, f) /\ Supin(s, hi, g)
  <2>1. PICK mid, to, d, e, c : /\ mid = <<x, y>> /\ to = <<s[p], x, y, s[High(r)]>>
                                /\ d = p + 1 /\ e = Low(r) + 1 /\ c = r + 1
    BY Zenon
  <2>2. t = Splice(s, d, mid, e)
    BY <1>1, <1>3, <1>4, <1>10, <2>1
  <2>3. r \in 0 .. NumRanges(s) - 1 /\ f.at \in 0 .. NumRanges(s) - 1
    BY <1>1, <1>2, <1>4 DEF Infin, Supin
  <2>4. Splice(s, d, mid, e) = Splice(s, p, to, Low(c))
    BY <1>11, <2>1, <2>3, WriteBetween
  <2>5. Ends(s, lo, f, hi, g) = to /\ Past(g) = c
    BY <1>2, <1>4, <1>10, <2>1, Zenon DEF Ends
  <2> QED BY <2>2, <2>4, <2>5, Zenon DEF t
<1>5. CASE Infin(s, lo, f) /\ ~Supin(s, hi, g)
  <2>1. PICK mid, to, d : mid = <<x>> /\ to = <<s[p], x>> /\ d = p + 1
    BY Zenon
  <2>2. t = Splice(s, d, mid, Low(r))
    BY <1>1, <1>3, <1>5, <1>10, <2>1
  <2>3. f.at \in 0 .. NumRanges(s) - 1
    BY <1>1, <1>5 DEF Infin
  <2>4. Splice(s, d, mid, Low(r)) = Splice(s, p, to, Low(r))
    BY <1>9, <1>11, <2>1, <2>3, WriteAfter
  <2>5. Ends(s, lo, f, hi, g) = to /\ Past(g) = r
    BY <1>2, <1>5, <1>10, <2>1, Zenon DEF Ends
  <2> QED BY <2>2, <2>4, <2>5, Zenon DEF t
<1>6. CASE ~Infin(s, lo, f) /\ Supin(s, hi, g)
  <2>1. PICK mid, to, e, c : mid = <<y>> /\ to = <<y, s[High(r)]>> /\ e = Low(r) + 1 /\ c = r + 1
    BY Zenon
  <2>2. t = Splice(s, p, mid, e)
    BY <1>1, <1>3, <1>6, <1>10, <2>1
  <2>3. r \in 0 .. NumRanges(s) - 1
    BY <1>1, <1>2, <1>6 DEF Supin
  <2>4. Splice(s, p, mid, e) = Splice(s, p, to, Low(c))
    BY <1>9, <1>11, <2>1, <2>3, WriteBefore
  <2>5. Ends(s, lo, f, hi, g) = to /\ Past(g) = c
    BY <1>2, <1>6, <1>10, <2>1, Zenon DEF Ends
  <2> QED BY <2>2, <2>4, <2>5, Zenon DEF t
<1>7. CASE ~Infin(s, lo, f) /\ ~Supin(s, hi, g)
  <2>1. t = Splice(s, p, <<>>, Low(r))
    BY <1>1, <1>3, <1>7
  <2>2. Ends(s, lo, f, hi, g) = <<>> /\ Past(g) = r
    BY <1>2, <1>7, Zenon DEF Ends
  <2> QED BY <2>1, <2>2, Zenon DEF t
<1> QED BY <1>4, <1>5, <1>6, <1>7

LEMMA DelItemIs ==
  ASSUME NEW s, Sound(s), NEW i \in 0 .. NumRanges(s) - 1, NEW v \in Int, In(s, i, v)
  PROVE  /\ Deletable(s, v, Found(i), v, Found(i))
         /\ DelItem(s, v, i) = Splice(s, Low(i), Ends(s, v, Found(i), v, Found(i)), Low(i + 1))
<1> DEFINE p == Low(i)
           f == Found(i)
           t == DelItem(s, v, i)
           m == Ends(s, v, f, v, f)
<1>1. NumRanges(s) \in Nat /\ i \in Nat /\ i < NumRanges(s) /\ Len(s) = 2 * NumRanges(s)
  BY NumNat DEF Sound
<1>2. Deletable(s, v, f, v, f)
  BY <1>1 DEF Deletable, Found
<1>3. PICK x, y, d, e, c : x = v - 1 /\ y = v + 1 /\ d = p + 1 /\ e = p + 2 /\ c = i + 1
  BY Zenon
<1>4. d = High(i) /\ e = Low(c) /\ e \in Nat /\ p \in 1 .. Len(s) + 1 /\ x \in Int /\ y \in Int
  BY <1>1, <1>3 DEF Low, High
<1>5. /\ f.at = i /\ f.in = TRUE
      /\ Infin(s, v, f) <=> s[p] # v
      /\ Supin(s, v, f) <=> s[d] # v
  BY <1>4 DEF Found, Infin, Supin
<1>6. t = CASE s[p] = v /\ s[d] = v -> Splice(s, p, <<>>, e)
            [] s[p] = v /\ s[d] # v -> Splice(s, p, <<y>>, d)
            [] s[p] # v /\ s[d] = v -> Splice(s, d, <<x>>, e)
            [] OTHER -> Splice(s, d, <<x, y>>, d)
  BY <1>3 DEF DelItem
<1>7. m = IF s[p] # v /\ s[d] # v THEN <<s[p], x, y, s[d]>>
          ELSE IF s[p] # v THEN <<s[p], x>>
          ELSE IF s[d] # v THEN <<y, s[d]>>
          ELSE <<>>
  BY <1>3, <1>4, <1>5, Zenon DEF Ends
<1> HIDE DEF t, m, f
<1>8. t = Splice(s, p, m, Low(c))
  <2>1. CASE s[p] = v /\ s[d] = v
    BY <1>4, <1>6, <1>7, <2>1
  <2>2. CASE s[p] = v /\ s[d] # v
    <3>1. PICK mid, to : mid = <<y>> /\ to = <<y, s[d]>>
      BY Zenon
    <3>2. Splice(s, p, mid, d) = Splice(s, p, to, Low(c))
      BY <1>3, <1>4, <3>1, WriteBefore
    <3> QED BY <1>6, <1>7, <2>2, <3>1, <3>2
  <2>3. CASE s[p] # v /\ s[d] = v
    <3>1. PICK mid, to : mid = <<x>> /\ to = <<s[p], x>>
      BY Zenon
    <3>2. Splice(s, d, mid, e) = Splice(s, p, to, e)
      BY <1>3, <1>4, <3>1, WriteAfter
    <3> QED BY <1>4, <1>6, <1>7, <2>3, <3>1, <3>2
  <2>4. CASE s[p] # v /\ s[d] # v
    <3>1. PICK mid, to : mid = <<x, y>> /\ to = <<s[p], x, y, s[d]>>
      BY Zenon
    <3>2. Splice(s, d, mid, d) = Splice(s, p, to, Low(c))
      BY <1>3, <1>4, <3>1, WriteBetween
    <3> QED BY <1>6, <1>7, <2>4, <3>1, <3>2
  <2> QED BY <2>1, <2>2, <2>3, <2>4
<1> QED BY <1>2, <1>3, <1>8 DEF t, m, f

LEMMA EndsAre ==
  ASSUME NEW s, Sound(s), NEW lo, NEW hi, NEW f, NEW g, Deletable(s, lo, f, hi, g)
  PROVE  LET m == Ends(s, lo, f, hi, g)
         IN  /\ Sound(m) /\ Spread(m)
             /\ NumRanges(m) = (IF Infin(s, lo, f) THEN 1 ELSE 0) + (IF Supin(s, hi, g) THEN 1 ELSE 0)
             /\ \A k \in 0 .. NumRanges(m) - 1 :
                  \/ Infin(s, lo, f) /\ m[Low(k)] = s[Low(f.at)] /\ m[High(k)] = lo - 1
                  \/ Supin(s, hi, g) /\ m[Low(k)] = hi + 1 /\ m[High(k)] = s[High(g.at)]
             /\ Infin(s, lo, f) =>
                  \E k \in 0 .. NumRanges(m) - 1 : m[Low(k)] = s[Low(f.at)] /\ m[High(k)] = lo - 1
             /\ Supin(s, hi, g) =>
                  \E k \in 0 .. NumRanges(m) - 1 : m[Low(k)] = hi + 1 /\ m[High(k)] = s[High(g.at)]
<1> DEFINE m == Ends(s, lo, f, hi, g)
<1>1. lo \in Int /\ hi \in Int /\ lo <= hi
  BY DeletableIs
<1>2. Infin(s, lo, f) => s[Low(f.at)] \in Int /\ s[Low(f.at)] <= lo - 1
  BY DeletableIs DEF Infin
<1>3. Supin(s, hi, g) => s[High(g.at)] \in Int /\ hi + 1 <= s[High(g.at)]
  BY DeletableIs DEF Supin
<1>4. PICK a, x, y, b : a = s[Low(f.at)] /\ x = lo - 1 /\ y = hi + 1 /\ b = s[High(g.at)]
  BY Zenon
<1>5. /\ x \in Int /\ y \in Int /\ x + 1 < y
      /\ Infin(s, lo, f) => a \in Int /\ a <= x
      /\ Supin(s, hi, g) => b \in Int /\ y <= b
  BY <1>1, <1>2, <1>3, <1>4
<1>6. CASE Infin(s, lo, f) /\ Supin(s, hi, g)
  <2>1. m = <<a, x, y, b>>
    BY <1>4, <1>6, Zenon DEF Ends
  <2>2. LET n == <<a, x, y, b>>
        IN  /\ Sound(n) /\ NumRanges(n) = 2 /\ Spread(n)
            /\ n[Low(0)] = a /\ n[High(0)] = x /\ n[Low(1)] = y /\ n[High(1)] = b
    BY <1>5, <1>6, TwoPairsAre
  <2>3. /\ Sound(m) /\ NumRanges(m) = 2 /\ Spread(m)
        /\ m[Low(0)] = a /\ m[High(0)] = x /\ m[Low(1)] = y /\ m[High(1)] = b
    BY <2>1, <2>2, Zenon
  <2> HIDE DEF m
  <2>4. \A k \in 0 .. 2 - 1 : k = 0 \/ k = 1
    OBVIOUS
  <2>5. 0 \in 0 .. 2 - 1 /\ 1 \in 0 .. 2 - 1 /\ 2 = 1 + 1
    OBVIOUS
  <2>6. 2 = (IF Infin(s, lo, f) THEN 1 ELSE 0) + (IF Supin(s, hi, g) THEN 1 ELSE 0)
    BY <1>6
  <2>7. \A k \in 0 .. NumRanges(m) - 1 :
          \/ Infin(s, lo, f) /\ m[Low(k)] = a /\ m[High(k)] = x
          \/ Supin(s, hi, g) /\ m[Low(k)] = y /\ m[High(k)] = b
    BY <1>6, <2>3, <2>4
  <2>8. /\ \E k \in 0 .. NumRanges(m) - 1 : m[Low(k)] = a /\ m[High(k)] = x
        /\ \E k \in 0 .. NumRanges(m) - 1 : m[Low(k)] = y /\ m[High(k)] = b
    BY <2>3, <2>5
  <2> QED BY <1>4, <2>3, <2>6, <2>7, <2>8, Zenon DEF m
<1>7. CASE Infin(s, lo, f) /\ ~Supin(s, hi, g)
  <2>1. m = <<a, x>>
    BY <1>4, <1>7, Zenon DEF Ends
  <2>2. LET n == <<a, x>>
        IN  Sound(n) /\ NumRanges(n) = 1 /\ Spread(n) /\ n[Low(0)] = a /\ n[High(0)] = x
    BY <1>5, <1>7, PairIs
  <2>3. Sound(m) /\ NumRanges(m) = 1 /\ Spread(m) /\ m[Low(0)] = a /\ m[High(0)] = x
    BY <2>1, <2>2, Zenon
  <2> HIDE DEF m
  <2>4. \A k \in 0 .. 1 - 1 : k = 0
    OBVIOUS
  <2>5. 0 \in 0 .. 1 - 1
    OBVIOUS
  <2>6. 1 = (IF Infin(s, lo, f) THEN 1 ELSE 0) + (IF Supin(s, hi, g) THEN 1 ELSE 0)
    BY <1>7
  <2>7. \A k \in 0 .. NumRanges(m) - 1 : m[Low(k)] = a /\ m[High(k)] = x
    BY <2>3, <2>4
  <2>8. \E k \in 0 .. NumRanges(m) - 1 : m[Low(k)] = a /\ m[High(k)] = x
    BY <2>3, <2>5
  <2> QED BY <1>4, <1>7, <2>3, <2>6, <2>7, <2>8, Zenon DEF m
<1>8. CASE ~Infin(s, lo, f) /\ Supin(s, hi, g)
  <2>1. m = <<y, b>>
    BY <1>4, <1>8, Zenon DEF Ends
  <2>2. LET n == <<y, b>>
        IN  Sound(n) /\ NumRanges(n) = 1 /\ Spread(n) /\ n[Low(0)] = y /\ n[High(0)] = b
    BY <1>5, <1>8, PairIs
  <2>3. Sound(m) /\ NumRanges(m) = 1 /\ Spread(m) /\ m[Low(0)] = y /\ m[High(0)] = b
    BY <2>1, <2>2, Zenon
  <2> HIDE DEF m
  <2>4. \A k \in 0 .. 1 - 1 : k = 0
    OBVIOUS
  <2>5. 0 \in 0 .. 1 - 1
    OBVIOUS
  <2>6. 1 = (IF Infin(s, lo, f) THEN 1 ELSE 0) + (IF Supin(s, hi, g) THEN 1 ELSE 0)
    BY <1>8
  <2>7. \A k \in 0 .. NumRanges(m) - 1 : m[Low(k)] = y /\ m[High(k)] = b
    BY <2>3, <2>4
  <2>8. \E k \in 0 .. NumRanges(m) - 1 : m[Low(k)] = y /\ m[High(k)] = b
    BY <2>3, <2>5
  <2> QED BY <1>4, <1>8, <2>3, <2>6, <2>7, <2>8, Zenon DEF m
<1>9. CASE ~Infin(s, lo, f) /\ ~Supin(s, hi, g)
  <2>1. m = <<>>
    BY <1>9, Zenon DEF Ends
  <2>2. Sound(m) /\ NumRanges(m) = 0 /\ Spread(m)
    BY <2>1, NoneIs, Zenon
  <2> HIDE DEF m
  <2>3. \A k \in 0 .. 0 - 1 : FALSE
    OBVIOUS
  <2>4. 0 = (IF Infin(s, lo, f) THEN 1 ELSE 0) + (IF Supin(s, hi, g) THEN 1 ELSE 0)
    BY <1>9
  <2>5. \A k \in 0 .. NumRanges(m) - 1 : FALSE
    BY <2>2, <2>3
  <2> QED BY <1>9, <2>2, <2>4, <2>5, Zenon DEF m
<1> QED BY <1>6, <1>7, <1>8, <1>9

(* What a deletion leaves, in a list sorted or not. *)
LEMMA Deleted ==
  ASSUME NEW s, Sound(s), NEW lo, NEW hi, NEW f, NEW g, Deletable(s, lo, f, hi, g), NEW t,
         t = Splice(s, Low(f.at), Ends(s, lo, f, hi, g), Low(Past(g)))
  PROVE  /\ Spliced(t, s, f.at, Past(g), Ends(s, lo, f, hi, g))
         /\ Sound(t)
         /\ \A v \in Int : Holds(t, v) <=>
              \/ \E i \in 0 .. f.at - 1 : In(s, i, v)
              \/ Infin(s, lo, f) /\ s[Low(f.at)] <= v /\ v < lo
              \/ Supin(s, hi, g) /\ hi < v /\ v <= s[High(g.at)]
              \/ \E i \in Past(g) .. NumRanges(s) - 1 : In(s, i, v)
<1> DEFINE m == Ends(s, lo, f, hi, g)
<1>1. /\ f.at \in 0 .. NumRanges(s) /\ Past(g) \in f.at .. NumRanges(s)
      /\ lo \in Int /\ hi \in Int
  BY DeletableIs
<1>2. /\ Sound(m)
      /\ \A k \in 0 .. NumRanges(m) - 1 :
           \/ Infin(s, lo, f) /\ m[Low(k)] = s[Low(f.at)] /\ m[High(k)] = lo - 1
           \/ Supin(s, hi, g) /\ m[Low(k)] = hi + 1 /\ m[High(k)] = s[High(g.at)]
      /\ Infin(s, lo, f) =>
           \E k \in 0 .. NumRanges(m) - 1 : m[Low(k)] = s[Low(f.at)] /\ m[High(k)] = lo - 1
      /\ Supin(s, hi, g) =>
           \E k \in 0 .. NumRanges(m) - 1 : m[Low(k)] = hi + 1 /\ m[High(k)] = s[High(g.at)]
  BY EndsAre
<1> HIDE DEF m
<1>3. Spliced(t, s, f.at, Past(g), m)
  BY <1>1, <1>2, SpliceRanges DEF m
<1>4. Sound(t)
  BY <1>1, <1>2, <1>3, SplicedSound
<1>5. ASSUME NEW v \in Int
      PROVE  Holds(m, v) <=> \/ Infin(s, lo, f) /\ s[Low(f.at)] <= v /\ v < lo
                             \/ Supin(s, hi, g) /\ hi < v /\ v <= s[High(g.at)]
  <2>1. (v <= lo - 1 <=> v < lo) /\ (hi + 1 <= v <=> hi < v)
    BY <1>1
  <2>2. ASSUME NEW k \in 0 .. NumRanges(m) - 1, In(m, k, v)
        PROVE  \/ Infin(s, lo, f) /\ s[Low(f.at)] <= v /\ v < lo
               \/ Supin(s, hi, g) /\ hi < v /\ v <= s[High(g.at)]
    BY <1>2, <2>1, <2>2 DEF In
  <2>3. ASSUME Infin(s, lo, f), s[Low(f.at)] <= v, v < lo PROVE Holds(m, v)
    BY <1>2, <2>1, <2>3 DEF In, Holds
  <2>4. ASSUME Supin(s, hi, g), hi < v, v <= s[High(g.at)] PROVE Holds(m, v)
    BY <1>2, <2>1, <2>4 DEF In, Holds
  <2> QED BY <2>2, <2>3, <2>4 DEF Holds
<1>6. ASSUME NEW v \in Int
      PROVE  Holds(t, v) <=> \/ \E i \in 0 .. f.at - 1 : In(s, i, v)
                             \/ Holds(m, v)
                             \/ \E i \in Past(g) .. NumRanges(s) - 1 : In(s, i, v)
  BY <1>1, <1>2, <1>3, SplicedHolds
<1> QED BY <1>3, <1>4, <1>5, <1>6, Zenon DEF m

(* In a sorted list the ranges follow each other. *)
LEMMA SpreadEdges ==
  ASSUME NEW s, Sound(s), Spread(s), NEW i \in 0 .. NumRanges(s) - 1, NEW j \in 0 .. NumRanges(s) - 1
  PROVE  /\ s[Low(i)] \in Int /\ s[High(i)] \in Int /\ s[Low(i)] <= s[High(i)]
         /\ s[Low(j)] \in Int /\ s[High(j)] \in Int /\ s[Low(j)] <= s[High(j)]
         /\ i < j => s[High(i)] + 1 < s[Low(j)]
BY EdgesInt DEF Spread

(* Where the bounds are, in a sorted list. *)
Bounded(s, lo, f, hi, g) ==
  /\ lo \in Int /\ hi \in Int /\ lo <= hi
  /\ Places(s, 0, NumRanges(s), lo, f) /\ Places(s, f.at, NumRanges(s), hi, g)

LEMMA BoundedIs ==
  ASSUME NEW s, Sound(s), Spread(s), NEW lo, NEW hi, NEW f, NEW g, Bounded(s, lo, f, hi, g)
  PROVE  /\ Deletable(s, lo, f, hi, g)
         /\ \A i \in 0 .. f.at - 1 : i \in 0 .. NumRanges(s) - 1 /\ s[High(i)] < lo
         /\ \A i \in f.at .. NumRanges(s) - 1 : i \in 0 .. NumRanges(s) - 1 /\ lo <= s[High(i)]
         /\ \A i \in f.at .. NumRanges(s) - 1 : (f.in /\ i = f.at) \/ lo < s[Low(i)]
         /\ \A i \in f.at .. g.at - 1 : i \in 0 .. NumRanges(s) - 1 /\ s[High(i)] < hi
         /\ \A i \in Past(g) .. NumRanges(s) - 1 : i \in 0 .. NumRanges(s) - 1 /\ hi < s[Low(i)]
<1>1. /\ NumRanges(s) \in Nat /\ f.at \in Nat /\ g.at \in Nat /\ f.at <= g.at
      /\ f.at <= NumRanges(s) /\ g.at <= NumRanges(s)
      /\ lo \in Int /\ hi \in Int /\ lo <= hi /\ f.in \in BOOLEAN /\ g.in \in BOOLEAN
  BY NumNat DEF Bounded, Places, Sound
<1>2. ASSUME NEW i \in 0 .. f.at - 1 PROVE i \in 0 .. NumRanges(s) - 1 /\ s[High(i)] < lo
  BY <1>1 DEF Bounded, Places
<1>3. ASSUME NEW i \in f.at .. NumRanges(s) - 1
      PROVE  /\ i \in 0 .. NumRanges(s) - 1 /\ lo <= s[High(i)]
             /\ (f.in /\ i = f.at) \/ lo < s[Low(i)]
  <2>1. i \in 0 .. NumRanges(s) - 1 /\ f.at \in 0 .. NumRanges(s) - 1 /\ f.at < NumRanges(s)
    BY <1>1
  <2>2. /\ s[Low(i)] \in Int /\ s[High(i)] \in Int /\ s[Low(i)] <= s[High(i)]
        /\ s[Low(f.at)] \in Int /\ s[High(f.at)] \in Int /\ s[Low(f.at)] <= s[High(f.at)]
        /\ f.at < i => s[High(f.at)] + 1 < s[Low(i)]
    BY <2>1, SpreadEdges
  <2>3. IF f.in THEN s[Low(f.at)] <= lo /\ lo <= s[High(f.at)] ELSE lo < s[Low(f.at)]
    BY <2>1 DEF Bounded, Places
  <2>4. i = f.at \/ f.at < i
    BY <1>1, <2>1
  <2> QED BY <1>1, <2>1, <2>2, <2>3, <2>4
<1>4. ASSUME NEW i \in f.at .. g.at - 1 PROVE i \in 0 .. NumRanges(s) - 1 /\ s[High(i)] < hi
  BY <1>1 DEF Bounded, Places
<1>5. ASSUME NEW i \in Past(g) .. NumRanges(s) - 1
      PROVE  i \in 0 .. NumRanges(s) - 1 /\ hi < s[Low(i)]
  <2>1. /\ i \in 0 .. NumRanges(s) - 1 /\ g.at \in 0 .. NumRanges(s) - 1 /\ g.at < NumRanges(s)
        /\ g.at < i \/ (g.at = i /\ ~g.in)
    BY <1>1 DEF Past
  <2>2. /\ s[Low(i)] \in Int /\ s[High(i)] \in Int /\ s[Low(i)] <= s[High(i)]
        /\ s[Low(g.at)] \in Int /\ s[High(g.at)] \in Int /\ s[Low(g.at)] <= s[High(g.at)]
        /\ g.at < i => s[High(g.at)] + 1 < s[Low(i)]
    BY <2>1, SpreadEdges
  <2>3. IF g.in THEN s[Low(g.at)] <= hi /\ hi <= s[High(g.at)] ELSE hi < s[Low(g.at)]
    BY <2>1 DEF Bounded, Places
  <2> QED BY <1>1, <2>1, <2>2, <2>3
<1>6. Deletable(s, lo, f, hi, g)
  <2>1. f.in => f.at < NumRanges(s) /\ In(s, f.at, lo)
    BY DEF Bounded, Places, In
  <2>2. g.in => g.at < NumRanges(s) /\ In(s, g.at, hi)
    BY DEF Bounded, Places, In
  <2>3. f.in /\ g.at = f.at => g.in
    <3>1. SUFFICES ASSUME f.in, g.at = f.at, ~g.in PROVE FALSE
      BY <1>1
    <3>2. f.at \in 0 .. NumRanges(s) - 1 /\ g.at < NumRanges(s)
      BY <1>1, <2>1, <3>1
    <3>3. s[Low(f.at)] \in Int
      BY <3>2, EdgesInt
    <3>4. hi < s[Low(f.at)] /\ s[Low(f.at)] <= lo
      BY <3>1, <3>2 DEF Bounded, Places
    <3> QED BY <1>1, <3>3, <3>4
  <2> QED BY <1>1, <2>1, <2>2, <2>3 DEF Deletable
<1> QED BY <1>2, <1>3, <1>4, <1>5, <1>6

(* A deletion leaves a sorted list sorted, without the items from lo to hi. *)
LEMMA DeletedSorted ==
  ASSUME NEW s, Sound(s), Spread(s), NEW lo, NEW hi, NEW f, NEW g, Bounded(s, lo, f, hi, g), NEW t,
         t = Splice(s, Low(f.at), Ends(s, lo, f, hi, g), Low(Past(g)))
  PROVE  /\ Sound(t) /\ Spread(t)
         /\ \A v \in Int : Holds(t, v) <=> Holds(s, v) /\ ~(lo <= v /\ v <= hi)
<1> DEFINE m == Ends(s, lo, f, hi, g)
           a == f.at
           b == Past(g)
<1>1. Deletable(s, lo, f, hi, g)
  BY BoundedIs
<1>2. /\ NumRanges(s) \in Nat /\ a \in Nat /\ b \in Nat /\ a <= b /\ b <= NumRanges(s)
      /\ lo \in Int /\ hi \in Int /\ lo <= hi
      /\ a \in 0 .. NumRanges(s) /\ b \in a .. NumRanges(s) /\ g.at \in Nat /\ a <= g.at
      /\ f.in => a < NumRanges(s) /\ a < b /\ s[Low(a)] \in Int /\ s[High(a)] \in Int
                 /\ s[Low(a)] <= lo /\ lo <= s[High(a)]
      /\ g.in => /\ g.at < NumRanges(s) /\ s[Low(g.at)] \in Int /\ s[High(g.at)] \in Int
                 /\ s[Low(g.at)] <= hi /\ hi <= s[High(g.at)]
  BY <1>1, DeletableIs
<1>3. /\ \A i \in 0 .. a - 1 : i \in 0 .. NumRanges(s) - 1 /\ s[High(i)] < lo
      /\ \A i \in a .. NumRanges(s) - 1 : i \in 0 .. NumRanges(s) - 1 /\ lo <= s[High(i)]
      /\ \A i \in a .. NumRanges(s) - 1 : (f.in /\ i = a) \/ lo < s[Low(i)]
      /\ \A i \in a .. g.at - 1 : i \in 0 .. NumRanges(s) - 1 /\ s[High(i)] < hi
      /\ \A i \in b .. NumRanges(s) - 1 : i \in 0 .. NumRanges(s) - 1 /\ hi < s[Low(i)]
  BY BoundedIs
<1>4. /\ Sound(m) /\ Spread(m)
      /\ \A k \in 0 .. NumRanges(m) - 1 :
           \/ Infin(s, lo, f) /\ m[Low(k)] = s[Low(a)] /\ m[High(k)] = lo - 1
           \/ Supin(s, hi, g) /\ m[Low(k)] = hi + 1 /\ m[High(k)] = s[High(g.at)]
  BY <1>1, EndsAre
<1>5. /\ Spliced(t, s, a, b, m) /\ Sound(t)
      /\ \A v \in Int : Holds(t, v) <=>
           \/ \E i \in 0 .. a - 1 : In(s, i, v)
           \/ Infin(s, lo, f) /\ s[Low(a)] <= v /\ v < lo
           \/ Supin(s, hi, g) /\ hi < v /\ v <= s[High(g.at)]
           \/ \E i \in b .. NumRanges(s) - 1 : In(s, i, v)
  BY <1>1, Deleted
<1>6. b = IF g.in THEN g.at + 1 ELSE g.at
  BY DEF Past
<1> HIDE DEF m, a, b
<1>7. Spread(t)
  <2>1. ASSUME NEW i \in 0 .. a - 1, NEW k \in 0 .. NumRanges(m) - 1
        PROVE  s[High(i)] + 1 < m[Low(k)]
    <3>1. i \in 0 .. NumRanges(s) - 1 /\ s[High(i)] < lo /\ s[High(i)] \in Int
      BY <1>3, EdgesInt
    <3>2. CASE Infin(s, lo, f) /\ m[Low(k)] = s[Low(a)] /\ m[High(k)] = lo - 1
      <4>1. a \in 0 .. NumRanges(s) - 1 /\ i < a
        BY <1>2, <3>2 DEF Infin
      <4> QED BY <3>1, <3>2, <4>1, SpreadEdges
    <3>3. CASE Supin(s, hi, g) /\ m[Low(k)] = hi + 1 /\ m[High(k)] = s[High(g.at)]
      BY <1>2, <3>1, <3>3
    <3> QED BY <1>4, <3>2, <3>3
  <2>2. ASSUME NEW i \in b .. NumRanges(s) - 1, NEW k \in 0 .. NumRanges(m) - 1
        PROVE  m[High(k)] + 1 < s[Low(i)]
    <3>1. i \in 0 .. NumRanges(s) - 1 /\ hi < s[Low(i)] /\ s[Low(i)] \in Int
      BY <1>3, EdgesInt
    <3>2. CASE Infin(s, lo, f) /\ m[Low(k)] = s[Low(a)] /\ m[High(k)] = lo - 1
      BY <1>2, <3>1, <3>2
    <3>3. CASE Supin(s, hi, g) /\ m[Low(k)] = hi + 1 /\ m[High(k)] = s[High(g.at)]
      <4>1. g.at \in 0 .. NumRanges(s) - 1 /\ g.at < i
        BY <1>2, <1>6, <3>1, <3>3 DEF Supin
      <4> QED BY <3>1, <3>3, <4>1, SpreadEdges
    <3> QED BY <1>4, <3>2, <3>3
  <2> QED BY <1>2, <1>4, <1>5, <2>1, <2>2, SplicedSpread
<1>8. ASSUME NEW v \in Int, Holds(t, v)
      PROVE  Holds(s, v) /\ ~(lo <= v /\ v <= hi)
  <2>1. CASE \E i \in 0 .. a - 1 : In(s, i, v)
    <3>1. PICK i \in 0 .. a - 1 : In(s, i, v)
      BY <2>1
    <3>2. i \in 0 .. NumRanges(s) - 1 /\ s[High(i)] < lo /\ s[High(i)] \in Int
      BY <1>3, EdgesInt
    <3> QED BY <1>2, <3>1, <3>2 DEF In, Holds
  <2>2. CASE Infin(s, lo, f) /\ s[Low(a)] <= v /\ v < lo
    <3>1. a \in 0 .. NumRanges(s) - 1 /\ In(s, a, v)
      BY <1>2, <2>2 DEF Infin, In
    <3> QED BY <1>2, <2>2, <3>1 DEF Holds
  <2>3. CASE Supin(s, hi, g) /\ hi < v /\ v <= s[High(g.at)]
    <3>1. g.at \in 0 .. NumRanges(s) - 1 /\ In(s, g.at, v)
      BY <1>2, <2>3 DEF Supin, In
    <3> QED BY <1>2, <2>3, <3>1 DEF Holds
  <2>4. CASE \E i \in b .. NumRanges(s) - 1 : In(s, i, v)
    <3>1. PICK i \in b .. NumRanges(s) - 1 : In(s, i, v)
      BY <2>4
    <3>2. i \in 0 .. NumRanges(s) - 1 /\ hi < s[Low(i)] /\ s[Low(i)] \in Int
      BY <1>3, EdgesInt
    <3> QED BY <1>2, <3>1, <3>2 DEF In, Holds
  <2> QED BY <1>5, <1>8, <2>1, <2>2, <2>3, <2>4
<1>9. ASSUME NEW v \in Int, Holds(s, v), ~(lo <= v /\ v <= hi)
      PROVE  Holds(t, v)
  <2>1. PICK i \in 0 .. NumRanges(s) - 1 : In(s, i, v)
    BY <1>9 DEF Holds
  <2>2. s[Low(i)] \in Int /\ s[High(i)] \in Int /\ s[Low(i)] <= v /\ v <= s[High(i)]
    BY <2>1, EdgesInt DEF In
  <2>3. CASE i \in 0 .. a - 1
    BY <1>5, <2>1, <2>3
  <2>4. CASE i \in b .. NumRanges(s) - 1
    BY <1>5, <2>1, <2>4
  <2>5. CASE i \in a .. b - 1
    <3>1. i \in a .. NumRanges(s) - 1 /\ (i \in a .. g.at - 1 \/ (i = g.at /\ g.in))
      BY <1>2, <1>6, <2>5
    <3>2. (f.in /\ i = a) \/ lo < s[Low(i)]
      BY <1>3, <3>1
    <3>3. CASE v < lo
      <4>1. f.in /\ i = a /\ s[Low(a)] <= v /\ Infin(s, lo, f)
        BY <1>2, <2>2, <3>2, <3>3 DEF Infin, a
      <4> QED BY <1>5, <3>3, <4>1
    <3>4. CASE v > hi
      <4>1. i = g.at /\ g.in
        BY <1>2, <1>3, <2>2, <3>1, <3>4
      <4>2. Supin(s, hi, g) /\ hi < v /\ v <= s[High(g.at)]
        BY <1>2, <2>2, <3>4, <4>1 DEF Supin
      <4> QED BY <1>5, <4>2
    <3> QED BY <1>2, <1>9, <3>3, <3>4
  <2> QED BY <1>2, <2>3, <2>4, <2>5
<1> QED BY <1>5, <1>7, <1>8, <1>9

(* What is added: from lo to hi, with the ranges that it meets or touches. *)
Edgeinf(s, lo, f) == ~f.in /\ f.at # 0 /\ s[Low(f.at) - 1] + 1 = lo
Edgesup(s, hi, g) == ~g.in /\ g.at < NumRanges(s) /\ hi + 1 = s[Low(g.at)]
JoinsInf(s, lo, f) == f.in \/ Edgeinf(s, lo, f)
JoinsSup(s, hi, g) == g.in \/ Edgesup(s, hi, g)
FirstTaken(s, lo, f) == IF Edgeinf(s, lo, f) THEN f.at - 1 ELSE f.at
FirstLeft(s, hi, g) == IF JoinsSup(s, hi, g) THEN g.at + 1 ELSE g.at
NewLow(s, lo, f) == IF JoinsInf(s, lo, f) THEN s[Low(FirstTaken(s, lo, f))] ELSE lo
NewHigh(s, hi, g) == IF JoinsSup(s, hi, g) THEN s[High(g.at)] ELSE hi

LEMMA JoinsAre ==
  ASSUME NEW s, Sound(s), Spread(s), NEW lo, NEW hi, NEW f, NEW g, Bounded(s, lo, f, hi, g)
  PROVE  LET a == FirstTaken(s, lo, f)
             b == FirstLeft(s, hi, g)
         IN  /\ a \in 0 .. NumRanges(s) /\ b \in a .. NumRanges(s) /\ a <= f.at /\ g.at <= b
             /\ JoinsInf(s, lo, f) => /\ a \in 0 .. NumRanges(s) - 1
                                      /\ s[Low(a)] <= lo /\ lo <= s[High(a)] + 1
             /\ ~JoinsInf(s, lo, f) => a = f.at /\ ~f.in
             /\ JoinsSup(s, hi, g) => /\ g.at \in 0 .. NumRanges(s) - 1 /\ b = g.at + 1
                                      /\ s[Low(g.at)] <= hi + 1 /\ hi <= s[High(g.at)]
             /\ ~JoinsSup(s, hi, g) => b = g.at /\ ~g.in
             /\ \A i \in 0 .. a - 1 : i \in 0 .. NumRanges(s) - 1 /\ s[High(i)] + 1 < lo
             /\ \A i \in b .. NumRanges(s) - 1 : i \in 0 .. NumRanges(s) - 1 /\ hi + 1 < s[Low(i)]
<1> DEFINE a == FirstTaken(s, lo, f)
           b == FirstLeft(s, hi, g)
<1>1. /\ NumRanges(s) \in Nat /\ f.at \in Nat /\ g.at \in Nat /\ f.at <= g.at
      /\ f.at <= NumRanges(s) /\ g.at <= NumRanges(s)
      /\ lo \in Int /\ hi \in Int /\ lo <= hi /\ f.in \in BOOLEAN /\ g.in \in BOOLEAN
      /\ f.in => f.at < NumRanges(s) /\ s[Low(f.at)] <= lo /\ lo <= s[High(f.at)]
      /\ g.in => g.at < NumRanges(s) /\ s[Low(g.at)] <= hi /\ hi <= s[High(g.at)]
  BY NumNat DEF Bounded, Places, Sound
<1>2. /\ \A i \in 0 .. f.at - 1 : i \in 0 .. NumRanges(s) - 1 /\ s[High(i)] < lo
      /\ \A i \in Past(g) .. NumRanges(s) - 1 : i \in 0 .. NumRanges(s) - 1 /\ hi < s[Low(i)]
  BY BoundedIs
<1>3. f.at # 0 => /\ f.at - 1 \in 0 .. NumRanges(s) - 1 /\ f.at - 1 \in 0 .. f.at - 1
                  /\ Low(f.at) - 1 = High(f.at - 1)
                  /\ s[Low(f.at - 1)] \in Int /\ s[High(f.at - 1)] \in Int
                  /\ s[Low(f.at - 1)] <= s[High(f.at - 1)] /\ s[High(f.at - 1)] < lo
  <2>1. SUFFICES ASSUME f.at # 0
                 PROVE  /\ f.at - 1 \in 0 .. NumRanges(s) - 1 /\ f.at - 1 \in 0 .. f.at - 1
                        /\ Low(f.at) - 1 = High(f.at - 1)
                        /\ s[Low(f.at - 1)] \in Int /\ s[High(f.at - 1)] \in Int
                        /\ s[Low(f.at - 1)] <= s[High(f.at - 1)] /\ s[High(f.at - 1)] < lo
    OBVIOUS
  <2>2. f.at - 1 \in 0 .. NumRanges(s) - 1 /\ f.at - 1 \in 0 .. f.at - 1
    BY <1>1, <2>1
  <2>3. Low(f.at) - 1 = High(f.at - 1)
    BY <1>1 DEF Low, High
  <2> QED BY <1>2, <2>2, <2>3, EdgesInt
<1>4. g.at < NumRanges(s) => /\ g.at \in 0 .. NumRanges(s) - 1
                             /\ s[Low(g.at)] \in Int /\ s[High(g.at)] \in Int /\ s[Low(g.at)] <= s[High(g.at)]
  <2>1. g.at < NumRanges(s) => g.at \in 0 .. NumRanges(s) - 1
    BY <1>1
  <2> QED BY <2>1, EdgesInt
<1>5. Edgeinf(s, lo, f) <=> ~f.in /\ f.at # 0 /\ s[High(f.at - 1)] + 1 = lo
  BY <1>3 DEF Edgeinf
<1>6. /\ a \in Nat /\ b \in Nat /\ a <= f.at /\ g.at <= b /\ b <= NumRanges(s)
      /\ a \in 0 .. NumRanges(s) /\ b \in a .. NumRanges(s)
  BY <1>1, <1>3 DEF FirstTaken, FirstLeft, Edgeinf, JoinsSup, Edgesup
<1>7. ASSUME JoinsInf(s, lo, f)
      PROVE  a \in 0 .. NumRanges(s) - 1 /\ s[Low(a)] <= lo /\ lo <= s[High(a)] + 1
  <2>1. CASE f.in
    <3>1. a = f.at /\ f.at \in 0 .. NumRanges(s) - 1
      BY <1>1, <2>1 DEF FirstTaken, Edgeinf
    <3>2. s[High(f.at)] \in Int
      BY <3>1, EdgesInt
    <3> QED BY <1>1, <2>1, <3>1, <3>2
  <2>2. CASE ~f.in
    <3>1. Edgeinf(s, lo, f) /\ a = f.at - 1
      BY <1>7, <2>2 DEF JoinsInf, FirstTaken
    <3> QED BY <1>1, <1>3, <1>5, <3>1
  <2> QED BY <2>1, <2>2
<1>8. ~JoinsInf(s, lo, f) => a = f.at /\ ~f.in
  BY DEF JoinsInf, FirstTaken
<1>9. ASSUME JoinsSup(s, hi, g)
      PROVE  /\ g.at \in 0 .. NumRanges(s) - 1 /\ b = g.at + 1
             /\ s[Low(g.at)] <= hi + 1 /\ hi <= s[High(g.at)]
  BY <1>1, <1>4, <1>9 DEF JoinsSup, Edgesup, FirstLeft
<1>10. ~JoinsSup(s, hi, g) => b = g.at /\ ~g.in
  BY DEF JoinsSup, FirstLeft
<1>11. ASSUME NEW i \in 0 .. a - 1
       PROVE  i \in 0 .. NumRanges(s) - 1 /\ s[High(i)] + 1 < lo
  <2>1. i \in 0 .. f.at - 1 /\ i \in 0 .. NumRanges(s) - 1 /\ f.at # 0 /\ i <= f.at - 1
    BY <1>1, <1>6
  <2>2. s[High(i)] \in Int /\ i < f.at - 1 => s[High(i)] + 1 < s[Low(f.at - 1)]
    <3>1. i \in 0 .. NumRanges(s) - 1 /\ f.at - 1 \in 0 .. NumRanges(s) - 1
      BY <1>3, <2>1
    <3> QED BY <3>1, SpreadEdges
  <2>3. s[High(i)] \in Int
    BY <2>1, EdgesInt
  <2>4. CASE i < f.at - 1
    BY <1>1, <1>3, <2>1, <2>2, <2>3, <2>4
  <2>5. CASE i = f.at - 1
    <3>1. ~Edgeinf(s, lo, f)
      BY <1>1, <2>5 DEF FirstTaken
    <3>2. ~f.in \/ a = f.at
      BY DEF FirstTaken, Edgeinf
    <3>3. s[High(i)] < lo
      BY <1>2, <2>1
    <3>4. CASE ~f.in
      BY <1>1, <1>5, <2>1, <2>3, <2>5, <3>1, <3>3, <3>4
    <3>5. CASE f.in
      <4>1. f.at \in 0 .. NumRanges(s) - 1 /\ i < f.at
        BY <1>1, <3>5, <2>5
      <4>2. s[High(i)] + 1 < s[Low(f.at)] /\ s[Low(f.at)] \in Int
        BY <2>1, <4>1, SpreadEdges
      <4> QED BY <1>1, <2>1, <2>3, <3>5, <4>2
    <3> QED BY <1>1, <3>4, <3>5
  <2> QED BY <1>1, <2>1, <2>4, <2>5
<1>12. ASSUME NEW i \in b .. NumRanges(s) - 1
       PROVE  i \in 0 .. NumRanges(s) - 1 /\ hi + 1 < s[Low(i)]
  <2>1. i \in 0 .. NumRanges(s) - 1 /\ g.at <= i /\ g.at < NumRanges(s)
    BY <1>1, <1>6
  <2>2. s[Low(i)] \in Int /\ (g.at < i => s[High(g.at)] + 1 < s[Low(i)])
    BY <1>4, <2>1, SpreadEdges
  <2>3. CASE JoinsSup(s, hi, g)
    <3>1. g.at < i
      BY <1>1, <1>9, <2>1, <2>3
    <3> QED BY <1>1, <1>4, <1>9, <2>1, <2>2, <2>3, <3>1
  <2>4. CASE ~JoinsSup(s, hi, g)
    <3>1. ~g.in /\ hi + 1 # s[Low(g.at)]
      BY <2>1, <2>4 DEF JoinsSup, Edgesup
    <3>2. hi < s[Low(g.at)]
      BY <2>1, <3>1 DEF Bounded, Places
    <3> QED BY <1>1, <1>4, <2>1, <2>2, <3>1, <3>2
  <2> QED BY <2>3, <2>4
<1> QED BY <1>6, <1>7, <1>8, <1>9, <1>10, <1>11, <1>12

(* An addition leaves a sorted list sorted, with the items from lo to hi. *)
LEMMA AddedSorted ==
  ASSUME NEW s, Sound(s), Spread(s), NEW lo, NEW hi, NEW f, NEW g, Bounded(s, lo, f, hi, g), NEW t,
         t = Splice(s, Low(FirstTaken(s, lo, f)), <<NewLow(s, lo, f), NewHigh(s, hi, g)>>,
                    Low(FirstLeft(s, hi, g)))
  PROVE  /\ Sound(t) /\ Spread(t)
         /\ \A v \in Int : Holds(t, v) <=> Holds(s, v) \/ (lo <= v /\ v <= hi)
<1>1. PICK a, b, l, h, m : /\ a = FirstTaken(s, lo, f) /\ b = FirstLeft(s, hi, g)
                           /\ l = NewLow(s, lo, f) /\ h = NewHigh(s, hi, g) /\ m = <<l, h>>
  BY Zenon
<1>2. t = Splice(s, Low(a), m, Low(b))
  BY <1>1, Zenon
<1>3. /\ a \in 0 .. NumRanges(s) /\ b \in a .. NumRanges(s) /\ a <= f.at /\ g.at <= b
      /\ JoinsInf(s, lo, f) => /\ a \in 0 .. NumRanges(s) - 1 /\ s[Low(a)] <= lo /\ lo <= s[High(a)] + 1
      /\ ~JoinsInf(s, lo, f) => a = f.at /\ ~f.in
      /\ JoinsSup(s, hi, g) => /\ g.at \in 0 .. NumRanges(s) - 1 /\ b = g.at + 1
                               /\ s[Low(g.at)] <= hi + 1 /\ hi <= s[High(g.at)]
      /\ ~JoinsSup(s, hi, g) => b = g.at /\ ~g.in
      /\ \A i \in 0 .. a - 1 : i \in 0 .. NumRanges(s) - 1 /\ s[High(i)] + 1 < lo
      /\ \A i \in b .. NumRanges(s) - 1 : i \in 0 .. NumRanges(s) - 1 /\ hi + 1 < s[Low(i)]
  <2>1. LET x == FirstTaken(s, lo, f)
            y == FirstLeft(s, hi, g)
        IN  /\ x \in 0 .. NumRanges(s) /\ y \in x .. NumRanges(s) /\ x <= f.at /\ g.at <= y
            /\ JoinsInf(s, lo, f) => /\ x \in 0 .. NumRanges(s) - 1 /\ s[Low(x)] <= lo /\ lo <= s[High(x)] + 1
            /\ ~JoinsInf(s, lo, f) => x = f.at /\ ~f.in
            /\ JoinsSup(s, hi, g) => /\ g.at \in 0 .. NumRanges(s) - 1 /\ y = g.at + 1
                                     /\ s[Low(g.at)] <= hi + 1 /\ hi <= s[High(g.at)]
            /\ ~JoinsSup(s, hi, g) => y = g.at /\ ~g.in
            /\ \A i \in 0 .. x - 1 : i \in 0 .. NumRanges(s) - 1 /\ s[High(i)] + 1 < lo
            /\ \A i \in y .. NumRanges(s) - 1 : i \in 0 .. NumRanges(s) - 1 /\ hi + 1 < s[Low(i)]
    BY JoinsAre
  <2> QED BY <1>1, <2>1, Zenon
<1>4. /\ NumRanges(s) \in Nat /\ a \in Nat /\ b \in Nat /\ f.at \in Nat /\ g.at \in Nat
      /\ f.at <= g.at /\ lo \in Int /\ hi \in Int /\ lo <= hi /\ a <= b /\ b <= NumRanges(s)
  BY <1>3, NumNat DEF Bounded, Places, Sound
<1>5. /\ IF JoinsInf(s, lo, f) THEN l = s[Low(a)] ELSE l = lo
      /\ IF JoinsSup(s, hi, g) THEN h = s[High(g.at)] ELSE h = hi
  BY <1>1 DEF NewLow, NewHigh
<1>6. /\ JoinsInf(s, lo, f) => s[Low(a)] \in Int /\ s[High(a)] \in Int
      /\ JoinsSup(s, hi, g) => s[Low(g.at)] \in Int /\ s[High(g.at)] \in Int
  BY <1>3, EdgesInt
<1>7. l \in Int /\ h \in Int /\ l <= lo /\ hi <= h /\ l <= h
  BY <1>3, <1>4, <1>5, <1>6
<1>8. Sound(m) /\ NumRanges(m) = 1 /\ Spread(m) /\ m[Low(0)] = l /\ m[High(0)] = h
  <2>1. LET n == <<l, h>>
        IN  Sound(n) /\ NumRanges(n) = 1 /\ Spread(n) /\ n[Low(0)] = l /\ n[High(0)] = h
    BY <1>7, PairIs
  <2> QED BY <1>1, <2>1, Zenon
<1>9. \A k \in 0 .. NumRanges(m) - 1 : m[Low(k)] = l /\ m[High(k)] = h
  <2>1. \A k \in 0 .. 1 - 1 : k = 0
    OBVIOUS
  <2> QED BY <1>8, <2>1
<1>10. Spliced(t, s, a, b, m)
  <2>1. m = m /\ Sound(s) /\ Sound(m) /\ a \in 0 .. NumRanges(s) /\ b \in a .. NumRanges(s)
    BY <1>3, <1>8
  <2>2. Spliced(Splice(s, Low(a), m, Low(b)), s, a, b, m)
    BY ONLY <2>1, SpliceRanges
  <2> QED BY <1>2, <2>2, Zenon
<1>11. Sound(t)
  BY <1>3, <1>8, <1>10, SplicedSound
<1>12. ASSUME NEW i \in 0 .. a - 1 PROVE s[High(i)] + 1 < l
  <2>1. i \in 0 .. NumRanges(s) - 1 /\ s[High(i)] + 1 < lo /\ i < a
    BY <1>3, <1>4
  <2> QED BY <1>3, <1>5, <2>1, SpreadEdges
<1>13. ASSUME NEW i \in b .. NumRanges(s) - 1 PROVE h + 1 < s[Low(i)]
  <2>1. i \in 0 .. NumRanges(s) - 1 /\ hi + 1 < s[Low(i)] /\ b <= i
    BY <1>3, <1>4
  <2>2. JoinsSup(s, hi, g) => g.at < i
    BY <1>3, <1>4, <2>1
  <2> QED BY <1>3, <1>5, <2>1, <2>2, SpreadEdges
<1>14. Spread(t)
  <2>1. /\ \A i \in 0 .. a - 1, k \in 0 .. NumRanges(m) - 1 : s[High(i)] + 1 < m[Low(k)]
        /\ \A i \in b .. NumRanges(s) - 1, k \in 0 .. NumRanges(m) - 1 : m[High(k)] + 1 < s[Low(i)]
    BY <1>9, <1>12, <1>13
  <2> QED BY <1>3, <1>8, <1>10, <2>1, SplicedSpread
<1>15. ASSUME NEW v \in Int
       PROVE  Holds(t, v) <=> \/ \E i \in 0 .. a - 1 : In(s, i, v)
                              \/ l <= v /\ v <= h
                              \/ \E i \in b .. NumRanges(s) - 1 : In(s, i, v)
  <2>1. Holds(m, v) <=> l <= v /\ v <= h
    <3>1. 0 \in 0 .. NumRanges(m) - 1
      BY <1>8
    <3> QED BY <1>9, <3>1 DEF Holds, In
  <2> QED BY <1>3, <1>8, <1>10, <2>1, SplicedHolds
<1>16. ASSUME NEW v \in Int, Holds(t, v)
       PROVE  Holds(s, v) \/ (lo <= v /\ v <= hi)
  <2>1. CASE \E i \in 0 .. a - 1 : In(s, i, v)
    BY <1>3, <2>1 DEF Holds
  <2>2. CASE \E i \in b .. NumRanges(s) - 1 : In(s, i, v)
    BY <1>3, <2>2 DEF Holds
  <2>3. CASE l <= v /\ v < lo
    <3>1. In(s, a, v) /\ a \in 0 .. NumRanges(s) - 1
      BY <1>3, <1>4, <1>5, <1>6, <2>3 DEF In
    <3> QED BY <3>1 DEF Holds
  <2>4. CASE hi < v /\ v <= h
    <3>1. In(s, g.at, v) /\ g.at \in 0 .. NumRanges(s) - 1
      BY <1>3, <1>4, <1>5, <1>6, <2>4 DEF In
    <3> QED BY <3>1 DEF Holds
  <2> QED BY <1>4, <1>7, <1>15, <1>16, <2>1, <2>2, <2>3, <2>4
<1>17. ASSUME NEW v \in Int, Holds(s, v) \/ (lo <= v /\ v <= hi)
       PROVE  Holds(t, v)
  <2>1. CASE lo <= v /\ v <= hi
    BY <1>4, <1>7, <1>15, <2>1
  <2>2. CASE Holds(s, v)
    <3>1. PICK i \in 0 .. NumRanges(s) - 1 : In(s, i, v)
      BY <2>2 DEF Holds
    <3>2. s[Low(i)] \in Int /\ s[High(i)] \in Int /\ s[Low(i)] <= v /\ v <= s[High(i)]
      BY <3>1, EdgesInt DEF In
    <3>3. CASE i \in 0 .. a - 1
      BY <1>15, <3>1, <3>3
    <3>4. CASE i \in b .. NumRanges(s) - 1
      BY <1>15, <3>1, <3>4
    <3>5. CASE i \in a .. b - 1
      <4>1. l <= s[Low(i)]
        <5>1. CASE JoinsInf(s, lo, f)
          <6>1. i = a \/ a < i
            BY <1>4, <3>5
          <6> QED BY <1>3, <1>5, <5>1, <6>1, <3>2, SpreadEdges
        <5>2. CASE ~JoinsInf(s, lo, f)
          <6>1. i \in f.at .. NumRanges(s) - 1
            BY <1>3, <1>4, <3>5, <5>2
          <6> QED BY <1>3, <1>4, <1>5, <3>2, <5>2, <6>1, BoundedIs
        <5> QED BY <5>1, <5>2
      <4>2. s[High(i)] <= h
        <5>1. CASE JoinsSup(s, hi, g)
          <6>1. i = g.at \/ i < g.at
            BY <1>3, <1>4, <3>5, <5>1
          <6> QED BY <1>3, <1>5, <5>1, <6>1, <3>2, SpreadEdges
        <5>2. CASE ~JoinsSup(s, hi, g)
          <6>1. i < g.at /\ h = hi
            BY <1>3, <1>4, <1>5, <3>5, <5>2
          <6>2. CASE i \in f.at .. g.at - 1
            BY <1>4, <3>2, <6>1, <6>2, BoundedIs
          <6>3. CASE i \in 0 .. f.at - 1
            BY <1>4, <3>2, <6>1, <6>3, BoundedIs
          <6> QED BY <1>4, <6>1, <6>2, <6>3
        <5> QED BY <5>1, <5>2
      <4> QED BY <1>7, <1>15, <3>2, <4>1, <4>2
    <3> QED BY <1>4, <3>3, <3>4, <3>5
  <2> QED BY <1>17, <2>1, <2>2
<1> QED BY <1>11, <1>14, <1>16, <1>17

(* The calls that edit a sorted list. *)
LEMMA SearchIsBounded ==
  ASSUME NEW s, Sound(s), Spread(s), NEW lo \in Int, NEW hi \in Int, lo <= hi,
         NEW f, f = SearchDichotomy(s, lo)
  PROVE  Bounded(s, lo, f, hi, SearchLinearSort(s, f.at, hi))
<1>1. NumRanges(s) \in Nat
  BY NumNat DEF Sound
<1>2. f = SearchLinearSort(s, 0, lo)
  BY DichotomyIs
<1>3. Places(s, 0, NumRanges(s), lo, f)
  BY <1>1, <1>2, LinearIs
<1>4. f.at \in 0 .. NumRanges(s)
  BY <1>3 DEF Places
<1>5. Places(s, f.at, NumRanges(s), hi, SearchLinearSort(s, f.at, hi))
  BY <1>4, LinearIs
<1> QED BY <1>3, <1>5 DEF Bounded

LEMMA AddRangeSortIs ==
  ASSUME NEW s, Sound(s), Spread(s), NEW lo, NEW hi, NEW f, NEW g,
         f = SearchDichotomy(s, lo), g = SearchLinearSort(s, f.at, hi), Bounded(s, lo, f, hi, g)
  PROVE  AddRangeSort(s, lo, hi)
           = Splice(s, Low(FirstTaken(s, lo, f)), <<NewLow(s, lo, f), NewHigh(s, hi, g)>>,
                    Low(FirstLeft(s, hi, g)))
<1> DEFINE t == AddRangeSort(s, lo, hi)
           a == FirstTaken(s, lo, f)
           b == FirstLeft(s, hi, g)
           p == Low(a)
           q == Low(g.at)
           infin == JoinsInf(s, lo, f)
           supin == JoinsSup(s, hi, g)
<1>1. t = CASE infin /\ supin -> Splice(s, p + 1, <<>>, q + 1)
            [] infin /\ ~supin -> Splice(s, p + 1, <<hi>>, q)
            [] ~infin /\ supin -> Splice(s, p, <<lo>>, q + 1)
            [] OTHER -> Splice(s, p, <<lo, hi>>, q)
  <2>1. p = IF Edgeinf(s, lo, f) THEN Low(f.at - 1) ELSE Low(f.at)
    BY DEF FirstTaken
  <2> HIDE DEF p, q
  <2> QED BY <2>1 DEF AddRangeSort, Edgeinf, Edgesup, JoinsInf, JoinsSup, q
<1>2. /\ a \in 0 .. NumRanges(s) /\ g.at \in Nat /\ g.at <= NumRanges(s)
      /\ infin => a \in 0 .. NumRanges(s) - 1
      /\ supin => g.at \in 0 .. NumRanges(s) - 1 /\ b = g.at + 1
      /\ ~supin => b = g.at
      /\ NumRanges(s) \in Nat /\ Len(s) = 2 * NumRanges(s) /\ lo \in Int /\ hi \in Int
  <2>1. g.at \in Nat /\ g.at <= NumRanges(s) /\ lo \in Int /\ hi \in Int
    BY NumNat DEF Bounded, Places, Sound
  <2>2. NumRanges(s) \in Nat /\ Len(s) = 2 * NumRanges(s)
    BY NumNat DEF Sound
  <2> QED BY <2>1, <2>2, JoinsAre
<1> HIDE DEF a, b, t
<1>3. PICK d, e, c : d = p + 1 /\ e = q + 1 /\ c = g.at + 1
  BY Zenon
<1>4. p \in 1 .. Len(s) + 1 /\ q \in Nat
  BY <1>2 DEF Low
<1>5. NewLow(s, lo, f) = (IF infin THEN s[p] ELSE lo) /\ NewHigh(s, hi, g) = (IF supin THEN s[High(g.at)] ELSE hi)
  BY DEF NewLow, NewHigh, a
<1>6. PICK to : to = <<NewLow(s, lo, f), NewHigh(s, hi, g)>>
  BY Zenon
<1>7. SUFFICES t = Splice(s, p, to, Low(b))
  BY <1>6, Zenon DEF t, a, b
<1>8. CASE infin /\ supin
  <2>1. Splice(s, d, <<>>, e) = Splice(s, p, to, Low(c))
    <3>1. to = <<s[p], s[High(g.at)]>>
      BY <1>5, <1>6, <1>8, Zenon
    <3> QED BY <1>2, <1>3, <1>8, <3>1, WriteNone, SMTT(30)
  <2> QED BY <1>1, <1>2, <1>3, <1>8, <2>1
<1>9. CASE infin /\ ~supin
  <2>1. PICK mid : mid = <<hi>>
    BY Zenon
  <2>2. Splice(s, d, mid, q) = Splice(s, p, to, q)
    <3>1. to = <<s[p], hi>>
      BY <1>5, <1>6, <1>9, Zenon
    <3> QED BY <1>2, <1>3, <1>4, <1>9, <2>1, <3>1, WriteAfter
  <2> QED BY <1>1, <1>2, <1>3, <1>9, <2>1, <2>2
<1>10. CASE ~infin /\ supin
  <2>1. PICK mid : mid = <<lo>>
    BY Zenon
  <2>2. Splice(s, p, mid, e) = Splice(s, p, to, Low(c))
    <3>1. to = <<lo, s[High(g.at)]>>
      BY <1>5, <1>6, <1>10, Zenon
    <3>2. /\ Sound(s) /\ g.at \in 0 .. NumRanges(s) - 1 /\ lo \in Int /\ p \in 1 .. Len(s) + 1
          /\ e = Low(g.at) + 1 /\ c = g.at + 1
      BY <1>2, <1>3, <1>4, <1>10
    <3> HIDE DEF p
    <3> QED BY ONLY <2>1, <3>1, <3>2, WriteBefore
  <2> QED BY <1>1, <1>2, <1>3, <1>10, <2>1, <2>2
<1>11. CASE ~infin /\ ~supin
  <2>1. to = <<lo, hi>>
    BY <1>5, <1>6, <1>11, Zenon
  <2> QED BY <1>1, <1>2, <1>11, <2>1
<1> QED BY <1>8, <1>9, <1>10, <1>11

(* An item is added as the range of that item alone. *)
LEMMA AddSortIs ==
  ASSUME NEW s, Sound(s), Spread(s), NEW v \in Int
  PROVE  AddSort(s, v) = IF SearchDichotomy(s, v).in THEN s ELSE AddRangeSort(s, v, v)
<1>1. PICK f, g : f = SearchDichotomy(s, v) /\ g = SearchLinearSort(s, f.at, v)
  BY Zenon
<1>2. Bounded(s, v, f, v, g)
  BY <1>1, SearchIsBounded
<1>3. NumRanges(s) \in Nat /\ f.at \in Nat /\ f.at <= NumRanges(s)
  BY <1>2, NumNat DEF Bounded, Places, Sound
<1>4. g = f
  <2>1. Places(s, f.at, NumRanges(s), v, f)
    <3>1. Places(s, 0, NumRanges(s), v, f) /\ f.at \in f.at .. NumRanges(s)
      BY <1>2, <1>3 DEF Bounded
    <3>2. \A i \in f.at .. f.at - 1 : s[High(i)] < v
      BY <1>3
    <3> QED BY <3>1, <3>2 DEF Places
  <2>2. Places(s, f.at, NumRanges(s), v, g) /\ NumRanges(s) \in 0 .. NumRanges(s)
    BY <1>2, <1>3 DEF Bounded
  <2> QED BY <1>3, <2>1, <2>2, OnePlace
<1>5. CASE f.in
  BY <1>1, <1>5 DEF AddSort
<1>6. CASE ~f.in
  <2> DEFINE p == Low(f.at)
             edge1 == f.at # 0 /\ s[p - 1] + 1 = v
             edge2 == f.at # NumRanges(s) /\ v + 1 = s[p]
  <2>1. f.at # NumRanges(s) <=> f.at < NumRanges(s)
    BY <1>3
  <2>2. f.at # 0 => p - 1 = Low(f.at - 1) + 1
    BY <1>3 DEF Low
  <2>3. AddSort(s, v) = CASE edge1 /\ edge2 -> Splice(s, p - 1, <<>>, p + 1)
                          [] edge1 /\ ~edge2 -> Splice(s, p - 1, <<v>>, p)
                          [] ~edge1 /\ edge2 -> Splice(s, p, <<v>>, p + 1)
                          [] OTHER -> Splice(s, p, <<v, v>>, p)
    BY <1>1, <1>6 DEF AddSort
  <2>4. AddRangeSort(s, v, v)
          = CASE edge1 /\ edge2 -> Splice(s, Low(f.at - 1) + 1, <<>>, p + 1)
              [] edge1 /\ ~edge2 -> Splice(s, Low(f.at - 1) + 1, <<v>>, p)
              [] ~edge1 /\ edge2 -> Splice(s, p, <<v>>, p + 1)
              [] OTHER -> Splice(s, p, <<v, v>>, p)
    BY <1>1, <1>4, <1>6, <2>1 DEF AddRangeSort
  <2> HIDE DEF p
  <2> QED BY <1>1, <1>6, <2>2, <2>3, <2>4
<1> QED BY <1>5, <1>6

(* A sorted list of the items of the set items. *)
HoldsAll(s, items) == \A v \in Int : Holds(s, v) <=> v \in items

LEMMA AddRangeSortDoes ==
  ASSUME NEW s, Sound(s), Spread(s), NEW lo \in Int, NEW hi \in Int, lo <= hi,
         NEW items, HoldsAll(s, items)
  PROVE  LET t == AddRangeSort(s, lo, hi)
         IN  Sound(t) /\ Spread(t) /\ HoldsAll(t, items \union (lo .. hi))
<1>1. PICK f, g, t : /\ f = SearchDichotomy(s, lo) /\ g = SearchLinearSort(s, f.at, hi)
                     /\ t = AddRangeSort(s, lo, hi)
  BY Zenon
<1>2. Bounded(s, lo, f, hi, g)
  BY <1>1, SearchIsBounded
<1>3. t = Splice(s, Low(FirstTaken(s, lo, f)), <<NewLow(s, lo, f), NewHigh(s, hi, g)>>,
                 Low(FirstLeft(s, hi, g)))
  <2>1. AddRangeSort(s, lo, hi)
          = Splice(s, Low(FirstTaken(s, lo, f)), <<NewLow(s, lo, f), NewHigh(s, hi, g)>>,
                   Low(FirstLeft(s, hi, g)))
    BY <1>1, <1>2, AddRangeSortIs
  <2> QED BY <1>1, <2>1, Zenon
<1>4. /\ Sound(t) /\ Spread(t)
      /\ \A v \in Int : Holds(t, v) <=> Holds(s, v) \/ (lo <= v /\ v <= hi)
  BY <1>2, <1>3, AddedSorted
<1>5. HoldsAll(t, items \union (lo .. hi))
  <2>1. \A v \in Int : v \in items \union (lo .. hi) <=> v \in items \/ (lo <= v /\ v <= hi)
    OBVIOUS
  <2> QED BY <1>4, <2>1 DEF HoldsAll
<1> QED BY <1>1, <1>4, <1>5

LEMMA AddSortDoes ==
  ASSUME NEW s, Sound(s), Spread(s), NEW v \in Int, NEW items, HoldsAll(s, items)
  PROVE  LET t == AddSort(s, v)
         IN  Sound(t) /\ Spread(t) /\ HoldsAll(t, items \union {v})
<1>1. CASE SearchDichotomy(s, v).in
  <2>1. AddSort(s, v) = s
    BY <1>1, AddSortIs
  <2>2. PICK f : f = SearchDichotomy(s, v)
    BY Zenon
  <2>3. Places(s, 0, NumRanges(s), v, f)
    BY <2>2, SearchIsBounded DEF Bounded
  <2>4. f.at \in 0 .. NumRanges(s) - 1 /\ In(s, f.at, v)
    <3>1. NumRanges(s) \in Nat
      BY NumNat DEF Sound
    <3> QED BY <1>1, <2>2, <2>3, <3>1 DEF Places, In
  <2>5. v \in items
    BY <2>4 DEF HoldsAll, Holds
  <2>6. items \union {v} = items
    BY <2>5
  <2> QED BY <2>1, <2>6
<1>2. CASE ~SearchDichotomy(s, v).in
  <2>1. AddSort(s, v) = AddRangeSort(s, v, v)
    BY <1>2, AddSortIs
  <2>2. v .. v = {v} /\ v <= v
    OBVIOUS
  <2>3. LET t == AddRangeSort(s, v, v)
        IN  Sound(t) /\ Spread(t) /\ HoldsAll(t, items \union (v .. v))
    BY <2>2, AddRangeSortDoes
  <2> QED BY <2>1, <2>2, <2>3
<1> QED BY <1>1, <1>2

LEMMA DelRangeSortDoes ==
  ASSUME NEW s, Sound(s), Spread(s), NEW lo \in Int, NEW hi \in Int, lo <= hi,
         NEW items, HoldsAll(s, items)
  PROVE  LET t == DelRangeSort(s, lo, hi)
         IN  Sound(t) /\ Spread(t) /\ HoldsAll(t, items \ (lo .. hi))
<1>1. PICK f, g, t : /\ f = SearchDichotomy(s, lo) /\ g = SearchLinearSort(s, f.at, hi)
                     /\ t = DelRangeSort(s, lo, hi)
  BY Zenon
<1>2. Bounded(s, lo, f, hi, g)
  BY <1>1, SearchIsBounded
<1>3. t = Splice(s, Low(f.at), Ends(s, lo, f, hi, g), Low(Past(g)))
  <2>1. DelItems(s, lo, f, hi, g) = Splice(s, Low(f.at), Ends(s, lo, f, hi, g), Low(Past(g)))
    BY <1>2, BoundedIs, DelItemsIs
  <2>2. t = DelItems(s, lo, f, hi, g)
    BY <1>1 DEF DelRangeSort
  <2> QED BY <2>1, <2>2, Zenon
<1>4. /\ Sound(t) /\ Spread(t)
      /\ \A v \in Int : Holds(t, v) <=> Holds(s, v) /\ ~(lo <= v /\ v <= hi)
  BY <1>2, <1>3, DeletedSorted
<1>5. HoldsAll(t, items \ (lo .. hi))
  <2>1. \A v \in Int : v \in items \ (lo .. hi) <=> v \in items /\ ~(lo <= v /\ v <= hi)
    OBVIOUS
  <2> QED BY <1>4, <2>1 DEF HoldsAll
<1> QED BY <1>1, <1>4, <1>5

LEMMA DelSortDoes ==
  ASSUME NEW s, Sound(s), Spread(s), NEW v \in Int, NEW items, HoldsAll(s, items)
  PROVE  LET t == DelSort(s, v)
         IN  Sound(t) /\ Spread(t) /\ HoldsAll(t, items \ {v})
<1>1. PICK f, g : f = SearchDichotomy(s, v) /\ g = SearchLinearSort(s, f.at, v)
  BY Zenon
<1>2. Bounded(s, v, f, v, g)
  BY <1>1, SearchIsBounded
<1>3. NumRanges(s) \in Nat /\ f.at \in Nat /\ f.at <= NumRanges(s)
  BY <1>2, NumNat DEF Bounded, Places, Sound
<1>4. CASE f.in
  <2>1. f.at \in 0 .. NumRanges(s) - 1 /\ In(s, f.at, v) /\ f = Found(f.at)
    BY <1>2, <1>3, <1>4 DEF Bounded, Places, In, Found
  <2>2. DelSort(s, v) = DelItem(s, v, f.at)
    BY <1>1, <1>4 DEF DelSort
  <2>3. PICK t : t = DelSort(s, v)
    BY Zenon
  <2>4. t = Splice(s, Low(f.at), Ends(s, v, f, v, f), Low(f.at + 1))
    <3>1. DelItem(s, v, f.at) = Splice(s, Low(f.at), Ends(s, v, Found(f.at), v, Found(f.at)), Low(f.at + 1))
      BY <2>1, DelItemIs
    <3> QED BY <2>1, <2>2, <2>3, <3>1, Zenon
  <2>5. Bounded(s, v, f, v, f)
    <3>1. Places(s, f.at, NumRanges(s), v, f)
      <4>1. Places(s, 0, NumRanges(s), v, f) /\ f.at \in f.at .. NumRanges(s)
        BY <1>2, <1>3 DEF Bounded
      <4>2. \A i \in f.at .. f.at - 1 : s[High(i)] < v
        BY <1>3
      <4> QED BY <4>1, <4>2 DEF Places
    <3> QED BY <1>2, <3>1 DEF Bounded
  <2>6. Past(f) = f.at + 1
    BY <1>4 DEF Past
  <2>7. /\ Sound(t) /\ Spread(t)
        /\ \A w \in Int : Holds(t, w) <=> Holds(s, w) /\ ~(v <= w /\ w <= v)
    BY <2>4, <2>5, <2>6, DeletedSorted
  <2>8. \A w \in Int : w \in items \ {v} <=> w \in items /\ ~(v <= w /\ w <= v)
    OBVIOUS
  <2> QED BY <2>3, <2>7, <2>8 DEF HoldsAll
<1>5. CASE ~f.in
  <2>1. DelSort(s, v) = s
    BY <1>1, <1>5 DEF DelSort
  <2>2. ~Holds(s, v)
    <3>1. SUFFICES ASSUME NEW i \in 0 .. NumRanges(s) - 1, In(s, i, v) PROVE FALSE
      BY DEF Holds
    <3>2. s[Low(i)] \in Int /\ s[High(i)] \in Int /\ s[Low(i)] <= v /\ v <= s[High(i)]
      BY <3>1, EdgesInt DEF In
    <3>3. CASE i \in 0 .. f.at - 1
      BY <1>2, <3>2, <3>3, BoundedIs
    <3>4. CASE i \in f.at .. NumRanges(s) - 1
      BY <1>2, <1>5, <3>2, <3>4, BoundedIs
    <3> QED BY <1>3, <3>3, <3>4
  <2>3. v \notin items
    BY <2>2 DEF HoldsAll
  <2>4. items \ {v} = items
    BY <2>3
  <2> QED BY <2>1, <2>4
<1> QED BY <1>4, <1>5

-----------------------------------------------------------------------------
(* The edits of a list that is not sorted, turn by turn.                   *)

(* The places of an array and of a search, after each of the n first turns. *)
Start(s) == [edges |-> s, from |-> 0]
DelTurns(f, s, v, n) ==
  f = [k \in 0 .. n |-> IF k = 0 THEN Start(s) ELSE DelTurn(f[k - 1], v)]
DelRangeTurns(f, s, lo, hi, n) ==
  f = [k \in 0 .. n |-> IF k = 0 THEN Start(s) ELSE DelRangeTurn(f[k - 1], lo, hi)]

(* The loop of netwib_priv_ranges_del_notsort has a value at each turn. *)
LEMMA DelTurnsAre ==
  ASSUME NEW s, NEW v, NEW n \in Nat
  PROVE  \E f : DelTurns(f, s, v, n)
<1> DEFINE T == {m \in Nat : ~\E f : DelTurns(f, s, v, m)}
<1>1. SUFFICES ASSUME T # {} PROVE FALSE
  OBVIOUS
<1>2. PICK m \in T : \A j \in T : m <= j
  <2>1. T \subseteq Nat
    OBVIOUS
  <2> HIDE DEF T
  <2> QED BY <1>1, <2>1, LeastOf
<1>3. m # 0
  <2>1. ASSUME m = 0 PROVE FALSE
    <3>1. DelTurns([k \in 0 .. 0 |-> Start(s)], s, v, 0)
      <4>1. \A k \in 0 .. 0 : k = 0
        OBVIOUS
      <4> QED BY <4>1 DEF DelTurns
    <3> QED BY <2>1, <3>1
  <2> QED BY <2>1
<1>4. m \in Nat /\ m - 1 \in Nat /\ ~(m <= m - 1)
  BY <1>3
<1>5. PICK f : DelTurns(f, s, v, m - 1)
  BY <1>2, <1>4
<1>6. \A k \in 0 .. m - 1 : f[k] = IF k = 0 THEN Start(s) ELSE DelTurn(f[k - 1], v)
  BY <1>5 DEF DelTurns
<1> DEFINE g == [k \in 0 .. m |-> IF k \in 0 .. m - 1 THEN f[k] ELSE DelTurn(f[m - 1], v)]
<1>7. ASSUME NEW k \in 0 .. m
      PROVE  g[k] = IF k = 0 THEN Start(s) ELSE DelTurn(g[k - 1], v)
  <2>1. CASE k \in 0 .. m - 1
    <3>1. k # 0 => k - 1 \in 0 .. m - 1 /\ k - 1 \in 0 .. m
      BY <1>4, <2>1
    <3>2. g[k] = f[k] /\ (k # 0 => g[k - 1] = f[k - 1])
      BY <2>1, <3>1
    <3> QED BY <1>6, <2>1, <3>2
  <2>2. CASE k = m
    <3>1. m - 1 \in 0 .. m /\ m - 1 \in 0 .. m - 1 /\ m \notin 0 .. m - 1 /\ m \in 0 .. m
      BY <1>4
    <3>2. g[m - 1] = f[m - 1] /\ g[m] = DelTurn(f[m - 1], v)
      BY <3>1
    <3> QED BY <1>3, <2>2, <3>2
  <2>3. k \in 0 .. m - 1 \/ k = m
    BY <1>4
  <2> QED BY <2>1, <2>2, <2>3
<1>8. DelTurns(g, s, v, m)
  <2>1. g = [k \in 0 .. m |-> g[k]]
    OBVIOUS
  <2> HIDE DEF g
  <2>2. [k \in 0 .. m |-> g[k]]
          = [k \in 0 .. m |-> IF k = 0 THEN Start(s) ELSE DelTurn(g[k - 1], v)]
    BY <1>7
  <2> QED BY <2>1, <2>2 DEF DelTurns
<1> QED BY <1>2, <1>8

LEMMA DelNotSortIs ==
  ASSUME NEW s, Sound(s), NEW v
  PROVE  \E f : /\ f[0] = Start(s)
                /\ \A k \in 1 .. NumRanges(s) : f[k] = DelTurn(f[k - 1], v)
                /\ DelNotSort(s, v) = f[NumRanges(s)].edges
<1> DEFINE n == NumRanges(s)
           At == CHOOSE f : f = [k \in 0 .. NumRanges(s) |->
                   IF k = 0 THEN [edges |-> s, from |-> 0] ELSE DelTurn(f[k - 1], v)]
<1>1. n \in Nat
  BY NumNat DEF Sound
<1>2. DelTurns(At, s, v, n)
  <2>1. PICK f : DelTurns(f, s, v, n)
    BY <1>1, DelTurnsAre
  <2> QED BY <2>1 DEF DelTurns, Start
<1>3. DelNotSort(s, v) = At[n].edges
  BY DEF DelNotSort
<1> HIDE DEF At
<1>4. \A k \in 0 .. n : At[k] = IF k = 0 THEN Start(s) ELSE DelTurn(At[k - 1], v)
  BY <1>2 DEF DelTurns
<1>5. At[0] = Start(s) /\ \A k \in 1 .. n : At[k] = DelTurn(At[k - 1], v)
  BY <1>1, <1>4
<1> QED BY <1>3, <1>5

(* The loop of netwib_priv_ranges_del_range_notsort has a value at each turn. *)
LEMMA DelRangeTurnsAre ==
  ASSUME NEW s, NEW lo, NEW hi, NEW n \in Nat
  PROVE  \E f : DelRangeTurns(f, s, lo, hi, n)
<1> DEFINE T == {m \in Nat : ~\E f : DelRangeTurns(f, s, lo, hi, m)}
<1>1. SUFFICES ASSUME T # {} PROVE FALSE
  OBVIOUS
<1>2. PICK m \in T : \A j \in T : m <= j
  <2>1. T \subseteq Nat
    OBVIOUS
  <2> HIDE DEF T
  <2> QED BY <1>1, <2>1, LeastOf
<1>3. m # 0
  <2>1. ASSUME m = 0 PROVE FALSE
    <3>1. DelRangeTurns([k \in 0 .. 0 |-> Start(s)], s, lo, hi, 0)
      <4>1. \A k \in 0 .. 0 : k = 0
        OBVIOUS
      <4> QED BY <4>1 DEF DelRangeTurns
    <3> QED BY <2>1, <3>1
  <2> QED BY <2>1
<1>4. m \in Nat /\ m - 1 \in Nat /\ ~(m <= m - 1)
  BY <1>3
<1>5. PICK f : DelRangeTurns(f, s, lo, hi, m - 1)
  BY <1>2, <1>4
<1>6. \A k \in 0 .. m - 1 : f[k] = IF k = 0 THEN Start(s) ELSE DelRangeTurn(f[k - 1], lo, hi)
  BY <1>5 DEF DelRangeTurns
<1> DEFINE g == [k \in 0 .. m |-> IF k \in 0 .. m - 1 THEN f[k] ELSE DelRangeTurn(f[m - 1], lo, hi)]
<1>7. ASSUME NEW k \in 0 .. m
      PROVE  g[k] = IF k = 0 THEN Start(s) ELSE DelRangeTurn(g[k - 1], lo, hi)
  <2>1. CASE k \in 0 .. m - 1
    <3>1. k # 0 => k - 1 \in 0 .. m - 1 /\ k - 1 \in 0 .. m
      BY <1>4, <2>1
    <3>2. g[k] = f[k] /\ (k # 0 => g[k - 1] = f[k - 1])
      BY <2>1, <3>1
    <3> QED BY <1>6, <2>1, <3>2
  <2>2. CASE k = m
    <3>1. m - 1 \in 0 .. m /\ m - 1 \in 0 .. m - 1 /\ m \notin 0 .. m - 1 /\ m \in 0 .. m
      BY <1>4
    <3>2. g[m - 1] = f[m - 1] /\ g[m] = DelRangeTurn(f[m - 1], lo, hi)
      BY <3>1
    <3> QED BY <1>3, <2>2, <3>2
  <2>3. k \in 0 .. m - 1 \/ k = m
    BY <1>4
  <2> QED BY <2>1, <2>2, <2>3
<1>8. DelRangeTurns(g, s, lo, hi, m)
  <2>1. g = [k \in 0 .. m |-> g[k]]
    OBVIOUS
  <2> HIDE DEF g
  <2>2. [k \in 0 .. m |-> g[k]]
          = [k \in 0 .. m |-> IF k = 0 THEN Start(s) ELSE DelRangeTurn(g[k - 1], lo, hi)]
    BY <1>7
  <2> QED BY <2>1, <2>2 DEF DelRangeTurns
<1> QED BY <1>2, <1>8

LEMMA DelRangeNotSortIs ==
  ASSUME NEW s, Sound(s), NEW lo, NEW hi
  PROVE  \E f : /\ f[0] = Start(s)
                /\ \A k \in 1 .. 3 * NumRanges(s) : f[k] = DelRangeTurn(f[k - 1], lo, hi)
                /\ DelRangeNotSort(s, lo, hi) = f[3 * NumRanges(s)].edges
<1> DEFINE n == 3 * NumRanges(s)
           At == CHOOSE f : f = [k \in 0 .. 3 * NumRanges(s) |->
                   IF k = 0 THEN [edges |-> s, from |-> 0] ELSE DelRangeTurn(f[k - 1], lo, hi)]
<1>1. n \in Nat
  BY NumNat DEF Sound
<1>2. DelRangeTurns(At, s, lo, hi, n)
  <2>1. PICK f : DelRangeTurns(f, s, lo, hi, n)
    BY <1>1, DelRangeTurnsAre
  <2> QED BY <2>1 DEF DelRangeTurns, Start
<1>3. DelRangeNotSort(s, lo, hi) = At[n].edges
  BY DEF DelRangeNotSort
<1> HIDE DEF At
<1>4. \A k \in 0 .. n : At[k] = IF k = 0 THEN Start(s) ELSE DelRangeTurn(At[k - 1], lo, hi)
  BY <1>2 DEF DelRangeTurns
<1>5. At[0] = Start(s) /\ \A k \in 1 .. n : At[k] = DelRangeTurn(At[k - 1], lo, hi)
  BY <1>1, <1>4
<1> QED BY <1>3, <1>5


-----------------------------------------------------------------------------
(* The items of the ranges one after the other, and what is left of them.  *)

LEMMA IntSeqs ==
  ASSUME NEW u \in Seq(Int)
  PROVE  Joined(u, <<>>) = u /\ Joined(<<>>, u) = u /\ <<>> \in Seq(Int)
BY ConcatEmptySeq DEF Joined

(* f goes through the n first sequences of e and joins them. *)
Run(f, e, n) ==
  /\ f[0] = <<>>
  /\ \A k \in 1 .. n : f[k] = Joined(f[k - 1], e[k]) /\ e[k] \in Seq(Int)

LEMMA RunSeq ==
  ASSUME NEW f, NEW e, NEW n \in Nat, Run(f, e, n), NEW k \in 0 .. n
  PROVE  f[k] \in Seq(Int)
<1> DEFINE T == {m \in 0 .. n : f[m] \notin Seq(Int)}
<1>1. SUFFICES ASSUME T # {} PROVE FALSE
  OBVIOUS
<1>2. PICK m \in T : \A j \in T : m <= j
  <2>1. T \subseteq Nat
    OBVIOUS
  <2> HIDE DEF T
  <2> QED BY <1>1, <2>1, LeastOf
<1>3. m # 0
  <2>1. f[0] \in Seq(Int)
    BY IntSeqs DEF Run
  <2> QED BY <1>2, <2>1
<1>4. m - 1 \in 0 .. n /\ m \in 1 .. n /\ ~(m <= m - 1)
  BY <1>2, <1>3
<1>5. f[m - 1] \in Seq(Int)
  BY <1>2, <1>4
<1>6. f[m] \in Seq(Int)
  BY <1>4, <1>5, JoinedSeq DEF Run
<1> QED BY <1>2, <1>6

LEMMA OneRun ==
  ASSUME NEW f, NEW g, NEW e, NEW n \in Nat, Run(f, e, n), Run(g, e, n), NEW k \in 0 .. n
  PROVE  f[k] = g[k]
<1> DEFINE T == {m \in 0 .. n : f[m] # g[m]}
<1>1. SUFFICES ASSUME T # {} PROVE FALSE
  OBVIOUS
<1>2. PICK m \in T : \A j \in T : m <= j
  <2>1. T \subseteq Nat
    OBVIOUS
  <2> HIDE DEF T
  <2> QED BY <1>1, <2>1, LeastOf
<1>3. m # 0
  <2>1. f[0] = g[0]
    BY DEF Run
  <2> QED BY <1>2, <2>1
<1>4. m - 1 \in 0 .. n /\ m \in 1 .. n /\ ~(m <= m - 1)
  BY <1>2, <1>3
<1>5. f[m - 1] = g[m - 1]
  BY <1>2, <1>4
<1>6. f[m] = g[m]
  BY <1>4, <1>5 DEF Run
<1> QED BY <1>2, <1>6

LEMMA SomeRun ==
  ASSUME NEW e, NEW n \in Nat, \A k \in 1 .. n : e[k] \in Seq(Int)
  PROVE  \E f : Run(f, e, n)
<1> DEFINE T == {m \in 0 .. n : ~\E f : Run(f, e, m)}
<1>1. SUFFICES ASSUME T # {} PROVE FALSE
  <2>1. n \in 0 .. n
    OBVIOUS
  <2> QED BY <2>1
<1>2. PICK m \in T : \A j \in T : m <= j
  <2>1. T \subseteq Nat
    OBVIOUS
  <2> HIDE DEF T
  <2> QED BY <1>1, <2>1, LeastOf
<1>3. m # 0
  <2>1. Run([k \in 0 .. 0 |-> <<>>], e, 0)
    <3>1. \A k \in 1 .. 0 : FALSE
      OBVIOUS
    <3> QED BY <3>1 DEF Run
  <2> QED BY <1>2, <2>1
<1>4. /\ m - 1 \in 0 .. n /\ m \in 1 .. n /\ ~(m <= m - 1) /\ m \in Nat /\ m - 1 \in Nat
  BY <1>2, <1>3
<1>5. PICK f : Run(f, e, m - 1)
  BY <1>2, <1>4
<1> DEFINE g == [k \in 0 .. m |-> IF k = m THEN Joined(f[m - 1], e[m]) ELSE f[k]]
<1>6. \A k \in 0 .. m - 1 : g[k] = f[k]
  <2>1. \A k \in 0 .. m - 1 : k \in 0 .. m /\ k # m
    BY <1>4
  <2> QED BY <2>1
<1>7. g[m] = Joined(f[m - 1], e[m])
  BY <1>4
<1> HIDE DEF g
<1>8. g[0] = <<>>
  BY <1>4, <1>5, <1>6 DEF Run
<1>9. ASSUME NEW k \in 1 .. m PROVE g[k] = Joined(g[k - 1], e[k]) /\ e[k] \in Seq(Int)
  <2>1. CASE k = m
    <3>1. g[m - 1] = f[m - 1]
      BY <1>4, <1>6
    <3> QED BY <1>4, <1>7, <2>1, <3>1
  <2>2. CASE k # m
    <3>1. k \in 1 .. m - 1 /\ k \in 0 .. m - 1 /\ k - 1 \in 0 .. m - 1 /\ k \in 1 .. n
      BY <1>4, <2>2
    <3>2. g[k] = f[k] /\ g[k - 1] = f[k - 1]
      BY <1>6, <3>1
    <3>3. f[k] = Joined(f[k - 1], e[k])
      BY <1>5, <3>1 DEF Run
    <3> QED BY <3>1, <3>2, <3>3
  <2> QED BY <2>1, <2>2
<1>10. Run(g, e, m)
  BY <1>8, <1>9 DEF Run
<1> QED BY <1>2, <1>10

(* FlattenSeq joins them so. *)
LEMMA FlattenIs ==
  ASSUME NEW f, NEW e, NEW n \in Nat, Run(f, e, n), NEW seqs, seqs = [k \in 1 .. n |-> e[k]]
  PROVE  FlattenSeq(seqs) = f[n]
<1>1. seqs \in Seq(Seq(Int)) /\ Len(seqs) = n /\ \A k \in 1 .. n : seqs[k] = e[k]
  <2>1. \A k \in 1 .. n : e[k] \in Seq(Int)
    BY DEF Run
  <2> QED BY <2>1
<1>2. CASE n = 0
  <2>1. seqs = <<>>
    BY <1>1, <1>2
  <2>2. FlattenSeq(seqs) = <<>>
    BY <1>1, <1>2, <2>1 DEF FlattenSeq
  <2> QED BY <1>2, <2>2 DEF Run
<1>3. CASE n # 0
  <2> DEFINE F(h) == [i \in 1 .. Len(seqs) |-> IF i = 1 THEN seqs[i] ELSE h[i - 1] \o seqs[i]]
             flatten == CHOOSE h : h = F(h)
  <2>1. FlattenSeq(seqs) = flatten[n]
    BY <1>1, <1>3 DEF FlattenSeq
  <2>2. ASSUME NEW i \in 1 .. n
        PROVE  f[i] = IF i = 1 THEN seqs[i] ELSE f[i - 1] \o seqs[i]
    <3>1. f[i] = Joined(f[i - 1], e[i]) /\ seqs[i] = e[i] /\ e[i] \in Seq(Int)
      BY <1>1 DEF Run
    <3>2. CASE i = 1
      <4>1. f[i] = Joined(<<>>, e[i])
        BY <3>1, <3>2 DEF Run
      <4> QED BY <3>1, <3>2, <4>1, IntSeqs
    <3>3. CASE i # 1
      BY <3>1, <3>3 DEF Joined
    <3> QED BY <3>2, <3>3
  <2>3. PICK h : h = [i \in 1 .. n |-> f[i]]
    OBVIOUS
  <2>4. h = F(h)
    <3>1. ASSUME NEW i \in 1 .. n
          PROVE  h[i] = IF i = 1 THEN seqs[i] ELSE h[i - 1] \o seqs[i]
      <4>1. i # 1 => i - 1 \in 1 .. n
        OBVIOUS
      <4> QED BY <2>2, <2>3, <4>1
    <3>2. h = [i \in 1 .. n |-> h[i]]
      BY <2>3
    <3>3. [i \in 1 .. n |-> h[i]] = [i \in 1 .. n |-> IF i = 1 THEN seqs[i] ELSE h[i - 1] \o seqs[i]]
      BY <3>1
    <3>4. F(h) = [i \in 1 .. n |-> IF i = 1 THEN seqs[i] ELSE h[i - 1] \o seqs[i]]
      BY <1>1
    <3> QED BY <3>2, <3>3, <3>4, Zenon
  <2>5. flatten = F(flatten)
    <3> HIDE DEF F
    <3> QED BY <2>4, Zenon
  <2> HIDE DEF flatten
  <2>6. \A i \in 1 .. n : flatten[i] = IF i = 1 THEN seqs[i] ELSE flatten[i - 1] \o seqs[i]
    BY <1>1, <2>5
  <2>7. ASSUME NEW i \in 1 .. n, flatten[i] # f[i] PROVE FALSE
    <3> DEFINE T == {m \in 1 .. n : flatten[m] # f[m]}
    <3>1. PICK m \in T : \A j \in T : m <= j
      <4>1. T \subseteq Nat /\ T # {}
        BY <2>7
      <4> HIDE DEF T
      <4> QED BY <4>1, LeastOf
    <3>2. m # 1
      BY <2>2, <2>6, <3>1
    <3>3. m - 1 \in 1 .. n /\ m \in 1 .. n /\ ~(m <= m - 1)
      BY <3>1, <3>2
    <3>4. flatten[m - 1] = f[m - 1]
      BY <3>1, <3>3
    <3> QED BY <2>2, <2>6, <3>1, <3>2, <3>3, <3>4
  <2>8. n \in 1 .. n
    BY <1>3
  <2> QED BY <2>1, <2>7, <2>8
<1> QED BY <1>2, <1>3


(* The items that e gives from a + 1 to b. *)
Section(e, a, b) == FlattenSeq([k \in 1 .. b - a |-> e[a + k]])
Gives(e, a, b) == \A k \in (a + 1) .. b : e[k] \in Seq(Int)

LEMMA SectionRun ==
  ASSUME NEW e, NEW a \in Nat, NEW b \in Nat, a <= b, Gives(e, a, b),
         NEW f, NEW h, h = [k \in 1 .. b - a |-> e[a + k]], Run(f, h, b - a)
  PROVE  Section(e, a, b) = f[b - a] /\ Section(e, a, b) \in Seq(Int)
<1>1. PICK n \in Nat : n = b - a
  OBVIOUS
<1>2. h = [k \in 1 .. n |-> h[k]] /\ Run(f, h, n)
  BY <1>1
<1>3. FlattenSeq(h) = f[n]
  BY <1>2, FlattenIs
<1>4. Section(e, a, b) = f[n]
  BY <1>3 DEF Section
<1>5. f[n] \in Seq(Int)
  <2>1. n \in 0 .. n
    BY <1>1
  <2> QED BY <1>2, <2>1, RunSeq
<1> QED BY <1>1, <1>4, <1>5

LEMMA SectionSome ==
  ASSUME NEW e, NEW a \in Nat, NEW b \in Nat, a <= b, Gives(e, a, b)
  PROVE  \E f, h : h = [k \in 1 .. b - a |-> e[a + k]] /\ Run(f, h, b - a)
<1>1. PICK h : h = [k \in 1 .. b - a |-> e[a + k]]
  BY Zenon
<1>2. \A k \in 1 .. b - a : h[k] \in Seq(Int)
  <2>1. \A k \in 1 .. b - a : a + k \in (a + 1) .. b
    OBVIOUS
  <2> QED BY <1>1, <2>1 DEF Gives
<1>3. b - a \in Nat
  OBVIOUS
<1> QED BY <1>1, <1>2, <1>3, SomeRun

LEMMA SectionSeq ==
  ASSUME NEW e, NEW a \in Nat, NEW b \in Nat, a <= b, Gives(e, a, b)
  PROVE  Section(e, a, b) \in Seq(Int)
BY SectionSome, SectionRun

LEMMA SectionNone ==
  ASSUME NEW e, NEW a \in Nat
  PROVE  Section(e, a, a) = <<>>
<1>1. Gives(e, a, a)
  <2>1. \A k \in (a + 1) .. a : FALSE
    OBVIOUS
  <2> QED BY <2>1 DEF Gives
<1>2. PICK b \in Nat : b = a /\ a <= b /\ b - a = 0
  OBVIOUS
<1>3. PICK f, h : h = [k \in 1 .. b - a |-> e[a + k]] /\ Run(f, h, b - a)
  BY <1>1, <1>2, SectionSome
<1>4. Section(e, a, b) = f[b - a]
  BY <1>1, <1>2, <1>3, SectionRun, ZenonT(60)
<1> QED BY <1>2, <1>3, <1>4 DEF Run

LEMMA SectionOn ==
  ASSUME NEW e, NEW a \in Nat, NEW b \in Nat, a <= b, NEW c, c = b + 1, Gives(e, a, c)
  PROVE  Section(e, a, c) = Joined(Section(e, a, b), e[c])
<1>1. c \in Nat /\ a <= c /\ c - a = (b - a) + 1 /\ b - a \in Nat
  OBVIOUS
<1>2. PICK f, h : h = [k \in 1 .. c - a |-> e[a + k]] /\ Run(f, h, c - a)
  BY <1>1, SectionSome
<1>3. PICK g : g = [k \in 1 .. b - a |-> e[a + k]]
  BY Zenon
<1>4. ASSUME NEW k \in 1 .. b - a PROVE k \in 1 .. c - a /\ g[k] = h[k]
  <2>1. k \in 1 .. c - a
    BY <1>1
  <2> QED BY <1>2, <1>3, <2>1
<1>5. Run(f, g, b - a)
  BY <1>2, <1>4 DEF Run
<1>6. Gives(e, a, b)
  <2>1. \A k \in (a + 1) .. b : k \in (a + 1) .. c
    OBVIOUS
  <2> QED BY <2>1 DEF Gives
<1>7. Section(e, a, b) = f[b - a]
  BY <1>3, <1>5, <1>6, SectionRun
<1>8. Section(e, a, c) = f[c - a]
  BY <1>1, <1>2, SectionRun
<1>9. f[c - a] = Joined(f[b - a], e[c])
  <2>1. c - a \in 1 .. c - a /\ (c - a) - 1 = b - a /\ a + (c - a) = c
    BY <1>1
  <2>2. h[c - a] = e[c]
    BY <1>2, <2>1
  <2>3. f[c - a] = Joined(f[(c - a) - 1], h[c - a])
    BY <1>2, <2>1 DEF Run
  <2> QED BY <2>1, <2>2, <2>3
<1> QED BY <1>7, <1>8, <1>9

LEMMA SectionSplit ==
  ASSUME NEW e, NEW a \in Nat, NEW b \in Nat, NEW c \in Nat, a <= b, b <= c, Gives(e, a, c)
  PROVE  Section(e, a, c) = Joined(Section(e, a, b), Section(e, b, c))
<1>1. ASSUME NEW d \in b .. c PROVE Gives(e, a, d) /\ Gives(e, b, d) /\ d \in Nat /\ a <= d /\ b <= d
  <2>1. /\ \A k \in (a + 1) .. d : k \in (a + 1) .. c
        /\ \A k \in (b + 1) .. d : k \in (a + 1) .. c
    OBVIOUS
  <2> QED BY <2>1 DEF Gives
<1> DEFINE T == {d \in b .. c : Section(e, a, d) # Joined(Section(e, a, b), Section(e, b, d))}
<1>2. SUFFICES ASSUME T # {} PROVE FALSE
  <2>1. c \in b .. c
    OBVIOUS
  <2> QED BY <2>1
<1>3. PICK m \in T : \A j \in T : m <= j
  <2>1. T \subseteq Nat
    OBVIOUS
  <2> HIDE DEF T
  <2> QED BY <1>2, <2>1, LeastOf
<1>4. m # b
  <2>1. b \in b .. c
    OBVIOUS
  <2>2. Section(e, a, b) \in Seq(Int)
    BY <1>1, <2>1, SectionSeq
  <2>3. Section(e, a, b) = Joined(Section(e, a, b), Section(e, b, b))
    BY <2>2, SectionNone, IntSeqs
  <2> QED BY <1>3, <2>3
<1>5. PICK d \in b .. c : m = d + 1
  <2>1. m - 1 \in b .. c /\ m = (m - 1) + 1
    BY <1>3, <1>4
  <2> QED BY <2>1
<1>6. /\ d \in Nat /\ a <= d /\ b <= d /\ ~(m <= d) /\ m \in b .. c
      /\ Gives(e, a, m) /\ Gives(e, b, m) /\ Gives(e, a, d) /\ Gives(e, b, d)
  BY <1>1, <1>3, <1>5
<1>7. Section(e, a, d) = Joined(Section(e, a, b), Section(e, b, d))
  BY <1>3, <1>6
<1>8. /\ Section(e, a, m) = Joined(Section(e, a, d), e[m])
      /\ Section(e, b, m) = Joined(Section(e, b, d), e[m])
  BY <1>5, <1>6, SectionOn
<1>9. /\ Section(e, a, b) \in Seq(Int) /\ Section(e, b, d) \in Seq(Int) /\ e[m] \in Seq(Int)
  <2>1. b \in b .. c /\ m \in (a + 1) .. m
    BY <1>6
  <2> QED BY <1>1, <1>6, <2>1, SectionSeq DEF Gives
<1>10. Section(e, a, m) = Joined(Section(e, a, b), Section(e, b, m))
  BY <1>7, <1>8, <1>9, JoinedThree
<1> QED BY <1>3, <1>10

(* Two sections that give the same things. *)
Alike(e, a, b, h, c, d) == d - c = b - a /\ \A k \in 1 .. b - a : e[a + k] = h[c + k]

LEMMA SectionSame ==
  ASSUME NEW e, NEW a, NEW b, NEW h, NEW c, NEW d, Alike(e, a, b, h, c, d)
  PROVE  Section(e, a, b) = Section(h, c, d)
<1>1. [k \in 1 .. b - a |-> e[a + k]] = [k \in 1 .. d - c |-> h[c + k]]
  BY DEF Alike
<1> QED BY <1>1, Zenon DEF Section

(* From one item to another one, in order. *)
LEMMA UptoIs ==
  ASSUME NEW l \in Int, NEW h \in Int
  PROVE  /\ Upto(l, h) \in Seq(Int)
         /\ l <= h + 1 => Len(Upto(l, h)) = h - l + 1
         /\ \A k \in 1 .. h - l + 1 : Upto(l, h)[k] = l + k - 1
<1>1. \A k \in 1 .. h - l + 1 : l + k - 1 \in Int
  OBVIOUS
<1>2. CASE l <= h + 1
  <2>1. h - l + 1 \in Nat
    BY <1>2
  <2> QED BY <1>1, <2>1 DEF Upto
<1>3. CASE ~(l <= h + 1)
  <2>1. 1 .. h - l + 1 = 1 .. 0
    BY <1>3
  <2>2. Upto(l, h) = [k \in 1 .. 0 |-> l + k - 1]
    BY <2>1 DEF Upto
  <2>3. Upto(l, h) \in Seq(Int)
    BY <2>2
  <2> QED BY <1>3, <2>1, <2>3
<1> QED BY <1>2, <1>3

LEMMA UptoJoined ==
  ASSUME NEW l \in Int, NEW m \in Int, NEW h \in Int, l <= m + 1, m <= h, NEW n, n = m + 1
  PROVE  Upto(l, h) = Joined(Upto(l, m), Upto(n, h))
<1>1. PICK u, w, x : u = Upto(l, m) /\ w = Upto(n, h) /\ x = Upto(l, h)
  BY Zenon
<1>2. n \in Int /\ n <= h + 1 /\ l <= h + 1
  OBVIOUS
<1>3. /\ u \in Seq(Int) /\ Len(u) = m - l + 1 /\ \A k \in 1 .. m - l + 1 : u[k] = l + k - 1
      /\ w \in Seq(Int) /\ Len(w) = h - n + 1 /\ \A k \in 1 .. h - n + 1 : w[k] = n + k - 1
      /\ x \in Seq(Int) /\ Len(x) = h - l + 1 /\ \A k \in 1 .. h - l + 1 : x[k] = l + k - 1
  BY <1>1, <1>2, UptoIs
<1>4. PICK y : y = u \o w
  BY Zenon
<1>5. /\ y \in Seq(Int) /\ Len(y) = Len(u) + Len(w)
      /\ \A k \in 1 .. Len(u) : y[k] = u[k]
      /\ \A k \in 1 .. Len(w) : y[Len(u) + k] = w[k]
  BY <1>3, <1>4, JoinIs
<1>6. Len(y) = Len(x)
  BY <1>3, <1>5
<1>7. ASSUME NEW k \in 1 .. Len(x) PROVE x[k] = y[k]
  <2>1. CASE k \in 1 .. Len(u)
    BY <1>3, <1>5, <2>1
  <2>2. CASE k \notin 1 .. Len(u)
    <3>1. PICK j \in 1 .. Len(w) : k = Len(u) + j
      <4>1. k - Len(u) \in 1 .. Len(w) /\ k = Len(u) + (k - Len(u))
        BY <1>3, <1>6, <2>2
      <4> QED BY <4>1
    <3>2. y[k] = n + j - 1 /\ x[k] = l + k - 1
      BY <1>3, <1>5, <3>1
    <3> QED BY <1>3, <3>1, <3>2
  <2> QED BY <2>1, <2>2
<1>8. x = y
  BY <1>3, <1>5, <1>6, <1>7, SeqEqual
<1> QED BY <1>1, <1>4, <1>8, Zenon DEF Joined


(* The items of an array, range after range. *)
Spans(s) == [k \in 1 .. NumRanges(s) |-> Upto(s[Low(k - 1)], s[High(k - 1)])]

LEMMA ItemsAre ==
  ASSUME NEW s, Sound(s), NEW k \in 1 .. NumRanges(s), NEW i, i = k - 1
  PROVE  Spans(s)[k] = Upto(s[Low(i)], s[High(i)]) /\ Spans(s)[k] \in Seq(Int)
<1>1. NumRanges(s) \in Nat
  BY NumNat DEF Sound
<1>2. i \in 0 .. NumRanges(s) - 1
  BY <1>1
<1>3. s[Low(i)] \in Int /\ s[High(i)] \in Int
  BY <1>2, EdgesInt
<1>4. Spans(s)[k] = Upto(s[Low(i)], s[High(i)])
  BY DEF Spans
<1> QED BY <1>3, <1>4, UptoIs, ZenonT(60)

LEMMA ItemsGive ==
  ASSUME NEW s, Sound(s), NEW a \in Nat, NEW b \in 0 .. NumRanges(s)
  PROVE  Gives(Spans(s), a, b)
<1>1. NumRanges(s) \in Nat
  BY NumNat DEF Sound
<1>2. ASSUME NEW k \in (a + 1) .. b PROVE Spans(s)[k] \in Seq(Int)
  <2>1. k \in 1 .. NumRanges(s)
    BY <1>1
  <2> QED BY <2>1, ItemsAre
<1> QED BY <1>2 DEF Gives

LEMMA ListedIs ==
  ASSUME NEW s, Sound(s)
  PROVE  Listed(s) = Section(Spans(s), 0, NumRanges(s)) /\ Listed(s) \in Seq(Int)
<1>1. NumRanges(s) \in Nat
  BY NumNat DEF Sound
<1>2. [k \in 1 .. NumRanges(s) - 0 |-> Spans(s)[0 + k]]
        = [k \in 1 .. NumRanges(s) |-> Upto(s[Low(k - 1)], s[High(k - 1)])]
  BY <1>1 DEF Spans
<1>3. Listed(s) = Section(Spans(s), 0, NumRanges(s))
  BY <1>2, Zenon DEF Listed, Section
<1>4. Gives(Spans(s), 0, NumRanges(s)) /\ 0 <= NumRanges(s)
  BY <1>1, ItemsGive
<1> QED BY <1>1, <1>3, <1>4, SectionSeq

(* Those that are not from lo to hi. *)
Keep(v, lo, hi) == IF v < lo \/ v > hi THEN <<v>> ELSE <<>>
Keeps(s, lo, hi) == [k \in 1 .. Len(s) |-> Keep(s[k], lo, hi)]

LEMMA KeepsGive ==
  ASSUME NEW s \in Seq(Int), NEW lo, NEW hi, NEW a \in Nat, NEW b \in 0 .. Len(s)
  PROVE  Gives(Keeps(s, lo, hi), a, b)
<1>1. ASSUME NEW k \in (a + 1) .. b PROVE Keeps(s, lo, hi)[k] \in Seq(Int)
  <2>1. k \in 1 .. Len(s) /\ s[k] \in Int
    OBVIOUS
  <2>2. Keeps(s, lo, hi)[k] = Keep(s[k], lo, hi)
    BY <2>1 DEF Keeps
  <2>3. Keep(s[k], lo, hi) \in Seq(Int)
    BY <2>1 DEF Keep
  <2> QED BY <2>2, <2>3
<1> QED BY <1>1 DEF Gives

LEMMA WithoutIs ==
  ASSUME NEW s \in Seq(Int), NEW lo, NEW hi
  PROVE  /\ Without(s, lo, hi) = Section(Keeps(s, lo, hi), 0, Len(s))
         /\ Without(s, lo, hi) \in Seq(Int)
<1>1. Len(s) \in Nat
  OBVIOUS
<1>2. [k \in 1 .. Len(s) - 0 |-> Keeps(s, lo, hi)[0 + k]]
        = [k \in 1 .. Len(s) |-> IF s[k] < lo \/ s[k] > hi THEN <<s[k]>> ELSE <<>>]
  BY <1>1 DEF Keeps, Keep
<1>3. Without(s, lo, hi) = Section(Keeps(s, lo, hi), 0, Len(s))
  BY <1>2, Zenon DEF Without, Section
<1>4. Gives(Keeps(s, lo, hi), 0, Len(s)) /\ 0 <= Len(s)
  BY <1>1, KeepsGive
<1> QED BY <1>1, <1>3, <1>4, SectionSeq

LEMMA WithoutJoined ==
  ASSUME NEW u \in Seq(Int), NEW w \in Seq(Int), NEW lo, NEW hi
  PROVE  Without(Joined(u, w), lo, hi) = Joined(Without(u, lo, hi), Without(w, lo, hi))
<1>1. PICK y, a, b, n : y = Joined(u, w) /\ a = Len(u) /\ b = Len(w) /\ n = Len(u) + Len(w)
  BY Zenon
<1>2. /\ a \in Nat /\ b \in Nat /\ n \in Nat /\ n = a + b /\ a <= n /\ 0 <= a /\ n - a = b - 0
      /\ a - 0 = a /\ a = Len(u) /\ b = Len(w)
  BY <1>1
<1>3. /\ y \in Seq(Int) /\ Len(y) = n
      /\ \A k \in 1 .. a : y[k] = u[k]
      /\ \A k \in 1 .. b : y[a + k] = w[k]
  BY <1>1, JoinIs DEF Joined
<1> DEFINE Ky == Keeps(y, lo, hi)
           Ku == Keeps(u, lo, hi)
           Kw == Keeps(w, lo, hi)
<1>4. \A k \in 1 .. a - 0 : Ky[0 + k] = Ku[0 + k]
  BY <1>2, <1>3 DEF Keeps
<1>5. \A k \in 1 .. n - a : Ky[a + k] = Kw[0 + k]
  BY <1>2, <1>3 DEF Keeps
<1>6. Gives(Ky, 0, n)
  BY <1>2, <1>3, KeepsGive
<1> HIDE DEF Ky, Ku, Kw
<1>7. Section(Ky, 0, n) = Joined(Section(Ky, 0, a), Section(Ky, a, n))
  BY <1>2, <1>6, SectionSplit
<1>8. Section(Ky, 0, a) = Section(Ku, 0, a)
  <2>1. Alike(Ky, 0, a, Ku, 0, a)
    BY <1>2, <1>4 DEF Alike
  <2> QED BY <2>1, SectionSame
<1>9. Section(Ky, a, n) = Section(Kw, 0, b)
  <2>1. Alike(Ky, a, n, Kw, 0, b)
    BY <1>2, <1>5 DEF Alike
  <2> QED BY <2>1, SectionSame
<1>10. /\ Without(y, lo, hi) = Section(Ky, 0, n)
       /\ Without(u, lo, hi) = Section(Ku, 0, a)
       /\ Without(w, lo, hi) = Section(Kw, 0, b)
  BY <1>1, <1>3, WithoutIs DEF Ky, Ku, Kw
<1> QED BY <1>1, <1>7, <1>8, <1>9, <1>10, Zenon

(* Nothing, everything, is from lo to hi. *)
LEMMA WithoutAll ==
  ASSUME NEW s \in Seq(Int), NEW lo \in Int, NEW hi \in Int,
         \A k \in 1 .. Len(s) : s[k] < lo \/ s[k] > hi
  PROVE  Without(s, lo, hi) = s
<1>1. PICK n \in Nat : n = Len(s)
  OBVIOUS
<1>2. PICK f, e : /\ f = [k \in 0 .. n |-> SubSeq(s, 1, k)]
                  /\ e = [k \in 1 .. n |-> IF s[k] < lo \/ s[k] > hi THEN <<s[k]>> ELSE <<>>]
  BY Zenon
<1>3. f[0] = <<>>
  <2>1. f[0] = SubSeq(s, 1, 0)
    BY <1>1, <1>2
  <2>2. SubSeq(s, 1, 0) = <<>>
    BY SubSeqEmpty
  <2> QED BY <2>1, <2>2
<1>4. ASSUME NEW k \in 1 .. n PROVE f[k] = Joined(f[k - 1], e[k]) /\ e[k] \in Seq(Int)
  <2>1. e[k] = <<s[k]>> /\ s[k] \in Int
    BY <1>1, <1>2
  <2>2. f[k] = SubSeq(s, 1, k) /\ f[k - 1] = SubSeq(s, 1, k - 1)
    BY <1>1, <1>2, SMTT(30)
  <2>3. SubSeq(s, 1, k) = SubSeq(s, 1, k - 1) \o <<s[k]>>
    <3>1. 1 \in 1 .. Len(s) /\ k \in 1 .. Len(s)
      BY <1>1
    <3> QED BY <3>1, SubSeqRecursiveSecond
  <2> QED BY <2>1, <2>2, <2>3 DEF Joined
<1>5. Run(f, e, n)
  BY <1>3, <1>4 DEF Run
<1>6. e = [k \in 1 .. n |-> e[k]]
  BY <1>2
<1>7. FlattenSeq(e) = f[n]
  BY <1>5, <1>6, FlattenIs
<1>8. Without(s, lo, hi) = FlattenSeq(e)
  BY <1>1, <1>2, Zenon DEF Without
<1>9. f[n] = s
  <2>1. f[n] = SubSeq(s, 1, n)
    BY <1>1, <1>2
  <2>2. SubSeq(s, 1, n) = s
    BY <1>1, SubSeqFull
  <2> QED BY <2>1, <2>2
<1> QED BY <1>7, <1>8, <1>9

LEMMA WithoutNone ==
  ASSUME NEW s \in Seq(Int), NEW lo \in Int, NEW hi \in Int,
         \A k \in 1 .. Len(s) : lo <= s[k] /\ s[k] <= hi
  PROVE  Without(s, lo, hi) = <<>>
<1>1. PICK n \in Nat : n = Len(s)
  OBVIOUS
<1>2. PICK f, e : /\ f = [k \in 0 .. n |-> <<>>]
                  /\ e = [k \in 1 .. n |-> IF s[k] < lo \/ s[k] > hi THEN <<s[k]>> ELSE <<>>]
  BY Zenon
<1>3. ASSUME NEW k \in 1 .. n PROVE f[k] = Joined(f[k - 1], e[k]) /\ e[k] \in Seq(Int)
  <2>1. e[k] = <<>>
    <3>1. s[k] \in Int /\ lo <= s[k] /\ s[k] <= hi
      BY <1>1
    <3>2. ~(s[k] < lo \/ s[k] > hi)
      BY <3>1
    <3> QED BY <1>2, <3>2
  <2>2. f[k] = <<>> /\ f[k - 1] = <<>>
    BY <1>2
  <2> QED BY <2>1, <2>2, IntSeqs
<1>4. f[0] = <<>> /\ f[n] = <<>>
  BY <1>1, <1>2
<1>5. Run(f, e, n)
  BY <1>3, <1>4 DEF Run
<1>6. e = [k \in 1 .. n |-> e[k]]
  BY <1>2
<1>7. FlattenSeq(e) = f[n]
  BY <1>5, <1>6, FlattenIs
<1>8. Without(s, lo, hi) = FlattenSeq(e)
  BY <1>1, <1>2, Zenon DEF Without
<1> QED BY <1>4, <1>7, <1>8


LEMMA WithoutUpto ==
  ASSUME NEW l \in Int, NEW h \in Int, NEW lo \in Int, NEW hi \in Int
  PROVE  /\ lo > h \/ hi < l => Without(Upto(l, h), lo, hi) = Upto(l, h)
         /\ lo <= l /\ h <= hi => Without(Upto(l, h), lo, hi) = <<>>
<1>1. PICK u : u = Upto(l, h)
  BY Zenon
<1>2. u \in Seq(Int) /\ \A k \in 1 .. Len(u) : l <= u[k] /\ u[k] <= h
  <2>1. CASE l <= h + 1
    <3>1. u \in Seq(Int) /\ Len(u) = h - l + 1 /\ \A k \in 1 .. h - l + 1 : u[k] = l + k - 1
      BY <1>1, <2>1, UptoIs
    <3>2. ASSUME NEW k \in 1 .. Len(u) PROVE l <= u[k] /\ u[k] <= h
      BY <3>1
    <3> QED BY <3>1, <3>2
  <2>2. CASE ~(l <= h + 1)
    <3>1. 1 .. h - l + 1 = 1 .. 0
      BY <2>2
    <3>2. u = [k \in 1 .. 0 |-> l + k - 1]
      BY <1>1, <3>1 DEF Upto
    <3>3. u \in Seq(Int) /\ Len(u) = 0
      BY <3>2
    <3> QED BY <3>3
  <2> QED BY <2>1, <2>2
<1>3. CASE lo > h \/ hi < l
  <2>1. \A k \in 1 .. Len(u) : u[k] < lo \/ u[k] > hi
    BY <1>2, <1>3
  <2>2. Without(u, lo, hi) = u
    BY <1>2, <2>1, WithoutAll
  <2>3. ~(lo <= l /\ h <= hi) \/ Without(u, lo, hi) = <<>>
    <3>1. ASSUME lo <= l, h <= hi PROVE Without(u, lo, hi) = <<>>
      <4>1. \A k \in 1 .. Len(u) : lo <= u[k] /\ u[k] <= hi
        BY <1>2, <3>1
      <4> QED BY <1>2, <4>1, WithoutNone
    <3> QED BY <3>1
  <2> QED BY <1>1, <2>2, <2>3, Zenon
<1>4. CASE ~(lo > h \/ hi < l)
  <2>1. ASSUME lo <= l, h <= hi PROVE Without(u, lo, hi) = <<>>
    <3>1. \A k \in 1 .. Len(u) : lo <= u[k] /\ u[k] <= hi
      BY <1>2, <2>1
    <3> QED BY <1>2, <3>1, WithoutNone
  <2> QED BY <1>1, <1>4, <2>1, Zenon
<1> QED BY <1>3, <1>4

(* The items before a range, those of the range, and those after it. *)
LEMMA ListedSplit ==
  ASSUME NEW s, Sound(s), NEW i \in 0 .. NumRanges(s) - 1, NEW j, j = i + 1
  PROVE  LET u == Section(Spans(s), 0, i)
             w == Section(Spans(s), j, NumRanges(s))
         IN  /\ u \in Seq(Int) /\ w \in Seq(Int)
             /\ Listed(s) = Joined(Joined(u, Upto(s[Low(i)], s[High(i)])), w)
<1>1. PICK n, e : n = NumRanges(s) /\ e = Spans(s)
  BY Zenon
<1>2. /\ n \in Nat /\ i \in Nat /\ j \in Nat /\ 0 <= i /\ i <= n /\ i <= j /\ j <= n /\ 0 <= j
      /\ i \in 0 .. n /\ j \in 0 .. n /\ n \in 0 .. n /\ j \in 1 .. n /\ i = j - 1 /\ 0 \in Nat
  BY <1>1, NumNat DEF Sound
<1>3. Gives(e, 0, n) /\ Gives(e, 0, j) /\ Gives(e, 0, i) /\ Gives(e, j, n)
  BY <1>1, <1>2, ItemsGive
<1>4. Section(e, 0, n) = Joined(Section(e, 0, j), Section(e, j, n))
  BY <1>2, <1>3, SectionSplit
<1>5. Section(e, 0, j) = Joined(Section(e, 0, i), e[j])
  BY <1>2, <1>3, SectionOn
<1>6. e[j] = Upto(s[Low(i)], s[High(i)])
  BY <1>1, <1>2, ItemsAre
<1>7. Listed(s) = Section(e, 0, n)
  BY <1>1, ListedIs
<1>8. Section(e, 0, i) \in Seq(Int) /\ Section(e, j, n) \in Seq(Int)
  BY <1>2, <1>3, SectionSeq
<1> QED BY <1>1, <1>4, <1>5, <1>6, <1>7, <1>8, Zenon

(* An edit puts the items of the new ranges in the place of the others. *)
LEMMA ListedSpliced ==
  ASSUME NEW t, NEW s, NEW m, NEW a \in 0 .. NumRanges(s), NEW b \in a .. NumRanges(s),
         Sound(s), Sound(m), Spliced(t, s, a, b, m)
  PROVE  Listed(t) = Joined(Joined(Section(Spans(s), 0, a), Listed(m)),
                            Section(Spans(s), b, NumRanges(s)))
<1>1. PICK n, k, c, d : n = NumRanges(s) /\ k = NumRanges(m) /\ c = NumRanges(t) /\ d = a + k
  BY Zenon
<1>2. Sound(t)
  BY SplicedSound
<1>3. /\ n \in Nat /\ k \in Nat /\ c \in Nat
  BY <1>1, <1>2, NumNat DEF Sound
<1>4. /\ c = n + k + a - b
      /\ \A i \in 0 .. a - 1 : t[Low(i)] = s[Low(i)] /\ t[High(i)] = s[High(i)]
      /\ \A i \in 0 .. k - 1 : t[Low(a + i)] = m[Low(i)] /\ t[High(a + i)] = m[High(i)]
      /\ \A i \in b .. n - 1 : /\ t[Low(i - b + a + k)] = s[Low(i)]
                               /\ t[High(i - b + a + k)] = s[High(i)]
  BY <1>1 DEF Spliced
<1>5. /\ a \in Nat /\ b \in Nat /\ d \in Nat /\ a <= d /\ d <= c /\ a <= c /\ a <= b /\ b <= n
      /\ 0 <= a /\ 0 \in Nat /\ 0 <= d /\ 0 <= c /\ c \in 0 .. c /\ d \in 0 .. c
  BY <1>1, <1>3, <1>4
<1> DEFINE Et == Spans(t)
           Es == Spans(s)
           Em == Spans(m)
<1>6. Alike(Et, 0, a, Es, 0, a)
  <2>1. ASSUME NEW x \in 1 .. a - 0 PROVE Et[0 + x] = Es[0 + x]
    <3>1. PICK i : i = x - 1
      BY Zenon
    <3>2. i \in 0 .. a - 1 /\ x \in 1 .. NumRanges(t) /\ x \in 1 .. NumRanges(s) /\ 0 + x = x
      BY <1>1, <1>3, <1>5, <3>1
    <3>3. /\ Spans(t)[x] = Upto(t[Low(i)], t[High(i)])
          /\ Spans(s)[x] = Upto(s[Low(i)], s[High(i)])
      BY <1>2, <3>1, <3>2, ItemsAre
    <3> QED BY <1>4, <3>2, <3>3
  <2> HIDE DEF Et, Es
  <2> QED BY <2>1 DEF Alike
<1>7. Alike(Et, a, d, Em, 0, k)
  <2>1. ASSUME NEW x \in 1 .. d - a PROVE Et[a + x] = Em[0 + x]
    <3>1. PICK i, y, j : i = x - 1 /\ y = a + x /\ j = a + i
      BY Zenon
    <3>2. /\ i \in 0 .. k - 1 /\ y \in 1 .. NumRanges(t) /\ x \in 1 .. NumRanges(m) /\ 0 + x = x
          /\ j = y - 1
      BY <1>1, <1>3, <1>5, <3>1
    <3>3. /\ Spans(t)[y] = Upto(t[Low(j)], t[High(j)])
          /\ Spans(m)[x] = Upto(m[Low(i)], m[High(i)])
      BY <1>2, <3>1, <3>2, ItemsAre
    <3>4. t[Low(j)] = m[Low(i)] /\ t[High(j)] = m[High(i)]
      BY <1>4, <3>1, <3>2
    <3> QED BY <3>1, <3>2, <3>3, <3>4
  <2>2. k - 0 = d - a
    BY <1>1, <1>3, <1>5
  <2> HIDE DEF Et, Em
  <2> QED BY <2>1, <2>2 DEF Alike
<1>8. Alike(Et, d, c, Es, b, n)
  <2>1. ASSUME NEW x \in 1 .. c - d PROVE Et[d + x] = Es[b + x]
    <3>1. PICK i, y, j, z : i = b + x - 1 /\ y = d + x /\ j = i - b + a + k /\ z = b + x
      BY Zenon
    <3>2. /\ i \in b .. n - 1 /\ y \in 1 .. NumRanges(t) /\ z \in 1 .. NumRanges(s)
          /\ j = y - 1 /\ i = z - 1
      BY <1>1, <1>3, <1>4, <1>5, <3>1
    <3>3. /\ Spans(t)[y] = Upto(t[Low(j)], t[High(j)])
          /\ Spans(s)[z] = Upto(s[Low(i)], s[High(i)])
      BY <1>2, <3>1, <3>2, ItemsAre
    <3>4. t[Low(j)] = s[Low(i)] /\ t[High(j)] = s[High(i)]
      BY <1>4, <3>1, <3>2
    <3> QED BY <3>1, <3>2, <3>3, <3>4
  <2>2. n - b = c - d
    BY <1>1, <1>3, <1>4, <1>5
  <2> HIDE DEF Et, Es
  <2> QED BY <2>1, <2>2 DEF Alike
<1>9. Gives(Et, 0, c) /\ Gives(Et, 0, d)
  BY <1>1, <1>2, <1>5, ItemsGive
<1>10. Listed(t) = Section(Et, 0, c) /\ Listed(m) = Section(Em, 0, k)
  BY <1>1, <1>2, ListedIs
<1> HIDE DEF Et, Es, Em
<1>11. /\ Section(Et, 0, c) = Joined(Section(Et, 0, d), Section(Et, d, c))
       /\ Section(Et, 0, d) = Joined(Section(Et, 0, a), Section(Et, a, d))
  BY <1>3, <1>5, <1>9, SectionSplit
<1>12. /\ Section(Et, 0, a) = Section(Es, 0, a)
       /\ Section(Et, a, d) = Section(Em, 0, k)
       /\ Section(Et, d, c) = Section(Es, b, n)
  BY <1>6, <1>7, <1>8, SectionSame
<1> QED BY <1>1, <1>10, <1>11, <1>12, Zenon DEF Es

(* One range, and two. *)
LEMMA ListedNone == Listed(<<>>) = <<>>
BY NoneIs, ListedIs, SectionNone

LEMMA ListedPair ==
  ASSUME NEW l \in Int, NEW h \in Int, l <= h, NEW m, m = <<l, h>>
  PROVE  Listed(m) = Upto(l, h)
<1>1. Sound(m) /\ NumRanges(m) = 1 /\ m[Low(0)] = l /\ m[High(0)] = h
  BY PairIs, Zenon
<1>2. PICK a, b, e : a = 0 /\ b = 1 /\ e = Spans(m)
  BY Zenon
<1>3. a \in Nat /\ b \in Nat /\ a <= b /\ b = a + 1 /\ b \in 0 .. NumRanges(m) /\ b \in 1 .. NumRanges(m)
      /\ a = b - 1
  BY <1>1, <1>2
<1>4. Gives(e, a, b)
  BY <1>1, <1>2, <1>3, ItemsGive
<1>5. Section(e, a, b) = Joined(Section(e, a, a), e[b])
  <2>1. a <= a
    BY <1>3
  <2> QED BY <1>3, <1>4, <2>1, SectionOn
<1>6. Section(e, a, a) = <<>>
  BY <1>3, SectionNone
<1>7. e[b] = Upto(m[Low(a)], m[High(a)]) /\ e[b] \in Seq(Int)
  BY <1>1, <1>2, <1>3, ItemsAre
<1>8. Listed(m) = Section(e, a, b)
  BY <1>1, <1>2, ListedIs
<1>9. Listed(m) = e[b]
  BY <1>5, <1>6, <1>7, <1>8, IntSeqs
<1> QED BY <1>1, <1>2, <1>7, <1>9

LEMMA ListedTwoPairs ==
  ASSUME NEW l1 \in Int, NEW h1 \in Int, NEW l2 \in Int, NEW h2 \in Int,
         l1 <= h1, h1 + 1 < l2, l2 <= h2, NEW m, m = <<l1, h1, l2, h2>>
  PROVE  Listed(m) = Joined(Upto(l1, h1), Upto(l2, h2))
<1>1. /\ Sound(m) /\ NumRanges(m) = 2
      /\ m[Low(0)] = l1 /\ m[High(0)] = h1 /\ m[Low(1)] = l2 /\ m[High(1)] = h2
  <2>1. LET q == <<l1, h1, l2, h2>>
        IN  /\ Sound(q) /\ NumRanges(q) = 2 /\ Spread(q)
            /\ q[Low(0)] = l1 /\ q[High(0)] = h1 /\ q[Low(1)] = l2 /\ q[High(1)] = h2
    BY TwoPairsAre
  <2> QED BY <2>1, Zenon
<1>2. PICK a, b, c, e : a = 0 /\ b = 1 /\ c = 2 /\ e = Spans(m)
  BY Zenon
<1>3. /\ a \in Nat /\ b \in Nat /\ c \in Nat /\ a <= b /\ b = a + 1 /\ c = b + 1
      /\ b \in 0 .. NumRanges(m) /\ b \in 1 .. NumRanges(m) /\ c \in 0 .. NumRanges(m)
      /\ c \in 1 .. NumRanges(m) /\ a = b - 1 /\ b = c - 1 /\ a <= a
  BY <1>1, <1>2
<1>4. Gives(e, a, b) /\ Gives(e, a, c)
  BY <1>1, <1>2, <1>3, ItemsGive
<1>5. /\ Section(e, a, b) = Joined(Section(e, a, a), e[b])
      /\ Section(e, a, c) = Joined(Section(e, a, b), e[c])
  BY <1>3, <1>4, SectionOn
<1>6. Section(e, a, a) = <<>>
  BY <1>3, SectionNone
<1>7. /\ e[b] = Upto(m[Low(a)], m[High(a)]) /\ e[b] \in Seq(Int)
      /\ e[c] = Upto(m[Low(b)], m[High(b)])
  BY <1>1, <1>2, <1>3, ItemsAre
<1>8. Listed(m) = Section(e, a, c)
  BY <1>1, <1>2, ListedIs
<1>9. Listed(m) = Joined(e[b], e[c])
  BY <1>5, <1>6, <1>7, <1>8, IntSeqs
<1> QED BY <1>1, <1>2, <1>7, <1>9


(* A range of the array that holds none of the items from lo to hi. *)
Apart(s, i, lo, hi) == lo > s[High(i)] \/ hi < s[Low(i)]

(* Where no range holds an item from lo to hi, nothing is taken. *)
LEMMA WithoutApart ==
  ASSUME NEW s, Sound(s), NEW lo \in Int, NEW hi \in Int,
         \A x \in 0 .. NumRanges(s) - 1 : Apart(s, x, lo, hi)
  PROVE  Without(Listed(s), lo, hi) = Listed(s)
<1>1. PICK n, e : n = NumRanges(s) /\ e = Spans(s)
  BY Zenon
<1>2. n \in Nat
  BY <1>1, NumNat DEF Sound
<1> DEFINE P(k) == Without(Section(e, 0, k), lo, hi) = Section(e, 0, k)
           T == {k \in 0 .. n : ~P(k)}
<1>3. ASSUME NEW k \in 0 .. n PROVE k \in Nat /\ 0 <= k /\ Gives(e, 0, k)
  BY <1>1, <1>2, ItemsGive
<1>4. ASSUME T # {} PROVE FALSE
  <2>1. PICK m \in T : \A j \in T : m <= j
    <3>1. T \subseteq Nat
      OBVIOUS
    <3> HIDE DEF T
    <3> QED BY <1>4, <3>1, LeastOf
  <2>2. m # 0
    <3>1. Section(e, 0, 0) = <<>>
      BY SectionNone
    <3>2. Without(<<>>, lo, hi) = <<>>
      <4>1. <<>> \in Seq(Int) /\ Len(<<>>) = 0 /\ \A k \in 1 .. 0 : FALSE
        OBVIOUS
      <4> QED BY <4>1, WithoutNone
    <3> QED BY <2>1, <3>1, <3>2
  <2>3. PICK i : i = m - 1
    BY Zenon
  <2>4. /\ i \in 0 .. n /\ m \in 1 .. n /\ m \in 0 .. n /\ ~(m <= i) /\ i \in Nat /\ m = i + 1
        /\ i \in 0 .. n - 1 /\ 0 <= i
    BY <1>2, <2>1, <2>2, <2>3
  <2>5. P(i)
    BY <2>1, <2>4
  <2>6. Section(e, 0, m) = Joined(Section(e, 0, i), e[m])
    BY <1>3, <2>4, SectionOn
  <2>7. e[m] = Upto(s[Low(i)], s[High(i)]) /\ e[m] \in Seq(Int)
    BY <1>1, <2>3, <2>4, ItemsAre
  <2>8. Without(e[m], lo, hi) = e[m]
    <3>1. s[Low(i)] \in Int /\ s[High(i)] \in Int
      BY <1>1, <2>4, EdgesInt
    <3>2. lo > s[High(i)] \/ hi < s[Low(i)]
      BY <1>1, <2>4 DEF Apart
    <3> QED BY <2>7, <3>1, <3>2, WithoutUpto
  <2>9. Section(e, 0, i) \in Seq(Int)
    BY <1>3, <2>4, SectionSeq
  <2>10. P(m)
    BY <2>5, <2>6, <2>7, <2>8, <2>9, WithoutJoined
  <2> QED BY <2>1, <2>10
<1>5. P(n)
  <2>1. n \in 0 .. n
    BY <1>2
  <2> QED BY <1>4, <2>1
<1> QED BY <1>1, <1>5, ListedIs

(* What is left of the items of a range from which those from lo to hi are
   taken. *)
LEMMA WithoutRange ==
  ASSUME NEW l \in Int, NEW h \in Int, NEW lo \in Int, NEW hi \in Int,
         lo <= hi, lo <= h, l <= hi, l <= h
  PROVE  Without(Upto(l, h), lo, hi)
           = Joined(IF l < lo THEN Upto(l, lo - 1) ELSE <<>>, IF hi < h THEN Upto(hi + 1, h) ELSE <<>>)
<1>1. PICK x, y, a, b : /\ x = IF l < lo THEN lo ELSE l
                        /\ y = IF hi < h THEN hi ELSE h
                        /\ a = x - 1 /\ b = y + 1
  BY Zenon
<1>2. /\ x \in Int /\ y \in Int /\ a \in Int /\ b \in Int
      /\ x <= y + 1 /\ y <= h /\ l <= a + 1 /\ a <= h /\ x = a + 1 /\ b = y + 1
      /\ lo <= x /\ y <= hi /\ l <= y + 1 /\ a <= y
  BY <1>1
<1>3. /\ Upto(l, h) = Joined(Upto(l, y), Upto(b, h))
      /\ Upto(l, y) = Joined(Upto(l, a), Upto(x, y))
  BY <1>2, UptoJoined
<1>4. PICK u, w, z : u = Upto(l, a) /\ w = Upto(x, y) /\ z = Upto(b, h)
  BY Zenon
<1>5. u \in Seq(Int) /\ w \in Seq(Int) /\ z \in Seq(Int) /\ Joined(u, w) \in Seq(Int)
  BY <1>2, <1>4, UptoIs, JoinedSeq
<1>6. Without(Upto(l, h), lo, hi)
        = Joined(Joined(Without(u, lo, hi), Without(w, lo, hi)), Without(z, lo, hi))
  BY <1>3, <1>4, <1>5, WithoutJoined
<1>7. Without(w, lo, hi) = <<>>
  BY <1>2, <1>4, WithoutUpto
<1>8. Without(u, lo, hi) = IF l < lo THEN Upto(l, lo - 1) ELSE <<>>
  <2>1. CASE l < lo
    <3>1. a = lo - 1 /\ lo > a
      BY <1>1, <2>1
    <3>2. Without(u, lo, hi) = u
      BY <1>2, <1>4, <3>1, WithoutUpto
    <3> QED BY <1>4, <2>1, <3>1, <3>2
  <2>2. CASE ~(l < lo)
    <3>1. lo <= l /\ a <= hi
      BY <1>1, <2>2
    <3>2. Without(u, lo, hi) = <<>>
      BY <1>2, <1>4, <3>1, WithoutUpto
    <3> QED BY <2>2, <3>2
  <2> QED BY <2>1, <2>2
<1>9. Without(z, lo, hi) = IF hi < h THEN Upto(hi + 1, h) ELSE <<>>
  <2>1. CASE hi < h
    <3>1. b = hi + 1 /\ hi < b
      BY <1>1, <2>1
    <3>2. Without(z, lo, hi) = z
      BY <1>2, <1>4, <3>1, WithoutUpto
    <3> QED BY <1>4, <2>1, <3>1, <3>2
  <2>2. CASE ~(hi < h)
    <3>1. lo <= b /\ h <= hi
      BY <1>1, <1>2, <2>2
    <3>2. Without(z, lo, hi) = <<>>
      BY <1>2, <1>4, <3>1, WithoutUpto
    <3> QED BY <2>2, <3>2
  <2> QED BY <2>1, <2>2
<1>10. Without(u, lo, hi) \in Seq(Int)
  BY <1>5, WithoutIs
<1> QED BY <1>6, <1>7, <1>8, <1>9, <1>10, IntSeqs

(* The edges that a deletion leaves list what is left. *)
LEMMA ListedEnds ==
  ASSUME NEW s, Sound(s), NEW lo, NEW hi, NEW f, NEW g, Deletable(s, lo, f, hi, g)
  PROVE  Listed(Ends(s, lo, f, hi, g))
           = Joined(IF Infin(s, lo, f) THEN Upto(s[Low(f.at)], lo - 1) ELSE <<>>,
                    IF Supin(s, hi, g) THEN Upto(hi + 1, s[High(g.at)]) ELSE <<>>)
<1>1. /\ lo \in Int /\ hi \in Int /\ lo <= hi
      /\ f.in => /\ s[Low(f.at)] \in Int /\ s[High(f.at)] \in Int
                 /\ s[Low(f.at)] <= lo /\ lo <= s[High(f.at)]
      /\ g.in => /\ s[Low(g.at)] \in Int /\ s[High(g.at)] \in Int
                 /\ s[Low(g.at)] <= hi /\ hi <= s[High(g.at)]
  BY DeletableIs
<1>2. PICK l, a, b, h, m : /\ l = s[Low(f.at)] /\ a = lo - 1 /\ b = hi + 1 /\ h = s[High(g.at)]
                           /\ m = Ends(s, lo, f, hi, g)
  BY Zenon
<1>3. a \in Int /\ b \in Int /\ a + 1 < b
  BY <1>1, <1>2
<1>4. ASSUME Infin(s, lo, f) PROVE l \in Int /\ l <= a
  BY <1>1, <1>2, <1>4 DEF Infin
<1>5. ASSUME Supin(s, hi, g) PROVE h \in Int /\ b <= h
  BY <1>1, <1>2, <1>5 DEF Supin
<1>6. CASE Infin(s, lo, f) /\ Supin(s, hi, g)
  <2>1. m = <<l, a, b, h>>
    BY <1>2, <1>6, Zenon DEF Ends
  <2>2. Listed(m) = Joined(Upto(l, a), Upto(b, h))
    BY <1>3, <1>4, <1>5, <1>6, <2>1, ListedTwoPairs
  <2> QED BY <1>2, <1>6, <2>2, Zenon
<1>7. CASE Infin(s, lo, f) /\ ~Supin(s, hi, g)
  <2>1. m = <<l, a>>
    BY <1>2, <1>7, Zenon DEF Ends
  <2>2. Listed(m) = Upto(l, a)
    BY <1>3, <1>4, <1>7, <2>1, ListedPair
  <2>3. Upto(l, a) = Joined(Upto(l, a), <<>>)
    BY <1>3, <1>4, <1>7, UptoIs, IntSeqs
  <2> QED BY <1>2, <1>7, <2>2, <2>3, Zenon
<1>8. CASE ~Infin(s, lo, f) /\ Supin(s, hi, g)
  <2>1. m = <<b, h>>
    BY <1>2, <1>8, Zenon DEF Ends
  <2>2. Listed(m) = Upto(b, h)
    BY <1>3, <1>5, <1>8, <2>1, ListedPair
  <2>3. Upto(b, h) = Joined(<<>>, Upto(b, h))
    BY <1>3, <1>5, <1>8, UptoIs, IntSeqs
  <2> QED BY <1>2, <1>8, <2>2, <2>3, Zenon
<1>9. CASE ~Infin(s, lo, f) /\ ~Supin(s, hi, g)
  <2>1. m = <<>>
    BY <1>2, <1>9, Zenon DEF Ends
  <2>2. <<>> = Joined(<<>>, <<>>)
    <3>1. <<>> \in Seq(Int)
      OBVIOUS
    <3> QED BY <3>1, IntSeqs
  <2> QED BY <1>2, <1>9, <2>1, <2>2, ListedNone, Zenon
<1> QED BY <1>6, <1>7, <1>8, <1>9

(* A turn takes from the list nothing else than the items from lo to hi. *)
LEMMA CutListed ==
  ASSUME NEW s, Sound(s), NEW i \in 0 .. NumRanges(s) - 1, NEW j, j = i + 1,
         NEW lo, NEW hi, NEW f, NEW g, Deletable(s, lo, f, hi, g), f.at = i,
         Infin(s, lo, f) <=> s[Low(i)] < lo,
         Supin(s, hi, g) <=> hi < s[High(i)], hi < s[High(i)] => g.at = i,
         lo <= s[High(i)], s[Low(i)] <= hi,
         NEW m, m = Ends(s, lo, f, hi, g), Sound(m),
         NEW t, Spliced(t, s, i, j, m),
         \A x \in 0 .. NumRanges(m) - 1 : Apart(m, x, lo, hi)
  PROVE  Without(Listed(t), lo, hi) = Without(Listed(s), lo, hi)
<1>1. /\ lo \in Int /\ hi \in Int /\ lo <= hi /\ NumRanges(s) \in Nat
  BY DeletableIs
<1>2. s[Low(i)] \in Int /\ s[High(i)] \in Int /\ s[Low(i)] <= s[High(i)]
  BY EdgesInt
<1>3. i \in 0 .. NumRanges(s) /\ j \in i .. NumRanges(s)
  BY <1>1
<1>4. PICK u, w : u = Section(Spans(s), 0, i) /\ w = Section(Spans(s), j, NumRanges(s))
  BY Zenon
<1>5. /\ u \in Seq(Int) /\ w \in Seq(Int)
      /\ Listed(s) = Joined(Joined(u, Upto(s[Low(i)], s[High(i)])), w)
  BY <1>4, ListedSplit
<1>6. Listed(t) = Joined(Joined(u, Listed(m)), w)
  BY <1>3, <1>4, ListedSpliced
<1>7. Without(Upto(s[Low(i)], s[High(i)]), lo, hi) = Listed(m)
  <2>1. PICK l, h : l = s[Low(i)] /\ h = s[High(i)]
    BY Zenon
  <2>2. Without(Upto(l, h), lo, hi)
          = Joined(IF l < lo THEN Upto(l, lo - 1) ELSE <<>>, IF hi < h THEN Upto(hi + 1, h) ELSE <<>>)
    BY <1>1, <1>2, <2>1, WithoutRange, SMTT(30)
  <2>3. Listed(m) = Joined(IF Infin(s, lo, f) THEN Upto(s[Low(f.at)], lo - 1) ELSE <<>>,
                           IF Supin(s, hi, g) THEN Upto(hi + 1, s[High(g.at)]) ELSE <<>>)
    BY ListedEnds
  <2>4. /\ (IF Infin(s, lo, f) THEN Upto(s[Low(f.at)], lo - 1) ELSE <<>>)
             = (IF l < lo THEN Upto(l, lo - 1) ELSE <<>>)
        /\ (IF Supin(s, hi, g) THEN Upto(hi + 1, s[High(g.at)]) ELSE <<>>)
             = (IF hi < h THEN Upto(hi + 1, h) ELSE <<>>)
    BY <2>1
  <2> QED BY <2>1, <2>2, <2>3, <2>4, Zenon
<1>8. Without(Listed(m), lo, hi) = Listed(m) /\ Listed(m) \in Seq(Int)
  BY <1>1, WithoutApart, ListedIs
<1>9. PICK x : x = Upto(s[Low(i)], s[High(i)])
  BY Zenon
<1>10. x \in Seq(Int) /\ Joined(u, x) \in Seq(Int) /\ Joined(u, Listed(m)) \in Seq(Int)
  BY <1>2, <1>5, <1>8, <1>9, UptoIs, JoinedSeq
<1>11. /\ Without(Joined(Joined(u, x), w), lo, hi)
            = Joined(Joined(Without(u, lo, hi), Without(x, lo, hi)), Without(w, lo, hi))
       /\ Without(Joined(Joined(u, Listed(m)), w), lo, hi)
            = Joined(Joined(Without(u, lo, hi), Without(Listed(m), lo, hi)), Without(w, lo, hi))
  BY <1>5, <1>8, <1>10, WithoutJoined
<1> QED BY <1>5, <1>6, <1>7, <1>8, <1>9, <1>11, Zenon


(* A turn deletes the items from lo to hi from the range i, of which e ranges
   are left. *)
Cut(t, s, i, e, lo, hi) ==
  /\ Sound(t) /\ e \in 0 .. 2 /\ NumRanges(t) = NumRanges(s) - 1 + e
  /\ \A x \in 0 .. i - 1 : t[Low(x)] = s[Low(x)] /\ t[High(x)] = s[High(x)]
  /\ \A x \in i .. i + e - 1 : Apart(t, x, lo, hi)
  /\ \A v \in Int : ~(lo <= v /\ v <= hi) => (Holds(t, v) <=> Holds(s, v))
  /\ Without(Listed(t), lo, hi) = Without(Listed(s), lo, hi)

LEMMA CutIs ==
  ASSUME NEW s, Sound(s), NEW i \in 0 .. NumRanges(s) - 1, NEW lo \in Int, NEW hi \in Int,
         lo <= hi, ~Apart(s, i, lo, hi), NEW f, NEW g, NEW t,
         f = [at |-> i, in |-> lo >= s[Low(i)]],
         g = IF hi > s[High(i)] THEN Before(i + 1) ELSE Found(i),
         t = Splice(s, Low(f.at), Ends(s, lo, f, hi, g), Low(Past(g)))
  PROVE  /\ Deletable(s, lo, f, hi, g) /\ f.at = i /\ Past(g) = i + 1
         /\ \E e \in 0 .. 2 : Cut(t, s, i, e, lo, hi)
<1>1. NumRanges(s) \in Nat /\ i \in Nat /\ i + 1 <= NumRanges(s) /\ i < NumRanges(s)
  BY NumNat DEF Sound
<1>2. s[Low(i)] \in Int /\ s[High(i)] \in Int /\ s[Low(i)] <= s[High(i)]
  BY EdgesInt
<1>3. lo <= s[High(i)] /\ s[Low(i)] <= hi
  BY <1>2 DEF Apart
<1>4. /\ f.at = i /\ f.in \in BOOLEAN /\ (f.in <=> s[Low(i)] <= lo)
      /\ g.at = (IF hi > s[High(i)] THEN i + 1 ELSE i)
      /\ g.in \in BOOLEAN /\ (g.in <=> hi <= s[High(i)]) /\ Past(g) = i + 1
  <2>1. f.at = i /\ f.in \in BOOLEAN /\ (f.in <=> s[Low(i)] <= lo)
    <3>1. f.in <=> lo >= s[Low(i)]
      BY Zenon
    <3>2. f.in \in BOOLEAN
      <4>1. (lo >= s[Low(i)]) \in BOOLEAN
        OBVIOUS
      <4> QED BY <4>1, Zenon
    <3>3. lo >= s[Low(i)] <=> s[Low(i)] <= lo
      BY <1>2
    <3> QED BY <3>1, <3>2, <3>3, Zenon
  <2>2. CASE hi > s[High(i)]
    <3>1. g = Before(i + 1)
      BY <2>2
    <3>2. g.at = i + 1 /\ g.in = FALSE /\ ~(hi <= s[High(i)])
      BY <1>2, <2>2, <3>1 DEF Before
    <3> QED BY <2>1, <2>2, <3>2 DEF Past
  <2>3. CASE ~(hi > s[High(i)])
    <3>1. g = Found(i)
      BY <2>3
    <3>2. g.at = i /\ g.in = TRUE /\ hi <= s[High(i)]
      BY <1>2, <2>3, <3>1 DEF Found
    <3> QED BY <2>1, <2>3, <3>2 DEF Past
  <2> QED BY <2>2, <2>3
<1>5. Deletable(s, lo, f, hi, g)
  BY <1>1, <1>2, <1>3, <1>4 DEF Deletable, In
<1> DEFINE m == Ends(s, lo, f, hi, g)
<1>6. /\ Sound(m) /\ NumRanges(m) \in 0 .. 2
      /\ \A k \in 0 .. NumRanges(m) - 1 :
           \/ Infin(s, lo, f) /\ m[Low(k)] = s[Low(f.at)] /\ m[High(k)] = lo - 1
           \/ Supin(s, hi, g) /\ m[Low(k)] = hi + 1 /\ m[High(k)] = s[High(g.at)]
  BY <1>5, EndsAre
<1>7. /\ Spliced(t, s, i, i + 1, m) /\ Sound(t)
      /\ \A v \in Int : Holds(t, v) <=>
           \/ \E x \in 0 .. i - 1 : In(s, x, v)
           \/ Infin(s, lo, f) /\ s[Low(i)] <= v /\ v < lo
           \/ Supin(s, hi, g) /\ hi < v /\ v <= s[High(g.at)]
           \/ \E x \in i + 1 .. NumRanges(s) - 1 : In(s, x, v)
  BY <1>4, <1>5, Deleted
<1> HIDE DEF m
<1>8. \A x \in i .. i + NumRanges(m) - 1 : Apart(t, x, lo, hi)
  <2>1. SUFFICES ASSUME NEW k \in 0 .. NumRanges(m) - 1, NEW x, x = i + k
                 PROVE  Apart(t, x, lo, hi)
    BY <1>1, <1>6
  <2>2. t[Low(x)] = m[Low(k)] /\ t[High(x)] = m[High(k)]
    BY <1>7, <2>1 DEF Spliced
  <2>3. m[High(k)] = lo - 1 \/ m[Low(k)] = hi + 1
    BY <1>6
  <2> QED BY <2>2, <2>3 DEF Apart
<1>9. ASSUME NEW v \in Int, ~(lo <= v /\ v <= hi)
      PROVE  Holds(t, v) <=> Holds(s, v)
  <2>1. Holds(s, v) <=> \/ \E x \in 0 .. i - 1 : In(s, x, v)
                        \/ In(s, i, v)
                        \/ \E x \in i + 1 .. NumRanges(s) - 1 : In(s, x, v)
    <3>1. \A x : x \in 0 .. NumRanges(s) - 1 <=>
                   x \in 0 .. i - 1 \/ x = i \/ x \in i + 1 .. NumRanges(s) - 1
      BY <1>1
    <3> QED BY <3>1 DEF Holds
  <2>2. In(s, i, v) <=> \/ Infin(s, lo, f) /\ s[Low(i)] <= v /\ v < lo
                        \/ Supin(s, hi, g) /\ hi < v /\ v <= s[High(g.at)]
    <3>1. Infin(s, lo, f) <=> s[Low(i)] < lo
      BY <1>2, <1>4 DEF Infin
    <3>2. Supin(s, hi, g) <=> hi < s[High(i)] /\ g.at = i
      BY <1>2, <1>4 DEF Supin
    <3>3. v < lo \/ hi < v
      BY <1>9
    <3>4. In(s, i, v) <=> s[Low(i)] <= v /\ v <= s[High(i)]
      BY DEF In
    <3>5. hi < s[High(i)] => g.at = i
      BY <1>2, <1>4
    <3> QED BY <1>2, <1>3, <3>1, <3>2, <3>3, <3>4, <3>5
  <2> QED BY <1>7, <2>1, <2>2
<1>10. NumRanges(t) = NumRanges(s) - 1 + NumRanges(m)
  BY <1>1, <1>6, <1>7 DEF Spliced
<1>11. \A x \in 0 .. i - 1 : t[Low(x)] = s[Low(x)] /\ t[High(x)] = s[High(x)]
  BY <1>7 DEF Spliced
<1>12. Without(Listed(t), lo, hi) = Without(Listed(s), lo, hi)
  <2>1. PICK j : j = i + 1
    BY Zenon
  <2>2. \A x \in 0 .. NumRanges(m) - 1 : Apart(m, x, lo, hi)
    <3>1. ASSUME NEW x \in 0 .. NumRanges(m) - 1 PROVE Apart(m, x, lo, hi)
      <4>1. m[High(x)] = lo - 1 \/ m[Low(x)] = hi + 1
        BY <1>6
      <4> QED BY <4>1 DEF Apart
    <3> QED BY <3>1
  <2>3. Infin(s, lo, f) <=> s[Low(i)] < lo
    BY <1>2, <1>4 DEF Infin
  <2>4. (Supin(s, hi, g) <=> hi < s[High(i)]) /\ (hi < s[High(i)] => g.at = i)
    BY <1>2, <1>4 DEF Supin
  <2>5. Spliced(t, s, i, j, m) /\ m = Ends(s, lo, f, hi, g) /\ f.at = i
    BY <1>4, <1>7, <2>1 DEF m
  <2> QED BY <1>3, <1>5, <1>6, <2>1, <2>2, <2>3, <2>4, <2>5, CutListed
<1>13. Cut(t, s, i, NumRanges(m), lo, hi)
  BY <1>6, <1>7, <1>8, <1>9, <1>10, <1>11, <1>12 DEF Cut
<1> QED BY <1>4, <1>5, <1>6, <1>13

(* After k turns no range before j holds an item to delete, and few enough
   ranges are left for the turns left. *)
Erased(m, s, v, k) ==
  /\ Sound(m.edges) /\ m.from \in Nat
  /\ \A w \in Int : w # v => (Holds(m.edges, w) <=> Holds(s, w))
  /\ Without(Listed(m.edges), v, v) = Without(Listed(s), v, v)
  /\ \E j \in m.from .. NumRanges(m.edges) :
       /\ NumRanges(m.edges) - j <= NumRanges(s) - k
       /\ \A x \in 0 .. j - 1 : ~In(m.edges, x, v)

LEMMA ErasesOn ==
  ASSUME NEW m, NEW s, Sound(s), NEW v \in Int, NEW k \in 1 .. NumRanges(s), Erased(m, s, v, k - 1)
  PROVE  Erased(DelTurn(m, v), s, v, k)
<1> DEFINE u == m.edges
           n == NumRanges(u)
           found == SearchLinearNotSort(u, m.from, v)
<1>1. /\ Sound(u) /\ m.from \in Nat /\ n \in Nat /\ NumRanges(s) \in Nat /\ k \in Nat
      /\ \A w \in Int : w # v => (Holds(u, w) <=> Holds(s, w))
      /\ Without(Listed(u), v, v) = Without(Listed(s), v, v)
  BY NumNat DEF Erased, Sound
<1>2. PICK j \in m.from .. n :
        /\ n - j <= NumRanges(s) - (k - 1)
        /\ \A x \in 0 .. j - 1 : ~In(u, x, v)
  BY DEF Erased
<1>3. /\ found = [at |-> found.at, in |-> found.in] /\ found.in \in BOOLEAN
      /\ found.in => found.at \in m.from .. n - 1 /\ In(u, found.at, v)
      /\ ~found.in => \A i \in m.from .. n - 1 : ~In(u, i, v)
  BY <1>1, NotSortIs
<1>4. DelTurn(m, v) = IF found.in THEN [edges |-> DelItem(u, v, found.at), from |-> found.at] ELSE m
  BY DEF DelTurn
<1> HIDE DEF found, u
<1>5. CASE ~found.in
  <2>1. \A x \in 0 .. n - 1 : ~In(u, x, v)
    <3>1. \A x \in 0 .. n - 1 : x \in 0 .. j - 1 \/ x \in m.from .. n - 1
      BY <1>1, <1>2
    <3> QED BY <3>1, <1>2, <1>3, <1>5
  <2>2. n \in m.from .. n /\ n - n <= NumRanges(s) - k
    BY <1>1, <1>2
  <2>3. Erased(m, s, v, k)
    BY <1>1, <2>1, <2>2 DEF Erased, u
  <2> QED BY <1>4, <1>5, <2>3
<1>6. CASE found.in
  <2> DEFINE i == found.at
             f == [at |-> i, in |-> v >= u[Low(i)]]
             g == IF v > u[High(i)] THEN Before(i + 1) ELSE Found(i)
  <2> HIDE DEF i
  <2>1. i \in 0 .. n - 1 /\ i \in m.from .. n - 1 /\ In(u, i, v)
    BY <1>1, <1>3, <1>6 DEF i
  <2>2. u[Low(i)] \in Int /\ u[High(i)] \in Int /\ u[Low(i)] <= v /\ v <= u[High(i)]
    BY <1>1, <2>1, EdgesInt DEF In
  <2>3. PICK t : t = DelItem(u, v, i)
    BY Zenon
  <2>4. f = Found(i) /\ g = Found(i) /\ Past(g) = i + 1 /\ f.at = i
    <3>1. (v >= u[Low(i)]) = TRUE /\ ~(v > u[High(i)])
      BY <2>2
    <3>2. g = Found(i) /\ f = Found(i) /\ f.at = i
      BY <3>1, Zenon DEF Found
    <3>3. Found(i).in /\ Found(i).at = i
      BY DEF Found
    <3> QED BY <3>2, <3>3, Zenon DEF Past
  <2>5. t = Splice(u, Low(i), Ends(u, v, Found(i), v, Found(i)), Low(i + 1))
    BY <1>1, <2>1, <2>3, DelItemIs
  <2>6. ~Apart(u, i, v, v)
    BY <2>2 DEF Apart
  <2>7. \E e \in 0 .. 2 : Cut(t, u, i, e, v, v)
    <3> HIDE DEF f, g
    <3>1. t = Splice(u, Low(f.at), Ends(u, v, f, v, g), Low(Past(g)))
      BY <2>4, <2>5, Zenon
    <3>2. /\ f = [at |-> i, in |-> v >= u[Low(i)]]
          /\ g = IF v > u[High(i)] THEN Before(i + 1) ELSE Found(i)
      BY DEF f, g
    <3>3. v <= v
      OBVIOUS
    <3> QED BY <1>1, <2>1, <2>6, <3>1, <3>2, <3>3, CutIs
  <2>8. PICK e \in 0 .. 2 : Cut(t, u, i, e, v, v)
    BY <2>7
  <2>9. DelTurn(m, v) = [edges |-> t, from |-> i]
    BY <1>4, <1>6, <2>3 DEF i
  <2>10. /\ Sound(t) /\ NumRanges(t) = n - 1 + e /\ NumRanges(t) \in Nat
         /\ \A w \in Int : w # v => (Holds(t, w) <=> Holds(u, w))
         /\ Without(Listed(t), v, v) = Without(Listed(u), v, v)
    <3>1. \A w \in Int : w # v => ~(v <= w /\ w <= v)
      OBVIOUS
    <3>2. NumRanges(t) \in Nat
      BY <2>8, NumNat DEF Cut, Sound
    <3> QED BY <2>8, <3>1, <3>2 DEF Cut
  <2>11. /\ i + e \in i .. NumRanges(t) /\ NumRanges(t) - (i + e) <= NumRanges(s) - k
    <3>1. j <= i
      <4>1. i \notin 0 .. j - 1
        BY <1>2, <2>1
      <4> QED BY <1>1, <1>2, <2>1, <4>1
    <3> QED BY <1>1, <1>2, <2>1, <2>10, <3>1
  <2>12. ASSUME NEW x \in 0 .. i + e - 1 PROVE ~In(t, x, v)
    <3>1. CASE x \in 0 .. i - 1
      <4>1. t[Low(x)] = u[Low(x)] /\ t[High(x)] = u[High(x)]
        BY <2>8, <3>1 DEF Cut
      <4>2. ~In(u, x, v)
        <5>1. x \in 0 .. n - 1 /\ (x \in 0 .. j - 1 \/ x \in m.from .. i - 1)
          BY <1>1, <1>2, <2>1, <3>1
        <5>2. \A y \in m.from .. found.at - 1 : ~In(u, y, v)
          BY <1>1, <1>6, NotSortIs DEF found
        <5> QED BY <5>1, <5>2, <1>2 DEF i
      <4> QED BY <4>1, <4>2 DEF In
    <3>2. CASE x \in i .. i + e - 1
      <4>1. Apart(t, x, v, v)
        BY <2>8, <3>2 DEF Cut
      <4>2. x \in 0 .. NumRanges(t) - 1
        BY <2>1, <2>10, <2>11, <3>2
      <4>3. t[Low(x)] \in Int /\ t[High(x)] \in Int
        BY <2>10, <4>2, EdgesInt
      <4> QED BY <4>1, <4>3 DEF Apart, In
    <3>3. x \in 0 .. i - 1 \/ x \in i .. i + e - 1
      BY <2>1
    <3> QED BY <3>1, <3>2, <3>3
  <2>13. Erased([edges |-> t, from |-> i], s, v, k)
    <3> DEFINE q == [edges |-> t, from |-> i]
    <3>1. q.edges = t /\ q.from = i
      OBVIOUS
    <3> HIDE DEF q
    <3>2. /\ i \in Nat /\ Without(Listed(t), v, v) = Without(Listed(s), v, v)
          /\ \A w \in Int : w # v => (Holds(t, w) <=> Holds(s, w))
      BY <1>1, <2>1, <2>10
    <3>3. Erased(q, s, v, k)
      BY <2>10, <2>11, <2>12, <3>1, <3>2 DEF Erased
    <3> QED BY <3>3 DEF q
  <2> QED BY <2>9, <2>13
<1> QED BY <1>3, <1>5, <1>6


(* Deleting an item of a list that is not sorted. *)
LEMMA DelNotSortDoes ==
  ASSUME NEW s, Sound(s), NEW v \in Int, NEW items, HoldsAll(s, items)
  PROVE  LET t == DelNotSort(s, v)
         IN  /\ Sound(t) /\ HoldsAll(t, items \ {v})
             /\ Listed(t) = Without(Listed(s), v, v)
<1> DEFINE n == NumRanges(s)
<1>1. n \in Nat
  BY NumNat DEF Sound
<1>2. PICK f : /\ f[0] = Start(s)
               /\ \A k \in 1 .. n : f[k] = DelTurn(f[k - 1], v)
               /\ DelNotSort(s, v) = f[n].edges
  BY DelNotSortIs
<1>3. Erased(f[0], s, v, 0)
  <2>1. f[0].edges = s /\ f[0].from = 0
    BY <1>2 DEF Start
  <2>2. 0 \in 0 .. n /\ n - 0 <= n - 0 /\ \A x \in 0 .. 0 - 1 : FALSE
    BY <1>1
  <2> QED BY <2>1, <2>2 DEF Erased
<1>4. ASSUME NEW k \in 0 .. n, ~Erased(f[k], s, v, k) PROVE FALSE
  <2> DEFINE T == {m \in 0 .. n : ~Erased(f[m], s, v, m)}
  <2>1. PICK m \in T : \A j \in T : m <= j
    <3>1. T \subseteq Nat /\ T # {}
      BY <1>4
    <3> HIDE DEF T
    <3> QED BY <3>1, LeastOf
  <2>2. m # 0
    BY <1>3, <2>1
  <2>3. m - 1 \in 0 .. n /\ m \in 1 .. n /\ ~(m <= m - 1)
    BY <1>1, <2>1, <2>2
  <2>4. Erased(f[m - 1], s, v, m - 1)
    BY <2>1, <2>3
  <2>5. Erased(f[m], s, v, m)
    <3>1. f[m] = DelTurn(f[m - 1], v)
      BY <1>2, <2>3
    <3> QED BY <2>3, <2>4, <3>1, ErasesOn
  <2> QED BY <2>1, <2>5
<1>5. PICK t : t = DelNotSort(s, v)
  BY Zenon
<1>6. /\ Sound(t)
      /\ \A w \in Int : w # v => (Holds(t, w) <=> Holds(s, w))
      /\ ~Holds(t, v) /\ Listed(t) = Without(Listed(s), v, v)
  <2>1. Erased(f[n], s, v, n)
    <3>1. n \in 0 .. n
      BY <1>1
    <3> QED BY <1>4, <3>1
  <2>2. f[n].edges = t
    BY <1>2, <1>5
  <2>3. PICK j \in Nat : /\ j <= NumRanges(t) /\ NumRanges(t) - j <= n - n
                         /\ \A x \in 0 .. j - 1 : ~In(t, x, v)
    BY <2>1, <2>2 DEF Erased
  <2>4. Sound(t) /\ NumRanges(t) \in Nat
    BY <2>1, <2>2, NumNat DEF Erased, Sound
  <2>5. j = NumRanges(t)
    BY <1>1, <2>3, <2>4
  <2>6. ~Holds(t, v)
    BY <2>3, <2>5 DEF Holds
  <2>7. Without(Listed(t), v, v) = Listed(t)
    <3>1. ASSUME NEW x \in 0 .. NumRanges(t) - 1 PROVE Apart(t, x, v, v)
      <4>1. t[Low(x)] \in Int /\ t[High(x)] \in Int
        BY <2>4, EdgesInt
      <4>2. ~In(t, x, v)
        BY <2>3, <2>5
      <4> QED BY <4>1, <4>2 DEF In, Apart
    <3> QED BY <2>4, <3>1, WithoutApart
  <2> QED BY <2>1, <2>2, <2>6, <2>7 DEF Erased
<1>7. HoldsAll(t, items \ {v})
  BY <1>6 DEF HoldsAll
<1> QED BY <1>5, <1>6, <1>7

(* The same of a range of items: three turns at most for each range. *)
RangeErased(m, s, lo, hi, k) ==
  /\ Sound(m.edges) /\ m.from \in Nat
  /\ \A w \in Int : ~(lo <= w /\ w <= hi) => (Holds(m.edges, w) <=> Holds(s, w))
  /\ Without(Listed(m.edges), lo, hi) = Without(Listed(s), lo, hi)
  /\ \E j \in m.from .. NumRanges(m.edges) :
       /\ 3 * (NumRanges(m.edges) - j) + (j - m.from) <= 3 * NumRanges(s) - k
       /\ \A x \in 0 .. j - 1 : Apart(m.edges, x, lo, hi)

LEMMA RangeErasesOn ==
  ASSUME NEW m, NEW s, Sound(s), NEW lo \in Int, NEW hi \in Int, lo <= hi,
         NEW k \in 1 .. 3 * NumRanges(s), RangeErased(m, s, lo, hi, k - 1)
  PROVE  RangeErased(DelRangeTurn(m, lo, hi), s, lo, hi, k)
<1> DEFINE u == m.edges
           n == NumRanges(u)
           i == m.from
<1>1. /\ Sound(u) /\ i \in Nat /\ n \in Nat /\ NumRanges(s) \in Nat /\ k \in Nat
      /\ \A w \in Int : ~(lo <= w /\ w <= hi) => (Holds(u, w) <=> Holds(s, w))
      /\ Without(Listed(u), lo, hi) = Without(Listed(s), lo, hi)
  BY NumNat DEF RangeErased, Sound
<1>2. PICK j \in i .. n :
        /\ 3 * (n - j) + (j - i) <= 3 * NumRanges(s) - (k - 1)
        /\ \A x \in 0 .. j - 1 : Apart(u, x, lo, hi)
  BY DEF RangeErased
<1>3. DelRangeTurn(m, lo, hi) =
        CASE i >= n -> m
          [] i < n /\ (lo > u[High(i)] \/ hi < u[Low(i)]) -> [edges |-> u, from |-> i + 1]
          [] OTHER ->
               [edges |-> DelItems(u, lo, [at |-> i, in |-> lo >= u[Low(i)]], hi,
                                   IF hi > u[High(i)] THEN Before(i + 1) ELSE Found(i)),
                from |-> i]
  BY DEF DelRangeTurn
<1> HIDE DEF u, i
<1>4. CASE i >= n
  <2>1. DelRangeTurn(m, lo, hi) = m
    BY <1>1, <1>3, <1>4
  <2>2. j = n /\ i = n /\ 3 * (n - n) + (n - i) <= 3 * NumRanges(s) - k /\ n \in i .. n
    BY <1>1, <1>2, <1>4
  <2>3. RangeErased(m, s, lo, hi, k)
    BY <1>1, <1>2, <2>2 DEF RangeErased, u, i
  <2> QED BY <2>1, <2>3
<1>5. CASE i < n /\ Apart(u, i, lo, hi)
  <2>1. DelRangeTurn(m, lo, hi) = [edges |-> u, from |-> i + 1]
    <3>1. ~(i >= n) /\ (i < n /\ (lo > u[High(i)] \/ hi < u[Low(i)]))
      BY <1>1, <1>5 DEF Apart
    <3> QED BY <1>3, <3>1
  <2>2. PICK h \in (i + 1) .. n :
          /\ 3 * (n - h) + (h - (i + 1)) <= 3 * NumRanges(s) - k
          /\ \A x \in 0 .. h - 1 : Apart(u, x, lo, hi)
    <3>1. CASE j = i
      <4>1. PICK h : h = i + 1
        BY Zenon
      <4>2. /\ h \in (i + 1) .. n
            /\ 3 * (n - h) + (h - (i + 1)) <= 3 * NumRanges(s) - k
        BY <1>1, <1>2, <1>5, <3>1, <4>1
      <4>3. \A x \in 0 .. h - 1 : x = i \/ x \in 0 .. j - 1
        BY <1>1, <3>1, <4>1
      <4> QED BY <1>2, <1>5, <4>2, <4>3
    <3>2. CASE j # i
      <4>1. j \in (i + 1) .. n /\ 3 * (n - j) + (j - (i + 1)) <= 3 * NumRanges(s) - k
        BY <1>1, <1>2, <3>2
      <4> QED BY <1>2, <4>1
    <3> QED BY <3>1, <3>2
  <2>3. RangeErased([edges |-> u, from |-> i + 1], s, lo, hi, k)
    <3> DEFINE q == [edges |-> u, from |-> i + 1]
    <3>1. q.edges = u /\ q.from = i + 1 /\ i + 1 \in Nat
      BY <1>1
    <3> HIDE DEF q
    <3>2. RangeErased(q, s, lo, hi, k)
      BY <1>1, <2>2, <3>1 DEF RangeErased
    <3> QED BY <3>2 DEF q
  <2> QED BY <2>1, <2>3
<1>6. CASE i < n /\ ~Apart(u, i, lo, hi)
  <2>1. j = i
    <3>1. i \notin 0 .. j - 1
      BY <1>2, <1>6
    <3> QED BY <1>1, <1>2, <3>1
  <2>2. PICK f, g : /\ f = [at |-> i, in |-> lo >= u[Low(i)]]
                    /\ g = IF hi > u[High(i)] THEN Before(i + 1) ELSE Found(i)
    BY Zenon
  <2>3. PICK t : t = Splice(u, Low(f.at), Ends(u, lo, f, hi, g), Low(Past(g)))
    BY Zenon
  <2>4. i \in 0 .. NumRanges(u) - 1
    BY <1>1, <1>6
  <2>5. Deletable(u, lo, f, hi, g) /\ \E e \in 0 .. 2 : Cut(t, u, i, e, lo, hi)
    BY <1>1, <1>6, <2>2, <2>3, <2>4, CutIs
  <2>6. PICK e \in 0 .. 2 : Cut(t, u, i, e, lo, hi)
    BY <2>5
  <2>7. DelRangeTurn(m, lo, hi) = [edges |-> t, from |-> i]
    <3>1. DelItems(u, lo, f, hi, g) = t
      BY <1>1, <2>3, <2>5, DelItemsIs
    <3>2. ~(i >= n) /\ ~(i < n /\ (lo > u[High(i)] \/ hi < u[Low(i)]))
      BY <1>1, <1>6 DEF Apart
    <3>3. DelRangeTurn(m, lo, hi)
            = [edges |-> DelItems(u, lo, [at |-> i, in |-> lo >= u[Low(i)]], hi,
                                  IF hi > u[High(i)] THEN Before(i + 1) ELSE Found(i)),
               from |-> i]
      BY <1>3, <3>2
    <3> QED BY <2>2, <3>1, <3>3, Zenon
  <2>8. /\ Sound(t) /\ NumRanges(t) = n - 1 + e /\ NumRanges(t) \in Nat
        /\ \A w \in Int : ~(lo <= w /\ w <= hi) => (Holds(t, w) <=> Holds(u, w))
        /\ Without(Listed(t), lo, hi) = Without(Listed(u), lo, hi)
    <3>1. NumRanges(t) \in Nat
      BY <2>6, NumNat DEF Cut, Sound
    <3> QED BY <2>6, <3>1 DEF Cut
  <2>9. /\ i + e \in i .. NumRanges(t)
        /\ 3 * (NumRanges(t) - (i + e)) + (i + e - i) <= 3 * NumRanges(s) - k
    BY <1>1, <1>2, <1>6, <2>1, <2>8
  <2>10. ASSUME NEW x \in 0 .. i + e - 1 PROVE Apart(t, x, lo, hi)
    <3>1. CASE x \in 0 .. i - 1
      <4>1. t[Low(x)] = u[Low(x)] /\ t[High(x)] = u[High(x)]
        BY <2>6, <3>1 DEF Cut
      <4>2. Apart(u, x, lo, hi)
        BY <1>2, <2>1, <3>1
      <4> QED BY <4>1, <4>2 DEF Apart
    <3>2. CASE x \in i .. i + e - 1
      BY <2>6, <3>2 DEF Cut
    <3>3. x \in 0 .. i - 1 \/ x \in i .. i + e - 1
      BY <1>1
    <3> QED BY <3>1, <3>2, <3>3
  <2>11. RangeErased([edges |-> t, from |-> i], s, lo, hi, k)
    <3> DEFINE q == [edges |-> t, from |-> i]
    <3>1. q.edges = t /\ q.from = i
      OBVIOUS
    <3> HIDE DEF q
    <3>2. /\ \A w \in Int : ~(lo <= w /\ w <= hi) => (Holds(t, w) <=> Holds(s, w))
          /\ Without(Listed(t), lo, hi) = Without(Listed(s), lo, hi)
      BY <1>1, <2>8
    <3>3. RangeErased(q, s, lo, hi, k)
      BY <1>1, <2>8, <2>9, <2>10, <3>1, <3>2 DEF RangeErased
    <3> QED BY <3>3 DEF q
  <2> QED BY <2>7, <2>11
<1> QED BY <1>1, <1>4, <1>5, <1>6

LEMMA DelRangeNotSortDoes ==
  ASSUME NEW s, Sound(s), NEW lo \in Int, NEW hi \in Int, lo <= hi, NEW items, HoldsAll(s, items)
  PROVE  LET t == DelRangeNotSort(s, lo, hi)
         IN  /\ Sound(t) /\ HoldsAll(t, items \ (lo .. hi))
             /\ Listed(t) = Without(Listed(s), lo, hi)
<1> DEFINE n == 3 * NumRanges(s)
<1>1. n \in Nat /\ NumRanges(s) \in Nat
  BY NumNat DEF Sound
<1>2. PICK f : /\ f[0] = Start(s)
               /\ \A k \in 1 .. n : f[k] = DelRangeTurn(f[k - 1], lo, hi)
               /\ DelRangeNotSort(s, lo, hi) = f[n].edges
  BY DelRangeNotSortIs
<1>3. RangeErased(f[0], s, lo, hi, 0)
  <2>1. f[0].edges = s /\ f[0].from = 0
    BY <1>2 DEF Start
  <2>2. /\ 0 \in 0 .. NumRanges(s) /\ 3 * (NumRanges(s) - 0) + (0 - 0) <= 3 * NumRanges(s) - 0
        /\ \A x \in 0 .. 0 - 1 : FALSE
    BY <1>1
  <2> QED BY <2>1, <2>2 DEF RangeErased
<1>4. ASSUME NEW k \in 0 .. n, ~RangeErased(f[k], s, lo, hi, k) PROVE FALSE
  <2> DEFINE T == {m \in 0 .. n : ~RangeErased(f[m], s, lo, hi, m)}
  <2>1. PICK m \in T : \A j \in T : m <= j
    <3>1. T \subseteq Nat /\ T # {}
      BY <1>4
    <3> HIDE DEF T
    <3> QED BY <3>1, LeastOf
  <2>2. m # 0
    BY <1>3, <2>1
  <2>3. m - 1 \in 0 .. n /\ m \in 1 .. n /\ ~(m <= m - 1)
    BY <1>1, <2>1, <2>2
  <2>4. RangeErased(f[m - 1], s, lo, hi, m - 1)
    BY <2>1, <2>3
  <2>5. RangeErased(f[m], s, lo, hi, m)
    <3>1. f[m] = DelRangeTurn(f[m - 1], lo, hi)
      BY <1>2, <2>3
    <3> QED BY <2>3, <2>4, <3>1, RangeErasesOn
  <2> QED BY <2>1, <2>5
<1>5. PICK t : t = DelRangeNotSort(s, lo, hi)
  BY Zenon
<1>6. /\ Sound(t)
      /\ \A w \in Int : Holds(t, w) <=> Holds(s, w) /\ ~(lo <= w /\ w <= hi)
      /\ Listed(t) = Without(Listed(s), lo, hi)
  <2>1. RangeErased(f[n], s, lo, hi, n)
    <3>1. n \in 0 .. n
      BY <1>1
    <3> QED BY <1>4, <3>1
  <2>2. f[n].edges = t
    BY <1>2, <1>5
  <2>3. Sound(t) /\ NumRanges(t) \in Nat /\ f[n].from \in Nat
    BY <2>1, <2>2, NumNat DEF RangeErased, Sound
  <2>4. PICK j \in f[n].from .. NumRanges(t) :
          /\ 3 * (NumRanges(t) - j) + (j - f[n].from) <= 3 * NumRanges(s) - n
          /\ \A x \in 0 .. j - 1 : Apart(t, x, lo, hi)
    BY <2>1, <2>2 DEF RangeErased
  <2>5. j = NumRanges(t)
    BY <1>1, <2>3, <2>4
  <2>6. ASSUME NEW w \in Int, lo <= w, w <= hi PROVE ~Holds(t, w)
    <3>1. SUFFICES ASSUME NEW x \in 0 .. NumRanges(t) - 1, In(t, x, w) PROVE FALSE
      BY DEF Holds
    <3>2. t[Low(x)] \in Int /\ t[High(x)] \in Int
      BY <2>3, EdgesInt
    <3>3. Apart(t, x, lo, hi)
      BY <2>4, <2>5
    <3> QED BY <2>6, <3>1, <3>2, <3>3 DEF Apart, In
  <2>7. Without(Listed(t), lo, hi) = Listed(t)
    BY <2>3, <2>4, <2>5, WithoutApart
  <2> QED BY <2>1, <2>2, <2>3, <2>6, <2>7 DEF RangeErased
<1>7. HoldsAll(t, items \ (lo .. hi))
  <2>1. \A v \in Int : v \in items \ (lo .. hi) <=> v \in items /\ ~(lo <= v /\ v <= hi)
    OBVIOUS
  <2> QED BY <1>6, <2>1 DEF HoldsAll
<1> QED BY <1>5, <1>6, <1>7


(* A range added at the end of the array. *)
LEMMA AddedAtEnd ==
  ASSUME NEW s, Sound(s), NEW lo \in Int, NEW hi \in Int, lo <= hi
  PROVE  LET t == s \o <<lo, hi>>
         IN  /\ Spliced(t, s, NumRanges(s), NumRanges(s), <<lo, hi>>) /\ Sound(t)
             /\ \A v \in Int : Holds(t, v) <=> Holds(s, v) \/ (lo <= v /\ v <= hi)
             /\ Listed(t) = Joined(Listed(s), Upto(lo, hi))
<1> DEFINE n == NumRanges(s)
<1>1. n \in Nat /\ s \in Seq(Int) /\ Len(s) = 2 * n
  BY NumNat DEF Sound
<1>2. PICK m : m = <<lo, hi>>
  BY Zenon
<1>3. Sound(m) /\ NumRanges(m) = 1 /\ m[Low(0)] = lo /\ m[High(0)] = hi
  BY <1>2, PairIs, Zenon
<1>4. PICK t : t = s \o m
  BY Zenon
<1>5. m \in Seq(Int) /\ Len(m) = 2
  BY <1>3 DEF Sound
<1>6. /\ t \in Seq(Int) /\ Len(t) = Len(s) + Len(m)
      /\ \A k \in 1 .. Len(s) : t[k] = s[k]
      /\ \A k \in 1 .. Len(m) : t[Len(s) + k] = m[k]
  BY <1>1, <1>4, <1>5, JoinIs
<1>7. NumRanges(t) = n + 1
  <2>1. Len(t) = 2 * (n + 1) /\ n + 1 \in Nat
    BY <1>1, <1>5, <1>6
  <2> QED BY <1>6, <2>1, NumIs
<1>8. ASSUME NEW i \in 0 .. n - 1 PROVE t[Low(i)] = s[Low(i)] /\ t[High(i)] = s[High(i)]
  <2>1. Low(i) \in 1 .. Len(s) /\ High(i) \in 1 .. Len(s)
    BY <1>1 DEF Low, High
  <2> QED BY <2>1, <1>6
<1>9. t[Low(n)] = lo /\ t[High(n)] = hi
  <2>1. Low(n) = Len(s) + 1 /\ High(n) = Len(s) + 2 /\ 1 \in 1 .. Len(m) /\ 2 \in 1 .. Len(m)
    BY <1>1, <1>5 DEF Low, High
  <2>2. m[1] = lo /\ m[2] = hi
    BY <1>3 DEF Low, High
  <2> QED BY <2>1, <2>2, <1>6
<1>10. Spliced(t, s, n, n, m)
  <2>1. Len(t) = 2 * NumRanges(t) /\ NumRanges(t) = n + NumRanges(m) + n - n
    BY <1>1, <1>3, <1>5, <1>6, <1>7
  <2>2. ASSUME NEW i \in 0 .. NumRanges(m) - 1
        PROVE  t[Low(n + i)] = m[Low(i)] /\ t[High(n + i)] = m[High(i)]
    <3>1. i = 0 /\ n + i = n
      BY <1>1, <1>3
    <3> QED BY <3>1, <1>3, <1>9
  <2>3. \A i \in n .. n - 1 : FALSE
    BY <1>1
  <2> QED BY <1>6, <1>8, <2>1, <2>2, <2>3 DEF Spliced
<1>11. n \in 0 .. n /\ n \in n .. n
  BY <1>1
<1>12. Sound(t)
  BY <1>3, <1>10, <1>11, SplicedSound
<1>13. ASSUME NEW v \in Int
       PROVE  Holds(t, v) <=> Holds(s, v) \/ (lo <= v /\ v <= hi)
  <2>1. Holds(t, v) <=> \/ \E i \in 0 .. n - 1 : In(s, i, v)
                        \/ Holds(m, v)
                        \/ \E i \in n .. n - 1 : In(s, i, v)
    BY <1>3, <1>10, <1>11, SplicedHolds
  <2>2. Holds(m, v) <=> In(m, 0, v)
    <3>1. \A i : i \in 0 .. NumRanges(m) - 1 <=> i = 0
      BY <1>3
    <3> QED BY <3>1 DEF Holds
  <2>3. In(m, 0, v) <=> lo <= v /\ v <= hi
    BY <1>3 DEF In
  <2>4. \A i \in n .. n - 1 : FALSE
    BY <1>1
  <2> QED BY <2>1, <2>2, <2>3, <2>4 DEF Holds
<1>14. Listed(t) = Joined(Listed(s), Upto(lo, hi))
  <2>1. PICK u, w : u = Section(Spans(s), 0, n) /\ w = Section(Spans(s), n, n)
    BY Zenon
  <2>2. Listed(t) = Joined(Joined(u, Listed(m)), w)
    BY <1>3, <1>10, <1>11, <2>1, ListedSpliced
  <2>3. Listed(s) = u /\ u \in Seq(Int)
    BY <2>1, ListedIs
  <2>4. w = <<>>
    BY <1>1, <2>1, SectionNone
  <2>5. Listed(m) = Upto(lo, hi) /\ Listed(m) \in Seq(Int)
    BY <1>2, <1>3, ListedPair, ListedIs
  <2>6. Joined(u, Listed(m)) \in Seq(Int)
    BY <2>3, <2>5, JoinedSeq
  <2> QED BY <2>2, <2>3, <2>4, <2>5, <2>6, IntSeqs
<1> QED BY <1>2, <1>4, <1>10, <1>12, <1>13, <1>14, Zenon

LEMMA AppendedAtEnd ==
  ASSUME NEW s, Sound(s), NEW lo \in Int, NEW hi \in Int, lo <= hi, NEW items, HoldsAll(s, items)
  PROVE  LET t == s \o <<lo, hi>>
         IN  /\ Sound(t) /\ HoldsAll(t, items \union (lo .. hi))
             /\ Listed(t) = Joined(Listed(s), Upto(lo, hi))
<1>1. PICK t : t = s \o <<lo, hi>>
  BY Zenon
<1>2. /\ Sound(t)
      /\ \A v \in Int : Holds(t, v) <=> Holds(s, v) \/ (lo <= v /\ v <= hi)
      /\ Listed(t) = Joined(Listed(s), Upto(lo, hi))
  BY <1>1, AddedAtEnd
<1>3. \A v \in Int : v \in items \union (lo .. hi) <=> v \in items \/ (lo <= v /\ v <= hi)
  OBVIOUS
<1>4. HoldsAll(t, items \union (lo .. hi))
  BY <1>2, <1>3 DEF HoldsAll
<1> QED BY <1>1, <1>2, <1>4

(* The search of a list that is not sorted finds the items it holds. *)
LEMMA NotSortFinds ==
  ASSUME NEW s, Sound(s), NEW v \in Int
  PROVE  SearchLinearNotSort(s, 0, v).in <=> Holds(s, v)
<1>1. PICK f : f = SearchLinearNotSort(s, 0, v)
  BY Zenon
<1>2. /\ f.in => f.at \in 0 .. NumRanges(s) - 1 /\ In(s, f.at, v)
      /\ ~f.in => \A i \in 0 .. NumRanges(s) - 1 : ~In(s, i, v)
  BY <1>1, NotSortIs
<1> QED BY <1>1, <1>2 DEF Holds

(* So does the search of a sorted one, which also tells what follows. *)
LEMMA DichotomyFinds ==
  ASSUME NEW s, Sound(s), Spread(s), NEW v \in Int
  PROVE  SearchDichotomy(s, v).in <=> Holds(s, v)
<1>1. PICK f, g : f = SearchDichotomy(s, v) /\ g = SearchLinearSort(s, f.at, v)
  BY Zenon
<1>2. Bounded(s, v, f, v, g)
  BY <1>1, SearchIsBounded
<1>3. NumRanges(s) \in Nat /\ f.at \in Nat /\ f.at <= NumRanges(s)
  BY <1>2, NumNat DEF Bounded, Places, Sound
<1>4. CASE f.in
  <2>1. f.at \in 0 .. NumRanges(s) - 1 /\ In(s, f.at, v)
    BY <1>2, <1>3, <1>4 DEF Bounded, Places, In
  <2> QED BY <1>1, <1>4, <2>1 DEF Holds
<1>5. CASE ~f.in
  <2>1. SUFFICES ASSUME NEW i \in 0 .. NumRanges(s) - 1, In(s, i, v) PROVE FALSE
    BY <1>1, <1>5 DEF Holds
  <2>2. s[Low(i)] \in Int /\ s[High(i)] \in Int /\ s[Low(i)] <= v /\ v <= s[High(i)]
    BY <2>1, EdgesInt DEF In
  <2>3. CASE i \in 0 .. f.at - 1
    BY <1>2, <2>2, <2>3, BoundedIs
  <2>4. CASE i \in f.at .. NumRanges(s) - 1
    BY <1>2, <1>5, <2>2, <2>4, BoundedIs
  <2> QED BY <1>3, <2>3, <2>4
<1> QED BY <1>4, <1>5

LEMMA AddNotSortDoes ==
  ASSUME NEW s, Sound(s), NEW v \in Int, NEW items, HoldsAll(s, items)
  PROVE  LET t == AddNotSort(s, v)
         IN  /\ Sound(t) /\ HoldsAll(t, items \union {v})
             /\ Listed(t) = IF Unique /\ v \in items THEN Listed(s) ELSE Append(Listed(s), v)
<1>1. CASE Unique /\ SearchLinearNotSort(s, 0, v).in
  <2>1. AddNotSort(s, v) = s
    BY <1>1 DEF AddNotSort
  <2>2. v \in items
    BY <1>1, NotSortFinds DEF HoldsAll
  <2>3. items \union {v} = items
    BY <2>2
  <2>4. Listed(s) = IF Unique /\ v \in items THEN Listed(s) ELSE Append(Listed(s), v)
    BY <1>1, <2>2
  <2> QED BY <2>1, <2>3, <2>4
<1>2. CASE ~(Unique /\ SearchLinearNotSort(s, 0, v).in)
  <2>1. AddNotSort(s, v) = s \o <<v, v>>
    BY <1>2 DEF AddNotSort
  <2>2. PICK t : t = s \o <<v, v>>
    BY Zenon
  <2>3. /\ Sound(t) /\ HoldsAll(t, items \union (v .. v))
        /\ Listed(t) = Joined(Listed(s), Upto(v, v))
    <3>1. PICK h : h = v
      BY Zenon
    <3>2. t = s \o <<v, h>> /\ h \in Int /\ v <= h
      BY <2>2, <3>1
    <3>3. /\ Sound(t) /\ HoldsAll(t, items \union (v .. h))
          /\ Listed(t) = Joined(Listed(s), Upto(v, h))
      BY <3>2, AppendedAtEnd
    <3> QED BY <3>1, <3>3, Zenon
  <2>4. items \union (v .. v) = items \union {v}
    OBVIOUS
  <2>5. ~(Unique /\ v \in items)
    BY <1>2, NotSortFinds DEF HoldsAll
  <2>6. Joined(Listed(s), Upto(v, v)) = Append(Listed(s), v)
    <3>1. Upto(v, v) = <<v>>
      <4>1. Upto(v, v) \in Seq(Int) /\ Len(Upto(v, v)) = 1 /\ Upto(v, v)[1] = v
        <5>1. v <= v + 1 /\ v - v + 1 = 1 /\ 1 \in 1 .. 1 /\ v + 1 - 1 = v
          OBVIOUS
        <5> QED BY <5>1, UptoIs
      <4> QED BY <4>1
    <3>2. Listed(s) \in Seq(Int)
      BY ListedIs
    <3>3. Append(Listed(s), v) = Listed(s) \o <<v>>
      BY <3>2, AppendIsConcat
    <3> QED BY <3>1, <3>3 DEF Joined
  <2> QED BY <2>1, <2>2, <2>3, <2>4, <2>5, <2>6, Zenon
<1> QED BY <1>1, <1>2

LEMMA AddRangeNotSortDoes ==
  ASSUME NEW s, Sound(s), NEW lo \in Int, NEW hi \in Int, lo <= hi, NEW items, HoldsAll(s, items)
  PROVE  LET t == AddRangeNotSort(s, lo, hi)
         IN  /\ Sound(t) /\ HoldsAll(t, items \union (lo .. hi))
             /\ Listed(t) = (IF Unique THEN Without(Listed(s), lo, hi) ELSE Listed(s)) \o Upto(lo, hi)
<1>1. PICK u : u = IF Unique THEN DelRangeNotSort(s, lo, hi) ELSE s
  BY Zenon
<1>2. PICK t : t = u \o <<lo, hi>>
  BY Zenon
<1>3. AddRangeNotSort(s, lo, hi) = t
  BY <1>1, <1>2, Zenon DEF AddRangeNotSort
<1>4. CASE Unique
  <2>1. Sound(u) /\ HoldsAll(u, items \ (lo .. hi)) /\ Listed(u) = Without(Listed(s), lo, hi)
    BY <1>1, <1>4, DelRangeNotSortDoes
  <2>2. PICK left : left = items \ (lo .. hi)
    BY Zenon
  <2>3. Sound(t) /\ HoldsAll(t, left \union (lo .. hi)) /\ Listed(t) = Joined(Listed(u), Upto(lo, hi))
    BY <1>2, <2>1, <2>2, AppendedAtEnd
  <2>4. left \union (lo .. hi) = items \union (lo .. hi)
    BY <2>2
  <2> QED BY <1>3, <1>4, <2>1, <2>3, <2>4 DEF Joined
<1>5. CASE ~Unique
  <2>1. u = s
    BY <1>1, <1>5
  <2>2. Sound(t) /\ HoldsAll(t, items \union (lo .. hi)) /\ Listed(t) = Joined(Listed(s), Upto(lo, hi))
    BY <1>2, <2>1, AppendedAtEnd
  <2> QED BY <1>3, <1>5, <2>2 DEF Joined
<1> QED BY <1>4, <1>5


-----------------------------------------------------------------------------
(* The questions.                                                          *)

LEMMA ContainsRangeSortIs ==
  ASSUME Sound(ranges.edges), Spread(ranges.edges), NEW items, HoldsAll(ranges.edges, items),
         NEW lo \in Int, NEW hi \in Int, lo <= hi
  PROVE  /\ ContainsRangeSort(lo, hi) = "yes" <=> lo .. hi \subseteq items
         /\ ContainsRangeSort(lo, hi) \in {"yes", "no"}
<1>1. PICK s, f, g : /\ s = ranges.edges /\ f = SearchDichotomy(s, lo)
                     /\ g = SearchLinearSort(s, f.at, hi)
  BY Zenon
<1>2. Sound(s) /\ Spread(s) /\ HoldsAll(s, items) /\ Bounded(s, lo, f, hi, g)
  BY <1>1, SearchIsBounded
<1>3. ContainsRangeSort(lo, hi) = IF f.in /\ g.in /\ f.at = g.at THEN "yes" ELSE "no"
  BY <1>1, Zenon DEF ContainsRangeSort
<1>4. /\ NumRanges(s) \in Nat /\ f.at \in Nat /\ g.at \in Nat /\ f.at <= g.at
      /\ f.at <= NumRanges(s) /\ g.at <= NumRanges(s)
  BY <1>2, NumNat DEF Bounded, Places, Sound
<1>5. f.in => f.at \in 0 .. NumRanges(s) - 1 /\ s[Low(f.at)] <= lo /\ lo <= s[High(f.at)]
  BY <1>2, <1>4 DEF Bounded, Places
<1>6. g.in => g.at \in 0 .. NumRanges(s) - 1 /\ s[Low(g.at)] <= hi /\ hi <= s[High(g.at)]
  BY <1>2, <1>4 DEF Bounded, Places
<1>7. ASSUME f.in, g.in, f.at = g.at PROVE lo .. hi \subseteq items
  <2>1. s[Low(f.at)] \in Int /\ s[High(f.at)] \in Int
    BY <1>2, <1>5, <1>7, EdgesInt
  <2>2. ASSUME NEW v \in lo .. hi PROVE Holds(s, v)
    <3>1. In(s, f.at, v)
      BY <1>5, <1>6, <1>7, <2>1 DEF In
    <3> QED BY <1>5, <1>7, <3>1 DEF Holds
  <2> QED BY <1>2, <2>2 DEF HoldsAll
<1>8. ASSUME lo .. hi \subseteq items PROVE f.in /\ g.in /\ f.at = g.at
  <2>1. f.in
    <3>1. Holds(s, lo)
      <4>1. lo \in lo .. hi
        OBVIOUS
      <4> QED BY <1>2, <1>8, <4>1 DEF HoldsAll
    <3> QED BY <1>1, <1>2, <3>1, DichotomyFinds
  <2>2. /\ s[Low(f.at)] \in Int /\ s[High(f.at)] \in Int /\ f.at \in 0 .. NumRanges(s) - 1
    BY <1>2, <1>5, <2>1, EdgesInt
  <2>3. hi <= s[High(f.at)]
    <3>1. SUFFICES ASSUME ~(hi <= s[High(f.at)]) PROVE FALSE
      OBVIOUS
    <3>2. PICK v : v = s[High(f.at)] + 1
      BY Zenon
    <3>3. v \in lo .. hi /\ v \in Int
      BY <1>5, <2>1, <2>2, <3>1, <3>2
    <3>4. Holds(s, v)
      BY <1>2, <1>8, <3>3 DEF HoldsAll
    <3>5. PICK j \in 0 .. NumRanges(s) - 1 : In(s, j, v)
      BY <3>4 DEF Holds
    <3>6. /\ s[Low(j)] \in Int /\ s[High(j)] \in Int
          /\ f.at < j => s[High(f.at)] + 1 < s[Low(j)]
          /\ j < f.at => s[High(j)] + 1 < s[Low(f.at)]
          /\ s[Low(f.at)] <= s[High(f.at)]
      BY <1>2, <2>2, SpreadEdges
    <3>7. s[Low(j)] <= v /\ v <= s[High(j)]
      BY <3>5 DEF In
    <3>8. j < f.at \/ j = f.at \/ f.at < j
      BY <2>2
    <3> QED BY <2>2, <3>2, <3>3, <3>6, <3>7, <3>8
  <2>4. g.at = f.at
    <3>1. f.at \notin f.at .. g.at - 1
      BY <1>2, <2>2, <2>3 DEF Bounded, Places
    <3> QED BY <1>4, <3>1
  <2>5. g.in
    <3>1. ~g.in => hi < s[Low(f.at)]
      <4>1. g.at < NumRanges(s)
        BY <1>4, <2>2, <2>4
      <4>2. ~g.in /\ g.at < NumRanges(s) => hi < s[Low(g.at)]
        BY <1>2 DEF Bounded, Places
      <4> QED BY <2>4, <4>1, <4>2
    <3>2. g.in \in BOOLEAN
      BY <1>2 DEF Bounded, Places
    <3>3. ~(hi < s[Low(f.at)])
      BY <1>5, <2>1, <2>2
    <3> QED BY <3>1, <3>2, <3>3
  <2> QED BY <2>1, <2>4, <2>5
<1> QED BY <1>3, <1>7, <1>8

(* What the loop of netwib_priv_ranges_contains_range_notsort answers from an
   item on, when f is what it answers from the next ones on. *)
Answer(s, top, hi, x, f) ==
  LET found == SearchLinearNotSort(s, 0, x)
      sup == s[High(found.at)]
  IN  IF ~found.in THEN "no"
      ELSE IF sup = top THEN "error"
      ELSE IF sup + 1 > hi THEN "yes"
      ELSE f[sup + 1]

(* Two answers that agree on the next items. *)
LEMMA AnswersOn ==
  ASSUME NEW s, Sound(s), NEW top \in Nat, NEW hi \in 0 .. top, NEW x \in 0 .. top, NEW f, NEW g,
         \A v \in Int : Holds(s, v) => v \in 0 .. top,
         \A y \in (x + 1) .. top : f[y] = g[y]
  PROVE  Answer(s, top, hi, x, f) = Answer(s, top, hi, x, g)
<1>1. PICK found, sup : found = SearchLinearNotSort(s, 0, x) /\ sup = s[High(found.at)]
  BY Zenon
<1>2. /\ Answer(s, top, hi, x, f) = (IF ~found.in THEN "no" ELSE IF sup = top THEN "error"
                                      ELSE IF sup + 1 > hi THEN "yes" ELSE f[sup + 1])
      /\ Answer(s, top, hi, x, g) = (IF ~found.in THEN "no" ELSE IF sup = top THEN "error"
                                      ELSE IF sup + 1 > hi THEN "yes" ELSE g[sup + 1])
  BY <1>1, Zenon DEF Answer
<1>3. ASSUME found.in, sup # top PROVE sup + 1 \in (x + 1) .. top
  <2>1. found.at \in 0 .. NumRanges(s) - 1 /\ In(s, found.at, x)
    BY <1>1, <1>3, NotSortIs
  <2>2. sup \in Int /\ s[Low(found.at)] \in Int /\ x <= sup /\ s[Low(found.at)] <= sup
    BY <1>1, <2>1, EdgesInt DEF In
  <2>3. Holds(s, sup)
    BY <1>1, <2>1, <2>2 DEF Holds, In
  <2>4. sup \in 0 .. top
    BY <2>2, <2>3
  <2> QED BY <1>3, <2>2, <2>4
<1>4. CASE found.in /\ sup # top
  BY <1>2, <1>3, <1>4
<1>5. CASE ~(found.in /\ sup # top)
  BY <1>2, <1>5
<1> QED BY <1>4, <1>5

LEMMA SomeAnswers ==
  ASSUME NEW s, Sound(s), NEW top \in Nat, NEW hi \in 0 .. top,
         \A v \in Int : Holds(s, v) => v \in 0 .. top
  PROVE  \E f : \A x \in 0 .. top : f[x] = Answer(s, top, hi, x, f)
<1> DEFINE Fine(f, k) == \A x \in (top + 1) - k .. top : f[x] = Answer(s, top, hi, x, f)
           T == {k \in 0 .. top + 1 : ~\E f : Fine(f, k)}
<1>1. ASSUME T = {} PROVE \E f : \A x \in 0 .. top : f[x] = Answer(s, top, hi, x, f)
  <2>1. top + 1 \in 0 .. top + 1 /\ (top + 1) - (top + 1) = 0
    OBVIOUS
  <2> HIDE DEF Fine
  <2>2. PICK f : Fine(f, top + 1)
    BY <1>1, <2>1
  <2>3. Fine(f, top + 1) => \A x \in 0 .. top : f[x] = Answer(s, top, hi, x, f)
    BY <2>1 DEF Fine
  <2> QED BY <2>2, <2>3
<1>2. ASSUME T # {} PROVE FALSE
  <2>1. PICK m \in T : \A j \in T : m <= j
    <3>1. T \subseteq Nat
      OBVIOUS
    <3> HIDE DEF T
    <3> QED BY <1>2, <3>1, LeastOf
  <2>2. m # 0
    <3>1. \A x \in (top + 1) - 0 .. top : FALSE
      OBVIOUS
    <3>2. \E f : Fine(f, 0)
      BY <3>1
    <3> HIDE DEF Fine
    <3> QED BY <2>1, <3>2
  <2>3. PICK k, z : k = m - 1 /\ z = (top + 1) - m
    BY Zenon
  <2>4. /\ k \in 0 .. top + 1 /\ ~(m <= k) /\ m \in 0 .. top + 1
        /\ z \in 0 .. top /\ (top + 1) - k = z + 1 /\ (top + 1) - m = z
    BY <2>1, <2>2, <2>3
  <2>5. PICK f : Fine(f, k)
    <3> HIDE DEF Fine
    <3> QED BY <2>1, <2>4
  <2>6. \A x \in (z + 1) .. top : f[x] = Answer(s, top, hi, x, f)
    BY <2>4, <2>5
  <2>7. PICK g : g = [x \in 0 .. top |-> IF x = z THEN Answer(s, top, hi, z, f) ELSE f[x]]
    BY Zenon
  <2>8. \A x \in (z + 1) .. top : g[x] = f[x]
    BY <2>4, <2>7
  <2>9. g[z] = Answer(s, top, hi, z, f)
    BY <2>4, <2>7
  <2>10. ASSUME NEW x \in z .. top PROVE g[x] = Answer(s, top, hi, x, g)
    <3>1. \A y \in (x + 1) .. top : g[y] = f[y]
      BY <2>4, <2>8
    <3>2. x \in 0 .. top
      BY <2>4
    <3>3. Answer(s, top, hi, x, g) = Answer(s, top, hi, x, f)
      BY <3>1, <3>2, AnswersOn
    <3>4. g[x] = Answer(s, top, hi, x, f)
      <4>1. CASE x = z
        BY <2>9, <4>1
      <4>2. CASE x # z
        <5>1. x \in (z + 1) .. top
          BY <2>4, <4>2
        <5> QED BY <2>6, <2>8, <5>1
      <4> QED BY <4>1, <4>2
    <3> QED BY <3>3, <3>4
  <2>11. Fine(g, m)
    BY <2>4, <2>10
  <2> HIDE DEF Fine
  <2> QED BY <2>1, <2>11
<1> HIDE DEF T
<1> QED BY <1>1, <1>2

Answers(f, s, top, hi) == \A x \in 0 .. top : f[x] = Answer(s, top, hi, x, f)

LEMMA AnswersAre ==
  ASSUME NEW s, Sound(s), NEW top \in Nat, NEW hi \in 0 .. top, NEW items, HoldsAll(s, items),
         items \subseteq 0 .. top, NEW f, Answers(f, s, top, hi),
         NEW x \in 0 .. hi
  PROVE  f[x] # "error" => (f[x] = "yes" <=> x .. hi \subseteq items)
<1> DEFINE Right(y) == f[y] # "error" => (f[y] = "yes" <=> y .. hi \subseteq items)
           T == {k \in 0 .. hi : ~Right(hi - k)}
<1>1. ASSUME T = {} PROVE Right(x)
  <2>1. hi - x \in 0 .. hi /\ hi - (hi - x) = x
    OBVIOUS
  <2> HIDE DEF Right
  <2> QED BY <1>1, <2>1
<1>2. ASSUME T # {} PROVE FALSE
  <2>1. PICK m \in T : \A j \in T : m <= j
    <3>1. T \subseteq Nat
      OBVIOUS
    <3> HIDE DEF T
    <3> QED BY <1>2, <3>1, LeastOf
  <2>2. PICK y : y = hi - m
    BY Zenon
  <2>3. y \in 0 .. hi /\ y \in 0 .. top
    BY <2>1, <2>2
  <2>4. ASSUME NEW z \in (y + 1) .. hi PROVE Right(z)
    <3>1. hi - z \in 0 .. hi /\ ~(m <= hi - z) /\ hi - (hi - z) = z
      BY <2>1, <2>2, <2>3
    <3> HIDE DEF Right
    <3> QED BY <2>1, <3>1
  <2>5. PICK found, sup : found = SearchLinearNotSort(s, 0, y) /\ sup = s[High(found.at)]
    BY Zenon
  <2>6. f[y] = IF ~found.in THEN "no" ELSE IF sup = top THEN "error"
               ELSE IF sup + 1 > hi THEN "yes" ELSE f[sup + 1]
    BY <2>3, <2>5 DEF Answer, Answers
  <2>7. Right(y)
    <3>1. CASE ~found.in
      <4>1. ~Holds(s, y)
        BY <2>3, <2>5, <3>1, NotSortFinds
      <4>2. y \notin items /\ y \in y .. hi
        BY <2>3, <4>1 DEF HoldsAll
      <4> QED BY <2>6, <3>1, <4>2
    <3>2. CASE found.in
      <4>1. found.at \in 0 .. NumRanges(s) - 1 /\ In(s, found.at, y)
        BY <2>3, <2>5, <3>2, NotSortIs
      <4>2. sup \in Int /\ s[Low(found.at)] \in Int /\ s[Low(found.at)] <= y /\ y <= sup
        BY <2>5, <4>1, EdgesInt DEF In
      <4>3. ASSUME NEW z \in y .. sup PROVE z \in items
        <5>1. In(s, found.at, z)
          BY <2>3, <2>5, <4>2 DEF In
        <5>2. Holds(s, z)
          BY <4>1, <5>1 DEF Holds
        <5> QED BY <5>2 DEF HoldsAll
      <4>4. CASE sup = top
        BY <2>6, <3>2, <4>4
      <4>5. CASE sup # top /\ sup + 1 > hi
        <5>1. y .. hi \subseteq items
          BY <4>2, <4>3, <4>5
        <5> QED BY <2>6, <3>2, <4>5, <5>1
      <4>6. CASE sup # top /\ ~(sup + 1 > hi)
        <5>1. PICK z : z = sup + 1
          BY Zenon
        <5>2. z \in (y + 1) .. hi
          BY <2>3, <4>2, <4>6, <5>1
        <5>3. f[y] = f[z]
          BY <2>6, <3>2, <4>6, <5>1
        <5>4. z .. hi \subseteq items <=> y .. hi \subseteq items
          <6>1. \A w \in y .. hi : w \in y .. sup \/ w \in z .. hi
            BY <2>3, <4>2, <5>1
          <6>2. \A w \in z .. hi : w \in y .. hi
            BY <2>3, <5>2
          <6> QED BY <4>3, <6>1, <6>2
        <5> QED BY <2>4, <5>2, <5>3, <5>4
      <4> QED BY <4>4, <4>5, <4>6
    <3> QED BY <3>1, <3>2
  <2> HIDE DEF Right
  <2> QED BY <2>1, <2>2, <2>7
<1> HIDE DEF T
<1> QED BY <1>1, <1>2

LEMMA ContainsRangeNotSortIs ==
  ASSUME Sound(ranges.edges), ranges.top \in Nat, NEW items, HoldsAll(ranges.edges, items),
         items \subseteq AllItems, NEW lo \in AllItems, NEW hi \in AllItems, lo <= hi
  PROVE  ContainsRangeNotSort(lo, hi) # "error" =>
           (ContainsRangeNotSort(lo, hi) = "yes" <=> lo .. hi \subseteq items)
<1>1. PICK s, top : s = ranges.edges /\ top = ranges.top
  BY Zenon
<1>2. /\ Sound(s) /\ top \in Nat /\ hi \in 0 .. top /\ lo \in 0 .. hi /\ lo \in 0 .. top
      /\ HoldsAll(s, items) /\ items \subseteq 0 .. top
  BY <1>1 DEF AllItems
<1> DEFINE F(f) == [searched \in AllItems |->
                      LET found == SearchLinearNotSort(ranges.edges, 0, searched)
                          sup == ranges.edges[High(found.at)]
                      IN  IF ~found.in THEN "no"
                          ELSE IF sup = ranges.top THEN "error"
                          ELSE IF sup + 1 > hi THEN "yes"
                          ELSE f[sup + 1]]
           From == CHOOSE f : f = F(f)
<1>3. \A f : F(f) = [x \in 0 .. top |-> Answer(s, top, hi, x, f)]
  BY <1>1, Zenon DEF Answer, AllItems
<1>4. ContainsRangeNotSort(lo, hi) = From[lo]
  BY DEF ContainsRangeNotSort
<1>5. PICK f : \A x \in 0 .. top : f[x] = Answer(s, top, hi, x, f)
  <2>1. \A v \in Int : Holds(s, v) => v \in 0 .. top
    BY <1>2 DEF HoldsAll
  <2> QED BY <1>2, <2>1, SomeAnswers
<1>6. PICK g : g = [x \in 0 .. top |-> f[x]]
  BY Zenon
<1>7. \A x \in 0 .. top : g[x] = Answer(s, top, hi, x, g)
  <2>1. ASSUME NEW x \in 0 .. top PROVE g[x] = Answer(s, top, hi, x, g)
    <3>1. \A y \in (x + 1) .. top : g[y] = f[y]
      BY <1>2, <1>6
    <3>2. Answer(s, top, hi, x, g) = Answer(s, top, hi, x, f)
      <4>1. \A v \in Int : Holds(s, v) => v \in 0 .. top
        BY <1>2 DEF HoldsAll
      <4> QED BY <1>2, <3>1, <4>1, AnswersOn
    <3> QED BY <1>5, <1>6, <3>2
  <2> QED BY <2>1
<1> HIDE DEF F
<1>8. g = F(g)
  <2>1. g = [x \in 0 .. top |-> g[x]]
    BY <1>6
  <2>2. [x \in 0 .. top |-> g[x]] = [x \in 0 .. top |-> Answer(s, top, hi, x, g)]
    BY <1>7
  <2> QED BY <1>3, <2>1, <2>2, Zenon
<1>9. From = F(From)
  BY <1>8, Zenon
<1> HIDE DEF From
<1>10. \A x \in 0 .. top : From[x] = Answer(s, top, hi, x, From)
  BY <1>3, <1>9
<1>11. From[lo] # "error" => (From[lo] = "yes" <=> lo .. hi \subseteq items)
  <2>1. Answers(From, s, top, hi)
    BY <1>10 DEF Answers
  <2> QED BY <1>2, <2>1, AnswersAre
<1> QED BY <1>4, <1>11, Zenon


-----------------------------------------------------------------------------
(* The walk.                                                               *)

(* What is left of a list of items is a list of items. *)
LEMMA WithoutIn ==
  ASSUME NEW S, S \subseteq Int, NEW s \in Seq(S), NEW lo, NEW hi
  PROVE  Without(s, lo, hi) \in Seq(S)
<1>1. PICK n \in Nat : n = Len(s)
  OBVIOUS
<1>2. PICK e : e = [k \in 1 .. n |-> IF s[k] < lo \/ s[k] > hi THEN <<s[k]>> ELSE <<>>]
  BY Zenon
<1>3. \A k \in 1 .. n : e[k] \in Seq(S) /\ e[k] \in Seq(Int)
  <2>1. ASSUME NEW k \in 1 .. n PROVE e[k] \in Seq(S) /\ e[k] \in Seq(Int)
    <3>1. PICK x : x = s[k]
      BY Zenon
    <3>2. x \in S
      <4>1. k \in 1 .. Len(s)
        BY <1>1
      <4>2. s[k] \in S
        BY <4>1, ElementOfSeq
      <4> QED BY <3>1, <4>2
    <3>3. e[k] = <<x>> \/ e[k] = <<>>
      BY <1>2, <3>1
    <3>4. x \in Int /\ <<x>> \in Seq(S) /\ <<>> \in Seq(S)
      BY <3>2
    <3>5. <<x>> \in Seq(Int) /\ <<>> \in Seq(Int)
      BY <3>4
    <3> QED BY <3>3, <3>4, <3>5, Zenon
  <2> QED BY <2>1
<1>4. PICK f : Run(f, e, n)
  BY <1>3, SomeRun
<1>5. Without(s, lo, hi) = f[n]
  <2>1. e = [k \in 1 .. n |-> e[k]]
    BY <1>2
  <2>2. FlattenSeq(e) = f[n]
    BY <1>4, <2>1, FlattenIs
  <2>3. Without(s, lo, hi) = FlattenSeq(e)
    BY <1>1, <1>2, Zenon DEF Without
  <2> QED BY <2>2, <2>3
<1> DEFINE T == {m \in 0 .. n : f[m] \notin Seq(S)}
<1>6. ASSUME T # {} PROVE FALSE
  <2>1. PICK m \in T : \A j \in T : m <= j
    <3>1. T \subseteq Nat
      OBVIOUS
    <3> HIDE DEF T
    <3> QED BY <1>6, <3>1, LeastOf
  <2>2. m # 0
    <3>1. f[0] = <<>> /\ <<>> \in Seq(S)
      BY <1>4 DEF Run
    <3> QED BY <2>1, <3>1
  <2>3. m - 1 \in 0 .. n /\ m \in 1 .. n /\ ~(m <= m - 1)
    BY <2>1, <2>2
  <2>4. f[m - 1] \in Seq(S)
    BY <2>1, <2>3
  <2>5. f[m] = f[m - 1] \o e[m]
    BY <1>4, <2>3 DEF Run, Joined
  <2>6. f[m] \in Seq(S)
    BY <1>3, <2>3, <2>4, <2>5, ConcatProperties
  <2> QED BY <2>1, <2>6
<1>7. n \in 0 .. n
  OBVIOUS
<1> QED BY <1>5, <1>6, <1>7

LEMMA UptoIn ==
  ASSUME NEW top \in Nat, NEW lo \in 0 .. top, NEW hi \in 0 .. top, lo <= hi
  PROVE  Upto(lo, hi) \in Seq(0 .. top)
<1>1. \A k \in 1 .. hi - lo + 1 : lo + k - 1 \in 0 .. top
  OBVIOUS
<1>2. hi - lo + 1 \in Nat
  OBVIOUS
<1> QED BY <1>1, <1>2 DEF Upto

(* An item that lies after the ranges before i is in a later one. *)
LEMMA AfterRanges ==
  ASSUME NEW s, Sound(s), Spread(s), NEW i \in 0 .. NumRanges(s), NEW v \in Int, Holds(s, v),
         \A h \in 0 .. i - 1 : s[High(h)] < v
  PROVE  i < NumRanges(s) /\ s[Low(i)] <= v
<1>1. NumRanges(s) \in Nat
  BY NumNat DEF Sound
<1>2. PICK j \in 0 .. NumRanges(s) - 1 : In(s, j, v)
  BY DEF Holds
<1>3. s[Low(j)] \in Int /\ s[High(j)] \in Int /\ s[Low(j)] <= v /\ v <= s[High(j)]
  BY <1>2, EdgesInt DEF In
<1>4. j \notin 0 .. i - 1
  BY <1>3
<1>5. i <= j /\ i \in 0 .. NumRanges(s) - 1
  BY <1>1, <1>2, <1>4
<1>6. /\ s[Low(i)] \in Int /\ s[High(i)] \in Int /\ s[Low(i)] <= s[High(i)]
      /\ i < j => s[High(i)] + 1 < s[Low(j)]
  BY <1>5, SpreadEdges
<1>7. i = j \/ i < j
  BY <1>1, <1>5
<1> QED BY <1>1, <1>3, <1>5, <1>6, <1>7

(* Where the last item given is found. *)
LEMMA AdjustIs ==
  ASSUME Sound(ranges.edges), Sorted => Spread(ranges.edges), NEW s, s = ranges.edges,
         index.lastsupitem \in Int, index.lastindex \in Nat, NEW found, found = Adjust
  PROVE  /\ found.in \in BOOLEAN
         /\ found.in => found.at \in 0 .. NumRanges(s) - 1 /\ In(s, found.at, index.lastsupitem)
         /\ Sorted /\ ~found.in => Places(s, 0, NumRanges(s), index.lastsupitem, found)
         /\ index.lastindex < NumRanges(s) /\ In(s, index.lastindex, index.lastsupitem)
              => found = Found(index.lastindex)
<1>1. PICK v, i : v = index.lastsupitem /\ i = index.lastindex
  BY Zenon
<1>2. found = IF i < NumRanges(s) /\ In(s, i, v) THEN Found(i) ELSE Search(s, v)
  BY <1>1, Zenon DEF Adjust
<1>3. Sound(s) /\ (Sorted => Spread(s)) /\ v \in Int /\ i \in Nat
  BY <1>1
<1>4. NumRanges(s) \in Nat
  BY <1>3, NumNat DEF Sound
<1>5. CASE i < NumRanges(s) /\ In(s, i, v)
  <2>1. found = Found(i) /\ Found(i).in = TRUE /\ Found(i).at = i
    BY <1>2, <1>5 DEF Found
  <2>2. i \in 0 .. NumRanges(s) - 1
    BY <1>3, <1>4, <1>5
  <2> QED BY <1>1, <1>5, <2>1, <2>2
<1>6. CASE ~(i < NumRanges(s) /\ In(s, i, v)) /\ Sorted
  <2>1. found = SearchDichotomy(s, v)
    BY <1>2, <1>6 DEF Search
  <2>2. found = SearchLinearSort(s, 0, v)
    BY <1>3, <1>6, <2>1, DichotomyIs
  <2>3. 0 \in 0 .. NumRanges(s)
    BY <1>4
  <2>4. Places(s, 0, NumRanges(s), v, SearchLinearSort(s, 0, v))
    BY <1>3, <2>3, LinearIs
  <2>5. Places(s, 0, NumRanges(s), v, found)
    BY <2>2, <2>4
  <2>6. found.in \in BOOLEAN /\ (found.in => found.at \in 0 .. NumRanges(s) - 1 /\ In(s, found.at, v))
    BY <1>4, <2>5 DEF Places, In
  <2> QED BY <1>1, <1>6, <2>5, <2>6
<1>7. CASE ~(i < NumRanges(s) /\ In(s, i, v)) /\ ~Sorted
  <2>1. found = SearchLinearNotSort(s, 0, v)
    BY <1>2, <1>7 DEF Search
  <2>2. found.in \in BOOLEAN /\ (found.in => found.at \in 0 .. NumRanges(s) - 1 /\ In(s, found.at, v))
    BY <1>3, <2>1, NotSortIs, SMTT(30)
  <2> QED BY <1>1, <1>7, <2>2
<1> QED BY <1>5, <1>6, <1>7

(* The four ways in which a walk goes on. *)
LEMMA GoesOnIs ==
  ASSUME NEW s, s = ranges.edges, NEW found, found = Adjust, NEW place, place = GoesOn,
         found.in \in BOOLEAN
  PROVE  \/ ~index.lastset /\ place = AtRange(0)
         \/ index.lastset /\ ~found.in /\ Sorted /\ place = AtRange(found.at)
         \/ index.lastset /\ ~found.in /\ ~Sorted /\ place = AtRange(NumRanges(s))
         \/ /\ index.lastset /\ found.in /\ s[High(found.at)] # index.lastsupitem
            /\ place = [at |-> found.at, from |-> index.lastsupitem + 1]
         \/ /\ index.lastset /\ found.in /\ s[High(found.at)] = index.lastsupitem
            /\ place = AtRange(found.at + 1)
<1>1. CASE ~index.lastset
  BY <1>1 DEF GoesOn
<1>2. CASE index.lastset /\ ~found.in
  BY <1>2 DEF GoesOn
<1>3. CASE index.lastset /\ found.in /\ s[High(found.at)] # index.lastsupitem
  BY <1>3 DEF GoesOn
<1>4. CASE index.lastset /\ found.in /\ s[High(found.at)] = index.lastsupitem
  BY <1>4 DEF GoesOn
<1> QED BY <1>1, <1>2, <1>3, <1>4

(* The range where a walk goes on, and the item, which is in the range. *)
LEMMA AtRangeIs ==
  ASSUME Sound(ranges.edges), NEW s, s = ranges.edges, NEW i \in 0 .. NumRanges(s),
         NEW place, place = AtRange(i)
  PROVE  /\ place.at = i
         /\ i < NumRanges(s) => /\ place.from = s[Low(i)] /\ s[Low(i)] \in Int /\ s[High(i)] \in Int
                                /\ s[Low(i)] <= s[High(i)]
<1>1. place = [at |-> i, from |-> IF i < NumRanges(s) THEN s[Low(i)] ELSE 0]
  BY DEF AtRange
<1>2. NumRanges(s) \in Nat
  BY NumNat DEF Sound
<1>3. ASSUME i < NumRanges(s)
      PROVE  s[Low(i)] \in Int /\ s[High(i)] \in Int /\ s[Low(i)] <= s[High(i)]
  <2>1. i \in 0 .. NumRanges(s) - 1
    BY <1>2, <1>3
  <2> QED BY <2>1, EdgesInt
<1>4. place.at = i /\ (i < NumRanges(s) => place.from = s[Low(i)])
  BY <1>1
<1> QED BY <1>3, <1>4

LEMMA GoesOnAt ==
  ASSUME Sound(ranges.edges), Sorted => Spread(ranges.edges), NEW s, s = ranges.edges,
         index.lastset \in BOOLEAN,
         index.lastsupitem \in Int, index.lastindex \in Nat, NEW place, place = GoesOn
  PROVE  /\ place.at \in 0 .. NumRanges(s)
         /\ place.at < NumRanges(s) =>
              /\ place.from \in Int /\ s[Low(place.at)] \in Int /\ s[High(place.at)] \in Int
              /\ s[Low(place.at)] <= place.from /\ place.from <= s[High(place.at)]
         /\ Sorted /\ index.lastset /\ place.at < NumRanges(s) => index.lastsupitem < place.from
         /\ Sorted => \A v \in Int :
              Holds(s, v) /\ (index.lastset => index.lastsupitem < v) =>
                place.at < NumRanges(s) /\ place.from <= v
<1>1. PICK found, w : found = Adjust /\ w = index.lastsupitem
  BY Zenon
<1>2. /\ found.in \in BOOLEAN
      /\ found.in => found.at \in 0 .. NumRanges(s) - 1 /\ In(s, found.at, w)
      /\ Sorted /\ ~found.in => Places(s, 0, NumRanges(s), w, found)
  BY <1>1, AdjustIs
<1>3. NumRanges(s) \in Nat /\ Sound(s) /\ (Sorted => Spread(s)) /\ w \in Int
  BY <1>1, NumNat DEF Sound
<1>4. CASE ~index.lastset /\ place = AtRange(0)
  <2>1. 0 \in 0 .. NumRanges(s) /\ \A h \in 0 .. 0 - 1 : FALSE
    BY <1>3
  <2>2. /\ place.at = 0
        /\ 0 < NumRanges(s) => /\ place.from = s[Low(0)] /\ s[Low(0)] \in Int /\ s[High(0)] \in Int
                               /\ s[Low(0)] <= s[High(0)]
    BY <1>4, <2>1, AtRangeIs
  <2>3. ASSUME Sorted, NEW v \in Int, Holds(s, v) PROVE 0 < NumRanges(s) /\ s[Low(0)] <= v
    BY <1>3, <2>1, <2>3, AfterRanges
  <2> QED BY <1>4, <2>1, <2>2, <2>3
<1>5. CASE index.lastset /\ ~found.in /\ Sorted /\ place = AtRange(found.at)
  <2>1. /\ found.at \in 0 .. NumRanges(s)
        /\ \A h \in 0 .. found.at - 1 : s[High(h)] < w
        /\ found.at < NumRanges(s) => w < s[Low(found.at)]
    BY <1>2, <1>3, <1>5 DEF Places
  <2>2. /\ place.at = found.at
        /\ found.at < NumRanges(s) =>
             /\ place.from = s[Low(found.at)] /\ s[Low(found.at)] \in Int
             /\ s[High(found.at)] \in Int /\ s[Low(found.at)] <= s[High(found.at)]
    BY <1>5, <2>1, AtRangeIs
  <2>3. ASSUME NEW v \in Int, Holds(s, v), w < v
        PROVE  found.at < NumRanges(s) /\ s[Low(found.at)] <= v
    <3>1. ASSUME NEW h \in 0 .. found.at - 1 PROVE s[High(h)] < v
      <4>1. h \in 0 .. NumRanges(s) - 1
        BY <1>3, <2>1
      <4>2. s[High(h)] \in Int
        BY <1>3, <4>1, EdgesInt
      <4> QED BY <1>3, <2>1, <2>3, <4>2
    <3> QED BY <1>3, <1>5, <2>1, <2>3, <3>1, AfterRanges
  <2>4. found.at < NumRanges(s) => s[Low(found.at)] <= s[Low(found.at)]
    BY <2>2
  <2> QED BY <1>1, <1>5, <2>1, <2>2, <2>3, <2>4
<1>6. CASE index.lastset /\ ~found.in /\ ~Sorted /\ place = AtRange(NumRanges(s))
  <2>1. NumRanges(s) \in 0 .. NumRanges(s) /\ ~(NumRanges(s) < NumRanges(s))
    BY <1>3
  <2>2. place.at = NumRanges(s)
    BY <1>6, <2>1, AtRangeIs
  <2> QED BY <1>6, <2>1, <2>2
<1>7. CASE /\ index.lastset /\ found.in /\ s[High(found.at)] # index.lastsupitem
           /\ place = [at |-> found.at, from |-> index.lastsupitem + 1]
  <2>1. /\ found.at \in 0 .. NumRanges(s) - 1 /\ s[Low(found.at)] \in Int /\ s[High(found.at)] \in Int
        /\ s[Low(found.at)] <= w /\ w <= s[High(found.at)] /\ s[High(found.at)] # w
    BY <1>1, <1>2, <1>3, <1>7, EdgesInt DEF In
  <2>2. place.at = found.at /\ place.from = w + 1
    BY <1>1, <1>7
  <2>3. w + 1 \in Int /\ s[Low(found.at)] <= w + 1 /\ w + 1 <= s[High(found.at)]
    BY <1>3, <2>1
  <2>4. found.at \in 0 .. NumRanges(s) /\ found.at < NumRanges(s)
    BY <1>3, <2>1
  <2>5. \A v \in Int : w < v => w + 1 <= v
    BY <1>3
  <2>6. w < w + 1
    BY <1>3
  <2> QED BY <1>1, <1>7, <2>1, <2>2, <2>3, <2>4, <2>5, <2>6
<1>8. CASE /\ index.lastset /\ found.in /\ s[High(found.at)] = index.lastsupitem
           /\ place = AtRange(found.at + 1)
  <2>1. PICK i : i = found.at + 1
    BY Zenon
  <2>2. /\ i \in 0 .. NumRanges(s) /\ found.at \in 0 .. NumRanges(s) - 1 /\ found.at < i
        /\ w = s[High(found.at)] /\ place = AtRange(i)
    BY <1>1, <1>2, <1>3, <1>8, <2>1
  <2>3. /\ place.at = i
        /\ i < NumRanges(s) => /\ place.from = s[Low(i)] /\ s[Low(i)] \in Int
                               /\ s[High(i)] \in Int /\ s[Low(i)] <= s[High(i)]
    BY <2>2, AtRangeIs
  <2>4. ASSUME Sorted, i < NumRanges(s) PROVE w < s[Low(i)]
    <3>1. i \in 0 .. NumRanges(s) - 1
      BY <1>3, <2>2, <2>4
    <3>2. s[High(found.at)] + 1 < s[Low(i)] /\ s[Low(i)] \in Int
      BY <1>3, <2>2, <2>4, <3>1, SpreadEdges
    <3> QED BY <1>3, <2>2, <3>2
  <2>5. ASSUME Sorted, NEW v \in Int, Holds(s, v), w < v
        PROVE  i < NumRanges(s) /\ s[Low(i)] <= v
    <3>1. ASSUME NEW h \in 0 .. i - 1 PROVE s[High(h)] < v
      <4>1. h \in 0 .. NumRanges(s) - 1 /\ (h = found.at \/ h < found.at)
        BY <1>3, <2>1, <2>2
      <4>2. /\ s[High(h)] \in Int /\ s[Low(found.at)] \in Int /\ s[High(found.at)] \in Int
            /\ s[Low(found.at)] <= s[High(found.at)]
            /\ h < found.at => s[High(h)] + 1 < s[Low(found.at)]
        BY <1>3, <2>2, <2>5, <4>1, SpreadEdges
      <4> QED BY <2>2, <2>5, <4>1, <4>2
    <3> QED BY <1>3, <2>2, <2>5, <3>1, AfterRanges
  <2>6. i < NumRanges(s) => s[Low(i)] <= s[Low(i)]
    BY <2>3
  <2> QED BY <1>1, <1>8, <2>2, <2>3, <2>4, <2>5, <2>6
<1>9. \/ ~index.lastset /\ place = AtRange(0)
      \/ index.lastset /\ ~found.in /\ Sorted /\ place = AtRange(found.at)
      \/ index.lastset /\ ~found.in /\ ~Sorted /\ place = AtRange(NumRanges(s))
      \/ /\ index.lastset /\ found.in /\ s[High(found.at)] # index.lastsupitem
         /\ place = [at |-> found.at, from |-> index.lastsupitem + 1]
      \/ /\ index.lastset /\ found.in /\ s[High(found.at)] = index.lastsupitem
         /\ place = AtRange(found.at + 1)
  BY <1>1, <1>2, GoesOnIs
<1> QED BY <1>4, <1>5, <1>6, <1>7, <1>8, <1>9


-----------------------------------------------------------------------------
(* The inductive invariant.                                                *)

(* The shape of the records, and the types that the calls rely on. *)
Formed ==
  /\ ranges = [inittype |-> ranges.inittype, top |-> ranges.top, edges |-> ranges.edges]
  /\ tour = [due |-> tour.due, met |-> tour.met, void |-> tour.void, wrong |-> tour.wrong]
  /\ ranges.top \in Nat
  /\ index \in [lastset : BOOLEAN, lastindex : Nat, lastinfitem : AllItems, lastsupitem : AllItems]
  /\ asked \in [items : SUBSET AllItems, list : Seq(AllItems)]
  /\ tour.due \subseteq asked.items /\ (~Sorted => tour.due = {})
  /\ index.lastinfitem <= index.lastsupitem

(* The array holds what is asked, its ranges in order if they are sorted. *)
Holding(s, items, list) ==
  /\ Sound(s) /\ (Sorted => Spread(s)) /\ HoldsAll(s, items)
  /\ ~Sorted => Listed(s) = list

(* What a walk of a sorted list must still meet is before it. *)
Ahead == Sorted /\ index.lastset => \A v \in tour.due : index.lastsupitem < v

(* What a walk of another list met is all that is behind it. *)
Reached(s, i, v, met) ==
  /\ i < NumRanges(s) /\ In(s, i, v)
  /\ met = Joined(Section(Spans(s), 0, i), Upto(s[Low(i)], v))
Behind ==
  ~Sorted /\ ~tour.void =>
    IF index.lastset THEN Reached(ranges.edges, index.lastindex, index.lastsupitem, tour.met)
    ELSE tour.met = <<>>

RangesInv ==
  /\ Formed /\ Holding(ranges.edges, asked.items, asked.list)
  /\ Ahead /\ Behind /\ ~tour.wrong

(* Each edge of the array is one of the items. *)
LEMMA EdgesIn ==
  ASSUME NEW s, Sound(s), NEW S, NEW items, HoldsAll(s, items), items \subseteq S
  PROVE  s \in Seq(S)
<1>1. s \in Seq(Int) /\ NumRanges(s) \in Nat /\ Len(s) = 2 * NumRanges(s)
  BY NumNat DEF Sound
<1>2. ASSUME NEW k \in 1 .. Len(s) PROVE s[k] \in S
  <2>1. PICK i \in 0 .. NumRanges(s) - 1 : k = Low(i) \/ k = High(i)
    <3>1. \E i \in 0 .. NumRanges(s) - 1 : k = 2 * i + 1 \/ k = 2 * i + 2
      <4>1. PICK i : i = (k - 1) \div 2
        BY Zenon
      <4>2. i \in 0 .. NumRanges(s) - 1 /\ (k = 2 * i + 1 \/ k = 2 * i + 2)
        BY <1>1, <4>1
      <4> QED BY <4>2
    <3> QED BY <3>1 DEF Low, High
  <2>2. s[Low(i)] \in Int /\ s[High(i)] \in Int /\ s[Low(i)] <= s[High(i)]
    BY EdgesInt
  <2>3. In(s, i, s[Low(i)]) /\ In(s, i, s[High(i)])
    BY <2>2 DEF In
  <2>4. Holds(s, s[Low(i)]) /\ Holds(s, s[High(i)])
    BY <2>3 DEF Holds
  <2>5. s[Low(i)] \in items /\ s[High(i)] \in items
    BY <2>2, <2>4 DEF HoldsAll
  <2> QED BY <2>1, <2>5
<1>3. s = [k \in 1 .. Len(s) |-> s[k]]
  BY <1>1
<1> QED BY <1>1, <1>2, <1>3

LEMMA InitHolds == ASSUME RangesAssumption, Init PROVE RangesInv
<1>1. PICK setup \in Setups :
        ranges = [inittype |-> setup.inittype, top |-> setup.top, edges |-> <<>>]
  BY DEF Init
<1>2. /\ ranges.top \in Nat /\ ranges.edges = <<>> /\ ranges.inittype = setup.inittype
      /\ ranges.top = setup.top
  BY <1>1 DEF RangesAssumption
<1>3. /\ index = Rewound /\ asked = [items |-> {}, list |-> <<>>] /\ tour = StartTour({})
  BY DEF Init
<1>4. tour = [due |-> {}, met |-> <<>>, void |-> FALSE, wrong |-> FALSE]
  BY <1>3 DEF StartTour
<1>5. Formed
  <2>1. ranges = [inittype |-> ranges.inittype, top |-> ranges.top, edges |-> ranges.edges]
    BY <1>1, <1>2
  <2>2. index \in [lastset : BOOLEAN, lastindex : Nat, lastinfitem : AllItems, lastsupitem : AllItems]
        /\ index.lastinfitem <= index.lastsupitem
    BY <1>2, <1>3 DEF Rewound, AllItems
  <2>3. asked \in [items : SUBSET AllItems, list : Seq(AllItems)]
    BY <1>3
  <2>4. tour = [due |-> tour.due, met |-> tour.met, void |-> tour.void, wrong |-> tour.wrong]
        /\ tour.due = {}
    BY <1>4
  <2> QED BY <1>2, <2>1, <2>2, <2>3, <2>4 DEF Formed
<1>6. Holding(ranges.edges, asked.items, asked.list)
  <2>1. asked.items = {} /\ asked.list = <<>>
    BY <1>3
  <2>2. HoldsAll(<<>>, {})
    <3>1. \A i \in 0 .. 0 - 1 : FALSE
      OBVIOUS
    <3> QED BY <3>1, NoneIs DEF HoldsAll, Holds
  <2> QED BY <1>2, <2>1, <2>2, NoneIs, ListedNone DEF Holding
<1>7. Ahead /\ Behind /\ ~tour.wrong
  BY <1>3, <1>4 DEF Ahead, Behind, Rewound
<1> QED BY <1>5, <1>6, <1>7 DEF RangesInv

(* Any edit that leaves an array that holds what it means. *)
LEMMA EditedKeeps ==
  ASSUME RangesInv, NEW edges, NEW items, NEW list, Edited(edges, items, list), UNCHANGED index,
         Holding(edges, items, list), items \subseteq AllItems, ~Sorted => list \in Seq(AllItems)
  PROVE  RangesInv'
<1> USE DEF RangesInv
<1>1. ranges' = [inittype |-> ranges.inittype, top |-> ranges.top, edges |-> edges]
  <2>1. ranges' = [ranges EXCEPT !.edges = edges]
    BY DEF Edited
  <2>2. ranges = [inittype |-> ranges.inittype, top |-> ranges.top, edges |-> ranges.edges]
    BY DEF Formed
  <2> QED BY <2>1, <2>2
<1>2. /\ ranges'.inittype = ranges.inittype /\ ranges'.top = ranges.top /\ ranges'.edges = edges
      /\ (Sorted' <=> Sorted) /\ AllItems' = AllItems
  BY <1>1 DEF Sorted, AllItems
<1>3. /\ asked' = [items |-> items, list |-> IF Sorted THEN <<>> ELSE list]
      /\ asked'.items = items /\ (~Sorted => asked'.list = list)
  BY DEF Edited
<1>4. tour' = IF Sorted THEN [due |-> tour.due \intersect items, met |-> tour.met,
                              void |-> tour.void, wrong |-> tour.wrong]
              ELSE [due |-> tour.due, met |-> <<>>, void |-> TRUE, wrong |-> tour.wrong]
  <2>1. tour' = IF Sorted THEN [tour EXCEPT !.due = @ \intersect items]
                ELSE [tour EXCEPT !.met = <<>>, !.void = TRUE]
    BY DEF Edited
  <2>2. tour = [due |-> tour.due, met |-> tour.met, void |-> tour.void, wrong |-> tour.wrong]
    BY DEF Formed
  <2>3. CASE Sorted
    BY <2>1, <2>2, <2>3
  <2>4. CASE ~Sorted
    <3>1. PICK due, met, void, wrong : tour = [due |-> due, met |-> met, void |-> void, wrong |-> wrong]
      BY <2>2, Zenon
    <3>2. PICK y : y = TRUE
      BY Zenon
    <3>3. tour' = [tour EXCEPT !.met = <<>>, !.void = y]
      BY <2>1, <2>4, <3>2
    <3>4. tour' = [due |-> due, met |-> <<>>, void |-> y, wrong |-> wrong]
      BY <3>1, <3>3
    <3>5. due = tour.due /\ wrong = tour.wrong
      BY <3>1
    <3> QED BY <2>4, <3>2, <3>4, <3>5, Zenon
  <2> QED BY <2>3, <2>4
<1>5. /\ tour'.due \subseteq items /\ tour'.due \subseteq tour.due /\ ~tour'.wrong
      /\ (~Sorted => tour'.void = TRUE /\ tour'.due = {})
      /\ tour' = [due |-> tour'.due, met |-> tour'.met, void |-> tour'.void, wrong |-> tour'.wrong]
  <2>1. CASE Sorted
    BY <1>4, <2>1
  <2>2. CASE ~Sorted
    BY <1>4, <2>2 DEF Formed
  <2> QED BY <2>1, <2>2
<1>6. Formed'
  <2>1. ranges' = [inittype |-> ranges'.inittype, top |-> ranges'.top, edges |-> ranges'.edges]
    BY <1>1, <1>2
  <2>2. asked' \in [items : SUBSET AllItems, list : Seq(AllItems)]
    <3>1. CASE Sorted
      BY <1>3, <3>1
    <3>2. CASE ~Sorted
      BY <1>3, <3>2
    <3> QED BY <3>1, <3>2
  <2> QED BY <1>2, <1>3, <1>5, <2>1, <2>2 DEF Formed
<1>7. Holding(ranges.edges, asked.items, asked.list)'
  <2>1. Sound(edges) /\ (Sorted => Spread(edges)) /\ HoldsAll(edges, items) /\ (~Sorted => Listed(edges) = list)
    BY DEF Holding
  <2> QED BY <1>2, <1>3, <2>1 DEF Holding
<1>8. Ahead' /\ Behind'
  BY <1>2, <1>5 DEF Ahead, Behind
<1> QED BY <1>5, <1>6, <1>7, <1>8


LEMMA AllItemsAre ==
  ASSUME RangesInv
  PROVE  /\ ranges.top \in Nat /\ AllItems = 0 .. ranges.top /\ AllItems \subseteq Int
         /\ asked.items \subseteq AllItems /\ asked.list \in Seq(AllItems)
         /\ Holding(ranges.edges, asked.items, asked.list)
BY DEF RangesInv, Formed, AllItems

LEMMA UptoItems ==
  ASSUME RangesInv, NEW lo \in AllItems, NEW hi \in AllItems, lo <= hi
  PROVE  lo .. hi \subseteq AllItems /\ Upto(lo, hi) \in Seq(AllItems)
<1>1. ranges.top \in Nat /\ AllItems = 0 .. ranges.top
  BY AllItemsAre
<1>2. Upto(lo, hi) \in Seq(0 .. ranges.top)
  BY <1>1, UptoIn
<1> QED BY <1>1, <1>2

LEMMA AddKeeps == ASSUME RangesInv, NEW v \in AllItems, Add(v) PROVE RangesInv'
<1>1. PICK s, items, list : s = ranges.edges /\ items = asked.items /\ list = asked.list
  BY Zenon
<1>2. /\ Sound(s) /\ (Sorted => Spread(s)) /\ HoldsAll(s, items) /\ (~Sorted => Listed(s) = list)
      /\ v \in Int /\ items \subseteq AllItems /\ list \in Seq(AllItems)
  BY <1>1, AllItemsAre DEF Holding
<1>3. PICK edges, left : /\ edges = (IF Sorted THEN AddSort(s, v) ELSE AddNotSort(s, v))
                         /\ left = (IF Unique /\ v \in items THEN list ELSE Append(list, v))
  BY Zenon
<1>4. Edited(edges, items \union {v}, left) /\ UNCHANGED index
  BY <1>1, <1>3, Zenon DEF Add
<1>5. Holding(edges, items \union {v}, left)
  <2>1. CASE Sorted
    <3>1. Sound(edges) /\ Spread(edges) /\ HoldsAll(edges, items \union {v})
      BY <1>2, <1>3, <2>1, AddSortDoes
    <3> QED BY <2>1, <3>1 DEF Holding
  <2>2. CASE ~Sorted
    <3>1. /\ Sound(edges) /\ HoldsAll(edges, items \union {v})
          /\ Listed(edges) = IF Unique /\ v \in items THEN Listed(s) ELSE Append(Listed(s), v)
      BY <1>2, <1>3, <2>2, AddNotSortDoes
    <3>2. Listed(edges) = left
      BY <1>2, <1>3, <2>2, <3>1
    <3> QED BY <2>2, <3>1, <3>2 DEF Holding
  <2> QED BY <2>1, <2>2
<1>6. left \in Seq(AllItems) /\ items \union {v} \subseteq AllItems
  BY <1>2, <1>3
<1> QED BY <1>4, <1>5, <1>6, EditedKeeps

LEMMA AddRangeKeeps ==
  ASSUME RangesInv, NEW lo \in AllItems, NEW hi \in AllItems, lo <= hi, AddRange(lo, hi)
  PROVE  RangesInv'
<1>1. PICK s, items, list : s = ranges.edges /\ items = asked.items /\ list = asked.list
  BY Zenon
<1>2. /\ Sound(s) /\ (Sorted => Spread(s)) /\ HoldsAll(s, items) /\ (~Sorted => Listed(s) = list)
      /\ lo \in Int /\ hi \in Int /\ items \subseteq AllItems /\ list \in Seq(AllItems)
      /\ AllItems \subseteq Int
  BY <1>1, AllItemsAre DEF Holding
<1>3. PICK edges, left, more :
        /\ edges = (IF Sorted THEN AddRangeSort(s, lo, hi) ELSE AddRangeNotSort(s, lo, hi))
        /\ left = (IF Unique THEN Without(list, lo, hi) ELSE list) \o Upto(lo, hi)
        /\ more = items \union (lo .. hi)
  BY Zenon
<1>4. Edited(edges, more, left) /\ UNCHANGED index
  BY <1>1, <1>3, Zenon DEF AddRange
<1>5. Holding(edges, more, left)
  <2>1. CASE Sorted
    <3>1. Sound(edges) /\ Spread(edges) /\ HoldsAll(edges, more)
      BY <1>2, <1>3, <2>1, AddRangeSortDoes
    <3> QED BY <2>1, <3>1 DEF Holding
  <2>2. CASE ~Sorted
    <3>1. /\ Sound(edges) /\ HoldsAll(edges, more)
          /\ Listed(edges) = (IF Unique THEN Without(Listed(s), lo, hi) ELSE Listed(s)) \o Upto(lo, hi)
      <4>1. edges = AddRangeNotSort(s, lo, hi)
        BY <1>3, <2>2
      <4> QED BY <1>2, <1>3, <4>1, AddRangeNotSortDoes, ZenonT(60)
    <3>2. Listed(edges) = left
      BY <1>2, <1>3, <2>2, <3>1, Zenon
    <3> QED BY <2>2, <3>1, <3>2 DEF Holding
  <2> QED BY <2>1, <2>2
<1>6. left \in Seq(AllItems) /\ more \subseteq AllItems
  <2>1. lo .. hi \subseteq AllItems /\ Upto(lo, hi) \in Seq(AllItems)
    BY UptoItems
  <2>2. Without(list, lo, hi) \in Seq(AllItems)
    BY <1>2, WithoutIn
  <2>3. (IF Unique THEN Without(list, lo, hi) ELSE list) \in Seq(AllItems)
    BY <1>2, <2>2
  <2>4. left \in Seq(AllItems)
    BY <1>3, <2>1, <2>3, ConcatProperties
  <2> QED BY <1>2, <1>3, <2>1, <2>4
<1> QED BY <1>4, <1>5, <1>6, EditedKeeps

LEMMA AddAllKeeps == ASSUME RangesInv, AddAll PROVE RangesInv'
<1>1. ranges.top \in Nat /\ AllItems = 0 .. ranges.top
  BY AllItemsAre
<1>2. PICK zero, top, m : zero = 0 /\ top = ranges.top /\ m = <<zero, top>>
  BY Zenon
<1>3. zero \in Int /\ top \in Int /\ zero <= top /\ zero \in AllItems /\ top \in AllItems
  BY <1>1, <1>2
<1>4. Sound(m) /\ NumRanges(m) = 1 /\ Spread(m) /\ m[Low(0)] = zero /\ m[High(0)] = top
  BY <1>2, <1>3, PairIs, Zenon
<1>5. HoldsAll(m, AllItems)
  <2>1. \A i : i \in 0 .. NumRanges(m) - 1 <=> i = 0
    BY <1>4
  <2>2. \A v \in Int : Holds(m, v) <=> zero <= v /\ v <= top
    BY <1>4, <2>1 DEF Holds, In
  <2>3. \A v \in Int : v \in AllItems <=> zero <= v /\ v <= top
    BY <1>1, <1>2
  <2> QED BY <2>2, <2>3 DEF HoldsAll
<1>6. Listed(m) = Upto(zero, top) /\ Upto(zero, top) \in Seq(AllItems)
  BY <1>2, <1>3, ListedPair, UptoItems
<1>7. Holding(m, AllItems, Upto(zero, top))
  BY <1>4, <1>5, <1>6 DEF Holding
<1>8. Edited(m, AllItems, Upto(zero, top)) /\ UNCHANGED index
  BY <1>2, Zenon DEF AddAll
<1>9. PICK items, list : items = AllItems /\ list = Upto(zero, top)
  BY Zenon
<1>10. /\ Edited(m, items, list) /\ UNCHANGED index /\ Holding(m, items, list)
       /\ items \subseteq AllItems /\ list \in Seq(AllItems)
  BY <1>6, <1>7, <1>8, <1>9, Zenon
<1> QED BY <1>10, EditedKeeps

LEMMA DelKeeps == ASSUME RangesInv, NEW v \in AllItems, Del(v) PROVE RangesInv'
<1>1. PICK s, items, list : s = ranges.edges /\ items = asked.items /\ list = asked.list
  BY Zenon
<1>2. /\ Sound(s) /\ (Sorted => Spread(s)) /\ HoldsAll(s, items) /\ (~Sorted => Listed(s) = list)
      /\ v \in Int /\ items \subseteq AllItems /\ list \in Seq(AllItems) /\ AllItems \subseteq Int
  BY <1>1, AllItemsAre DEF Holding
<1>3. PICK edges, left : /\ edges = (IF Sorted THEN DelSort(s, v) ELSE DelNotSort(s, v))
                         /\ left = Without(list, v, v)
  BY Zenon
<1>4. Edited(edges, items \ {v}, left) /\ UNCHANGED index
  BY <1>1, <1>3, Zenon DEF Del
<1>5. Holding(edges, items \ {v}, left)
  <2>1. CASE Sorted
    <3>1. Sound(edges) /\ Spread(edges) /\ HoldsAll(edges, items \ {v})
      BY <1>2, <1>3, <2>1, DelSortDoes
    <3> QED BY <2>1, <3>1 DEF Holding
  <2>2. CASE ~Sorted
    <3>1. /\ Sound(edges) /\ HoldsAll(edges, items \ {v})
          /\ Listed(edges) = Without(Listed(s), v, v)
      BY <1>2, <1>3, <2>2, DelNotSortDoes
    <3>2. Listed(edges) = left
      BY <1>2, <1>3, <2>2, <3>1
    <3> QED BY <2>2, <3>1, <3>2 DEF Holding
  <2> QED BY <2>1, <2>2
<1>6. left \in Seq(AllItems) /\ items \ {v} \subseteq AllItems
  BY <1>2, <1>3, WithoutIn
<1> QED BY <1>4, <1>5, <1>6, EditedKeeps

LEMMA DelRangeKeeps ==
  ASSUME RangesInv, NEW lo \in AllItems, NEW hi \in AllItems, lo <= hi, DelRange(lo, hi),
         UNCHANGED index
  PROVE  RangesInv'
<1>1. PICK s, items, list : s = ranges.edges /\ items = asked.items /\ list = asked.list
  BY Zenon
<1>2. /\ Sound(s) /\ (Sorted => Spread(s)) /\ HoldsAll(s, items) /\ (~Sorted => Listed(s) = list)
      /\ lo \in Int /\ hi \in Int /\ items \subseteq AllItems /\ list \in Seq(AllItems)
      /\ AllItems \subseteq Int
  BY <1>1, AllItemsAre DEF Holding
<1>3. PICK edges, left, less :
        /\ edges = (IF Sorted THEN DelRangeSort(s, lo, hi) ELSE DelRangeNotSort(s, lo, hi))
        /\ left = Without(list, lo, hi) /\ less = items \ (lo .. hi)
  BY Zenon
<1>4. Edited(edges, less, left)
  BY <1>1, <1>3, Zenon DEF DelRange
<1>5. Holding(edges, less, left)
  <2>1. CASE Sorted
    <3>1. Sound(edges) /\ Spread(edges) /\ HoldsAll(edges, less)
      BY <1>2, <1>3, <2>1, DelRangeSortDoes
    <3> QED BY <2>1, <3>1 DEF Holding
  <2>2. CASE ~Sorted
    <3>1. /\ Sound(edges) /\ HoldsAll(edges, less)
          /\ Listed(edges) = Without(Listed(s), lo, hi)
      BY <1>2, <1>3, <2>2, DelRangeNotSortDoes
    <3>2. Listed(edges) = left
      BY <1>2, <1>3, <2>2, <3>1
    <3> QED BY <2>2, <3>1, <3>2 DEF Holding
  <2> QED BY <2>1, <2>2
<1>6. left \in Seq(AllItems) /\ less \subseteq AllItems
  BY <1>2, <1>3, WithoutIn
<1> QED BY <1>4, <1>5, <1>6, EditedKeeps

LEMMA DelAllKeeps == ASSUME RangesInv, DelAll PROVE RangesInv'
<1>1. HoldsAll(<<>>, {})
  <2>1. \A i \in 0 .. 0 - 1 : FALSE
    OBVIOUS
  <2> QED BY <2>1, NoneIs DEF HoldsAll, Holds
<1>2. Holding(<<>>, {}, <<>>)
  BY <1>1, NoneIs, ListedNone DEF Holding
<1>3. Edited(<<>>, {}, <<>>) /\ UNCHANGED index
  BY DEF DelAll
<1>4. PICK edges, items, list : edges = <<>> /\ items = {} /\ list = <<>>
  BY Zenon
<1>5. list \in Seq(AllItems) /\ items \subseteq AllItems
  BY <1>4
<1>6. Holding(edges, items, list) /\ Edited(edges, items, list) /\ UNCHANGED index
  BY <1>2, <1>3, <1>4, Zenon
<1> QED BY <1>5, <1>6, EditedKeeps

LEMMA ThisDelKeeps == ASSUME RangesInv, ThisDel PROVE RangesInv'
<1>1. /\ index.lastinfitem \in AllItems /\ index.lastsupitem \in AllItems
      /\ index.lastinfitem <= index.lastsupitem
  BY DEF RangesInv, Formed
<1>2. DelRange(index.lastinfitem, index.lastsupitem) /\ UNCHANGED index
  BY DEF ThisDel
<1> QED BY <1>1, <1>2, DelRangeKeeps


(* What a walk of a list that is not sorted met is what is before its place. *)
LEMMA BehindPlace ==
  ASSUME Sound(ranges.edges), ~Sorted, NEW s, s = ranges.edges, index.lastset \in BOOLEAN,
         index.lastsupitem \in Int, index.lastindex \in Nat, NEW met,
         IF index.lastset THEN Reached(s, index.lastindex, index.lastsupitem, met) ELSE met = <<>>,
         NEW place, place = GoesOn
  PROVE  \/ /\ place.at \in 0 .. NumRanges(s) /\ place = AtRange(place.at)
            /\ met = Section(Spans(s), 0, place.at)
         \/ \E w \in Int :
              /\ place.at \in 0 .. NumRanges(s) - 1 /\ place.from = w + 1
              /\ s[Low(place.at)] <= w /\ w < s[High(place.at)]
              /\ met = Joined(Section(Spans(s), 0, place.at), Upto(s[Low(place.at)], w))
<1>1. PICK found, w, i : found = Adjust /\ w = index.lastsupitem /\ i = index.lastindex
  BY Zenon
<1>2. NumRanges(s) \in Nat /\ Sound(s) /\ w \in Int /\ i \in Nat
  BY <1>1, NumNat DEF Sound
<1>3. CASE ~index.lastset
  <2>1. place = AtRange(0)
    BY <1>3 DEF GoesOn
  <2>2. 0 \in 0 .. NumRanges(s)
    BY <1>2
  <2>3. place.at = 0
    BY <2>1, <2>2, AtRangeIs
  <2>4. Section(Spans(s), 0, 0) = <<>>
    BY SectionNone
  <2> QED BY <1>3, <2>1, <2>2, <2>3, <2>4
<1>4. CASE index.lastset
  <2>1. Reached(s, i, w, met)
    BY <1>1, <1>4
  <2>2. /\ i < NumRanges(s) /\ In(s, i, w)
        /\ met = Joined(Section(Spans(s), 0, i), Upto(s[Low(i)], w))
    BY <2>1 DEF Reached
  <2>3. found = Found(i)
    BY <1>1, <1>2, <2>2, AdjustIs
  <2>4. found.at = i /\ found.in = TRUE
    BY <2>3 DEF Found
  <2>5. i \in 0 .. NumRanges(s) - 1
    BY <1>2, <2>2
  <2>6. /\ s[Low(i)] \in Int /\ s[High(i)] \in Int /\ s[Low(i)] <= w /\ w <= s[High(i)]
    BY <1>2, <2>2, <2>5, EdgesInt DEF In
  <2>7. \/ s[High(i)] # w /\ place = [at |-> i, from |-> w + 1]
        \/ s[High(i)] = w /\ place = AtRange(i + 1)
    BY <1>1, <1>4, <2>4, GoesOnIs, ZenonT(60)
  <2>8. CASE s[High(i)] # w /\ place = [at |-> i, from |-> w + 1]
    <3>1. place.at = i /\ place.from = w + 1 /\ w < s[High(i)]
      BY <1>2, <2>6, <2>8
    <3> QED BY <1>2, <2>2, <2>5, <2>6, <3>1
  <2>9. CASE s[High(i)] = w /\ place = AtRange(i + 1)
    <3>1. PICK j : j = i + 1
      BY Zenon
    <3>2. /\ j \in 0 .. NumRanges(s) /\ j \in 1 .. NumRanges(s) /\ i = j - 1 /\ i \in Nat
          /\ 0 \in Nat /\ 0 <= i /\ place = AtRange(j)
      BY <1>2, <2>5, <2>9, <3>1
    <3>3. place.at = j
      BY <3>2, AtRangeIs
    <3>4. Spans(s)[j] = Upto(s[Low(i)], s[High(i)])
      BY <1>2, <3>2, ItemsAre
    <3>5. Gives(Spans(s), 0, j)
      BY <1>2, <3>2, ItemsGive
    <3>6. Section(Spans(s), 0, j) = Joined(Section(Spans(s), 0, i), Spans(s)[j])
      BY <3>1, <3>2, <3>5, SectionOn
    <3>7. met = Section(Spans(s), 0, j)
      BY <2>2, <2>9, <3>4, <3>6, Zenon
    <3> QED BY <3>2, <3>3, <3>7, Zenon
  <2> QED BY <2>7, <2>8, <2>9
<1> QED BY <1>3, <1>4

LEMMA WalkReaches ==
  ASSUME Sound(ranges.edges), ~Sorted, NEW s, s = ranges.edges, index.lastset \in BOOLEAN,
         index.lastsupitem \in Int, index.lastindex \in Nat, NEW met,
         IF index.lastset THEN Reached(s, index.lastindex, index.lastsupitem, met) ELSE met = <<>>,
         NEW place, place = GoesOn, place.at < NumRanges(s), NEW from, from = place.from,
         NEW sup \in Int, from <= sup, NEW i, i = place.at, sup <= s[High(i)],
         s[Low(i)] <= from
  PROVE  Reached(s, i, sup, Joined(met, Upto(from, sup)))
<1>1. NumRanges(s) \in Nat /\ Sound(s)
  BY NumNat DEF Sound
<1>2. CASE /\ place.at \in 0 .. NumRanges(s) /\ place = AtRange(place.at)
           /\ met = Section(Spans(s), 0, place.at)
  <2>1. i \in 0 .. NumRanges(s) /\ place = AtRange(i) /\ i < NumRanges(s)
    BY <1>2
  <2>2. from = s[Low(i)] /\ s[Low(i)] \in Int
    BY <2>1, AtRangeIs
  <2>3. In(s, i, sup)
    BY <2>2 DEF In
  <2>4. Joined(met, Upto(from, sup)) = Joined(Section(Spans(s), 0, i), Upto(s[Low(i)], sup))
    BY <1>2, <2>2, Zenon
  <2> QED BY <2>1, <2>3, <2>4 DEF Reached
<1>3. ASSUME NEW w \in Int, i \in 0 .. NumRanges(s) - 1, from = w + 1,
             s[Low(i)] <= w, w < s[High(i)],
             met = Joined(Section(Spans(s), 0, i), Upto(s[Low(i)], w))
      PROVE  Reached(s, i, sup, Joined(met, Upto(from, sup)))
  <2>1. PICK low, u : low = s[Low(i)] /\ u = Section(Spans(s), 0, i)
    BY Zenon
  <2>2. low \in Int /\ s[High(i)] \in Int /\ low <= w + 1 /\ w <= sup /\ low <= sup /\ i \in Nat
        /\ from \in Int /\ 0 <= i /\ i \in 0 .. NumRanges(s) /\ 0 \in Nat
    BY <1>1, <1>3, <2>1, EdgesInt
  <2>3. Upto(low, sup) = Joined(Upto(low, w), Upto(from, sup))
    BY <1>3, <2>2, UptoJoined
  <2>4. u \in Seq(Int)
    BY <1>1, <2>1, <2>2, ItemsGive, SectionSeq
  <2>5. Upto(low, w) \in Seq(Int) /\ Upto(from, sup) \in Seq(Int)
    BY <2>2, UptoIs
  <2>6. Joined(Joined(u, Upto(low, w)), Upto(from, sup)) = Joined(u, Joined(Upto(low, w), Upto(from, sup)))
    BY <2>4, <2>5, JoinedThree
  <2>7. Joined(met, Upto(from, sup)) = Joined(Section(Spans(s), 0, i), Upto(s[Low(i)], sup))
    BY <1>3, <2>1, <2>3, <2>6, Zenon
  <2>8. In(s, i, sup) /\ i < NumRanges(s)
    BY <1>1, <1>3, <2>1, <2>2 DEF In
  <2> QED BY <2>7, <2>8 DEF Reached
<1>4. \/ /\ place.at \in 0 .. NumRanges(s) /\ place = AtRange(place.at)
         /\ met = Section(Spans(s), 0, place.at)
      \/ \E w \in Int :
           /\ place.at \in 0 .. NumRanges(s) - 1 /\ place.from = w + 1
           /\ s[Low(place.at)] <= w /\ w < s[High(place.at)]
           /\ met = Joined(Section(Spans(s), 0, place.at), Upto(s[Low(place.at)], w))
  BY BehindPlace
<1> QED BY <1>2, <1>3, <1>4

LEMMA WalkEnds ==
  ASSUME Sound(ranges.edges), ~Sorted, NEW s, s = ranges.edges, index.lastset \in BOOLEAN,
         index.lastsupitem \in Int, index.lastindex \in Nat, NEW met,
         IF index.lastset THEN Reached(s, index.lastindex, index.lastsupitem, met) ELSE met = <<>>,
         NEW place, place = GoesOn, place.at = NumRanges(s)
  PROVE  met = Listed(s)
<1>1. NumRanges(s) \in Nat /\ Sound(s)
  BY NumNat DEF Sound
<1>2. met = Section(Spans(s), 0, place.at)
  <2>1. place.at \notin 0 .. NumRanges(s) - 1
    BY <1>1
  <2> QED BY <2>1, BehindPlace
<1>3. Listed(s) = Section(Spans(s), 0, NumRanges(s))
  BY <1>1, ListedIs
<1> QED BY <1>2, <1>3


LEMMA MetIs ==
  ASSUME tour = [due |-> tour.due, met |-> tour.met, void |-> tour.void, wrong |-> tour.wrong],
         ~tour.wrong, NEW lo, NEW hi, ~(Sorted /\ index.lastset /\ lo <= index.lastsupitem),
         tour' = Met(lo, hi)
  PROVE  /\ tour' = [due |-> tour'.due, met |-> tour'.met, void |-> tour'.void, wrong |-> tour'.wrong]
         /\ tour'.due = tour.due \ (lo .. hi) /\ tour'.void = tour.void /\ ~tour'.wrong
         /\ tour'.met = IF Sorted \/ tour.void THEN <<>> ELSE Joined(tour.met, Upto(lo, hi))
<1>1. PICK due, met, void, wrong :
        tour = [due |-> due, met |-> met, void |-> void, wrong |-> wrong]
  BY Zenon
<1>2. PICK d, m, w :
        /\ d = due \ (lo .. hi)
        /\ m = (IF Sorted \/ void THEN <<>> ELSE met \o Upto(lo, hi))
        /\ w = (wrong \/ (Sorted /\ index.lastset /\ lo <= index.lastsupitem))
  BY Zenon
<1>3. /\ tour.due = due /\ tour.met = met /\ tour.void = void /\ tour.wrong = wrong
  BY <1>1
<1>4. tour' = [tour EXCEPT !.due = d, !.met = m, !.wrong = w]
  <2>1. tour' = [tour EXCEPT !.due = @ \ (lo .. hi),
                             !.met = IF Sorted \/ tour.void THEN <<>> ELSE @ \o Upto(lo, hi),
                             !.wrong = @ \/ (Sorted /\ index.lastset /\ lo <= index.lastsupitem)]
    BY DEF Met
  <2>2. tour' = [tour EXCEPT !.due = tour.due \ (lo .. hi),
                             !.met = IF Sorted \/ tour.void THEN <<>> ELSE tour.met \o Upto(lo, hi),
                             !.wrong = tour.wrong \/ (Sorted /\ index.lastset /\ lo <= index.lastsupitem)]
    BY <2>1
  <2> QED BY <1>2, <1>3, <2>2, Zenon
<1>5. tour' = [due |-> d, met |-> m, void |-> void, wrong |-> w]
  BY <1>1, <1>4
<1>6. tour'.due = d /\ tour'.met = m /\ tour'.void = void /\ tour'.wrong = w
  BY <1>5
<1>7. ~w
  BY <1>2, <1>3, Zenon
<1>8. tour'.met = IF Sorted \/ tour.void THEN <<>> ELSE Joined(tour.met, Upto(lo, hi))
  BY <1>2, <1>3, <1>6, Zenon DEF Joined
<1> QED BY <1>2, <1>3, <1>5, <1>6, <1>7, <1>8, Zenon

(* An item, or the rest of a range, is given. *)
LEMMA GiveKeeps ==
  ASSUME RangesInv, NEW place, place = GoesOn, NEW s, s = ranges.edges, place.at < NumRanges(s),
         NEW sup \in Int, place.from <= sup, sup <= s[High(place.at)], Give(place, sup)
  PROVE  RangesInv'
<1> USE DEF RangesInv
<1>1. PICK i, from, due, met, items, given :
        /\ i = place.at /\ from = place.from /\ due = tour.due /\ met = tour.met
        /\ items = asked.items /\ given = index.lastsupitem
  BY Zenon
<1>2. /\ Sound(s) /\ (Sorted => Spread(s)) /\ HoldsAll(s, items) /\ items \subseteq AllItems
      /\ AllItems \subseteq Int /\ due \subseteq items /\ (~Sorted => due = {})
      /\ index.lastset \in BOOLEAN /\ given \in Int /\ index.lastindex \in Nat /\ NumRanges(s) \in Nat
  BY <1>1, AllItemsAre, NumNat DEF Formed, Holding, Sound
<1>3. /\ i \in 0 .. NumRanges(s) /\ i < NumRanges(s) /\ from \in Int
      /\ s[Low(i)] \in Int /\ s[High(i)] \in Int
      /\ s[Low(i)] <= from /\ from <= s[High(i)]
      /\ Sorted /\ index.lastset => given < from
  BY <1>1, <1>2, GoesOnAt
<1>4. \A v \in Int : Sorted /\ Holds(s, v) /\ (index.lastset => given < v) => from <= v
  <2>1. Sorted => \A v \in Int :
          Holds(s, v) /\ (index.lastset => index.lastsupitem < v) => place.at < NumRanges(s) /\ place.from <= v
    BY <1>1, <1>2, GoesOnAt
  <2> QED BY <1>1, <2>1
<1>5. /\ i \in 0 .. NumRanges(s) - 1 /\ In(s, i, sup) /\ In(s, i, from) /\ from <= sup
  BY <1>1, <1>2, <1>3 DEF In
<1>6. from \in AllItems /\ sup \in AllItems
  <2>1. Holds(s, from) /\ Holds(s, sup)
    BY <1>5 DEF Holds
  <2> QED BY <1>2, <1>3, <2>1 DEF HoldsAll
<1>7. /\ index' = [lastset |-> TRUE, lastindex |-> i, lastinfitem |-> from, lastsupitem |-> sup]
      /\ tour' = Met(from, sup) /\ UNCHANGED <<ranges, asked>>
  BY <1>1, Zenon DEF Give
<1>8. /\ index' \in [lastset : BOOLEAN, lastindex : Nat, lastinfitem : AllItems, lastsupitem : AllItems]
      /\ index'.lastset = TRUE /\ index'.lastindex = i /\ index'.lastinfitem = from
      /\ index'.lastsupitem = sup
  <2>1. i \in Nat
    BY <1>3
  <2>2. PICK y : y = TRUE
    BY Zenon
  <2>3. index' = [lastset |-> y, lastindex |-> i, lastinfitem |-> from, lastsupitem |-> sup]
    BY <1>7, <2>2
  <2>4. index'.lastset = y /\ index'.lastindex = i /\ index'.lastinfitem = from /\ index'.lastsupitem = sup
    BY <2>3
  <2>5. y \in BOOLEAN
    BY <2>2
  <2> QED BY <1>6, <2>1, <2>2, <2>3, <2>4, <2>5
<1>9. /\ tour' = [due |-> tour'.due, met |-> tour'.met, void |-> tour'.void, wrong |-> tour'.wrong]
      /\ tour'.due = due \ (from .. sup) /\ tour'.void = tour.void /\ ~tour'.wrong
      /\ tour'.met = IF Sorted \/ tour.void THEN <<>> ELSE Joined(met, Upto(from, sup))
  <2>1. ~(Sorted /\ index.lastset /\ from <= index.lastsupitem)
    BY <1>1, <1>2, <1>3
  <2>2. tour = [due |-> tour.due, met |-> tour.met, void |-> tour.void, wrong |-> tour.wrong]
    BY DEF Formed
  <2> QED BY <1>1, <1>7, <2>1, <2>2, MetIs
<1>10. /\ ranges' = ranges /\ asked' = asked /\ (Sorted' <=> Sorted) /\ AllItems' = AllItems
  BY <1>7 DEF Sorted, AllItems
<1>11. Formed'
  <2>1. tour'.due \subseteq asked'.items /\ (~Sorted => tour'.due = {})
    BY <1>1, <1>2, <1>9, <1>10
  <2>2. index'.lastinfitem <= index'.lastsupitem
    BY <1>5, <1>8
  <2> QED BY <1>8, <1>9, <1>10, <2>1, <2>2 DEF Formed
<1>12. Holding(ranges.edges, asked.items, asked.list)'
  BY <1>10 DEF Holding
<1>13. Ahead'
  <2>1. ASSUME Sorted, NEW v \in tour'.due PROVE sup < v
    <3>1. v \in due /\ v \notin from .. sup /\ v \in items /\ v \in Int
      BY <1>2, <1>9, <2>1
    <3>2. Holds(s, v)
      BY <1>2, <3>1 DEF HoldsAll
    <3>3. index.lastset => given < v
      BY <1>1, <2>1, <3>1 DEF Ahead
    <3>4. from <= v
      BY <1>4, <2>1, <3>1, <3>2, <3>3
    <3> QED BY <1>3, <3>1, <3>4
  <2> QED BY <1>8, <1>10, <2>1 DEF Ahead
<1>14. Behind'
  <2>1. ASSUME ~Sorted, ~tour.void PROVE Reached(s, i, sup, Joined(met, Upto(from, sup)))
    <3>1. IF index.lastset THEN Reached(s, index.lastindex, index.lastsupitem, met) ELSE met = <<>>
      BY <1>1, <2>1 DEF Behind
    <3> QED BY <1>1, <1>2, <1>3, <1>5, <2>1, <3>1, WalkReaches
  <2>2. ASSUME ~Sorted, ~tour.void PROVE Reached(s, i, sup, tour'.met)
    <3>1. tour'.met = Joined(met, Upto(from, sup))
      BY <1>9, <2>2
    <3> QED BY <2>1, <2>2, <3>1, Zenon
  <2>3. Behind' <=> (~Sorted /\ ~tour.void => Reached(s, i, sup, tour'.met))
    BY <1>8, <1>9, <1>10 DEF Behind, Reached, Spans
  <2> QED BY <2>2, <2>3
<1> QED BY <1>9, <1>11, <1>12, <1>13, <1>14

LEMMA GiveNextKeeps == ASSUME RangesInv, Next1 \/ NextRange PROVE RangesInv'
<1>1. PICK place, s : place = GoesOn /\ s = ranges.edges
  BY Zenon
<1>2. /\ Sound(ranges.edges) /\ (Sorted => Spread(ranges.edges)) /\ index.lastset \in BOOLEAN
      /\ index.lastsupitem \in Int /\ index.lastindex \in Nat
  BY AllItemsAre DEF RangesInv, Formed, Holding
<1>3. place.at < NumRanges(s) =>
        /\ place.from \in Int /\ s[High(place.at)] \in Int /\ place.from <= s[High(place.at)]
  BY <1>1, <1>2, GoesOnAt
<1>4. CASE Next1
  <2>1. PICK sup : sup = place.from
    BY Zenon
  <2>2. Give(place, sup)
    BY <1>1, <1>4, <2>1, Zenon DEF Next1
  <2>3. place.at < NumRanges(s)
    BY <1>1, <2>2 DEF Give
  <2>4. sup \in Int /\ place.from <= sup /\ sup <= s[High(place.at)]
    BY <1>3, <2>1, <2>3
  <2> QED BY <1>1, <2>2, <2>3, <2>4, GiveKeeps
<1>5. CASE NextRange
  <2>1. PICK sup : sup = s[High(place.at)]
    BY Zenon
  <2>2. Give(place, sup)
    BY <1>1, <1>5, <2>1, Zenon DEF NextRange
  <2>3. place.at < NumRanges(s)
    BY <1>1, <2>2 DEF Give
  <2>4. sup \in Int /\ place.from <= sup /\ sup <= s[High(place.at)]
    BY <1>3, <2>1, <2>3
  <2> QED BY <1>1, <2>2, <2>3, <2>4, GiveKeeps
<1> QED BY <1>4, <1>5


LEMMA RewindKeeps == ASSUME RangesInv, Rewind PROVE RangesInv'
<1> USE DEF RangesInv
<1>1. PICK items : items = asked.items
  BY Zenon
<1>2. index' = Rewound /\ tour' = StartTour(items) /\ ranges' = ranges /\ asked' = asked
  BY <1>1, Zenon DEF Rewind
<1>3. (Sorted' <=> Sorted) /\ AllItems' = AllItems /\ 0 \in AllItems
  BY <1>2 DEF Sorted, AllItems, Formed
<1>4. /\ index' \in [lastset : BOOLEAN, lastindex : Nat, lastinfitem : AllItems, lastsupitem : AllItems]
      /\ ~index'.lastset /\ index'.lastinfitem <= index'.lastsupitem
  BY <1>2, <1>3 DEF Rewound, AllItems
<1>5. /\ tour' = [due |-> tour'.due, met |-> tour'.met, void |-> tour'.void, wrong |-> tour'.wrong]
      /\ tour'.due = (IF Sorted THEN items ELSE {}) /\ tour'.met = <<>> /\ ~tour'.wrong
  <2>1. PICK due, met : due = (IF Sorted THEN items ELSE {}) /\ met = <<>>
    BY Zenon
  <2>2. tour' = [due |-> due, met |-> met, void |-> FALSE, wrong |-> FALSE]
    BY <1>2, <2>1, Zenon DEF StartTour
  <2>3. tour'.due = due /\ tour'.met = met /\ ~tour'.wrong
        /\ tour' = [due |-> tour'.due, met |-> tour'.met, void |-> tour'.void, wrong |-> tour'.wrong]
    BY <2>2
  <2> QED BY <2>1, <2>3, Zenon
<1>6. Formed'
  <2>1. tour'.due \subseteq asked'.items /\ (~Sorted => tour'.due = {})
    BY <1>1, <1>2, <1>5
  <2> QED BY <1>2, <1>3, <1>4, <1>5, <2>1 DEF Formed
<1>7. Holding(ranges.edges, asked.items, asked.list)'
  BY <1>2, <1>3 DEF Holding
<1>8. Ahead' /\ Behind'
  BY <1>4, <1>5 DEF Ahead, Behind
<1> QED BY <1>5, <1>6, <1>7, <1>8

(* The walk ends where nothing is left to give. *)
LEMMA DataEndKeeps == ASSUME RangesInv, DataEnd PROVE RangesInv'
<1> USE DEF RangesInv
<1>1. PICK place, s, due, met, given, list :
        /\ place = GoesOn /\ s = ranges.edges /\ due = tour.due /\ met = tour.met
        /\ given = index.lastsupitem /\ list = asked.list
  BY Zenon
<1>2. /\ Sound(s) /\ (Sorted => Spread(s)) /\ HoldsAll(s, asked.items) /\ asked.items \subseteq Int
      /\ due \subseteq asked.items /\ index.lastset \in BOOLEAN /\ given \in Int
      /\ index.lastindex \in Nat /\ NumRanges(s) \in Nat /\ (~Sorted => Listed(s) = list)
  BY <1>1, AllItemsAre, NumNat DEF Formed, Holding, Sound
<1>3. place.at = NumRanges(s)
  BY <1>1, Zenon DEF DataEnd
<1>4. Sorted => due = {}
  <2>1. ASSUME Sorted, NEW v \in due PROVE FALSE
    <3>1. v \in Int /\ Holds(s, v)
      BY <1>2 DEF HoldsAll
    <3>2. index.lastset => index.lastsupitem < v
      BY <1>1, <2>1 DEF Ahead
    <3>3. place.at < NumRanges(s)
      BY <1>1, <1>2, <2>1, <3>1, <3>2, GoesOnAt
    <3> QED BY <1>2, <1>3, <3>3
  <2> QED BY <2>1
<1>5. ~Sorted /\ ~tour.void => met = list
  <2>1. ASSUME ~Sorted, ~tour.void PROVE met = list
    <3>1. IF index.lastset THEN Reached(s, index.lastindex, index.lastsupitem, met) ELSE met = <<>>
      BY <1>1, <2>1 DEF Behind
    <3>2. met = Listed(s)
      BY <1>1, <1>2, <1>3, <2>1, <3>1, WalkEnds
    <3> QED BY <1>2, <2>1, <3>2
  <2> QED BY <2>1
<1>6. PICK w : w = (tour.wrong \/ IF Sorted THEN due # {} ELSE ~tour.void /\ met # list)
  BY Zenon
<1>7. tour' = [tour EXCEPT !.wrong = w]
  <2>1. tour' = [tour EXCEPT !.wrong = @ \/ IF Sorted THEN tour.due # {}
                                            ELSE ~tour.void /\ tour.met # asked.list]
    BY DEF DataEnd
  <2>2. tour' = [tour EXCEPT !.wrong = tour.wrong \/ IF Sorted THEN tour.due # {}
                                            ELSE ~tour.void /\ tour.met # asked.list]
    BY <2>1
  <2> QED BY <1>1, <1>6, <2>2, Zenon
<1>8. ~w
  BY <1>4, <1>5, <1>6, Zenon
<1>9. tour' = [due |-> due, met |-> met, void |-> tour.void, wrong |-> w]
  <2>1. PICK void, wrong : tour = [due |-> due, met |-> met, void |-> void, wrong |-> wrong]
    BY <1>1, Zenon DEF Formed
  <2>2. tour' = [due |-> due, met |-> met, void |-> void, wrong |-> w] /\ tour.void = void
    BY <1>7, <2>1
  <2> QED BY <2>2, Zenon
<1>10. tour'.due = due /\ tour'.met = met /\ tour'.void = tour.void /\ tour'.wrong = w
       /\ tour' = [due |-> tour'.due, met |-> tour'.met, void |-> tour'.void, wrong |-> tour'.wrong]
  BY <1>9
<1>11. ranges' = ranges /\ index' = index /\ asked' = asked /\ (Sorted' <=> Sorted) /\ AllItems' = AllItems
  BY DEF DataEnd, Sorted, AllItems
<1>12. Formed'
  BY <1>1, <1>10, <1>11 DEF Formed
<1>13. Holding(ranges.edges, asked.items, asked.list)'
  BY <1>11 DEF Holding
<1>14. Ahead'
  BY <1>1, <1>10, <1>11 DEF Ahead
<1>15. Behind'
  <2>1. Behind <=> (~Sorted /\ ~tour.void =>
          IF index.lastset THEN Reached(s, index.lastindex, given, met) ELSE met = <<>>)
    BY <1>1, Zenon DEF Behind
  <2>2. Behind' <=> (~Sorted /\ ~tour.void =>
          IF index.lastset THEN Reached(s, index.lastindex, given, met) ELSE met = <<>>)
    BY <1>1, <1>10, <1>11 DEF Behind, Reached, Spans
  <2> QED BY <2>1, <2>2
<1>16. ~tour'.wrong
  BY <1>8, <1>10, Zenon
<1> QED BY <1>12, <1>13, <1>14, <1>15, <1>16

LEMMA StutterKeeps == ASSUME RangesInv, UNCHANGED vars PROVE RangesInv'
<1>1. ranges' = ranges /\ index' = index /\ asked' = asked /\ tour' = tour
  BY DEF vars
<1>2. (Sorted' <=> Sorted) /\ AllItems' = AllItems
  BY <1>1 DEF Sorted, AllItems
<1>3. Formed'
  BY <1>1, <1>2 DEF RangesInv, Formed
<1>4. Holding(ranges.edges, asked.items, asked.list)'
  BY <1>1, <1>2 DEF RangesInv, Holding
<1>5. Ahead'
  BY <1>1, <1>2 DEF RangesInv, Ahead
<1>6. PICK s, i, v, met : /\ s = ranges.edges /\ i = index.lastindex /\ v = index.lastsupitem
                          /\ met = tour.met
  BY Zenon
<1>7. Behind <=> (~Sorted /\ ~tour.void =>
        IF index.lastset THEN Reached(s, i, v, met) ELSE met = <<>>)
  BY <1>6, Zenon DEF Behind
<1>8. Behind' <=> (~Sorted /\ ~tour.void =>
        IF index.lastset THEN Reached(s, i, v, met) ELSE met = <<>>)
  BY <1>1, <1>2, <1>6 DEF Behind, Reached, Spans
<1>9. Behind'
  BY <1>7, <1>8 DEF RangesInv
<1> QED BY <1>1, <1>3, <1>4, <1>5, <1>9 DEF RangesInv

LEMMA NextKeeps == ASSUME RangesInv, [Next]_vars PROVE RangesInv'
<1>1. ASSUME NEW v \in AllItems, EditItem(v) PROVE RangesInv'
  BY <1>1, AddKeeps, DelKeeps DEF EditItem
<1>2. ASSUME NEW p \in Intervals, EditRange(p[1], p[2]) PROVE RangesInv'
  <2>1. PICK lo, hi : lo = p[1] /\ hi = p[2]
    BY Zenon
  <2>2. lo \in AllItems /\ hi \in AllItems /\ lo <= hi
    BY <2>1 DEF Intervals
  <2>3. AddRange(lo, hi) \/ (DelRange(lo, hi) /\ UNCHANGED index)
    BY <1>2, <2>1, Zenon DEF EditRange
  <2> QED BY <2>2, <2>3, AddRangeKeeps, DelRangeKeeps
<1>3. ASSUME Walk PROVE RangesInv'
  BY <1>3, RewindKeeps, GiveNextKeeps, DataEndKeeps, ThisDelKeeps DEF Walk
<1> QED BY <1>1, <1>2, <1>3, AddAllKeeps, DelAllKeeps, StutterKeeps DEF Next

(* What the invariant says of the properties. *)
LEMMA InvIsRight ==
  ASSUME RangesInv
  PROVE  TypeOK /\ RangesAreSound /\ HoldsWhatWasAsked /\ TourIsComplete
<1>1. PICK s, items, list, top : /\ s = ranges.edges /\ items = asked.items /\ list = asked.list
                                 /\ top = ranges.top
  BY Zenon
<1>2. /\ Sound(s) /\ (Sorted => Spread(s)) /\ HoldsAll(s, items) /\ (~Sorted => Listed(s) = list)
      /\ items \subseteq AllItems /\ AllItems \subseteq Int /\ NumRanges(s) \in Nat
      /\ top \in Nat /\ AllItems = 0 .. top
  BY <1>1, AllItemsAre, NumNat DEF Holding, Sound
<1>3. TypeOK
  <2>1. ranges.edges \in Seq(AllItems)
    BY <1>1, <1>2, EdgesIn
  <2> QED BY <2>1 DEF TypeOK, RangesInv, Formed
<1>4. RangesAreSound
  <2>1. Len(s) = 2 * NumRanges(s)
    BY <1>2 DEF Sound
  <2>2. Len(s) % 2 = 0
    BY <1>2, <2>1
  <2>3. \A i \in 0 .. NumRanges(s) - 1 : s[Low(i)] <= s[High(i)]
    BY <1>2, EdgesInt
  <2>4. ASSUME Sorted, NEW i \in 1 .. NumRanges(s) - 1 PROVE s[High(i - 1)] + 1 < s[Low(i)]
    <3>1. PICK h : h = i - 1
      BY Zenon
    <3>2. h \in 0 .. NumRanges(s) - 1 /\ i \in 0 .. NumRanges(s) - 1 /\ h < i
      BY <1>2, <3>1
    <3>3. s[High(h)] + 1 < s[Low(i)]
      BY <1>2, <2>4, <3>2 DEF Spread
    <3> QED BY <3>1, <3>3
  <2> QED BY <1>1, <2>2, <2>3, <2>4, Zenon DEF RangesAreSound
<1>5. {v \in AllItems : \E i \in 0 .. NumRanges(s) - 1 : In(s, i, v)} = items
  BY <1>2 DEF HoldsAll, Holds
<1>6. \A v \in AllItems : ContainsItem(v) <=> v \in items
  <2>1. ASSUME NEW v \in AllItems PROVE ContainsItem(v) <=> v \in items
    <3>1. v \in Int /\ (Holds(s, v) <=> v \in items)
      BY <1>2 DEF HoldsAll
    <3>2. CASE Sorted
      BY <1>1, <1>2, <3>1, <3>2, DichotomyFinds DEF ContainsItem, Search
    <3>3. CASE ~Sorted
      BY <1>1, <1>2, <3>1, <3>3, NotSortFinds DEF ContainsItem, Search
    <3> QED BY <3>2, <3>3
  <2> QED BY <2>1
<1>7. ASSUME NEW p \in Intervals
      PROVE  ContainsRange(p[1], p[2]) # "error" =>
               (ContainsRange(p[1], p[2]) = "yes" <=> p[1] .. p[2] \subseteq items)
  <2>1. PICK lo, hi : lo = p[1] /\ hi = p[2]
    BY Zenon
  <2>2. lo \in AllItems /\ hi \in AllItems /\ lo <= hi /\ lo \in Int /\ hi \in Int
    BY <1>2, <2>1 DEF Intervals
  <2>3. CASE Sorted
    <3>1. ContainsRangeSort(lo, hi) = "yes" <=> lo .. hi \subseteq items
      BY <1>1, <1>2, <2>2, <2>3, ContainsRangeSortIs
    <3> QED BY <2>1, <2>3, <3>1, Zenon DEF ContainsRange
  <2>4. CASE ~Sorted
    <3>1. ContainsRangeNotSort(lo, hi) # "error" =>
            (ContainsRangeNotSort(lo, hi) = "yes" <=> lo .. hi \subseteq items)
      BY <1>1, <1>2, <2>2, <2>4, ContainsRangeNotSortIs
    <3> QED BY <2>1, <2>4, <3>1, Zenon DEF ContainsRange
  <2> QED BY <2>3, <2>4
<1>8. HoldsWhatWasAsked
  BY <1>1, <1>2, <1>5, <1>6, <1>7, Zenon DEF HoldsWhatWasAsked
<1>9. TourIsComplete
  BY DEF RangesInv, TourIsComplete
<1> QED BY <1>3, <1>4, <1>8, <1>9

(* Whatever edits are done, in whatever order, with walks between them: the
   edges of a list of ranges follow each other, with a gap if it is sorted
   (ranges.c:198-249); it holds, lists and finds what was asked, the items
   without duplicates or all of them (ports.h:21-26, 44-50); a walk meets
   what it must (ranges.c:1359-1501). *)
THEOREM RangesAreRight ==
  Spec => [](TypeOK /\ RangesAreSound /\ HoldsWhatWasAsked /\ TourIsComplete)
<1>1. Init => RangesInv
  BY RangesAssumption, InitHolds
<1>2. RangesInv /\ [Next]_vars => RangesInv'
  BY NextKeeps
<1>3. RangesInv => TypeOK /\ RangesAreSound /\ HoldsWhatWasAsked /\ TourIsComplete
  BY InvIsRight
<1> QED BY <1>1, <1>2, <1>3, PTL DEF Spec

-----------------------------------------------------------------------------
(* The pool of buffers.                                                    *)

\* A marked buffer is initialized, so that a mark is never that of malloc.
MarkedInit == \A s \in inuse : s[2] < numinit[s[1]]

\* Under startsearchat every buffer is in use.
FullBefore == \A s \in Pool!Slots : Pool!Before(s, start) => s \in inuse

PoolInv == Pool!TypeOK /\ Pool!GivenOnce /\ MarkedInit /\ FullBefore

-----------------------------------------------------------------------------
(* The first buffer of a set *)

LEMMA FirstOfSlots ==
  ASSUME NEW T, T \subseteq Nat \X Nat, T # {}
  PROVE  \E s \in T : \A r \in T : ~Pool!Before(r, s)
<1> DEFINE V == {s[1] : s \in T}
<1>1. PICK v \in V : \A w \in V : v <= w
  <2>1. V \subseteq Nat /\ V # {}
    OBVIOUS
  <2> HIDE DEF V
  <2> QED BY <2>1, LeastOf
<1> DEFINE H == {s[2] : s \in {t \in T : t[1] = v}}
<1>2. PICK h \in H : \A g \in H : h <= g
  <2>1. H \subseteq Nat /\ H # {}
    BY <1>1
  <2> HIDE DEF H
  <2> QED BY <2>1, LeastOf
<1>3. PICK s \in T : s[1] = v /\ s[2] = h
  BY <1>2
<1>4. ASSUME NEW r \in T PROVE ~Pool!Before(r, s)
  <2>1. r[1] \in V /\ (r[1] = v => r[2] \in H)
    OBVIOUS
  <2>2. v <= r[1] /\ (r[1] = v => h <= r[2])
    BY <2>1, <1>1, <1>2
  <2>3. r[1] \in Nat /\ r[2] \in Nat /\ v \in Nat /\ h \in Nat
    BY <1>3
  <2> QED BY <2>2, <2>3, <1>3 DEF Pool!Before
<1> QED BY <1>3, <1>4

-----------------------------------------------------------------------------
(* What a search finds *)

LEMMA SlotFacts ==
  ASSUME Pool!TypeOK, NEW s \in Pool!Slots
  PROVE  /\ s[1] \in 0 .. size - 1 /\ s[2] \in 0 .. HorizontalSize - 1
         /\ s = <<s[1], s[2]>>
         /\ numinit[s[1]] \in 0 .. HorizontalSize
BY DEF Pool!TypeOK, Pool!Slots

\* A buffer tested is initialized, or is the next one to be.
LEMMA TestedInitialized ==
  ASSUME Pool!TypeOK, MarkedInit, FullBefore, NEW s \in Pool!Tested
  PROVE  s[2] <= numinit[s[1]]
<1> SUFFICES ASSUME ~(s[2] <= numinit[s[1]]) PROVE FALSE
  OBVIOUS
<1>1. s \in Pool!Slots
  BY DEF Pool!Tested
<1>2. s[2] \in 0 .. HorizontalSize - 1 /\ numinit[s[1]] \in 0 .. HorizontalSize
  BY <1>1, SlotFacts
<1> DEFINE r == <<s[1], numinit[s[1]]>>
<1>3. r \in Pool!Slots
  BY <1>1, <1>2, SlotFacts, PoolAssumed DEF Pool!Slots
<1>4. Pool!Before(r, s)
  BY <1>2 DEF Pool!Before
<1>5. r \notin inuse
  BY <1>2 DEF MarkedInit
<1>6. ~Pool!Before(r, start)
  BY <1>3, <1>5 DEF FullBefore
<1>7. ~Pool!Free(r)
  BY <1>3, <1>4, <1>6 DEF Pool!Tested
<1> QED BY <1>7, <1>5 DEF Pool!Free

\* What a search takes was not in use.
LEMMA FreeNotInUse ==
  ASSUME Pool!TypeOK, MarkedInit, NEW s \in Pool!Slots, Pool!Free(s)
  PROVE  s \notin inuse
<1> SUFFICES ASSUME s \in inuse PROVE FALSE
  OBVIOUS
<1>1. s[2] < numinit[s[1]] /\ s[2] = numinit[s[1]]
  BY DEF Pool!Free, Pool!Untouched, MarkedInit
<1> QED BY <1>1, SlotFacts

\* A free buffer is found, wherever it is.
LEMMA SearchFinds ==
  ASSUME Pool!TypeOK, MarkedInit, FullBefore, \A s \in Pool!Tested : ~Pool!Free(s)
  PROVE  inuse = Pool!Slots
<1> DEFINE T == {r \in Pool!Slots : ~Pool!Before(r, start) /\ Pool!Free(r)}
<1>1. T = {}
  <2> SUFFICES ASSUME T # {} PROVE FALSE
    OBVIOUS
  <2>1. T \subseteq Nat \X Nat
    BY PoolAssumed DEF Pool!Slots, Pool!TypeOK
  <2>2. PICK t \in T : \A r \in T : ~Pool!Before(r, t)
    <3> HIDE DEF T
    <3> QED BY <2>1, FirstOfSlots
  <2>3. t \in Pool!Tested
    BY <2>2 DEF Pool!Tested
  <2> QED BY <2>3
<1>2. ASSUME NEW s \in Pool!Slots PROVE s \in inuse
  BY <1>1 DEF Pool!Free, FullBefore
<1> QED BY <1>2 DEF Pool!TypeOK

-----------------------------------------------------------------------------
(* The steps *)

LEMMA PoolInitHolds == Pool!Init => PoolInv
<1> SUFFICES ASSUME Pool!Init PROVE PoolInv
  OBVIOUS
<1> USE PoolAssumed DEF Pool!Init
<1>1. Pool!TypeOK
  BY DEF Pool!TypeOK
<1>2. Pool!GivenOnce /\ MarkedInit
  BY DEF Pool!GivenOnce, MarkedInit
<1>3. FullBefore
  <2> SUFFICES ASSUME NEW s \in Pool!Slots, Pool!Before(s, start) PROVE FALSE
    BY DEF FullBefore
  <2>1. s[1] \in 0 .. size - 1 /\ s[2] \in 0 .. HorizontalSize - 1
    BY DEF Pool!Slots
  <2> QED BY <2>1 DEF Pool!Before
<1> QED BY <1>1, <1>2, <1>3 DEF PoolInv

\* A buffer that nobody uses is given to u alone.
LEMMA GivesOnce ==
  ASSUME Pool!TypeOK, Pool!GivenOnce, NEW u \in Users, NEW s, s \notin inuse, Pool!Give(u, s)
  PROVE  Pool!GivenOnce'
<1>1. \A w \in Users : s \notin held[w]
  BY DEF Pool!GivenOnce
<1>2. /\ inuse' = inuse \union {s}
      /\ \A w \in Users : held'[w] = IF w = u THEN held[w] \union {s} ELSE held[w]
  BY DEF Pool!Give, Pool!TypeOK
<1> QED BY <1>1, <1>2 DEF Pool!GivenOnce

LEMMA BufInitKeeps ==
  ASSUME PoolInv, NEW u \in Users, Pool!BufInit(u)
  PROVE  PoolInv'
<1> USE DEF PoolInv
<1>1. PICK s \in Pool!Tested :
        /\ Pool!Free(s)
        /\ numinit' = IF Pool!Untouched(s) THEN [numinit EXCEPT ![s[1]] = @ + 1] ELSE numinit
        /\ Pool!Give(u, s)
        /\ size' = size
  BY DEF Pool!BufInit
<1>2. s \in Pool!Slots /\ s \notin inuse /\ s[2] <= numinit[s[1]]
  BY <1>1, FreeNotInUse, TestedInitialized DEF Pool!Tested
<1>3. /\ s[1] \in 0 .. size - 1 /\ s[2] \in 0 .. HorizontalSize - 1
      /\ s = <<s[1], s[2]>>
  BY <1>2, SlotFacts
<1>4. Pool!Slots' = Pool!Slots
  BY <1>1 DEF Pool!Slots
<1>5. numinit' \in [0 .. size - 1 -> 0 .. HorizontalSize]
  BY <1>1, <1>3, PoolAssumed DEF Pool!TypeOK, Pool!Untouched
<1>6. /\ \A v \in 0 .. size - 1 : numinit[v] <= numinit'[v]
      /\ s[2] < numinit'[s[1]]
  BY <1>1, <1>2, <1>3, PoolAssumed, SMTT(30) DEF Pool!TypeOK, Pool!Untouched, Pool!Free
<1>7. Pool!TypeOK'
  BY <1>1, <1>2, <1>3, <1>4, <1>5, PoolAssumed, SMTT(20) DEF Pool!TypeOK, Pool!Give
<1>8. Pool!GivenOnce'
  BY <1>1, <1>2, GivesOnce
<1>9. MarkedInit'
  <2> SUFFICES ASSUME NEW r \in inuse' PROVE r[2] < numinit'[r[1]]
    BY DEF MarkedInit
  <2>1. CASE r = s
    BY <2>1, <1>6
  <2>2. CASE r \in inuse
    <3>1. r \in Pool!Slots /\ r[2] < numinit[r[1]]
      BY <2>2 DEF MarkedInit, Pool!TypeOK
    <3>2. r[1] \in 0 .. size - 1 /\ r[2] \in Int /\ numinit[r[1]] \in Int
      BY <3>1, SlotFacts
    <3>3. numinit'[r[1]] \in Int /\ numinit[r[1]] <= numinit'[r[1]]
      BY <3>2, <1>5, <1>6
    <3> QED BY <3>1, <3>2, <3>3
  <2> QED BY <1>1, <2>1, <2>2 DEF Pool!Give
<1>10. FullBefore'
  <2> SUFFICES ASSUME NEW r \in Pool!Slots, Pool!Before(r, <<s[1], s[2] + 1>>) PROVE r \in inuse'
    BY <1>1, <1>4 DEF FullBefore, Pool!Give, Pool!Before
  <2>1. r[1] \in Int /\ r[2] \in Int /\ r = <<r[1], r[2]>>
    BY SlotFacts
  <2>2. r = s \/ Pool!Before(r, s)
    BY <2>1, <1>3 DEF Pool!Before
  <2>3. CASE Pool!Before(r, s) /\ ~Pool!Before(r, start)
    BY <2>3, <1>1 DEF Pool!Tested, Pool!Free, Pool!Give
  <2>4. CASE Pool!Before(r, start)
    BY <2>4, <1>1 DEF FullBefore, Pool!Give
  <2> QED BY <2>2, <2>3, <2>4, <1>1 DEF Pool!Give
<1> QED BY <1>7, <1>8, <1>9, <1>10

LEMMA GrowKeeps ==
  ASSUME PoolInv, NEW u \in Users, Pool!BufInitGrow(u)
  PROVE  PoolInv'
<1> USE DEF PoolInv
<1> DEFINE s == <<size, 0>>
<1>1. inuse = Pool!Slots
  BY SearchFinds DEF Pool!BufInitGrow
<1>2. size \in Nat /\ size' = size + AllocStep /\ size' \in Nat /\ size < size'
  BY PoolAssumed DEF Pool!TypeOK, Pool!BufInitGrow
<1>3. /\ numinit' \in [0 .. size' - 1 -> 0 .. HorizontalSize]
      /\ \A v \in 0 .. size - 1 : numinit'[v] = numinit[v]
      /\ numinit'[size] = 1
  BY <1>2, PoolAssumed DEF Pool!TypeOK, Pool!BufInitGrow
<1>4. Pool!Slots \subseteq Pool!Slots' /\ s \in Pool!Slots' /\ s \notin Pool!Slots
  BY <1>2, PoolAssumed DEF Pool!Slots
<1>5. Pool!Give(u, s)
  BY DEF Pool!BufInitGrow
<1>6. inuse' = Pool!Slots \union {s} /\ start' = <<size, 1>>
  BY <1>1, <1>5 DEF Pool!Give
<1>7. held' \in [Users -> SUBSET Pool!Slots']
  BY <1>4, <1>5 DEF Pool!Give, Pool!TypeOK
<1>8. start' \in (0 .. size' - 1) \X (0 .. HorizontalSize)
  BY <1>2, <1>6, PoolAssumed
<1>9. Pool!TypeOK'
  BY <1>2, <1>3, <1>4, <1>6, <1>7, <1>8 DEF Pool!TypeOK
<1>10. Pool!GivenOnce'
  BY <1>1, <1>4, <1>5, GivesOnce
<1>11. MarkedInit'
  <2> SUFFICES ASSUME NEW r \in inuse' PROVE r[2] < numinit'[r[1]]
    BY DEF MarkedInit
  <2>1. CASE r = s
    BY <2>1, <1>3
  <2>2. CASE r \in Pool!Slots
    BY <2>2, <1>1, <1>3, SlotFacts DEF MarkedInit
  <2> QED BY <1>6, <2>1, <2>2
<1>12. FullBefore'
  <2> SUFFICES ASSUME NEW r \in Pool!Slots', Pool!Before(r, <<size, 1>>) PROVE r \in inuse'
    BY <1>6 DEF FullBefore, Pool!Before
  <2>1. r[1] \in 0 .. size' - 1 /\ r[2] \in 0 .. HorizontalSize - 1 /\ r = <<r[1], r[2]>>
    BY DEF Pool!Slots
  <2>2. r = s \/ r \in Pool!Slots
    BY <2>1, <1>2 DEF Pool!Before, Pool!Slots
  <2> QED BY <2>2, <1>6
<1> QED BY <1>9, <1>10, <1>11, <1>12

LEMMA BufCloseKeeps ==
  ASSUME PoolInv, NEW u \in Users, NEW s \in held[u], Pool!BufClose(u, s)
  PROVE  PoolInv'
<1> USE DEF PoolInv
<1>1. s \in Pool!Slots /\ s \in inuse
  BY DEF Pool!BufClose, Pool!TypeOK
<1>2. /\ s[1] \in 0 .. size - 1 /\ s[2] \in 0 .. HorizontalSize - 1
      /\ s = <<s[1], s[2]>>
  BY <1>1, SlotFacts
<1>3. Pool!Slots' = Pool!Slots /\ inuse' = inuse \ {s} /\ numinit' = numinit /\ size' = size
  BY DEF Pool!BufClose, Pool!Slots
<1>4. \A w \in Users : held'[w] = IF w = u THEN held[w] \ {s} ELSE held[w]
  BY DEF Pool!BufClose, Pool!TypeOK
<1>5. Pool!TypeOK'
  BY <1>1, <1>2, <1>3, PoolAssumed DEF Pool!TypeOK, Pool!BufClose
<1>6. Pool!GivenOnce'
  BY <1>3, <1>4 DEF Pool!GivenOnce
<1>7. MarkedInit'
  BY <1>3 DEF MarkedInit
<1>8. FullBefore'
  <2> SUFFICES ASSUME NEW r \in Pool!Slots, Pool!Before(r, start)' PROVE r \in inuse \ {s}
    BY <1>3 DEF FullBefore, Pool!Before
  <2>1. r[1] \in Int /\ r[2] \in Int /\ start[1] \in Int /\ start[2] \in Int
    BY SlotFacts DEF Pool!TypeOK
  <2>2. start' = IF Pool!Before(s, start) THEN s ELSE start
    BY DEF Pool!BufClose
  <2>3. Pool!Before(r, start) /\ r # s
    BY <1>2, <2>1, <2>2 DEF Pool!Before
  <2> QED BY <2>3 DEF FullBefore
<1> QED BY <1>5, <1>6, <1>7, <1>8

LEMMA PoolPreserved == PoolInv /\ [Pool!Next]_(Pool!vars) => PoolInv'
<1> SUFFICES ASSUME PoolInv, [Pool!Next]_(Pool!vars) PROVE PoolInv'
  OBVIOUS
<1>1. CASE \E u \in Users : Pool!BufInit(u)
  BY <1>1, BufInitKeeps
<1>2. CASE \E u \in Users : Pool!BufInitGrow(u)
  BY <1>2, GrowKeeps
<1>3. CASE \E u \in Users : \E s \in held[u] : Pool!BufClose(u, s)
  BY <1>3, BufCloseKeeps
<1>4. CASE UNCHANGED Pool!vars
  BY <1>4 DEF Pool!vars, PoolInv, Pool!TypeOK, Pool!GivenOnce, MarkedInit, FullBefore, Pool!Slots, Pool!Before
<1> QED BY <1>1, <1>2, <1>3, <1>4 DEF Pool!Next

LEMMA PoolInvariance == Pool!Spec => []PoolInv
BY PoolInitHolds, PoolPreserved, PTL DEF Pool!Spec

-----------------------------------------------------------------------------
(* What follows *)

\* The fields of a pool keep their types: startsearchat stays at a position
\* of the arrays, or just after the last one of an array.
THEOREM PoolTypes == Pool!Spec => []Pool!TypeOK
<1>1. PoolInv => Pool!TypeOK
  BY DEF PoolInv
<1> QED BY <1>1, PoolInvariance, PTL

\* netwib_bufpool_buf_init gives no buffer that a user did not close.
THEOREM NoBufferTwice == Pool!Spec => []Pool!GivenOnce
<1>1. PoolInv => Pool!GivenOnce
  BY DEF PoolInv
<1> QED BY <1>1, PoolInvariance, PTL

\* A search reads no mark that malloc left undefined.
THEOREM NoUndefinedMark == Pool!Spec => []Pool!ReadsInitialized
<1>1. PoolInv => Pool!ReadsInitialized
  BY TestedInitialized DEF PoolInv, Pool!ReadsInitialized
<1> QED BY <1>1, PoolInvariance, PTL

\* The arrays are added only when every buffer is in use, though a search
\* does not start from the first buffer.
THEOREM GrowsOnlyFull == Pool!Spec => Pool!GrowsWhenFull
<1>1. PoolInv /\ [Pool!Next]_(Pool!vars) => [size' # size => inuse = Pool!Slots]_(Pool!vars)
  <2> SUFFICES ASSUME PoolInv, Pool!Next, size' # size PROVE inuse = Pool!Slots
    BY DEF Pool!vars
  <2>1. PICK u \in Users : Pool!BufInitGrow(u)
    BY DEF Pool!Next, Pool!BufInit, Pool!BufClose
  <2> QED BY <2>1, SearchFinds DEF PoolInv, Pool!BufInitGrow
<1> QED BY <1>1, PoolInvariance, PTL DEF Pool!Spec, Pool!GrowsWhenFull

-----------------------------------------------------------------------------
(* The buffers of a data io.                                               *)

(* The invariant that is inductive: the shape of each record, and an end
   that was reached only once nothing is left below. *)
Ways == [set : Data!Settings, buf : Seq(Nat), endreached : BOOLEAN]
Errors == {"none", "OK", "DATANOTAVAIL", "DATAEND", "ERROR"}
DataInv ==
  /\ rd \in Ways /\ wr \in Ways /\ wrsupported \in BOOLEAN /\ writing \in BOOLEAN
  /\ source \in Seq(Nat) /\ writes \in Seq(Seq(Nat)) /\ changes \subseteq Data!Settings
  /\ got \in [err : Errors, data : Seq(Nat)] /\ Len(passed) \in {0, 1}
  /\ rd.endreached => source = <<>>

(* What an item takes is in the buffer. *)
Within(c, n) == c.is = "yes" => c.size \in 0 .. n /\ c.next \in Nat

LEMMA LeastIs ==
  ASSUME NEW T, T \subseteq Nat, T # {}
  PROVE  Data!Min(T) \in T /\ \A y \in T : Data!Min(T) <= y
<1>1. PICK n \in T : \A m \in T : n <= m
  BY LeastOf
<1> QED BY <1>1 DEF Data!Min

LEMMA LargestIs ==
  ASSUME NEW n \in Nat, NEW T, T \subseteq 0 .. n, T # {}
  PROVE  Data!Max(T) \in T
<1> DEFINE U == {k \in 0 .. n : n - k \in T}
<1>1. U \subseteq Nat /\ U # {}
  <2>1. PICK x \in T : TRUE
    OBVIOUS
  <2>2. PICK k : k = n - x
    BY Zenon
  <2>3. k \in 0 .. n /\ n - k \in T
    <3>1. n - k = x
      BY <2>2
    <3> QED BY <2>2, <3>1
  <2>4. k \in U
    BY <2>3
  <2>5. U \subseteq Nat
    OBVIOUS
  <2> HIDE DEF U
  <2> QED BY <2>4, <2>5
<1>2. PICK k \in U : \A m \in U : k <= m
  <2> HIDE DEF U
  <2> QED BY <1>1, LeastOf
<1>3. PICK x : x = n - k
  BY Zenon
<1>4. x \in T
  BY <1>2, <1>3
<1>5. ASSUME NEW y \in T PROVE x >= y
  <2>1. PICK m : m = n - y
    BY Zenon
  <2>2. m \in 0 .. n /\ n - m = y
    BY <2>1
  <2>3. m \in U
    BY <2>2
  <2>4. k <= m
    BY <1>2, <2>3
  <2> QED BY <1>2, <1>3, <2>1, <2>2, <2>4
<1> QED BY <1>4, <1>5 DEF Data!Max

LEMMA LineWithin ==
  ASSUME NEW b \in Seq(Nat), NEW e \in BOOLEAN
  PROVE  Within(Data!ContainLine(b, e), Len(b))
<1>1. PICK n \in Nat : n = Len(b)
  OBVIOUS
<1>2. DOMAIN b = 1 .. n
  BY <1>1
<1>3. CASE Data!Stops(b) # {}
  <2>1. PICK i : i = Data!Min(Data!Stops(b))
    BY Zenon
  <2>2. i \in Data!Stops(b) /\ i \in 1 .. n
    <3>1. Data!Stops(b) \subseteq Nat /\ Data!Stops(b) \subseteq 1 .. n
      BY <1>2 DEF Data!Stops
    <3>2. Data!Min(Data!Stops(b)) \in Data!Stops(b)
      BY <1>3, <3>1, LeastIs
    <3> QED BY <2>1, <3>1, <3>2
  <2>3. PICK j : j = Data!Min(Data!LineEnds(b))
    BY Zenon
  <2>4. j \in 1 .. n
    <3>1. Data!LineEnds(b) \subseteq Nat /\ Data!LineEnds(b) \subseteq 1 .. n
      BY <1>2 DEF Data!LineEnds
    <3>2. Data!LineEnds(b) # {}
      BY <1>2, <2>2 DEF Data!LineEnds, Data!Stops
    <3>3. Data!Min(Data!LineEnds(b)) \in Data!LineEnds(b)
      BY <3>1, <3>2, LeastIs
    <3> QED BY <2>3, <3>1, <3>3
  <2>5. PICK next : next = IF b[i] = LF THEN i ELSE i - 1
    BY Zenon
  <2>6. PICK len : len = j - 1
    BY Zenon
  <2>7. len \in 0 .. n /\ next \in Nat
    BY <1>1, <2>2, <2>4, <2>5, <2>6
  <2>8. Data!ContainLine(b, e) = Data!Item(len, next)
    BY <1>3, <2>1, <2>3, <2>5, <2>6, Zenon DEF Data!ContainLine
  <2>9. Data!Item(len, next).size = len /\ Data!Item(len, next).next = next
    BY DEF Data!Item
  <2> QED BY <1>1, <2>7, <2>8, <2>9 DEF Within
<1>4. CASE Data!Stops(b) = {} /\ ~e
  BY <1>4 DEF Data!ContainLine, Data!Nothing, Within
<1>5. CASE Data!Stops(b) = {} /\ e /\ b = <<>>
  BY <1>5 DEF Data!ContainLine, Data!AtEnd, Within
<1>6. CASE Data!Stops(b) = {} /\ e /\ b # <<>>
  <2>1. PICK T : T = {1} \cup {i \in DOMAIN b : b[i] # CR}
    BY Zenon
  <2>2. PICK len : len = Data!Max(T)
    BY Zenon
  <2>3. Data!ContainLine(b, e) = Data!Item(len, n)
    BY <1>1, <1>6, <2>1, <2>2, Zenon DEF Data!ContainLine
  <2>4. 1 <= n
    BY <1>1, <1>6
  <2>5. T \subseteq 0 .. n /\ T # {}
    BY <1>2, <2>1, <2>4
  <2>6. Data!Max(T) \in T
    BY <2>5, LargestIs
  <2>7. len \in 0 .. n
    BY <2>2, <2>5, <2>6
  <2>8. Data!Item(len, n).size = len /\ Data!Item(len, n).next = n
    BY DEF Data!Item
  <2> QED BY <1>1, <2>3, <2>7, <2>8 DEF Within
<1> QED BY <1>3, <1>4, <1>5, <1>6

LEMMA BlockWithin ==
  ASSUME NEW b \in Seq(Nat), NEW e \in BOOLEAN, NEW enough \in Nat, NEW len \in Nat,
         Len(b) >= enough => len <= Len(b)
  PROVE  Within(Data!ContainBlock(b, e, enough, len), Len(b))
BY DEF Data!ContainBlock, Within, Data!Item, Data!Nothing, Data!AtEnd

LEMMA ContainWithin ==
  ASSUME NEW way \in Ways
  PROVE  Within(Data!Contain(way), Len(way.buf))
<1>1. PICK b, n, e, set : b = way.buf /\ n = Len(b) /\ e = way.endreached /\ set = way.set
  BY Zenon
<1>2. b \in Seq(Nat) /\ n \in Nat /\ e \in BOOLEAN /\ set \in Data!Settings
  BY <1>1 DEF Ways
<1>3. /\ set.minsize \in Nat /\ set.maxsize \in Nat /\ set.fixedsize \in Nat
      /\ set.type \in {"LINE", "CHUNK", "FIXED", "TRANSPARENT"}
  BY <1>2 DEF Data!Settings
<1>4. CASE set.type = "LINE"
  <2>1. Data!Contain(way) = Data!ContainLine(b, e)
    BY <1>1, <1>4 DEF Data!Contain
  <2> QED BY <1>1, <1>2, <2>1, LineWithin
<1>5. CASE set.type = "CHUNK"
  <2>1. PICK len : len = IF set.maxsize = 0 THEN n ELSE Data!Min({n, set.maxsize})
    BY Zenon
  <2>2. Data!Contain(way) = Data!ContainBlock(b, e, set.minsize, len)
    BY <1>1, <1>5, <2>1 DEF Data!Contain
  <2>3. Data!Min({n, set.maxsize}) \in {n, set.maxsize} /\ Data!Min({n, set.maxsize}) <= n
    <3>1. PICK T : T = {n, set.maxsize}
      BY Zenon
    <3>2. T \subseteq Nat /\ T # {} /\ n \in T
      BY <1>2, <1>3, <3>1
    <3>3. Data!Min(T) \in T /\ Data!Min(T) <= n
      BY <3>2, LeastIs
    <3> QED BY <3>1, <3>3
  <2>4. len \in Nat /\ len <= n
    BY <1>2, <1>3, <2>1, <2>3
  <2> QED BY <1>1, <1>2, <1>3, <2>2, <2>4, BlockWithin
<1>6. CASE set.type = "FIXED"
  <2>1. PICK len : len = set.fixedsize
    BY Zenon
  <2>2. Data!Contain(way) = Data!ContainBlock(b, e, len, len)
    BY <1>1, <1>6, <2>1 DEF Data!Contain
  <2>3. len \in Nat /\ (Len(b) >= len => len <= Len(b))
    BY <1>2, <1>3, <2>1
  <2> QED BY <1>1, <1>2, <2>2, <2>3, BlockWithin
<1>7. CASE set.type = "TRANSPARENT"
  <2>1. PICK one : one = 1
    BY Zenon
  <2>2. Data!Contain(way) = Data!ContainBlock(b, e, one, n)
    BY <1>1, <1>7, <2>1 DEF Data!Contain
  <2>3. one \in Nat /\ n <= Len(b)
    BY <1>1, <1>2, <2>1
  <2> QED BY <1>1, <1>2, <2>2, <2>3, BlockWithin
<1> QED BY <1>3, <1>4, <1>5, <1>6, <1>7

(* The bytes of an item, and those that stay. *)
LEMMA PartsOf ==
  ASSUME NEW b \in Seq(Nat), NEW n \in Nat
  PROVE  Data!Skip(b, n) \in Seq(Nat) /\ (n <= Len(b) => Data!First(b, n) \in Seq(Nat))
<1>1. \A i \in (n + 1) .. Len(b) : i \in DOMAIN b
  OBVIOUS
<1>2. \A i \in 1 .. n : n <= Len(b) => i \in DOMAIN b
  OBVIOUS
<1>3. Data!Skip(b, n) \in Seq(Nat)
  BY <1>1, SubSeqProperties DEF Data!Skip
<1>4. n <= Len(b) => Data!First(b, n) \in Seq(Nat)
  BY <1>2, SubSeqProperties DEF Data!First
<1> QED BY <1>3, <1>4

(* One lemma for each operation. *)
LEMMA WayKeeps ==
  ASSUME NEW way \in Ways, NEW b \in Seq(Nat)
  PROVE  [way EXCEPT !.buf = b] \in Ways /\ [way EXCEPT !.buf = b].endreached = way.endreached
<1>1. PICK set \in Data!Settings, old \in Seq(Nat), e \in BOOLEAN :
        way = [set |-> set, buf |-> old, endreached |-> e]
  BY DEF Ways
<1>2. [way EXCEPT !.buf = b] = [set |-> set, buf |-> b, endreached |-> e]
  BY <1>1
<1> QED BY <1>1, <1>2 DEF Ways

LEMMA GiveItemKeeps ==
  ASSUME DataInv, NEW way \in Ways, Data!Contain(way).is = "yes", Data!GiveItem(way),
         NEW left, left = source', left \in Seq(Nat), way.endreached => left = <<>>
  PROVE  DataInv'
<1>1. PICK b, n, len, next : /\ b = way.buf /\ n = Len(b) /\ len = Data!Contain(way).size
                              /\ next = Data!Contain(way).next
  BY Zenon
<1>2. b \in Seq(Nat) /\ n \in Nat /\ len \in 0 .. n /\ next \in Nat
  BY <1>1, ContainWithin DEF Ways, Within
<1>3. PICK data, rest : data = Data!First(b, len) /\ rest = Data!Skip(b, next)
  BY Zenon
<1>4. data \in Seq(Nat) /\ rest \in Seq(Nat)
  <2>1. len \in Nat /\ len <= Len(b)
    BY <1>1, <1>2
  <2>2. Data!First(b, len) \in Seq(Nat)
    BY <1>2, <2>1, PartsOf
  <2>3. Data!Skip(b, next) \in Seq(Nat)
    BY <1>2, PartsOf
  <2> QED BY <1>3, <2>2, <2>3
<1>5. Data!Give([way EXCEPT !.buf = rest], "OK", data)
  <2>1. Data!Give([way EXCEPT !.buf = Data!Skip(way.buf, Data!Contain(way).next)], "OK", Data!First(way.buf, Data!Contain(way).size))
    BY DEF Data!GiveItem
  <2> QED BY <1>1, <1>3, <2>1, Zenon
<1>6. rd' \in Ways /\ rd'.endreached = way.endreached /\ got' = [err |-> "OK", data |-> data]
      /\ UNCHANGED <<wr, wrsupported, writes, changes, writing, passed>>
  BY <1>4, <1>5, WayKeeps DEF Data!Give
<1>7. got' \in [err : Errors, data : Seq(Nat)]
  BY <1>4, <1>6 DEF Errors
<1> QED BY <1>6, <1>7 DEF DataInv

LEMMA DataGiveKeeps ==
  ASSUME DataInv, NEW way \in Ways, NEW err \in Errors, NEW data \in Seq(Nat), Data!Give(way, err, data),
         NEW left, left = source', left \in Seq(Nat), way.endreached => left = <<>>
  PROVE  DataInv'
<1>1. rd' = way /\ got' = [err |-> err, data |-> data]
      /\ UNCHANGED <<wr, wrsupported, writes, changes, writing, passed>>
  BY DEF Data!Give
<1>2. got' \in [err : Errors, data : Seq(Nat)]
  BY <1>1
<1> QED BY <1>1, <1>2 DEF DataInv

LEMMA ReadStoredKeeps == ASSUME DataInv, Data!ReadStored PROVE DataInv'
<1>1. rd \in Ways /\ source' = source /\ source \in Seq(Nat) /\ (rd.endreached => source = <<>>)
  BY DEF DataInv, Data!ReadStored
<1>2. PICK err, data, left : err = "DATAEND" /\ data = <<>> /\ left = source'
  BY Zenon
<1>3. err \in Errors /\ data \in Seq(Nat)
  BY <1>2 DEF Errors
<1>4. CASE Data!Contain(rd).is = "yes"
  <2>1. Data!GiveItem(rd)
    BY <1>4 DEF Data!ReadStored
  <2> QED BY <1>1, <1>2, <1>4, <2>1, GiveItemKeeps
<1>5. CASE Data!Contain(rd).is # "yes"
  <2>1. Data!Give(rd, err, data)
    BY <1>2, <1>5 DEF Data!ReadStored
  <2> QED BY <1>1, <1>2, <1>3, <2>1, DataGiveKeeps
<1> QED BY <1>4, <1>5

(* What an answer from below takes, and what it leaves there. *)
LEMMA BelowIs ==
  ASSUME DataInv, NEW a \in Data!Below
  PROVE  /\ a.n \in Nat /\ a.n <= Len(source) /\ a.err \in Errors
         /\ Data!First(source, a.n) \in Seq(Nat) /\ Data!Skip(source, a.n) \in Seq(Nat)
         /\ source = <<>> \/ a.err = "DATAEND" => Data!Skip(source, a.n) = <<>>
<1>1. source \in Seq(Nat) /\ Len(source) \in Nat
  BY DEF DataInv
<1>2. /\ a.n \in Nat /\ a.n <= Len(source) /\ a.err \in Errors
      /\ a.err = "DATAEND" => source = <<>>
  BY <1>1 DEF Data!Below, Errors
<1>3. Data!First(source, a.n) \in Seq(Nat) /\ Data!Skip(source, a.n) \in Seq(Nat)
  BY <1>1, <1>2, SubSeqProperties DEF Data!First, Data!Skip
<1>4. ASSUME source = <<>> PROVE Data!Skip(source, a.n) = <<>>
  <2>1. Len(source) = 0 /\ a.n = 0
    BY <1>2, <1>4
  <2>2. Data!Skip(source, a.n) = SubSeq(source, 1, 0)
    BY <2>1 DEF Data!Skip
  <2> QED BY <2>2, SubSeqEmpty
<1> QED BY <1>2, <1>3, <1>4

LEMMA ReadThroughKeeps == ASSUME DataInv, NEW a \in Data!Below, Data!ReadThrough(a) PROVE DataInv'
<1>1. PICK err, data, left : err = a.err /\ data = Data!First(source, a.n) /\ left = Data!Skip(source, a.n)
  BY Zenon
<1>2. Data!Give(rd, err, data) /\ left = source'
  BY <1>1, Zenon DEF Data!ReadThrough
<1>3. /\ err \in Errors /\ data \in Seq(Nat) /\ left \in Seq(Nat) /\ (source = <<>> => left = <<>>)
  BY <1>1, BelowIs
<1>4. rd \in Ways /\ (rd.endreached => left = <<>>)
  BY <1>3 DEF DataInv
<1> QED BY <1>2, <1>3, <1>4, DataGiveKeeps

LEMMA FilledIs ==
  ASSUME DataInv, NEW a \in Data!Below
  PROVE  Data!Filled(a) \in Ways /\ (Data!Filled(a).endreached => Data!Skip(source, a.n) = <<>>)
<1>1. PICK set \in Data!Settings, old \in Seq(Nat), e \in BOOLEAN :
        rd = [set |-> set, buf |-> old, endreached |-> e]
  BY DEF DataInv, Ways
<1>2. PICK b, end : b = old \o Data!First(source, a.n) /\ end = (e \/ a.err = "DATAEND")
  BY Zenon
<1>3. b \in Seq(Nat)
  BY <1>1, <1>2, BelowIs, ConcatProperties
<1>4. Data!Filled(a) = [rd EXCEPT !.buf = b, !.endreached = end]
  <2>1. rd.buf = old /\ rd.endreached = e
    BY <1>1
  <2>2. Data!Filled(a) = [rd EXCEPT !.buf = rd.buf \o Data!First(source, a.n),
                               !.endreached = rd.endreached \/ a.err = "DATAEND"]
    BY DEF Data!Filled
  <2> QED BY <1>2, <2>1, <2>2, Zenon
<1>5. end \in BOOLEAN
  BY <1>2
<1>6. Data!Filled(a) = [set |-> set, buf |-> b, endreached |-> end]
  BY <1>1, <1>4, <1>5
<1>7. Data!Filled(a) \in Ways /\ Data!Filled(a).endreached = end
  BY <1>1, <1>3, <1>5, <1>6 DEF Ways
<1>8. end => source = <<>> \/ a.err = "DATAEND"
  BY <1>1, <1>2 DEF DataInv
<1> QED BY <1>7, <1>8, BelowIs

LEMMA ReadMoreKeeps == ASSUME DataInv, NEW a \in Data!Below, Data!ReadMore(a) PROVE DataInv'
<1>1. PICK err, none, left, way, end, later :
        /\ err = a.err /\ none = <<>> /\ left = Data!Skip(source, a.n) /\ way = Data!Filled(a)
        /\ end = "DATAEND" /\ later = "DATANOTAVAIL"
  BY Zenon
<1>2. /\ err \in Errors /\ none \in Seq(Nat) /\ left \in Seq(Nat) /\ left = source'
      /\ end \in Errors /\ later \in Errors
      /\ (source = <<>> => left = <<>>)
      /\ way \in Ways /\ (way.endreached => left = <<>>)
  BY <1>1, BelowIs, FilledIs DEF Errors, Data!ReadMore
<1>3. rd \in Ways /\ (rd.endreached => left = <<>>)
  BY <1>2 DEF DataInv
<1>4. \/ Data!Give(rd, err, none)
      \/ Data!Contain(way).is = "yes" /\ Data!GiveItem(way)
      \/ Data!Give(way, end, none)
      \/ Data!Give(way, later, none)
  <2>1. CASE a.err \notin {"OK", "DATAEND"}
    BY <1>1, <2>1 DEF Data!ReadMore
  <2>2. CASE a.err \in {"OK", "DATAEND"} /\ Data!Contain(Data!Filled(a)).is = "yes"
    BY <1>1, <2>2 DEF Data!ReadMore
  <2>3. CASE a.err = "DATAEND" /\ Data!Contain(Data!Filled(a)).is = "DATAEND"
    <3>1. Data!Contain(Data!Filled(a)).is # "yes" /\ a.err \in {"OK", "DATAEND"}
      BY <2>3
    <3> QED BY <1>1, <2>3, <3>1 DEF Data!ReadMore
  <2>4. CASE /\ a.err \in {"OK", "DATAEND"} /\ Data!Contain(Data!Filled(a)).is # "yes"
             /\ ~(a.err = "DATAEND" /\ Data!Contain(Data!Filled(a)).is = "DATAEND")
    BY <1>1, <2>4 DEF Data!ReadMore
  <2> QED BY <2>1, <2>2, <2>3, <2>4
<1> QED BY <1>2, <1>3, <1>4, DataGiveKeeps, GiveItemKeeps

LEMMA EolIs == ASSUME Data!DataAssumption, NEW set PROVE Data!Eol(set) \in Seq(Nat)
BY DEF Data!DataAssumption, Data!Eol

LEMMA NoneGot ==
  [err |-> "none", data |-> <<>>] \in [err : Errors, data : Seq(Nat)]
<1>1. <<>> \in Seq(Nat) /\ "none" \in Errors
  BY DEF Errors
<1> QED BY <1>1

LEMMA UnreadKeeps == ASSUME Data!DataAssumption, DataInv, Data!Unread PROVE DataInv'
<1>1. PICK eol : eol = IF rd.set.type = "LINE" THEN Data!Eol(rd.set) ELSE <<>>
  BY Zenon
<1>2. eol \in Seq(Nat) /\ got.data \in Seq(Nat) /\ rd.buf \in Seq(Nat) /\ rd \in Ways
  BY <1>1, EolIs DEF DataInv, Ways
<1>3. PICK b : b = got.data \o eol \o rd.buf
  BY Zenon
<1>4. b \in Seq(Nat)
  <2>1. got.data \o eol \in Seq(Nat)
    BY <1>2, ConcatProperties
  <2> QED BY <1>2, <1>3, <2>1, ConcatProperties
<1>5. rd' = [rd EXCEPT !.buf = b]
  <2>1. rd' = [rd EXCEPT !.buf = got.data \o (IF rd.set.type = "LINE" THEN Data!Eol(rd.set) ELSE <<>>) \o rd.buf]
    BY DEF Data!Unread
  <2> QED BY <1>1, <1>3, <2>1, Zenon
<1>6. rd' \in Ways /\ rd'.endreached = rd.endreached
  BY <1>2, <1>4, <1>5, WayKeeps
<1>7. got' = [err |-> "none", data |-> <<>>]
      /\ UNCHANGED <<wr, wrsupported, source, writes, changes, writing, passed>>
  BY DEF Data!Unread
<1>8. got' \in [err : Errors, data : Seq(Nat)]
  BY <1>7, NoneGot
<1> QED BY <1>6, <1>7, <1>8 DEF DataInv

LEMMA BeginIs ==
  ASSUME DataInv, Data!Begin
  PROVE  /\ Head(writes) \in Seq(Nat) /\ writes' \in Seq(Seq(Nat))
         /\ UNCHANGED <<rd, wrsupported, source, changes, got>>
<1>1. writes \in Seq(Seq(Nat)) /\ writes # <<>> /\ writes' = Tail(writes)
      /\ UNCHANGED <<rd, wrsupported, source, changes, got>>
  BY DEF DataInv, Data!Begin
<1> QED BY <1>1, HeadTailProperties

(* A write below passes one item, or nothing. *)
LEMMA PassedIs == ASSUME NEW x PROVE Len(<<x>>) \in {0, 1} /\ Len(<<>>) \in {0, 1}
OBVIOUS

LEMMA WriteThroughKeeps ==
  ASSUME DataInv, NEW ok \in BOOLEAN, Data!WriteThrough(ok) PROVE DataInv'
<1>1. PICK x : x = Head(writes)
  BY Zenon
<1>2. Data!Begin /\ passed' = (IF ok THEN <<x>> ELSE <<>>) /\ UNCHANGED <<wr, writing>>
  BY <1>1, Zenon DEF Data!WriteThrough
<1>3. Len(passed') \in {0, 1}
  BY <1>2, PassedIs, Zenon
<1> QED BY <1>2, <1>3, BeginIs DEF DataInv

LEMMA WriteLineKeeps ==
  ASSUME Data!DataAssumption, DataInv, NEW ok \in BOOLEAN, Data!WriteLine(ok) PROVE DataInv'
<1>1. PICK all, b : all = wr.buf \o Head(writes) \o Data!Eol(wr.set) /\ b = IF ok THEN <<>> ELSE all
  BY Zenon
<1>2. /\ Data!Begin /\ wr' = [wr EXCEPT !.buf = b] /\ passed' = (IF ok THEN <<all>> ELSE <<>>)
      /\ writing' = writing
  BY <1>1, Zenon DEF Data!WriteLine
<1>3. wr \in Ways /\ wr.buf \in Seq(Nat)
  BY DEF DataInv, Ways
<1>4. all \in Seq(Nat)
  <2>1. wr.buf \o Head(writes) \in Seq(Nat)
    BY <1>2, <1>3, BeginIs, ConcatProperties
  <2>2. Data!Eol(wr.set) \in Seq(Nat)
    BY EolIs
  <2> QED BY <1>1, <2>1, <2>2, ConcatProperties
<1>5. b \in Seq(Nat)
  BY <1>1, <1>4
<1>6. wr' \in Ways
  BY <1>2, <1>3, <1>5, WayKeeps
<1>7. Len(passed') \in {0, 1}
  BY <1>2, PassedIs, Zenon
<1> QED BY <1>2, <1>6, <1>7, BeginIs DEF DataInv

LEMMA WriteBeginKeeps == ASSUME DataInv, Data!WriteBegin PROVE DataInv'
<1>1. PICK b : b = wr.buf \o Head(writes)
  BY Zenon
<1>2. Data!Begin /\ wr' = [wr EXCEPT !.buf = b] /\ writing' = TRUE /\ passed' = <<>>
  BY <1>1 DEF Data!WriteBegin
<1>3. wr \in Ways /\ wr.buf \in Seq(Nat)
  BY DEF DataInv, Ways
<1>4. b \in Seq(Nat)
  BY <1>1, <1>2, <1>3, BeginIs, ConcatProperties
<1>5. wr' \in Ways
  BY <1>2, <1>3, <1>4, WayKeeps
<1>6. Len(passed') \in {0, 1}
  BY <1>2, PassedIs, Zenon
<1> QED BY <1>2, <1>5, <1>6, BeginIs DEF DataInv

LEMMA WritePieceKeeps ==
  ASSUME DataInv, NEW ok \in BOOLEAN, Data!WritePiece(ok) PROVE DataInv'
<1>1. PICK b, x : /\ b = (IF ok THEN Data!Skip(wr.buf, Data!Contain(wr).next) ELSE wr.buf)
                  /\ x = Data!First(wr.buf, Data!Contain(wr).size)
  BY Zenon
<1>2. /\ wr' = [wr EXCEPT !.buf = b] /\ passed' = (IF ok THEN <<x>> ELSE <<>>)
      /\ writing' = ok /\ Data!Contain(wr).is = "yes"
      /\ UNCHANGED <<rd, wrsupported, source, writes, changes, got>>
  <2>1. /\ wr' = [wr EXCEPT !.buf = IF ok THEN Data!Skip(wr.buf, Data!Contain(wr).next) ELSE wr.buf]
        /\ passed' = (IF ok THEN <<Data!First(wr.buf, Data!Contain(wr).size)>> ELSE <<>>)
        /\ writing' = ok /\ Data!Contain(wr).is = "yes"
        /\ UNCHANGED <<rd, wrsupported, source, writes, changes, got>>
    BY DEF Data!WritePiece
  <2> QED BY <1>1, <2>1, Zenon
<1>3. wr \in Ways /\ wr.buf \in Seq(Nat)
  BY DEF DataInv, Ways
<1>4. b \in Seq(Nat)
  <2>1. Data!Contain(wr).next \in Nat
    BY <1>2, <1>3, ContainWithin DEF Within
  <2>2. Data!Skip(wr.buf, Data!Contain(wr).next) \in Seq(Nat)
    BY <1>3, <2>1, PartsOf
  <2> QED BY <1>1, <1>3, <2>2
<1>5. wr' \in Ways
  BY <1>2, <1>3, <1>4, WayKeeps
<1>6. Len(passed') \in {0, 1}
  BY <1>2, PassedIs, Zenon
<1>7. writing' \in BOOLEAN
  BY <1>2
<1> QED BY <1>2, <1>5, <1>6, <1>7 DEF DataInv

LEMMA WriteEndKeeps == ASSUME DataInv, Data!WriteEnd PROVE DataInv'
<1>1. writing' = FALSE /\ passed' = <<>>
      /\ UNCHANGED <<rd, wr, wrsupported, source, writes, changes, got>>
  BY DEF Data!WriteEnd
<1>2. Len(passed') \in {0, 1}
  BY <1>1, PassedIs, Zenon
<1> QED BY <1>1, <1>2 DEF DataInv

LEMMA EndKeeps == ASSUME DataInv, NEW ok \in BOOLEAN, Data!End(ok) PROVE DataInv'
<1>1. PICK b : b = wr.buf
  BY Zenon
<1>2. /\ wr' = IF ok THEN [wr EXCEPT !.buf = <<>>, !.endreached = TRUE] ELSE wr
      /\ wrsupported' = (wrsupported /\ ~ok)
      /\ passed' = (IF ok /\ b # <<>> THEN <<b>> ELSE <<>>)
      /\ UNCHANGED <<rd, source, writes, changes, writing, got>>
  BY <1>1, Zenon DEF Data!End
<1>3. wr' \in Ways
  <2>1. PICK set \in Data!Settings, old \in Seq(Nat), e \in BOOLEAN :
          wr = [set |-> set, buf |-> old, endreached |-> e]
    BY DEF DataInv, Ways
  <2>2. PICK y, none : y = TRUE /\ none = <<>>
    BY Zenon
  <2>3. none \in Seq(Nat) /\ y \in BOOLEAN
    BY <2>2
  <2>4. [wr EXCEPT !.buf = none, !.endreached = y] = [set |-> set, buf |-> none, endreached |-> y]
    <3>1. PICK r : r = [wr EXCEPT !.buf = none]
      BY Zenon
    <3>2. r = [set |-> set, buf |-> none, endreached |-> e]
      BY <2>1, <2>3, <3>1
    <3>3. [r EXCEPT !.endreached = y] = [set |-> set, buf |-> none, endreached |-> y]
      BY <2>3, <3>2
    <3> QED BY <3>1, <3>3, Zenon
  <2>5. [wr EXCEPT !.buf = none, !.endreached = y] \in Ways
    BY <2>3, <2>4 DEF Ways
  <2>6. wr \in Ways
    BY DEF DataInv
  <2> QED BY <1>2, <2>2, <2>5, <2>6, Zenon
<1>4. Len(passed') \in {0, 1}
  BY <1>2, PassedIs, Zenon
<1>5. wrsupported' \in BOOLEAN
  BY <1>2
<1> QED BY <1>2, <1>3, <1>4, <1>5 DEF DataInv

LEMMA SetKeeps ==
  ASSUME DataInv, NEW w \in {"rd", "wr"}, NEW set \in changes, Data!Set(w, set) PROVE DataInv'
<1>1. set \in Data!Settings /\ rd \in Ways /\ wr \in Ways
  BY DEF DataInv
<1>2. ASSUME NEW way \in Ways
      PROVE  [way EXCEPT !.set = set] \in Ways /\ [way EXCEPT !.set = set].endreached = way.endreached
  <2>1. PICK old \in Data!Settings, b \in Seq(Nat), e \in BOOLEAN :
          way = [set |-> old, buf |-> b, endreached |-> e]
    BY DEF Ways
  <2>2. [way EXCEPT !.set = set] = [set |-> set, buf |-> b, endreached |-> e]
    BY <2>1
  <2> QED BY <1>1, <2>1, <2>2 DEF Ways
<1>3. /\ rd' = IF w = "rd" THEN [rd EXCEPT !.set = set] ELSE rd
      /\ wr' = IF w = "wr" THEN [wr EXCEPT !.set = set] ELSE wr
      /\ got' = [err |-> "none", data |-> <<>>]
      /\ UNCHANGED <<wrsupported, source, writes, changes, writing, passed>>
  BY DEF Data!Set
<1>4. rd' \in Ways /\ wr' \in Ways /\ rd'.endreached = rd.endreached
  BY <1>1, <1>2, <1>3
<1>5. got' \in [err : Errors, data : Seq(Nat)]
  BY <1>3, NoneGot
<1> QED BY <1>3, <1>4, <1>5 DEF DataInv

LEMMA DataInitHolds == ASSUME Data!DataAssumption, Data!Init PROVE DataInv
<1>1. PICK s \in DataSetups :
        /\ rd = Data!Way(s.rdset) /\ wr = Data!Way(s.wrset) /\ wrsupported = TRUE
        /\ source = s.source /\ writes = s.writes /\ changes = s.changes
        /\ writing = FALSE
        /\ got = [err |-> "none", data |-> <<>>] /\ passed = <<>>
  BY DEF Data!Init
<1>2. /\ s.source \in Seq(Nat) /\ s.writes \in Seq(Seq(Nat)) /\ s.rdset \in Data!Settings
      /\ s.wrset \in Data!Settings /\ s.changes \subseteq Data!Settings
  BY DEF Data!DataAssumption
<1>3. ASSUME NEW set \in Data!Settings PROVE Data!Way(set) \in Ways /\ Data!Way(set).endreached = FALSE
  <2>1. PICK none : none = <<>>
    BY Zenon
  <2>2. none \in Seq(Nat)
    BY <2>1
  <2>3. Data!Way(set) = [set |-> set, buf |-> none, endreached |-> FALSE]
    BY <2>1, Zenon DEF Data!Way
  <2> QED BY <2>2, <2>3 DEF Ways
<1>4. rd \in Ways /\ wr \in Ways /\ ~rd.endreached
  BY <1>1, <1>2, <1>3
<1>5. got \in [err : Errors, data : Seq(Nat)] /\ Len(passed) \in {0, 1}
  BY <1>1, NoneGot, PassedIs, Zenon
<1> QED BY <1>1, <1>2, <1>4, <1>5 DEF DataInv

LEMMA DataNextKeeps ==
  ASSUME Data!DataAssumption, DataInv, [Data!Next]_(Data!datavars) PROVE DataInv'
<1>1. CASE UNCHANGED Data!datavars
  BY <1>1 DEF DataInv, Data!datavars
<1>2. CASE Data!Next
  BY <1>2, ReadStoredKeeps, ReadThroughKeeps, ReadMoreKeeps, UnreadKeeps, WriteThroughKeeps,
     WriteLineKeeps, WritePieceKeeps, EndKeeps, WriteBeginKeeps, WriteEndKeeps, SetKeeps DEF Data!Next
<1> QED BY <1>1, <1>2

LEMMA DataTypes == ASSUME DataInv PROVE Data!TypeOK
BY DEF DataInv, Data!TypeOK, Ways, Errors

(* The buffers of a data io keep their types, and their end comes only when
   nothing is left below. *)
THEOREM DataTyped == Data!Spec => []Data!TypeOK
<1>1. Data!Init => DataInv
  BY DataAssumed, DataInitHolds
<1>2. DataInv /\ [Data!Next]_(Data!datavars) => DataInv'
  BY DataAssumed, DataNextKeeps
<1>3. DataInv => Data!TypeOK
  BY DataTypes
<1> QED BY <1>1, <1>2, <1>3, PTL DEF Data!Spec

-----------------------------------------------------------------------------
(* A data io implements a stream: the parts of a stream. *)

LEMMA PartIsA ==
  ASSUME NEW b \in Seq(Nat), NEW n \in 0 .. Len(b)
  PROVE  /\ Data!First(b, n) \in Seq(Nat) /\ Len(Data!First(b, n)) = n
         /\ \A i \in 1 .. n : Data!First(b, n)[i] = b[i]
         /\ Data!Skip(b, n) \in Seq(Nat) /\ Len(Data!Skip(b, n)) = Len(b) - n
         /\ \A i \in 1 .. Len(b) - n : Data!Skip(b, n)[i] = b[n + i]
<1>1. /\ 1 \in Int /\ n \in Int /\ n + 1 \in Int /\ Len(b) \in Int
      /\ \A i \in 1 .. n : b[i] \in Nat
      /\ \A i \in n + 1 .. Len(b) : b[i] \in Nat
  OBVIOUS
<1>2. PICK u : u = SubSeq(b, 1, n)
  BY Zenon
<1>3. /\ u \in Seq(Nat) /\ Len(u) = (IF 1 <= n THEN n - 1 + 1 ELSE 0)
      /\ \A i \in 1 .. n - 1 + 1 : u[i] = b[1 + i - 1]
  BY <1>1, <1>2, SubSeqProperties
<1>4. Len(u) = n /\ \A i \in 1 .. n : u[i] = b[i]
  <2>1. n - 1 + 1 = n /\ (~(1 <= n) => n = 0) /\ \A i \in 1 .. n : 1 + i - 1 = i
    OBVIOUS
  <2> QED BY <1>3, <2>1
<1>5. PICK w : w = SubSeq(b, n + 1, Len(b))
  BY Zenon
<1>6. /\ w \in Seq(Nat) /\ Len(w) = (IF n + 1 <= Len(b) THEN Len(b) - (n + 1) + 1 ELSE 0)
      /\ \A i \in 1 .. Len(b) - (n + 1) + 1 : w[i] = b[n + 1 + i - 1]
  BY <1>1, <1>5, SubSeqProperties
<1>7. Len(w) = Len(b) - n /\ \A i \in 1 .. Len(b) - n : w[i] = b[n + i]
  <2>1. /\ Len(b) - (n + 1) + 1 = Len(b) - n /\ (~(n + 1 <= Len(b)) => Len(b) - n = 0)
        /\ \A i \in 1 .. Len(b) - n : n + 1 + i - 1 = n + i
    OBVIOUS
  <2> QED BY <1>6, <2>1
<1> QED BY <1>2, <1>3, <1>4, <1>5, <1>6, <1>7 DEF Data!First, Data!Skip

LEMMA StreamJoin ==
  ASSUME NEW u \in Seq(Nat), NEW w \in Seq(Nat)
  PROVE  /\ u \o w \in Seq(Nat) /\ Len(u \o w) = Len(u) + Len(w)
         /\ \A i \in 1 .. Len(u) : (u \o w)[i] = u[i]
         /\ \A i \in 1 .. Len(w) : (u \o w)[Len(u) + i] = w[i]
<1>1. u \in Seq(Int) /\ w \in Seq(Int)
  <2>1. /\ Len(u) \in Nat /\ u \in [1 .. Len(u) -> Nat]
        /\ Len(w) \in Nat /\ w \in [1 .. Len(w) -> Nat]
    BY LenProperties
  <2>2. u \in [1 .. Len(u) -> Int] /\ w \in [1 .. Len(w) -> Int]
    BY <2>1
  <2> QED BY <2>1, <2>2
<1>2. u \o w \in Seq(Nat)
  BY ConcatProperties
<1> QED BY <1>1, <1>2, JoinIs

(* The prefix of a stream that has arrived, and what follows it. *)
LEMMA ArrivedParts ==
  ASSUME NEW b \in Seq(Nat), NEW rest \in Seq(Nat), NEW n \in 0 .. Len(b)
  PROVE  /\ Data!Stream!Prefix(b \o rest, n) = Data!First(b, n)
         /\ Data!Stream!Without(b \o rest, n) = Data!Skip(b, n) \o rest
<1>1. PICK s : s = b \o rest
  BY Zenon
<1>2. /\ s \in Seq(Nat) /\ Len(s) = Len(b) + Len(rest) /\ n \in 0 .. Len(s)
      /\ Len(b) \in Nat /\ Len(rest) \in Nat
      /\ \A i \in 1 .. Len(b) : s[i] = b[i]
      /\ \A i \in 1 .. Len(rest) : s[Len(b) + i] = rest[i]
  BY <1>1, StreamJoin
<1>3. Data!First(s, n) = Data!First(b, n)
  <2>1. /\ Data!First(s, n) \in Seq(Nat) /\ Len(Data!First(s, n)) = n
        /\ \A i \in 1 .. n : Data!First(s, n)[i] = s[i]
    BY <1>2, PartIsA
  <2>2. /\ Data!First(b, n) \in Seq(Nat) /\ Len(Data!First(b, n)) = n
        /\ \A i \in 1 .. n : Data!First(b, n)[i] = b[i]
    BY PartIsA
  <2>3. \A i \in 1 .. n : s[i] = b[i]
    <3>1. \A i \in 1 .. n : i \in 1 .. Len(b)
      OBVIOUS
    <3> QED BY <1>2, <3>1
  <2> QED BY <2>1, <2>2, <2>3, SeqEqual
<1>4. Data!Skip(s, n) = Data!Skip(b, n) \o rest
  <2>1. PICK u : u = Data!Skip(b, n)
    BY Zenon
  <2>2. /\ u \in Seq(Nat) /\ Len(u) = Len(b) - n
        /\ \A i \in 1 .. Len(b) - n : u[i] = b[n + i]
    BY <2>1, PartIsA
  <2>3. PICK v : v = Data!Skip(s, n)
    BY Zenon
  <2>4. /\ v \in Seq(Nat) /\ Len(v) = Len(s) - n
        /\ \A i \in 1 .. Len(s) - n : v[i] = s[n + i]
    BY <1>2, <2>3, PartIsA
  <2>5. PICK x : x = u \o rest
    BY Zenon
  <2>6. /\ x \in Seq(Nat) /\ Len(x) = Len(u) + Len(rest)
        /\ \A i \in 1 .. Len(u) : x[i] = u[i]
        /\ \A i \in 1 .. Len(rest) : x[Len(u) + i] = rest[i]
    BY <2>2, <2>5, StreamJoin
  <2>7. Len(v) = Len(x)
    BY <1>2, <2>2, <2>4, <2>6
  <2>8. ASSUME NEW i \in 1 .. Len(v) PROVE v[i] = x[i]
    <3>1. CASE i <= Len(b) - n
      <4>1. i \in 1 .. Len(b) - n /\ n + i \in 1 .. Len(b) /\ i \in 1 .. Len(s) - n
            /\ i \in 1 .. Len(u)
        BY <1>2, <2>2, <2>4, <3>1
      <4> QED BY <1>2, <2>2, <2>4, <2>6, <4>1
    <3>2. CASE ~(i <= Len(b) - n)
      <4>1. PICK k : k = i - (Len(b) - n)
        BY Zenon
      <4>2. /\ k \in 1 .. Len(rest) /\ Len(u) + k = i /\ n + i = Len(b) + k
            /\ i \in 1 .. Len(s) - n
        BY <1>2, <2>2, <2>4, <3>2, <4>1
      <4>3. v[i] = s[Len(b) + k] /\ x[i] = rest[k]
        BY <2>4, <2>6, <4>2
      <4> QED BY <1>2, <4>2, <4>3
    <3> QED BY <3>1, <3>2
  <2>9. v = x
    BY <2>4, <2>6, <2>7, <2>8, SeqEqual
  <2> QED BY <2>1, <2>3, <2>5, <2>9
<1> QED BY <1>1, <1>3, <1>4 DEF Data!First, Data!Skip, Data!Stream!Prefix, Data!Stream!Without

(* What is cut in two is put together again. *)
LEMMA CutAndJoined ==
  ASSUME NEW b \in Seq(Nat), NEW n \in 0 .. Len(b)
  PROVE  Data!First(b, n) \o Data!Skip(b, n) = b
<1>1. PICK u, w : u = Data!First(b, n) /\ w = Data!Skip(b, n)
  BY Zenon
<1>2. /\ u \in Seq(Nat) /\ Len(u) = n /\ w \in Seq(Nat) /\ Len(w) = Len(b) - n
      /\ \A i \in 1 .. n : u[i] = b[i]
      /\ \A i \in 1 .. Len(b) - n : w[i] = b[n + i]
  BY <1>1, PartIsA
<1>3. PICK s : s = u \o w
  BY Zenon
<1>4. /\ s \in Seq(Nat) /\ Len(s) = Len(b)
      /\ \A i \in 1 .. Len(u) : s[i] = u[i]
      /\ \A i \in 1 .. Len(w) : s[Len(u) + i] = w[i]
  <2>1. /\ s \in Seq(Nat) /\ Len(s) = Len(u) + Len(w)
        /\ \A i \in 1 .. Len(u) : s[i] = u[i]
        /\ \A i \in 1 .. Len(w) : s[Len(u) + i] = w[i]
    BY <1>2, <1>3, StreamJoin
  <2>2. Len(u) + Len(w) = Len(b)
    <3>1. Len(b) \in Nat /\ n \in Nat
      OBVIOUS
    <3> QED BY <1>2, <3>1
  <2> QED BY <2>1, <2>2
<1>5. ASSUME NEW i \in 1 .. Len(s) PROVE s[i] = b[i]
  <2>1. CASE i <= n
    BY <1>2, <1>4, <2>1
  <2>2. CASE ~(i <= n)
    <3>1. PICK k : k = i - n
      BY Zenon
    <3>2. k \in 1 .. Len(w) /\ Len(u) + k = i /\ n + k = i /\ k \in 1 .. Len(b) - n
      BY <1>2, <1>4, <2>2, <3>1
    <3>3. s[i] = w[k] /\ w[k] = b[i]
      BY <1>2, <1>4, <3>2
    <3> QED BY <3>3
  <2> QED BY <2>1, <2>2
<1>6. s = b
  BY <1>4, <1>5, SeqEqual
<1> QED BY <1>1, <1>3, <1>6

(* The items of a stream. *)

LEMMA StreamMax ==
  ASSUME NEW T, NEW m \in T, T \subseteq Nat, \A y \in T : y <= m
  PROVE  Data!Stream!Max(T) = m
<1>1. \A y \in T : m >= y
  OBVIOUS
<1>2. ASSUME NEW x \in T, \A y \in T : x >= y PROVE x = m
  <2>1. x >= m /\ x <= m /\ x \in Nat /\ m \in Nat
    BY <1>2
  <2> QED BY <2>1
<1> QED BY <1>1, <1>2 DEF Data!Stream!Max

LEMMA StreamMin ==
  ASSUME NEW n \in Nat, NEW k \in Nat
  PROVE  Data!Stream!Min({n, k}) = IF n <= k THEN n ELSE k
<1>1. PICK m : m = IF n <= k THEN n ELSE k
  BY Zenon
<1>2. m \in {n, k} /\ \A y \in {n, k} : m <= y
  BY <1>1
<1>3. ASSUME NEW x \in {n, k}, \A y \in {n, k} : x <= y PROVE x = m
  BY <1>1, <1>3
<1>4. Data!Stream!Min({n, k}) = m
  BY <1>2, <1>3 DEF Data!Stream!Min
<1> QED BY <1>1, <1>4

\* The line of a stream, of which t bytes are text, and a run of CR ends at r.
LineEndsAt(s, t, r) ==
  /\ t \in 0 .. Len(s) /\ r \in t .. Len(s)
  /\ \A i \in 1 .. t : s[i] \notin {CR, LF}
  /\ \A i \in t + 1 .. r : s[i] = CR
  /\ t < Len(s) => s[t + 1] \in {CR, LF}
  /\ r < Len(s) => s[r + 1] # CR

LEMMA LinesOf ==
  ASSUME NEW s \in Seq(Nat), NEW t, NEW r, LineEndsAt(s, t, r),
         t > 0 \/ r < Len(s)
  PROVE  Data!Stream!Lines(s) =
           {[size |-> t, taken |-> IF r < Len(s) /\ s[r + 1] = LF THEN r + 1 ELSE r]}
<1>1. PICK n : n = Len(s)
  BY Zenon
<1>2. n \in Nat /\ t \in 0 .. n /\ r \in t .. n /\ t \in Nat /\ r \in Nat
  BY <1>1 DEF LineEndsAt
<1>3. Data!Stream!Text(s) = t
  <2>1. PICK T : T = {k \in 0 .. Len(s) : \A i \in 1 .. k : s[i] \notin {CR, LF}}
    BY Zenon
  <2>2. T \subseteq Nat /\ t \in T
    BY <1>1, <1>2, <2>1 DEF LineEndsAt
  <2>3. ASSUME NEW y \in T PROVE y <= t
    <3>1. y \in 0 .. n /\ \A i \in 1 .. y : s[i] \notin {CR, LF}
      BY <1>1, <2>1
    <3>2. ASSUME t < y PROVE FALSE
      <4>1. t < n /\ t + 1 \in 1 .. y
        BY <1>2, <3>1, <3>2
      <4> QED BY <1>1, <3>1, <4>1 DEF LineEndsAt
    <3> QED BY <1>2, <3>1, <3>2
  <2>4. Data!Stream!Max(T) = t
    BY <2>2, <2>3, StreamMax
  <2> QED BY <2>1, <2>4 DEF Data!Stream!Text
<1>4. Data!Stream!Run(s) = r
  <2>1. PICK T : T = {k \in t .. Len(s) : Data!Stream!Has({CR}, s, t + 1, k)}
    BY Zenon
  <2>2. \A k \in T : k \in t .. n /\ \A i \in t + 1 .. k : s[i] = CR
    BY <1>1, <2>1 DEF Data!Stream!Has
  <2>3. T \subseteq Nat /\ r \in T
    <3>1. T \subseteq Nat
      BY <1>2, <2>2
    <3>2. r \in t .. Len(s) /\ Data!Stream!Has({CR}, s, t + 1, r)
      BY <1>1, <1>2 DEF LineEndsAt, Data!Stream!Has
    <3> QED BY <2>1, <3>1, <3>2
  <2>4. ASSUME NEW y \in T PROVE y <= r
    <3>1. ASSUME r < y PROVE FALSE
      <4>1. r < n /\ r + 1 \in t + 1 .. y
        BY <1>2, <2>2, <3>1
      <4> QED BY <1>1, <2>2, <4>1 DEF LineEndsAt
    <3> QED BY <1>2, <2>2, <3>1
  <2>5. Data!Stream!Max(T) = r
    BY <2>3, <2>4, StreamMax
  <2> QED BY <1>3, <2>1, <2>5 DEF Data!Stream!Run
<1>5. ~Data!Stream!Has({CR}, s, 1, Len(s))
  <2>1. CASE t > 0
    <3>1. 1 \in 1 .. t /\ 1 \in 1 .. n
      BY <1>2, <2>1
    <3>2. s[1] # CR
      BY <3>1 DEF LineEndsAt
    <3> QED BY <1>1, <3>1, <3>2 DEF Data!Stream!Has
  <2>2. CASE r < Len(s)
    <3>1. r + 1 \in 1 .. Len(s) /\ s[r + 1] # CR
      BY <1>1, <1>2, <2>2 DEF LineEndsAt
    <3> QED BY <3>1 DEF Data!Stream!Has
  <2> QED BY <2>1, <2>2
<1> QED BY <1>3, <1>4, <1>5 DEF Data!Stream!Lines

LEMMA LargestOf ==
  ASSUME NEW T, NEW m \in T, T \subseteq Nat, \A y \in T : y <= m
  PROVE  Data!Max(T) = m
<1>1. \A y \in T : m >= y
  OBVIOUS
<1>2. ASSUME NEW x \in T, \A y \in T : x >= y PROVE x = m
  <2>1. x >= m /\ x <= m /\ x \in Nat /\ m \in Nat
    BY <1>2
  <2> QED BY <2>1
<1> QED BY <1>1, <1>2 DEF Data!Max

(* A line that the buffer holds is the one that the stream begins with,
   whatever follows. *)
LEMMA LineIs ==
  ASSUME CR # LF, NEW b \in Seq(Nat), NEW e \in BOOLEAN, NEW rest \in Seq(Nat),
         e => rest = <<>>, NEW c, c = Data!ContainLine(b, e), c.is = "yes"
  PROVE  /\ c.size \in 0 .. Len(b) /\ c.next \in 0 .. Len(b) /\ b # <<>>
         /\ Data!Stream!Lines(b \o rest) = {[size |-> c.size, taken |-> c.next]}
<1>1. PICK s, n : s = b \o rest /\ n = Len(b)
  BY Zenon
<1>2. /\ s \in Seq(Nat) /\ Len(s) = n + Len(rest) /\ n \in Nat /\ Len(rest) \in Nat
      /\ DOMAIN b = 1 .. n /\ \A i \in 1 .. n : s[i] = b[i]
  BY <1>1, StreamJoin
<1>3. CASE Data!Stops(b) # {}
  <2>1. PICK i, j : i = Data!Min(Data!Stops(b)) /\ j = Data!Min(Data!LineEnds(b))
    BY Zenon
  <2>2. /\ i \in 1 .. n /\ i \in Data!Stops(b) /\ \A k \in 1 .. n : k < i => k \notin Data!Stops(b)
    <3>1. Data!Stops(b) \subseteq 1 .. n /\ Data!Stops(b) \subseteq Nat
      BY <1>2 DEF Data!Stops
    <3>2. i \in Data!Stops(b) /\ \A y \in Data!Stops(b) : i <= y
      BY <1>3, <2>1, <3>1, LeastIs
    <3>3. \A k \in 1 .. n : k < i => ~(i <= k)
      BY <3>1, <3>2
    <3> QED BY <3>1, <3>2, <3>3
  <2>3. /\ b[i] = LF \/ (b[i] # CR /\ \E k \in 1 .. i - 1 : b[k] = CR)
        /\ \A k \in 1 .. n : k < i =>
             b[k] # LF /\ (b[k] # CR => \A l \in 1 .. k - 1 : b[l] # CR)
    BY <1>2, <2>2 DEF Data!Stops
  <2>4. \E k \in 1 .. i : b[k] \in {CR, LF}
    <3>1. CASE b[i] = LF
      BY <2>2, <3>1
    <3>2. CASE \E k \in 1 .. i - 1 : b[k] = CR
      <4>1. PICK k \in 1 .. i - 1 : b[k] = CR
        BY <3>2
      <4>2. k \in 1 .. i
        BY <2>2, <4>1
      <4> QED BY <4>1, <4>2
    <3> QED BY <2>3, <3>1, <3>2
  <2>5. /\ j \in 1 .. i /\ b[j] \in {CR, LF}
        /\ \A k \in 1 .. n : k < j => b[k] \notin {CR, LF}
    <3>1. Data!LineEnds(b) \subseteq 1 .. n /\ Data!LineEnds(b) \subseteq Nat
      BY <1>2 DEF Data!LineEnds
    <3>2. PICK k \in 1 .. i : b[k] \in {CR, LF}
      BY <2>4
    <3>3. k \in Data!LineEnds(b) /\ k <= i
      BY <1>2, <2>2, <3>2 DEF Data!LineEnds
    <3>4. j \in Data!LineEnds(b) /\ \A y \in Data!LineEnds(b) : j <= y
      BY <2>1, <3>1, <3>3, LeastIs
    <3>5. j \in 1 .. n /\ j <= i
      BY <2>2, <3>1, <3>2, <3>3, <3>4
    <3>6. b[j] \in {CR, LF}
      BY <3>4 DEF Data!LineEnds
    <3>7. ASSUME NEW l \in 1 .. n, l < j, b[l] \in {CR, LF} PROVE FALSE
      <4>1. l \in Data!LineEnds(b)
        BY <1>2, <3>7 DEF Data!LineEnds
      <4> QED BY <3>4, <3>5, <3>7, <4>1
    <3> QED BY <2>2, <3>5, <3>6, <3>7
  <2>16. i \in Nat /\ j \in Nat /\ 1 <= j /\ j <= i /\ i <= n
    BY <1>2, <2>2, <2>5
  <2>6. ASSUME NEW k \in j .. i - 1 PROVE b[k] = CR
    <3>1. k \in 1 .. n /\ j \in 1 .. n /\ k < i /\ j < i
      <4>1. k \in Int /\ j <= k /\ k <= i - 1
        BY <2>16
      <4> QED BY <1>2, <2>16, <4>1
    <3>2. b[k] # LF /\ b[j] = CR
      BY <2>3, <2>5, <3>1
    <3>3. CASE k = j
      BY <3>2, <3>3
    <3>4. CASE k # j
      <4>1. j \in 1 .. k - 1
        BY <2>5, <3>1, <3>4
      <4> QED BY <2>3, <3>1, <3>2, <4>1
    <3> QED BY <3>3, <3>4
  <2>7. PICK t, r : t = j - 1 /\ r = i - 1
    BY Zenon
  <2>8. t \in 0 .. Len(s) /\ r \in t .. Len(s) /\ r + 1 = i /\ t + 1 = j /\ r < Len(s)
        /\ t \in 0 .. n /\ r \in 0 .. n
    BY <1>2, <2>2, <2>5, <2>7
  <2>17. /\ t \in Nat /\ r \in Nat /\ i \in Nat /\ j \in Nat /\ n \in Nat
         /\ t = j - 1 /\ r = i - 1 /\ 1 <= j /\ j <= i /\ i <= n
    <3>1. n \in Nat
      BY <1>2
    <3> QED BY <2>7, <2>16, <3>1
  <2>9. LineEndsAt(s, t, r)
    <3>1. \A k \in 1 .. t : s[k] \notin {CR, LF}
      <4>1. \A k \in 1 .. t : k \in 1 .. n /\ k < j
        BY <2>17
      <4> QED BY <1>2, <2>5, <4>1
    <3>2. \A k \in t + 1 .. r : s[k] = CR
      <4>1. \A k \in t + 1 .. r : k \in 1 .. n /\ k \in j .. i - 1
        BY <2>17
      <4> QED BY <1>2, <2>6, <4>1
    <3>3. s[t + 1] \in {CR, LF}
      <4>1. j \in 1 .. n
        BY <1>2, <2>16
      <4> QED BY <1>2, <2>5, <2>8, <4>1
    <3>4. s[r + 1] # CR
      BY <1>2, <2>2, <2>3, <2>8
    <3> QED BY <2>8, <3>1, <3>2, <3>3, <3>4 DEF LineEndsAt
  <2>10. PICK next : next = IF b[i] = LF THEN i ELSE r
    BY Zenon
  <2>11. c = Data!Item(t, next)
    BY <1>3, <2>1, <2>7, <2>10, Zenon DEF Data!ContainLine
  <2>12. c.size = t /\ c.next = next
    BY <2>11 DEF Data!Item
  <2>13. Data!Stream!Lines(s) =
           {[size |-> t, taken |-> IF r < Len(s) /\ s[r + 1] = LF THEN r + 1 ELSE r]}
    BY <1>2, <2>8, <2>9, LinesOf
  <2>14. (IF r < Len(s) /\ s[r + 1] = LF THEN r + 1 ELSE r) = next
    BY <1>2, <2>2, <2>8, <2>10
  <2>15. next \in 0 .. n /\ t \in 0 .. n /\ b # <<>>
    BY <1>1, <1>2, <2>2, <2>8, <2>10
  <2> QED BY <1>1, <2>12, <2>13, <2>14, <2>15
<1>4. CASE Data!Stops(b) = {}
  <2>1. e /\ b # <<>>
    BY <1>4 DEF Data!ContainLine, Data!Nothing, Data!AtEnd
  <2>2. s = b /\ n >= 1 /\ Len(s) = n
    <3>1. rest = <<>>
      BY <2>1
    <3> QED BY <1>1, <1>2, <2>1, <3>1
  <2>3. PICK T : T = {1} \cup {i \in DOMAIN b : b[i] # CR}
    BY Zenon
  <2>4. PICK len : len = Data!Max(T)
    BY Zenon
  <2>5. c = Data!Item(len, n)
    BY <1>1, <1>4, <2>1, <2>3, <2>4, Zenon DEF Data!ContainLine
  <2>6. c.size = len /\ c.next = n
    BY <2>5 DEF Data!Item
  <2>7. \A k \in 1 .. n : b[k] # LF /\ (b[k] # CR => \A l \in 1 .. k - 1 : b[l] # CR)
    BY <1>2, <1>4 DEF Data!Stops
  <2>8. T \subseteq Nat /\ T \subseteq 1 .. n
    BY <1>2, <2>2, <2>3
  <2>9. CASE \A k \in 1 .. n : b[k] = CR
    <3>1. T = {1}
      BY <1>2, <2>3, <2>9
    <3>2. len = 1
      <4>1. 1 \in T /\ \A y \in T : y <= 1
        BY <3>1
      <4> QED BY <2>4, <2>8, <4>1, LargestOf
    <3>3. s # <<>> /\ Data!Stream!Has({CR}, s, 1, Len(s))
      BY <1>2, <2>1, <2>2, <2>9 DEF Data!Stream!Has
    <3>4. Data!Stream!Lines(s) = {[size |-> 1, taken |-> Len(s)]}
      BY <3>3, Zenon DEF Data!Stream!Lines
    <3>5. 1 \in 0 .. n /\ n \in 0 .. n
      BY <1>2, <2>2
    <3> QED BY <1>1, <2>1, <2>2, <2>6, <3>2, <3>4, <3>5
  <2>10. CASE ~(\A k \in 1 .. n : b[k] = CR)
    <3>1. PICK k \in 1 .. n : b[k] # CR
      BY <2>10
    <3>2. len \in T /\ \A y \in T : y <= len
      <4>1. PICK U : U = {m \in 0 .. n : n - m \in T}
        BY Zenon
      <4>2. PICK l : l = n - 1
        BY Zenon
      <4>3. l \in U /\ U \subseteq Nat
        <5>1. l \in 0 .. n /\ n - l = 1
          BY <1>2, <2>2, <4>2
        <5> QED BY <1>2, <2>3, <4>1, <5>1
      <4>4. PICK m \in U : \A y \in U : m <= y
        BY <4>3, LeastOf
      <4>5. PICK x : x = n - m
        BY Zenon
      <4>6. x \in T
        BY <4>1, <4>4, <4>5
      <4>7. ASSUME NEW y \in T PROVE y <= x
        <5>1. PICK z : z = n - y
          BY Zenon
        <5>2. z \in 0 .. n /\ n - z = y
          BY <1>2, <2>8, <5>1
        <5>3. z \in U
          BY <4>1, <5>2
        <5>4. m <= z /\ m \in 0 .. n
          BY <4>1, <4>4, <5>3
        <5> QED BY <1>2, <4>5, <5>1, <5>2, <5>4
      <4> QED BY <2>4, <2>8, <4>6, <4>7, LargestOf
    <3>3. len \in 1 .. n /\ b[len] # CR
      <4>1. k \in T
        BY <1>2, <2>3, <3>1
      <4>2. ASSUME b[len] = CR PROVE FALSE
        <5>1. len = 1
          BY <2>3, <3>2, <4>2
        <5>2. k = 1
          BY <3>1, <3>2, <4>1, <5>1
        <5> QED BY <3>1, <4>2, <5>1, <5>2
      <4> QED BY <2>8, <3>2, <4>2
    <3>4. LineEndsAt(s, len, n)
      <4>1. \A i \in 1 .. len : s[i] \notin {CR, LF}
        <5>1. ASSUME NEW i \in 1 .. len PROVE b[i] # CR /\ b[i] # LF
          <6>1. i \in 1 .. n /\ (i = len \/ i \in 1 .. len - 1)
            BY <1>2, <3>3
          <6> QED BY <2>7, <3>3, <6>1
        <5> QED BY <2>2, <5>1
      <4>2. \A i \in len + 1 .. n : s[i] = CR
        <5>1. ASSUME NEW i \in len + 1 .. n, b[i] # CR PROVE FALSE
          <6>1. i \in 1 .. n /\ ~(i <= len)
            BY <1>2, <3>3
          <6>2. i \in T
            BY <1>2, <2>3, <5>1, <6>1
          <6> QED BY <3>2, <6>1, <6>2
        <5> QED BY <2>2, <5>1
      <4>3. len < n => s[len + 1] \in {CR, LF}
        <5>1. len < n => len + 1 \in len + 1 .. n
          BY <1>2, <3>3
        <5> QED BY <4>2, <5>1
      <4>4. len \in 0 .. Len(s) /\ n \in len .. Len(s) /\ ~(n < Len(s))
        BY <1>2, <2>2, <3>3
      <4> QED BY <2>2, <4>1, <4>2, <4>3, <4>4 DEF LineEndsAt
    <3>5. Data!Stream!Lines(s) =
            {[size |-> len, taken |-> IF n < Len(s) /\ s[n + 1] = LF THEN n + 1 ELSE n]}
      <4>1. len > 0
        BY <3>3
      <4> QED BY <1>2, <3>4, <4>1, LinesOf
    <3>6. ~(n < Len(s)) /\ len \in 0 .. n /\ n \in 0 .. n
      BY <1>2, <2>2, <3>3
    <3>7. Data!Stream!Lines(s) = {[size |-> len, taken |-> n]}
      BY <3>5, <3>6
    <3> QED BY <1>1, <2>1, <2>6, <3>6, <3>7
  <2> QED BY <2>9, <2>10
<1> QED BY <1>3, <1>4

LEMMA BlockIs ==
  ASSUME NEW b \in Seq(Nat), NEW e \in BOOLEAN, NEW enough \in Nat \ {0}, NEW len \in Nat,
         Len(b) >= enough => len \in 1 .. Len(b),
         NEW c, c = Data!ContainBlock(b, e, enough, len)
  PROVE  /\ c.is = "yes" =>
              /\ c.next = c.size /\ c.size \in 1 .. Len(b)
              /\ \/ Len(b) >= enough /\ c.size = len
                 \/ e /\ Len(b) < enough /\ c.size = Len(b)
         /\ c.is = "DATAEND" => e /\ b = <<>>
         /\ c.is = "no" => Len(b) < enough
<1>1. PICK n : n = Len(b)
  BY Zenon
<1>2. n \in Nat /\ (b = <<>> <=> n = 0)
  BY <1>1
<1>3. CASE n >= enough
  <2>1. c = Data!Item(len, len)
    BY <1>1, <1>3 DEF Data!ContainBlock
  <2> QED BY <1>1, <1>3, <2>1 DEF Data!Item
<1>4. CASE ~(n >= enough)
  <2>1. n < enough
    BY <1>2, <1>4
  <2>2. CASE ~e
    BY <1>1, <1>4, <2>1, <2>2 DEF Data!ContainBlock, Data!Nothing
  <2>3. CASE e /\ b = <<>>
    BY <1>1, <1>4, <2>3 DEF Data!ContainBlock, Data!AtEnd
  <2>4. CASE e /\ b # <<>>
    <3>1. c = Data!Item(n, n)
      BY <1>1, <1>4, <2>4 DEF Data!ContainBlock
    <3>2. n \in 1 .. n
      BY <1>2, <2>4
    <3>3. c.is = "yes" /\ c.size = n /\ c.next = n
      BY <3>1 DEF Data!Item
    <3> QED BY <1>1, <2>1, <2>4, <3>2, <3>3
  <2> QED BY <2>2, <2>3, <2>4
<1> QED BY <1>3, <1>4

(* What the setting says of a block that was not cut short by the end. *)
Fits(set, n) ==
  /\ set.type = "CHUNK" => n >= set.minsize /\ (set.maxsize # 0 => n <= set.maxsize)
  /\ set.type = "FIXED" => n = set.fixedsize

LEMMA BlocksAre ==
  ASSUME NEW s \in Seq(Nat), NEW set \in Data!Settings, NEW n \in 1 .. Len(s),
         set.type # "LINE", Fits(set, n)
  PROVE  n \in Data!Stream!Blocks(s, set)
<1>1. /\ set.minsize \in Nat /\ set.maxsize \in Nat /\ set.fixedsize \in Nat
      /\ set.type \in {"LINE", "CHUNK", "FIXED", "TRANSPARENT"}
  BY DEF Data!Settings
<1>2. CASE set.type = "CHUNK"
  BY <1>1, <1>2 DEF Data!Stream!Blocks, Fits
<1>3. CASE set.type = "FIXED"
  <2>1. Len(s) \in Nat /\ n \in Nat /\ n = set.fixedsize /\ n <= Len(s)
    BY <1>3 DEF Fits
  <2>2. Data!Stream!Min({Len(s), set.fixedsize}) = n
    BY <1>1, <2>1, StreamMin
  <2> QED BY <1>3, <2>2 DEF Data!Stream!Blocks
<1>4. CASE set.type = "TRANSPARENT"
  BY <1>1, <1>4 DEF Data!Stream!Blocks
<1> QED BY <1>1, <1>2, <1>3, <1>4

(* The last block, which may be short. *)
LEMMA LastBlockIs ==
  ASSUME NEW s \in Seq(Nat), NEW set \in Data!Settings, s # <<>>, set.type # "LINE",
         \/ set.type = "CHUNK" /\ Len(s) < set.minsize
         \/ set.type = "FIXED" /\ Len(s) < set.fixedsize
  PROVE  Len(s) \in Data!Stream!Blocks(s, set)
<1>1. /\ set.minsize \in Nat /\ set.maxsize \in Nat /\ set.fixedsize \in Nat
      /\ set.maxsize = 0 \/ set.minsize <= set.maxsize
  BY DEF Data!Settings
<1>2. Len(s) \in Nat /\ Len(s) \in 1 .. Len(s)
  OBVIOUS
<1>3. CASE set.type = "CHUNK" /\ Len(s) < set.minsize
  BY <1>1, <1>2, <1>3 DEF Data!Stream!Blocks
<1>4. CASE set.type = "FIXED" /\ Len(s) < set.fixedsize
  <2>1. Data!Stream!Min({Len(s), set.fixedsize}) = Len(s)
    BY <1>1, <1>2, <1>4, StreamMin
  <2> QED BY <1>4, <2>1 DEF Data!Stream!Blocks
<1> QED BY <1>3, <1>4

(* An item that a buffer holds is an item of the stream that begins with it. *)
LEMMA ContainIs ==
  ASSUME CR # LF, NEW way \in Ways, NEW rest \in Seq(Nat), way.endreached => rest = <<>>,
         NEW c, c = Data!Contain(way)
  PROVE  /\ c.is = "yes" =>
              /\ c.size \in 0 .. Len(way.buf) /\ c.next \in 0 .. Len(way.buf)
              /\ way.buf # <<>>
              /\ [size |-> c.size, taken |-> c.next]
                   \in Data!Stream!Items(way.buf \o rest, way.set)
              /\ way.set.type # "LINE" =>
                   /\ c.next = c.size /\ c.size \in 1 .. Len(way.buf)
                   /\ c.size \in Data!Stream!Blocks(way.buf \o rest, way.set)
                   /\ way.endreached \/ Fits(way.set, c.size)
         /\ c.is = "DATAEND" => way.buf = <<>> /\ way.endreached
         /\ c.is = "no" /\ way.set.type = "TRANSPARENT" => way.buf = <<>>
<1>1. PICK b, n, e, set : b = way.buf /\ n = Len(b) /\ e = way.endreached /\ set = way.set
  BY Zenon
<1>2. b \in Seq(Nat) /\ n \in Nat /\ e \in BOOLEAN /\ set \in Data!Settings
  BY <1>1 DEF Ways
<1>3. /\ set.minsize \in Nat \ {0} /\ set.maxsize \in Nat /\ set.fixedsize \in Nat \ {0}
      /\ set.type \in {"LINE", "CHUNK", "FIXED", "TRANSPARENT"}
      /\ set.maxsize = 0 \/ set.minsize <= set.maxsize
  BY <1>2 DEF Data!Settings
<1>4. PICK s : s = b \o rest
  BY Zenon
<1>5. s \in Seq(Nat) /\ Len(s) = n + Len(rest) /\ Len(rest) \in Nat
      /\ (e => s = b) /\ 1 .. n \subseteq 1 .. Len(s)
  <2>1. s \in Seq(Nat) /\ Len(s) = n + Len(rest) /\ Len(rest) \in Nat
    BY <1>1, <1>2, <1>4, StreamJoin
  <2>2. e => rest = <<>>
    BY <1>1
  <2>3. e => s = b
    BY <1>2, <1>4, <2>2, ConcatEmptySeq
  <2> QED BY <1>2, <2>1, <2>3
<1>6. CASE set.type = "LINE"
  <2>1. c = Data!ContainLine(b, e)
    BY <1>1, <1>6 DEF Data!Contain
  <2>2. ASSUME c.is = "yes"
        PROVE  /\ c.size \in 0 .. Len(b) /\ c.next \in 0 .. Len(b) /\ b # <<>>
               /\ [size |-> c.size, taken |-> c.next] \in Data!Stream!Items(s, set)
    <3>1. /\ c.size \in 0 .. Len(b) /\ c.next \in 0 .. Len(b) /\ b # <<>>
          /\ Data!Stream!Lines(b \o rest) = {[size |-> c.size, taken |-> c.next]}
      BY <1>1, <1>2, <2>1, <2>2, LineIs
    <3> QED BY <1>4, <1>6, <3>1 DEF Data!Stream!Items
  <2>3. c.is = "DATAEND" => b = <<>> /\ e
    BY <2>1 DEF Data!ContainLine, Data!Item, Data!Nothing, Data!AtEnd
  <2> QED BY <1>1, <1>4, <1>6, <2>2, <2>3
<1>7. ASSUME set.type # "LINE"
      PROVE  /\ c.is = "yes" =>
                  /\ c.next = c.size /\ c.size \in 1 .. n
                  /\ \/ Fits(set, c.size)
                     \/ /\ e /\ c.size = n
                        /\ \/ set.type = "CHUNK" /\ n < set.minsize
                           \/ set.type = "FIXED" /\ n < set.fixedsize
             /\ c.is = "DATAEND" => b = <<>> /\ e
             /\ c.is = "no" /\ set.type = "TRANSPARENT" => b = <<>>
  <2>1. CASE set.type = "CHUNK"
    <3>1. PICK len : len = IF set.maxsize = 0 THEN n ELSE Data!Min({n, set.maxsize})
      BY Zenon
    <3>2. c = Data!ContainBlock(b, e, set.minsize, len)
      BY <1>1, <2>1, <3>1 DEF Data!Contain
    <3>3. Data!Min({n, set.maxsize}) \in {n, set.maxsize} /\ Data!Min({n, set.maxsize}) <= n
          /\ Data!Min({n, set.maxsize}) <= set.maxsize
      <4>1. PICK T : T = {n, set.maxsize}
        BY Zenon
      <4>2. T \subseteq Nat /\ T # {} /\ n \in T /\ set.maxsize \in T
        BY <1>2, <1>3, <4>1
      <4>3. Data!Min(T) \in T /\ Data!Min(T) <= n /\ Data!Min(T) <= set.maxsize
        BY <4>2, LeastIs
      <4> QED BY <4>1, <4>3
    <3>4. /\ len \in Nat /\ len <= n /\ (set.maxsize # 0 => len <= set.maxsize)
          /\ n >= set.minsize => len >= set.minsize
      BY <1>2, <1>3, <3>1, <3>3
    <3>5. n >= set.minsize => len \in 1 .. n
      BY <1>2, <1>3, <3>4
    <3>6. /\ c.is = "yes" =>
                /\ c.next = c.size /\ c.size \in 1 .. n
                /\ \/ n >= set.minsize /\ c.size = len
                   \/ e /\ n < set.minsize /\ c.size = n
          /\ c.is = "DATAEND" => e /\ b = <<>>
      <4>1. PICK enough : enough = set.minsize
        BY Zenon
      <4>2. /\ enough \in Nat \ {0} /\ len \in Nat /\ (n >= enough => len \in 1 .. n)
            /\ c = Data!ContainBlock(b, e, enough, len)
        BY <1>3, <3>2, <3>4, <3>5, <4>1
      <4>3. /\ c.is = "yes" =>
                  /\ c.next = c.size /\ c.size \in 1 .. n
                  /\ \/ n >= enough /\ c.size = len
                     \/ e /\ n < enough /\ c.size = n
            /\ c.is = "DATAEND" => e /\ b = <<>>
        BY <1>1, <1>2, <4>2, BlockIs
      <4> QED BY <4>1, <4>3
    <3>7. n >= set.minsize => Fits(set, len)
      BY <2>1, <3>4 DEF Fits
    <3> QED BY <2>1, <3>6, <3>7
  <2>2. CASE set.type = "FIXED"
    <3>1. c = Data!ContainBlock(b, e, set.fixedsize, set.fixedsize)
      BY <1>1, <2>2 DEF Data!Contain
    <3>2. n >= set.fixedsize => set.fixedsize \in 1 .. n
      BY <1>2, <1>3
    <3>3. /\ c.is = "yes" =>
                /\ c.next = c.size /\ c.size \in 1 .. n
                /\ \/ n >= set.fixedsize /\ c.size = set.fixedsize
                   \/ e /\ n < set.fixedsize /\ c.size = n
          /\ c.is = "DATAEND" => e /\ b = <<>>
      BY <1>1, <1>2, <1>3, <3>1, <3>2, BlockIs
    <3>4. Fits(set, set.fixedsize)
      BY <2>2 DEF Fits
    <3> QED BY <2>2, <3>3, <3>4
  <2>3. CASE set.type = "TRANSPARENT"
    <3>1. PICK one : one = 1
      BY Zenon
    <3>2. c = Data!ContainBlock(b, e, one, n)
      BY <1>1, <2>3, <3>1 DEF Data!Contain
    <3>3. one \in Nat \ {0} /\ (n >= one => n \in 1 .. n)
      BY <1>2, <3>1
    <3>4. /\ c.is = "yes" =>
                /\ c.next = c.size /\ c.size \in 1 .. n
                /\ \/ n >= one /\ c.size = n
                   \/ e /\ n < one /\ c.size = n
          /\ c.is = "DATAEND" => e /\ b = <<>>
          /\ c.is = "no" => n < one
      BY <1>1, <1>2, <3>2, <3>3, BlockIs
    <3>5. Fits(set, n)
      BY <2>3 DEF Fits
    <3>6. n < one => b = <<>>
      BY <1>1, <1>2, <3>1
    <3> QED BY <2>3, <3>4, <3>5, <3>6
  <2> QED BY <1>3, <1>7, <2>1, <2>2, <2>3
<1>8. ASSUME set.type # "LINE", c.is = "yes"
      PROVE  /\ c.size \in 0 .. n /\ c.next \in 0 .. n /\ b # <<>>
             /\ [size |-> c.size, taken |-> c.next] \in Data!Stream!Items(s, set)
             /\ c.next = c.size /\ c.size \in 1 .. n
             /\ c.size \in Data!Stream!Blocks(s, set)
             /\ e \/ Fits(set, c.size)
  <2>1. c.next = c.size /\ c.size \in 1 .. n /\ c.size \in 0 .. n /\ b # <<>>
    <3>1. c.next = c.size /\ c.size \in 1 .. n
      BY <1>7, <1>8
    <3>2. c.size \in 0 .. n /\ n # 0
      BY <1>2, <3>1
    <3> QED BY <1>1, <3>1, <3>2
  <2>2. c.size \in Data!Stream!Blocks(s, set) /\ (e \/ Fits(set, c.size))
    <3>1. CASE Fits(set, c.size)
      <4>1. c.size \in 1 .. Len(s)
        BY <1>5, <2>1
      <4> QED BY <1>2, <1>5, <1>8, <3>1, <4>1, BlocksAre
    <3>2. CASE /\ e /\ c.size = n
               /\ \/ set.type = "CHUNK" /\ n < set.minsize
                  \/ set.type = "FIXED" /\ n < set.fixedsize
      <4>1. s = b
        BY <1>5, <3>2
      <4> QED BY <1>1, <1>2, <1>8, <2>1, <3>2, <4>1, LastBlockIs
    <3> QED BY <1>7, <1>8, <3>1, <3>2
  <2>3. [size |-> c.size, taken |-> c.next] \in Data!Stream!Items(s, set)
    BY <1>8, <2>1, <2>2 DEF Data!Stream!Items
  <2> QED BY <2>1, <2>2, <2>3
<1>9. CASE set.type # "LINE"
  BY <1>1, <1>4, <1>7, <1>8, <1>9
<1> QED BY <1>6, <1>9

-----------------------------------------------------------------------------
(* Each step of a data io is one of the stream, or none. *)

(* What the steps need besides the types: a write that is in its loop is not
   one of lines, and the way is not at its end; what was read, with what is
   still to be read, is a stream that begins with that item. *)
StreamInv ==
  /\ DataInv
  /\ writing => wr.set.type # "LINE" /\ wrsupported
  /\ wr.endreached => ~wrsupported
  /\ got.err = "OK" /\ rd.set.type # "LINE" =>
       Len(got.data) \in Data!Stream!Blocks(got.data \o (rd.buf \o source), rd.set)

WritingInv ==
  /\ writing => wr.set.type # "LINE" /\ wrsupported
  /\ wr.endreached => ~wrsupported
GotInv ==
  got.err = "OK" /\ rd.set.type # "LINE" =>
    Len(got.data) \in Data!Stream!Blocks(got.data \o (rd.buf \o source), rd.set)

LEMMA StreamInvIs == StreamInv <=> DataInv /\ WritingInv /\ GotInv
BY DEF StreamInv, WritingInv, GotInv

LEMMA WayParts ==
  ASSUME NEW way \in Ways, NEW b \in Seq(Nat)
  PROVE  LET w == [way EXCEPT !.buf = b]
         IN  w.buf = b /\ w.set = way.set /\ w.endreached = way.endreached
<1>1. PICK set \in Data!Settings, old \in Seq(Nat), e \in BOOLEAN :
        way = [set |-> set, buf |-> old, endreached |-> e]
  BY DEF Ways
<1>2. [way EXCEPT !.buf = b] = [set |-> set, buf |-> b, endreached |-> e]
  BY <1>1
<1> QED BY <1>1, <1>2

LEMMA StreamRead ==
  ASSUME NEW s, s = rd.buf \o source, NEW u, u = (rd.buf \o source)',
         rd'.set = rd.set, UNCHANGED <<wr, writes, passed>>,
         \/ \E item \in Data!Stream!Items(s, rd.set) :
              /\ s # <<>>
              /\ got' = [err |-> "OK", data |-> Data!Stream!Prefix(s, item.size)]
              /\ u = Data!Stream!Without(s, item.taken)
         \/ s = <<>> /\ got' = [err |-> "DATAEND", data |-> <<>>] /\ u = s
         \/ \E err \in {"DATANOTAVAIL", "ERROR"} : got' = [err |-> err, data |-> <<>>] /\ u = s
  PROVE  Data!Stream!Read
<1>1. UNCHANGED <<wr.buf, writes, rd.set, wr.set, passed>>
  OBVIOUS
<1>2. CASE \E item \in Data!Stream!Items(s, rd.set) :
             /\ s # <<>>
             /\ got' = [err |-> "OK", data |-> Data!Stream!Prefix(s, item.size)]
             /\ u = Data!Stream!Without(s, item.taken)
  BY <1>1, <1>2, Zenon DEF Data!Stream!Read
<1>3. CASE s = <<>> /\ got' = [err |-> "DATAEND", data |-> <<>>] /\ u = s
  BY <1>1, <1>3, Zenon DEF Data!Stream!Read
<1>4. CASE \E err \in {"DATANOTAVAIL", "ERROR"} : got' = [err |-> err, data |-> <<>>] /\ u = s
  BY <1>1, <1>4, Zenon DEF Data!Stream!Read
<1> QED BY <1>2, <1>3, <1>4

(* A read that gives an item of its buffer, once more bytes have arrived or
   not. *)
LEMMA ItemIsRead ==
  ASSUME CR # LF, NEW way \in Ways, NEW left \in Seq(Nat), left = source',
         way.endreached => left = <<>>, Data!Contain(way).is = "yes", Data!GiveItem(way),
         way.buf \o left = rd.buf \o source, way.set = rd.set
  PROVE  Data!Stream!Read /\ GotInv'
<1>1. PICK b, s, c, set : b = way.buf /\ s = b \o left /\ c = Data!Contain(way) /\ set = way.set
  BY Zenon
<1>2. b \in Seq(Nat) /\ s \in Seq(Nat) /\ s = rd.buf \o source /\ set \in Data!Settings
  BY <1>1, StreamJoin DEF Ways
<1>3. /\ c.size \in 0 .. Len(b) /\ c.next \in 0 .. Len(b) /\ b # <<>>
      /\ [size |-> c.size, taken |-> c.next] \in Data!Stream!Items(s, set)
      /\ set.type # "LINE" =>
           /\ c.next = c.size /\ c.size \in 1 .. Len(b)
           /\ c.size \in Data!Stream!Blocks(s, set)
  BY <1>1, ContainIs
<1>4. PICK data, rest : data = Data!First(b, c.size) /\ rest = Data!Skip(b, c.next)
  BY Zenon
<1>5. data \in Seq(Nat) /\ Len(data) = c.size /\ rest \in Seq(Nat)
  BY <1>2, <1>3, <1>4, PartIsA
<1>6. /\ rd' = [way EXCEPT !.buf = rest] /\ got' = [err |-> "OK", data |-> data]
      /\ UNCHANGED <<wr, writes, passed>>
  BY <1>1, <1>4, Zenon DEF Data!GiveItem, Data!Give
<1>7. rd'.set = set /\ rd'.buf = rest
  BY <1>1, <1>5, <1>6, WayParts
<1>8. PICK u : u = (rd.buf \o source)'
  BY Zenon
<1>9. u = rest \o left
  BY <1>7, <1>8
<1>10. /\ Data!Stream!Prefix(s, c.size) = data
       /\ Data!Stream!Without(s, c.next) = u
  <2>1. ASSUME NEW n \in 0 .. Len(b)
        PROVE  /\ Data!Stream!Prefix(s, n) = Data!First(b, n)
               /\ Data!Stream!Without(s, n) = Data!Skip(b, n) \o left
    <3>1. left \in Seq(Nat)
      OBVIOUS
    <3>2. /\ Data!Stream!Prefix(b \o left, n) = Data!First(b, n)
          /\ Data!Stream!Without(b \o left, n) = Data!Skip(b, n) \o left
      BY <1>2, <3>1, ArrivedParts
    <3> QED BY <1>1, <3>2, Zenon
  <2> QED BY <1>3, <1>4, <1>9, <2>1
<1>11. s # <<>>
  <2>1. Len(s) = Len(b) + Len(left) /\ Len(left) \in Nat /\ Len(b) > 0
    BY <1>1, <1>2, <1>3, StreamJoin
  <2> QED BY <1>2, <2>1
<1>12. Data!Stream!Read
  <2>1. PICK item : item = [size |-> c.size, taken |-> c.next]
    BY Zenon
  <2>2. item.size = c.size /\ item.taken = c.next /\ item \in Data!Stream!Items(s, rd.set)
    BY <1>1, <1>3, <2>1
  <2>3. rd'.set = rd.set
    BY <1>1, <1>7
  <2>4. \E it \in Data!Stream!Items(s, rd.set) :
          /\ s # <<>>
          /\ got' = [err |-> "OK", data |-> Data!Stream!Prefix(s, it.size)]
          /\ u = Data!Stream!Without(s, it.taken)
    BY <1>6, <1>10, <1>11, <2>2, Zenon
  <2> QED BY <1>2, <1>6, <1>8, <2>3, <2>4, StreamRead
<1>13. GotInv'
  <2>1. ASSUME set.type # "LINE" PROVE data \o u = s
    <3>1. c.next = c.size
      BY <1>3, <2>1
    <3>2. data \o rest = b
      BY <1>2, <1>3, <1>4, <3>1, CutAndJoined
    <3>3. (data \o rest) \o left = data \o (rest \o left)
      <4>1. left \in Seq(Nat)
        OBVIOUS
      <4> QED BY <1>5, <4>1, ConcatAssociative, SMTT(30)
    <3> QED BY <1>1, <1>9, <3>2, <3>3
  <2>2. set.type # "LINE" => Len(data) \in Data!Stream!Blocks(data \o u, set)
    BY <1>3, <1>5, <2>1
  <2>3. got'.data = data
    BY <1>6
  <2> QED BY <1>7, <1>8, <2>2, <2>3 DEF GotInv
<1> QED BY <1>12, <1>13

(* A read that gives no item. *)
LEMMA NothingIsRead ==
  ASSUME NEW s, s = rd.buf \o source, s = (rd.buf \o source)',
         rd'.set = rd.set, UNCHANGED <<wr, writes, passed>>,
         NEW err, got' = [err |-> err, data |-> <<>>],
         err \in {"DATANOTAVAIL", "ERROR"} \/ (err = "DATAEND" /\ s = <<>>)
  PROVE  Data!Stream!Read /\ GotInv'
<1>1. Data!Stream!Read
  <2>1. CASE err \in {"DATANOTAVAIL", "ERROR"}
    <3>1. \E x \in {"DATANOTAVAIL", "ERROR"} : got' = [err |-> x, data |-> <<>>] /\ s = s
      BY <2>1
    <3> QED BY <3>1, StreamRead
  <2>2. CASE err = "DATAEND" /\ s = <<>>
    BY <2>2, StreamRead
  <2> QED BY <2>1, <2>2
<1>2. got'.err # "OK"
  OBVIOUS
<1> QED BY <1>1, <1>2 DEF GotInv

LEMMA ContainAnswers ==
  ASSUME NEW way \in Ways
  PROVE  Data!Contain(way).is \in {"yes", "no", "DATAEND"}
<1>1. ASSUME NEW b, NEW e PROVE Data!ContainLine(b, e).is \in {"yes", "no", "DATAEND"}
  BY DEF Data!ContainLine, Data!Item, Data!Nothing, Data!AtEnd
<1>2. ASSUME NEW b, NEW e, NEW n, NEW len
      PROVE  Data!ContainBlock(b, e, n, len).is \in {"yes", "no", "DATAEND"}
  BY DEF Data!ContainBlock, Data!Item, Data!Nothing, Data!AtEnd
<1>3. way.set.type \in {"LINE", "CHUNK", "FIXED", "TRANSPARENT"}
  BY DEF Ways, Data!Settings
<1> QED BY <1>1, <1>2, <1>3 DEF Data!Contain

LEMMA StoredIsRead ==
  ASSUME Data!DataAssumption, StreamInv, Data!ReadStored
  PROVE  Data!Stream!Read /\ GotInv'
<1>1. /\ rd \in Ways /\ rd.buf \in Seq(Nat) /\ source \in Seq(Nat) /\ source' = source
      /\ rd.endreached => source = <<>>
      /\ CR # LF
  BY DEF StreamInv, DataInv, Ways, Data!DataAssumption, Data!ReadStored
<1>2. CASE Data!Contain(rd).is = "yes"
  <2>1. Data!GiveItem(rd)
    BY <1>2 DEF Data!ReadStored
  <2> QED BY <1>1, <1>2, <2>1, ItemIsRead
<1>3. CASE Data!Contain(rd).is # "yes"
  <2>1. Data!Give(rd, "DATAEND", <<>>) /\ Data!Contain(rd).is # "no"
    BY <1>3 DEF Data!ReadStored
  <2>2. Data!Contain(rd).is = "DATAEND"
    BY <1>1, <1>3, <2>1, ContainAnswers
  <2>3. rd.buf = <<>> /\ source = <<>>
    BY <1>1, <2>2, ContainIs
  <2>4. rd.buf \o source = <<>>
    BY <2>3
  <2>5. rd' = rd /\ got' = [err |-> "DATAEND", data |-> <<>>] /\ UNCHANGED <<wr, writes, passed>>
    BY <2>1 DEF Data!Give
  <2>6. PICK s, err : s = rd.buf \o source /\ err = "DATAEND"
    BY Zenon
  <2>7. s = (rd.buf \o source)' /\ rd'.set = rd.set
    BY <1>1, <2>5, <2>6
  <2> QED BY <2>4, <2>5, <2>6, <2>7, NothingIsRead
<1> QED BY <1>2, <1>3

(* What arrives moves from below to the buffer: the stream is the same. *)
LEMMA BelowParts ==
  ASSUME DataInv, NEW a \in Data!Below
  PROVE  /\ a.n \in 0 .. Len(source)
         /\ a.err = "OK" => a.n \in 1 .. Len(source)
         /\ a.err # "OK" => a.n = 0 /\ a.err \in {"DATANOTAVAIL", "ERROR", "DATAEND"}
         /\ a.err = "DATAEND" => source = <<>>
         /\ Data!First(source, a.n) \in Seq(Nat) /\ Data!Skip(source, a.n) \in Seq(Nat)
         /\ Data!First(source, a.n) \o Data!Skip(source, a.n) = source
         /\ a.n = 0 => Data!First(source, a.n) = <<>> /\ Data!Skip(source, a.n) = source
<1>1. source \in Seq(Nat) /\ Len(source) \in Nat
  BY DEF DataInv
<1>2. /\ a.n \in 0 .. Len(source)
      /\ a.err = "OK" => a.n \in 1 .. Len(source)
      /\ a.err # "OK" => a.n = 0 /\ a.err \in {"DATANOTAVAIL", "ERROR", "DATAEND"}
      /\ a.err = "DATAEND" => source = <<>>
  BY <1>1 DEF Data!Below
<1>3. /\ Data!First(source, a.n) \in Seq(Nat) /\ Data!Skip(source, a.n) \in Seq(Nat)
      /\ Data!First(source, a.n) \o Data!Skip(source, a.n) = source
  BY <1>1, <1>2, PartIsA, CutAndJoined
<1>4. ASSUME a.n = 0 PROVE Data!First(source, a.n) = <<>> /\ Data!Skip(source, a.n) = source
  <2>1. SubSeq(source, 1, 0) = <<>>
    BY SubSeqEmpty
  <2>2. SubSeq(source, 1, Len(source)) = source
    BY <1>1, SubSeqFull
  <2>3. a.n + 1 = 1
    BY <1>4
  <2> QED BY <1>4, <2>1, <2>2, <2>3 DEF Data!First, Data!Skip
<1> QED BY <1>2, <1>3, <1>4

LEMMA ThroughIsRead ==
  ASSUME Data!DataAssumption, StreamInv, NEW a \in Data!Below, Data!ReadThrough(a)
  PROVE  Data!Stream!Read /\ GotInv'
<1>1. /\ rd \in Ways /\ rd.buf \in Seq(Nat) /\ source \in Seq(Nat) /\ rd.set \in Data!Settings
      /\ rd.endreached => source = <<>>
      /\ CR # LF /\ DataInv
  BY DEF StreamInv, DataInv, Ways, Data!DataAssumption
<1>2. /\ Data!Contain(rd).is = "no" /\ rd.set.type = "TRANSPARENT"
      /\ source' = Data!Skip(source, a.n) /\ Data!Give(rd, a.err, Data!First(source, a.n))
  BY DEF Data!ReadThrough
<1>3. rd.buf = <<>>
  BY <1>1, <1>2, ContainIs
<1>4. PICK s, u, data : s = rd.buf \o source /\ u = (rd.buf \o source)' /\ data = Data!First(source, a.n)
  BY Zenon
<1>5. /\ rd' = rd /\ got' = [err |-> a.err, data |-> data]
      /\ UNCHANGED <<wr, writes, passed>>
  BY <1>2, <1>4, Zenon DEF Data!Give
<1>6. s = source /\ u = source' /\ source' \in Seq(Nat)
  <2>1. source' \in Seq(Nat)
    BY <1>1, <1>2, BelowParts
  <2>2. u = <<>> \o source'
    BY <1>3, <1>4, <1>5
  <2> QED BY <1>1, <1>3, <1>4, <2>1, <2>2, ConcatEmptySeq
<1>7. CASE a.err = "OK"
  <2>1. a.n \in 1 .. Len(source) /\ a.n \in 0 .. Len(source)
    BY <1>1, <1>7, BelowParts
  <2>2. Fits(rd.set, a.n)
    BY <1>2 DEF Fits
  <2>3. a.n \in Data!Stream!Blocks(source, rd.set)
    BY <1>1, <1>2, <2>1, <2>2, BlocksAre
  <2>4. PICK item : item = [size |-> a.n, taken |-> a.n]
    BY Zenon
  <2>5. item \in Data!Stream!Items(s, rd.set) /\ item.size = a.n /\ item.taken = a.n
    BY <1>2, <1>6, <2>3, <2>4 DEF Data!Stream!Items
  <2>6. /\ data = Data!Stream!Prefix(s, item.size)
        /\ u = Data!Stream!Without(s, item.taken)
    BY <1>2, <1>4, <1>6, <2>5 DEF Data!First, Data!Skip, Data!Stream!Prefix, Data!Stream!Without
  <2>7. s # <<>>
    BY <1>1, <1>6, <2>1
  <2>8. \E it \in Data!Stream!Items(s, rd.set) :
          /\ s # <<>>
          /\ got' = [err |-> "OK", data |-> Data!Stream!Prefix(s, it.size)]
          /\ u = Data!Stream!Without(s, it.taken)
    BY <1>5, <1>7, <2>5, <2>6, <2>7
  <2>9. Data!Stream!Read
    BY <1>4, <1>5, <2>8, StreamRead
  <2>10. data \o u = s /\ Len(data) = a.n
    BY <1>1, <1>2, <1>4, <1>6, <2>1, BelowParts, PartIsA
  <2>11. GotInv'
    BY <1>4, <1>5, <1>6, <2>3, <2>10 DEF GotInv
  <2> QED BY <2>9, <2>11
<1>8. CASE a.err # "OK"
  <2>1. /\ data = <<>> /\ source' = source
        /\ a.err \in {"DATANOTAVAIL", "ERROR"} \/ (a.err = "DATAEND" /\ source = <<>>)
    BY <1>1, <1>2, <1>4, <1>8, BelowParts
  <2>2. PICK err : err = a.err
    BY Zenon
  <2>3. u = s /\ rd'.set = rd.set /\ got' = [err |-> err, data |-> <<>>]
    BY <1>5, <1>6, <2>1, <2>2
  <2> QED BY <1>4, <1>5, <1>6, <2>1, <2>2, <2>3, NothingIsRead
<1> QED BY <1>7, <1>8

LEMMA MoreIsRead ==
  ASSUME Data!DataAssumption, StreamInv, NEW a \in Data!Below, Data!ReadMore(a)
  PROVE  Data!Stream!Read /\ GotInv'
<1>1. /\ rd \in Ways /\ rd.buf \in Seq(Nat) /\ source \in Seq(Nat)
      /\ CR # LF /\ DataInv
  BY DEF StreamInv, DataInv, Ways, Data!DataAssumption
<1>2. PICK s, u, way, left : /\ s = rd.buf \o source /\ u = (rd.buf \o source)'
                             /\ way = Data!Filled(a) /\ left = Data!Skip(source, a.n)
  BY Zenon
<1>3. left \in Seq(Nat) /\ left = source' /\ way \in Ways /\ (way.endreached => left = <<>>)
  <2>1. left = source'
    BY <1>2 DEF Data!ReadMore
  <2> QED BY <1>1, <1>2, <2>1, BelowParts, FilledIs
<1>4. way.buf \o left = s /\ way.set = rd.set
  <2>1. PICK set \in Data!Settings, old \in Seq(Nat), e \in BOOLEAN :
          rd = [set |-> set, buf |-> old, endreached |-> e]
    BY <1>1 DEF Ways
  <2>2. PICK b, end : b = old \o Data!First(source, a.n) /\ end = (e \/ a.err = "DATAEND")
    BY Zenon
  <2>3. way = [rd EXCEPT !.buf = b, !.endreached = end]
    <3>1. rd.buf = old /\ rd.endreached = e
      BY <2>1
    <3>2. way = [rd EXCEPT !.buf = rd.buf \o Data!First(source, a.n),
                           !.endreached = rd.endreached \/ a.err = "DATAEND"]
      BY <1>2 DEF Data!Filled
    <3> QED BY <2>2, <3>1, <3>2, Zenon
  <2>4. end \in BOOLEAN
    BY <2>2
  <2>5. way = [set |-> set, buf |-> b, endreached |-> end]
    BY <2>1, <2>3, <2>4
  <2>6. way.buf = b /\ way.set = rd.set /\ rd.buf = old
    BY <2>1, <2>5
  <2>7. (old \o Data!First(source, a.n)) \o left = old \o (Data!First(source, a.n) \o left)
    <3>1. PICK x : x = Data!First(source, a.n)
      BY Zenon
    <3>2. x \in Seq(Nat) /\ old \in Seq(Nat) /\ left \in Seq(Nat)
      BY <1>1, <1>3, <2>1, <3>1, BelowParts
    <3>3. (old \o x) \o left = old \o (x \o left)
      BY <3>2, ConcatAssociative
    <3> QED BY <3>1, <3>3, Zenon
  <2>8. Data!First(source, a.n) \o left = source
    BY <1>1, <1>2, BelowParts
  <2> QED BY <1>2, <2>2, <2>6, <2>7, <2>8
<1>5. CASE a.err \notin {"OK", "DATAEND"}
  <2>1. Data!Give(rd, a.err, <<>>)
    BY <1>5 DEF Data!ReadMore
  <2>2. PICK err : err = a.err
    BY Zenon
  <2>3. rd' = rd /\ got' = [err |-> err, data |-> <<>>] /\ UNCHANGED <<wr, writes, passed>>
    BY <2>1, <2>2, Zenon DEF Data!Give
  <2>4. err \in {"DATANOTAVAIL", "ERROR"} /\ source' = source
    BY <1>1, <1>2, <1>3, <1>5, <2>2, BelowParts
  <2>5. s = u /\ rd'.set = rd.set
    BY <1>2, <2>3, <2>4
  <2> QED BY <1>2, <2>3, <2>4, <2>5, NothingIsRead
<1>6. CASE a.err \in {"OK", "DATAEND"} /\ Data!Contain(way).is = "yes"
  <2>1. Data!GiveItem(way)
    BY <1>2, <1>6 DEF Data!ReadMore
  <2> QED BY <1>1, <1>2, <1>3, <1>4, <1>6, <2>1, ItemIsRead
<1>7. CASE a.err \in {"OK", "DATAEND"} /\ Data!Contain(way).is # "yes"
  <2>1. \/ /\ a.err = "DATAEND" /\ Data!Contain(way).is = "DATAEND"
           /\ Data!Give(way, "DATAEND", <<>>)
        \/ Data!Give(way, "DATANOTAVAIL", <<>>)
    BY <1>2, <1>7 DEF Data!ReadMore
  <2>2. PICK err : /\ Data!Give(way, err, <<>>)
                   /\ \/ err = "DATANOTAVAIL"
                      \/ err = "DATAEND" /\ Data!Contain(way).is = "DATAEND"
    BY <2>1
  <2>3. rd' = way /\ got' = [err |-> err, data |-> <<>>] /\ UNCHANGED <<wr, writes, passed>>
    BY <2>2, Zenon DEF Data!Give
  <2>4. u = s /\ rd'.set = rd.set
    <3>1. u = way.buf \o left
      BY <1>2, <1>3, <2>3
    <3> QED BY <1>4, <2>3, <3>1
  <2>5. ASSUME Data!Contain(way).is = "DATAEND" PROVE s = <<>>
    <3>1. way.buf = <<>> /\ left = <<>>
      BY <1>1, <1>3, <2>5, ContainIs
    <3> QED BY <1>4, <3>1
  <2>6. err \in {"DATANOTAVAIL", "ERROR"} \/ (err = "DATAEND" /\ s = <<>>)
    BY <2>2, <2>5
  <2> QED BY <1>2, <2>3, <2>4, <2>6, NothingIsRead
<1> QED BY <1>5, <1>6, <1>7

(* What was read is unread: it is the item that the stream begins with. *)
LEMMA LineIsUnread ==
  ASSUME CR # LF, CR \in Nat, LF \in Nat, NEW data \in Seq(Nat), NEW rest \in Seq(Nat),
         NEW set, Data!LineEnds(data) = {},
         NEW s, s = data \o Data!Eol(set) \o rest
  PROVE  Data!Stream!Lines(s) =
           {[size |-> Len(data), taken |-> Len(data) + Len(Data!Eol(set))]}
<1>1. PICK n, eol : n = Len(data) /\ eol = Data!Eol(set)
  BY Zenon
<1>2. /\ eol \in Seq(Nat) /\ n \in Nat /\ data \in Seq(Nat) /\ rest \in Seq(Nat)
      /\ \/ Len(eol) = 2 /\ eol[1] = CR /\ eol[2] = LF
         \/ Len(eol) = 1 /\ eol[1] = LF
  BY <1>1 DEF Data!Eol
<1>3. PICK u : u = data \o eol
  BY Zenon
<1>4. /\ u \in Seq(Nat) /\ Len(u) = n + Len(eol)
      /\ \A i \in 1 .. n : u[i] = data[i]
      /\ \A i \in 1 .. Len(eol) : u[n + i] = eol[i]
  BY <1>1, <1>2, <1>3, StreamJoin
<1>5. /\ s \in Seq(Nat) /\ Len(s) = Len(u) + Len(rest) /\ Len(rest) \in Nat
      /\ \A i \in 1 .. Len(u) : s[i] = u[i]
  <2>1. s = u \o rest
    BY <1>1, <1>3
  <2>2. /\ u \o rest \in Seq(Nat) /\ Len(u \o rest) = Len(u) + Len(rest)
        /\ \A i \in 1 .. Len(u) : (u \o rest)[i] = u[i]
    BY <1>2, <1>4, StreamJoin
  <2>3. Len(rest) \in Nat
    BY <1>2
  <2> QED BY <2>1, <2>2, <2>3, Zenon
<1>6. \A i \in 1 .. n : s[i] \notin {CR, LF}
  <2>1. \A i \in DOMAIN data : data[i] \notin {CR, LF}
    BY DEF Data!LineEnds
  <2>2. DOMAIN data = 1 .. n
    BY <1>1, LenProperties
  <2>3. \A i \in 1 .. n : i \in 1 .. Len(u)
    <3>1. Len(u) \in Nat /\ n <= Len(u)
      BY <1>2, <1>4
    <3> QED BY <1>2, <3>1
  <2> QED BY <1>4, <1>5, <2>1, <2>2, <2>3
<1>7. \A i \in 1 .. Len(eol) : s[n + i] = eol[i]
  <2>1. \A i \in 1 .. Len(eol) : n + i \in 1 .. Len(u)
    BY <1>2, <1>4
  <2> QED BY <1>4, <1>5, <2>1
<1>8. CASE Len(eol) = 2 /\ eol[1] = CR /\ eol[2] = LF
  <2>1. s[n + 1] = CR /\ s[n + 2] = LF /\ n + 2 <= Len(s)
    <3>1. 1 \in 1 .. Len(eol) /\ 2 \in 1 .. Len(eol)
      BY <1>8
    <3>2. Len(s) = n + 2 + Len(rest)
      BY <1>2, <1>4, <1>5, <1>8
    <3> QED BY <1>2, <1>5, <1>7, <1>8, <3>1, <3>2
  <2>2. PICK r : r = n + 1
    BY Zenon
  <2>3. LineEndsAt(s, n, r) /\ r < Len(s) /\ s[r + 1] = LF
    <3>1. r \in n .. Len(s) /\ n \in 0 .. Len(s) /\ r + 1 = n + 2 /\ r < Len(s)
      <4>1. Len(s) \in Nat
        BY <1>5
      <4> QED BY <1>2, <2>1, <2>2, <4>1, SMTT(30)
    <3>2. \A i \in n + 1 .. r : i = n + 1
      BY <1>2, <2>2
    <3> QED BY <1>6, <2>1, <3>1, <3>2 DEF LineEndsAt
  <2>4. Data!Stream!Lines(s) = {[size |-> n, taken |-> r + 1]}
    BY <1>5, <2>3, LinesOf
  <2>5. r + 1 = n + Len(eol)
    BY <1>2, <1>8, <2>2
  <2> QED BY <1>1, <2>4, <2>5
<1>9. CASE Len(eol) = 1 /\ eol[1] = LF
  <2>1. s[n + 1] = LF /\ n + 1 <= Len(s)
    BY <1>2, <1>4, <1>5, <1>7, <1>9
  <2>2. LineEndsAt(s, n, n) /\ n < Len(s)
    <3>1. n \in 0 .. Len(s) /\ n \in n .. Len(s) /\ n < Len(s) /\ n + 1 .. n = {}
      BY <1>2, <1>5, <2>1
    <3> QED BY <1>6, <2>1, <3>1 DEF LineEndsAt
  <2>3. Data!Stream!Lines(s) = {[size |-> n, taken |-> n + 1]}
    BY <1>5, <2>1, <2>2, LinesOf
  <2> QED BY <1>1, <1>9, <2>3
<1> QED BY <1>2, <1>8, <1>9

LEMMA UnreadIsUnread ==
  ASSUME Data!DataAssumption, StreamInv, Data!Unread
  PROVE  Data!Stream!Unread /\ GotInv'
<1>1. /\ rd \in Ways /\ rd.buf \in Seq(Nat) /\ source \in Seq(Nat) /\ rd.set \in Data!Settings
      /\ CR # LF /\ CR \in Nat /\ LF \in Nat /\ got.data \in Seq(Nat)
  BY DEF StreamInv, DataInv, Ways, Data!DataAssumption
<1>2. PICK data, eol, b, s, u :
        /\ data = got.data
        /\ eol = (IF rd.set.type = "LINE" THEN Data!Eol(rd.set) ELSE <<>>)
        /\ b = data \o eol \o rd.buf
        /\ s = rd.buf \o source /\ u = (rd.buf \o source)'
  BY Zenon
<1>3. /\ got.err = "OK" /\ (rd.set.type = "LINE" => Data!LineEnds(data) = {})
      /\ rd' = [rd EXCEPT !.buf = b] /\ got' = [err |-> "none", data |-> <<>>]
      /\ UNCHANGED <<wr, source, writes, passed>>
  BY <1>2, Zenon DEF Data!Unread
<1>4. data \in Seq(Nat) /\ eol \in Seq(Nat) /\ s \in Seq(Nat) /\ data \o eol \in Seq(Nat)
  <2>1. Data!Eol(rd.set) \in Seq(Nat)
    BY EolIs
  <2>2. data \in Seq(Nat) /\ eol \in Seq(Nat)
    BY <1>1, <1>2, <2>1
  <2> QED BY <1>1, <1>2, <2>2, StreamJoin
<1>5. b \in Seq(Nat) /\ rd'.buf = b /\ rd'.set = rd.set
  <2>1. b \in Seq(Nat)
    BY <1>1, <1>2, <1>4, StreamJoin
  <2> QED BY <1>1, <1>3, <2>1, WayParts
<1>6. u = (data \o eol) \o s
  <2>1. u = ((data \o eol) \o rd.buf) \o source
    BY <1>2, <1>3, <1>5
  <2>2. PICK x : x = data \o eol
    BY Zenon
  <2>3. (x \o rd.buf) \o source = x \o (rd.buf \o source)
    <3>1. PICK y : y = rd.buf
      BY Zenon
    <3>2. x \in Seq(Nat) /\ y \in Seq(Nat) /\ source \in Seq(Nat)
      BY <1>1, <1>4, <2>2, <3>1
    <3>3. (x \o y) \o source = x \o (y \o source)
      BY <3>2, ConcatAssociative, SMTT(30)
    <3> QED BY <3>1, <3>3, Zenon
  <2> QED BY <1>2, <2>1, <2>2, <2>3
<1>7. PICK n, k : n = Len(data) /\ k = Len(data) + Len(eol)
  BY Zenon
<1>8. /\ n \in 0 .. k /\ k \in Nat /\ u \in Seq(Nat) /\ Len(u) = k + Len(s) /\ Len(s) \in Nat
      /\ Len(data \o eol) = k
  <2>1. Len(data \o eol) = k
    BY <1>4, <1>7, StreamJoin
  <2>2. u \in Seq(Nat) /\ Len(u) = k + Len(s)
    BY <1>4, <1>6, <2>1, StreamJoin
  <2>3. n \in Nat /\ Len(eol) \in Nat /\ k = n + Len(eol) /\ Len(s) \in Nat
    BY <1>4, <1>7
  <2> QED BY <2>1, <2>2, <2>3
<1>9. Data!Stream!Prefix(u, n) = data
  <2>1. PICK w : w = eol \o s
    BY Zenon
  <2>2. w \in Seq(Nat) /\ u = data \o w
    <3>1. (data \o eol) \o s = data \o (eol \o s)
      BY <1>4, ConcatAssociative
    <3> QED BY <1>4, <1>6, <2>1, <3>1, StreamJoin
  <2>3. n \in 0 .. Len(data)
    BY <1>4, <1>7
  <2>4. Data!Stream!Prefix(data \o w, n) = Data!First(data, n)
    BY <1>4, <2>2, <2>3, ArrivedParts
  <2>5. Data!First(data, n) = data
    BY <1>4, <1>7, SubSeqFull DEF Data!First
  <2> QED BY <2>2, <2>4, <2>5
<1>10. Data!Stream!Without(u, k) = s
  <2>1. PICK x : x = data \o eol
    BY Zenon
  <2>2. x \in Seq(Nat) /\ Len(x) = k /\ k \in 0 .. Len(x)
    BY <1>4, <1>8, <2>1
  <2>3. Data!Stream!Without(x \o s, k) = Data!Skip(x, k) \o s
    BY <1>4, <2>2, ArrivedParts
  <2>4. Data!Skip(x, k) = <<>>
    <3>1. Len(x) \in Int /\ k + 1 \in Int /\ Len(x) < k + 1
      BY <1>8, <2>2
    <3> QED BY <3>1, SubSeqEmpty DEF Data!Skip
  <2>5. <<>> \o s = s
    BY <1>4, ConcatEmptySeq
  <2> QED BY <1>6, <2>1, <2>3, <2>4, <2>5
<1>11. Len(u) - Len(s) = k
  BY <1>8
<1>12. [size |-> n, taken |-> k] \in Data!Stream!Items(u, rd.set)
  <2>1. CASE rd.set.type = "LINE"
    <3>1. u = data \o Data!Eol(rd.set) \o s /\ eol = Data!Eol(rd.set)
      BY <1>2, <1>6, <2>1
    <3>2. Data!Stream!Lines(u) = {[size |-> Len(data), taken |-> Len(data) + Len(Data!Eol(rd.set))]}
      <4>1. PICK set : set = rd.set
        BY Zenon
      <4>2. u = data \o Data!Eol(set) \o s /\ Data!LineEnds(data) = {}
        BY <1>3, <2>1, <3>1, <4>1
      <4>3. Data!Stream!Lines(u) = {[size |-> Len(data), taken |-> Len(data) + Len(Data!Eol(set))]}
        BY <1>1, <1>4, <4>2, LineIsUnread
      <4> QED BY <4>1, <4>3
    <3> QED BY <1>7, <2>1, <3>1, <3>2 DEF Data!Stream!Items
  <2>2. CASE rd.set.type # "LINE"
    <3>1. eol = <<>> /\ Len(eol) = 0
      BY <1>2, <2>2
    <3>2. k = n /\ data \o eol = data
      BY <1>4, <1>7, <3>1, ConcatEmptySeq
    <3>3. Len(got.data) \in Data!Stream!Blocks(got.data \o (rd.buf \o source), rd.set)
      BY <1>3, <2>2 DEF StreamInv
    <3>4. n \in Data!Stream!Blocks(u, rd.set)
      BY <1>2, <1>6, <1>7, <3>2, <3>3
    <3> QED BY <2>2, <3>2, <3>4 DEF Data!Stream!Items
  <2> QED BY <2>1, <2>2
<1>13. Data!Stream!Unread
  <2>1. /\ got' = Data!Stream!NotRead
        /\ UNCHANGED <<wr.buf, writes, rd.set, wr.set, passed>>
    BY <1>3, <1>5 DEF Data!Stream!NotRead
  <2>2. /\ [size |-> Len(got.data), taken |-> Len(u) - Len(s)] \in Data!Stream!Items(u, (rd.set)')
        /\ Data!Stream!Prefix(u, Len(got.data)) = got.data
        /\ Data!Stream!Without(u, Len(u) - Len(s)) = s
    BY <1>2, <1>5, <1>7, <1>9, <1>10, <1>11, <1>12
  <2> QED BY <1>2, <1>3, <1>5, <2>1, <2>2 DEF Data!Stream!Unread
<1>14. GotInv'
  <2>1. got'.err # "OK"
    BY <1>3
  <2> QED BY <2>1 DEF GotInv
<1> QED BY <1>13, <1>14

(* What is written: the whole of a stream leaves, or one of its items. *)
LEMMA AllLeaves ==
  ASSUME NEW x \in Seq(Nat), x # <<>>, passed' = <<x>>, wr'.buf = <<>>,
         wr.set.type \in {"LINE", "TRANSPARENT"}
  PROVE  Data!Stream!Leaves(x)
<1>1. PICK n : n = Len(x)
  BY Zenon
<1>2. n \in Nat /\ n \in 1 .. Len(x)
  BY <1>1
<1>3. Data!Stream!Prefix(x, n) = x
  BY <1>1, SubSeqFull DEF Data!Stream!Prefix
<1>4. Data!Stream!Without(x, n) = <<>>
  <2>1. n + 1 \in Int /\ Len(x) \in Int /\ Len(x) < n + 1
    BY <1>1, <1>2
  <2> QED BY <2>1, SubSeqEmpty DEF Data!Stream!Without
<1>5. wr.set.type # "CHUNK" /\ wr.set.type # "FIXED"
  OBVIOUS
<1>6. (wr.buf)' = Data!Stream!Without(x, n) /\ passed' = <<Data!Stream!Prefix(x, n)>>
  BY <1>3, <1>4
<1> QED BY <1>1, <1>2, <1>5, <1>6 DEF Data!Stream!Leaves

\* Reads and writes do not touch each other's way.
LEMMA GotStays == ASSUME GotInv, UNCHANGED <<rd, source, got>> PROVE GotInv'
BY DEF GotInv

LEMMA BegunWrite ==
  ASSUME StreamInv, Data!Begin
  PROVE  /\ wr \in Ways /\ wr.buf \in Seq(Nat) /\ Head(writes) \in Seq(Nat)
         /\ writes # <<>> /\ writes' = Tail(writes) /\ wrsupported /\ ~wr.endreached
         /\ ~writing
         /\ UNCHANGED <<rd, wrsupported, source, changes, got>>
<1>1. DataInv /\ wr \in Ways /\ wr.buf \in Seq(Nat)
  BY DEF StreamInv, DataInv, Ways
<1>2. /\ writes # <<>> /\ writes' = Tail(writes) /\ wrsupported /\ ~writing
      /\ UNCHANGED <<rd, wrsupported, source, changes, got>>
  BY DEF Data!Begin
<1>3. ~wr.endreached
  BY <1>2 DEF StreamInv
<1> QED BY <1>1, <1>2, <1>3, BeginIs

LEMMA StreamWrite ==
  ASSUME NEW s, s = wr.buf \o Head(writes) \o Data!Stream!Eol(wr.set),
         writes # <<>>, writes' = Tail(writes), wr'.set = wr.set, UNCHANGED <<rd, source, got>>,
         \/ Data!Stream!Leaves(s)
         \/ wr'.buf = s /\ passed' = <<>>
         \/ s = <<>> /\ wr'.buf = s /\ passed' = <<s>>
  PROVE  Data!Stream!Write
<1>1. UNCHANGED <<rd.buf \o source, rd.set, wr.set, got>>
  OBVIOUS
<1> QED BY <1>1, Zenon DEF Data!Stream!Write, Data!Stream!NoItem

LEMMA ThroughIsWritten ==
  ASSUME Data!DataAssumption, StreamInv, NEW ok \in BOOLEAN, Data!WriteThrough(ok)
  PROVE  Data!Stream!Next /\ WritingInv' /\ GotInv'
<1>1. /\ Data!Begin /\ wr.set.type = "TRANSPARENT" /\ wr.buf = <<>>
      /\ passed' = (IF ok THEN <<Head(writes)>> ELSE <<>>) /\ UNCHANGED <<wr, writing>>
  BY DEF Data!WriteThrough
<1>2. PICK x : x = Head(writes)
  BY Zenon
<1>3. /\ x \in Seq(Nat) /\ writes # <<>> /\ writes' = Tail(writes)
      /\ UNCHANGED <<rd, wrsupported, source, changes, got>>
  BY <1>1, <1>2, BegunWrite
<1>4. x = wr.buf \o Head(writes) \o Data!Stream!Eol(wr.set)
  <2>1. Data!Stream!Eol(wr.set) = <<>>
    BY <1>1 DEF Data!Stream!Eol
  <2>2. <<>> \o x = x /\ x \o <<>> = x
    BY <1>3, ConcatEmptySeq
  <2> QED BY <1>1, <1>2, <2>1, <2>2
<1>5. ASSUME ~ok PROVE Data!Stream!Next
  <2>1. passed' = <<>>
    BY <1>1, <1>5
  <2>2. UNCHANGED <<rd.buf \o source, wr.buf, rd.set, wr.set, got>>
    BY <1>1, <1>3
  <2>3. Data!Stream!Refuse
    BY <1>1, <1>3, <2>1, <2>2 DEF Data!Stream!Refuse, Data!Stream!NoItem
  <2> QED BY <2>3 DEF Data!Stream!Next
<1>6. ASSUME ok PROVE Data!Stream!Next
  <2>1. passed' = <<x>> /\ wr'.buf = <<>> /\ wr'.set = wr.set
    BY <1>1, <1>2, <1>6
  <2>2. Data!Stream!Leaves(x) \/ x = <<>>
    BY <1>1, <1>3, <2>1, AllLeaves
  <2>3. Data!Stream!Write
    BY <1>3, <1>4, <2>1, <2>2, StreamWrite
  <2> QED BY <2>3 DEF Data!Stream!Next
<1>7. WritingInv' /\ GotInv'
  BY <1>1, <1>3, StreamInvIs, GotStays DEF WritingInv
<1> QED BY <1>5, <1>6, <1>7

LEMMA LineIsWritten ==
  ASSUME Data!DataAssumption, StreamInv, NEW ok \in BOOLEAN, Data!WriteLine(ok)
  PROVE  Data!Stream!Next /\ WritingInv' /\ GotInv'
<1>1. PICK all, b : all = wr.buf \o Head(writes) \o Data!Eol(wr.set) /\ b = IF ok THEN <<>> ELSE all
  BY Zenon
<1>2. /\ Data!Begin /\ wr.set.type = "LINE" /\ wr' = [wr EXCEPT !.buf = b]
      /\ passed' = (IF ok THEN <<all>> ELSE <<>>) /\ writing' = writing
  BY <1>1, Zenon DEF Data!WriteLine
<1>3. /\ wr \in Ways /\ wr.buf \in Seq(Nat) /\ Head(writes) \in Seq(Nat)
      /\ writes # <<>> /\ writes' = Tail(writes) /\ ~writing /\ ~wr.endreached
      /\ UNCHANGED <<rd, wrsupported, source, changes, got>>
  BY <1>2, BegunWrite
<1>4. all \in Seq(Nat) /\ all # <<>>
  <2>1. PICK x, y, eol : x = Head(writes) /\ y = wr.buf \o x /\ eol = Data!Eol(wr.set)
    BY Zenon
  <2>2. y \in Seq(Nat)
    BY <1>3, <2>1, ConcatProperties
  <2>3. eol \in Seq(Nat) /\ Len(eol) > 0
    <3>1. eol \in Seq(Nat)
      BY <2>1, EolIs
    <3>2. Len(eol) \in {1, 2}
      BY <2>1 DEF Data!Eol
    <3> QED BY <3>1, <3>2
  <2>4. all = y \o eol
    BY <1>1, <2>1
  <2>5. y \o eol \in Seq(Nat) /\ Len(y \o eol) = Len(y) + Len(eol)
    BY <2>2, <2>3, ConcatProperties
  <2>6. Len(y) \in Nat
    BY <2>2
  <2>7. Len(all) > 0
    BY <2>3, <2>4, <2>5, <2>6
  <2> QED BY <2>4, <2>5, <2>7
<1>5. all = wr.buf \o Head(writes) \o Data!Stream!Eol(wr.set)
  <2>1. Data!Stream!Eol(wr.set) = Data!Eol(wr.set)
    BY <1>2 DEF Data!Stream!Eol, Data!Eol
  <2> QED BY <1>1, <2>1
<1>6. wr'.buf = b /\ wr'.set = wr.set /\ wr'.endreached = wr.endreached
  <2>1. b \in Seq(Nat)
    BY <1>1, <1>4
  <2> QED BY <1>2, <1>3, <2>1, WayParts
<1>7. Data!Stream!Write
  <2>1. CASE ok
    <3>1. passed' = <<all>> /\ wr'.buf = <<>>
      BY <1>1, <1>2, <1>6, <2>1
    <3>2. Data!Stream!Leaves(all)
      BY <1>2, <1>4, <3>1, AllLeaves
    <3> QED BY <1>3, <1>5, <1>6, <3>2, StreamWrite
  <2>2. CASE ~ok
    <3>1. passed' = <<>> /\ wr'.buf = all
      BY <1>1, <1>2, <1>6, <2>2
    <3> QED BY <1>3, <1>5, <1>6, <3>1, StreamWrite
  <2> QED BY <2>1, <2>2
<1>8. WritingInv' /\ GotInv'
  BY <1>2, <1>3, <1>6, StreamInvIs, GotStays DEF WritingInv
<1> QED BY <1>7, <1>8 DEF Data!Stream!Next

LEMMA BeginIsWritten ==
  ASSUME Data!DataAssumption, StreamInv, Data!WriteBegin
  PROVE  Data!Stream!Next /\ WritingInv' /\ GotInv'
<1>1. PICK b : b = wr.buf \o Head(writes)
  BY Zenon
<1>2. /\ Data!Begin /\ wr.set.type # "LINE" /\ wr' = [wr EXCEPT !.buf = b]
      /\ writing' = TRUE /\ passed' = <<>>
  BY <1>1, Zenon DEF Data!WriteBegin
<1>3. /\ wr \in Ways /\ wr.buf \in Seq(Nat) /\ Head(writes) \in Seq(Nat)
      /\ writes # <<>> /\ writes' = Tail(writes) /\ ~writing /\ ~wr.endreached /\ wrsupported
      /\ UNCHANGED <<rd, wrsupported, source, changes, got>>
  BY <1>2, BegunWrite
<1>4. b \in Seq(Nat)
  BY <1>1, <1>3, ConcatProperties
<1>5. wr'.buf = b /\ wr'.set = wr.set /\ wr'.endreached = wr.endreached
  BY <1>2, <1>3, <1>4, WayParts
<1>6. b = wr.buf \o Head(writes) \o Data!Stream!Eol(wr.set)
  <2>1. Data!Stream!Eol(wr.set) = <<>>
    BY <1>2 DEF Data!Stream!Eol
  <2>2. b \o <<>> = b
    BY <1>4, ConcatEmptySeq
  <2> QED BY <1>1, <2>1, <2>2
<1>7. Data!Stream!Write
  BY <1>2, <1>3, <1>5, <1>6, StreamWrite
<1>8. WritingInv' /\ GotInv'
  BY <1>2, <1>3, <1>5, StreamInvIs, GotStays DEF WritingInv
<1> QED BY <1>7, <1>8 DEF Data!Stream!Next

LEMMA PieceIsWritten ==
  ASSUME Data!DataAssumption, StreamInv, NEW ok \in BOOLEAN, Data!WritePiece(ok)
  PROVE  Data!Stream!Next /\ WritingInv' /\ GotInv'
<1>1. PICK b, c, set, rest : /\ b = wr.buf /\ c = Data!Contain(wr) /\ set = wr.set /\ rest = <<>>
  BY Zenon
<1>2. /\ wr \in Ways /\ b \in Seq(Nat) /\ rest \in Seq(Nat) /\ CR # LF
      /\ writing /\ c.is = "yes" /\ wrsupported /\ ~wr.endreached /\ set.type # "LINE"
  BY <1>1 DEF StreamInv, DataInv, Ways, Data!DataAssumption, Data!WritePiece
<1>3. c.next = c.size /\ c.size \in 1 .. Len(b) /\ Fits(set, c.size)
  BY <1>1, <1>2, ContainIs
<1>4. /\ wr' = [wr EXCEPT !.buf = IF ok THEN Data!Skip(b, c.next) ELSE b]
      /\ passed' = (IF ok THEN <<Data!First(b, c.size)>> ELSE <<>>)
      /\ writing' = ok /\ UNCHANGED <<rd, wrsupported, source, writes, changes, got>>
  BY <1>1, Zenon DEF Data!WritePiece
<1>5. PICK u : u = IF ok THEN Data!Skip(b, c.next) ELSE b
  BY Zenon
<1>6. u \in Seq(Nat)
  <2>1. c.next \in 0 .. Len(b)
    BY <1>3
  <2> QED BY <1>2, <1>5, <2>1, PartIsA
<1>7. wr'.buf = u /\ wr'.set = set /\ wr'.endreached = wr.endreached
  <2>1. wr' = [wr EXCEPT !.buf = u]
    BY <1>4, <1>5, Zenon
  <2> QED BY <1>1, <1>2, <1>6, <2>1, WayParts
<1>8. UNCHANGED <<rd.buf \o source, writes, rd.set, wr.set, got>>
  BY <1>1, <1>4, <1>7
<1>9. ASSUME ok PROVE Data!Stream!Next
  <2>1. PICK n : n = c.size
    BY Zenon
  <2>2. n \in 1 .. Len(wr.buf) /\ Fits(wr.set, n) /\ wr.set.type # "LINE"
    BY <1>1, <1>2, <1>3, <2>1
  <2>3. passed' = <<Data!Stream!Prefix(wr.buf, n)>> /\ (wr.buf)' = Data!Stream!Without(wr.buf, n)
    BY <1>1, <1>3, <1>4, <1>5, <1>7, <1>9, <2>1
    DEF Data!First, Data!Skip, Data!Stream!Prefix, Data!Stream!Without
  <2>4. Data!Stream!Leaves(wr.buf)
    BY <2>2, <2>3 DEF Data!Stream!Leaves, Fits
  <2>9. Data!Stream!Leave
    BY <1>8, <2>4 DEF Data!Stream!Leave
  <2> QED BY <2>9 DEF Data!Stream!Next
<1>10. ASSUME ~ok PROVE Data!Stream!Next
  <2>1. passed' = <<>> /\ (wr.buf)' = wr.buf
    BY <1>1, <1>4, <1>5, <1>7, <1>10
  <2>9. Data!Stream!Idle
    BY <1>8, <2>1 DEF Data!Stream!Idle, Data!Stream!NoItem
  <2> QED BY <2>9 DEF Data!Stream!Next
<1>11. WritingInv' /\ GotInv'
  BY <1>1, <1>2, <1>4, <1>7, StreamInvIs, GotStays DEF WritingInv
<1> QED BY <1>9, <1>10, <1>11

LEMMA EndIsWritten ==
  ASSUME StreamInv, Data!WriteEnd
  PROVE  Data!Stream!Next /\ WritingInv' /\ GotInv'
<1>1. /\ writing' = FALSE /\ passed' = <<>>
      /\ UNCHANGED <<rd, wr, wrsupported, source, writes, changes, got>>
  BY DEF Data!WriteEnd
<1>2. Data!Stream!Idle
  BY <1>1 DEF Data!Stream!Idle, Data!Stream!NoItem
<1>3. WritingInv' /\ GotInv'
  BY <1>1, StreamInvIs, GotStays DEF WritingInv
<1> QED BY <1>2, <1>3 DEF Data!Stream!Next

LEMMA EndIsEnd ==
  ASSUME StreamInv, NEW ok \in BOOLEAN, Data!End(ok)
  PROVE  Data!Stream!Next /\ WritingInv' /\ GotInv'
<1>1. PICK b : b = wr.buf
  BY Zenon
<1>2. /\ ~writing
      /\ wr' = IF ok THEN [wr EXCEPT !.buf = <<>>, !.endreached = TRUE] ELSE wr
      /\ wrsupported' = (wrsupported /\ ~ok)
      /\ passed' = (IF ok /\ b # <<>> THEN <<b>> ELSE <<>>)
      /\ UNCHANGED <<rd, source, writes, changes, writing, got>>
  BY <1>1, Zenon DEF Data!End
<1>3. wr \in Ways
  BY DEF StreamInv, DataInv
<1>4. ok => wr'.buf = <<>> /\ wr'.set = wr.set
  <2>1. PICK set \in Data!Settings, old \in Seq(Nat), e \in BOOLEAN :
          wr = [set |-> set, buf |-> old, endreached |-> e]
    BY <1>3 DEF Ways
  <2>2. PICK none, r : none = <<>> /\ r = [wr EXCEPT !.buf = none]
    BY Zenon
  <2>3. r = [set |-> set, buf |-> none, endreached |-> e]
    BY <2>1, <2>2
  <2>4. PICK q : q = [r EXCEPT !.endreached = TRUE]
    BY Zenon
  <2>5. q.buf = none /\ q.set = set
    BY <2>3, <2>4
  <2>6. ok => wr' = q
    BY <1>2, <2>2, <2>4, Zenon
  <2> QED BY <2>1, <2>2, <2>5, <2>6
<1>5. wr'.set = wr.set /\ wr'.buf = (IF ok THEN <<>> ELSE b)
  BY <1>1, <1>2, <1>4
<1>6. UNCHANGED <<rd.buf \o source, writes, rd.set, wr.set, got>>
  BY <1>2, <1>5
<1>7. ASSUME ok /\ b # <<>> PROVE Data!Stream!Next
  <2>1. passed' = <<wr.buf>> /\ (wr.buf)' = <<>> /\ wr.buf # <<>>
    BY <1>1, <1>2, <1>5, <1>7
  <2>9. Data!Stream!End
    BY <1>6, <2>1 DEF Data!Stream!End
  <2> QED BY <2>9 DEF Data!Stream!Next
<1>8. ASSUME ~(ok /\ b # <<>>) PROVE Data!Stream!Next
  <2>1. passed' = <<>> /\ (wr.buf)' = wr.buf
    BY <1>1, <1>2, <1>5, <1>8
  <2>9. Data!Stream!Idle
    BY <1>6, <2>1 DEF Data!Stream!Idle, Data!Stream!NoItem
  <2> QED BY <2>9 DEF Data!Stream!Next
<1>9. WritingInv' /\ GotInv'
  <2>1. WritingInv
    BY StreamInvIs
  <2>2. ~writing' /\ (wr'.endreached => ~wrsupported')
    BY <1>2, <2>1 DEF WritingInv
  <2> QED BY <1>2, <2>2, StreamInvIs, GotStays DEF WritingInv
<1> QED BY <1>7, <1>8, <1>9

LEMMA SetIsSet ==
  ASSUME StreamInv, NEW w \in {"rd", "wr"}, NEW set \in changes, Data!Set(w, set)
  PROVE  Data!Stream!Next /\ WritingInv' /\ GotInv'
<1>1. /\ ~writing /\ rd' = (IF w = "rd" THEN [rd EXCEPT !.set = set] ELSE rd)
      /\ wr' = (IF w = "wr" THEN [wr EXCEPT !.set = set] ELSE wr)
      /\ got' = [err |-> "none", data |-> <<>>]
      /\ UNCHANGED <<wrsupported, source, writes, changes, writing, passed>>
  BY DEF Data!Set
<1>2. ASSUME NEW way \in Ways
      PROVE  /\ [way EXCEPT !.set = set].buf = way.buf
             /\ [way EXCEPT !.set = set].endreached = way.endreached
  <2>1. PICK old \in Data!Settings, b \in Seq(Nat), e \in BOOLEAN :
          way = [set |-> old, buf |-> b, endreached |-> e]
    BY DEF Ways
  <2>2. [way EXCEPT !.set = set] = [set |-> set, buf |-> b, endreached |-> e]
    BY <2>1
  <2> QED BY <2>1, <2>2
<1>3. rd \in Ways /\ wr \in Ways
  BY DEF StreamInv, DataInv
<1>4. rd'.buf = rd.buf /\ wr'.buf = wr.buf /\ wr'.endreached = wr.endreached
  BY <1>1, <1>2, <1>3
<1>5. UNCHANGED <<rd.buf \o source, wr.buf, writes, passed>>
  BY <1>1, <1>4
<1>6. Data!Stream!Set
  BY <1>1, <1>5 DEF Data!Stream!Set, Data!Stream!NotRead
<1>7. WritingInv' /\ GotInv'
  <2>1. WritingInv /\ got'.err # "OK"
    BY <1>1, StreamInvIs
  <2> QED BY <1>1, <1>4, <2>1 DEF WritingInv, GotInv
<1> QED BY <1>6, <1>7 DEF Data!Stream!Next

LEMMA ReadsAreReads ==
  ASSUME Data!DataAssumption, StreamInv,
         \/ Data!ReadStored \/ Data!Unread
         \/ \E a \in Data!Below : Data!ReadThrough(a) \/ Data!ReadMore(a)
  PROVE  Data!Stream!Next /\ WritingInv' /\ GotInv'
<1>1. UNCHANGED <<wr, wrsupported, writing>>
  BY DEF Data!ReadStored, Data!Unread, Data!ReadThrough, Data!ReadMore, Data!GiveItem, Data!Give
<1>2. WritingInv'
  BY <1>1, StreamInvIs DEF WritingInv
<1>3. (Data!Stream!Read \/ Data!Stream!Unread) /\ GotInv'
  BY StoredIsRead, UnreadIsUnread, ThroughIsRead, MoreIsRead
<1> QED BY <1>2, <1>3 DEF Data!Stream!Next

LEMMA StreamInitHolds ==
  ASSUME Data!DataAssumption, Data!Init
  PROVE  StreamInv /\ Data!Stream!Init
<1>1. DataInv
  BY DataInitHolds
<1>2. PICK set : wr = Data!Way(set)
  BY DEF Data!Init
<1>3. got = [err |-> "none", data |-> <<>>] /\ passed = <<>> /\ writing = FALSE
  BY DEF Data!Init
<1>4. wr.buf = <<>> /\ wr.endreached = FALSE /\ got.err # "OK"
  BY <1>2, <1>3 DEF Data!Way
<1> QED BY <1>1, <1>3, <1>4 DEF StreamInv, Data!Stream!Init, Data!Stream!NotRead, Data!Stream!NoItem

LEMMA StreamStep ==
  ASSUME Data!DataAssumption, StreamInv, [Data!Next]_(Data!datavars)
  PROVE  [Data!Stream!Next]_(Data!Stream!vars) /\ StreamInv'
<1>1. DataInv'
  BY DataNextKeeps, StreamInvIs
<1>2. CASE UNCHANGED Data!datavars
  <2>1. UNCHANGED Data!Stream!vars
    BY <1>2 DEF Data!datavars, Data!Stream!vars
  <2>2. WritingInv' /\ GotInv'
    BY <1>2, StreamInvIs DEF Data!datavars, WritingInv, GotInv
  <2> QED BY <1>1, <2>1, <2>2 DEF StreamInv, WritingInv, GotInv
<1>3. CASE Data!Next
  <2>1. Data!Stream!Next /\ WritingInv' /\ GotInv'
    BY <1>3, ReadsAreReads, ThroughIsWritten, LineIsWritten, PieceIsWritten, EndIsEnd,
       BeginIsWritten, EndIsWritten, SetIsSet DEF Data!Next
  <2> QED BY <1>1, <2>1 DEF StreamInv, WritingInv, GotInv
<1> QED BY <1>2, <1>3

(* However the bytes arrive and whichever write below fails, a data io gives
   the items of the whole stream, and lets whole items leave: no byte is
   lost, added or moved (iousual_data.c:63-310, 369-393). *)
THEOREM DataIsStream == Data!Spec => Data!IsStream
<1>1. Data!Init => StreamInv /\ Data!Stream!Init
  BY DataAssumed, StreamInitHolds
<1>2. StreamInv /\ [Data!Next]_(Data!datavars) => StreamInv' /\ [Data!Stream!Next]_(Data!Stream!vars)
  BY DataAssumed, StreamStep
<1> QED BY <1>1, <1>2, PTL DEF Data!Spec, Data!IsStream, Data!Stream!Spec

-----------------------------------------------------------------------------
(* The instances.                                                          *)

(* The proofs about rings and hash tables are those of other modules, whose
   definitions are the ones of Ring and Table. *)
RingP == INSTANCE RingProof WITH
  Items <- RingItems, Key <- RingKey, Full <- RingFull, Setups <- RingSetups,
  index <- ringindex, walk <- ringwalk, spare <- ringspare, fault <- ringfault

TableP == INSTANCE HashProof WITH
  Items <- HashItems, Key <- HashKey, Hash <- HashOf, FirstMax <- HashFirstMax,
  Setups <- HashSetups, index <- hashindex, walk <- hashwalk,
  spare <- hashspare, fault <- hashfault

(* Definition by definition, the two instances of a ring are the same. *)
LEMMA SameRing == (Ring!Init => RingP!Init) /\ (Ring!Next => RingP!Next)
BY Zenon DEF
   Ring!Nodes, RingP!Nodes, Ring!EmptyRing, RingP!EmptyRing, Ring!Link,
   RingP!Link, Ring!Allocated, RingP!Allocated, Ring!Freed, RingP!Freed,
   Ring!InsertAfter, RingP!InsertAfter, Ring!Removed, RingP!Removed,
   Ring!Moved, RingP!Moved, Ring!Advance, RingP!Advance, Ring!ItemsOf,
   RingP!ItemsOf, Ring!Least, RingP!Least, Ring!HalfRings, RingP!HalfRings,
   Ring!Relinked, RingP!Relinked, Ring!Taken1, RingP!Taken1, Ring!Taken2,
   RingP!Taken2, Ring!Indexes, RingP!Indexes, Ring!Start, RingP!Start,
   Ring!NoJob, RingP!NoJob, Ring!Edited, RingP!Edited, Ring!WalkOver,
   RingP!WalkOver, Ring!Voided, RingP!Voided, Ring!Init, RingP!Init,
   Ring!Dangling, RingP!Dangling, Ring!Reading, RingP!Reading, Ring!Add,
   RingP!Add, Ring!AddFirst, RingP!AddFirst, Ring!AddLast, RingP!AddLast,
   Ring!Without, RingP!Without, Ring!WalksWithout, RingP!WalksWithout,
   Ring!SparesCurrent, RingP!SparesCurrent, Ring!Noted, RingP!Noted,
   Ring!SparesNoted, RingP!SparesNoted, Ring!MayDelete, RingP!MayDelete,
   Ring!Delete, RingP!Delete, Ring!Begins, RingP!Begins, Ring!Ends,
   RingP!Ends, Ring!DelCriteria, RingP!DelCriteria, Ring!DelCriteriaStep,
   RingP!DelCriteriaStep, Ring!DelCriteriaEnd, RingP!DelCriteriaEnd,
   Ring!Comparing, RingP!Comparing, Ring!DelDuplicate, RingP!DelDuplicate,
   Ring!DelDuplicateStep, RingP!DelDuplicateStep, Ring!Reorders,
   RingP!Reorders, Ring!Group, RingP!Group, Ring!GroupStep, RingP!GroupStep,
   Ring!NextCompared, RingP!NextCompared, Ring!CompareFails,
   RingP!CompareFails, Ring!Sort, RingP!Sort, Ring!SortHalves,
   RingP!SortHalves, Ring!Appended, RingP!Appended, Ring!ComesFrom1,
   RingP!ComesFrom1, Ring!SortStep, RingP!SortStep, Ring!SortFails,
   RingP!SortFails, Ring!Rewind, RingP!Rewind, Ring!CopyIndex,
   RingP!CopyIndex, Ring!StepTo, RingP!StepTo, Ring!Met, RingP!Met,
   Ring!NextFrom, RingP!NextFrom, Ring!Tested, RingP!Tested,
   Ring!NextCriteria, RingP!NextCriteria, Ring!PreviousFrom,
   RingP!PreviousFrom, Ring!PreviousCriteria, RingP!PreviousCriteria,
   Ring!PlaceFrom, RingP!PlaceFrom, Ring!Place, RingP!Place, Ring!AddBefore,
   RingP!AddBefore, Ring!PastThePlace, RingP!PastThePlace, Ring!AfterPlace,
   RingP!AfterPlace, Ring!AddAfter, RingP!AddAfter, Ring!AddRingCriteria,
   RingP!AddRingCriteria, Ring!AddRingStep, RingP!AddRingStep,
   Ring!AddRingEnd, RingP!AddRingEnd, Ring!MayDeleteAt, RingP!MayDeleteAt,
   Ring!DeleteAt, RingP!DeleteAt, Ring!ThisDel, RingP!ThisDel, Ring!Job,
   RingP!Job, Ring!NewItem, RingP!NewItem, Ring!Move, RingP!Move, Ring!Call,
   RingP!Call, Ring!Idle, RingP!Idle, Ring!Next, RingP!Next

(* The first item of a chain that satisfies a condition, and what is built on it. *)
LEMMA SameFirst == ASSUME NEW h, NEW S PROVE Table!First(h, S) = TableP!First(h, S)
BY Zenon DEF Table!First, TableP!First, Table!Precedes, TableP!Precedes,
   Table!At, TableP!At, Table!Contains, TableP!Contains, Table!Rank, TableP!Rank

LEMMA SameLive == ASSUME NEW h PROVE Table!Live(h) = TableP!Live(h)
BY Zenon DEF Table!Live, TableP!Live, Table!ToSet, TableP!ToSet

LEMMA SameDeleted ==
  ASSUME NEW h, NEW gone PROVE Table!Deleted(h, gone) = TableP!Deleted(h, gone)
BY Zenon DEF Table!Deleted, TableP!Deleted, Table!Unlinked, TableP!Unlinked,
   Table!Cardinality, TableP!Cardinality

LEMMA SameBackwards ==
  ASSUME NEW h, NEW S PROVE Table!Backwards(h, S) = TableP!Backwards(h, S)
BY Zenon DEF Table!Backwards, TableP!Backwards, Table!Cardinality, TableP!Cardinality, Table!Precedes, TableP!Precedes,
   Table!At, TableP!At, Table!Contains, TableP!Contains, Table!Rank, TableP!Rank

LEMMA SameExpand ==
  ASSUME NEW h PROVE Table!Expand(h) = TableP!Expand(h)
BY SameBackwards, SameLive DEF Table!Expand, TableP!Expand, Table!PosOf, TableP!PosOf

LEMMA SameAdd ==
  ASSUME NEW h, NEW x, NEW v PROVE Table!Add(h, x, v) = TableP!Add(h, x, v)
<1>1. ASSUME NEW e, NEW p, NEW y
      PROVE  /\ Table!Replaced(e, y, p, v) = TableP!Replaced(e, y, p, v)
             /\ Table!Inserted(e, x, p, v) = TableP!Inserted(e, x, p, v)
             /\ Table!Same(e, p, y) = TableP!Same(e, p, y)
  BY DEF Table!Replaced, TableP!Replaced, Table!Inserted, TableP!Inserted,
     Table!Same, TableP!Same, Table!ToSet, TableP!ToSet
<1>2. ASSUME NEW e
      PROVE  /\ Table!PosOf(x, e.max) = TableP!PosOf(x, e.max)
             /\ Table!Expands(e) <=> TableP!Expands(e)
  BY DEF Table!PosOf, TableP!PosOf, Table!Expands, TableP!Expands
<1> QED BY <1>1, <1>2, SameFirst, SameExpand DEF Table!Add, TableP!Add

LEMMA SameEdit ==
  ASSUME NEW h, Table!AfterEdit(h) PROVE TableP!AfterEdit(h)
BY SameLive DEF Table!AfterEdit, TableP!AfterEdit, Table!Indexes, TableP!Indexes,
   Table!Voided, TableP!Voided, Table!WalkOver, TableP!WalkOver,
   Table!Without, TableP!Without

LEMMA SameDeletes ==
  ASSUME NEW gone, Table!Deletes(gone) PROVE TableP!Deletes(gone)
BY SameEdit, SameDeleted DEF Table!Deletes, TableP!Deletes, Table!Indexes, TableP!Indexes, Table!Keys, TableP!Keys,
   Table!MayDelete, TableP!MayDelete, Table!SparesCurrent, TableP!SparesCurrent,
   Table!SparesNoted, TableP!SparesNoted

LEMMA SameMoves ==
  ASSUME NEW i
  PROVE  /\ \A x : Table!NextCriteria(i, x) => TableP!NextCriteria(i, x)
         /\ Table!ThisDel(i) => TableP!ThisDel(i)
         /\ \A v : Table!ThisReplace(i, v) => TableP!ThisReplace(i, v)
         /\ Table!Rewind(i) => TableP!Rewind(i)
         /\ \A j : Table!CopyIndex(i, j) => TableP!CopyIndex(i, j)
<1>1. ASSUME NEW x, Table!NextCriteria(i, x) PROVE TableP!NextCriteria(i, x)
  BY <1>1, SameLive, SameFirst
  DEF Table!NextCriteria, TableP!NextCriteria, Table!Reading, TableP!Reading,
      Table!Dangling, TableP!Dangling, Table!NextFrom, TableP!NextFrom, Table!Candidates, TableP!Candidates,
      Table!After, TableP!After, Table!RestOfChain, TableP!RestOfChain, Table!From, TableP!From, Table!ToSet, TableP!ToSet,
      Table!StepTo, TableP!StepTo, Table!Met, TableP!Met, Table!Precedes, TableP!Precedes,
      Table!At, TableP!At, Table!Contains, TableP!Contains, Table!Rank, TableP!Rank
<1>2. ASSUME Table!ThisDel(i) PROVE TableP!ThisDel(i)
  BY <1>2, SameLive, SameDeleted
  DEF Table!ThisDel, TableP!ThisDel, Table!Reading, TableP!Reading,
      Table!Dangling, TableP!Dangling, Table!Contains, TableP!Contains, Table!MayDeleteAt, TableP!MayDeleteAt,
      Table!Indexes, TableP!Indexes,
      Table!SparesCurrent, TableP!SparesCurrent,
      Table!SparesNoted, TableP!SparesNoted, Table!Without, TableP!Without
<1>3. ASSUME NEW v, Table!ThisReplace(i, v) PROVE TableP!ThisReplace(i, v)
  BY <1>3, SameLive
  DEF Table!ThisReplace, TableP!ThisReplace, Table!Reading, TableP!Reading,
      Table!Dangling, TableP!Dangling
<1>4. ASSUME Table!Rewind(i) PROVE TableP!Rewind(i)
  BY <1>4, SameLive DEF Table!Rewind, TableP!Rewind, Table!Start, TableP!Start,
     Table!WalkOver, TableP!WalkOver
<1>5. ASSUME NEW j, Table!CopyIndex(i, j) PROVE TableP!CopyIndex(i, j)
  BY <1>5 DEF Table!CopyIndex, TableP!CopyIndex
<1> QED BY <1>1, <1>2, <1>3, <1>4, <1>5

LEMMA SameTable == (Table!Init => TableP!Init) /\ (Table!Next => TableP!Next)
<1>1. Table!Init => TableP!Init
  BY Zenon DEF Table!Init, TableP!Init, Table!EmptyTable, TableP!EmptyTable, Table!Keys, TableP!Keys,
     Table!Start, TableP!Start, Table!WalkOver, TableP!WalkOver
<1>2. ASSUME NEW x, NEW y, NEW v
      PROVE  /\ Table!HashAdd(x, v) => TableP!HashAdd(x, v)
             /\ Table!HashAddHash(x, y, v) => TableP!HashAddHash(x, y, v)
  BY SameAdd, SameEdit DEF Table!HashAdd, TableP!HashAdd, Table!HashAddHash, TableP!HashAddHash
<1>3. ASSUME NEW k PROVE Table!HashDel(k) => TableP!HashDel(k)
  BY SameDeletes, SameFirst DEF Table!HashDel, TableP!HashDel, Table!Same, TableP!Same, Table!ToSet, TableP!ToSet
<1>4. Table!Next => TableP!Next
  BY <1>2, <1>3, SameMoves, SameDeletes, SameLive
  DEF Table!Next, TableP!Next, Table!Indexes, TableP!Indexes, Table!Keys, TableP!Keys
<1> QED BY <1>1, <1>4

(* A behaviour of the five is one of each of them, which others leave alone. *)
LEMMA PoolBehaves == MCSpec => Pool!Spec
<1>1. MCInit => Pool!Init
  BY DEF MCInit
<1>2. [MCNext]_allvars => [Pool!Next]_(Pool!vars)
  BY DEF MCNext, allvars, poolvars, Pool!vars
<1> QED BY <1>1, <1>2, PTL DEF MCSpec, Pool!Spec

LEMMA RingBehaves == MCSpec => RingP!Spec
<1>1. MCInit => RingP!Init
  BY SameRing DEF MCInit
<1>2. [MCNext]_allvars => [RingP!Next]_(RingP!vars)
  BY SameRing DEF MCNext, allvars, ringvars, RingP!vars
<1> QED BY <1>1, <1>2, PTL DEF MCSpec, RingP!Spec

LEMMA TableBehaves == MCSpec => TableP!Spec
<1>1. MCInit => TableP!Init
  BY SameTable DEF MCInit
<1>2. [MCNext]_allvars => [TableP!Next]_(TableP!vars)
  BY SameTable DEF MCNext, allvars, hashvars, TableP!vars
<1> QED BY <1>1, <1>2, PTL DEF MCSpec, TableP!Spec

LEMMA RangesBehave == MCSpec => Spec
<1>1. MCInit => Init
  BY DEF MCInit
<1>2. [MCNext]_allvars => [Next]_vars
  BY DEF MCNext, allvars, vars
<1> QED BY <1>1, <1>2, PTL DEF MCSpec, Spec

LEMMA DataBehaves == MCSpec => Data!Spec
<1>1. MCInit => Data!Init
  BY DEF MCInit
<1>2. [MCNext]_allvars => [Data!Next]_(Data!datavars)
  BY DEF MCNext, allvars, datavars, Data!datavars
<1> QED BY <1>1, <1>2, PTL DEF MCSpec, Data!Spec

LEMMA Assumed == RingP!RingAssumption /\ TableP!HashAssumption
BY ContainersAssumption DEF Ring!RingAssumption, RingP!RingAssumption,
   Ring!RingLinksAssumption, RingP!RingLinksAssumption,
   Table!HashAssumption, TableP!HashAssumption

(* The properties of the two instances are the same. *)
LEMMA RingIsSame ==
  /\ RingP!TypeOK <=> Ring!TypeOK
  /\ RingP!RingIsSound <=> Ring!RingIsSound
  /\ RingP!NoFreedUse <=> Ring!NoFreedUse
  /\ RingP!WalkIsComplete <=> Ring!WalkIsComplete
<1>1. RingP!TypeOK <=> Ring!TypeOK
  BY Zenon DEF Ring!TypeOK, RingP!TypeOK, Ring!Nodes, RingP!Nodes, Ring!Indexes, RingP!Indexes
<1>2. RingP!RingIsSound <=> Ring!RingIsSound
  <2>1. ASSUME NEW r PROVE RingP!ItemsOf(r) = Ring!ItemsOf(r)
    BY Zenon DEF Ring!ItemsOf, RingP!ItemsOf, Ring!Advance, RingP!Advance
  <2>2. ASSUME NEW r PROVE RingP!RingCheck(r) <=> Ring!RingCheck(r)
    BY <2>1 DEF Ring!RingCheck, RingP!RingCheck
  <2>3. ASSUME NEW S PROVE RingP!Cardinality(S) = Ring!Cardinality(S)
    BY Zenon DEF Ring!Cardinality, RingP!Cardinality
  <2>4. PICK s, n : s = Ring!ItemsOf(ring) /\ n = Ring!Cardinality(ring.live)
    BY Zenon
  <2>5. s = RingP!ItemsOf(ring) /\ n = RingP!Cardinality(ring.live)
    BY <2>1, <2>3, <2>4
  <2>6. Ring!RingIsSound <=>
          (Ring!Idle => /\ Ring!RingCheck(ring)
                        /\ {s[k] : k \in 1 .. ring.count} = ring.live
                        /\ n = ring.count)
    BY <2>4, Zenon DEF Ring!RingIsSound
  <2>7. RingP!RingIsSound <=>
          (RingP!Idle => /\ RingP!RingCheck(ring)
                         /\ {s[k] : k \in 1 .. ring.count} = ring.live
                         /\ n = ring.count)
    BY <2>5, Zenon DEF RingP!RingIsSound
  <2>8. RingP!Idle <=> Ring!Idle
    BY DEF Ring!Idle, RingP!Idle, Ring!NoJob, RingP!NoJob
  <2> QED BY <2>2, <2>6, <2>7, <2>8, Zenon
<1>3. /\ RingP!NoFreedUse <=> Ring!NoFreedUse
      /\ RingP!WalkIsComplete <=> Ring!WalkIsComplete
  BY Zenon DEF Ring!NoFreedUse, RingP!NoFreedUse, Ring!WalkIsComplete, RingP!WalkIsComplete,
     Ring!Indexes, RingP!Indexes
<1> QED BY <1>1, <1>2, <1>3

LEMMA TableIsSame ==
  /\ TableP!TypeOK <=> Table!TypeOK
  /\ TableP!HashIsSound <=> Table!HashIsSound
  /\ TableP!FindsWhatWasPut <=> Table!FindsWhatWasPut
  /\ TableP!NoFreedUse <=> Table!NoFreedUse
  /\ TableP!WalkIsComplete <=> Table!WalkIsComplete
<1>1. ASSUME NEW h, NEW k PROVE Table!Value(h, k) = TableP!Value(h, k)
  BY SameFirst DEF Table!Value, TableP!Value, Table!Same, TableP!Same, Table!ToSet, TableP!ToSet
<1>2. Table!FindsWhatWasPut <=> TableP!FindsWhatWasPut
  BY <1>1 DEF Table!FindsWhatWasPut, TableP!FindsWhatWasPut, Table!Keys, TableP!Keys
<1>3. Table!TypeOK <=> TableP!TypeOK
  BY SameLive, Zenon DEF Table!TypeOK, TableP!TypeOK, Table!Indexes, TableP!Indexes
<1>4. Table!HashIsSound <=> TableP!HashIsSound
  BY SameLive DEF Table!HashIsSound, TableP!HashIsSound, Table!Contains, TableP!Contains,
     Table!PosOf, TableP!PosOf, Table!Cardinality, TableP!Cardinality, Table!ToSet, TableP!ToSet
<1>5. /\ TableP!NoFreedUse <=> Table!NoFreedUse
      /\ TableP!WalkIsComplete <=> Table!WalkIsComplete
  BY DEF Table!NoFreedUse, TableP!NoFreedUse, Table!WalkIsComplete, TableP!WalkIsComplete,
     Table!Indexes, TableP!Indexes
<1> QED BY <1>2, <1>3, <1>4, <1>5

(* The types of the five: their arrays, links, indexes and buffers keep their
   shape whatever the calls are. *)
THEOREM TypesOKHolds == MCSpec => []TypesOK
<1>1. RingP!Spec => [](RingP!TypeOK /\ RingP!RingIsSound)
  BY Assumed, RingP!RingIsRight
<1>2. TableP!Spec => [](TableP!TypeOK /\ TableP!HashIsSound /\ TableP!FindsWhatWasPut)
  BY Assumed, TableP!TableIsRight
<1>3. /\ Pool!TypeOK /\ RingP!TypeOK /\ TableP!TypeOK /\ TypeOK /\ Data!TypeOK
      => TypesOK
  BY RingIsSame, TableIsSame DEF TypesOK
<1> QED BY <1>1, <1>2, <1>3, PoolBehaves, RingBehaves, TableBehaves, RangesBehave, DataBehaves,
           PoolTypes, RangesAreRight, DataTyped, PTL

(* After each call the links of a ring agree in both directions and lead
   through all its items, each item of a table is in the chain of its hash,
   once, and the edges of a list of ranges follow each other, in a sorted
   list with a gap (ring.c:26-66, hash.c:97-171, ranges.c:198-249). *)
THEOREM LinksAreSoundHolds == MCSpec => []LinksAreSound
<1>1. RingP!Spec => [](RingP!TypeOK /\ RingP!RingIsSound)
  BY Assumed, RingP!RingIsRight
<1>2. TableP!Spec => [](TableP!TypeOK /\ TableP!HashIsSound /\ TableP!FindsWhatWasPut)
  BY Assumed, TableP!TableIsRight
<1>3. RingP!RingIsSound /\ TableP!HashIsSound /\ RangesAreSound => LinksAreSound
  BY RingIsSame, TableIsSame DEF LinksAreSound
<1> QED BY <1>1, <1>2, <1>3, RingBehaves, TableBehaves, RangesBehave, RangesAreRight, PTL

(* A search in a table finds what was put there last, and a list of ranges
   holds, lists and finds what was added and not deleted (hash.c:304-378,
   495-540, ports.h:21-26, 44-50). *)
THEOREM FindsWhatWasPutHolds == MCSpec => []FindsWhatWasPut
<1>1. TableP!Spec => [](TableP!TypeOK /\ TableP!HashIsSound /\ TableP!FindsWhatWasPut)
  BY Assumed, TableP!TableIsRight
<1>2. TableP!FindsWhatWasPut /\ HoldsWhatWasAsked => FindsWhatWasPut
  BY TableIsSame DEF FindsWhatWasPut
<1> QED BY <1>1, <1>2, TableBehaves, RangesBehave, RangesAreRight, PTL

(* With the rules MayDelete and MayDeleteAt, no call reads an item that was
   freed while an index points to it (ringi.c:173-201, hashi.c:202-253); a
   run shows that the documented rule alone does not suffice. *)
THEOREM NoFreedUseHolds ==
  ASSUME ~AsDocumented
  PROVE  MCSpec => []NoFreedUse
<1>1. RingP!Spec => [](RingP!NoFreedUse /\ RingP!WalkIsComplete)
  BY Assumed, RingP!IndexesAreRight
<1>2. TableP!Spec => [](TableP!NoFreedUse /\ TableP!WalkIsComplete)
  BY Assumed, TableP!WalksAreRight
<1>3. RingP!NoFreedUse /\ TableP!NoFreedUse => NoFreedUse
  BY RingIsSame, TableIsSame DEF NoFreedUse
<1> QED BY <1>1, <1>2, <1>3, RingBehaves, TableBehaves, PTL

(* With the same rules, a walk to its end meets once each item that was there
   at its start and that nobody deleted (ringi.h:18-25, hashi.h:19-23,
   ranges.c:1359-1501). *)
THEOREM WalkIsCompleteHolds ==
  ASSUME ~AsDocumented
  PROVE  MCSpec => []WalkIsComplete
<1>1. RingP!Spec => [](RingP!NoFreedUse /\ RingP!WalkIsComplete)
  BY Assumed, RingP!IndexesAreRight
<1>2. TableP!Spec => [](TableP!NoFreedUse /\ TableP!WalkIsComplete)
  BY Assumed, TableP!WalksAreRight
<1>3. RingP!WalkIsComplete /\ TableP!WalkIsComplete /\ TourIsComplete => WalkIsComplete
  BY RingIsSame, TableIsSame DEF WalkIsComplete
<1> QED BY <1>1, <1>2, <1>3, RingBehaves, TableBehaves, RangesBehave, RangesAreRight, PTL

(* No buffer is given to two users, nor while a user has it
   (bufpool.c:145-187). *)
THEOREM GivenOnceHolds == MCSpec => []GivenOnce
<1>1. Pool!GivenOnce => GivenOnce
  BY DEF GivenOnce
<1> QED BY <1>1, PoolBehaves, NoBufferTwice, PTL

(* The pool grows only when every buffer is in use (bufpool.c:144-180). *)
THEOREM GrowsWhenFullHolds == MCSpec => GrowsWhenFull
BY PoolBehaves, GrowsOnlyFull, PTL DEF GrowsWhenFull

(* What the reads of a data io give and the writes let leave is a stream cut
   in items: no byte is lost, added or moved, whatever the sizes of the
   packets below and whichever write fails (iousual_data.c:63-310). *)
THEOREM IsStreamHolds == MCSpec => IsStream
BY DataBehaves, DataIsStream, PTL DEF IsStream
=============================================================================
