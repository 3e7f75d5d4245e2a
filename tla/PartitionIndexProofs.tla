----------------------- MODULE PartitionIndexProofs -------------------------
(***************************************************************************)
(* What is proved about the storage of one partition besides: that fetch   *)
(* finds every record through the sparse index (IndexInv), that the        *)
(* counters stay in their bounds (BoundInv) and, with these, that a log    *)
(* whose appends fit in one segment implements DurableLog.                 *)
(***************************************************************************)
EXTENDS PartitionLogProofs

(* The sparse index and fetch.                                             *)

\* The place of every record, file by file.
PlacesIn(s) == [i \in 1..Len(s) |-> [p \in 1..Len(s[i]) |-> <<i, p - 1>>]]

\* There is one place for each record,
LEMMA PlacesTypes ==
    ASSUME NEW R, NEW s \in Seq(Seq(R))
    PROVE  /\ PlacesIn(s) \in Seq(Seq(Nat \X Nat)) /\ Len(PlacesIn(s)) = Len(s)
           /\ \A i \in 1..Len(s) :
                 /\ Len(PlacesIn(s)[i]) = Len(s[i])
                 /\ \A p \in 1..Len(s[i]) : PlacesIn(s)[i][p] = <<i, p - 1>>
  <1>. DEFINE P(i) == [p \in 1..Len(s[i]) |-> <<i, p - 1>>]
              N == Len(s)
  <1>0. N \in Nat
    OBVIOUS
  <1>1. ASSUME NEW i \in 1..N
        PROVE  /\ P(i) \in Seq(Nat \X Nat) /\ Len(P(i)) = Len(s[i])
               /\ \A p \in 1..Len(s[i]) : P(i)[p] = <<i, p - 1>>
    <2>1. Len(s[i]) \in Nat /\ i \in Nat
      OBVIOUS
    <2>. DEFINE L == Len(s[i])
    <2>. HIDE DEF L
    <2>2. L \in Nat
      BY <2>1, Zenon DEF L
    <2>3. [p \in 1..L |-> <<i, p - 1>>] \in Seq(Nat \X Nat) /\ Len([p \in 1..L |-> <<i, p - 1>>]) = L
      BY <2>1, <2>2
    <2>. QED  BY <2>3, Zenon DEF L
  <1>2. PlacesIn(s) = [i \in 1..N |-> P(i)]
    BY Zenon DEF PlacesIn
  <1>. HIDE DEF P, N
  <1>3. PlacesIn(s) \in Seq(Seq(Nat \X Nat)) /\ Len(PlacesIn(s)) = N
    BY <1>0, <1>1, <1>2
  <1>4. \A i \in 1..N : PlacesIn(s)[i] = P(i)
    BY <1>2, Zenon
  <1>. QED  BY <1>1, <1>3, <1>4, Zenon DEF N

\* As many files, of the same lengths.
SameLengths(s, t) == Len(t) = Len(s) /\ \A n \in 1..Len(s) : Len(t[n]) = Len(s[n])

\* files of the same lengths have the same numbers of records up to each one,
LEMMA UptoSame ==
    ASSUME NEW R, NEW s \in Seq(Seq(R)), NEW Q, NEW t \in Seq(Seq(Q)), SameLengths(s, t)
    PROVE  \A m \in 0..Len(s) : Len(Upto(t, m)) = Len(Upto(s, m))
  <1>a. Len(t) = Len(s) /\ \A n \in 1..Len(s) : Len(t[n]) = Len(s[n])
    BY Zenon DEF SameLengths
  <1>. DEFINE S == {m \in Nat : m <= Len(s) => Len(Upto(t, m)) = Len(Upto(s, m))}
  <1>0. Len(s) \in Nat
    OBVIOUS
  <1>1. 0 \in S
    <2>1. Upto(s, 0) = << >> /\ Upto(t, 0) = << >>
      BY UptoSteps, Zenon
    <2>. QED  BY <2>1, Zenon
  <1>2. ASSUME NEW m \in Nat, m \in S PROVE m + 1 \in S
    <2>. DEFINE k == m + 1
    <2>0. k \in Nat
      OBVIOUS
    <2>. SUFFICES ASSUME k <= Len(s) PROVE Len(Upto(t, k)) = Len(Upto(s, k))
      BY <2>0, Zenon
    <2>1. k \in 1..Len(s) /\ k - 1 = m /\ m <= Len(s) /\ m \in 0..Len(s)
      BY <1>0
    <2>. HIDE DEF k
    <2>2. Len(Upto(t, m)) = Len(Upto(s, m)) /\ Len(t[k]) = Len(s[k])
      BY <1>a, <1>2, <2>1, Zenon
    <2>3. Upto(s, m) \in Seq(R) /\ s[k] \in Seq(R) /\ Upto(s, k) = Upto(s, m) \o s[k]
      BY <2>1, UptoSteps, Zenon
    <2>4. Upto(t, m) \in Seq(Q) /\ t[k] \in Seq(Q) /\ Upto(t, k) = Upto(t, m) \o t[k]
      BY <1>a, <2>1, UptoSteps, Zenon
    <2>5. \A T : \A a, b \in Seq(T) : Len(a \o b) = Len(a) + Len(b)
      OBVIOUS
    <2>6. Len(Upto(s, k)) = Len(Upto(s, m)) + Len(s[k])
      BY <2>3, <2>5, Zenon
    <2>7. Len(Upto(t, k)) = Len(Upto(t, m)) + Len(t[k])
      BY <2>4, <2>5, Zenon
    <2>. QED  BY <2>2, <2>6, <2>7, Zenon
  <1>. HIDE DEF S
  <1>3. \A m \in Nat : m \in S
    BY <1>1, <1>2, Climb, Zenon
  <1>4. \A m \in 0..Len(s) : m \in Nat /\ m <= Len(s)
    BY <1>0
  <1>. QED  BY <1>3, <1>4, Zenon DEF S

\* and the record at a place is the one of its offset.
LEMMA PlaceOfRecord ==
    ASSUME NEW R, NEW s \in Seq(Seq(R)), NEW n \in 1..Len(s), NEW p \in 1..Len(s[n])
    PROVE  /\ Len(Upto(s, n - 1)) \in Nat /\ Len(Upto(s, n - 1)) + p \in 1..Len(FlattenSeq(s))
           /\ FlattenSeq(s)[Len(Upto(s, n - 1)) + p] = s[n][p]
           /\ FlattenSeq(PlacesIn(s))[Len(Upto(s, n - 1)) + p] = <<n, p - 1>>
  <1>. DEFINE t == PlacesIn(s)
              u == Len(Upto(s, n - 1))
  <1>0. n - 1 \in 0..Len(s)
    OBVIOUS
  <1>1. /\ t \in Seq(Seq(Nat \X Nat)) /\ Len(t) = Len(s)
        /\ \A i \in 1..Len(s) : Len(t[i]) = Len(s[i]) /\ \A q \in 1..Len(s[i]) : t[i][q] = <<i, q - 1>>
    BY PlacesTypes, Zenon
  <1>2. u \in Nat
    <2>1. Upto(s, n - 1) \in Seq(R)
      BY <1>0, UptoSteps, Zenon
    <2>. QED  BY <2>1
  <1>. HIDE DEF t
  <1>3. Len(Upto(t, n - 1)) = u
    <2>1. t \in Seq(Seq(Nat \X Nat)) /\ SameLengths(s, t)
      BY <1>1, Zenon DEF SameLengths
    <2>2. \A m \in 0..Len(s) : Len(Upto(t, m)) = Len(Upto(s, m))
      BY <2>1, UptoSame, Zenon
    <2>. QED  BY <1>0, <2>2, Zenon
  <1>4. u + p \in 1..Len(FlattenSeq(s)) /\ FlattenSeq(s)[u + p] = s[n][p]
    BY RecordAt, Zenon
  <1>5. n \in 1..Len(t) /\ p \in 1..Len(t[n])
    BY <1>1, Zenon
  <1>6. FlattenSeq(t)[Len(Upto(t, n - 1)) + p] = t[n][p]
    BY <1>1, <1>5, RecordAt, Zenon
  <1>. QED  BY <1>1, <1>2, <1>3, <1>4, <1>6, Zenon DEF t

\* ix is the sparse index of the first n of the places P: each entry is of one
\* of them, their offsets do not fall, and a place at the beginning of a segment
\* has an entry.
Indexed(ix, P, n) ==
    /\ ix \in Seq([offset : Nat, segment_index : Nat, byte_position : Nat])
    /\ \A m \in 1..Len(ix) :
          /\ ix[m].offset < n
          /\ P[ix[m].offset + 1] = <<ix[m].segment_index, ix[m].byte_position>>
    /\ \A m \in 1..Len(ix) : \A l \in 1..m : ix[l].offset <= ix[m].offset
    /\ \A o \in 1..n : P[o][2] = 0 => \E m \in 1..Len(ix) : ix[m].offset + 1 = o

\* checkpoint indexes one place more.
LEMMA CheckpointIndexes ==
    ASSUME NEW ix, NEW P, NEW n \in Nat, Indexed(ix, P, n), NEW i \in Nat, NEW p \in Nat,
           P[n + 1] = <<i, p>>
    PROVE  Indexed(checkpoint(ix, n, i, p), P, n + 1)
  <1>. DEFINE e == [offset |-> n, segment_index |-> i, byte_position |-> p]
              E == [offset : Nat, segment_index : Nat, byte_position : Nat]
              N == Len(ix)
  <1>1. /\ e \in E /\ ix \in Seq(E) /\ N \in Nat /\ \A m \in 1..N : ix[m].offset \in Nat
        /\ e.offset = n /\ e.segment_index = i /\ e.byte_position = p
    <2>1. e \in E /\ e.offset = n /\ e.segment_index = i /\ e.byte_position = p
      OBVIOUS
    <2>2. ix \in Seq(E)
      BY Zenon DEF Indexed
    <2>3. N \in Nat /\ \A m \in 1..N : ix[m] \in E
      <3>1. \A S : \A q \in Seq(S) : Len(q) \in Nat /\ \A m \in 1..Len(q) : q[m] \in S
        OBVIOUS
      <3>. QED  BY <2>2, <3>1, Zenon
    <2>4. \A x \in E : x.offset \in Nat
      OBVIOUS
    <2>. QED  BY <2>1, <2>2, <2>3, <2>4, Zenon
  <1>2. /\ \A m \in 1..N : ix[m].offset < n /\ ix[m].offset < n + 1
        /\ \A m \in 1..N : P[ix[m].offset + 1] = <<ix[m].segment_index, ix[m].byte_position>>
        /\ \A m \in 1..N : \A l \in 1..m : ix[l].offset <= ix[m].offset
        /\ \A o \in 1..n : P[o][2] = 0 => \E m \in 1..N : ix[m].offset + 1 = o
    <2>1. \A m \in 1..N : ix[m].offset < n
      BY Zenon DEF Indexed
    <2>2. \A m \in 1..N : ix[m].offset < n + 1
      BY <1>1, <2>1
    <2>. QED  BY <2>1, <2>2, Zenon DEF Indexed
  <1>3. \A o \in 1..(n + 1) : o \in 1..n \/ o = n + 1
    OBVIOUS
  <1>4. CASE n % IndexStride = 0 \/ p = 0
    <2>. DEFINE jx == Append(ix, e)
    <2>1. checkpoint(ix, n, i, p) = jx
      BY <1>4, Zenon DEF checkpoint
    <2>. HIDE DEF E, e, N
    <2>2. /\ jx \in Seq(E) /\ Len(jx) = N + 1 /\ jx[N + 1] = e
          /\ \A m \in 1..N : jx[m] = ix[m]
      BY <1>1 DEF N
    <2>3. \A m \in 1..(N + 1) : m \in 1..N \/ m = N + 1
      BY <1>1
    <2>4. N + 1 \in 1..(N + 1) /\ \A m \in 1..N : m \in 1..(N + 1)
      BY <1>1
    <2>5. n < n + 1 /\ n <= n
      OBVIOUS
    <2>. HIDE DEF jx
    <2>6. \A m \in 1..Len(jx) :
            /\ jx[m].offset < n + 1
            /\ P[jx[m].offset + 1] = <<jx[m].segment_index, jx[m].byte_position>>
      BY <1>1, <1>2, <2>2, <2>3, <2>5, Zenon
    <2>7. \A m \in 1..Len(jx) : \A l \in 1..m : jx[l].offset <= jx[m].offset
      <3>. SUFFICES ASSUME NEW m \in 1..(N + 1), NEW l \in 1..m
                    PROVE  jx[l].offset <= jx[m].offset
        BY <2>2, Zenon
      <3>1. CASE m \in 1..N
        <4>1. l \in 1..N
          BY <1>1, <3>1
        <4>. QED  BY <1>2, <2>2, <3>1, <4>1, Zenon
      <3>2. CASE m = N + 1
        <4>1. l \in 1..N \/ l = N + 1
          BY <1>1, <3>2
        <4>2. \A k \in 1..N : ix[k].offset <= n
          BY <1>1, <1>2
        <4>. QED  BY <1>1, <2>2, <2>5, <3>2, <4>1, <4>2, Zenon
      <3>. QED  BY <2>3, <3>1, <3>2, Zenon
    <2>8. \A o \in 1..(n + 1) : P[o][2] = 0 => \E m \in 1..Len(jx) : jx[m].offset + 1 = o
      <3>. SUFFICES ASSUME NEW o \in 1..(n + 1), P[o][2] = 0
                    PROVE  \E m \in 1..(N + 1) : jx[m].offset + 1 = o
        BY <2>2, Zenon
      <3>1. CASE o = n + 1
        BY <1>1, <2>2, <2>4, <3>1, Zenon
      <3>2. CASE o \in 1..n
        BY <1>2, <2>2, <2>4, <3>2, Zenon
      <3>. QED  BY <1>3, <3>1, <3>2, Zenon
    <2>. QED  BY <2>1, <2>2, <2>6, <2>7, <2>8, Zenon DEF Indexed, E
  <1>5. CASE ~(n % IndexStride = 0 \/ p = 0)
    <2>1. checkpoint(ix, n, i, p) = ix
      BY <1>5, Zenon DEF checkpoint
    <2>2. P[n + 1][2] # 0
      BY <1>5
    <2>3. \A o \in 1..(n + 1) : P[o][2] = 0 => \E m \in 1..Len(ix) : ix[m].offset + 1 = o
      BY <1>2, <1>3, <2>2, Zenon
    <2>. QED  BY <1>1, <1>2, <2>1, <2>3, Zenon DEF Indexed
  <1>. QED  BY <1>4, <1>5, Zenon

\* The indexes between the records, from the first to the last.
Rebuilds(a, P, n) ==
    a = [m \in 0..n |-> IF m = 0 THEN << >> ELSE checkpoint(a[m - 1], m - 1, P[m][1], P[m][2])]

\* Such a sequence of indexes exists,
LEMMA RebuildsExists ==
    ASSUME NEW P, NEW n \in Nat
    PROVE  \E a : Rebuilds(a, P, n)
  <1>. DEFINE S == {m \in Nat : \E a : Rebuilds(a, P, m)}
              Next1(x, m) == checkpoint(x, m - 1, P[m][1], P[m][2])
  <1>1. 0 \in S
    <2>. DEFINE a == [m \in 0..0 |-> << >>]
    <2>1. a = [m \in 0..0 |-> IF m = 0 THEN << >> ELSE Next1(a[m - 1], m)]
      <3>. HIDE DEF Next1
      <3>. QED  OBVIOUS
    <2>2. Rebuilds(a, P, 0)
      BY <2>1, Zenon DEF Rebuilds
    <2>. QED  BY <2>2, Zenon
  <1>2. ASSUME NEW m \in Nat, m \in S PROVE m + 1 \in S
    <2>1. PICK a : Rebuilds(a, P, m)
      BY <1>2, Zenon
    <2>. DEFINE last == Next1(a[m], m + 1)
                g == [i \in 0..(m + 1) |-> IF i <= m THEN a[i] ELSE last]
                h == [i \in 0..(m + 1) |-> IF i = 0 THEN << >> ELSE Next1(g[i - 1], i)]
    <2>2. \A i \in 0..m : a[i] = IF i = 0 THEN << >> ELSE Next1(a[i - 1], i)
      BY <2>1, Zenon DEF Rebuilds
    <2>. HIDE DEF last, Next1
    <2>3. ASSUME NEW i \in 0..(m + 1) PROVE g[i] = h[i]
      <3>1. CASE i = 0
        <4>1. i \in 0..m /\ g[i] = a[i] /\ h[i] = << >>
          BY <3>1
        <4>. QED  BY <2>2, <3>1, <4>1, Zenon
      <3>2. CASE i <= m /\ i # 0
        <4>1. i \in 0..m /\ g[i] = a[i] /\ g[i-1] = a[i-1] /\ h[i] = Next1(g[i-1], i)
          BY <3>2
        <4>. QED  BY <2>2, <3>2, <4>1, Zenon
      <3>3. CASE ~(i <= m)
        <4>1. i = m + 1 /\ i # 0 /\ i - 1 = m /\ g[i] = last /\ g[i-1] = a[m]
          BY <3>3
        <4>2. h[i] = Next1(g[i-1], i)
          BY <4>1
        <4>. QED  BY <4>1, <4>2, Zenon DEF last
      <3>. QED  BY <3>1, <3>2, <3>3, Zenon
    <2>4. g = h
      BY <2>3
    <2>5. Rebuilds(g, P, m + 1)
      BY <2>4, Zenon DEF Rebuilds, Next1
    <2>. QED  BY <2>5
  <1>. HIDE DEF S
  <1>3. n \in S
    BY <1>1, <1>2, Climb, Zenon
  <1>. QED  BY <1>3, Zenon DEF S

\* and ends with the index of all places.
LEMMA RebuildsIndex ==
    ASSUME NEW P \in Seq(Nat \X Nat), NEW a, Rebuilds(a, P, Len(P))
    PROVE  Indexed(a[Len(P)], P, Len(P))
  <1>. DEFINE N == Len(P)
              S == {m \in Nat : m <= N => Indexed(a[m], P, m)}
  <1>0. N \in Nat /\ N <= N
    OBVIOUS
  <1>1. /\ a[0] = << >>
        /\ \A m \in 1..N : a[m] = checkpoint(a[m - 1], m - 1, P[m][1], P[m][2])
    <2>. DEFINE C(m) == checkpoint(a[m - 1], m - 1, P[m][1], P[m][2])
    <2>1. a = [m \in 0..N |-> IF m = 0 THEN << >> ELSE C(m)]
      BY Zenon DEF Rebuilds
    <2>. HIDE DEF C, N
    <2>2. a[0] = << >> /\ \A m \in 1..N : a[m] = C(m)
      BY <1>0, <2>1
    <2>. QED  BY <2>2, Zenon DEF C
  <1>2. 0 \in S
    <2>1. Len(<< >>) = 0 /\ 1..0 = {}
          /\ << >> \in Seq([offset : Nat, segment_index : Nat, byte_position : Nat])
      OBVIOUS
    <2>2. Indexed(<< >>, P, 0)
      BY <2>1, Zenon DEF Indexed
    <2>. QED  BY <1>1, <2>2, Zenon
  <1>3. ASSUME NEW m \in Nat, m \in S PROVE m + 1 \in S
    <2>. DEFINE k == m + 1
    <2>0. k \in Nat
      OBVIOUS
    <2>. SUFFICES ASSUME k <= N PROVE Indexed(a[k], P, k)
      BY <2>0, Zenon
    <2>1. k \in 1..N /\ m <= N /\ k - 1 = m
      BY <1>0
    <2>. HIDE DEF k, N
    <2>2. Indexed(a[m], P, m)
      BY <1>3, <2>1, Zenon
    <2>3. P[k] \in Nat \X Nat
      BY <2>1 DEF N
    <2>4. P[k][1] \in Nat /\ P[k][2] \in Nat /\ P[k] = <<P[k][1], P[k][2]>>
      BY <2>3
    <2>5. a[k] = checkpoint(a[m], m, P[k][1], P[k][2])
      BY <1>1, <2>1, Zenon
    <2>6. P[m + 1] = <<P[k][1], P[k][2]>>
      BY <2>4, Zenon DEF k
    <2>7. Indexed(checkpoint(a[m], m, P[k][1], P[k][2]), P, m + 1)
      BY <2>2, <2>4, <2>6, CheckpointIndexes, Zenon
    <2>. QED  BY <2>5, <2>7, Zenon DEF k
  <1>. HIDE DEF S
  <1>4. N \in S
    BY <1>0, <1>2, <1>3, Climb, Zenon
  <1>. QED  BY <1>0, <1>4, Zenon DEF S

\* rebuild_index_from_segment over the files in order.
LEMMA RebuiltIndexes ==
    ASSUME file \in Seq(Seq(Records))
    PROVE  LET P == FlattenSeq(PlacesIn(file))
           IN  /\ P \in Seq(Nat \X Nat) /\ Len(P) = Len(FlattenSeq(file))
               /\ Indexed(RebuiltIndex([i \in 1..Len(file) |-> i]), P, Len(P))
  <1>. DEFINE order == [i \in 1..Len(file) |-> i]
              t == PlacesIn(file)
              P == FlattenSeq(t)
              places == FlattenSeq([i \in 1..Len(order) |->
                           [p \in 1..Len(file[order[i]]) |-> <<i, p - 1>>]])
              a == CHOOSE a : Rebuilds(a, P, Len(P))
  <1>1. t \in Seq(Seq(Nat \X Nat)) /\ SameLengths(file, t)
    BY PlacesTypes, Zenon DEF SameLengths
  <1>2. P \in Seq(Nat \X Nat) /\ Upto(t, Len(t)) = P /\ Upto(file, Len(file)) = FlattenSeq(file)
    <2>. HIDE DEF t
    <2>. QED  BY <1>1, UptoSteps, Zenon
  <1>3. Len(P) = Len(FlattenSeq(file))
    <2>0. Len(file) \in 0..Len(file) /\ Len(t) = Len(file)
      <3>1. Len(file) \in Nat
        OBVIOUS
      <3>2. \A l \in Nat : l \in 0..l
        OBVIOUS
      <3>. QED  BY <1>1, <3>1, <3>2, Zenon DEF SameLengths
    <2>. HIDE DEF t
    <2>1. \A m \in 0..Len(file) : Len(Upto(t, m)) = Len(Upto(file, m))
      BY <1>1, UptoSame, Zenon
    <2>. QED  BY <1>2, <2>0, <2>1, Zenon
  <1>4. Len(P) \in Nat
    <2>. HIDE DEF P
    <2>. QED  BY <1>2
  <1>5. places = P
    <2>1. Len(order) = Len(file) /\ \A i \in 1..Len(file) : order[i] = i
      OBVIOUS
    <2>. HIDE DEF order
    <2>. QED  BY <2>1, Zenon DEF PlacesIn
  <1>6. RebuiltIndex(order) = a[Len(P)]
    <2>1. RebuiltIndex(order) =
            LET index[n \in 0..Len(places)] ==
                  IF n = 0 THEN << >>
                  ELSE checkpoint(index[n - 1], n - 1, places[n][1], places[n][2])
            IN  index[Len(places)]
      BY Zenon DEF RebuiltIndex
    <2>. HIDE DEF places, P, order
    <2>. QED  BY <1>5, <2>1, Zenon DEF Rebuilds
  <1>7. Rebuilds(a, P, Len(P))
    BY <1>4, RebuildsExists, Zenon
  <1>8. Indexed(a[Len(P)], P, Len(P))
    <2>. HIDE DEF a, P
    <2>. QED  BY <1>2, <1>7, RebuildsIndex, Zenon
  <1>. QED  BY <1>2, <1>3, <1>6, <1>8, Zenon

\* The places fetch scans over, from the checkpoint on.
Walks(a, place, count) ==
    a = [n \in 0..count |->
           IF n = 0 THEN place
           ELSE LET i == a[n - 1][1]
                    p == a[n - 1][2] + 1
                IN  IF p = Len(file[segments[i]]) /\ i < Len(segments)
                    THEN <<i + 1, 0>> ELSE <<i, p>>]

\* A scan that ends before the end of its segment stays in it.
LEMMA WalkStays ==
    ASSUME NEW i \in Nat, NEW p \in Nat, NEW count \in Nat,
           Len(file[segments[i]]) \in Nat, p + count < Len(file[segments[i]])
    PROVE  Walk(<<i, p>>, count) = <<i, p + count>>
  <1>. DEFINE place == <<i, p>>
              L == Len(file[segments[i]])
              M == Len(segments)
              Step(q) == IF q[2] + 1 = Len(file[segments[q[1]]]) /\ q[1] < M
                         THEN <<q[1] + 1, 0>> ELSE <<q[1], q[2] + 1>>
              g == [n \in 0..count |-> <<i, p + n>>]
              h == [n \in 0..count |-> IF n = 0 THEN place ELSE Step(g[n - 1])]
              a == CHOOSE a : Walks(a, place, count)
  <1>1. ASSUME NEW n \in Nat, n < count PROVE Step(<<i, p + n>>) = <<i, p + (n + 1)>>
    <2>. DEFINE q == <<i, p + n>>
    <2>1. q[1] = i /\ q[2] = p + n
      OBVIOUS
    <2>2. (p + n) + 1 # L /\ (p + n) + 1 = p + (n + 1)
      <3>. DEFINE l == Len(file[segments[i]])
      <3>. HIDE DEF l
      <3>1. l \in Nat /\ p + count < l
        BY Zenon DEF l
      <3>2. (p + n) + 1 # l /\ (p + n) + 1 = p + (n + 1)
        BY <1>1, <3>1
      <3>. QED  BY <3>2, Zenon DEF l
    <2>. HIDE DEF q
    <2>. QED  BY <2>1, <2>2, Zenon DEF q
  <1>. HIDE DEF Step
  <1>2. g = h
    <2>1. ASSUME NEW n \in 0..count PROVE g[n] = h[n]
      <3>1. CASE n = 0
        BY <3>1
      <3>2. CASE n # 0
        <4>. DEFINE k == n - 1
        <4>1. k \in Nat /\ k < count /\ k + 1 = n /\ k \in 0..count
          BY <3>2
        <4>. HIDE DEF k
        <4>2. g[k] = <<i, p + k>> /\ g[n] = <<i, p + n>>
          BY <4>1, Zenon
        <4>3. h[n] = Step(g[n - 1])
          BY <3>2, Zenon
        <4>4. Step(<<i, p + k>>) = <<i, p + n>>
          BY <1>1, <4>1, Zenon
        <4>. QED  BY <4>2, <4>3, <4>4, Zenon DEF k
      <3>. QED  BY <3>1, <3>2, Zenon
    <2>. QED  BY <2>1
  <1>3. Walks(g, place, count)
    BY <1>2, Zenon DEF Walks, Step
  <1>4. Walks(a, place, count)
    <2>. HIDE DEF g, place
    <2>. QED  BY <1>3, Zenon
  <1>5. Walk(place, count) = a[count]
    <2>. HIDE DEF place
    <2>. QED  BY Zenon DEF Walk, Walks
  <1>. HIDE DEF a
  <1>6. \A n \in 0..count : a[n] = IF n = 0 THEN place ELSE Step(a[n - 1])
    BY <1>4, Zenon DEF Walks, Step
  <1>. DEFINE S == {n \in Nat : n <= count => a[n] = <<i, p + n>>}
  <1>7. 0 \in S
    <2>1. 0 \in 0..count /\ p + 0 = p
      OBVIOUS
    <2>. QED  BY <1>6, <2>1, Zenon
  <1>8. ASSUME NEW n \in Nat, n \in S PROVE n + 1 \in S
    <2>. DEFINE k == n + 1
    <2>0. k \in Nat
      OBVIOUS
    <2>. SUFFICES ASSUME k <= count PROVE a[k] = <<i, p + k>>
      BY <2>0, Zenon
    <2>1. k \in 0..count /\ k # 0 /\ k - 1 = n /\ n <= count /\ n < count
      OBVIOUS
    <2>2. Step(<<i, p + n>>) = <<i, p + k>>
      BY <1>1, <2>1, Zenon
    <2>. HIDE DEF k
    <2>. QED  BY <1>6, <1>8, <2>1, <2>2, Zenon
  <1>. HIDE DEF S
  <1>9. count \in S
    BY <1>7, <1>8, Climb, Zenon
  <1>10. count <= count
    OBVIOUS
  <1>. QED  BY <1>5, <1>9, <1>10, Zenon DEF S

\* A set of numbers up to N has a largest one.
LEMMA Largest ==
    ASSUME NEW N \in Nat, NEW I, I \subseteq 0..N, I # {}
    PROVE  Max(I) \in I /\ \A y \in I : y <= Max(I)
  <1>. DEFINE Has(J) == \E x \in J : \A y \in J : x >= y
              S == {m \in Nat : \A J \in SUBSET (0..m) : J # {} => Has(J)}
  <1>1. 0 \in S
    <2>1. 0..0 = {0} /\ 0 >= 0
      OBVIOUS
    <2>. QED  BY <2>1, Zenon
  <1>2. ASSUME NEW m \in Nat, m \in S PROVE m + 1 \in S
    <2>. DEFINE k == m + 1
    <2>0. k \in Nat /\ \A y \in 0..k : k >= y /\ (y # k => y \in 0..m)
      OBVIOUS
    <2>. HIDE DEF k
    <2>. SUFFICES ASSUME NEW J \in SUBSET (0..k), J # {} PROVE Has(J)
      BY <2>0, Zenon DEF k
    <2>1. CASE k \in J
      BY <2>0, <2>1, Zenon
    <2>2. CASE k \notin J
      <3>1. J \in SUBSET (0..m)
        BY <2>0, <2>2, Zenon
      <3>. QED  BY <1>2, <3>1, Zenon
    <2>. QED  BY <2>1, <2>2, Zenon
  <1>. HIDE DEF S
  <1>3. N \in S
    BY <1>1, <1>2, Climb, Zenon
  <1>4. Has(I)
    BY <1>3, Zenon DEF S
  <1>5. Max(I) \in I /\ \A y \in I : Max(I) >= y
    BY <1>4, Zenon DEF Max
  <1>6. \A y \in I : y \in Nat
    OBVIOUS
  <1>7. \A x, y \in Nat : x >= y => y <= x
    OBVIOUS
  <1>. QED  BY <1>5, <1>6, <1>7, Zenon

\* fetch finds the record of every offset below next_offset_.
LEMMA FetchFinds ==
    ASSUME file \in Seq(Seq(Records)), segments = [i \in 1..Len(file) |-> i],
           next_offset_ = Len(FlattenSeq(file)),
           Indexed(index_, FlattenSeq(PlacesIn(file)), Len(FlattenSeq(file))),
           NEW o \in 0..(next_offset_ - 1)
    PROVE  /\ PlaceOf(o) # <<0, 0>>
           /\ file[segments[PlaceOf(o)[1]]][PlaceOf(o)[2] + 1] = FlattenSeq(file)[o + 1]
  <1>. DEFINE F == FlattenSeq(file)
              P == FlattenSeq(PlacesIn(file))
              N == Len(index_)
              E == [offset : Nat, segment_index : Nat, byte_position : Nat]
  <1>0. F \in Seq(Records) /\ Len(F) \in Nat
    <2>1. F \in Seq(Records)
      BY UptoSteps, Zenon
    <2>. HIDE DEF F
    <2>. QED  BY <2>1
  <1>1. o \in Nat /\ o + 1 \in 1..Len(F) /\ ~(o >= next_offset_)
    <2>. HIDE DEF F
    <2>1. next_offset_ = Len(F)
      BY Zenon DEF F
    <2>. QED  BY <1>0, <2>1
  <1>2. PICK n \in 1..Len(file) : \E p \in 1..Len(file[n]) : o + 1 = Len(Upto(file, n - 1)) + p
    BY <1>1, PlaceExists, Zenon
  <1>3. PICK p \in 1..Len(file[n]) : o + 1 = Len(Upto(file, n - 1)) + p
    BY <1>2, Zenon
  <1>. DEFINE u == Len(Upto(file, n - 1))
              l == Len(file[n])
  <1>4. l \in Nat /\ n \in Nat /\ n # 0 /\ p \in Nat
    OBVIOUS
  <1>5. ASSUME NEW q \in 1..l
        PROVE  u \in Nat /\ u + q \in 1..Len(F) /\ F[u + q] = file[n][q] /\ P[u + q] = <<n, q - 1>>
    BY PlaceOfRecord, Zenon
  <1>6. 1 \in 1..l
    BY <1>4
  <1>7. u \in Nat /\ P[u + 1] = <<n, 0>>
    <2>1. 1 - 1 = 0
      OBVIOUS
    <2>. QED  BY <1>5, <1>6, <2>1, Zenon
  <1>8. segments[n] = n
    BY Zenon
  <1>9. /\ index_ \in Seq(E)
        /\ \A m \in 1..N : P[index_[m].offset + 1] = <<index_[m].segment_index, index_[m].byte_position>>
        /\ \A m \in 1..N : \A k \in 1..m : index_[k].offset <= index_[m].offset
        /\ \A q \in 1..Len(F) : P[q][2] = 0 => \E m \in 1..N : index_[m].offset + 1 = q
    BY Zenon DEF Indexed
  <1>10. N \in Nat /\ \A m \in 1..N : index_[m] \in E
    <2>1. \A S : \A q \in Seq(S) : Len(q) \in Nat /\ \A m \in 1..Len(q) : q[m] \in S
      OBVIOUS
    <2>. QED  BY <1>9, <2>1, Zenon
  <1>11. \A m \in 1..N : index_[m].offset \in Nat
    <2>1. \A e \in E : e.offset \in Nat
      OBVIOUS
    <2>. QED  BY <1>10, <2>1, Zenon
  <1>12. PICK first \in 1..N : index_[first].offset + 1 = u + 1
    <2>1. <<n, 0>>[2] = 0
      OBVIOUS
    <2>2. u + 1 \in 1..Len(F) /\ P[u + 1][2] = 0
      BY <1>5, <1>6, <1>7, <2>1, Zenon
    <2>. QED  BY <1>9, <2>2, Zenon
  <1>. HIDE DEF F, P, N, E, u, l
  <1>13. o + 1 = u + p /\ p \in 1..l
    BY <1>3, Zenon DEF u, l
  <1>14. index_[first].offset = u /\ u <= o
    BY <1>1, <1>4, <1>7, <1>11, <1>12, <1>13, SMTT(40)
  <1>. DEFINE I == {m \in 1..N : index_[m].offset <= o}
              c == CheckpointOf(o)
              e == index_[c]
  <1>15. I # {} /\ I \subseteq 1..N /\ first \in I
    BY <1>14, Zenon
  <1>16. c = Max({0} \cup I)
    BY Zenon DEF CheckpointOf, N
  <1>17. c \in I /\ \A y \in I : y <= c
    <2>. HIDE DEF I, c
    <2>1. {0} \cup I \subseteq 0..N /\ {0} \cup I # {}
      BY <1>10, <1>15
    <2>2. c \in {0} \cup I /\ \A y \in {0} \cup I : y <= c
      BY <1>10, <1>16, <2>1, Largest, Zenon
    <2>3. first <= c /\ first \in 1..N
      BY <1>15, <2>2, Zenon
    <2>4. c # 0
      BY <1>10, <2>3
    <2>. QED  BY <2>2, <2>4, Zenon
  <1>18. c \in 1..N /\ e.offset <= o /\ e.offset \in Nat /\ u <= e.offset
    <2>1. c \in 1..N /\ e.offset <= o /\ e.offset \in Nat
      BY <1>11, <1>17, Zenon
    <2>2. first \in 1..c
      <3>1. first <= c /\ first \in 1..N
        BY <1>15, <1>17, Zenon
      <3>. HIDE DEF c, I
      <3>. QED  BY <1>10, <2>1, <3>1
    <2>. QED  BY <1>9, <1>14, <2>1, <2>2, Zenon
  <1>19. c # 0
    <2>. HIDE DEF c
    <2>. QED  BY <1>10, <1>18
  <1>. DEFINE d == e.offset
              q == (d - u) + 1
  <1>20. q \in 1..l /\ d + 1 = u + q /\ q - 1 \in Nat /\ o - d \in Nat
         /\ (q - 1) + (o - d) = p - 1 /\ p - 1 < l /\ (p - 1) + 1 = p
    <2>1. d \in Nat /\ d <= o /\ u <= d
      BY <1>18, Zenon
    <2>. HIDE DEF d
    <2>. QED  BY <1>1, <1>4, <1>7, <1>13, <2>1 DEF l
  <1>. HIDE DEF q
  <1>21. P[d + 1] = <<n, q - 1>>
    BY <1>5, <1>20, Zenon
  <1>22. e.segment_index = n /\ e.byte_position = q - 1
    <2>1. P[d + 1] = <<e.segment_index, e.byte_position>>
      BY <1>9, <1>18, Zenon
    <2>. HIDE DEF e, d
    <2>. QED  BY <1>21, <2>1
  <1>23. Walk(<<n, q - 1>>, o - d) = <<n, p - 1>>
    <2>1. Len(file[segments[n]]) = l
      BY <1>8, Zenon DEF l
    <2>2. l \in Nat /\ n \in Nat /\ q - 1 \in Nat /\ o - d \in Nat /\ (q - 1) + (o - d) < l
      BY <1>4, <1>20, Zenon
    <2>. DEFINE x == q - 1
                y == o - d
    <2>. HIDE DEF x, y
    <2>3. Walk(<<n, x>>, y) = <<n, x + y>>
      BY <2>1, <2>2, WalkStays, ZenonT(40) DEF x, y
    <2>. QED  BY <1>20, <2>3, Zenon DEF x, y
  <1>24. PlaceOf(o) = <<n, p - 1>>
    <2>. DEFINE place == Walk(<<e.segment_index, e.byte_position>>, o - e.offset)
    <2>1. PlaceOf(o) = IF place[2] < Len(file[segments[place[1]]]) THEN place ELSE <<0, 0>>
      BY <1>1, <1>19, Zenon DEF PlaceOf
    <2>2. place = <<n, p - 1>>
      BY <1>22, <1>23, Zenon
    <2>3. place[1] = n /\ place[2] = p - 1
      <3>. HIDE DEF place
      <3>. QED  BY <2>2
    <2>4. place[2] < Len(file[segments[place[1]]])
      BY <1>8, <1>20, <2>3, Zenon DEF l
    <2>. QED  BY <2>1, <2>2, <2>4, Zenon
  <1>25. PlaceOf(o) # <<0, 0>> /\ PlaceOf(o)[1] = n /\ PlaceOf(o)[2] = p - 1
    BY <1>4, <1>24
  <1>26. file[n][p] = F[o + 1]
    BY <1>5, <1>13, Zenon
  <1>. QED  BY <1>8, <1>20, <1>25, <1>26, Zenon DEF F

\* The index of a running Log is that of its files; a Log that is down has none.
IndexInv ==
    /\ pc = "down" => index_ = << >> /\ segments = << >> /\ next_offset_ = 0
    /\ pc # "down" => Indexed(index_, FlattenSeq(PlacesIn(file)), Len(FlattenSeq(file)))

\* One place more at the end leaves the index of the others as it is.
LEMMA IndexedLonger ==
    ASSUME NEW P \in Seq(Nat \X Nat), NEW ix, Indexed(ix, P, Len(P)), NEW x \in Nat \X Nat
    PROVE  Indexed(ix, Append(P, x), Len(P))
  <1>. DEFINE Q == Append(P, x)
              E == [offset : Nat, segment_index : Nat, byte_position : Nat]
              N == Len(P)
  <1>1. N \in Nat /\ \A q \in 1..N : Q[q] = P[q]
    OBVIOUS
  <1>. HIDE DEF Q
  <1>2. /\ ix \in Seq(E) /\ \A m \in 1..Len(ix) : ix[m].offset < N
        /\ \A m \in 1..Len(ix) : P[ix[m].offset + 1] = <<ix[m].segment_index, ix[m].byte_position>>
        /\ \A m \in 1..Len(ix) : \A l \in 1..m : ix[l].offset <= ix[m].offset
        /\ \A o \in 1..N : P[o][2] = 0 => \E m \in 1..Len(ix) : ix[m].offset + 1 = o
    BY Zenon DEF Indexed
  <1>3. \A m \in 1..Len(ix) : ix[m].offset + 1 \in 1..N
    <2>1. \A S : \A q \in Seq(S) : Len(q) \in Nat /\ \A m \in 1..Len(q) : q[m] \in S
      OBVIOUS
    <2>2. \A e \in E : e.offset \in Nat
      OBVIOUS
    <2>3. \A m \in 1..Len(ix) : ix[m].offset \in Nat
      BY <1>2, <2>1, <2>2, Zenon
    <2>4. \A k \in Nat : k < N => k + 1 \in 1..N
      BY <1>1
    <2>. QED  BY <1>2, <2>3, <2>4, Zenon
  <1>. HIDE DEF N
  <1>. QED  BY <1>1, <1>2, <1>3, Zenon DEF Indexed, Q, N

\* The places of a log with a record more,
LEMMA PlacesStore ==
    ASSUME NEW s \in Seq(Seq(Records)), s # << >>, NEW r \in Records
    PROVE  LET n == Len(s)
           IN  /\ <<n, Len(s[n])>> \in Nat \X Nat
               /\ FlattenSeq(PlacesIn([s EXCEPT ![n] = Append(@, r)]))
                    = Append(FlattenSeq(PlacesIn(s)), <<n, Len(s[n])>>)
  <1>. DEFINE n == Len(s)
              l == Len(s[n])
              t == [s EXCEPT ![n] = Append(@, r)]
              P == PlacesIn(s)
              Q == PlacesIn(t)
              x == <<n, l>>
              V == [P EXCEPT ![Len(P)] = Append(@, x)]
  <1>1. n \in Nat /\ n # 0 /\ n \in 1..n /\ l \in Nat /\ DOMAIN s = 1..n
    OBVIOUS
  <1>2. x \in Nat \X Nat
    BY <1>1
  <1>3. t \in Seq(Seq(Records)) /\ Len(t) = n
    BY FlattenStore, Zenon
  <1>4. \A i \in 1..n : (i # n => t[i] = s[i]) /\ (i = n => t[i] = Append(s[n], r))
    BY <1>1, Zenon
  <1>5. Len(Append(s[n], r)) = l + 1
    OBVIOUS
  <1>6. /\ P \in Seq(Seq(Nat \X Nat)) /\ Len(P) = n
        /\ Q \in Seq(Seq(Nat \X Nat)) /\ Len(Q) = n
    <2>1. P \in Seq(Seq(Nat \X Nat)) /\ Len(P) = n
      BY PlacesTypes, Zenon
    <2>2. Q \in Seq(Seq(Nat \X Nat)) /\ Len(Q) = Len(t)
      <3>. HIDE DEF t
      <3>. QED  BY <1>3, PlacesTypes, Zenon
    <2>. QED  BY <1>3, <2>1, <2>2, Zenon
  <1>7. P = [i \in 1..n |-> [p \in 1..Len(s[i]) |-> <<i, p - 1>>]]
    BY Zenon DEF PlacesIn
  <1>8. Q = [i \in 1..n |-> [p \in 1..Len(t[i]) |-> <<i, p - 1>>]]
    BY <1>3, Zenon DEF PlacesIn
  <1>. HIDE DEF t, P, Q, x
  <1>9. Q[n] = Append(P[n], x)
    <2>1. P[n] = [p \in 1..l |-> <<n, p - 1>>] /\ Q[n] = [p \in 1..(l + 1) |-> <<n, p - 1>>]
      BY <1>1, <1>4, <1>5, <1>7, <1>8, Zenon
    <2>. DEFINE a == [p \in 1..l |-> <<n, p - 1>>]
                b == [p \in 1..(l + 1) |-> <<n, p - 1>>]
                y == <<n, l>>
    <2>. HIDE DEF n, l
    <2>2. a \in Seq(Nat \X Nat) /\ Len(a) = l /\ b \in Seq(Nat \X Nat) /\ Len(b) = l + 1
      BY <1>1
    <2>3. \A p \in 1..l : b[p] = a[p]
      BY <1>1
    <2>4. b[l + 1] = y /\ y \in Nat \X Nat
      BY <1>1
    <2>. HIDE DEF a, b, y
    <2>5. b = Append(a, y)
      BY <1>1, <2>2, <2>3, <2>4
    <2>. QED  BY <2>1, <2>5, Zenon DEF a, b, y, x
  <1>10. ASSUME NEW i \in 1..n, i # n PROVE Q[i] = P[i]
    BY <1>4, <1>7, <1>8, <1>10, Zenon
  <1>11. Q = V
    <2>1. V \in Seq(Seq(Nat \X Nat)) /\ Len(V) = n
      <3>1. P # << >>
        BY <1>1, <1>6
      <3>2. V \in Seq(Seq(Nat \X Nat)) /\ Len(V) = Len(P)
        BY <1>2, <1>6, <3>1, FlattenStore, Zenon
      <3>. QED  BY <1>6, <3>2, Zenon
    <2>2. DOMAIN P = 1..n
      BY <1>6
    <2>3. \A i \in 1..n : V[i] = IF i = n THEN Append(P[n], x) ELSE P[i]
      BY <1>6, <2>2, Zenon
    <2>. HIDE DEF V, n
    <2>4. \A i \in 1..n : Q[i] = V[i]
      BY <1>9, <1>10, <2>3, Zenon
    <2>. QED  BY <1>6, <2>1, <2>4
  <1>12. FlattenSeq(V) = Append(FlattenSeq(P), x)
    <2>1. P # << >>
      BY <1>1, <1>6
    <2>. QED  BY <1>2, <1>6, <2>1, FlattenStore, Zenon
  <1>. HIDE DEF V
  <1>. QED  BY <1>2, <1>11, <1>12, Zenon DEF t, P, Q, x

\* and with an empty file more.
LEMMA PlacesRoll ==
    ASSUME NEW s \in Seq(Seq(Records))
    PROVE  /\ FlattenSeq(PlacesIn(Append(s, << >>))) = FlattenSeq(PlacesIn(s))
           /\ FlattenSeq(Append(s, << >>)) = FlattenSeq(s)
  <1>. DEFINE n == Len(s)
              t == Append(s, << >>)
              P == PlacesIn(s)
              Q == PlacesIn(t)
              V == Append(P, << >>)
  <1>0. /\ n \in Nat /\ << >> \in Seq(Records) /\ << >> \in Seq(Nat \X Nat) /\ Len(<< >>) = 0
        /\ \A S : \A a \in Seq(S) : a \o << >> = a
    OBVIOUS
  <1>1. t \in Seq(Seq(Records)) /\ Len(t) = n + 1 /\ t[n + 1] = << >>
        /\ \A i \in 1..n : t[i] = s[i]
    BY <1>0
  <1>2. P \in Seq(Seq(Nat \X Nat)) /\ Len(P) = n
    BY PlacesTypes, Zenon
  <1>3. Q \in Seq(Seq(Nat \X Nat)) /\ Len(Q) = n + 1
    <2>1. Q \in Seq(Seq(Nat \X Nat)) /\ Len(Q) = Len(t)
      <3>. HIDE DEF t
      <3>. QED  BY <1>1, PlacesTypes, Zenon
    <2>. QED  BY <1>1, <2>1, Zenon
  <1>4. P = [i \in 1..n |-> [p \in 1..Len(s[i]) |-> <<i, p - 1>>]]
    BY Zenon DEF PlacesIn
  <1>5. Q = [i \in 1..(n + 1) |-> [p \in 1..Len(t[i]) |-> <<i, p - 1>>]]
    BY <1>1, Zenon DEF PlacesIn
  <1>. HIDE DEF t, P, Q
  <1>6. \A i \in 1..n : i \in 1..(n + 1) /\ i # n + 1
    BY <1>0
  <1>7. \A i \in 1..n : Q[i] = P[i]
    BY <1>1, <1>4, <1>5, <1>6, Zenon
  <1>8. Q[n + 1] = << >>
    <2>1. n + 1 \in 1..(n + 1)
      BY <1>0
    <2>2. Q[n + 1] = [p \in 1..0 |-> <<n + 1, p - 1>>]
      BY <1>0, <1>1, <1>5, <2>1, Zenon
    <2>. QED  BY <2>2
  <1>. HIDE DEF n
  <1>9. Q = V
    <2>1. V \in Seq(Seq(Nat \X Nat)) /\ Len(V) = n + 1 /\ V[n + 1] = << >>
          /\ \A i \in 1..n : V[i] = P[i]
      BY <1>0, <1>2
    <2>2. \A i \in 1..(n + 1) : i \in 1..n \/ i = n + 1
      BY <1>0
    <2>. HIDE DEF V
    <2>3. \A i \in 1..(n + 1) : Q[i] = V[i]
      BY <1>7, <1>8, <2>1, <2>2, Zenon
    <2>. QED  BY <1>3, <2>1, <2>3
  <1>10. FlattenSeq(P) \in Seq(Nat \X Nat) /\ FlattenSeq(V) = FlattenSeq(P) \o << >>
    BY <1>0, <1>2, FlattenAppend, Zenon
  <1>11. FlattenSeq(s) \in Seq(Records) /\ FlattenSeq(t) = FlattenSeq(s) \o << >>
    <2>1. << >> \in Seq(Records)
      BY <1>0, Zenon
    <2>2. FlattenSeq(s) \in Seq(Records) /\ FlattenSeq(Append(s, << >>)) = FlattenSeq(s) \o << >>
      BY <2>1, FlattenAppend, Zenon
    <2>. QED  BY <2>2, Zenon DEF t
  <1>. HIDE DEF V
  <1>. QED  BY <1>0, <1>9, <1>10, <1>11, Zenon DEF P, Q, t

\* A record stored is indexed as checkpoint says.
LEMMA IndexStore ==
    ASSUME StoreInv, IndexInv, pc # "down", NEW r \in Records, store(r)
    PROVE  Indexed(index_', FlattenSeq(PlacesIn(file')), Len(FlattenSeq(file')))
  <1>. DEFINE n == Len(file)
              l == Len(file[n])
              F == FlattenSeq(file)
              P == FlattenSeq(PlacesIn(file))
              x == <<n, l>>
              N == Len(F)
  <1>0. /\ StoreTypes /\ file # << >> /\ segments = [i \in 1..n |-> i] /\ next_offset_ = N
        /\ Indexed(index_, P, N)
    BY Zenon DEF StoreInv, RunInv, IndexInv
  <1>1. file \in Seq(Seq(Records)) /\ n \in Nat /\ n # 0 /\ n \in 1..n
    BY <1>0 DEF StoreTypes
  <1>2. active_segment = n /\ Len(segments) = n
    BY <1>0, <1>1 DEF active_segment
  <1>3. /\ file' = [file EXCEPT ![n] = Append(@, r)]
        /\ index_' = checkpoint(index_, N, n, l)
    BY <1>0, <1>2, Zenon DEF store
  <1>4. FlattenSeq(file') = Append(F, r)
    BY <1>0, <1>1, <1>3, FlattenStore, Zenon
  <1>5. x \in Nat \X Nat /\ FlattenSeq(PlacesIn(file')) = Append(P, x)
    BY <1>0, <1>1, <1>3, PlacesStore, Zenon
  <1>6. F \in Seq(Records) /\ P \in Seq(Nat \X Nat) /\ Len(P) = N
    BY <1>1, UptoSteps, RebuiltIndexes, Zenon
  <1>. HIDE DEF F, P
  <1>7. N \in Nat /\ Len(FlattenSeq(file')) = N + 1 /\ Append(P, x)[N + 1] = x /\ l \in Nat
    <2>1. N \in Nat /\ Len(Append(F, r)) = N + 1
      BY <1>6
    <2>2. Append(P, x)[N + 1] = x
      <3>. HIDE DEF x, N
      <3>. QED  BY <1>5, <1>6
    <2>3. file[n] \in Seq(Records)
      BY <1>1
    <2>4. l \in Nat
      BY <2>3
    <2>. QED  BY <1>4, <2>1, <2>2, <2>4, Zenon
  <1>8. Indexed(index_, Append(P, x), N)
    <2>. HIDE DEF x, N
    <2>. QED  BY <1>0, <1>5, <1>6, IndexedLonger, Zenon
  <1>9. Indexed(checkpoint(index_, N, n, l), Append(P, x), N + 1)
    <2>. DEFINE Q == Append(P, x)
    <2>1. Q[N + 1] = <<n, l>>
      BY <1>7, Zenon
    <2>. HIDE DEF Q, N, n, l
    <2>. QED  BY <1>1, <1>7, <1>8, <2>1, CheckpointIndexes, Zenon DEF Q
  <1>. QED  BY <1>3, <1>5, <1>7, <1>9, Zenon

\* Loading indexes the files.
LEMMA IndexLoad ==
    ASSUME StoreInv, TenFiles, load_existing_segments
    PROVE  IndexInv'
  <1>. DEFINE n == IF file = << >> THEN 1 ELSE Len(file)
  <1>1. /\ pc' = IF wal = << >> THEN "ready" ELSE "replay"
        /\ file' = (IF file = << >> THEN << << >> >> ELSE file)
        /\ index_' = (IF file = << >> THEN << >> ELSE RebuiltIndex(LoadOrder(n)))
    BY Zenon DEF load_existing_segments
  <1>2. pc' # "down"
    BY <1>1, Zenon
  <1>3. file \in Seq(Seq(Records))
    BY Zenon DEF StoreInv, StoreTypes
  <1>4. CASE file = << >>
    <2>1. << >> \in Seq(Seq(Records)) /\ Append(<< >>, << >>) = << << >> >>
          /\ Len(<< >>) = 0 /\ 1..0 = {}
          /\ << >> \in Seq([offset : Nat, segment_index : Nat, byte_position : Nat])
      OBVIOUS
    <2>2. FlattenSeq(Append(<< >>, << >>)) = FlattenSeq(<< >>)
      BY <2>1, PlacesRoll, Zenon
    <2>3. index_' = << >> /\ Len(FlattenSeq(file')) = 0
      BY <1>1, <1>4, <2>1, <2>2, FlattenNone, Zenon
    <2>. QED  BY <1>2, <2>1, <2>3, Zenon DEF IndexInv, Indexed
  <1>5. CASE file # << >>
    <2>1. Len(file) \in 0..10
      <3>1. Len(file) \in Nat
        BY <1>3
      <3>2. \A l \in Nat : l <= 10 => l \in 0..10
        OBVIOUS
      <3>. QED  BY <3>1, <3>2, Zenon DEF TenFiles
    <2>2. index_' = RebuiltIndex([i \in 1..Len(file) |-> i]) /\ file' = file
      BY <1>1, <1>5, <2>1, LoadInOrder, Zenon
    <2>3. /\ Len(FlattenSeq(PlacesIn(file))) = Len(FlattenSeq(file))
          /\ Indexed(RebuiltIndex([i \in 1..Len(file) |-> i]), FlattenSeq(PlacesIn(file)),
                     Len(FlattenSeq(PlacesIn(file))))
      BY <1>3, RebuiltIndexes, Zenon
    <2>. QED  BY <1>2, <2>2, <2>3, Zenon DEF IndexInv
  <1>. QED  BY <1>4, <1>5, Zenon

\* Every step keeps the index.
LEMMA IndexStep ==
    ASSUME StoreInv, TenFiles, IndexInv, [Next]_plVars
    PROVE  IndexInv'
  <1>0. StoreTypes /\ RunInv /\ LoopInv
    BY Zenon DEF StoreInv
  <1>1. CASE load_existing_segments
    BY <1>1, IndexLoad, Zenon
  <1>2. CASE UNCHANGED <<file, index_>> /\ pc # "down" /\ pc' # "down"
    BY <1>2, Zenon DEF IndexInv
  <1>3. CASE UNCHANGED plVars
    <2>1. UNCHANGED <<file, index_, segments, next_offset_, pc>>
      BY <1>3, Zenon DEF plVars, procVars, diskVars
    <2>. QED  BY <2>1, Zenon DEF IndexInv
  <1>4. CASE recover_wal_entry
    <2>1. /\ pc = "replay" /\ pc' = pc /\ cursor <= Len(wal)
          /\ store(wal[cursor].record) \/ UNCHANGED <<file, unflushed, index_, next_offset_>>
      BY <1>4, Zenon DEF recover_wal_entry
    <2>2. wal[cursor].record \in Records
      <3>1. cursor \in 1..Len(wal)
        BY <1>0, <2>1 DEF LoopInv, StoreTypes
      <3>2. wal[cursor] \in Entries
        BY <1>0, <3>1 DEF StoreTypes
      <3>. QED  BY <3>2 DEF Entries
    <2>3. CASE store(wal[cursor].record)
      <3>1. Indexed(index_', FlattenSeq(PlacesIn(file')), Len(FlattenSeq(file')))
        BY <2>1, <2>2, <2>3, IndexStore, Zenon
      <3>. QED  BY <2>1, <3>1, Zenon DEF IndexInv
    <2>. QED  BY <1>2, <2>1, <2>3, Zenon
  <1>5. CASE append_record
    <2>1. PICK c \in current : store(c[2])
      BY <1>5, Zenon DEF append_record
    <2>2. c[2] \in Records
      <3>1. c \in Nat \X Records
        BY <1>0, <2>1, Zenon DEF StoreTypes
      <3>. QED  BY <3>1
    <2>3. pc # "down" /\ pc' # "down"
      BY <1>5, Zenon DEF append_record
    <2>4. Indexed(index_', FlattenSeq(PlacesIn(file')), Len(FlattenSeq(file')))
      BY <2>1, <2>2, <2>3, IndexStore, Zenon
    <2>. QED  BY <2>3, <2>4, Zenon DEF IndexInv
  <1>6. CASE roll_segment
    <2>1. /\ pc # "down" /\ pc' # "down" /\ index_' = index_
          /\ file' = Append(file, << >>) \/ file' = file
      BY <1>6, Zenon DEF roll_segment
    <2>2. file \in Seq(Seq(Records))
      BY <1>0, Zenon DEF StoreTypes
    <2>3. /\ FlattenSeq(PlacesIn(file')) = FlattenSeq(PlacesIn(file))
          /\ FlattenSeq(file') = FlattenSeq(file)
      BY <2>1, <2>2, PlacesRoll, Zenon
    <2>. QED  BY <2>1, <2>3, Zenon DEF IndexInv
  <1>7. CASE \/ recover_wal_end \/ write_wal \/ flush \/ sync_wal \/ sync_segment \/ clear_wal
             \/ \E o \in 0..(MaxAppends - 1) : fetch(o)
    <2>1. UNCHANGED <<file, index_>>
      BY <1>7, Zenon DEF recover_wal_end, write_wal, flush, sync_wal, sync_segment, clear_wal,
         fetch, diskVars, procVars
    <2>2. pc # "down" /\ pc' # "down"
      <3>1. pc = "sync_segments" => pc' # "down" \/ ~sync_segment
        BY Zenon DEF sync_segment
      <3>2. pc # "down"
        BY <1>7, Zenon DEF recover_wal_end, write_wal, flush, sync_wal, sync_segment, clear_wal, fetch
      <3>3. pc' # "down"
        BY <1>7, <3>1, Zenon DEF recover_wal_end, write_wal, flush, sync_wal, sync_segment,
           clear_wal, fetch
      <3>. QED  BY <3>2, <3>3, Zenon
    <2>. QED  BY <1>2, <2>1, <2>2, Zenon
  <1>8. CASE close \/ kill \/ power_loss
    <2>1. pc' = "down" /\ index_' = << >> /\ segments' = << >> /\ next_offset_' = 0
      BY <1>8, Zenon DEF close, kill, power_loss, Forget
    <2>. QED  BY <2>1, Zenon DEF IndexInv
  <1>. QED  BY <1>1, <1>3, <1>4, <1>5, <1>6, <1>7, <1>8, Zenon DEF Next

\* While there are at most ten segments, the index is that of the files.
THEOREM IndexInvariant == Spec => [](TenFiles => StoreInv /\ IndexInv)
  <1>1. Init => FilesSeq /\ (TenFiles => StoreInv) /\ (TenFiles => IndexInv)
    <2>1. Init => IndexInv
      BY Zenon DEF Init, IndexInv
    <2>. QED  BY <2>1, FilesSeqInit, StoreInit, Zenon
  <1>2. /\ FilesSeq /\ (TenFiles => StoreInv) /\ (TenFiles => IndexInv) /\ [Next]_plVars
        => FilesSeq' /\ (TenFiles => StoreInv)' /\ (TenFiles => IndexInv)'
    <2>. SUFFICES ASSUME FilesSeq, TenFiles => StoreInv, TenFiles => IndexInv, [Next]_plVars
                  PROVE  FilesSeq' /\ (TenFiles' => StoreInv') /\ (TenFiles' => IndexInv')
      BY Zenon
    <2>1. FilesSeq' /\ (TenFiles' => StoreInv' /\ TenFiles)
      BY FilesSeqStep, StoreStep, Zenon
    <2>2. TenFiles' => IndexInv'
      BY <2>1, IndexStep, Zenon
    <2>. QED  BY <2>1, <2>2, Zenon
  <1>3. (TenFiles => StoreInv) /\ (TenFiles => IndexInv) => (TenFiles => StoreInv /\ IndexInv)
    BY Zenon
  <1>. QED  BY <1>1, <1>2, <1>3, PTL DEF Spec

\* Log::fetch returns at each offset below next_offset_ the record of that
\* offset, through any appends, rolls, syncs, crashes and recoveries, as long as
\* the log has at most ten segments.
THEOREM FetchIsRight == Spec => [](Len(file) <= 10 => FetchFindsRecord)
  <1>1. ASSUME StoreInv, IndexInv PROVE FetchFindsRecord
    <2>. SUFFICES ASSUME pc = "ready"
                  PROVE  /\ next_offset_ = Len(Content)
                         /\ \A o \in 0..(next_offset_ - 1) :
                               /\ PlaceOf(o) # <<0, 0>>
                               /\ file[segments[PlaceOf(o)[1]]][PlaceOf(o)[2] + 1] = Content[o + 1]
      BY Zenon DEF FetchFindsRecord
    <2>1. /\ file \in Seq(Seq(Records)) /\ segments = [i \in 1..Len(file) |-> i]
          /\ next_offset_ = Len(FlattenSeq(file))
          /\ Indexed(index_, FlattenSeq(PlacesIn(file)), Len(FlattenSeq(file)))
      BY <1>1, Zenon DEF StoreInv, StoreTypes, RunInv, IndexInv
    <2>2. Content = FlattenSeq(file)
      BY <2>1, InOrderOfFiles, Zenon DEF Content
    <2>3. \A o \in 0..(next_offset_ - 1) :
             /\ PlaceOf(o) # <<0, 0>>
             /\ file[segments[PlaceOf(o)[1]]][PlaceOf(o)[2] + 1] = FlattenSeq(file)[o + 1]
      BY <2>1, FetchFinds, Zenon
    <2>. QED  BY <2>1, <2>2, <2>3, Zenon
  <1>2. (TenFiles => StoreInv /\ IndexInv) => (Len(file) <= 10 => FetchFindsRecord)
    BY <1>1, Zenon DEF TenFiles
  <1>. QED  BY <1>2, IndexInvariant, PTL
-----------------------------------------------------------------------------
(* The bounds of the counters.                                             *)

\* At most one entry of a WAL for each append; an offset is below the number of
\* the append it was given to.
Logged(w, a) ==
    /\ Len(w) <= a
    /\ \A i \in 1..Len(w) : w[i].offset < w[i].record /\ w[i].record <= a

\* What append and recovery count stays below the number of appends.
BoundInv ==
    /\ Len(file) <= appends + 1
    /\ pc \in {"logged", "stored"} => Len(file) <= appends
    /\ Len(FlattenSeq(file)) <= appends
    /\ pc = "logged" => Len(FlattenSeq(file)) < appends
    /\ Logged(wal, appends) /\ Logged(wal_stable, appends)
    /\ pending_appends_ \in 0..SyncBatch
    /\ pc \in {"down", "replay", "ready", "logged", "stored"} => pending_appends_ < SyncBatch
    /\ cursor \in 1..(MaxAppends + 2)
    /\ \A c \in current \cup returned : c \in Nat \X Records /\ c[1] < c[2] /\ c[2] <= appends

\* The numbers the bounds are about.
LEMMA BoundTypes ==
    ASSUME StoreInv, BoundInv
    PROVE  /\ Len(file) \in Nat /\ Len(FlattenSeq(file)) \in Nat /\ Len(wal) \in Nat
           /\ FlattenSeq(file) \in Seq(Records)
           /\ appends \in Nat /\ MaxAppends \in Nat /\ appends <= MaxAppends
           /\ SyncBatch \in Nat /\ SyncBatch # 0 /\ pending_appends_ \in Nat
           /\ \A i \in 1..Len(wal) : wal[i] \in Entries
  <1>1. /\ file \in Seq(Seq(Records)) /\ appends \in 0..MaxAppends /\ wal \in Seq(Entries)
    BY Zenon DEF StoreInv, StoreTypes
  <1>2. MaxAppends \in Nat /\ SyncBatch \in Nat /\ SyncBatch # 0
    BY PartitionLogAssumption, Zenon DEF PartitionLogAssumption
  <1>3. appends \in Nat /\ appends <= MaxAppends /\ pending_appends_ \in Nat
    <2>1. pending_appends_ \in 0..SyncBatch
      BY Zenon DEF BoundInv
    <2>. QED  BY <1>1, <1>2, <2>1
  <1>4. FlattenSeq(file) \in Seq(Records)
    BY <1>1, UptoSteps, Zenon
  <1>5. \A S : \A q \in Seq(S) : Len(q) \in Nat /\ \A m \in 1..Len(q) : q[m] \in S
    OBVIOUS
  <1>. QED  BY <1>1, <1>2, <1>3, <1>4, <1>5, Zenon

\* A step that stores nothing.
LEMMA BoundSame ==
    ASSUME StoreInv, BoundInv, appends' = appends, Len(file') = Len(file),
           Len(FlattenSeq(file')) \in Nat, Len(FlattenSeq(file')) <= Len(FlattenSeq(file)),
           pc' \in {"down", "replay", "ready", "sync_wal", "sync_segments", "clear_wal"},
           Logged(wal', appends), Logged(wal_stable', appends),
           current' \cup returned' \subseteq current \cup returned,
           pending_appends_' \in 0..SyncBatch,
           pc' \in {"down", "replay", "ready"} => pending_appends_' < SyncBatch,
           cursor' \in 1..(MaxAppends + 2)
    PROVE  BoundInv'
  <1>1. Len(FlattenSeq(file')) <= appends
    <2>. DEFINE x == Len(FlattenSeq(file))
                y == Len(FlattenSeq(file'))
    <2>1. x \in Nat /\ y \in Nat /\ y <= x /\ x <= appends /\ appends \in Nat
      BY BoundTypes, Zenon DEF BoundInv
    <2>. HIDE DEF x, y
    <2>2. y <= appends
      BY <2>1
    <2>. QED  BY <2>2, Zenon DEF y
  <1>2. Len(file') <= appends' + 1
    BY Zenon DEF BoundInv
  <1>3. pc' \notin {"logged", "stored"} /\ pc' # "logged"
    BY Zenon
  <1>4. pc' \in {"down", "replay", "ready", "logged", "stored"} => pending_appends_' < SyncBatch
    BY Zenon
  <1>5. \A c \in current' \cup returned' : c \in Nat \X Records /\ c[1] < c[2] /\ c[2] <= appends'
    BY Zenon DEF BoundInv
  <1>. QED  BY <1>1, <1>2, <1>3, <1>4, <1>5, Zenon DEF BoundInv

\* A WAL that has been truncated or cut.
LEMMA LoggedCut ==
    ASSUME NEW w \in Seq(Entries), NEW a \in Nat, Logged(w, a), NEW k \in 0..Len(w)
    PROVE  Logged(SubSeq(w, 1, k), a) /\ Logged(<< >>, a)
  <1>1. Len(SubSeq(w, 1, k)) = k /\ \A i \in 1..k : i \in 1..Len(w) /\ SubSeq(w, 1, k)[i] = w[i]
    OBVIOUS
  <1>2. Len(w) \in Nat /\ k \in Nat /\ k <= Len(w) /\ Len(w) <= a
    BY DEF Logged
  <1>3. k <= a /\ Len(<< >>) <= a /\ 1..Len(<< >>) = {}
    BY <1>2
  <1>. QED  BY <1>1, <1>3, Zenon DEF Logged

\* The steps that store nothing.
LEMMA BoundQuiet ==
    ASSUME StoreInv, StoreInv', BoundInv,
           \/ recover_wal_end \/ flush \/ sync_wal \/ sync_segment \/ clear_wal
           \/ \E o \in 0..(MaxAppends - 1) : fetch(o)
           \/ close
    PROVE  BoundInv'
  <1>0. /\ StoreTypes /\ LoopInv /\ Logged(wal, appends) /\ Logged(wal_stable, appends)
        /\ pending_appends_ \in 0..SyncBatch /\ cursor \in 1..(MaxAppends + 2)
        /\ Len(FlattenSeq(file)) \in Nat /\ MaxAppends \in Nat /\ appends \in Nat
        /\ SyncBatch \in Nat /\ SyncBatch # 0 /\ Len(file) \in Nat /\ appends <= MaxAppends
        /\ Len(file) <= appends + 1
    BY BoundTypes, Zenon DEF BoundInv, StoreInv
  <1>1. /\ appends' = appends /\ file' = file
    BY Zenon DEF recover_wal_end, flush, sync_wal, sync_segment, clear_wal, fetch, close, diskVars
  <1>2. Len(file') = Len(file) /\ Len(FlattenSeq(file')) \in Nat
        /\ Len(FlattenSeq(file')) <= Len(FlattenSeq(file))
    <2>1. \A x \in Nat : x <= x
      OBVIOUS
    <2>. QED  BY <1>0, <1>1, <2>1, Zenon
  <1>3. pc' \in {"down", "replay", "ready", "sync_wal", "sync_segments", "clear_wal"}
    BY Zenon DEF recover_wal_end, flush, sync_wal, sync_segment, clear_wal, fetch, close, Forget
  <1>4. Logged(wal', appends) /\ Logged(wal_stable', appends)
    <2>1. wal' = wal \/ wal' = << >>
      BY Zenon DEF recover_wal_end, flush, sync_wal, sync_segment, clear_wal, fetch, close, walVars
    <2>2. wal_stable' = wal_stable \/ wal_stable' = wal
      BY Zenon DEF recover_wal_end, flush, sync_wal, sync_segment, clear_wal, fetch, close, walVars
    <2>3. Logged(<< >>, appends)
      <3>1. wal \in Seq(Entries) /\ 0 \in 0..Len(wal)
        BY <1>0 DEF StoreTypes
      <3>. QED  BY <1>0, <3>1, LoggedCut, Zenon
    <2>. QED  BY <1>0, <2>1, <2>2, <2>3, Zenon
  <1>5. current' \cup returned' \subseteq current \cup returned
    <2>1. current' = current \/ current' = {}
      BY Zenon DEF recover_wal_end, flush, sync_wal, sync_segment, clear_wal, fetch, close, Forget
    <2>2. returned' = returned \/ returned' = returned \cup current
      BY Zenon DEF recover_wal_end, flush, sync_wal, sync_segment, clear_wal, fetch, close
    <2>. QED  BY <2>1, <2>2, Zenon
  <1>6. /\ pending_appends_' \in 0..SyncBatch
        /\ pc' \in {"down", "replay", "ready"} => pending_appends_' < SyncBatch
    <2>1. 0 \in 0..SyncBatch /\ 0 < SyncBatch
      BY <1>0
    <2>2. CASE pending_appends_' = 0
      BY <2>1, <2>2, Zenon
    <2>3. CASE pending_appends_' = pending_appends_ /\ pc' \in {"sync_wal", "sync_segments", "clear_wal"}
      BY <1>0, <2>3, Zenon
    <2>4. CASE pending_appends_' = pending_appends_ /\ pc = "ready"
      BY <1>0, <2>4, Zenon DEF BoundInv
    <2>. QED  BY <2>2, <2>3, <2>4, Zenon DEF recover_wal_end, flush, sync_wal, sync_segment,
              clear_wal, fetch, close, Forget, procVars
  <1>7. cursor' \in 1..(MaxAppends + 2)
    <2>1. 1 \in 1..(MaxAppends + 2)
      BY <1>0
    <2>2. CASE cursor' = cursor \/ cursor' = 1
      BY <1>0, <2>1, <2>2, Zenon
    <2>3. CASE cursor' = cursor + 1 /\ pc = "sync_segments"
      <3>1. cursor \in 1..Len(file)
        BY <1>0, <2>3, Zenon DEF LoopInv
      <3>. QED  BY <1>0, <2>3, <3>1
    <2>. QED  BY <2>2, <2>3, Zenon DEF recover_wal_end, flush, sync_wal, sync_segment,
              clear_wal, fetch, close, Forget
  <1>. QED  BY <1>1, <1>2, <1>3, <1>4, <1>5, <1>6, <1>7, BoundSame, Zenon

\* The crashes.
LEMMA BoundCrash ==
    ASSUME StoreInv, StoreInv', BoundInv, kill \/ power_loss
    PROVE  BoundInv'
  <1>0. /\ StoreTypes /\ Logged(wal, appends) /\ Logged(wal_stable, appends)
        /\ MaxAppends \in Nat /\ appends \in Nat /\ SyncBatch \in Nat /\ SyncBatch # 0
    BY BoundTypes, Zenon DEF BoundInv, StoreInv
  <1>1. /\ appends' = appends /\ pc' = "down" /\ cursor' = 1 /\ current' = {} /\ pending_appends_' = 0
        /\ returned' = returned
    BY Zenon DEF kill, power_loss, Forget
  <1>2. Len(file') = Len(file) /\ Len(FlattenSeq(file')) <= Len(FlattenSeq(file))
    BY StoreKill, StoreLoss, Zenon
  <1>3. Len(FlattenSeq(file')) \in Nat
    <2>1. file' \in Seq(Seq(Records))
      BY Zenon DEF StoreInv, StoreTypes
    <2>. DEFINE c == FlattenSeq(file')
    <2>2. c \in Seq(Records)
      BY <2>1, UptoSteps, Zenon
    <2>. HIDE DEF c
    <2>3. Len(c) \in Nat
      BY <2>2
    <2>. QED  BY <2>3, Zenon DEF c
  <1>4. Logged(wal', appends) /\ Logged(wal_stable', appends)
    <2>1. CASE kill
      BY <1>0, <2>1, Zenon DEF kill, walVars
    <2>2. CASE power_loss
      <3>1. /\ wal_stable' = wal'
            /\ wal' = wal_stable \/ \E k \in 0..Len(wal) : wal' = SubSeq(wal, 1, k)
        BY <1>0, <2>2, WalAfterLoss, Zenon
      <3>2. \A k \in 0..Len(wal) : Logged(SubSeq(wal, 1, k), appends)
        <4>1. wal \in Seq(Entries)
          BY <1>0, Zenon DEF StoreTypes
        <4>. QED  BY <1>0, <4>1, LoggedCut, Zenon
      <3>. QED  BY <1>0, <3>1, <3>2, Zenon
    <2>. QED  BY <2>1, <2>2, Zenon
  <1>5. 0 \in 0..SyncBatch /\ 0 < SyncBatch /\ 1 \in 1..(MaxAppends + 2)
    BY <1>0
  <1>6. current' \cup returned' \subseteq current \cup returned
    BY <1>1, Zenon
  <1>7. pc' \in {"down", "replay", "ready", "sync_wal", "sync_segments", "clear_wal"}
    BY <1>1, Zenon
  <1>. QED  BY <1>1, <1>2, <1>3, <1>4, <1>5, <1>6, <1>7, BoundSame, Zenon

\* Loading.
LEMMA BoundLoad ==
    ASSUME StoreInv, StoreInv', BoundInv, load_existing_segments
    PROVE  BoundInv'
  <1>1. /\ pc = "down" /\ pc' = IF wal = << >> THEN "ready" ELSE "replay"
        /\ file' = (IF file = << >> THEN << << >> >> ELSE file)
        /\ next_offset_' = (IF file = << >> THEN 0 ELSE Len(InOrder(LoadOrder(
                               IF file = << >> THEN 1 ELSE Len(file)))))
        /\ cursor' = 1
        /\ UNCHANGED <<wal, wal_stable, pending_appends_, current, appends, returned>>
    BY Zenon DEF load_existing_segments, walVars
  <1>2. /\ appends \in Nat /\ MaxAppends \in Nat /\ Len(file) <= appends + 1
        /\ Len(FlattenSeq(file)) <= appends
    BY BoundTypes, Zenon DEF BoundInv
  <1>3. Len(file') <= appends + 1 /\ Len(FlattenSeq(file')) <= appends
    <2>1. CASE file = << >>
      <3>1. Len(<< << >> >>) = 1 /\ 1 <= appends + 1 /\ 0 <= appends
        BY <1>2
      <3>2. Len(FlattenSeq(file')) = 0
        <4>1. pc' # "down"
          BY <1>1, Zenon
        <4>. QED  BY <1>1, <2>1, <4>1, Zenon DEF StoreInv, RunInv
      <3>. QED  BY <1>1, <2>1, <3>1, <3>2, Zenon
    <2>2. CASE file # << >>
      BY <1>1, <1>2, <2>2, Zenon
    <2>. QED  BY <2>1, <2>2, Zenon
  <1>4. pc' \notin {"logged", "stored"} /\ pc' # "logged"
    BY <1>1, Zenon
  <1>5. 1 \in 1..(MaxAppends + 2)
    BY <1>2
  <1>. QED  BY <1>1, <1>3, <1>4, <1>5, Zenon DEF BoundInv

\* recover_wal takes an entry, or skips it.
LEMMA BoundReplay ==
    ASSUME StoreInv, StoreInv', BoundInv, recover_wal_entry
    PROVE  BoundInv'
  <1>. DEFINE e == wal[cursor]
  <1>0. /\ StoreTypes /\ LoopInv /\ RunInv /\ RunInv' /\ Logged(wal, appends)
        /\ Len(FlattenSeq(file)) \in Nat /\ Len(wal) \in Nat
        /\ FlattenSeq(file) \in Seq(Records) /\ appends \in Nat /\ MaxAppends \in Nat
        /\ appends <= MaxAppends /\ \A i \in 1..Len(wal) : wal[i] \in Entries
        /\ Len(FlattenSeq(file)) <= appends /\ Len(file) \in Nat /\ Len(file) <= appends + 1
    BY BoundTypes, Zenon DEF BoundInv, StoreInv
  <1>1. /\ pc = "replay" /\ pc' = pc /\ cursor <= Len(wal) /\ cursor' = cursor + 1
        /\ UNCHANGED <<wal, wal_stable, segments, pending_appends_, current, appends, returned>>
        /\ \/ e.offset = next_offset_ /\ store(e.record)
           \/ UNCHANGED <<file, next_offset_>>
    BY Zenon DEF recover_wal_entry, walVars
  <1>2. cursor \in 1..Len(wal)
    <2>1. cursor \in 1..(Len(wal) + 1)
      BY <1>0, <1>1, Zenon DEF LoopInv
    <2>. QED  BY <1>0, <1>1, <2>1
  <1>3. e \in Entries /\ e.offset < e.record /\ e.record <= appends /\ Len(wal) <= appends
    BY <1>0, <1>2, Zenon DEF Logged
  <1>4. cursor' \in 1..(MaxAppends + 2)
    BY <1>0, <1>1, <1>2, <1>3
  <1>5. next_offset_ = Len(FlattenSeq(file)) /\ next_offset_' = Len(FlattenSeq(file'))
    BY <1>0, <1>1, Zenon DEF RunInv
  <1>6. Len(FlattenSeq(file')) <= appends /\ Len(file') = Len(file)
    <2>1. CASE e.offset = next_offset_ /\ store(e.record)
      <3>1. next_offset_' = next_offset_ + 1
        BY <2>1, Zenon DEF store
      <3>2. e.offset \in Nat /\ e.record \in Nat
        BY <1>3 DEF Entries, Records
      <3>3. next_offset_ + 1 <= appends
        <4>. HIDE DEF e
        <4>. QED  BY <1>0, <1>3, <2>1, <3>2
      <3>4. Len(file') = Len(file)
        <4>1. file' = [file EXCEPT ![active_segment] = Append(@, e.record)]
          BY <2>1, Zenon DEF store
        <4>2. file \in Seq(Seq(Records)) /\ file' \in Seq(Seq(Records))
          BY Zenon DEF StoreInv, StoreTypes
        <4>3. DOMAIN file' = DOMAIN file
          BY <4>1, Zenon
        <4>. QED  BY <4>2, <4>3
      <3>. QED  BY <1>5, <3>1, <3>3, <3>4, Zenon
    <2>2. CASE UNCHANGED <<file, next_offset_>>
      BY <1>0, <2>2, Zenon
    <2>. QED  BY <1>1, <2>1, <2>2, Zenon
  <1>7. pc' \notin {"logged", "stored"} /\ pc' # "logged"
    BY <1>1, Zenon
  <1>. QED  BY <1>1, <1>4, <1>6, <1>7, Zenon DEF BoundInv

\* append writes its WAL entry,
LEMMA BoundWrite ==
    ASSUME StoreInv, StoreInv', BoundInv, write_wal
    PROVE  BoundInv'
  <1>0. /\ StoreTypes /\ RunInv /\ Logged(wal, appends) /\ Logged(wal_stable, appends)
        /\ Len(FlattenSeq(file)) \in Nat /\ Len(wal) \in Nat /\ appends \in Nat /\ MaxAppends \in Nat
        /\ \A i \in 1..Len(wal) : wal[i] \in Entries
        /\ Len(FlattenSeq(file)) <= appends /\ Len(file) \in Nat /\ Len(file) <= appends + 1
    BY BoundTypes, Zenon DEF BoundInv, StoreInv
  <1>. DEFINE e == [offset |-> next_offset_, record |-> appends + 1]
              x == <<next_offset_, appends + 1>>
              L == Len(FlattenSeq(file))
  <1>1. /\ pc = "ready" /\ pc' = "logged" /\ appends < MaxAppends /\ appends' = appends + 1
        /\ current' = {x} /\ wal' = Append(wal, e)
        /\ UNCHANGED <<cursor, file, wal_stable, pending_appends_, returned>>
    BY Zenon DEF write_wal, diskVars, procVars
  <1>2. next_offset_ = L
    BY <1>0, <1>1, Zenon DEF RunInv
  <1>. HIDE DEF L
  <1>3. /\ L \in Nat /\ L <= appends /\ L < appends + 1 /\ L <= appends + 1
        /\ Len(file) <= (appends + 1) + 1 /\ Len(file) <= appends + 1
    BY <1>0 DEF L
  <1>4. e \in Entries /\ e.offset = L /\ e.record = appends + 1 /\ x \in Nat \X Records
        /\ x[1] = L /\ x[2] = appends + 1
    BY <1>0, <1>1, <1>2, <1>3 DEF Entries, Records
  <1>5. \A w \in Seq(Entries) : Logged(w, appends) => Logged(w, appends + 1)
    <2>. SUFFICES ASSUME NEW w \in Seq(Entries), Logged(w, appends) PROVE Logged(w, appends + 1)
      BY Zenon
    <2>1. \A i \in 1..Len(w) : w[i].record \in Nat
      <3>1. \A e1 \in Entries : e1.record \in Nat
        BY DEF Entries, Records
      <3>2. \A i \in 1..Len(w) : w[i] \in Entries
        OBVIOUS
      <3>. QED  BY <3>1, <3>2, Zenon
    <2>2. Len(w) \in Nat
      OBVIOUS
    <2>3. \A k \in Nat : k <= appends => k <= appends + 1
      BY <1>0
    <2>. QED  BY <2>1, <2>2, <2>3, Zenon DEF Logged
  <1>6. Logged(Append(wal, e), appends + 1)
    <2>0. wal \in Seq(Entries)
      BY <1>0, Zenon DEF StoreTypes
    <2>1. Logged(wal, appends + 1)
      BY <1>0, <1>5, <2>0, Zenon
    <2>. DEFINE W == Append(wal, e)
    <2>. HIDE DEF e
    <2>2. /\ Len(W) = Len(wal) + 1 /\ W[Len(wal) + 1] = e
          /\ \A i \in 1..Len(wal) : W[i] = wal[i]
          /\ \A i \in 1..(Len(wal) + 1) : i \in 1..Len(wal) \/ i = Len(wal) + 1
      BY <1>4, <2>0
    <2>3. Len(wal) + 1 <= appends + 1
      <3>1. Len(wal) <= appends
        BY <1>0, Zenon DEF Logged
      <3>. QED  BY <1>0, <3>1
    <2>4. appends + 1 <= appends + 1
      BY <1>0
    <2>. HIDE DEF W
    <2>5. ASSUME NEW i \in 1..Len(W) PROVE W[i].offset < W[i].record /\ W[i].record <= appends + 1
      <3>1. CASE i \in 1..Len(wal)
        BY <2>1, <2>2, <3>1, Zenon DEF Logged
      <3>2. CASE i = Len(wal) + 1
        BY <1>3, <1>4, <2>2, <2>4, <3>2, Zenon
      <3>. QED  BY <2>2, <3>1, <3>2, Zenon
    <2>6. Logged(W, appends + 1)
      BY <2>2, <2>3, <2>5, Zenon DEF Logged
    <2>. QED  BY <2>6, Zenon DEF W
  <1>7. Logged(wal_stable, appends + 1)
    <2>0. wal_stable \in Seq(Entries)
      BY <1>0, Zenon DEF StoreTypes
    <2>. QED  BY <1>0, <1>5, <2>0, Zenon
  <1>8. \A c \in current' \cup returned' : c \in Nat \X Records /\ c[1] < c[2] /\ c[2] <= appends'
    <2>. SUFFICES ASSUME NEW c \in {x} \cup returned
                  PROVE  c \in Nat \X Records /\ c[1] < c[2] /\ c[2] <= appends + 1
      BY <1>1, Zenon
    <2>1. CASE c = x
      <3>1. appends + 1 <= appends + 1
        BY <1>0
      <3>. QED  BY <1>3, <1>4, <2>1, <3>1, Zenon
    <2>2. CASE c \in returned
      <3>1. c \in Nat \X Records /\ c[1] < c[2] /\ c[2] <= appends
        BY <2>2, Zenon DEF BoundInv
      <3>2. c[2] \in Nat
        BY <3>1 DEF Records
      <3>3. c[2] <= appends + 1
        BY <1>0, <3>1, <3>2
      <3>. QED  BY <3>1, <3>3, Zenon
    <2>. QED  BY <2>1, <2>2, Zenon
  <1>9. pending_appends_ \in 0..SyncBatch /\ pending_appends_ < SyncBatch
        /\ cursor \in 1..(MaxAppends + 2)
    BY <1>1, Zenon DEF BoundInv
  <1>. QED  BY <1>1, <1>3, <1>6, <1>7, <1>8, <1>9, Zenon DEF BoundInv, L

\* stores the record,
LEMMA BoundAppend ==
    ASSUME StoreInv, StoreInv', BoundInv, append_record
    PROVE  BoundInv'
  <1>0. /\ RunInv /\ RunInv' /\ appends \in Nat
        /\ Len(FlattenSeq(file)) \in Nat /\ Len(file) \in Nat
    BY BoundTypes, Zenon DEF StoreInv
  <1>1. /\ pc = "logged" /\ pc' = "stored"
        /\ UNCHANGED <<cursor, wal, wal_stable, pending_appends_, current, appends, returned>>
    BY Zenon DEF append_record, walVars
  <1>2. PICK c \in current : store(c[2])
    BY Zenon DEF append_record
  <1>3. next_offset_ = Len(FlattenSeq(file)) /\ next_offset_' = Len(FlattenSeq(file'))
    BY <1>0, <1>1, Zenon DEF RunInv
  <1>4. next_offset_' = next_offset_ + 1
    BY <1>2, Zenon DEF store
  <1>5. Len(FlattenSeq(file)) < appends /\ Len(file) <= appends
    BY <1>1, Zenon DEF BoundInv
  <1>6. Len(FlattenSeq(file')) <= appends
    <2>. DEFINE x == Len(FlattenSeq(file))
    <2>. HIDE DEF x
    <2>1. x \in Nat /\ x < appends
      BY <1>0, <1>5, Zenon DEF x
    <2>2. x + 1 <= appends
      BY <1>0, <2>1
    <2>. QED  BY <1>3, <1>4, <2>2, Zenon DEF x
  <1>7. Len(file') = Len(file)
    <2>1. file' = [file EXCEPT ![active_segment] = Append(@, c[2])]
      BY <1>2, Zenon DEF store
    <2>2. file \in Seq(Seq(Records)) /\ file' \in Seq(Seq(Records))
      BY Zenon DEF StoreInv, StoreTypes
    <2>3. DOMAIN file' = DOMAIN file
      BY <2>1, Zenon
    <2>. QED  BY <2>2, <2>3
  <1>8. Len(file') <= appends + 1
    BY <1>0, <1>5, <1>7
  <1>9. Logged(wal, appends) /\ Logged(wal_stable, appends) /\ pending_appends_ \in 0..SyncBatch
        /\ pending_appends_ < SyncBatch /\ cursor \in 1..(MaxAppends + 2)
        /\ \A d \in current \cup returned : d \in Nat \X Records /\ d[1] < d[2] /\ d[2] <= appends
    BY <1>1, Zenon DEF BoundInv
  <1>. QED  BY <1>1, <1>5, <1>6, <1>7, <1>8, <1>9, Zenon DEF BoundInv

\* and begins a new segment after a full one.
LEMMA BoundRoll ==
    ASSUME StoreInv, StoreInv', BoundInv, roll_segment
    PROVE  BoundInv'
  <1>0. /\ RunInv /\ RunInv' /\ StoreTypes /\ appends \in Nat /\ SyncBatch \in Nat
        /\ Len(FlattenSeq(file)) \in Nat /\ Len(file) \in Nat /\ pending_appends_ \in Nat
    BY BoundTypes, Zenon DEF StoreInv
  <1>1. /\ pc = "stored" /\ pending_appends_' = pending_appends_ + 1
        /\ file' = file \/ file' = Append(file, << >>)
        /\ \/ pc' = "sync_wal" /\ UNCHANGED <<current, returned>>
           \/ /\ pc' = "ready" /\ ~(pending_appends_ + 1 >= SyncBatch)
              /\ returned' = returned \cup current /\ current' = {}
        /\ UNCHANGED <<cursor, wal, wal_stable, next_offset_, appends>>
    BY Zenon DEF roll_segment, walVars
  <1>2. /\ Logged(wal, appends) /\ Logged(wal_stable, appends) /\ cursor \in 1..(MaxAppends + 2)
        /\ pending_appends_ < SyncBatch /\ Len(file) <= appends /\ Len(FlattenSeq(file)) <= appends
        /\ \A d \in current \cup returned : d \in Nat \X Records /\ d[1] < d[2] /\ d[2] <= appends
    BY <1>1, Zenon DEF BoundInv
  <1>3. Len(file') <= appends + 1
    <2>1. CASE file' = file
      <3>1. Len(file) <= appends + 1
        BY <1>0, <1>2
      <3>. QED  BY <2>1, <3>1, Zenon
    <2>2. CASE file' = Append(file, << >>)
      <3>1. file \in Seq(Seq(Records))
        BY <1>0, Zenon DEF StoreTypes
      <3>2. Len(Append(file, << >>)) = Len(file) + 1
        BY <3>1
      <3>3. Len(file) + 1 <= appends + 1
        BY <1>0, <1>2
      <3>. QED  BY <2>2, <3>2, <3>3, Zenon
    <2>. QED  BY <1>1, <2>1, <2>2, Zenon
  <1>4. Len(FlattenSeq(file')) <= appends
    <2>1. pc # "down" /\ pc' # "down"
      BY <1>1, Zenon
    <2>. QED  BY <1>0, <1>1, <1>2, <2>1, Zenon DEF RunInv
  <1>5. pending_appends_' \in 0..SyncBatch
    BY <1>0, <1>1, <1>2
  <1>6. pc' = "ready" => pending_appends_' < SyncBatch
    BY <1>0, <1>1
  <1>7. pc' \notin {"logged", "stored"} /\ pc' # "logged"
        /\ (pc' \in {"down", "replay", "ready", "logged", "stored"} => pc' = "ready")
    BY <1>1, Zenon
  <1>8. current' \cup returned' \subseteq current \cup returned
    BY <1>1, Zenon
  <1>9. \A d \in current' \cup returned' : d \in Nat \X Records /\ d[1] < d[2] /\ d[2] <= appends
    BY <1>2, <1>8, Zenon
  <1>. QED  BY <1>1, <1>2, <1>3, <1>4, <1>5, <1>6, <1>7, <1>9, Zenon DEF BoundInv

\* Every step keeps the bounds.
LEMMA BoundStep ==
    ASSUME StoreInv, StoreInv', BoundInv, [Next]_plVars
    PROVE  BoundInv'
  <1>1. CASE UNCHANGED plVars
    <2>1. /\ UNCHANGED <<file, appends, pc, wal, wal_stable, pending_appends_, cursor>>
          /\ UNCHANGED <<current, returned>>
      BY <1>1, Zenon DEF plVars, diskVars, walVars, procVars
    <2>. QED  BY <2>1, Zenon DEF BoundInv
  <1>2. CASE Next
    BY <1>2, BoundLoad, BoundReplay, BoundWrite, BoundAppend, BoundRoll, BoundQuiet, BoundCrash,
       Zenon DEF Next
  <1>. QED  BY <1>1, <1>2, Zenon

\* At the beginning they hold.
LEMMA BoundInit == Init => BoundInv
  <1>. SUFFICES ASSUME Init PROVE BoundInv
    BY Zenon
  <1>1. /\ pc = "down" /\ cursor = 1 /\ file = << >> /\ wal = << >> /\ wal_stable = << >>
        /\ pending_appends_ = 0 /\ current = {} /\ appends = 0 /\ returned = {}
    BY Zenon DEF Init
  <1>2. MaxAppends \in Nat /\ SyncBatch \in Nat /\ SyncBatch # 0
    BY PartitionLogAssumption, Zenon DEF PartitionLogAssumption
  <1>3. /\ 1 \in 1..(MaxAppends + 2) /\ 0 \in 0..SyncBatch /\ 0 < SyncBatch
        /\ Len(<< >>) = 0 /\ 0 <= 0 /\ 0 <= 0 + 1 /\ 1..0 = {}
    BY <1>2
  <1>4. Len(FlattenSeq(<< >>)) = 0 /\ Logged(<< >>, 0)
    BY <1>3, FlattenNone, Zenon DEF Logged
  <1>. QED  BY <1>1, <1>3, <1>4, Zenon DEF BoundInv

\* The entries of a WAL are within the bounds.
LEMMA LoggedTypes ==
    ASSUME NEW w \in Seq(Entries), NEW a \in 0..MaxAppends, Logged(w, a)
    PROVE  w \in Seq([offset : 0..(MaxAppends - 1), record : Records])
  <1>. DEFINE T == [offset : 0..(MaxAppends - 1), record : Records]
  <1>1. \A i \in 1..Len(w) : w[i] \in Entries /\ w[i].offset < w[i].record
    BY DEF Logged
  <1>2. \A e \in Entries : e.offset < e.record => e \in T
    <2>1. MaxAppends \in Nat
      BY PartitionLogAssumption, Zenon DEF PartitionLogAssumption
    <2>. SUFFICES ASSUME NEW e \in Entries, e.offset < e.record PROVE e \in T
      BY Zenon
    <2>2. e.offset \in Nat /\ e.record \in Records /\ e = [offset |-> e.offset, record |-> e.record]
      BY DEF Entries
    <2>3. e.offset \in 0..(MaxAppends - 1)
      BY <2>1, <2>2 DEF Records
    <2>. QED  BY <2>2, <2>3
  <1>3. \A i \in 1..Len(w) : w[i] \in T
    BY <1>1, <1>2, Zenon
  <1>. HIDE DEF T
  <1>4. w \in Seq(T)
    BY <1>3
  <1>. QED  BY <1>4, Zenon DEF T

\* An index entry is within them.
LEMMA IndexTypes ==
    ASSUME NEW P, NEW n \in 0..MaxAppends, Indexed(index_, P, n)
    PROVE  index_ \in Seq([offset : 0..(MaxAppends - 1), segment_index : Nat, byte_position : Nat])
  <1>. DEFINE T == [offset : 0..(MaxAppends - 1), segment_index : Nat, byte_position : Nat]
              E == [offset : Nat, segment_index : Nat, byte_position : Nat]
  <1>0. MaxAppends \in Nat
    BY PartitionLogAssumption, Zenon DEF PartitionLogAssumption
  <1>1. index_ \in Seq(E) /\ \A m \in 1..Len(index_) : index_[m].offset < n
    BY Zenon DEF Indexed
  <1>2. \A e \in E : e.offset < n => e \in T
    <2>. SUFFICES ASSUME NEW e \in E, e.offset < n PROVE e \in T
      BY Zenon
    <2>1. /\ e.offset \in Nat /\ e.segment_index \in Nat /\ e.byte_position \in Nat
          /\ e = [offset |-> e.offset, segment_index |-> e.segment_index,
                  byte_position |-> e.byte_position]
      OBVIOUS
    <2>2. e.offset \in 0..(MaxAppends - 1)
      BY <1>0, <2>1
    <2>. QED  BY <2>1, <2>2
  <1>. HIDE DEF T, E
  <1>3. \A m \in 1..Len(index_) : index_[m] \in E
    BY <1>1
  <1>4. \A m \in 1..Len(index_) : index_[m] \in T
    BY <1>1, <1>2, <1>3, Zenon
  <1>5. index_ \in Seq(T)
    BY <1>1, <1>4
  <1>. QED  BY <1>5, Zenon DEF T

\* The invariants give the types.
LEMMA InvTypes ==
    ASSUME StoreInv, IndexInv, BoundInv
    PROVE  TypeOK
  <1>. DEFINE L == Len(FlattenSeq(file))
              C == (0..(MaxAppends - 1)) \X Records
  <1>0. /\ StoreTypes /\ StableInv /\ RunInv /\ L \in Nat /\ appends \in Nat /\ MaxAppends \in Nat
        /\ appends <= MaxAppends /\ Len(file) \in Nat /\ L <= appends
    BY BoundTypes, Zenon DEF StoreInv, BoundInv
  <1>1. /\ file \in Seq(Seq(Records)) /\ unflushed \subseteq 1..Len(file)
        /\ stable \in Seq(Nat) /\ Len(stable) = Len(file)
        /\ wal \in Seq(Entries) /\ wal_stable \in Seq(Entries) /\ appends \in 0..MaxAppends
        /\ synced \in Seq(Records)
    BY <1>0, Zenon DEF StoreTypes
  <1>2. DOMAIN file = 1..Len(file) /\ DOMAIN stable = 1..Len(file)
    BY <1>1
  <1>3. L \in 0..MaxAppends
    <2>. HIDE DEF L
    <2>. QED  BY <1>0
  <1>4. stable \in [DOMAIN file -> 0..MaxAppends]
    <2>1. ASSUME NEW f \in 1..Len(file) PROVE stable[f] \in 0..MaxAppends
      <3>. DEFINE l == Len(file[f])
                  w == Written(f)
                  m == stable[f]
      <3>1. l \in Nat /\ m \in Nat /\ w \in Nat /\ m <= w /\ w <= l
        BY <1>0, FileTypes, Zenon
      <3>2. l <= L
        <4>1. CASE l = 0
          <5>1. \A x \in Nat : 0 <= x
            OBVIOUS
          <5>. QED  BY <1>0, <4>1, <5>1, Zenon
        <4>2. CASE l # 0
          <5>. DEFINE u == Len(Upto(file, f - 1))
          <5>1. l \in 1..Len(file[f])
            <6>. HIDE DEF l
            <6>1. l \in 1..l
              BY <3>1, <4>2
            <6>. QED  BY <6>1, Zenon DEF l
          <5>2. u \in Nat /\ u + l \in 1..L
            BY <1>1, <5>1, PlaceOfRecord, Zenon
          <5>. HIDE DEF u, l, L
          <5>. QED  BY <1>0, <3>1, <5>2
        <4>. QED  BY <4>1, <4>2, Zenon
      <3>. HIDE DEF l, w, m, L
      <3>3. m \in 0..MaxAppends
        BY <1>0, <3>1, <3>2
      <3>. QED  BY <3>3, Zenon DEF m
    <2>2. \A S : \A q \in Seq(S) : q = [i \in DOMAIN q |-> q[i]]
      OBVIOUS
    <2>3. stable = [f \in 1..Len(file) |-> stable[f]]
      BY <1>1, <1>2, <2>2, Zenon
    <2>. QED  BY <1>2, <2>1, <2>3
  <1>5. /\ wal \in Seq([offset : 0..(MaxAppends - 1), record : Records])
        /\ wal_stable \in Seq([offset : 0..(MaxAppends - 1), record : Records])
    <2>1. Logged(wal, appends) /\ Logged(wal_stable, appends)
      BY Zenon DEF BoundInv
    <2>. QED  BY <1>1, <2>1, LoggedTypes, Zenon
  <1>6. segments \in Seq(DOMAIN file)
    <2>1. CASE pc = "down"
      BY <2>1 DEF IndexInv
    <2>2. CASE pc # "down"
      <3>1. segments = [i \in 1..Len(file) |-> i]
        BY <1>0, <2>2, Zenon DEF RunInv
      <3>. QED  BY <1>0, <1>2, <3>1
    <2>. QED  BY <2>1, <2>2, Zenon
  <1>7. index_ \in Seq([offset : 0..(MaxAppends - 1), segment_index : Nat, byte_position : Nat])
    <2>1. CASE pc = "down"
      BY <2>1 DEF IndexInv
    <2>2. CASE pc # "down"
      <3>1. Indexed(index_, FlattenSeq(PlacesIn(file)), L)
        BY <2>2, Zenon DEF IndexInv
      <3>. HIDE DEF L
      <3>. QED  BY <1>3, <3>1, IndexTypes, Zenon
    <2>. QED  BY <2>1, <2>2, Zenon
  <1>8. next_offset_ \in 0..MaxAppends
    <2>1. CASE pc = "down"
      <3>1. 0 \in 0..MaxAppends
        BY <1>0
      <3>. QED  BY <2>1, <3>1, Zenon DEF IndexInv
    <2>2. CASE pc # "down"
      BY <1>0, <1>3, <2>2, Zenon DEF RunInv
    <2>. QED  BY <2>1, <2>2, Zenon
  <1>9. current \subseteq C /\ returned \subseteq C
    <2>1. ASSUME NEW c \in current \cup returned PROVE c \in C
      <3>1. c \in Nat \X Records /\ c[1] < c[2]
        BY Zenon DEF BoundInv
      <3>2. c[1] \in Nat /\ c[2] \in Records /\ c = <<c[1], c[2]>>
        BY <3>1
      <3>3. c[1] \in 0..(MaxAppends - 1)
        BY <1>0, <3>1, <3>2 DEF Records
      <3>. QED  BY <3>2, <3>3
    <2>. QED  BY <2>1, Zenon
  <1>10. pc \in {"down", "replay", "ready", "logged", "stored", "sync_wal", "sync_segments", "clear_wal"}
    BY <1>0, Zenon DEF StoreTypes
  <1>11. cursor \in 1..(MaxAppends + 2) /\ pending_appends_ \in 0..SyncBatch
    BY Zenon DEF BoundInv
  <1>. QED  BY <1>1, <1>2, <1>4, <1>5, <1>6, <1>7, <1>8, <1>9, <1>10, <1>11, Zenon DEF TypeOK

\* While there are at most ten segments, all of the invariants hold.
THEOREM BoundInvariant == Spec => [](TenFiles => StoreInv /\ IndexInv /\ BoundInv)
  <1>1. Init => FilesSeq /\ (TenFiles => StoreInv) /\ (TenFiles => BoundInv)
    BY FilesSeqInit, StoreInit, BoundInit, Zenon
  <1>2. /\ FilesSeq /\ (TenFiles => StoreInv) /\ (TenFiles => BoundInv) /\ [Next]_plVars
        => FilesSeq' /\ (TenFiles => StoreInv)' /\ (TenFiles => BoundInv)'
    <2>. SUFFICES ASSUME FilesSeq, TenFiles => StoreInv, TenFiles => BoundInv, [Next]_plVars
                  PROVE  FilesSeq' /\ (TenFiles' => StoreInv') /\ (TenFiles' => BoundInv')
      BY Zenon
    <2>1. FilesSeq' /\ (TenFiles' => StoreInv' /\ TenFiles)
      BY FilesSeqStep, StoreStep, Zenon
    <2>2. TenFiles' => BoundInv'
      BY <2>1, BoundStep, Zenon
    <2>. QED  BY <2>1, <2>2, Zenon
  <1>3. (TenFiles => BoundInv) /\ (TenFiles => StoreInv /\ IndexInv)
        => (TenFiles => StoreInv /\ IndexInv /\ BoundInv)
    BY Zenon
  <1>. QED  BY <1>1, <1>2, <1>3, IndexInvariant, PTL DEF Spec

\* The variables have their types: no offset, position or count leaves its
\* range, and a sync comes when SyncBatch appends are pending.
THEOREM TypeCorrect == Spec => [](Len(file) <= 10 => TypeOK)
  <1>1. (TenFiles => StoreInv /\ IndexInv /\ BoundInv) => (Len(file) <= 10 => TypeOK)
    BY InvTypes, Zenon DEF TenFiles
  <1>. QED  BY <1>1, BoundInvariant, PTL
-----------------------------------------------------------------------------
(* A log of one segment only.                                              *)

\* A segment that all appends fit in is never followed by another.
LEMMA OneFileStays ==
    ASSUME MaxAppends < SegmentCapacity, OneFile, StoreInv, BoundInv, [Next]_plVars
    PROVE  OneFile'
  <1>0. file \in Seq(Seq(Records)) /\ Len(Whole) \in Nat
    BY OneFileFacts, Zenon
  <1>1. CASE file' = file
    BY <1>1, Zenon DEF OneFile
  <1>2. CASE load_existing_segments
    <2>1. file' = IF file = << >> THEN << << >> >> ELSE file
      BY <1>2, Zenon DEF load_existing_segments
    <2>2. Len(<< << >> >>) <= 1
      OBVIOUS
    <2>. QED  BY <2>1, <2>2, Zenon DEF OneFile
  <1>3. ASSUME NEW r, store(r) PROVE OneFile'
    <2>. DEFINE f == active_segment
                x == Append(file[f], r)
    <2>1. file' = [file EXCEPT ![f] = x]
      BY <1>3, Zenon DEF store
    <2>. HIDE DEF f, x
    <2>2. Len(file') = Len(file)
      <3>1. DOMAIN file' = 1..Len(file) /\ Len(file) \in Nat
        BY <1>0, <2>1
      <3>2. PICK T : file' \in Seq(T)
        <4>1. FilesSeq
          BY <1>0, Zenon DEF FilesSeq
        <4>. QED  BY <4>1, FilesSeqStep, Zenon DEF FilesSeq
      <3>. QED  BY <3>1, <3>2
    <2>. QED  BY <2>2, Zenon DEF OneFile
  <1>4. CASE recover_wal_entry
    BY <1>1, <1>3, <1>4, Zenon DEF recover_wal_entry
  <1>5. CASE append_record
    BY <1>3, <1>5, Zenon DEF append_record
  <1>6. CASE roll_segment
    <2>1. pc # "down"
      BY <1>6, Zenon DEF roll_segment
    <2>2. file # << >> /\ segments = [i \in 1..Len(file) |-> i]
      BY <2>1, Zenon DEF StoreInv, RunInv
    <2>3. Len(file) = 1 /\ file[1] = Whole
      BY <2>2, OneFileFacts, Zenon
    <2>4. active_segment = 1
      BY <2>2, <2>3 DEF active_segment
    <2>5. Len(Whole) <= appends /\ appends \in Nat /\ appends <= MaxAppends /\ MaxAppends \in Nat
      BY BoundTypes, Zenon DEF BoundInv, Whole
    <2>6. SegmentCapacity \in Nat
      BY PartitionLogAssumption, Zenon DEF PartitionLogAssumption
    <2>7. ~(Len(Whole) >= SegmentCapacity)
      BY <1>0, <2>5, <2>6
    <2>8. file' = file
      BY <1>6, <2>3, <2>4, <2>7, Zenon DEF roll_segment
    <2>. QED  BY <1>1, <2>8, Zenon
  <1>7. CASE kill
    BY <1>7, KillCuts, Zenon
  <1>8. CASE power_loss
    BY <1>8, LossCuts, Zenon
  <1>9. CASE UNCHANGED plVars \/ recover_wal_end \/ write_wal \/ flush \/ sync_wal
    <2>1. file' = file
      BY <1>9, Zenon DEF plVars, diskVars, recover_wal_end, write_wal, flush, sync_wal
    <2>. QED  BY <1>1, <2>1, Zenon
  <1>10. CASE sync_segment \/ clear_wal \/ close \/ \E o \in 0..(MaxAppends - 1) : fetch(o)
    <2>1. file' = file
      BY <1>10, Zenon DEF diskVars, sync_segment, clear_wal, close, fetch
    <2>. QED  BY <1>1, <2>1, Zenon
  <1>. QED  BY <1>2, <1>4, <1>5, <1>6, <1>7, <1>8, <1>9, <1>10, Zenon DEF Next

\* A log whose appends fit in one segment implements DurableLog: its records
\* change by one append at the end, or, in a crash, are cut behind what the
\* last completed sync covered, and may gain the append that was under way.
\* No crash, during a sync or a recovery either, leaves a gap, a duplicate or a
\* record out of place.
THEOREM DurableLogImplemented ==
    ASSUME MaxAppends < SegmentCapacity
    PROVE  Spec => ImplementsDurableLog
  <1>. DEFINE I == TenFiles => StoreInv /\ IndexInv /\ BoundInv
              J == OneFile => StoreInv /\ OneInv
              S == Len(file) <= 10 => SyncedSurvives
              K == I /\ J /\ S /\ (OneFile => ServedInv) /\ (OneFile => TenFiles)
  <1>1. Spec => []I /\ []J /\ []S
    BY BoundInvariant, OneInvariant, SyncedIsKept, PTL
  <1>2. Init => FilesSeq /\ OneFile
    <2>1. Len(<< >>) <= 1
      OBVIOUS
    <2>. QED  BY <2>1, FilesSeqInit, Zenon DEF Init, OneFile
  <1>3. FilesSeq /\ I /\ J /\ S => K
    <2>. SUFFICES ASSUME FilesSeq, I, J, S, OneFile PROVE TenFiles /\ ServedInv
      BY Zenon
    <2>1. PICK T : file \in Seq(T)
      BY Zenon DEF FilesSeq
    <2>2. Len(file) \in Nat
      BY <2>1
    <2>3. TenFiles
      BY <2>2 DEF OneFile, TenFiles
    <2>. QED  BY <2>3, Served, Zenon
  <1>4. FilesSeq /\ [Next]_plVars => FilesSeq'
    BY FilesSeqStep, Zenon
  <1>5. ASSUME K, OneFile, [Next]_plVars PROVE OneFile'
    BY <1>5, OneFileStays, Zenon
  <1>6. ASSUME K, OneFile, K', OneFile', [Next]_plVars
        PROVE  [Durable!DLNext]_(Durable!dlVars)
    <2>1. StoreInv /\ OneInv /\ ServedInv
      BY <1>6, Zenon
    <2>2. StoreInv' /\ ServedInv' /\ SyncedSurvives'
      BY <1>6, Zenon DEF TenFiles
    <2>. QED  BY <1>6, <2>1, <2>2, DurableStep, Zenon
  <1>7. Init => Durable!DLInit
    <2>. SUFFICES ASSUME Init PROVE Recoverable = << >> /\ Len(synced) = 0
      BY Zenon DEF Durable!DLInit
    <2>1. /\ pc = "down" /\ wal = << >> /\ synced = << >> /\ file = << >> /\ OneFile
      BY <1>2, Zenon DEF Init
    <2>2. Whole = << >> /\ ServedInv
      BY <2>1, FlattenNone, StoreInit, OneInit, Served, Zenon DEF Whole
    <2>3. Recoverable = Replayed(<< >>, << >>)
      BY <2>1, <2>2, Zenon DEF ServedInv
    <2>4. Replayed(<< >>, << >>) = << >>
      <3>1. << >> \in Seq(Records) /\ << >> \in Seq(Entries) /\ Len(<< >>) = 0 /\ 1..0 = {}
        OBVIOUS
      <3>2. Continues(<< >>, << >>)
        BY <3>1, Zenon DEF Continues, Consecutive, Agrees
      <3>. QED  BY <3>1, <3>2, ReplayedSame, Zenon
    <2>5. Len(<< >>) = 0
      OBVIOUS
    <2>. QED  BY <2>1, <2>3, <2>4, <2>5, Zenon
  <1>. HIDE DEF I, J, S, K
  <1>8. Spec => []K /\ []OneFile
    BY <1>1, <1>2, <1>3, <1>4, <1>5, PTL DEF Spec
  <1>. QED  BY <1>6, <1>7, <1>8, PTL DEF Spec, ImplementsDurableLog, Durable!DLSpec
=============================================================================
