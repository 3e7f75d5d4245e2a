------------------------ MODULE PartitionLogProofs --------------------------
(***************************************************************************)
(* What is proved about crashes of the storage of one partition: that what *)
(* a sync covered survives them (StoreInv), and, in a log of one segment,  *)
(* that the WAL has whatever the segment may lose (OneInv).  The theorems  *)
(* are about logs of at most ten segments: with more, the sorted paths are *)
(* not the order in which the segments were made (LoadOrder).              *)
(***************************************************************************)
EXTENDS PartitionLog, FlattenProofs, FiniteSetTheorems

(* Sequences: prefixes, and the records of several files as one sequence.  *)

\* Begins is transitive,
LEMMA BeginsTransitive ==
    ASSUME NEW R, NEW a \in Seq(R), NEW b \in Seq(R), NEW c \in Seq(R),
           Begins(a, b), Begins(b, c)
    PROVE  Begins(a, c)
  BY DEF Begins

\* and holds of a sequence and the same with more behind it.
LEMMA BeginsConcat ==
    ASSUME NEW R, NEW a \in Seq(R), NEW b \in Seq(R)
    PROVE  /\ a \o b \in Seq(R) /\ Len(a \o b) = Len(a) + Len(b)
           /\ Begins(a, a \o b) /\ Begins(a, a)
  BY DEF Begins
-----------------------------------------------------------------------------
\* The records of the first files begin those of all.
LEMMA UptoBegins ==
    ASSUME NEW R, NEW s \in Seq(Seq(R)), NEW n \in 0..Len(s)
    PROVE  Begins(Upto(s, n), FlattenSeq(s))
  <1>. DEFINE N == Len(s)
              S == {d \in Nat : n + d <= N => Begins(Upto(s, n), Upto(s, n + d))}
  <1>0. N \in Nat /\ n \in Nat /\ n <= N /\ Upto(s, n) \in Seq(R)
    <2>1. N \in Nat /\ n \in Nat /\ n <= N
      OBVIOUS
    <2>. QED  BY <2>1, UptoSteps, Zenon
  <1>1. 0 \in S
    <2>1. n + 0 = n
      BY <1>0
    <2>2. Begins(Upto(s, n), Upto(s, n))
      BY <1>0, BeginsConcat, Zenon
    <2>. QED  BY <2>1, <2>2, Zenon
  <1>2. ASSUME NEW d \in Nat, d \in S PROVE d + 1 \in S
    <2>. DEFINE k == n + (d + 1)
    <2>0. d + 1 \in Nat
      OBVIOUS
    <2>. SUFFICES ASSUME k <= N PROVE Begins(Upto(s, n), Upto(s, k))
      BY <2>0, Zenon
    <2>1. k \in 1..N /\ k - 1 = n + d /\ n + d <= N /\ n + d \in 0..N
      BY <1>0
    <2>. HIDE DEF k, N
    <2>2. /\ Upto(s, n + d) \in Seq(R) /\ s[k] \in Seq(R)
          /\ Upto(s, k) = Upto(s, n + d) \o s[k]
      BY <2>1, UptoSteps, Zenon DEF N
    <2>3. Begins(Upto(s, n), Upto(s, n + d))
      BY <1>2, <2>1, Zenon
    <2>4. Begins(Upto(s, n + d), Upto(s, k)) /\ Upto(s, k) \in Seq(R)
      <3>. DEFINE u == Upto(s, n + d)
                  v == s[k]
      <3>1. u \in Seq(R) /\ v \in Seq(R) /\ Upto(s, k) = u \o v
        BY <2>2, Zenon
      <3>. HIDE DEF u, v
      <3>2. Begins(u, u \o v) /\ u \o v \in Seq(R)
        BY <3>1, BeginsConcat, Zenon
      <3>. QED  BY <3>1, <3>2, Zenon DEF u
    <2>. QED  BY <1>0, <2>2, <2>3, <2>4, BeginsTransitive, Zenon
  <1>. HIDE DEF S
  <1>3. N - n \in Nat /\ n + (N - n) = N /\ N <= N
    BY <1>0
  <1>4. N - n \in S
    BY <1>1, <1>2, <1>3, Climb, Zenon
  <1>. QED  BY <1>3, <1>4, UptoSteps, Zenon DEF S

\* Record p of file n, among all records.
LEMMA RecordAt ==
    ASSUME NEW R, NEW s \in Seq(Seq(R)), NEW n \in 1..Len(s), NEW p \in 1..Len(s[n])
    PROVE  /\ Len(Upto(s, n - 1)) + p \in 1..Len(FlattenSeq(s))
           /\ FlattenSeq(s)[Len(Upto(s, n - 1)) + p] = s[n][p]
           /\ Len(Upto(s, n)) = Len(Upto(s, n - 1)) + Len(s[n])
  <1>1. n - 1 \in 0..Len(s) /\ n \in 0..Len(s)
    OBVIOUS
  <1>. DEFINE a == Upto(s, n - 1)
              b == Upto(s, n)
              c == FlattenSeq(s)
              x == s[n]
  <1>2. a \in Seq(R) /\ b \in Seq(R) /\ c \in Seq(R) /\ x \in Seq(R) /\ b = a \o x
    BY <1>1, UptoSteps, Zenon
  <1>3. Begins(b, c)
    BY <1>1, UptoBegins, Zenon
  <1>4. p \in 1..Len(x)
    OBVIOUS
  <1>. HIDE DEF a, b, c, x
  <1>5. Len(b) = Len(a) + Len(x) /\ Len(a) + p \in 1..Len(b) /\ b[Len(a) + p] = x[p]
    BY <1>2, <1>4
  <1>6. Len(a) + p \in 1..Len(c) /\ c[Len(a) + p] = x[p]
    <2>1. Len(b) <= Len(c) /\ c[Len(a) + p] = b[Len(a) + p]
      BY <1>3, <1>5, Zenon DEF Begins
    <2>2. Len(b) \in Nat /\ Len(c) \in Nat
      BY <1>2
    <2>3. \A i \in 1..Len(b) : i \in 1..Len(c)
      BY <2>1, <2>2
    <2>. QED  BY <1>5, <2>1, <2>3, Zenon
  <1>. QED  BY <1>5, <1>6, Zenon DEF a, b, c, x

\* Every record is in one of the files.
LEMMA PlaceExists ==
    ASSUME NEW R, NEW s \in Seq(Seq(R)), NEW o \in 1..Len(FlattenSeq(s))
    PROVE  \E n \in 1..Len(s) : \E p \in 1..Len(s[n]) : o = Len(Upto(s, n - 1)) + p
  <1>. DEFINE Found(m, q) == \E n \in 1..m : \E p \in 1..Len(s[n]) : q = Len(Upto(s, n - 1)) + p
              S == {m \in Nat : m <= Len(s) => \A q \in 1..Len(Upto(s, m)) : Found(m, q)}
  <1>0. Len(s) \in Nat /\ Len(s) <= Len(s)
    OBVIOUS
  <1>1. 0 \in S
    <2>1. Len(Upto(s, 0)) = 0
      <3>1. Upto(s, 0) = << >>
        BY UptoSteps, Zenon
      <3>. QED  BY <3>1
    <2>2. 1..Len(Upto(s, 0)) = {}
      BY <2>1
    <2>. QED  BY <2>2, Zenon
  <1>2. ASSUME NEW m \in Nat, m \in S PROVE m + 1 \in S
    <2>. DEFINE k == m + 1
    <2>0. k \in Nat
      OBVIOUS
    <2>. SUFFICES ASSUME k <= Len(s), NEW q \in 1..Len(Upto(s, k)) PROVE Found(k, q)
      BY <2>0, Zenon
    <2>1. k \in 1..Len(s) /\ k - 1 = m /\ m <= Len(s) /\ m \in 0..Len(s) /\ k \in 1..k
      BY <1>0
    <2>2. 1..m \subseteq 1..k
      OBVIOUS
    <2>. DEFINE a == Upto(s, m)
                x == s[k]
    <2>. HIDE DEF k
    <2>3. a \in Seq(R) /\ x \in Seq(R) /\ Upto(s, k) = a \o x /\ Upto(s, k - 1) = a
      BY <2>1, UptoSteps, Zenon
    <2>4. CASE q \in 1..Len(a)
      <3>1. Found(m, q)
        BY <1>2, <2>1, <2>4, Zenon
      <3>. QED  BY <2>2, <3>1, Zenon
    <2>5. CASE q \notin 1..Len(a)
      <3>. DEFINE p == q - Len(a)
      <3>1. p \in 1..Len(x) /\ q = Len(a) + p
        <4>. HIDE DEF a, x
        <4>1. q \in 1..Len(a \o x)
          BY <2>3, Zenon
        <4>. QED  BY <2>3, <2>5, <4>1
      <3>. HIDE DEF p
      <3>. QED  BY <2>1, <2>3, <3>1, Zenon
    <2>. QED  BY <2>4, <2>5, Zenon
  <1>. HIDE DEF S
  <1>3. Len(s) \in S
    BY <1>0, <1>1, <1>2, Climb, Zenon
  <1>4. Found(Len(s), o)
    <2>1. o \in 1..Len(Upto(s, Len(s)))
      BY UptoSteps, Zenon
    <2>. QED  BY <1>0, <1>3, <2>1, Zenon DEF S
  <1>. QED  BY <1>4, Zenon

\* A record more in the last file is a record more at the end.
LEMMA FlattenStore ==
    ASSUME NEW R, NEW s \in Seq(Seq(R)), s # << >>, NEW r \in R
    PROVE  LET t == [s EXCEPT ![Len(s)] = Append(@, r)]
           IN  t \in Seq(Seq(R)) /\ Len(t) = Len(s) /\ FlattenSeq(t) = Append(FlattenSeq(s), r)
  <1>. DEFINE n == Len(s)
              t == [s EXCEPT ![n] = Append(@, r)]
              u == SubSeq(s, 1, n - 1)
              x == s[n]
  <1>1. n \in Nat /\ n # 0 /\ x \in Seq(R) /\ u \in Seq(Seq(R)) /\ Append(x, r) \in Seq(R)
    OBVIOUS
  <1>2. t \in Seq(Seq(R)) /\ Len(t) = n
    BY <1>1
  <1>3. s = Append(u, x)
    BY <1>1
  <1>7. t = Append(u, Append(x, r))
    <2>. DEFINE y == Append(x, r)
                v == Append(u, y)
    <2>0. n - 1 \in 0..Len(s)
      BY <1>1
    <2>1. Len(u) = n - 1 /\ \A i \in 1..(n - 1) : u[i] = s[i]
      <3>. DEFINE k == n - 1
      <3>. HIDE DEF k
      <3>1. k \in 0..Len(s)
        BY <2>0, Zenon DEF k
      <3>2. Len(SubSeq(s, 1, k)) = k /\ \A i \in 1..k : SubSeq(s, 1, k)[i] = s[i]
        BY <3>1
      <3>. QED  BY <3>2, Zenon DEF k
    <2>2. \A i \in 1..n : t[i] = IF i = n THEN y ELSE s[i]
      <3>1. DOMAIN s = 1..n
        OBVIOUS
      <3>. QED  BY <3>1, Zenon
    <2>. HIDE DEF y, u, n, t
    <2>3. v \in Seq(Seq(R)) /\ Len(v) = n /\ \A i \in 1..n : v[i] = IF i = n THEN y ELSE s[i]
      BY <1>1, <2>1 DEF y
    <2>4. \A i \in 1..n : t[i] = v[i]
      BY <2>2, <2>3, Zenon
    <2>. HIDE DEF v
    <2>5. t = v
      BY <1>2, <2>3, <2>4
    <2>. QED  BY <2>5, Zenon DEF v, y
  <1>. HIDE DEF u, x, t
  <1>4. /\ FlattenSeq(u) \in Seq(R) /\ FlattenSeq(s) = FlattenSeq(u) \o x
        /\ FlattenSeq(t) = FlattenSeq(u) \o Append(x, r)
    BY <1>1, <1>3, <1>7, FlattenAppend, Zenon
  <1>5. \A a, b \in Seq(R) : a \o Append(b, r) = Append(a \o b, r)
    OBVIOUS
  <1>6. FlattenSeq(t) = Append(FlattenSeq(s), r)
    BY <1>1, <1>4, <1>5, Zenon
  <1>. QED  BY <1>2, <1>6, Zenon DEF t

\* Files cut short have no more records than before.
LEMMA FlattenShorter ==
    ASSUME NEW R, NEW s \in Seq(Seq(R)), NEW t \in Seq(Seq(R)), Len(t) = Len(s),
           \A n \in 1..Len(s) : Len(t[n]) <= Len(s[n])
    PROVE  Len(FlattenSeq(t)) <= Len(FlattenSeq(s))
  <1>. DEFINE S == {m \in Nat : m <= Len(s) => Len(Upto(t, m)) <= Len(Upto(s, m))}
  <1>0. Len(s) \in Nat /\ Len(s) <= Len(s)
    OBVIOUS
  <1>1. 0 \in S
    <2>1. Upto(s, 0) = << >> /\ Upto(t, 0) = << >>
      BY UptoSteps, Zenon
    <2>2. Len(Upto(t, 0)) <= Len(Upto(s, 0))
      BY <2>1
    <2>. QED  BY <2>2, Zenon
  <1>2. ASSUME NEW m \in Nat, m \in S PROVE m + 1 \in S
    <2>. DEFINE k == m + 1
    <2>0. k \in Nat
      OBVIOUS
    <2>. SUFFICES ASSUME k <= Len(s) PROVE Len(Upto(t, k)) <= Len(Upto(s, k))
      BY <2>0, Zenon
    <2>1. k \in 1..Len(s) /\ k - 1 = m /\ m <= Len(s) /\ m \in 0..Len(s)
      BY <1>0
    <2>. HIDE DEF k
    <2>2. Len(Upto(t, m)) <= Len(Upto(s, m)) /\ Len(t[k]) <= Len(s[k])
      BY <1>2, <2>1, Zenon
    <2>3. /\ Upto(s, m) \in Seq(R) /\ s[k] \in Seq(R) /\ Upto(s, k) = Upto(s, m) \o s[k]
          /\ Upto(t, m) \in Seq(R) /\ t[k] \in Seq(R) /\ Upto(t, k) = Upto(t, m) \o t[k]
      BY <2>1, UptoSteps, Zenon
    <2>4. \A a, b, c, d \in Seq(R) :
            Len(a) <= Len(c) /\ Len(b) <= Len(d) => Len(a \o b) <= Len(c \o d)
      OBVIOUS
    <2>. QED  BY <2>2, <2>3, <2>4, Zenon
  <1>. HIDE DEF S
  <1>3. Len(s) \in S
    BY <1>0, <1>1, <1>2, Climb, Zenon
  <1>4. Upto(s, Len(s)) = FlattenSeq(s) /\ Upto(t, Len(s)) = FlattenSeq(t)
    BY UptoSteps, Zenon
  <1>. QED  BY <1>0, <1>3, <1>4, Zenon DEF S
-----------------------------------------------------------------------------
(* Loading and replaying.                                                  *)

\* Ten files at most are loaded in the order in which they were made.
LEMMA LoadInOrder ==
    ASSUME NEW n \in 0..10
    PROVE  LoadOrder(n) = [i \in 1..n |-> i]
  <1>1. \A i \in 0..9 : Digits(i) = <<i>>
    BY SMT DEF Digits
  <1>2. \A i, j \in 0..9 : PathBefore(i, j) <=> i < j
    <2>. SUFFICES ASSUME NEW i \in 0..9, NEW j \in 0..9 PROVE PathBefore(i, j) <=> i < j
      BY Zenon
    <2>1. Digits(i) = <<i>> /\ Digits(j) = <<j>>
      BY <1>1, Zenon
    <2>. QED  BY <2>1 DEF PathBefore
  <1>. DEFINE Rank(f) == Cardinality({g \in 1..n : PathBefore(g - 1, f - 1)})
  <1>3. ASSUME NEW f \in 1..n PROVE Rank(f) = f - 1
    <2>1. ASSUME NEW g \in 1..n PROVE PathBefore(g - 1, f - 1) <=> g < f
      <3>1. g - 1 \in 0..9 /\ f - 1 \in 0..9 /\ (g - 1 < f - 1 <=> g < f)
        OBVIOUS
      <3>. QED  BY <1>2, <3>1, Zenon
    <2>2. \A g : g \in 1..(f - 1) <=> g \in 1..n /\ g < f
      OBVIOUS
    <2>3. {g \in 1..n : PathBefore(g - 1, f - 1)} = 1..(f - 1)
      BY <2>1, <2>2, Zenon
    <2>4. Cardinality(1..(f - 1)) = f - 1
      <3>1. 1 \in Int /\ f - 1 \in Int
        OBVIOUS
      <3>2. Cardinality(1..(f - 1)) = IF 1 > f - 1 THEN 0 ELSE (f - 1) - 1 + 1
        BY <3>1, FS_Interval, Zenon
      <3>. QED  BY <3>2
    <2>. QED  BY <2>3, <2>4, Zenon
  <1>4. ASSUME NEW r \in 1..n PROVE (CHOOSE f \in 1..n : Rank(f) = r - 1) = r
    <2>1. \A f \in 1..n : Rank(f) = r - 1 <=> f = r
      <3>. SUFFICES ASSUME NEW f \in 1..n PROVE Rank(f) = r - 1 <=> f = r
        BY Zenon
      <3>1. Rank(f) = f - 1
        BY <1>3, Zenon
      <3>. HIDE DEF Rank
      <3>. QED  BY <3>1
    <2>. HIDE DEF Rank
    <2>. QED  BY <2>1, Zenon
  <1>5. LoadOrder(n) = [r \in 1..n |-> CHOOSE f \in 1..n : Rank(f) = r - 1]
    BY Zenon DEF LoadOrder
  <1>. HIDE DEF Rank
  <1>. QED  BY <1>4, <1>5, Zenon

\* The records in the order of loading are then those of the files.
LEMMA InOrderOfFiles ==
    ASSUME file \in Seq(Seq(Records)), NEW order, order = [i \in 1..Len(file) |-> i]
    PROVE  InOrder(order) = FlattenSeq(file) /\ Len(order) = Len(file)
  <1>1. Len(order) = Len(file)
    OBVIOUS
  <1>2. [i \in 1..Len(order) |-> file[order[i]]] = file
    BY <1>1
  <1>. QED  BY <1>1, <1>2, Zenon DEF InOrder

\* The contents between the entries of the WAL, from the first to the last.
Replays(a, content, entries, n) ==
    a = [m \in 0..n |-> IF m = 0 THEN content ELSE Replay(a[m - 1], entries[m])]

\* The function that Replayed is the last value of exists: recover_wal's content
\* after each of its entries.
LEMMA ReplaysExists ==
    ASSUME NEW content, NEW entries, NEW n \in Nat
    PROVE  \E a : Replays(a, content, entries, n)
  <1>. DEFINE S == {m \in Nat : \E a : Replays(a, content, entries, m)}
  <1>1. 0 \in S
    <2>. DEFINE a == [m \in 0..0 |-> content]
    <2>1. a = [m \in 0..0 |-> IF m = 0 THEN content ELSE Replay(a[m - 1], entries[m])]
      OBVIOUS
    <2>2. Replays(a, content, entries, 0)
      BY <2>1, Zenon DEF Replays
    <2>. QED  BY <2>2, Zenon
  <1>2. ASSUME NEW m \in Nat, m \in S PROVE m + 1 \in S
    <2>1. PICK a : Replays(a, content, entries, m)
      BY <1>2, Zenon
    <2>. DEFINE last == Replay(a[m], entries[m + 1])
                g == [i \in 0..(m + 1) |-> IF i <= m THEN a[i] ELSE last]
                h == [i \in 0..(m + 1) |-> IF i = 0 THEN content ELSE Replay(g[i - 1], entries[i])]
    <2>2. \A i \in 0..m : a[i] = IF i = 0 THEN content ELSE Replay(a[i - 1], entries[i])
      BY <2>1, Zenon DEF Replays
    <2>. HIDE DEF last
    <2>3. ASSUME NEW i \in 0..(m + 1) PROVE g[i] = h[i]
      <3>1. CASE i = 0
        <4>1. i \in 0..m /\ g[i] = a[i] /\ h[i] = content
          BY <3>1
        <4>. QED  BY <2>2, <3>1, <4>1, Zenon
      <3>2. CASE i <= m /\ i # 0
        <4>1. i \in 0..m /\ g[i] = a[i] /\ g[i-1] = a[i-1] /\ h[i] = Replay(g[i-1], entries[i])
          BY <3>2
        <4>. QED  BY <2>2, <3>2, <4>1, Zenon
      <3>3. CASE ~(i <= m)
        <4>1. i = m + 1 /\ i # 0 /\ i - 1 = m /\ g[i] = last /\ g[i-1] = a[m]
          BY <3>3
        <4>2. h[i] = Replay(g[i-1], entries[i])
          BY <4>1
        <4>. QED  BY <4>1, <4>2, Zenon DEF last
      <3>. QED  BY <3>1, <3>2, <3>3, Zenon
    <2>4. g = h
      BY <2>3
    <2>5. Replays(g, content, entries, m + 1)
      BY <2>4, Zenon DEF Replays
    <2>. QED  BY <2>5
  <1>. HIDE DEF S
  <1>3. n \in S
    BY <1>1, <1>2, Climb, Zenon
  <1>. QED  BY <1>3, Zenon DEF S

\* recover_wal takes the entries one after the other.
LEMMA ReplayedValue ==
    ASSUME NEW content, NEW entries, Len(entries) \in Nat
    PROVE  \E a : /\ a[0] = content /\ Replayed(content, entries) = a[Len(entries)]
                  /\ \A m \in 1..Len(entries) : a[m] = Replay(a[m - 1], entries[m])
  <1>. DEFINE a == CHOOSE a : Replays(a, content, entries, Len(entries))
  <1>1. Replays(a, content, entries, Len(entries))
    BY ReplaysExists, Zenon
  <1>2. Replayed(content, entries) = a[Len(entries)]
    BY Zenon DEF Replayed, Replays
  <1>. HIDE DEF a
  <1>3. a[0] = content /\ \A m \in 1..Len(entries) : a[m] = Replay(a[m - 1], entries[m])
    BY <1>1 DEF Replays
  <1>. QED  BY <1>2, <1>3, Zenon

Entries == [offset : Nat, record : Records]

\* A replay only adds to the content.
LEMMA ReplayedBegins ==
    ASSUME NEW content \in Seq(Records), NEW entries \in Seq(Entries)
    PROVE  Replayed(content, entries) \in Seq(Records) /\ Begins(content, Replayed(content, entries))
  <1>. DEFINE N == Len(entries)
  <1>0. N \in Nat /\ \A m \in 1..N : entries[m] \in Entries
    OBVIOUS
  <1>1. PICK a : /\ a[0] = content /\ Replayed(content, entries) = a[N]
                 /\ \A m \in 1..N : a[m] = Replay(a[m - 1], entries[m])
    <2>1. Len(entries) \in Nat
      OBVIOUS
    <2>. QED  BY <2>1, ReplayedValue
  <1>. HIDE DEF N
  <1>. DEFINE S == {m \in Nat : m <= N => a[m] \in Seq(Records) /\ Begins(content, a[m])}
  <1>2. 0 \in S
    BY <1>1, BeginsConcat, Zenon
  <1>3. ASSUME NEW m \in Nat, m \in S PROVE m + 1 \in S
    <2>. DEFINE k == m + 1
    <2>0. k \in Nat
      OBVIOUS
    <2>. SUFFICES ASSUME k <= N PROVE a[k] \in Seq(Records) /\ Begins(content, a[k])
      BY <2>0, Zenon
    <2>1. k \in 1..N /\ k - 1 = m /\ m <= N
      BY <1>0
    <2>. HIDE DEF k
    <2>2. a[m] \in Seq(Records) /\ Begins(content, a[m]) /\ a[k] = Replay(a[m], entries[k])
      BY <1>1, <1>3, <2>1, Zenon
    <2>3. entries[k].record \in Records
      BY <1>0, <2>1 DEF Entries
    <2>4. \A c \in Seq(Records) : Begins(content, c) =>
            /\ Append(c, entries[k].record) \in Seq(Records)
            /\ Begins(content, Append(c, entries[k].record))
      BY <2>3 DEF Begins
    <2>. QED  BY <2>2, <2>4, Zenon DEF Replay
  <1>. HIDE DEF S
  <1>4. N \in S /\ N <= N
    BY <1>0, <1>2, <1>3, Climb
  <1>. QED  BY <1>0, <1>1, <1>4, Zenon DEF S
-----------------------------------------------------------------------------
(* What a log of at most ten segments keeps.                               *)

TenFiles == Len(file) <= 10

StoreTypes ==
    /\ pc \in {"down", "replay", "ready", "logged", "stored", "sync_wal",
               "sync_segments", "clear_wal"}
    /\ file \in Seq(Seq(Records)) /\ unflushed \subseteq 1..Len(file)
    /\ stable \in Seq(Nat) /\ Len(stable) = Len(file)
    /\ wal \in Seq(Entries) /\ wal_stable \in Seq(Entries)
    /\ current \subseteq Nat \X Records
    /\ appends \in 0..MaxAppends
    /\ synced \in Seq(Records)

\* What is on stable storage has been written.
StableInv == \A f \in 1..Len(file) : stable[f] \in 0..Written(f)

\* A running Log has its segments in the order of the files, and counts the
\* records in them.
RunInv ==
    pc # "down" =>
        /\ file # << >>
        /\ segments = [i \in 1..Len(file) |-> i]
        /\ next_offset_ = Len(FlattenSeq(file))

\* The first n files are on stable storage.
OnStable(n) == \A f \in 1..n : stable[f] = Len(file[f])

\* How far a loop over the WAL or the segments has come.
LoopInv ==
    /\ pc = "replay" => cursor \in 1..(Len(wal) + 1)
    /\ pc = "sync_segments" => cursor \in 1..Len(file) /\ OnStable(cursor - 1)
    /\ pc = "clear_wal" => OnStable(Len(file))

\* The first k - 1 files and j records of the k-th.
Part(k, j) == [f \in 1..k |-> IF f = k THEN SubSeq(file[f], 1, j) ELSE file[f]]

\* The synced records are the first files, and a part of the next one, that no
\* crash can cut.
SyncedInv ==
    \/ synced = << >>
    \/ \E k \in 1..Len(file) : \E j \in 0..stable[k] :
          OnStable(k - 1) /\ synced = FlattenSeq(Part(k, j))

StoreInv == StoreTypes /\ StableInv /\ RunInv /\ LoopInv /\ SyncedInv

\* Whatever the segments, the files are a sequence,
FilesSeq == \E S : file \in Seq(S)

\* at the beginning, of an empty directory, too,
LEMMA FilesSeqInit == Init => FilesSeq
  <1>1. << >> \in Seq({})
    OBVIOUS
  <1>. QED  BY <1>1, Zenon DEF Init, FilesSeq

\* which has no fewer of them after any step.
LEMMA FilesSeqStep ==
    ASSUME FilesSeq, [Next]_plVars
    PROVE  FilesSeq' /\ Len(file) <= Len(file')
  <1>0. PICK S : file \in Seq(S)
    BY Zenon DEF FilesSeq
  <1>s. ASSUME NEW T, file' \in Seq(T) PROVE FilesSeq'
    BY <1>s, Zenon DEF FilesSeq
  <1>1. CASE file' = file
    <2>1. Len(file) <= Len(file)
      BY <1>0
    <2>. QED  BY <1>0, <1>1, <1>s, <2>1, Zenon
  <1>2. ASSUME NEW r, store(r) PROVE FilesSeq' /\ Len(file) <= Len(file')
    <2>. DEFINE f == active_segment
                T == S \cup {Append(file[f], r)}
    <2>1. file' = [file EXCEPT ![f] = Append(@, r)]
      BY <1>2, Zenon DEF store
    <2>. HIDE DEF f
    <2>. DEFINE x == Append(file[f], r)
                n == Len(file)
    <2>3. n \in Nat /\ DOMAIN file = 1..n /\ file \in [1..n -> S]
      BY <1>0
    <2>4. file' = [file EXCEPT ![f] = x]
      BY <2>1, Zenon
    <2>. HIDE DEF x, n
    <2>5. file' \in [1..n -> S \cup {x}]
      BY <2>3, <2>4
    <2>6. file' \in Seq(S \cup {x}) /\ Len(file') = n
      BY <2>3, <2>5
    <2>2. file' \in Seq(T) /\ Len(file) <= Len(file')
      BY <2>3, <2>6 DEF x, n
    <2>. HIDE DEF T
    <2>. QED  BY <1>s, <2>2, Zenon
  <1>3. CASE file' = Append(file, << >>)
    <2>. DEFINE T == S \cup {<< >>}
    <2>1. file' \in Seq(T) /\ Len(file) <= Len(file')
      BY <1>0, <1>3
    <2>. HIDE DEF T
    <2>. QED  BY <1>s, <2>1, Zenon
  <1>4. ASSUME NEW keep, file' = Cut(keep) PROVE FilesSeq' /\ Len(file) <= Len(file')
    <2>. DEFINE cut(f) == SubSeq(file[f], 1, keep[f])
                T == {cut(f) : f \in 1..Len(file)}
    <2>1. file' = [f \in 1..Len(file) |-> cut(f)] /\ Len(file) \in Nat
      BY <1>0, <1>4 DEF Cut
    <2>. HIDE DEF cut
    <2>2. file' \in Seq(T) /\ Len(file') = Len(file)
      BY <2>1
    <2>. HIDE DEF T
    <2>3. Len(file) <= Len(file')
      BY <2>1, <2>2
    <2>. QED  BY <1>s, <2>2, <2>3, Zenon
  <1>5. CASE load_existing_segments
    <2>1. file' = file \/ (file = << >> /\ file' = << << >> >>)
      <3>1. file' = IF file = << >> THEN << << >> >> ELSE file
        BY <1>5, Zenon DEF load_existing_segments
      <3>. QED  BY <3>1, Zenon
    <2>2. Append(<< >>, << >>) = << << >> >>
      OBVIOUS
    <2>. QED  BY <1>1, <1>3, <2>1, <2>2, Zenon
  <1>6. CASE recover_wal_entry
    BY <1>1, <1>2, <1>6, Zenon DEF recover_wal_entry
  <1>7. CASE append_record
    BY <1>2, <1>7, Zenon DEF append_record
  <1>8. CASE roll_segment
    BY <1>1, <1>3, <1>8, Zenon DEF roll_segment
  <1>9. CASE kill
    BY <1>4, <1>9, Zenon DEF kill
  <1>10. CASE power_loss
    BY <1>4, <1>10, Zenon DEF power_loss
  <1>11. CASE \/ recover_wal_end \/ write_wal \/ flush \/ sync_wal \/ sync_segment
              \/ clear_wal \/ (\E o \in 0..(MaxAppends - 1) : fetch(o)) \/ close
              \/ UNCHANGED plVars
    BY <1>1, <1>11, Zenon DEF recover_wal_end, write_wal, flush, sync_wal, sync_segment,
       clear_wal, fetch, close, plVars, diskVars
  <1>. QED  BY <1>5, <1>6, <1>7, <1>8, <1>9, <1>10, <1>11, Zenon DEF Next

\* What is on stable storage of file f stays there, and a file that is wholly on
\* stable storage and is not the active one does not change.
Kept(f) ==
    /\ stable[f] <= stable'[f]
    /\ \A i \in 1..stable[f] : file'[f][i] = file[f][i]
    /\ stable[f] = Len(file[f]) /\ f < Len(file) =>
          file'[f] = file[f] /\ stable'[f] = stable[f]

\* Then what a sync covered stays covered.
LEMMA SyncedKept ==
    ASSUME StoreTypes, StoreTypes', StableInv, StableInv', SyncedInv, synced' = synced,
           Len(file) <= Len(file'), \A f \in 1..Len(file) : Kept(f)
    PROVE  SyncedInv'
  <1>1. CASE synced = << >>
    BY <1>1, Zenon DEF SyncedInv
  <1>2. ASSUME NEW k \in 1..Len(file), NEW j \in 0..stable[k],
               OnStable(k - 1), synced = FlattenSeq(Part(k, j))
        PROVE  SyncedInv'
    <2>1. /\ Len(file) \in Nat /\ Len(file') \in Nat /\ k \in 1..Len(file')
          /\ stable[k] \in Nat /\ stable'[k] \in Nat
      <3>1. /\ Len(file) \in Nat /\ Len(file') \in Nat
            /\ stable \in Seq(Nat) /\ Len(stable) = Len(file)
            /\ stable' \in Seq(Nat) /\ Len(stable') = Len(file')
        BY DEF StoreTypes
      <3>2. k \in 1..Len(file')
        BY <3>1
      <3>. QED  BY <3>1, <3>2
    <2>2. Kept(k) /\ j \in 0..stable'[k]
      BY <2>1 DEF Kept
    <2>3. ASSUME NEW f \in 1..(k - 1) PROVE file'[f] = file[f] /\ stable'[f] = Len(file'[f])
      <3>1. f \in 1..Len(file) /\ f < Len(file)
        BY <2>1
      <3>. QED  BY <1>2, <3>1, Zenon DEF OnStable, Kept
    <2>4. SubSeq(file'[k], 1, j) = SubSeq(file[k], 1, j)
      <3>. DEFINE a == file[k]
                  b == file'[k]
                  m == stable[k]
      <3>1. a \in Seq(Records) /\ b \in Seq(Records)
        BY <2>1 DEF StoreTypes
      <3>2. m <= Len(a) /\ m <= Len(b)
        <4>1. m \in 0..Written(k) /\ stable'[k] \in 0..Written(k)' /\ m <= stable'[k]
          BY <2>1, <2>2, Zenon DEF StableInv, Kept
        <4>. DEFINE la == Len(a)
                    lb == Len(b)
        <4>2. Written(k) \in {la, la - 1} /\ Written(k)' \in {lb, lb - 1} /\ la \in Nat /\ lb \in Nat
          BY <3>1 DEF Written
        <4>. HIDE DEF la, lb
        <4>3. m <= la /\ m <= lb
          BY <2>1, <4>1, <4>2
        <4>. QED  BY <4>3, Zenon DEF la, lb
      <3>3. \A i \in 1..m : b[i] = a[i]
        BY <2>2, Zenon DEF Kept
      <3>4. j \in 0..m /\ m \in Nat
        BY <2>1
      <3>. HIDE DEF a, b, m
      <3>. QED  BY <3>1, <3>2, <3>3, <3>4 DEF a, b
    <2>5. Part(k, j)' = Part(k, j)
      <3>1. \A f \in 1..k : f # k => f \in 1..(k - 1)
        OBVIOUS
      <3>. QED  BY <2>3, <2>4, <3>1, Zenon DEF Part
    <2>6. OnStable(k - 1)'
      BY <2>3, Zenon DEF OnStable
    <2>. QED  BY <1>2, <2>1, <2>2, <2>5, <2>6, Zenon DEF SyncedInv
  <1>. QED  BY <1>1, <1>2, Zenon DEF SyncedInv

\* The types of what a file, its buffer and stable storage hold.
LEMMA FileTypes ==
    ASSUME StoreTypes, StableInv, NEW f \in 1..Len(file)
    PROVE  /\ file[f] \in Seq(Records) /\ Len(file[f]) \in Nat /\ stable[f] \in Nat
           /\ Written(f) \in Nat /\ stable[f] <= Written(f) /\ Written(f) <= Len(file[f])
           /\ f \notin unflushed => Written(f) = Len(file[f])
  <1>1. file[f] \in Seq(Records) /\ stable[f] \in Nat
    BY DEF StoreTypes
  <1>2. Len(file[f]) \in Nat
    BY <1>1
  <1>3. stable[f] \in 0..Written(f)
    BY Zenon DEF StableInv
  <1>4. Written(f) = Len(file[f]) \/ (f \in unflushed /\ Written(f) = Len(file[f]) - 1)
    <2>1. CASE f \in unflushed
      BY <2>1, Zenon DEF Written
    <2>2. CASE f \notin unflushed
      BY <2>2, Zenon DEF Written
    <2>. QED  BY <2>1, <2>2, Zenon
  <1>. DEFINE w == Written(f)
              n == Len(file[f])
              m == stable[f]
  <1>. HIDE DEF w, n, m
  <1>5. m \in Nat /\ n \in Nat /\ m \in 0..w /\ (w = n \/ (f \in unflushed /\ w = n - 1))
    BY <1>1, <1>2, <1>3, <1>4, Zenon DEF w, n, m
  <1>6. w \in Nat /\ m <= w /\ w <= n
    BY <1>5
  <1>. QED  BY <1>1, <1>2, <1>4, <1>6, Zenon DEF w, n, m

\* A step that leaves the files and what is stable alone, and flushes at most.
LEMMA DiskSame ==
    ASSUME StoreInv, StoreTypes', UNCHANGED <<file, stable, synced>>,
           unflushed' \subseteq unflushed
    PROVE  StableInv' /\ SyncedInv' /\ \A n : OnStable(n)' <=> OnStable(n)
  <1>0. StoreTypes /\ StableInv /\ SyncedInv /\ file' = file /\ stable' = stable /\ synced' = synced
    BY Zenon DEF StoreInv
  <1>1. \A n : OnStable(n)' <=> OnStable(n)
    BY <1>0, Zenon DEF OnStable
  <1>2. ASSUME NEW f \in 1..Len(file') PROVE stable'[f] \in 0..Written(f)'
    <2>1. f \in 1..Len(file)
      BY <1>0, Zenon
    <2>2. /\ Len(file[f]) \in Nat /\ stable[f] \in Nat /\ Written(f) \in Nat
          /\ stable[f] <= Written(f) /\ Written(f) <= Len(file[f])
          /\ f \notin unflushed => Written(f) = Len(file[f])
      BY <1>0, <2>1, FileTypes, Zenon
    <2>3. Written(f)' = Len(file[f]) \/ Written(f)' = Written(f)
      BY <1>0, Zenon DEF Written
    <2>. QED  BY <1>0, <2>2, <2>3
  <1>3. StableInv'
    BY <1>2, Zenon DEF StableInv
  <1>4. Len(file) <= Len(file') /\ \A f \in 1..Len(file) : stable[f] <= stable[f]
    <2>1. Len(file) \in Nat /\ \A f \in 1..Len(file) : stable[f] \in Nat
      BY <1>0 DEF StoreTypes
    <2>. QED  BY <1>0, <2>1
  <1>5. \A f \in 1..Len(file) : Kept(f)
    BY <1>0, <1>4, Zenon DEF Kept
  <1>6. SyncedInv'
    BY <1>0, <1>3, <1>4, <1>5, SyncedKept, Zenon
  <1>. QED  BY <1>1, <1>3, <1>6, Zenon

\* A record is stored in the last file.
LEMMA StoreKeeps ==
    ASSUME StoreInv, pc # "down", NEW r \in Records, store(r),
           UNCHANGED <<stable, synced>>, pc' \in {"replay", "stored"},
           UNCHANGED <<walVars, current, appends, segments>>
    PROVE  /\ StoreTypes' /\ StableInv' /\ SyncedInv'
           /\ Len(file') = Len(file) /\ next_offset_' = Len(FlattenSeq(file'))
           /\ file' # << >> /\ segments' = [i \in 1..Len(file') |-> i]
           /\ FlattenSeq(file') = Append(FlattenSeq(file), r)
           /\ FlattenSeq(file) \in Seq(Records)
  <1>. DEFINE n == Len(file)
  <1>0. /\ StoreTypes /\ StableInv /\ SyncedInv /\ file # << >>
        /\ segments = [i \in 1..n |-> i] /\ next_offset_ = Len(FlattenSeq(file))
        /\ stable' = stable /\ synced' = synced /\ segments' = segments
    BY Zenon DEF StoreInv, RunInv
  <1>1. file \in Seq(Seq(Records)) /\ n \in Nat /\ n # 0 /\ n \in 1..n
    BY <1>0 DEF StoreTypes
  <1>2. active_segment = n
    BY <1>0, <1>1 DEF active_segment
  <1>3. /\ file' = [file EXCEPT ![n] = Append(@, r)]
        /\ unflushed' = unflushed \cup {n} \/ unflushed' = unflushed \ {n}
        /\ next_offset_' = next_offset_ + 1
    BY <1>2, Zenon DEF store
  <1>4. /\ file' \in Seq(Seq(Records)) /\ Len(file') = n
        /\ FlattenSeq(file') = Append(FlattenSeq(file), r)
    BY <1>0, <1>1, <1>3, FlattenStore, Zenon
  <1>5. FlattenSeq(file) \in Seq(Records)
    BY <1>1, UptoSteps, Zenon
  <1>6. next_offset_' = Len(FlattenSeq(file'))
    BY <1>0, <1>3, <1>4, <1>5
  <1>7. StoreTypes'
    <2>1. unflushed' \subseteq 1..n
      BY <1>0, <1>1, <1>3, Zenon DEF StoreTypes
    <2>2. pc' \in {"down", "replay", "ready", "logged", "stored", "sync_wal",
                   "sync_segments", "clear_wal"}
      BY Zenon
    <2>. QED  BY <1>0, <1>4, <2>1, <2>2, Zenon DEF StoreTypes, walVars
  <1>8. file' # << >>
    BY <1>1, <1>4
  <1>9. ASSUME NEW f \in 1..n, f # n
        PROVE  file'[f] = file[f] /\ (f \in unflushed' <=> f \in unflushed)
    BY <1>1, <1>3, <1>9
  <1>10. /\ file'[n] = Append(file[n], r) /\ file[n] \in Seq(Records)
         /\ Len(file'[n]) = Len(file[n]) + 1
         /\ \A i \in 1..Len(file[n]) : file'[n][i] = file[n][i]
    BY <1>1, <1>3
  <1>. HIDE DEF n
  <1>11. ASSUME NEW f \in 1..n PROVE stable'[f] \in 0..Written(f)'
    <2>1. CASE f # n
      BY <1>0, <1>9, <2>1, Zenon DEF StableInv, Written, n
    <2>2. CASE f = n
      <3>. DEFINE w == Written(f)
                  v == Written(f)'
                  l == Len(file[f])
                  m == stable[f]
      <3>1. w \in Nat /\ l \in Nat /\ m \in Nat /\ m <= w /\ w <= l
        BY <1>0, <2>2, FileTypes, Zenon DEF n
      <3>2. v = Len(file'[f]) \/ v = Len(file'[f]) - 1
        <4>1. CASE f \in unflushed'
          BY <4>1, Zenon DEF Written
        <4>2. CASE f \notin unflushed'
          BY <4>2, Zenon DEF Written
        <4>. QED  BY <4>1, <4>2, Zenon
      <3>3. v = l + 1 \/ v = (l + 1) - 1
        <4>1. Len(file'[f]) = l + 1
          BY <1>10, <2>2, Zenon
        <4>2. v = Len(file'[f]) \/ v = Len(file'[f]) - 1
          BY <3>2, Zenon
        <4>. HIDE DEF v, l
        <4>. QED  BY <4>1, <4>2, Zenon
      <3>. HIDE DEF w, v, l, m
      <3>4. m \in 0..v
        BY <3>1, <3>3
      <3>. QED  BY <1>0, <3>4, Zenon DEF m, v
    <2>. QED  BY <2>1, <2>2, Zenon
  <1>12. StableInv'
    BY <1>4, <1>11, Zenon DEF StableInv
  <1>13. ASSUME NEW f \in 1..n PROVE Kept(f)
    <2>0. stable[f] \in Nat /\ stable[f] <= Len(file[f]) /\ Len(file[f]) \in Nat
      <3>1. /\ stable[f] \in Nat /\ Len(file[f]) \in Nat /\ Written(f) \in Nat
            /\ stable[f] <= Written(f) /\ Written(f) <= Len(file[f])
        BY <1>0, FileTypes, Zenon DEF n
      <3>. QED  BY <3>1
    <2>3. stable[f] <= stable'[f]
      BY <1>0, <2>0
    <2>1. CASE f # n
      BY <1>0, <1>9, <2>1, <2>3, Zenon DEF Kept
    <2>2. CASE f = n
      <3>1. \A i \in 1..stable[n] : i \in 1..Len(file[n])
        BY <2>0, <2>2
      <3>2. ~(n < n)
        BY <1>1
      <3>. QED  BY <1>10, <2>2, <2>3, <3>1, <3>2, Zenon DEF Kept, n
    <2>. QED  BY <2>1, <2>2, Zenon
  <1>14. Len(file) <= Len(file')
    BY <1>1, <1>4 DEF n
  <1>15. SyncedInv'
    BY <1>0, <1>7, <1>12, <1>13, <1>14, SyncedKept, Zenon DEF n
  <1>. QED  BY <1>0, <1>4, <1>5, <1>6, <1>7, <1>8, <1>12, <1>15, Zenon DEF n

\* A crash keeps of each file at least what is on stable storage.
LEMMA CutKeeps ==
    ASSUME StoreInv, NEW keep \in [DOMAIN file -> Nat],
           \A f \in 1..Len(file) : keep[f] \in stable[f]..Written(f),
           file' = Cut(keep), unflushed' = {}, pc' = "down",
           stable' = stable \/ stable' = keep,
           wal' \in Seq(Entries), wal_stable' \in Seq(Entries), current' = {},
           UNCHANGED <<appends, synced>>
    PROVE  /\ StoreInv' /\ Len(file') = Len(file)
           /\ \A f \in 1..Len(file) : file'[f] = SubSeq(file[f], 1, keep[f])
           /\ Len(FlattenSeq(file')) <= Len(FlattenSeq(file))
  <1>. DEFINE n == Len(file)
  <1>0. StoreTypes /\ StableInv /\ SyncedInv
    BY Zenon DEF StoreInv
  <1>1. file \in Seq(Seq(Records)) /\ n \in Nat /\ DOMAIN file = 1..n
    BY <1>0 DEF StoreTypes
  <1>2. ASSUME NEW f \in 1..n
        PROVE  /\ file[f] \in Seq(Records) /\ keep[f] \in 0..Len(file[f])
               /\ stable[f] \in Nat /\ stable[f] <= keep[f] /\ keep[f] \in Nat
               /\ Len(file[f]) \in Nat
    <2>1. /\ file[f] \in Seq(Records) /\ Len(file[f]) \in Nat /\ stable[f] \in Nat
          /\ Written(f) \in Nat /\ stable[f] <= Written(f) /\ Written(f) <= Len(file[f])
      BY <1>0, FileTypes, Zenon
    <2>2. keep[f] \in stable[f]..Written(f)
      BY Zenon
    <2>. QED  BY <2>1, <2>2
  <1>3. file' = [f \in 1..n |-> SubSeq(file[f], 1, keep[f])]
    BY <1>1, Zenon DEF Cut
  <1>. HIDE DEF n
  <1>4. ASSUME NEW f \in 1..n
        PROVE  /\ file'[f] = SubSeq(file[f], 1, keep[f]) /\ file'[f] \in Seq(Records)
               /\ Len(file'[f]) = keep[f]
               /\ \A i \in 1..keep[f] : file'[f][i] = file[f][i]
    <2>1. file'[f] = SubSeq(file[f], 1, keep[f])
      BY <1>3, Zenon
    <2>. DEFINE s == file[f]
                k == keep[f]
    <2>2. s \in Seq(Records) /\ k \in 0..Len(s)
      BY <1>2, Zenon
    <2>. HIDE DEF s, k
    <2>3. /\ SubSeq(s, 1, k) \in Seq(Records) /\ Len(SubSeq(s, 1, k)) = k
          /\ \A i \in 1..k : SubSeq(s, 1, k)[i] = s[i]
      BY <2>2
    <2>. QED  BY <2>1, <2>3, Zenon DEF s, k
  <1>5. file' \in Seq(Seq(Records)) /\ Len(file') = n
    <2>1. file' \in [1..n -> Seq(Records)]
      BY <1>3, <1>4, Zenon
    <2>. QED  BY <1>1, <2>1
  <1>6. /\ stable' \in Seq(Nat) /\ Len(stable') = n
        /\ \A f \in 1..n : stable'[f] = stable[f] \/ stable'[f] = keep[f]
    <2>1. stable \in Seq(Nat) /\ Len(stable) = n /\ keep \in [1..n -> Nat]
      BY <1>0, <1>1, Zenon DEF StoreTypes, n
    <2>2. keep \in Seq(Nat) /\ Len(keep) = n
      BY <1>1, <2>1 DEF n
    <2>. QED  BY <2>1, <2>2, Zenon
  <1>7. StoreTypes'
    <2>1. unflushed' \subseteq 1..n /\ current' \subseteq Nat \X Records
      BY Zenon
    <2>. QED  BY <1>0, <1>5, <1>6, <2>1, Zenon DEF StoreTypes
  <1>8. ASSUME NEW f \in 1..n
        PROVE  Written(f)' = keep[f] /\ stable'[f] \in 0..keep[f] /\ stable[f] <= stable'[f]
    <2>1. Written(f)' = keep[f]
      BY <1>4, Zenon DEF Written
    <2>2. /\ stable[f] \in Nat /\ stable[f] <= keep[f] /\ keep[f] \in Nat
          /\ stable'[f] = stable[f] \/ stable'[f] = keep[f]
      BY <1>2, <1>6, Zenon
    <2>. QED  BY <2>1, <2>2
  <1>9. StableInv'
    BY <1>5, <1>8, Zenon DEF StableInv
  <1>10. ASSUME NEW f \in 1..n PROVE Kept(f)
    <2>1. \A i \in 1..stable[f] : i \in 1..keep[f]
      BY <1>2
    <2>2. CASE stable[f] = Len(file[f])
      <3>1. keep[f] = Len(file[f]) /\ stable'[f] = stable[f]
        <4>1. /\ stable[f] \in Nat /\ stable[f] <= keep[f] /\ keep[f] \in 0..Len(file[f])
              /\ stable'[f] = stable[f] \/ stable'[f] = keep[f]
          BY <1>2, <1>6, Zenon
        <4>. QED  BY <2>2, <4>1
      <3>2. \A s \in Seq(Records) : SubSeq(s, 1, Len(s)) = s
        OBVIOUS
      <3>3. file'[f] = file[f]
        BY <1>2, <1>4, <3>1, <3>2, Zenon
      <3>. QED  BY <1>4, <1>8, <2>1, <3>1, <3>3, Zenon DEF Kept
    <2>3. CASE stable[f] # Len(file[f])
      BY <1>4, <1>8, <2>1, <2>3, Zenon DEF Kept
    <2>. QED  BY <2>2, <2>3, Zenon
  <1>11. Len(file) <= Len(file')
    BY <1>1, <1>5 DEF n
  <1>12. SyncedInv'
    BY <1>0, <1>7, <1>9, <1>10, <1>11, SyncedKept, Zenon DEF n
  <1>13. RunInv' /\ LoopInv'
    BY Zenon DEF RunInv, LoopInv
  <1>14. Len(FlattenSeq(file')) <= Len(FlattenSeq(file))
    <2>1. \A f \in 1..n : Len(file'[f]) <= Len(file[f])
      BY <1>2, <1>4
    <2>. QED  BY <1>1, <1>5, <2>1, FlattenShorter, Zenon DEF n
  <1>. QED  BY <1>4, <1>5, <1>7, <1>9, <1>12, <1>13, <1>14, Zenon DEF StoreInv, n
-----------------------------------------------------------------------------
(* One lemma for each kind of step.                                        *)

\* Nothing is stored, logged or synced in an empty directory.
LEMMA StoreInit == Init => StoreInv
  <1>. SUFFICES ASSUME Init PROVE StoreInv
    BY Zenon
  <1>1. << >> \in Seq(Seq(Records)) /\ << >> \in Seq(Nat) /\ << >> \in Seq(Entries)
        /\ << >> \in Seq(Records) /\ Len(<< >>) = 0 /\ 1..0 = {}
    OBVIOUS
  <1>2. 0 \in 0..MaxAppends
    BY PartitionLogAssumption
  <1>3. StoreTypes /\ RunInv /\ LoopInv /\ SyncedInv
    BY <1>1, <1>2, Zenon DEF Init, StoreTypes, RunInv, LoopInv, SyncedInv
  <1>4. StableInv
    BY <1>1, Zenon DEF Init, StableInv
  <1>. QED  BY <1>3, <1>4, Zenon DEF StoreInv

\* The constructor loads the segments, or makes the first one.
LEMMA StoreLoad ==
    ASSUME StoreInv, TenFiles', load_existing_segments, Len(file) <= Len(file')
    PROVE  StoreInv'
  <1>0. StoreTypes /\ StableInv /\ SyncedInv
    BY Zenon DEF StoreInv
  <1>. DEFINE n == IF file = << >> THEN 1 ELSE Len(file)
  <1>1. /\ pc = "down" /\ pc' = IF wal = << >> THEN "ready" ELSE "replay"
        /\ file' = (IF file = << >> THEN << << >> >> ELSE file)
        /\ stable' = (IF file = << >> THEN <<0>> ELSE stable)
        /\ segments' = LoadOrder(n) /\ cursor' = 1
        /\ next_offset_' = (IF file = << >> THEN 0 ELSE Len(InOrder(LoadOrder(n))))
        /\ UNCHANGED <<unflushed, wal, wal_stable, current, appends, synced>>
    BY Zenon DEF load_existing_segments, walVars
  <1>2. file \in Seq(Seq(Records)) /\ << << >> >> \in Seq(Seq(Records)) /\ Len(<< << >> >>) = 1
        /\ <<0>> \in Seq(Nat) /\ Len(<<0>>) = 1
    BY <1>0 DEF StoreTypes
  <1>3. Len(file') = n /\ n \in 0..10 /\ n # 0 /\ file' # << >>
    <2>1. CASE file = << >>
      BY <1>1, <1>2, <2>1
    <2>2. CASE file # << >>
      <3>0. file' = file /\ n = Len(file) /\ Len(file') <= 10
        BY <1>1, <2>2, Zenon DEF TenFiles
      <3>1. Len(file) <= 10
        BY <3>0, Zenon
      <3>2. Len(file) \in Nat /\ Len(file) # 0
        BY <1>2, <2>2
      <3>. HIDE DEF n
      <3>3. Len(file) \in 0..10 /\ Len(file) # 0
        <4>1. \A l \in Nat : l <= 10 => l \in 0..10
          OBVIOUS
        <4>. QED  BY <3>1, <3>2, <4>1, Zenon
      <3>. QED  BY <2>2, <3>0, <3>3, Zenon
    <2>. QED  BY <2>1, <2>2, Zenon
  <1>. HIDE DEF n
  <1>4. segments' = [i \in 1..Len(file') |-> i]
    BY <1>1, <1>3, LoadInOrder, Zenon
  <1>5. StoreTypes'
    <2>1. /\ stable' \in Seq(Nat) /\ Len(stable') = Len(file')
          /\ file' \in Seq(Seq(Records))
      BY <1>0, <1>1, <1>2, Zenon DEF StoreTypes
    <2>2. unflushed' \subseteq 1..Len(file')
      <3>1. 1..Len(file) \subseteq 1..Len(file')
        BY <1>2
      <3>. QED  BY <1>0, <1>1, <3>1, Zenon DEF StoreTypes
    <2>3. pc' \in {"down", "replay", "ready", "logged", "stored", "sync_wal",
                   "sync_segments", "clear_wal"}
      BY <1>1, Zenon
    <2>. QED  BY <1>0, <1>1, <2>1, <2>2, <2>3, Zenon DEF StoreTypes
  <1>6. LoopInv'
    <2>1. 1 \in 1..(Len(wal) + 1)
      <3>1. Len(wal) \in Nat
        BY <1>0 DEF StoreTypes
      <3>. QED  BY <3>1
    <2>. QED  BY <1>1, <2>1, Zenon DEF LoopInv
  <1>7. CASE file = << >>
    <2>1. file' = << << >> >> /\ stable' = <<0>> /\ 1..Len(file) = {} /\ unflushed = {}
      BY <1>0, <1>1, <1>7 DEF StoreTypes
    <2>2. StableInv'
      <3>1. ASSUME NEW f \in 1..1 PROVE f = 1
        OBVIOUS
      <3>2. Written(1)' = 0 /\ stable'[1] = 0
        BY <1>1, <2>1 DEF Written
      <3>3. 0 \in 0..0 /\ Len(file') = 1
        BY <1>2, <2>1
      <3>. QED  BY <3>1, <3>2, <3>3, Zenon DEF StableInv
    <2>3. next_offset_' = Len(FlattenSeq(file'))
      <3>1. << >> \in Seq(Seq(Records)) /\ << >> \in Seq(Records) /\ Append(<< >>, << >>) = file'
            /\ << >> \o << >> = << >> /\ Len(<< >>) = 0
        BY <2>1
      <3>2. FlattenSeq(file') = FlattenSeq(<< >>) \o << >>
        BY <3>1, FlattenAppend, Zenon
      <3>. QED  BY <1>1, <1>7, <3>1, <3>2, FlattenNone, Zenon
    <2>4. SyncedInv'
      BY <1>0, <1>1, <2>1, Zenon DEF SyncedInv
    <2>. QED  BY <1>3, <1>4, <1>5, <1>6, <2>2, <2>3, <2>4, Zenon DEF StoreInv, RunInv
  <1>8. CASE file # << >>
    <2>1. file' = file /\ stable' = stable /\ n = Len(file)
      BY <1>1, <1>8, Zenon DEF n
    <2>2. StableInv' /\ SyncedInv'
      BY <1>1, <1>5, <2>1, DiskSame, Zenon
    <2>3. LoadOrder(n) = [i \in 1..Len(file) |-> i]
      BY <1>1, <1>4, <2>1, Zenon
    <2>4. next_offset_' = Len(FlattenSeq(file'))
      BY <1>1, <1>2, <1>8, <2>1, <2>3, InOrderOfFiles, Zenon
    <2>. QED  BY <1>3, <1>4, <1>5, <1>6, <2>2, <2>4, Zenon DEF StoreInv, RunInv
  <1>. QED  BY <1>7, <1>8, Zenon

\* recover_wal takes an entry, or skips it.
LEMMA StoreReplay ==
    ASSUME StoreInv, recover_wal_entry
    PROVE  StoreInv'
  <1>0. StoreTypes /\ StableInv /\ SyncedInv /\ RunInv /\ LoopInv
    BY Zenon DEF StoreInv
  <1>1. /\ pc = "replay" /\ pc' = pc /\ cursor <= Len(wal) /\ cursor' = cursor + 1
        /\ UNCHANGED <<stable, wal, wal_stable, segments, current, appends, synced>>
        /\ \/ store(wal[cursor].record)
           \/ UNCHANGED <<file, unflushed, index_, next_offset_>>
    BY Zenon DEF recover_wal_entry, walVars
  <1>2. LoopInv'
    <2>1. cursor \in 1..(Len(wal) + 1) /\ Len(wal) \in Nat
      BY <1>0, <1>1 DEF LoopInv, StoreTypes
    <2>2. cursor + 1 \in 1..(Len(wal) + 1)
      BY <1>1, <2>1
    <2>. QED  BY <1>1, <2>2, Zenon DEF LoopInv
  <1>3. CASE store(wal[cursor].record)
    <2>1. wal[cursor].record \in Records
      <3>1. cursor \in 1..Len(wal)
        BY <1>0, <1>1 DEF LoopInv, StoreTypes
      <3>2. wal[cursor] \in Entries
        BY <1>0, <3>1 DEF StoreTypes
      <3>. QED  BY <3>2 DEF Entries
    <2>2. /\ UNCHANGED <<stable, synced>> /\ pc' \in {"replay", "stored"}
          /\ UNCHANGED <<walVars, current, appends, segments>> /\ pc # "down"
      BY <1>1, Zenon DEF walVars
    <2>. QED  BY <1>2, <1>3, <2>1, <2>2, StoreKeeps, Zenon DEF StoreInv, RunInv
  <1>4. CASE UNCHANGED <<file, unflushed, index_, next_offset_>>
    <2>1. StoreTypes'
      BY <1>0, <1>1, <1>4, Zenon DEF StoreTypes
    <2>2. RunInv'
      BY <1>0, <1>1, <1>4, Zenon DEF RunInv
    <2>. QED  BY <1>1, <1>2, <1>4, <2>1, <2>2, DiskSame, Zenon DEF StoreInv
  <1>. QED  BY <1>1, <1>3, <1>4, Zenon

\* append stores the record it has logged.
LEMMA StoreAppend ==
    ASSUME StoreInv, append_record
    PROVE  StoreInv'
  <1>1. /\ pc = "logged" /\ pc' = "stored" /\ UNCHANGED <<stable, synced>>
        /\ UNCHANGED <<walVars, current, appends, segments>>
    BY Zenon DEF append_record
  <1>2. PICK c \in current : store(c[2])
    BY Zenon DEF append_record
  <1>3. c[2] \in Records
    <2>1. c \in Nat \X Records
      BY <1>2, Zenon DEF StoreInv, StoreTypes
    <2>. QED  BY <2>1
  <1>4. pc # "down" /\ pc' \in {"replay", "stored"}
    BY <1>1, Zenon
  <1>. QED  BY <1>1, <1>2, <1>3, <1>4, StoreKeeps, Zenon DEF StoreInv, RunInv, LoopInv

\* A new segment begins empty.
LEMMA StoreRoll ==
    ASSUME StoreInv, roll_segment
    PROVE  StoreInv'
  <1>. DEFINE n == Len(file)
  <1>0. StoreTypes /\ StableInv /\ SyncedInv /\ RunInv /\ LoopInv
    BY Zenon DEF StoreInv
  <1>1. /\ pc = "stored" /\ pc' \in {"sync_wal", "ready"}
        /\ \/ /\ file' = Append(file, << >>) /\ stable' = Append(stable, 0)
              /\ segments' = Append(segments, Len(segments) + 1)
           \/ UNCHANGED <<file, stable, segments>>
        /\ current' = current \/ current' = {}
        /\ UNCHANGED <<unflushed, wal, wal_stable, next_offset_, appends, synced>>
    BY Zenon DEF roll_segment, walVars
  <1>2. /\ file \in Seq(Seq(Records)) /\ n \in Nat /\ stable \in Seq(Nat) /\ Len(stable) = n
        /\ unflushed \subseteq 1..n /\ current' \subseteq Nat \X Records
    BY <1>0, <1>1 DEF StoreTypes
  <1>3. pc' \in {"down", "replay", "ready", "logged", "stored", "sync_wal",
                 "sync_segments", "clear_wal"}
    BY <1>1, Zenon
  <1>4. LoopInv'
    BY <1>1, Zenon DEF LoopInv
  <1>5. file # << >> /\ segments = [i \in 1..n |-> i] /\ next_offset_ = Len(FlattenSeq(file))
    BY <1>0, <1>1, Zenon DEF RunInv
  <1>6. CASE UNCHANGED <<file, stable, segments>>
    <2>1. StoreTypes'
      BY <1>0, <1>1, <1>2, <1>3, <1>6, Zenon DEF StoreTypes
    <2>2. RunInv'
      BY <1>1, <1>5, <1>6, Zenon DEF RunInv
    <2>. QED  BY <1>1, <1>4, <1>6, <2>1, <2>2, DiskSame, Zenon DEF StoreInv
  <1>7. CASE /\ file' = Append(file, << >>) /\ stable' = Append(stable, 0)
             /\ segments' = Append(segments, Len(segments) + 1)
    <2>. HIDE DEF n
    <2>1. /\ file' \in Seq(Seq(Records)) /\ Len(file') = n + 1 /\ file' # << >>
          /\ file'[n + 1] = << >> /\ \A f \in 1..n : file'[f] = file[f]
      <3>. DEFINE x == << >>
      <3>1. x \in Seq(Records) /\ file' = Append(file, x)
        BY <1>7
      <3>2. Len(file) = n
        BY Zenon DEF n
      <3>. HIDE DEF x
      <3>3. /\ file' \in Seq(Seq(Records)) /\ Len(file') = n + 1
            /\ file'[n + 1] = x /\ \A f \in 1..n : file'[f] = file[f]
        BY <1>2, <3>1, <3>2
      <3>4. file' # << >>
        BY <1>2, <3>3
      <3>. QED  BY <3>3, <3>4, Zenon DEF x
    <2>2. /\ stable' \in Seq(Nat) /\ Len(stable') = n + 1
          /\ stable'[n + 1] = 0 /\ \A f \in 1..n : stable'[f] = stable[f]
      BY <1>2, <1>7
    <2>3. segments' = [i \in 1..(n + 1) |-> i]
      BY <1>2, <1>5, <1>7
    <2>4. next_offset_' = Len(FlattenSeq(file'))
      <3>1. FlattenSeq(file) \in Seq(Records) /\ << >> \in Seq(Records)
        <4>1. << >> \in Seq(Records)
          OBVIOUS
        <4>. QED  BY <1>2, <4>1, UptoSteps, Zenon
      <3>2. FlattenSeq(file') = FlattenSeq(file) \o << >>
        BY <1>2, <1>7, <3>1, FlattenAppend, Zenon
      <3>3. FlattenSeq(file) \o << >> = FlattenSeq(file)
        BY <3>1
      <3>. QED  BY <1>1, <1>5, <3>2, <3>3, Zenon
    <2>5. unflushed' \subseteq 1..(n + 1) /\ n + 1 \notin unflushed
      BY <1>1, <1>2
    <2>6. StoreTypes'
      BY <1>0, <1>1, <1>2, <1>3, <2>1, <2>2, <2>5, Zenon DEF StoreTypes
    <2>7. ASSUME NEW f \in 1..(n + 1) PROVE stable'[f] \in 0..Written(f)'
      <3>1. CASE f \in 1..n
        BY <1>0, <1>1, <2>1, <2>2, <3>1, Zenon DEF StableInv, Written, n
      <3>2. CASE f = n + 1
        <4>1. Len(file'[f]) = 0 /\ stable'[f] = 0 /\ 0 \in 0..0
          BY <2>1, <2>2, <3>2
        <4>2. f \notin unflushed'
          BY <1>1, <2>5, <3>2, Zenon
        <4>. QED  BY <4>1, <4>2, Zenon DEF Written
      <3>3. f \in 1..n \/ f = n + 1
        BY <1>2
      <3>. QED  BY <3>1, <3>2, <3>3, Zenon
    <2>8. StableInv'
      BY <2>1, <2>7, Zenon DEF StableInv
    <2>9. Len(file) <= Len(file') /\ \A f \in 1..n : stable[f] <= stable'[f]
      BY <1>2, <2>1, <2>2 DEF n
    <2>10. \A f \in 1..Len(file) : Kept(f)
      BY <2>1, <2>2, <2>9, Zenon DEF Kept, n
    <2>11. SyncedInv'
      BY <1>0, <1>1, <2>6, <2>8, <2>9, <2>10, SyncedKept, Zenon
    <2>12. RunInv'
      BY <2>1, <2>3, <2>4, Zenon DEF RunInv
    <2>. QED  BY <1>4, <2>6, <2>8, <2>11, <2>12, Zenon DEF StoreInv
  <1>. QED  BY <1>1, <1>6, <1>7, Zenon

\* One segment is synced.
LEMMA StoreSync ==
    ASSUME StoreInv, sync_segment
    PROVE  StoreInv'
  <1>. DEFINE n == Len(file)
  <1>0. StoreTypes /\ StableInv /\ SyncedInv /\ RunInv /\ LoopInv
    BY Zenon DEF StoreInv
  <1>1. pc = "sync_segments" /\ pc # "down"
    BY Zenon DEF sync_segment
  <1>2. /\ cursor \in 1..n /\ OnStable(cursor - 1) /\ segments = [i \in 1..n |-> i]
        /\ file # << >> /\ next_offset_ = Len(FlattenSeq(file))
    BY <1>0, <1>1, Zenon DEF LoopInv, RunInv
  <1>3. segments[cursor] = cursor /\ n \in Nat /\ Len(segments) = n
    <2>1. n \in Nat
      BY <1>0 DEF StoreTypes
    <2>. HIDE DEF n
    <2>. QED  BY <1>2, <2>1
  <1>4. /\ unflushed' = unflushed \ {cursor} /\ stable' = [stable EXCEPT ![cursor] = Len(file[cursor])]
        /\ cursor' = cursor + 1 /\ pc' = (IF cursor = n THEN "clear_wal" ELSE pc)
        /\ UNCHANGED <<file, wal, wal_stable, segments, next_offset_, current, appends, synced>>
    BY <1>3, Zenon DEF sync_segment, walVars, procVars
  <1>5. stable \in Seq(Nat) /\ Len(stable) = n /\ file \in Seq(Seq(Records))
    BY <1>0, Zenon DEF StoreTypes
  <1>6. /\ stable' \in Seq(Nat) /\ Len(stable') = n
        /\ \A f \in 1..n : stable'[f] = IF f = cursor THEN Len(file[f]) ELSE stable[f]
    <2>1. Len(file[cursor]) \in Nat
      BY <1>2, <1>5
    <2>2. DOMAIN stable = 1..n
      BY <1>5
    <2>. HIDE DEF n
    <2>. QED  BY <1>2, <1>3, <1>4, <1>5, <2>1, <2>2
  <1>7. StoreTypes'
    <2>1. pc' \in {"down", "replay", "ready", "logged", "stored", "sync_wal",
                   "sync_segments", "clear_wal"}
      BY <1>1, <1>4, Zenon
    <2>2. unflushed' \subseteq 1..Len(file')
      BY <1>0, <1>4, Zenon DEF StoreTypes
    <2>. QED  BY <1>0, <1>4, <1>6, <2>1, <2>2, Zenon DEF StoreTypes
  <1>8. ASSUME NEW f \in 1..n
        PROVE  /\ Len(file[f]) \in Nat /\ stable[f] \in Nat /\ stable[f] <= Len(file[f])
               /\ stable'[f] \in 0..Written(f)' /\ stable[f] <= stable'[f]
    <2>1. /\ Len(file[f]) \in Nat /\ stable[f] \in Nat /\ stable[f] <= Written(f)
          /\ Written(f) \in Nat /\ Written(f) <= Len(file[f])
      BY <1>0, FileTypes, Zenon
    <2>2. CASE f = cursor
      <3>1. Written(f)' = Len(file[f]) /\ stable'[f] = Len(file[f])
        BY <1>4, <1>6, <2>2, Zenon DEF Written
      <3>. QED  BY <2>1, <3>1
    <2>3. CASE f # cursor
      <3>1. Written(f)' = Written(f) /\ stable'[f] = stable[f]
        BY <1>4, <1>6, <2>3, Zenon DEF Written
      <3>. QED  BY <2>1, <3>1
    <2>. QED  BY <2>2, <2>3, Zenon
  <1>9. StableInv'
    BY <1>4, <1>8, Zenon DEF StableInv
  <1>10. ASSUME NEW f \in 1..n PROVE Kept(f)
    <2>1. stable[f] = Len(file[f]) => stable'[f] = stable[f]
      BY <1>6, Zenon
    <2>. QED  BY <1>4, <1>8, <2>1, Zenon DEF Kept
  <1>11. Len(file) <= Len(file')
    BY <1>3, <1>4
  <1>12. SyncedInv'
    BY <1>0, <1>4, <1>7, <1>9, <1>10, <1>11, SyncedKept, Zenon
  <1>13. ASSUME NEW f \in 1..cursor PROVE stable'[f] = Len(file'[f])
    <2>1. f \in 1..n /\ (f = cursor \/ f \in 1..(cursor - 1))
      BY <1>2, <1>3
    <2>. QED  BY <1>2, <1>4, <1>6, <2>1, Zenon DEF OnStable
  <1>14. LoopInv'
    <2>1. CASE cursor = n
      <3>1. pc' = "clear_wal"
        BY <1>4, <2>1, Zenon
      <3>2. OnStable(Len(file))'
        BY <1>4, <1>13, <2>1, Zenon DEF OnStable
      <3>. QED  BY <3>1, <3>2, Zenon DEF LoopInv
    <2>2. CASE cursor # n
      <3>1. cursor + 1 \in 1..n /\ (cursor + 1) - 1 = cursor
        <4>. HIDE DEF n
        <4>. QED  BY <1>2, <1>3, <2>2
      <3>2. pc' = "sync_segments" /\ cursor' \in 1..Len(file') /\ cursor' - 1 = cursor
        BY <1>1, <1>4, <2>2, <3>1, Zenon
      <3>3. OnStable(cursor - 1)'
        BY <1>13, <3>2, Zenon DEF OnStable
      <3>. QED  BY <3>2, <3>3, Zenon DEF LoopInv
    <2>. QED  BY <2>1, <2>2, Zenon
  <1>15. RunInv'
    BY <1>2, <1>4, Zenon DEF RunInv
  <1>. QED  BY <1>7, <1>9, <1>12, <1>14, <1>15, Zenon DEF StoreInv

\* When there are no records, every file is empty.
LEMMA FlattenEmpty ==
    ASSUME NEW R, NEW s \in Seq(Seq(R)), Len(FlattenSeq(s)) = 0, NEW n \in 1..Len(s)
    PROVE  Len(s[n]) = 0
  <1>1. s[n] \in Seq(R)
    OBVIOUS
  <1>2. Len(s[n]) \in Nat
    BY <1>1
  <1>3. CASE 1 \in 1..Len(s[n])
    <2>1. Len(Upto(s, n - 1)) + 1 \in 1..Len(FlattenSeq(s))
      BY <1>3, RecordAt, Zenon
    <2>2. 1..Len(FlattenSeq(s)) = {}
      OBVIOUS
    <2>. QED  BY <2>1, <2>2, Zenon
  <1>4. CASE 1 \notin 1..Len(s[n])
    BY <1>2, <1>4
  <1>. QED  BY <1>3, <1>4, Zenon

\* The replay is over.
LEMMA StoreReplayed ==
    ASSUME StoreInv, recover_wal_end
    PROVE  StoreInv'
  <1>0. StoreTypes /\ StableInv /\ RunInv
    BY Zenon DEF StoreInv
  <1>1. /\ pc = "replay" /\ pc' = (IF next_offset_ > 0 THEN "sync_segments" ELSE "clear_wal")
        /\ cursor' = 1
        /\ UNCHANGED <<file, unflushed, stable, wal, wal_stable, segments, next_offset_,
                       current, appends, synced>>
    BY Zenon DEF recover_wal_end, diskVars, walVars, procVars
  <1>2. pc # "down" /\ unflushed' \subseteq unflushed /\ UNCHANGED <<file, stable, synced>>
    BY <1>1, Zenon
  <1>3. StoreTypes'
    <2>1. pc' \in {"down", "replay", "ready", "logged", "stored", "sync_wal",
                   "sync_segments", "clear_wal"}
      BY <1>1, Zenon
    <2>. QED  BY <1>0, <1>1, <2>1, Zenon DEF StoreTypes
  <1>4. StableInv' /\ SyncedInv' /\ \A n : OnStable(n)' <=> OnStable(n)
    BY <1>2, <1>3, DiskSame, Zenon
  <1>5. file # << >> /\ segments = [i \in 1..Len(file) |-> i] /\ next_offset_ = Len(FlattenSeq(file))
    BY <1>0, <1>2, Zenon DEF RunInv
  <1>6. RunInv'
    BY <1>1, <1>5, Zenon DEF RunInv
  <1>7. file \in Seq(Seq(Records)) /\ FlattenSeq(file) \in Seq(Records)
    BY <1>0, UptoSteps, Zenon DEF StoreTypes
  <1>8. CASE next_offset_ > 0
    <2>1. pc' = "sync_segments"
      BY <1>1, <1>8, Zenon
    <2>2. cursor' \in 1..Len(file')
      BY <1>1, <1>5, <1>7
    <2>3. \A f \in 1..(cursor' - 1) : FALSE
      BY <1>1
    <2>. QED  BY <1>3, <1>4, <1>6, <2>1, <2>2, <2>3, Zenon DEF StoreInv, LoopInv, OnStable
  <1>9. CASE ~(next_offset_ > 0)
    <2>1. pc' = "clear_wal"
      BY <1>1, <1>9, Zenon
    <2>2. Len(FlattenSeq(file)) = 0
      <3>1. Len(FlattenSeq(file)) \in Nat
        BY <1>7
      <3>. QED  BY <1>5, <1>9, <3>1
    <2>3. ASSUME NEW f \in 1..Len(file) PROVE stable[f] = Len(file[f])
      <3>1. Len(file[f]) = 0
        BY <1>7, <2>2, FlattenEmpty, Zenon
      <3>2. /\ Len(file[f]) \in Nat /\ stable[f] \in Nat /\ stable[f] <= Written(f)
            /\ Written(f) \in Nat /\ Written(f) <= Len(file[f])
        BY <1>0, FileTypes, Zenon
      <3>. QED  BY <3>1, <3>2
    <2>4. OnStable(Len(file))'
      BY <1>1, <2>3, Zenon DEF OnStable
    <2>. QED  BY <1>3, <1>4, <1>6, <2>1, <2>4, Zenon DEF StoreInv, LoopInv
  <1>. QED  BY <1>8, <1>9, Zenon

\* The steps that leave the files alone: logging an append, flush, the sync of
\* the WAL, a read.
LEMMA StoreIdle ==
    ASSUME StoreInv, write_wal \/ flush \/ sync_wal \/ \E o \in 0..(MaxAppends - 1) : fetch(o)
    PROVE  StoreInv'
  <1>0. StoreTypes /\ StableInv /\ RunInv /\ LoopInv
    BY Zenon DEF StoreInv
  <1>1. pc # "down" /\ pc' \in {"ready", "logged", "sync_wal", "sync_segments"}
    BY Zenon DEF write_wal, flush, sync_wal, fetch
  <1>2. /\ UNCHANGED <<file, stable, synced, segments, next_offset_>>
        /\ unflushed' \subseteq unflushed
    <2>1. CASE \E o \in 0..(MaxAppends - 1) : fetch(o)
      BY <2>1, Zenon DEF fetch, procVars
    <2>2. CASE write_wal \/ flush \/ sync_wal
      BY <2>2, Zenon DEF write_wal, flush, sync_wal, diskVars, procVars
    <2>. QED  BY <2>1, <2>2, Zenon
  <1>3. file # << >> /\ segments = [i \in 1..Len(file) |-> i] /\ next_offset_ = Len(FlattenSeq(file))
    BY <1>0, <1>1, Zenon DEF RunInv
  <1>4. file \in Seq(Seq(Records)) /\ FlattenSeq(file) \in Seq(Records)
    BY <1>0, UptoSteps, Zenon DEF StoreTypes
  <1>5. /\ wal' \in Seq(Entries) /\ wal_stable' \in Seq(Entries)
        /\ current' \subseteq Nat \X Records /\ appends' \in 0..MaxAppends
    <2>0. wal \in Seq(Entries) /\ current \subseteq Nat \X Records /\ appends \in 0..MaxAppends
          /\ wal_stable \in Seq(Entries)
      BY <1>0, Zenon DEF StoreTypes
    <2>1. CASE write_wal
      <3>. DEFINE e == [offset |-> next_offset_, record |-> appends + 1]
      <3>1. /\ wal' = Append(wal, e) /\ current' = {<<next_offset_, appends + 1>>}
            /\ appends' = appends + 1 /\ wal_stable' = wal_stable /\ appends < MaxAppends
        BY <2>1, Zenon DEF write_wal
      <3>2. next_offset_ \in Nat
        BY <1>3, <1>4
      <3>3. appends + 1 \in Records /\ appends + 1 \in 0..MaxAppends
        BY <2>0, <3>1, PartitionLogAssumption DEF Records
      <3>4. e \in Entries /\ <<next_offset_, appends + 1>> \in Nat \X Records
        BY <3>2, <3>3 DEF Entries
      <3>. HIDE DEF e
      <3>5. wal' \in Seq(Entries)
        BY <2>0, <3>1, <3>4
      <3>. QED  BY <2>0, <3>1, <3>3, <3>4, <3>5, Zenon
    <2>2. CASE flush \/ sync_wal \/ \E o \in 0..(MaxAppends - 1) : fetch(o)
      BY <2>0, <2>2, Zenon DEF flush, sync_wal, fetch, walVars
    <2>. QED  BY <2>1, <2>2, Zenon
  <1>6. StoreTypes'
    <2>1. pc' \in {"down", "replay", "ready", "logged", "stored", "sync_wal",
                   "sync_segments", "clear_wal"}
      BY <1>1, Zenon
    <2>. QED  BY <1>0, <1>2, <1>5, <2>1, Zenon DEF StoreTypes
  <1>7. LoopInv'
    <2>1. CASE pc' = "sync_segments"
      <3>1. cursor' = 1
        BY <2>1, Zenon DEF write_wal, flush, sync_wal, fetch
      <3>2. cursor' \in 1..Len(file')
        BY <1>2, <1>3, <1>4, <3>1
      <3>3. \A f \in 1..(cursor' - 1) : FALSE
        BY <3>1
      <3>. QED  BY <2>1, <3>2, <3>3, Zenon DEF LoopInv, OnStable
    <2>2. CASE pc' # "sync_segments"
      BY <1>1, <2>2, Zenon DEF LoopInv
    <2>. QED  BY <2>1, <2>2, Zenon
  <1>8. RunInv'
    BY <1>2, <1>3, Zenon DEF RunInv
  <1>. QED  BY <1>2, <1>6, <1>7, <1>8, DiskSame, Zenon DEF StoreInv

\* The sync is complete: it covers all records.
LEMMA StoreSynced ==
    ASSUME StoreInv, clear_wal
    PROVE  StoreInv' /\ synced' = FlattenSeq(file)
  <1>. DEFINE n == Len(file)
  <1>0. StoreTypes /\ StableInv /\ RunInv /\ LoopInv
    BY Zenon DEF StoreInv
  <1>1. /\ pc = "clear_wal" /\ pc' = "ready" /\ wal' = << >> /\ current' = {}
        /\ synced' = Content
        /\ UNCHANGED <<file, unflushed, stable, wal_stable, segments, next_offset_, appends>>
    BY Zenon DEF clear_wal, diskVars
  <1>2. pc # "down" /\ OnStable(n)
    BY <1>0, <1>1, Zenon DEF LoopInv
  <1>3. file # << >> /\ segments = [i \in 1..n |-> i] /\ next_offset_ = Len(FlattenSeq(file))
    BY <1>0, <1>2, Zenon DEF RunInv
  <1>4. file \in Seq(Seq(Records)) /\ FlattenSeq(file) \in Seq(Records)
    BY <1>0, UptoSteps, Zenon DEF StoreTypes
  <1>5. synced' = FlattenSeq(file)
    BY <1>1, <1>3, <1>4, InOrderOfFiles, Zenon DEF Content
  <1>6. StoreTypes'
    <2>1. << >> \in Seq(Entries)
      OBVIOUS
    <2>2. pc' \in {"down", "replay", "ready", "logged", "stored", "sync_wal",
                   "sync_segments", "clear_wal"} /\ current' \subseteq Nat \X Records
      BY <1>1, Zenon
    <2>. QED  BY <1>0, <1>1, <1>4, <1>5, <2>1, <2>2, Zenon DEF StoreTypes
  <1>7. RunInv' /\ LoopInv'
    BY <1>1, <1>3, Zenon DEF RunInv, LoopInv
  <1>8. StableInv'
    BY <1>0, <1>1, Zenon DEF StableInv, Written
  <1>9. SyncedInv'
    <2>. DEFINE j == Len(file[n])
    <2>1. n \in 1..n /\ n \in Nat /\ \A f \in 1..(n - 1) : f \in 1..n
      BY <1>3, <1>4
    <2>2. stable[n] = j /\ j \in 0..j /\ SubSeq(file[n], 1, j) = file[n]
      <3>1. file[n] \in Seq(Records)
        BY <1>4, <2>1
      <3>2. stable[n] = j
        BY <1>2, <2>1, Zenon DEF OnStable
      <3>. QED  BY <3>1, <3>2
    <2>3. OnStable(n - 1)
      BY <1>2, <2>1, Zenon DEF OnStable
    <2>4. Part(n, j) = file
      <3>1. file = [f \in 1..n |-> file[f]]
        BY <1>4
      <3>2. Part(n, j) = [f \in 1..n |-> file[f]]
        BY <2>2, Zenon DEF Part
      <3>. QED  BY <3>1, <3>2, Zenon
    <2>5. \E k \in 1..Len(file) : \E i \in 0..stable[k] :
             OnStable(k - 1) /\ synced' = FlattenSeq(Part(k, i))
      BY <1>5, <2>1, <2>2, <2>3, <2>4, Zenon
    <2>. QED  BY <1>1, <2>5, Zenon DEF SyncedInv, OnStable, Part
  <1>. QED  BY <1>5, <1>6, <1>7, <1>8, <1>9, Zenon DEF StoreInv

\* The destructors.
LEMMA StoreClose ==
    ASSUME StoreInv, close
    PROVE  StoreInv'
  <1>0. StoreTypes /\ StableInv
    BY Zenon DEF StoreInv
  <1>1. /\ pc' = "down" /\ unflushed' = {} /\ current' = {}
        /\ UNCHANGED <<file, stable, wal, wal_stable, appends, synced>>
    BY Zenon DEF close, Forget, walVars
  <1>2. StoreTypes'
    <2>1. pc' \in {"down", "replay", "ready", "logged", "stored", "sync_wal",
                   "sync_segments", "clear_wal"} /\ current' \subseteq Nat \X Records
          /\ unflushed' \subseteq 1..Len(file')
      BY <1>1, Zenon
    <2>. QED  BY <1>0, <1>1, <2>1, Zenon DEF StoreTypes
  <1>3. StableInv' /\ SyncedInv'
    <2>1. unflushed' \subseteq unflushed
      BY <1>1, Zenon
    <2>. QED  BY <1>1, <1>2, <2>1, DiskSame, Zenon
  <1>. QED  BY <1>1, <1>2, <1>3, Zenon DEF StoreInv, RunInv, LoopInv

\* The end of the process: what is in the buffers is lost.
LEMMA StoreKill ==
    ASSUME StoreInv, kill
    PROVE  /\ StoreInv' /\ Len(file') = Len(file)
           /\ \A f \in 1..Len(file) : file'[f] = SubSeq(file[f], 1, Written(f))
           /\ Len(FlattenSeq(file')) <= Len(FlattenSeq(file))
  <1>. DEFINE keep == [f \in DOMAIN file |-> Written(f)]
  <1>0. StoreTypes /\ StableInv
    BY Zenon DEF StoreInv
  <1>1. /\ pc' = "down" /\ unflushed' = {} /\ current' = {} /\ file' = Cut(keep)
        /\ UNCHANGED <<stable, wal, wal_stable, appends, synced>>
    BY Zenon DEF kill, Forget, walVars
  <1>2. DOMAIN file = 1..Len(file)
    BY <1>0 DEF StoreTypes
  <1>3. ASSUME NEW f \in 1..Len(file)
        PROVE  Written(f) \in Nat /\ Written(f) \in stable[f]..Written(f) /\ keep[f] = Written(f)
    <2>1. Written(f) \in Nat /\ stable[f] \in Nat /\ stable[f] <= Written(f)
      BY <1>0, FileTypes, Zenon
    <2>2. keep[f] = Written(f)
      BY <1>2, Zenon
    <2>3. Written(f) \in stable[f]..Written(f)
      BY <2>1
    <2>. QED  BY <2>1, <2>2, <2>3, Zenon
  <1>4. keep \in [DOMAIN file -> Nat] /\ \A f \in 1..Len(file) : keep[f] \in stable[f]..Written(f)
    BY <1>2, <1>3, Zenon
  <1>5. /\ UNCHANGED <<appends, synced>> /\ stable' = stable
        /\ wal' \in Seq(Entries) /\ wal_stable' \in Seq(Entries)
    BY <1>0, <1>1, Zenon DEF StoreTypes
  <1>. HIDE DEF keep
  <1>6. /\ StoreInv' /\ Len(file') = Len(file)
        /\ \A f \in 1..Len(file) : file'[f] = SubSeq(file[f], 1, keep[f])
        /\ Len(FlattenSeq(file')) <= Len(FlattenSeq(file))
    BY <1>1, <1>4, <1>5, CutKeeps, Zenon
  <1>. QED  BY <1>3, <1>6, Zenon

\* What the WAL may be after a power loss.
LEMMA WalAfterLoss ==
    ASSUME StoreTypes, power_loss
    PROVE  /\ wal_stable' = wal' /\ wal' \in Seq(Entries)
           /\ wal' = wal_stable \/ \E k \in 0..Len(wal) : wal' = SubSeq(wal, 1, k)
  <1>. DEFINE fewest == IF Begins(wal_stable, wal) THEN Len(wal_stable) ELSE 0
  <1>1. /\ wal_stable' = wal'
        /\ wal' = wal_stable \/ \E k \in fewest..Len(wal) : wal' = SubSeq(wal, 1, k)
    BY Zenon DEF power_loss
  <1>2. /\ wal \in Seq(Entries) /\ wal_stable \in Seq(Entries)
        /\ Len(wal) \in Nat /\ Len(wal_stable) \in Nat
    BY DEF StoreTypes
  <1>3. fewest \in Nat
    BY <1>2
  <1>. HIDE DEF fewest
  <1>4. \A k \in fewest..Len(wal) : k \in 0..Len(wal)
    BY <1>2, <1>3
  <1>5. \A k \in 0..Len(wal) : SubSeq(wal, 1, k) \in Seq(Entries)
    BY <1>2
  <1>. QED  BY <1>1, <1>2, <1>4, <1>5, Zenon

\* The power loss: any prefix from what is stable up.
LEMMA StoreLoss ==
    ASSUME StoreInv, power_loss
    PROVE  /\ StoreInv' /\ Len(file') = Len(file)
           /\ \A f \in 1..Len(file) :
                 /\ stable'[f] \in stable[f]..Written(f)
                 /\ file'[f] = SubSeq(file[f], 1, stable'[f])
           /\ Len(FlattenSeq(file')) <= Len(FlattenSeq(file))
  <1>0. StoreTypes /\ StableInv
    BY Zenon DEF StoreInv
  <1>1. /\ pc' = "down" /\ unflushed' = {} /\ current' = {} /\ UNCHANGED <<appends, synced>>
    BY Zenon DEF power_loss, Forget
  <1>2. PICK keep \in [DOMAIN file -> 0..MaxAppends] :
           /\ \A f \in DOMAIN file : keep[f] \in stable[f]..Written(f)
           /\ file' = Cut(keep) /\ stable' = keep
    BY Zenon DEF power_loss
  <1>3. DOMAIN file = 1..Len(file)
    BY <1>0 DEF StoreTypes
  <1>4. keep \in [DOMAIN file -> Nat]
    <2>1. \A i \in 0..MaxAppends : i \in Nat
      OBVIOUS
    <2>. QED  BY <1>2, <2>1
  <1>5. wal' \in Seq(Entries) /\ wal_stable' \in Seq(Entries)
    BY <1>0, WalAfterLoss, Zenon
  <1>6. /\ StoreInv' /\ Len(file') = Len(file)
        /\ \A f \in 1..Len(file) : file'[f] = SubSeq(file[f], 1, keep[f])
        /\ Len(FlattenSeq(file')) <= Len(FlattenSeq(file))
    BY <1>1, <1>2, <1>3, <1>4, <1>5, CutKeeps, Zenon
  <1>. QED  BY <1>2, <1>3, <1>6, Zenon

\* Every call and crash of a log of at most ten files keeps the invariant, and it
\* had at most ten before.
LEMMA StoreStep ==
    ASSUME FilesSeq, TenFiles => StoreInv, [Next]_plVars
    PROVE  TenFiles' => StoreInv' /\ TenFiles
  <1>. SUFFICES ASSUME TenFiles' PROVE StoreInv' /\ TenFiles
    BY Zenon
  <1>1. Len(file) <= Len(file') /\ FilesSeq'
    BY FilesSeqStep, Zenon
  <1>2. TenFiles
    <2>1. PICK S : file \in Seq(S)
      BY Zenon DEF FilesSeq
    <2>2. PICK T : file' \in Seq(T)
      BY <1>1, Zenon DEF FilesSeq
    <2>3. Len(file) \in Nat /\ Len(file') \in Nat
      BY <2>1, <2>2
    <2>. QED  BY <1>1, <2>3 DEF TenFiles
  <1>3. StoreInv
    BY <1>2, Zenon
  <1>4. CASE UNCHANGED plVars
    <2>1. /\ UNCHANGED <<pc, cursor, file, unflushed, stable, wal, wal_stable, segments>>
          /\ UNCHANGED <<next_offset_, current, appends, synced>>
      BY <1>4, Zenon DEF plVars, procVars, diskVars, walVars
    <2>2. StoreTypes'
      BY <1>3, <2>1, Zenon DEF StoreInv, StoreTypes
    <2>3. StableInv' /\ SyncedInv'
      <3>1. unflushed' \subseteq unflushed
        BY <2>1, Zenon
      <3>. QED  BY <1>3, <2>1, <2>2, <3>1, DiskSame, Zenon
    <2>4. RunInv'
      BY <1>3, <2>1, Zenon DEF StoreInv, RunInv
    <2>5. LoopInv'
      BY <1>3, <2>1, Zenon DEF StoreInv, LoopInv, OnStable
    <2>. QED  BY <1>2, <2>2, <2>3, <2>4, <2>5, Zenon DEF StoreInv
  <1>5. CASE Next
    BY <1>1, <1>2, <1>3, <1>5, StoreLoad, StoreReplay, StoreReplayed, StoreAppend, StoreRoll, StoreIdle,
       StoreSync, StoreSynced, StoreClose, StoreKill, StoreLoss, Zenon DEF Next
  <1>. QED  BY <1>2, <1>4, <1>5, Zenon

\* While there are at most ten segments: what is on stable storage was written,
\* the segments are in order, a sync covers the files up to its cursor, and what
\* a completed sync covered cannot be cut.
THEOREM StoreInvariant == Spec => [](TenFiles => StoreInv)
  <1>1. Init => FilesSeq /\ (TenFiles => StoreInv)
    BY FilesSeqInit, StoreInit, Zenon
  <1>2. /\ FilesSeq /\ (TenFiles => StoreInv) /\ [Next]_plVars
        => FilesSeq' /\ (TenFiles => StoreInv)'
    BY FilesSeqStep, StoreStep, Zenon
  <1>. QED  BY <1>1, <1>2, PTL DEF Spec
-----------------------------------------------------------------------------
(* What a sync covered survives.                                           *)

\* The synced records are the first ones in the files.
LEMMA SyncedBegins ==
    ASSUME StoreInv
    PROVE  Begins(synced, FlattenSeq(file)) /\ FlattenSeq(file) \in Seq(Records)
  <1>0. StoreTypes /\ StableInv /\ SyncedInv
    BY Zenon DEF StoreInv
  <1>1. file \in Seq(Seq(Records)) /\ FlattenSeq(file) \in Seq(Records)
    BY <1>0, UptoSteps, Zenon DEF StoreTypes
  <1>2. CASE synced = << >>
    <2>. DEFINE c == FlattenSeq(file)
    <2>. HIDE DEF c
    <2>1. c \in Seq(Records)
      BY <1>1, Zenon DEF c
    <2>2. Begins(<< >>, c)
      BY <2>1 DEF Begins
    <2>. QED  BY <1>1, <1>2, <2>2, Zenon DEF c
  <1>3. ASSUME NEW k \in 1..Len(file), NEW j \in 0..stable[k], synced = FlattenSeq(Part(k, j))
        PROVE  Begins(synced, FlattenSeq(file))
    <2>. DEFINE u == SubSeq(file, 1, k - 1)
                x == file[k]
                y == SubSeq(file[k], 1, j)
    <2>1. x \in Seq(Records) /\ j \in 0..Len(x)
      <3>1. /\ file[k] \in Seq(Records) /\ Len(file[k]) \in Nat /\ stable[k] \in Nat
            /\ Written(k) \in Nat /\ stable[k] <= Written(k) /\ Written(k) <= Len(file[k])
        BY <1>0, FileTypes, Zenon
      <3>. QED  BY <3>1
    <2>2. u \in Seq(Seq(Records)) /\ Len(u) = k - 1 /\ \A f \in 1..(k - 1) : u[f] = file[f]
      <3>. DEFINE m == k - 1
      <3>1. m \in 0..Len(file)
        BY <1>1
      <3>. HIDE DEF m
      <3>2. SubSeq(file, 1, m) \in Seq(Seq(Records)) /\ Len(SubSeq(file, 1, m)) = m
            /\ \A f \in 1..m : SubSeq(file, 1, m)[f] = file[f]
        BY <1>1, <3>1
      <3>. QED  BY <3>2, Zenon DEF m
    <2>3. y \in Seq(Records) /\ Len(y) <= Len(x) /\ \A i \in 1..Len(y) : y[i] = x[i]
      <3>. HIDE DEF x
      <3>1. SubSeq(x, 1, j) \in Seq(Records) /\ Len(SubSeq(x, 1, j)) <= Len(x)
            /\ \A i \in 1..Len(SubSeq(x, 1, j)) : SubSeq(x, 1, j)[i] = x[i]
        BY <2>1
      <3>. QED  BY <3>1, Zenon DEF x
    <2>4. Part(k, j) = Append(u, y)
      <3>0. k \in Nat /\ k # 0
        OBVIOUS
      <3>1. \A f \in 1..k : f # k => f \in 1..(k - 1)
        OBVIOUS
      <3>2. ASSUME NEW f \in 1..k PROVE Part(k, j)[f] = IF f = k THEN y ELSE u[f]
        BY <2>2, <3>1, Zenon DEF Part
      <3>. DEFINE P == Part(k, j)
      <3>3. P = [f \in 1..k |-> P[f]]
        BY Zenon DEF Part
      <3>. HIDE DEF u, y, P
      <3>4. \A f \in 1..k : P[f] = IF f = k THEN y ELSE u[f]
        BY <3>2, Zenon DEF P
      <3>5. DOMAIN Append(u, y) = 1..k /\ \A f \in 1..k : Append(u, y)[f] = IF f = k THEN y ELSE u[f]
        BY <2>2, <2>3, <3>0
      <3>6. Append(u, y) = [f \in 1..k |-> Append(u, y)[f]]
        <4>1. \A s \in Seq(Seq(Records)) : s = [f \in DOMAIN s |-> s[f]]
          OBVIOUS
        <4>2. Append(u, y) \in Seq(Seq(Records))
          BY <2>2, <2>3
        <4>. QED  BY <3>5, <4>1, <4>2, Zenon
      <3>7. P = Append(u, y)
        BY <3>3, <3>4, <3>5, <3>6, Zenon
      <3>. QED  BY <3>7, Zenon DEF P
    <2>5. k \in 0..Len(file)
      BY <1>1
    <2>6. Upto(file, k) = Upto(file, k - 1) \o x /\ Begins(Upto(file, k), FlattenSeq(file))
          /\ Upto(file, k) \in Seq(Records)
      BY <1>1, <2>5, UptoSteps, UptoBegins, Zenon
    <2>. DEFINE a == FlattenSeq(u)
    <2>. HIDE DEF x, y
    <2>7. a \in Seq(Records) /\ synced = a \o y /\ Upto(file, k) = a \o x
      <3>1. FlattenSeq(u) \in Seq(Records) /\ FlattenSeq(Append(u, y)) = FlattenSeq(u) \o y
        BY <2>2, <2>3, FlattenAppend, Zenon
      <3>. QED  BY <1>3, <2>4, <2>6, <3>1, Zenon DEF Upto
    <2>. HIDE DEF a, u
    <2>8. Begins(a \o y, a \o x) /\ a \o y \in Seq(Records)
      BY <2>1, <2>3, <2>7 DEF Begins
    <2>. QED  BY <1>1, <2>6, <2>7, <2>8, BeginsTransitive, Zenon
  <1>. QED  BY <1>0, <1>1, <1>2, <1>3, Zenon DEF SyncedInv

\* What a completed sync_pending, or recovery, covered is served at the same
\* offsets after any number of crashes, of the process or of the machine, as
\* long as the log has at most ten segments.
THEOREM SyncedIsKept == Spec => [](Len(file) <= 10 => SyncedSurvives)
  <1>1. ASSUME StoreInv, TenFiles PROVE SyncedSurvives
    <2>. DEFINE c == FlattenSeq(file)
    <2>0. StoreTypes /\ RunInv /\ LoopInv
      BY <1>1, Zenon DEF StoreInv
    <2>1. Begins(synced, c) /\ c \in Seq(Records)
      BY <1>1, SyncedBegins, Zenon
    <2>2. wal \in Seq(Entries) /\ synced \in Seq(Records) /\ file \in Seq(Seq(Records))
      BY <2>0, Zenon DEF StoreTypes
    <2>3. ASSUME NEW entries \in Seq(Entries)
          PROVE  Replayed(c, entries) \in Seq(Records) /\ Begins(synced, Replayed(c, entries))
      <3>1. Replayed(c, entries) \in Seq(Records) /\ Begins(c, Replayed(c, entries))
        BY <2>1, ReplayedBegins, Zenon
      <3>. HIDE DEF c
      <3>. QED  BY <2>1, <2>2, <3>1, BeginsTransitive, Zenon
    <2>4. pc # "down" => Content = c
      BY <2>0, <2>2, InOrderOfFiles, Zenon DEF RunInv, Content
    <2>5. CASE pc = "down"
      <3>1. Len(file) \in 0..10
        <4>1. Len(file) \in Nat
          BY <2>2
        <4>2. Len(file) <= 10
          BY <1>1, Zenon DEF TenFiles
        <4>3. \A l \in Nat : l <= 10 => l \in 0..10
          OBVIOUS
        <4>. QED  BY <4>1, <4>2, <4>3, Zenon
      <3>2. InOrder(LoadOrder(Len(file))) = c
        BY <2>2, <3>1, LoadInOrder, InOrderOfFiles, Zenon
      <3>3. Recoverable = Replayed(c, wal)
        BY <2>5, <3>2, Zenon DEF Recoverable
      <3>. HIDE DEF c
      <3>. QED  BY <2>2, <2>3, <3>3, Zenon DEF SyncedSurvives
    <2>6. CASE pc = "replay"
      <3>1. pc # "down"
        BY <2>6, Zenon
      <3>2. SubSeq(wal, cursor, Len(wal)) \in Seq(Entries)
        <4>1. cursor \in 1..(Len(wal) + 1)
          BY <2>0, <2>6, Zenon DEF LoopInv
        <4>. QED  BY <2>2, <4>1
      <3>3. Recoverable = Replayed(c, SubSeq(wal, cursor, Len(wal)))
        BY <2>4, <2>6, <3>1, Zenon DEF Recoverable
      <3>. HIDE DEF c
      <3>. QED  BY <2>2, <2>3, <3>2, <3>3, Zenon DEF SyncedSurvives
    <2>7. CASE pc # "down" /\ pc # "replay"
      <3>1. Recoverable = c
        BY <2>4, <2>7, Zenon DEF Recoverable
      <3>. HIDE DEF c
      <3>. QED  BY <2>1, <2>2, <3>1, Zenon DEF SyncedSurvives
    <2>. QED  BY <2>5, <2>6, <2>7, Zenon
  <1>2. (TenFiles => StoreInv) => (Len(file) <= 10 => SyncedSurvives)
    BY <1>1, Zenon DEF TenFiles
  <1>. QED  BY <1>2, StoreInvariant, PTL
-----------------------------------------------------------------------------
(* The log of one segment.                                                 *)

\* The entries of a WAL have one offset after the other,
Consecutive(w) == \A i \in 1..Len(w) : w[i].offset + 1 = w[1].offset + i

\* the offset behind the last one,
End(w) == w[1].offset + Len(w)

\* and where the content has their offsets, it has their records.
Agrees(w, c) == \A i \in 1..Len(w) : w[i].offset < Len(c) => c[w[i].offset + 1] = w[i].record

\* r is the content c with what w has behind its end.
Covers(r, c, w) ==
    /\ r \in Seq(Records) /\ Begins(c, r)
    /\ Len(r) = IF w = << >> THEN Len(c) ELSE IF End(w) <= Len(c) THEN Len(c) ELSE End(w)
    /\ \A i \in 1..Len(w) : r[w[i].offset + 1] = w[i].record

\* A WAL that continues, or overlaps, the content.
Continues(w, c) ==
    /\ w \in Seq(Entries) /\ Consecutive(w) /\ Agrees(w, c)
    /\ w # << >> => w[1].offset <= Len(c)

\* The offsets of such a WAL as numbers.
LEMMA RunOffsets ==
    ASSUME NEW w \in Seq(Entries), Consecutive(w), w # << >>
    PROVE  /\ w[1].offset \in Nat /\ Len(w) \in Nat /\ Len(w) # 0 /\ End(w) \in Nat
           /\ \A i \in 1..Len(w) : /\ w[i].offset \in Nat /\ w[i].record \in Records
                                   /\ w[i].offset + 1 = w[1].offset + i
  <1>1. Len(w) \in Nat /\ Len(w) # 0 /\ 1 \in 1..Len(w) /\ \A i \in 1..Len(w) : w[i] \in Entries
    OBVIOUS
  <1>2. \A e \in Entries : e.offset \in Nat /\ e.record \in Records
    BY DEF Entries
  <1>3. w[1].offset \in Nat /\ \A i \in 1..Len(w) : w[i].offset \in Nat /\ w[i].record \in Records
    BY <1>1, <1>2, Zenon
  <1>4. End(w) \in Nat
    BY <1>1, <1>3 DEF End
  <1>. QED  BY <1>1, <1>3, <1>4, Zenon DEF Consecutive

\* recover_wal completes the content with what the WAL has behind its end.
LEMMA ReplayedCovers ==
    ASSUME NEW c \in Seq(Records), NEW w, Continues(w, c)
    PROVE  Covers(Replayed(c, w), c, w)
  <1>. DEFINE N == Len(w)
              o == w[1].offset
              l == Len(c)
              r == Replayed(c, w)
  <1>0. w \in Seq(Entries) /\ N \in Nat /\ l \in Nat /\ Consecutive(w) /\ Agrees(w, c)
    BY DEF Continues
  <1>1. PICK a : /\ a[0] = c /\ r = a[N]
                 /\ \A m \in 1..N : a[m] = Replay(a[m - 1], w[m])
    <2>1. Len(w) \in Nat
      BY <1>0, Zenon
    <2>. QED  BY <2>1, ReplayedValue
  <1>2. Begins(c, c)
    BY DEF Begins
  <1>3. CASE w = << >>
    <2>1. N = 0 /\ 1..N = {}
      BY <1>3
    <2>2. r = c
      BY <1>1, <2>1, Zenon
    <2>. HIDE DEF r
    <2>3. Covers(c, c, w)
      BY <1>2, <1>3, <2>1, Zenon DEF Covers
    <2>. QED  BY <2>2, <2>3, Zenon DEF r
  <1>4. CASE w # << >>
    <2>0. /\ o \in Nat /\ N # 0 /\ o <= l
          /\ \A i \in 1..N : w[i].offset \in Nat /\ w[i].record \in Records /\ w[i].offset + 1 = o + i
      BY <1>0, <1>4, RunOffsets, Zenon DEF Continues
    <2>. HIDE DEF N, o, l, r
    <2>. DEFINE Good(m) == /\ a[m] \in Seq(Records) /\ Begins(c, a[m])
                           /\ Len(a[m]) = IF o + m <= l THEN l ELSE o + m
                           /\ \A i \in 1..m : a[m][o + i] = w[i].record
                S == {m \in Nat : m <= N => Good(m)}
    <2>1. 0 \in S
      <3>1. o + 0 <= l /\ 1..0 = {}
        BY <1>0, <2>0
      <3>2. Good(0)
        BY <1>1, <1>2, <3>1, Zenon DEF l
      <3>. QED  BY <3>2, Zenon
    <2>2. ASSUME NEW m \in Nat, m \in S PROVE m + 1 \in S
      <3>. DEFINE k == m + 1
                  b == a[m]
                  d == a[k]
                  x == w[k].record
      <3>0. k \in Nat
        OBVIOUS
      <3>. SUFFICES ASSUME k <= N PROVE Good(k)
        BY <3>0, Zenon
      <3>1. k \in 1..N /\ k - 1 = m /\ m <= N /\ \A i \in 1..k : i \in 1..m \/ i = k
        BY <1>0
      <3>2. Good(m)
        BY <2>2, <3>1, Zenon
      <3>3. d = Replay(b, w[k]) /\ x \in Records /\ w[k].offset \in Nat /\ w[k].offset + 1 = o + k
        BY <1>1, <2>0, <3>1, Zenon
      <3>4. w[k].offset = o + m
        BY <2>0, <3>3
      <3>5. /\ b \in Seq(Records) /\ Begins(c, b) /\ Len(b) = (IF o + m <= l THEN l ELSE o + m)
            /\ \A i \in 1..m : b[o + i] = w[i].record
        BY <3>2, Zenon
      <3>. HIDE DEF b, d, x
      <3>6. Len(b) \in Nat
        BY <3>5
      <3>7. CASE o + m = Len(b)
        <4>1. d = Append(b, x)
          BY <3>3, <3>4, <3>7, Zenon DEF Replay, x
        <4>2. /\ d \in Seq(Records) /\ Len(d) = (o + m) + 1 /\ d[(o + m) + 1] = x
              /\ \A i \in 1..Len(b) : d[i] = b[i]
          BY <3>3, <3>5, <3>7, <4>1
        <4>3. (o + m) + 1 = o + k /\ l <= o + m /\ ~(o + k <= l)
          BY <1>0, <2>0, <3>5, <3>7
        <4>4. Begins(c, d)
          <5>1. Begins(b, d)
            BY <3>6, <3>7, <4>2 DEF Begins
          <5>. QED  BY <3>5, <4>2, <5>1, BeginsTransitive, Zenon
        <4>5. \A i \in 1..m : o + i \in 1..Len(b)
          BY <2>0, <3>7
        <4>6. ASSUME NEW i \in 1..k PROVE d[o + i] = w[i].record
          <5>1. CASE i \in 1..m
            BY <3>5, <4>2, <4>5, <5>1, Zenon
          <5>2. CASE i = k
            BY <4>2, <4>3, <5>2, Zenon DEF x
          <5>. QED  BY <3>1, <5>1, <5>2, Zenon
        <4>. QED  BY <4>2, <4>3, <4>4, <4>6, Zenon DEF d
      <3>8. CASE o + m # Len(b)
        <4>1. d = b
          BY <3>3, <3>4, <3>8, Zenon DEF Replay
        <4>2. o + m < l /\ Len(b) = l /\ o + k <= l /\ o + k \in 1..l
          BY <1>0, <2>0, <3>5, <3>8
        <4>3. b[o + k] = c[o + k]
          BY <3>5, <4>2, Zenon DEF Begins, l
        <4>4. c[o + k] = x
          <5>1. w[k].offset < l
            BY <3>4, <4>2, Zenon
          <5>. QED  BY <1>0, <3>1, <3>3, <5>1, Zenon DEF Agrees, N, l, x
        <4>5. \A i \in 1..k : d[o + i] = w[i].record
          BY <3>1, <3>5, <4>1, <4>3, <4>4, Zenon DEF x
        <4>. QED  BY <3>5, <4>1, <4>2, <4>5, Zenon DEF d
      <3>. QED  BY <3>7, <3>8, Zenon
    <2>. HIDE DEF S
    <2>3. N \in S
      BY <1>0, <2>1, <2>2, Climb, Zenon
    <2>4. Good(N)
      <3>1. N <= N
        BY <1>0
      <3>. QED  BY <2>3, <3>1, Zenon DEF S
    <2>5. Begins(c, r) /\ Len(r) = (IF End(w) <= Len(c) THEN Len(c) ELSE End(w)) /\ r \in Seq(Records)
      BY <1>1, <2>4, Zenon DEF End, o, N, l
    <2>6. \A i \in 1..N : r[w[i].offset + 1] = w[i].record
      BY <1>1, <2>0, <2>4, Zenon
    <2>. QED  BY <1>4, <2>5, <2>6, Zenon DEF Covers, N, r
  <1>. QED  BY <1>3, <1>4, Zenon

\* There is one sequence only that covers both.
LEMMA CoversUnique ==
    ASSUME NEW c \in Seq(Records), NEW w, Continues(w, c), NEW r, Covers(r, c, w)
    PROVE  r = Replayed(c, w)
  <1>. DEFINE s == Replayed(c, w)
  <1>1. Covers(s, c, w)
    BY ReplayedCovers, Zenon
  <1>. HIDE DEF s
  <1>2. r \in Seq(Records) /\ s \in Seq(Records) /\ Len(r) = Len(s)
    <2>. DEFINE l == IF w = << >> THEN Len(c) ELSE IF End(w) <= Len(c) THEN Len(c) ELSE End(w)
    <2>1. r \in Seq(Records) /\ Len(r) = l
      BY Zenon DEF Covers
    <2>2. s \in Seq(Records) /\ Len(s) = l
      BY <1>1, Zenon DEF Covers
    <2>. HIDE DEF l
    <2>. QED  BY <2>1, <2>2, Zenon
  <1>3. ASSUME NEW i \in 1..Len(r) PROVE r[i] = s[i]
    <2>1. CASE i \in 1..Len(c)
      BY <1>1, <2>1, Zenon DEF Covers, Begins
    <2>2. CASE i \notin 1..Len(c)
      <3>0. w # << >>
        BY <2>2, Zenon DEF Covers
      <3>. DEFINE o == w[1].offset
                  j == i - o
      <3>1. /\ o \in Nat /\ Len(w) \in Nat /\ o <= Len(c)
            /\ \A k \in 1..Len(w) : w[k].offset \in Nat /\ w[k].offset + 1 = o + k
        BY <3>0, RunOffsets, Zenon DEF Continues
      <3>2. Len(r) = IF End(w) <= Len(c) THEN Len(c) ELSE End(w)
        BY <3>0, Zenon DEF Covers
      <3>3. j \in 1..Len(w) /\ o + j = i
        <4>1. End(w) = o + Len(w)
          BY Zenon DEF End
        <4>. HIDE DEF o
        <4>. QED  BY <2>2, <3>1, <3>2, <4>1
      <3>. HIDE DEF j, o
      <3>4. w[j].offset + 1 = i
        BY <3>1, <3>3, Zenon
      <3>. QED  BY <1>1, <3>3, <3>4, Zenon DEF Covers
    <2>. QED  BY <2>1, <2>2, Zenon
  <1>4. r = s
    BY <1>2, <1>3
  <1>. QED  BY <1>4, Zenon DEF s

\* A WAL the content has already adds nothing.
LEMMA ReplayedSame ==
    ASSUME NEW c \in Seq(Records), NEW w, Continues(w, c), w # << >> => End(w) <= Len(c)
    PROVE  Replayed(c, w) = c
  <1>. DEFINE r == Replayed(c, w)
  <1>1. Covers(r, c, w)
    BY ReplayedCovers, Zenon
  <1>. HIDE DEF r
  <1>2. r \in Seq(Records) /\ Len(r) = Len(c) /\ \A i \in 1..Len(c) : r[i] = c[i]
    BY <1>1, Zenon DEF Covers, Begins
  <1>3. r = c
    BY <1>2
  <1>. QED  BY <1>3, Zenon DEF r

\* One with one entry more adds that one.
LEMMA ReplayedOneMore ==
    ASSUME NEW c \in Seq(Records), NEW w, Continues(w, c), w # << >>, End(w) = Len(c) + 1
    PROVE  w[Len(w)].record \in Records /\ Replayed(c, w) = Append(c, w[Len(w)].record)
  <1>. DEFINE r == Replayed(c, w)
              N == Len(w)
              l == Len(c)
              x == w[N].record
  <1>1. Covers(r, c, w)
    BY ReplayedCovers, Zenon
  <1>2. /\ N \in Nat /\ N # 0 /\ w[1].offset \in Nat
        /\ \A i \in 1..N : w[i].record \in Records /\ w[i].offset + 1 = w[1].offset + i
    BY RunOffsets, Zenon DEF Continues
  <1>3. N \in 1..N /\ l \in Nat /\ ~(l + 1 <= l)
    BY <1>2
  <1>4. x \in Records /\ w[N].offset + 1 = l + 1
    BY <1>2, <1>3, Zenon DEF End
  <1>. HIDE DEF r
  <1>5. /\ r \in Seq(Records) /\ Len(r) = l + 1 /\ \A i \in 1..l : r[i] = c[i]
        /\ r[l + 1] = x
    BY <1>1, <1>3, <1>4, Zenon DEF Covers, Begins
  <1>. HIDE DEF x
  <1>6. r = Append(c, x)
    BY <1>4, <1>5
  <1>. QED  BY <1>4, <1>6, Zenon DEF r, x

\* The entry that continues the content, stored, leaves less to replay.
LEMMA CoversStored ==
    ASSUME NEW c \in Seq(Records), NEW w, Continues(w, c), NEW k \in 1..Len(w),
           w[k].offset = Len(c)
    PROVE  LET d == Append(c, w[k].record)
           IN  Continues(w, d) /\ Replayed(d, w) = Replayed(c, w)
  <1>. DEFINE x == w[k].record
              d == Append(c, x)
              r == Replayed(c, w)
              o == w[1].offset
              N == Len(w)
              l == Len(c)
  <1>0. w # << >> /\ w \in Seq(Entries) /\ Consecutive(w) /\ Agrees(w, c) /\ o <= l
    BY DEF Continues
  <1>1. /\ N \in Nat /\ N # 0 /\ o \in Nat /\ l \in Nat
        /\ \A i \in 1..N : w[i].offset \in Nat /\ w[i].record \in Records /\ w[i].offset + 1 = o + i
    <2>1. l \in Nat
      OBVIOUS
    <2>. QED  BY <1>0, <2>1, RunOffsets, Zenon
  <1>2. Covers(r, c, w)
    BY ReplayedCovers, Zenon
  <1>3. x \in Records /\ l + 1 = o + k
    BY <1>1, Zenon
  <1>4. /\ d \in Seq(Records) /\ Len(d) = l + 1 /\ d[l + 1] = x
        /\ \A i \in 1..l : d[i] = c[i]
    BY <1>3
  <1>5. Continues(w, d)
    <2>1. ASSUME NEW i \in 1..N, w[i].offset < l + 1 PROVE d[w[i].offset + 1] = w[i].record
      <3>1. CASE w[i].offset < l
        <4>1. c[w[i].offset + 1] = w[i].record
          BY <1>0, <3>1, Zenon DEF Agrees
        <4>2. w[i].offset + 1 \in 1..l
          BY <1>1, <3>1
        <4>. QED  BY <1>4, <4>1, <4>2, Zenon
      <3>2. CASE ~(w[i].offset < l)
        <4>1. w[i].offset \in Nat /\ w[i].offset + 1 = o + i
          BY <1>1, Zenon
        <4>. DEFINE q == w[i].offset
        <4>2. q = l /\ i = k
          <5>1. q \in Nat /\ q + 1 = o + i /\ q < l + 1 /\ ~(q < l)
            BY <2>1, <3>2, <4>1, Zenon
          <5>. HIDE DEF q, o, l
          <5>. QED  BY <1>1, <1>3, <5>1
        <4>. QED  BY <1>4, <4>2, Zenon
      <3>. QED  BY <3>1, <3>2, Zenon
    <2>2. o <= l + 1
      BY <1>0, <1>1
    <2>. HIDE DEF d
    <2>. QED  BY <1>0, <1>4, <2>1, <2>2, Zenon DEF Continues, Agrees
  <1>. HIDE DEF d, r
  <1>6. Covers(r, d, w)
    <2>1. End(w) \in Nat /\ l + 1 <= End(w)
      <3>1. End(w) = o + N
        BY Zenon DEF End
      <3>. QED  BY <1>1, <1>3, <3>1
    <2>2. ~(End(w) <= l)
      BY <1>1, <2>1
    <2>3. Len(r) = End(w) /\ r \in Seq(Records) /\ Begins(c, r)
          /\ \A i \in 1..N : r[w[i].offset + 1] = w[i].record
      BY <1>0, <1>2, <2>2, Zenon DEF Covers
    <2>4. r[l + 1] = x
      BY <2>3, Zenon
    <2>5. Begins(d, r)
      <3>1. \A i \in 1..(l + 1) : i \in 1..l \/ i = l + 1
        BY <1>1
      <3>2. \A i \in 1..(l + 1) : d[i] = r[i]
        BY <1>4, <2>3, <2>4, <3>1, Zenon DEF Begins
      <3>. QED  BY <1>4, <2>1, <2>3, <3>2, Zenon DEF Begins
    <2>6. End(w) = IF End(w) <= Len(d) THEN Len(d) ELSE End(w)
      BY <1>1, <1>4, <2>1
    <2>. QED  BY <1>0, <2>3, <2>5, <2>6, Zenon DEF Covers
  <1>7. r = Replayed(d, w)
    BY <1>4, <1>5, <1>6, CoversUnique, Zenon
  <1>. QED  BY <1>5, <1>7, Zenon DEF r, d

\* The first m records.
LEMMA FirstRecords ==
    ASSUME NEW c \in Seq(Records), NEW m \in 0..Len(c)
    PROVE  /\ SubSeq(c, 1, m) \in Seq(Records) /\ Len(SubSeq(c, 1, m)) = m
           /\ \A i \in 1..m : SubSeq(c, 1, m)[i] = c[i]
           /\ m \in Nat /\ Len(c) \in Nat /\ m <= Len(c)
  OBVIOUS

\* What a WAL agrees with, it agrees with the first records of.
LEMMA ContinuesCut ==
    ASSUME NEW c \in Seq(Records), NEW m \in 0..Len(c), NEW w \in Seq(Entries), Consecutive(w),
           Agrees(w, c), w # << >> => w[1].offset <= m
    PROVE  Continues(w, SubSeq(c, 1, m))
  <1>. DEFINE d == SubSeq(c, 1, m)
  <1>1. /\ d \in Seq(Records) /\ Len(d) = m /\ \A i \in 1..m : d[i] = c[i]
        /\ m \in Nat /\ Len(c) \in Nat /\ m <= Len(c)
    BY FirstRecords, Zenon
  <1>. HIDE DEF d
  <1>2. ASSUME NEW i \in 1..Len(w), w[i].offset < m PROVE d[w[i].offset + 1] = w[i].record
    <2>1. w[i] \in Entries
      OBVIOUS
    <2>2. w[i].offset \in Nat
      BY <2>1 DEF Entries
    <2>3. w[i].offset < Len(c) /\ w[i].offset + 1 \in 1..m
      BY <1>1, <1>2, <2>2
    <2>. QED  BY <1>1, <2>3, Zenon DEF Agrees
  <1>3. Agrees(w, d)
    BY <1>1, <1>2, Zenon DEF Agrees
  <1>. QED  BY <1>1, <1>3, Zenon DEF Continues, d

\* A record that the WAL has too can be lost.
LEMMA CoversCut ==
    ASSUME NEW c \in Seq(Records), NEW m \in 0..Len(c), NEW w, Continues(w, c),
           w # << >> => w[1].offset <= m,
           m # Len(c) => w # << >> /\ Len(c) <= End(w)
    PROVE  Continues(w, SubSeq(c, 1, m)) /\ Replayed(SubSeq(c, 1, m), w) = Replayed(c, w)
  <1>. DEFINE d == SubSeq(c, 1, m)
              r == Replayed(c, w)
  <1>1. /\ d \in Seq(Records) /\ Len(d) = m /\ \A i \in 1..m : d[i] = c[i]
        /\ m \in Nat /\ Len(c) \in Nat /\ m <= Len(c)
    BY FirstRecords, Zenon
  <1>2. Continues(w, d)
    BY ContinuesCut, Zenon DEF Continues
  <1>3. Covers(r, c, w)
    BY ReplayedCovers, Zenon
  <1>. HIDE DEF d, r
  <1>4. CASE m = Len(c)
    <2>1. d = c
      BY <1>1, <1>4
    <2>. QED  BY <1>2, <2>1, Zenon DEF d, r
  <1>5. CASE m # Len(c)
    <2>1. w # << >> /\ Len(c) <= End(w) /\ w \in Seq(Entries) /\ Consecutive(w)
      BY <1>5, Zenon DEF Continues
    <2>2. End(w) \in Nat
      BY <2>1, RunOffsets, Zenon
    <2>3. /\ r \in Seq(Records) /\ Begins(c, r)
          /\ Len(r) = (IF End(w) <= Len(c) THEN Len(c) ELSE End(w))
          /\ \A i \in 1..Len(w) : r[w[i].offset + 1] = w[i].record
      BY <1>3, <2>1, Zenon DEF Covers
    <2>4. Begins(d, r)
      <3>1. Begins(d, c)
        BY <1>1, Zenon DEF Begins
      <3>. QED  BY <1>1, <2>3, <3>1, BeginsTransitive, Zenon
    <2>5. Len(r) = IF End(w) <= Len(d) THEN Len(d) ELSE End(w)
      BY <1>1, <1>5, <2>1, <2>2, <2>3
    <2>6. Covers(r, d, w)
      BY <2>1, <2>3, <2>4, <2>5, Zenon DEF Covers
    <2>7. r = Replayed(d, w)
      BY <1>1, <1>2, <2>6, CoversUnique, Zenon
    <2>. QED  BY <1>2, <2>7, Zenon DEF d, r
  <1>. QED  BY <1>4, <1>5, Zenon

\* The entries recover_wal has passed add nothing more.
LEMMA ReplayedRest ==
    ASSUME NEW c \in Seq(Records), NEW w, Continues(w, c), w # << >>,
           NEW k \in 1..(Len(w) + 1), w[1].offset + k <= Len(c) + 1
    PROVE  Replayed(c, SubSeq(w, k, Len(w))) = Replayed(c, w)
  <1>. DEFINE N == Len(w)
              o == w[1].offset
              l == Len(c)
              v == SubSeq(w, k, N)
              r == Replayed(c, v)
  <1>0. w \in Seq(Entries) /\ Consecutive(w) /\ Agrees(w, c) /\ l \in Nat
    BY DEF Continues
  <1>1. /\ N \in Nat /\ N # 0 /\ o \in Nat /\ End(w) = o + N
        /\ \A i \in 1..N : w[i].offset \in Nat /\ w[i].record \in Records /\ w[i].offset + 1 = o + i
    BY <1>0, RunOffsets, Zenon DEF End
  <1>2. k \in Nat /\ k # 0 /\ k <= N + 1
    BY <1>1
  <1>. HIDE DEF o, l
  <1>3. /\ v \in Seq(Entries) /\ Len(v) = (N + 1) - k
        /\ \A i \in 1..((N + 1) - k) : v[i] = w[(k + i) - 1]
    BY <1>0, <1>1, <1>2
  <1>4. \A i \in 1..((N + 1) - k) : (k + i) - 1 \in 1..N
    BY <1>1, <1>2
  <1>5. o + k <= l + 1
    BY Zenon DEF o, l
  <1>6. ASSUME NEW i \in 1..Len(v)
        PROVE  v[i].offset \in Nat /\ v[i].offset + 1 = o + ((k + i) - 1) /\ v[i] = w[(k + i) - 1]
    BY <1>1, <1>3, <1>4, Zenon
  <1>7. Continues(v, c)
    <2>1. Agrees(v, c)
      BY <1>0, <1>3, <1>4, Zenon DEF Agrees
    <2>2. CASE v = << >>
      <3>1. Len(v) = 0 /\ 1..0 = {}
        <4>. HIDE DEF v
        <4>. QED  BY <2>2
      <3>. QED  BY <1>3, <2>1, <2>2, <3>1, Zenon DEF Continues, Consecutive
    <2>3. CASE v # << >>
      <3>. HIDE DEF v
      <3>1. 1 \in 1..Len(v)
        BY <1>3, <2>3
      <3>. DEFINE f == v[1].offset
      <3>2. f \in Nat /\ f + 1 = o + ((k + 1) - 1)
        BY <1>6, <3>1, Zenon
      <3>. HIDE DEF f
      <3>3. f + 1 = o + k /\ f <= l
        BY <1>0, <1>1, <1>2, <1>5, <3>2
      <3>4. ASSUME NEW i \in 1..Len(v) PROVE v[i].offset + 1 = f + i
        <4>1. o + ((k + i) - 1) = f + i
          BY <1>1, <1>2, <1>3, <3>2, <3>3
        <4>. QED  BY <1>6, <4>1, Zenon
      <3>5. Consecutive(v) /\ v[1].offset <= Len(c)
        BY <3>3, <3>4, Zenon DEF Consecutive, f, l
      <3>. QED  BY <1>3, <2>1, <3>5, Zenon DEF Continues
    <2>. QED  BY <2>2, <2>3, Zenon
  <1>8. Covers(r, c, v)
    <2>. HIDE DEF v
    <2>. QED  BY <1>7, ReplayedCovers, Zenon
  <1>. HIDE DEF r, v
  <1>9. r \in Seq(Records) /\ Begins(c, r)
    BY <1>8, Zenon DEF Covers
  <1>10. Len(r) = IF End(w) <= l THEN l ELSE End(w)
    <2>1. CASE v = << >>
      <3>1. Len(v) = 0
        BY <2>1
      <3>2. End(w) <= l
        BY <1>0, <1>1, <1>2, <1>3, <1>5, <3>1
      <3>3. Len(r) = l
        BY <1>8, <2>1, Zenon DEF Covers, l
      <3>. QED  BY <3>2, <3>3, Zenon
    <2>2. CASE v # << >>
      <3>1. 1 \in 1..Len(v)
        BY <1>3, <2>2
      <3>. DEFINE f == v[1].offset
      <3>2. f \in Nat /\ f + 1 = o + ((k + 1) - 1)
        BY <1>6, <3>1, Zenon
      <3>3. End(v) = f + Len(v)
        BY Zenon DEF End
      <3>. HIDE DEF f
      <3>4. End(v) = End(w)
        <4>1. f + ((N + 1) - k) = o + N
          <5>. HIDE DEF N
          <5>. QED  BY <1>1, <1>2, <3>2
        <4>. QED  BY <1>1, <1>3, <3>3, <4>1, Zenon
      <3>. QED  BY <1>8, <2>2, <3>4, Zenon DEF Covers, l
    <2>. QED  BY <2>1, <2>2, Zenon
  <1>11. ASSUME NEW i \in 1..N PROVE r[w[i].offset + 1] = w[i].record
    <2>0. w[i].offset \in Nat /\ w[i].offset + 1 = o + i
      BY <1>1, Zenon
    <2>1. CASE i < k
      <3>. DEFINE q == w[i].offset
      <3>1. q < l /\ q + 1 \in 1..l
        <4>. HIDE DEF q
        <4>1. q \in Nat /\ q + 1 = o + i
          BY <2>0, Zenon DEF q
        <4>. QED  BY <1>0, <1>1, <1>2, <1>5, <2>1, <4>1
      <3>2. c[q + 1] = w[i].record
        BY <1>0, <3>1, Zenon DEF Agrees, l
      <3>. QED  BY <1>9, <3>1, <3>2, Zenon DEF Begins, l
    <2>2. CASE ~(i < k)
      <3>. DEFINE j == (i + 1) - k
      <3>1. j \in 1..((N + 1) - k) /\ (k + j) - 1 = i
        BY <1>1, <1>2, <2>2
      <3>. HIDE DEF j
      <3>2. j \in 1..Len(v) /\ v[j] = w[i]
        BY <1>3, <3>1, Zenon
      <3>. QED  BY <1>8, <3>2, Zenon DEF Covers
    <2>. QED  BY <2>1, <2>2, Zenon
  <1>12. Covers(r, c, w)
    BY <1>9, <1>10, <1>11, Zenon DEF Covers, l
  <1>13. r = Replayed(c, w)
    BY <1>12, CoversUnique, Zenon
  <1>. QED  BY <1>13, Zenon DEF r, v

\* After a power loss there is no record that was not there, and none out of
\* place.
LEMMA LossBegins ==
    ASSUME NEW c \in Seq(Records), NEW m \in 0..Len(c), NEW w, Continues(w, c),
           NEW v, Continues(v, SubSeq(c, 1, m)),
           v # << >> => Begins(v, w) \/ End(v) <= m
    PROVE  Begins(Replayed(SubSeq(c, 1, m), v), Replayed(c, w))
  <1>. DEFINE d == SubSeq(c, 1, m)
              r == Replayed(d, v)
              t == Replayed(c, w)
  <1>1. /\ d \in Seq(Records) /\ Len(d) = m /\ \A i \in 1..m : d[i] = c[i]
        /\ m \in Nat /\ Len(c) \in Nat /\ m <= Len(c)
    BY FirstRecords, Zenon
  <1>2. Covers(t, c, w)
    BY ReplayedCovers, Zenon
  <1>3. Covers(r, d, v)
    <2>. HIDE DEF d
    <2>. QED  BY <1>1, ReplayedCovers, Zenon DEF d
  <1>. HIDE DEF d, r, t
  <1>4. Begins(d, t) /\ t \in Seq(Records) /\ r \in Seq(Records)
    <2>1. Begins(d, c) /\ t \in Seq(Records) /\ Begins(c, t) /\ r \in Seq(Records)
      BY <1>1, <1>2, <1>3, Zenon DEF Begins, Covers
    <2>. QED  BY <1>1, <2>1, BeginsTransitive, Zenon
  <1>5. CASE v = << >> \/ End(v) <= m
    <2>1. Len(r) = Len(d) /\ \A i \in 1..Len(d) : r[i] = d[i]
      BY <1>1, <1>3, <1>5, Zenon DEF Covers, Begins
    <2>2. r = d
      BY <1>1, <1>4, <2>1
    <2>. QED  BY <1>4, <2>2, Zenon DEF r, d, t
  <1>6. CASE v # << >> /\ ~(End(v) <= m)
    <2>1. Begins(v, w) /\ v \in Seq(Entries) /\ Consecutive(v) /\ v[1].offset <= m
      BY <1>1, <1>6, Zenon DEF Continues, d
    <2>2. w \in Seq(Entries) /\ Consecutive(w) /\ w # << >>
      <3>1. w \in Seq(Entries) /\ Consecutive(w)
        BY Zenon DEF Continues
      <3>2. Len(v) # 0 /\ Len(v) \in Nat
        BY <1>6, <2>1
      <3>3. Len(v) <= Len(w)
        BY <2>1, Zenon DEF Begins
      <3>4. w # << >>
        BY <3>2, <3>3
      <3>. QED  BY <3>1, <3>4, Zenon
    <2>. DEFINE o == v[1].offset
                N == Len(v)
    <2>3. /\ o \in Nat /\ N \in Nat /\ N # 0
          /\ \A i \in 1..N : v[i].offset \in Nat /\ v[i].offset + 1 = o + i
      BY <1>6, <2>1, RunOffsets, Zenon
    <2>4. End(w) \in Nat /\ Len(w) \in Nat
      BY <2>2, RunOffsets, Zenon
    <2>5. \A i \in 1..N : i \in 1..Len(w) /\ v[i] = w[i]
      <3>1. N <= Len(w)
        BY <2>1, Zenon DEF Begins
      <3>2. \A i \in 1..N : i \in 1..Len(w)
        BY <2>3, <2>4, <3>1
      <3>. QED  BY <2>1, <3>2, Zenon DEF Begins
    <2>6. End(v) = o + N /\ End(w) = o + Len(w) /\ N <= Len(w)
      <3>1. 1 \in 1..N
        BY <2>3
      <3>. QED  BY <2>1, <2>5, <3>1, Zenon DEF End, Begins
    <2>7. Len(r) = End(v)
      BY <1>1, <1>3, <1>6, Zenon DEF Covers
    <2>8. Len(t) = IF End(w) <= Len(c) THEN Len(c) ELSE End(w)
      BY <1>2, <2>2, Zenon DEF Covers
    <2>. HIDE DEF o, N
    <2>9. Len(r) <= Len(t)
      BY <1>1, <2>3, <2>4, <2>6, <2>7, <2>8
    <2>10. ASSUME NEW i \in 1..Len(r) PROVE r[i] = t[i]
      <3>1. CASE i \in 1..m
        BY <1>1, <1>3, <1>4, <3>1, Zenon DEF Covers, Begins
      <3>2. CASE i \notin 1..m
        <4>. DEFINE j == i - o
        <4>1. j \in 1..N /\ o + j = i
          <5>1. o <= m
            BY <2>1, Zenon DEF o
          <5>. QED  BY <1>1, <2>3, <2>6, <2>7, <3>2, <5>1
        <4>. HIDE DEF j
        <4>2. v[j].offset + 1 = i /\ v[j] = w[j] /\ j \in 1..Len(w)
          BY <2>3, <2>5, <4>1, Zenon
        <4>3. r[i] = v[j].record
          BY <1>3, <4>1, <4>2, Zenon DEF Covers, N
        <4>4. t[i] = w[j].record
          BY <1>2, <4>2, Zenon DEF Covers
        <4>. QED  BY <4>2, <4>3, <4>4, Zenon
      <3>. QED  BY <3>1, <3>2, Zenon
    <2>11. Begins(r, t)
      BY <2>9, <2>10, Zenon DEF Begins
    <2>. QED  BY <2>11, Zenon DEF r, d, t
  <1>. QED  BY <1>5, <1>6, Zenon

OneFile == Len(file) <= 1

\* The records of the segment, and how many of them are on stable storage.
Whole == FlattenSeq(file)
OnDisk == IF file = << >> THEN 0 ELSE stable[1]

\* The WAL begins on stable storage, has no gap, and has every record that is
\* still in the buffer.
WalInv ==
    /\ Consecutive(wal) /\ Agrees(wal, Whole)
    /\ wal # << >> => wal[1].offset <= OnDisk
    /\ wal = << >> => OnDisk = Len(Whole)
    /\ unflushed # {} => wal # << >> /\ Len(Whole) <= End(wal)

\* The WAL a power loss may bring back is the beginning of the one in use, or
\* one that the segment has on stable storage.
StableWalInv ==
    /\ Consecutive(wal_stable) /\ Agrees(wal_stable, Whole)
    /\ wal_stable # << >> => Begins(wal_stable, wal) \/ End(wal_stable) <= OnDisk

\* How far the WAL goes between the writes of a call.
CallInv ==
    /\ pc \in {"ready", "stored", "sync_wal"} /\ wal # << >> => End(wal) = Len(Whole)
    /\ pc \in {"sync_segments", "clear_wal"} /\ wal # << >> => End(wal) <= Len(Whole)
    /\ pc = "logged" => /\ wal # << >> /\ End(wal) = Len(Whole) + 1
                        /\ current = {<<Len(Whole), wal[Len(wal)].record>>}
    /\ pc = "replay" => wal # << >> /\ wal[1].offset + cursor <= Len(Whole) + 1
    /\ pc = "clear_wal" => unflushed = {}
    /\ pc # "logged" => \A c \in current : c[1] < Len(Whole) /\ Whole[c[1] + 1] = c[2]

OneInv == WalInv /\ StableWalInv /\ CallInv

\* One file is the whole log.
LEMMA FlattenOne ==
    ASSUME NEW R, NEW s \in Seq(Seq(R)), Len(s) = 1
    PROVE  FlattenSeq(s) = s[1] /\ s[1] \in Seq(R)
  <1>1. s[1] \in Seq(R) /\ s = Append(<< >>, s[1]) /\ << >> \in Seq(Seq(R))
    OBVIOUS
  <1>. DEFINE x == s[1]
  <1>. HIDE DEF x
  <1>2. FlattenSeq(Append(<< >>, x)) = FlattenSeq(<< >>) \o x
    BY <1>1, FlattenAppend, Zenon DEF x
  <1>3. \A y \in Seq(R) : << >> \o y = y
    OBVIOUS
  <1>. QED  BY <1>1, <1>2, <1>3, FlattenNone, Zenon DEF x

\* What the log of one segment is made of.
LEMMA OneFileFacts ==
    ASSUME StoreInv, OneFile
    PROVE  /\ Whole \in Seq(Records) /\ Len(Whole) \in Nat /\ OnDisk \in Nat /\ OnDisk <= Len(Whole)
           /\ wal \in Seq(Entries) /\ wal_stable \in Seq(Entries) /\ file \in Seq(Seq(Records))
           /\ unflushed \subseteq {1}
           /\ file = << >> => Whole = << >> /\ OnDisk = 0 /\ unflushed = {}
           /\ file # << >> => /\ Len(file) = 1 /\ file[1] = Whole /\ OnDisk = stable[1]
                              /\ Written(1) \in Nat /\ OnDisk <= Written(1)
                              /\ Written(1) <= Len(Whole)
                              /\ unflushed = {} => Written(1) = Len(Whole)
  <1>0. StoreTypes /\ StableInv
    BY Zenon DEF StoreInv
  <1>1. /\ file \in Seq(Seq(Records)) /\ unflushed \subseteq 1..Len(file)
        /\ wal \in Seq(Entries) /\ wal_stable \in Seq(Entries)
    BY <1>0, Zenon DEF StoreTypes
  <1>2. CASE file = << >>
    <2>1. Whole = << >> /\ OnDisk = 0
      BY <1>2, FlattenNone, Zenon DEF Whole, OnDisk
    <2>2. 1..Len(file) = {}
      BY <1>2
    <2>3. << >> \in Seq(Records) /\ Len(<< >>) = 0 /\ 0 \in Nat /\ 0 <= 0
      OBVIOUS
    <2>. QED  BY <1>1, <1>2, <2>1, <2>2, <2>3, Zenon
  <1>3. CASE file # << >>
    <2>1. Len(file) = 1 /\ 1 \in 1..Len(file) /\ 1..Len(file) = {1}
      <3>1. Len(file) \in Nat /\ Len(file) # 0
        BY <1>1, <1>3
      <3>2. \A l \in Nat : l # 0 /\ l <= 1 => l = 1
        OBVIOUS
      <3>3. Len(file) = 1
        BY <3>1, <3>2, Zenon DEF OneFile
      <3>. QED  BY <3>3
    <2>2. file[1] = Whole /\ Whole \in Seq(Records)
      BY <1>1, <2>1, FlattenOne, Zenon DEF Whole
    <2>3. OnDisk = stable[1]
      BY <1>3, Zenon DEF OnDisk
    <2>4. /\ Len(file[1]) \in Nat /\ stable[1] \in Nat /\ Written(1) \in Nat
          /\ stable[1] <= Written(1) /\ Written(1) <= Len(file[1])
          /\ 1 \notin unflushed => Written(1) = Len(file[1])
      BY <1>0, <2>1, FileTypes, Zenon
    <2>5. stable[1] <= Len(file[1])
      BY <2>4
    <2>6. unflushed \subseteq {1}
      BY <1>1, <2>1, Zenon
    <2>. QED  BY <1>1, <1>3, <2>1, <2>2, <2>3, <2>4, <2>5, <2>6, Zenon
  <1>. QED  BY <1>2, <1>3, Zenon

\* Both WALs continue the segment, or what a crash leaves of it.
LEMMA WalContinues ==
    ASSUME StoreInv, OneFile, WalInv, StableWalInv, NEW m \in OnDisk..Len(Whole)
    PROVE  /\ m \in 0..Len(Whole) /\ m \in Nat /\ OnDisk <= m
           /\ Continues(wal, SubSeq(Whole, 1, m)) /\ Continues(wal_stable, SubSeq(Whole, 1, m))
           /\ Continues(wal, Whole)
           /\ wal # << >> => wal[1].offset <= m
  <1>0. /\ Whole \in Seq(Records) /\ Len(Whole) \in Nat /\ OnDisk \in Nat /\ OnDisk <= Len(Whole)
        /\ wal \in Seq(Entries) /\ wal_stable \in Seq(Entries)
    BY OneFileFacts, Zenon
  <1>1. m \in 0..Len(Whole) /\ m \in Nat /\ OnDisk <= m /\ m <= Len(Whole)
    BY <1>0
  <1>2. \A x \in Nat : x <= OnDisk => x <= m /\ x <= Len(Whole)
    BY <1>0, <1>1
  <1>3. wal # << >> => wal[1].offset <= m /\ wal[1].offset <= Len(Whole)
    <2>. SUFFICES ASSUME wal # << >> PROVE wal[1].offset <= m /\ wal[1].offset <= Len(Whole)
      BY Zenon
    <2>1. wal[1].offset \in Nat
      BY <1>0, RunOffsets, Zenon DEF WalInv
    <2>. QED  BY <1>2, <2>1, Zenon DEF WalInv
  <1>4. wal_stable # << >> => wal_stable[1].offset <= m
    <2>. SUFFICES ASSUME wal_stable # << >> PROVE wal_stable[1].offset <= m
      BY Zenon
    <2>1. /\ wal_stable[1].offset \in Nat /\ Len(wal_stable) \in Nat /\ Len(wal_stable) # 0
          /\ End(wal_stable) \in Nat
      BY <1>0, RunOffsets, Zenon DEF StableWalInv
    <2>2. CASE Begins(wal_stable, wal)
      <3>1. 1 \in 1..Len(wal_stable) /\ Len(wal_stable) <= Len(wal)
        BY <2>1, <2>2 DEF Begins
      <3>2. wal_stable[1] = wal[1]
        BY <2>2, <3>1, Zenon DEF Begins
      <3>3. wal # << >>
        <4>1. Len(wal) # 0
          BY <1>0, <2>1, <3>1
        <4>. QED  BY <4>1
      <3>. QED  BY <1>3, <3>2, <3>3, Zenon
    <2>3. CASE End(wal_stable) <= OnDisk
      <3>. DEFINE x == wal_stable[1].offset
                  y == End(wal_stable)
                  l == Len(wal_stable)
      <3>1. y = x + l
        BY Zenon DEF End
      <3>. HIDE DEF x, y, l
      <3>2. x \in Nat /\ l \in Nat /\ y <= OnDisk
        BY <2>1, <2>3, Zenon DEF x, y, l
      <3>3. x <= m
        BY <1>0, <1>1, <3>1, <3>2
      <3>. QED  BY <3>3, Zenon DEF x
    <2>. QED  BY <2>2, <2>3, Zenon DEF StableWalInv
  <1>5. Continues(wal, SubSeq(Whole, 1, m))
    BY <1>0, <1>1, <1>3, ContinuesCut, Zenon DEF WalInv
  <1>6. Continues(wal_stable, SubSeq(Whole, 1, m))
    BY <1>0, <1>1, <1>4, ContinuesCut, Zenon DEF StableWalInv
  <1>7. Continues(wal, Whole)
    BY <1>0, <1>3, Zenon DEF Continues, WalInv
  <1>. QED  BY <1>1, <1>3, <1>5, <1>6, <1>7, Zenon

\* A WAL begins itself.
LEMMA BeginsItself ==
    ASSUME NEW R, NEW w \in Seq(R)
    PROVE  Begins(w, w)
  BY DEF Begins

\* The steps that neither store a record nor change the WAL.
LEMMA WalSame ==
    ASSUME StoreInv, OneFile, OneInv, Whole' = Whole, wal' = wal,
           wal_stable' = wal_stable \/ wal_stable' = wal, unflushed' \subseteq unflushed,
           OnDisk' \in OnDisk..Len(Whole)
    PROVE  WalInv' /\ StableWalInv'
  <1>0. /\ Whole \in Seq(Records) /\ Len(Whole) \in Nat /\ OnDisk \in Nat /\ OnDisk <= Len(Whole)
        /\ wal \in Seq(Entries) /\ wal_stable \in Seq(Entries)
    BY OneFileFacts, Zenon
  <1>1. OnDisk' \in Nat /\ OnDisk <= OnDisk' /\ OnDisk' <= Len(Whole)
    BY <1>0
  <1>2. \A x \in Nat : x <= OnDisk => x <= OnDisk'
    BY <1>0, <1>1
  <1>3. OnDisk = Len(Whole) => OnDisk' = Len(Whole)
    BY <1>0, <1>1
  <1>4. WalInv'
    <2>1. wal # << >> => wal[1].offset <= OnDisk'
      <3>. SUFFICES ASSUME wal # << >> PROVE wal[1].offset <= OnDisk'
        BY Zenon
      <3>1. wal[1].offset \in Nat
        BY <1>0, RunOffsets, Zenon DEF OneInv, WalInv
      <3>. QED  BY <1>2, <3>1, Zenon DEF OneInv, WalInv
    <2>2. unflushed' # {} => unflushed # {}
      BY Zenon
    <2>. QED  BY <1>3, <2>1, <2>2, Zenon DEF OneInv, WalInv
  <1>5. CASE wal_stable' = wal_stable
    <2>1. wal_stable # << >> /\ End(wal_stable) <= OnDisk => End(wal_stable) <= OnDisk'
      <3>. SUFFICES ASSUME wal_stable # << >>, End(wal_stable) <= OnDisk
                    PROVE  End(wal_stable) <= OnDisk'
        BY Zenon
      <3>1. End(wal_stable) \in Nat
        BY <1>0, RunOffsets, Zenon DEF OneInv, StableWalInv
      <3>. QED  BY <1>2, <3>1, Zenon
    <2>. QED  BY <1>4, <1>5, <2>1, Zenon DEF OneInv, StableWalInv
  <1>6. CASE wal_stable' = wal
    BY <1>0, <1>4, <1>6, BeginsItself, Zenon DEF StableWalInv, WalInv
  <1>. QED  BY <1>4, <1>5, <1>6, Zenon

\* The WAL's entry for the end of the segment is stored.
LEMMA WalStore ==
    ASSUME StoreInv, OneFile, OneInv, NEW k \in 1..Len(wal), wal[k].offset = Len(Whole),
           Whole' = Append(Whole, wal[k].record), OnDisk' = OnDisk, wal' = wal,
           wal_stable' = wal_stable
    PROVE  WalInv' /\ StableWalInv' /\ Len(Whole') = Len(Whole) + 1
  <1>. DEFINE l == Len(Whole)
              r == wal[k].record
              d == Append(Whole, r)
  <1>0. /\ Whole \in Seq(Records) /\ l \in Nat /\ OnDisk \in Nat /\ OnDisk <= l
        /\ wal \in Seq(Entries) /\ wal_stable \in Seq(Entries)
    BY OneFileFacts, Zenon
  <1>1. l \in OnDisk..l
    BY <1>0
  <1>2. Continues(wal, Whole)
    BY <1>1, WalContinues, Zenon DEF OneInv
  <1>3. Continues(wal, d)
    BY <1>0, <1>2, CoversStored, Zenon
  <1>4. Consecutive(wal) /\ Agrees(wal, d)
    BY <1>3, Zenon DEF Continues
  <1>5. wal # << >> /\ Len(wal) \in Nat
    BY <1>0
  <1>6. /\ wal[1].offset \in Nat /\ End(wal) \in Nat /\ l + 1 = wal[1].offset + k
    <2>1. /\ wal[1].offset \in Nat /\ End(wal) \in Nat
          /\ \A i \in 1..Len(wal) : wal[i].offset + 1 = wal[1].offset + i
      BY <1>0, <1>4, <1>5, RunOffsets, Zenon
    <2>. QED  BY <2>1, Zenon
  <1>7. l + 1 <= End(wal)
    <2>. DEFINE o == wal[1].offset
    <2>1. End(wal) = o + Len(wal)
      BY Zenon DEF End
    <2>. HIDE DEF o, l
    <2>2. l \in Nat /\ o \in Nat /\ l + 1 = o + k
      BY <1>0, <1>6, Zenon DEF o, l
    <2>. QED  BY <1>5, <2>1, <2>2
  <1>8. r \in Records
    BY <1>0, <1>4, <1>5, RunOffsets, Zenon
  <1>. HIDE DEF r
  <1>9. /\ d \in Seq(Records) /\ Len(d) = l + 1 /\ \A i \in 1..l : d[i] = Whole[i]
    BY <1>0, <1>8
  <1>10. WalInv'
    BY <1>4, <1>5, <1>7, <1>9, Zenon DEF OneInv, WalInv, r
  <1>11. Agrees(wal_stable, d)
    <2>. SUFFICES ASSUME NEW i \in 1..Len(wal_stable), wal_stable[i].offset < Len(d)
                  PROVE  d[wal_stable[i].offset + 1] = wal_stable[i].record
      BY Zenon DEF Agrees
    <2>0. wal_stable # << >> /\ Len(wal_stable) \in Nat
      BY <1>0
    <2>1. CASE Begins(wal_stable, wal)
      <3>1. i \in 1..Len(wal)
        BY <1>5, <2>0, <2>1 DEF Begins
      <3>2. wal_stable[i] = wal[i]
        BY <2>1, Zenon DEF Begins
      <3>. QED  BY <1>4, <3>1, <3>2, Zenon DEF Agrees
    <2>2. CASE End(wal_stable) <= OnDisk
      <3>. DEFINE o == wal_stable[1].offset
                  x == wal_stable[i].offset
                  e == End(wal_stable)
      <3>1. o \in Nat /\ x \in Nat /\ x + 1 = o + i /\ e = o + Len(wal_stable)
        BY <1>0, <2>0, RunOffsets, Zenon DEF OneInv, StableWalInv, End
      <3>2. e <= OnDisk
        BY <2>2
      <3>. HIDE DEF o, x, e, l
      <3>3. x < l /\ x + 1 \in 1..l
        BY <1>0, <2>0, <3>1, <3>2 DEF l
      <3>4. Whole[x + 1] = wal_stable[i].record
        BY <3>3, Zenon DEF OneInv, StableWalInv, Agrees, x, l
      <3>. QED  BY <1>9, <3>3, <3>4, Zenon DEF x
    <2>. QED  BY <2>0, <2>1, <2>2, Zenon DEF OneInv, StableWalInv
  <1>12. StableWalInv'
    BY <1>11, Zenon DEF OneInv, StableWalInv, r
  <1>. QED  BY <1>9, <1>10, <1>12, Zenon DEF r

\* write_wal logs the record of the next offset.
LEMMA WalWrite ==
    ASSUME StoreInv, OneFile, OneInv, pc = "ready", NEW r \in Records, Whole' = Whole,
           OnDisk' = OnDisk, wal' = Append(wal, [offset |-> Len(Whole), record |-> r]),
           wal_stable' = wal_stable
    PROVE  /\ WalInv' /\ StableWalInv'
           /\ wal' # << >> /\ End(wal') = Len(Whole) + 1 /\ wal'[Len(wal')].record = r
  <1>. DEFINE l == Len(Whole)
              N == Len(wal)
              e == [offset |-> l, record |-> r]
              v == Append(wal, e)
  <1>0. /\ Whole \in Seq(Records) /\ l \in Nat /\ OnDisk \in Nat /\ OnDisk <= l
        /\ wal \in Seq(Entries) /\ wal_stable \in Seq(Entries)
    BY OneFileFacts, Zenon
  <1>1. e \in Entries /\ e.offset = l /\ e.record = r
    BY <1>0 DEF Entries
  <1>. HIDE DEF e
  <1>2. /\ v # << >> /\ Len(v) = N + 1 /\ N \in Nat /\ v[N + 1] = e
        /\ \A i \in 1..N : v[i] = wal[i]
        /\ \A i \in 1..(N + 1) : i \in 1..N \/ i = N + 1
        /\ N = 0 => wal = << >>
    BY <1>0, <1>1
  <1>. HIDE DEF v
  <1>3. v[1].offset \in Nat /\ v[1].offset <= OnDisk /\ v[1].offset + N = l
    <2>1. CASE wal = << >>
      <3>1. N = 0 /\ OnDisk = l
        BY <2>1, Zenon DEF OneInv, WalInv, N
      <3>2. v[1] = e
        BY <1>2, <3>1
      <3>3. l <= l /\ l + 0 = l
        BY <1>0
      <3>. QED  BY <1>0, <1>1, <3>1, <3>2, <3>3, Zenon
    <2>2. CASE wal # << >>
      <3>1. wal[1].offset \in Nat /\ wal[1].offset <= OnDisk /\ End(wal) = l
        BY <1>0, <2>2, RunOffsets, Zenon DEF OneInv, WalInv, CallInv
      <3>2. 1 \in 1..N
        BY <1>2, <2>2
      <3>. QED  BY <1>2, <3>1, <3>2, Zenon DEF End
    <2>. QED  BY <2>1, <2>2, Zenon
  <1>4. Consecutive(v)
    <2>1. ASSUME NEW i \in 1..N PROVE v[i].offset + 1 = v[1].offset + i
      <3>1. 1 \in 1..N
        BY <1>2
      <3>. QED  BY <1>2, <3>1, Zenon DEF OneInv, WalInv, Consecutive, N
    <2>2. v[N + 1].offset + 1 = v[1].offset + (N + 1)
      <3>. DEFINE o == v[1].offset
      <3>1. v[N + 1].offset = l
        BY <1>1, <1>2, Zenon
      <3>. HIDE DEF o, l, N
      <3>2. o \in Nat /\ o + N = l /\ N \in Nat
        BY <1>2, <1>3, Zenon DEF o
      <3>3. l + 1 = o + (N + 1)
        BY <3>2
      <3>. QED  BY <3>1, <3>3, Zenon DEF o
    <2>. QED  BY <1>2, <2>1, <2>2, Zenon DEF Consecutive
  <1>5. Agrees(v, Whole)
    <2>1. ~(l < l)
      BY <1>0
    <2>2. ASSUME NEW i \in 1..N, v[i].offset < l PROVE Whole[v[i].offset + 1] = v[i].record
      BY <1>2, <2>2, Zenon DEF OneInv, WalInv, Agrees
    <2>. QED  BY <1>1, <1>2, <2>1, <2>2, Zenon DEF Agrees
  <1>6. End(v) = l + 1
    <2>. DEFINE o == v[1].offset
    <2>1. End(v) = o + (N + 1)
      BY <1>2, Zenon DEF End
    <2>. HIDE DEF o, l, N
    <2>2. o \in Nat /\ o + N = l /\ N \in Nat
      BY <1>2, <1>3, Zenon DEF o
    <2>. QED  BY <2>1, <2>2
  <1>7. l <= l + 1
    BY <1>0
  <1>8. wal' = v
    BY Zenon DEF v, e
  <1>9. WalInv'
    BY <1>2, <1>3, <1>4, <1>5, <1>6, <1>7, <1>8, Zenon DEF WalInv
  <1>10. StableWalInv'
    <2>1. Begins(wal_stable, wal) => Begins(wal_stable, v)
      <3>. SUFFICES ASSUME Begins(wal_stable, wal) PROVE Begins(wal_stable, v)
        BY Zenon
      <3>1. Len(wal_stable) \in Nat /\ Len(wal_stable) <= N
        BY <1>0 DEF Begins
      <3>2. Len(wal_stable) <= N + 1 /\ \A i \in 1..Len(wal_stable) : i \in 1..N
        BY <1>2, <3>1
      <3>. QED  BY <1>2, <3>2, Zenon DEF Begins
    <2>. QED  BY <1>8, <2>1, Zenon DEF OneInv, StableWalInv
  <1>. QED  BY <1>1, <1>2, <1>6, <1>8, <1>9, <1>10, Zenon

\* The end of the process cuts the segment behind what was written.
LEMMA KillCuts ==
    ASSUME StoreInv, OneFile, kill
    PROVE  /\ OneFile' /\ OnDisk' = OnDisk
           /\ \E m \in OnDisk..Len(Whole) : /\ Whole' = SubSeq(Whole, 1, m)
                                            /\ m # Len(Whole) => unflushed # {}
  <1>. DEFINE m == Written(1)
  <1>0. /\ file # << >> /\ stable' = stable
    BY Zenon DEF StoreInv, RunInv, kill
  <1>1. /\ Len(file) = 1 /\ file[1] = Whole /\ OnDisk = stable[1] /\ Whole \in Seq(Records)
        /\ m \in Nat /\ OnDisk <= m /\ m <= Len(Whole) /\ OnDisk \in Nat /\ Len(Whole) \in Nat
        /\ unflushed = {} => m = Len(Whole)
    BY <1>0, OneFileFacts, Zenon
  <1>2. /\ StoreInv' /\ Len(file') = Len(file)
        /\ \A f \in 1..Len(file) : file'[f] = SubSeq(file[f], 1, Written(f))
    BY StoreKill, Zenon
  <1>3. file' \in Seq(Seq(Records)) /\ Len(file') = 1
    BY <1>1, <1>2, Zenon DEF StoreInv, StoreTypes
  <1>4. Whole' = file'[1]
    BY <1>3, FlattenOne, Zenon DEF Whole
  <1>5. 1 \in 1..1 /\ 1 <= 1 /\ file' # << >>
    BY <1>3
  <1>6. Whole' = SubSeq(Whole, 1, m) /\ OnDisk' = OnDisk /\ OneFile'
    BY <1>0, <1>1, <1>2, <1>3, <1>4, <1>5, Zenon DEF OnDisk, OneFile
  <1>. HIDE DEF m
  <1>7. m \in OnDisk..Len(Whole)
    BY <1>1
  <1>. QED  BY <1>1, <1>6, <1>7, Zenon

\* The power loss may cut it anywhere behind what is on stable storage.
LEMMA LossCuts ==
    ASSUME StoreInv, OneFile, power_loss
    PROVE  /\ OneFile' /\ OnDisk' \in OnDisk..Len(Whole)
           /\ Whole' = SubSeq(Whole, 1, OnDisk')
  <1>0. /\ file \in Seq(Seq(Records)) /\ Whole \in Seq(Records)
        /\ OnDisk \in Nat /\ Len(Whole) \in Nat
    BY OneFileFacts, Zenon
  <1>2. /\ StoreInv' /\ Len(file') = Len(file)
        /\ \A f \in 1..Len(file) : /\ stable'[f] \in stable[f]..Written(f)
                                   /\ file'[f] = SubSeq(file[f], 1, stable'[f])
    BY StoreLoss, Zenon
  <1>3. file' \in Seq(Seq(Records))
    BY <1>2, Zenon DEF StoreInv, StoreTypes
  <1>4. CASE file = << >>
    <2>1. Whole = << >> /\ OnDisk = 0
      BY <1>4, OneFileFacts, Zenon
    <2>2. file' = << >>
      <3>1. Len(file') = 0
        BY <1>2, <1>4
      <3>. QED  BY <1>3, <3>1
    <2>3. Whole' = << >> /\ OnDisk' = 0
      BY <2>2, FlattenNone, Zenon DEF Whole, OnDisk
    <2>4. 0 \in 0..Len(<< >>) /\ SubSeq(<< >>, 1, 0) = << >>
      OBVIOUS
    <2>. QED  BY <1>2, <2>1, <2>3, <2>4, Zenon DEF OneFile
  <1>5. CASE file # << >>
    <2>1. /\ Len(file) = 1 /\ file[1] = Whole /\ OnDisk = stable[1]
          /\ Written(1) \in Nat /\ Written(1) <= Len(Whole)
      BY <1>5, OneFileFacts, Zenon
    <2>2. 1 \in 1..1 /\ 1 <= 1
      OBVIOUS
    <2>3. Len(file') = 1 /\ file' # << >>
      <3>1. Len(file') = 1
        BY <1>2, <2>1, Zenon
      <3>. QED  BY <1>3, <3>1
    <2>4. Whole' = file'[1]
      BY <1>3, <2>3, FlattenOne, Zenon DEF Whole
    <2>5. OnDisk' = stable'[1]
      BY <2>3, Zenon DEF OnDisk
    <2>6. Whole' = SubSeq(Whole, 1, OnDisk') /\ OnDisk' \in OnDisk..Written(1)
      BY <1>2, <2>1, <2>2, <2>4, <2>5, Zenon
    <2>7. OnDisk' \in OnDisk..Len(Whole)
      BY <1>0, <2>1, <2>6
    <2>. QED  BY <2>1, <2>2, <2>3, <2>6, <2>7, Zenon DEF OneFile
  <1>. QED  BY <1>4, <1>5, Zenon

\* What the buffer held is in the WAL: after the end of the process a restart
\* serves what it would have served before.
LEMMA WalKilled ==
    ASSUME StoreInv, OneFile, OneInv, kill
    PROVE  /\ WalInv' /\ StableWalInv'
           /\ Replayed(Whole', wal') = Replayed(Whole, wal)
  <1>0. /\ Whole \in Seq(Records) /\ Len(Whole) \in Nat /\ OnDisk \in Nat /\ OnDisk <= Len(Whole)
    BY OneFileFacts, Zenon
  <1>1. wal' = wal /\ wal_stable' = wal_stable /\ unflushed' = {} /\ OnDisk' = OnDisk
    BY KillCuts, Zenon DEF kill, Forget, walVars
  <1>2. PICK m \in OnDisk..Len(Whole) : /\ Whole' = SubSeq(Whole, 1, m)
                                        /\ m # Len(Whole) => unflushed # {}
    BY KillCuts, Zenon
  <1>3. /\ m \in 0..Len(Whole) /\ m \in Nat /\ OnDisk <= m
        /\ Continues(wal, SubSeq(Whole, 1, m)) /\ Continues(wal_stable, SubSeq(Whole, 1, m))
        /\ Continues(wal, Whole)
        /\ wal # << >> => wal[1].offset <= m
    BY WalContinues, Zenon DEF OneInv
  <1>4. Replayed(Whole', wal') = Replayed(Whole, wal)
    <2>1. m # Len(Whole) => wal # << >> /\ Len(Whole) <= End(wal)
      BY <1>2, Zenon DEF OneInv, WalInv
    <2>. QED  BY <1>0, <1>1, <1>2, <1>3, <2>1, CoversCut, Zenon
  <1>5. OnDisk = Len(Whole) => m = Len(Whole)
    BY <1>0
  <1>6. Len(SubSeq(Whole, 1, m)) = m
    BY <1>0, <1>3, FirstRecords, Zenon
  <1>7. WalInv'
    BY <1>1, <1>2, <1>3, <1>5, <1>6, Zenon DEF OneInv, WalInv, Continues
  <1>8. StableWalInv'
    BY <1>1, <1>2, <1>3, Zenon DEF OneInv, StableWalInv, Continues
  <1>. QED  BY <1>4, <1>7, <1>8, Zenon

\* After a power loss it serves a beginning of that.
LEMMA WalLost ==
    ASSUME StoreInv, OneFile, OneInv, power_loss
    PROVE  /\ WalInv' /\ StableWalInv'
           /\ Begins(Replayed(Whole', wal'), Replayed(Whole, wal))
  <1>. DEFINE m == OnDisk'
  <1>0. /\ Whole \in Seq(Records) /\ Len(Whole) \in Nat /\ OnDisk \in Nat /\ OnDisk <= Len(Whole)
        /\ wal \in Seq(Entries) /\ Len(wal) \in Nat
    <2>1. wal \in Seq(Entries)
      BY OneFileFacts, Zenon
    <2>. QED  BY <2>1, OneFileFacts
  <1>1. m \in OnDisk..Len(Whole) /\ Whole' = SubSeq(Whole, 1, m)
    BY LossCuts, Zenon
  <1>2. /\ m \in 0..Len(Whole) /\ m \in Nat /\ OnDisk <= m
        /\ Continues(wal, SubSeq(Whole, 1, m)) /\ Continues(wal_stable, SubSeq(Whole, 1, m))
        /\ Continues(wal, Whole)
        /\ wal # << >> => wal[1].offset <= m
    BY <1>1, WalContinues, Zenon DEF OneInv
  <1>3. /\ wal_stable' = wal' /\ wal' \in Seq(Entries) /\ unflushed' = {}
        /\ wal' = wal_stable \/ \E k \in 0..Len(wal) : wal' = SubSeq(wal, 1, k)
    BY WalAfterLoss, Zenon DEF StoreInv, power_loss, Forget
  <1>4. Len(SubSeq(Whole, 1, m)) = m
    BY <1>0, <1>2, FirstRecords, Zenon
  <1>. HIDE DEF m
  <1>5. /\ Continues(wal', SubSeq(Whole, 1, m))
        /\ wal' # << >> => Begins(wal', wal) \/ End(wal') <= m
    <2>1. CASE wal' = wal_stable
      <3>1. wal_stable # << >> /\ End(wal_stable) <= OnDisk => End(wal_stable) <= m
        <4>. SUFFICES ASSUME wal_stable # << >>, End(wal_stable) <= OnDisk
                      PROVE  End(wal_stable) <= m
          BY Zenon
        <4>1. End(wal_stable) \in Nat
          BY <1>2, RunOffsets, Zenon DEF Continues
        <4>. QED  BY <1>0, <1>2, <4>1
      <3>. QED  BY <1>2, <2>1, <3>1, Zenon DEF OneInv, StableWalInv
    <2>2. ASSUME NEW k \in 0..Len(wal), wal' = SubSeq(wal, 1, k)
          PROVE  Continues(wal', SubSeq(Whole, 1, m)) /\ Begins(wal', wal)
      <3>. DEFINE v == SubSeq(wal, 1, k)
      <3>1. /\ v \in Seq(Entries) /\ Len(v) = k /\ k <= Len(wal) /\ \A i \in 1..k : v[i] = wal[i]
            /\ \A i \in 1..k : i \in 1..Len(wal) /\ 1 \in 1..k
            /\ v # << >> => 1 \in 1..k /\ wal # << >>
        BY <1>0
      <3>. HIDE DEF v
      <3>2. Consecutive(v) /\ Agrees(v, SubSeq(Whole, 1, m))
        BY <1>2, <3>1, Zenon DEF Continues, Consecutive, Agrees
      <3>3. v # << >> => v[1].offset <= Len(SubSeq(Whole, 1, m))
        BY <1>2, <1>4, <3>1, Zenon
      <3>. QED  BY <2>2, <3>1, <3>2, <3>3, Zenon DEF Continues, Begins, v
    <2>. QED  BY <1>3, <2>1, <2>2, Zenon
  <1>6. Begins(Replayed(Whole', wal'), Replayed(Whole, wal))
    BY <1>0, <1>1, <1>2, <1>5, LossBegins, Zenon
  <1>7. WalInv'
    BY <1>1, <1>3, <1>4, <1>5, Zenon DEF WalInv, Continues, m
  <1>8. StableWalInv'
    BY <1>1, <1>3, <1>5, BeginsItself, Zenon DEF StableWalInv, Continues
  <1>. QED  BY <1>6, <1>7, <1>8, Zenon

\* The record of the append under way keeps its place.
LEMMA CurrentSame ==
    ASSUME OneInv, pc # "logged", Whole' = Whole, current' \subseteq current
    PROVE  \A c \in current' : c[1] < Len(Whole') /\ Whole'[c[1] + 1] = c[2]
  BY Zenon DEF OneInv, CallInv

\* The constructor finds what was left.
LEMMA OneLoad ==
    ASSUME StoreInv, OneFile, OneInv, load_existing_segments
    PROVE  OneInv' /\ Whole' = Whole /\ wal' = wal
  <1>0. /\ Whole \in Seq(Records) /\ Len(Whole) \in Nat /\ OnDisk \in Nat /\ OnDisk <= Len(Whole)
        /\ wal \in Seq(Entries)
    BY OneFileFacts, Zenon
  <1>1. /\ pc = "down" /\ pc' = IF wal = << >> THEN "ready" ELSE "replay"
    BY Zenon DEF load_existing_segments
  <1>2. /\ file' = IF file = << >> THEN << << >> >> ELSE file
    BY Zenon DEF load_existing_segments
  <1>3. /\ stable' = IF file = << >> THEN <<0>> ELSE stable
    BY Zenon DEF load_existing_segments
  <1>4. /\ cursor' = 1
        /\ UNCHANGED <<unflushed, wal, wal_stable, current>>
    BY Zenon DEF load_existing_segments, walVars
  <1>5. Whole' = Whole /\ OnDisk' = OnDisk
    <2>1. CASE file = << >>
      <3>1. Whole = << >> /\ OnDisk = 0
        BY <2>1, OneFileFacts, Zenon
      <3>2. file' = << << >> >> /\ stable' = <<0>>
        BY <1>2, <1>3, <2>1, Zenon
      <3>3. /\ << << >> >> \in Seq(Seq(Records)) /\ Len(<< << >> >>) = 1
            /\ << << >> >>[1] = << >> /\ << << >> >> # << >> /\ <<0>>[1] = 0
        OBVIOUS
      <3>4. FlattenSeq(<< << >> >>) = << >>
        BY <3>3, FlattenOne, Zenon
      <3>. QED  BY <3>1, <3>2, <3>3, <3>4, Zenon DEF Whole, OnDisk
    <2>2. CASE file # << >>
      BY <1>2, <1>3, <2>2, Zenon DEF Whole, OnDisk
    <2>. QED  BY <2>1, <2>2, Zenon
  <1>6. OnDisk' \in OnDisk..Len(Whole)
    BY <1>0, <1>5
  <1>7. WalInv' /\ StableWalInv'
    BY <1>4, <1>5, <1>6, WalSame, Zenon
  <1>8. wal # << >> => wal[1].offset + 1 <= Len(Whole) + 1
    <2>. SUFFICES ASSUME wal # << >> PROVE wal[1].offset + 1 <= Len(Whole) + 1
      BY Zenon
    <2>1. wal[1].offset \in Nat /\ wal[1].offset <= OnDisk
      BY <1>0, RunOffsets, Zenon DEF OneInv, WalInv
    <2>. QED  BY <1>0, <2>1
  <1>9. \A c \in current' : c[1] < Len(Whole') /\ Whole'[c[1] + 1] = c[2]
    BY <1>1, <1>4, <1>5, CurrentSame, Zenon
  <1>10. CallInv'
    BY <1>1, <1>4, <1>5, <1>8, <1>9, Zenon DEF CallInv
  <1>. QED  BY <1>4, <1>5, <1>7, <1>10, Zenon DEF OneInv

\* A record stored behind the others leaves them in place.
LEMMA CurrentStored ==
    ASSUME OneInv, pc # "logged", StoreInv, OneFile, NEW r, Whole' = Append(Whole, r),
           Len(Whole') = Len(Whole) + 1, current' = current
    PROVE  \A c \in current' : c[1] < Len(Whole') /\ Whole'[c[1] + 1] = c[2]
  <1>. SUFFICES ASSUME NEW c \in current PROVE c[1] < Len(Whole') /\ Whole'[c[1] + 1] = c[2]
    BY Zenon
  <1>1. c[1] \in Nat
    <2>1. c \in Nat \X Records
      BY Zenon DEF StoreInv, StoreTypes
    <2>. QED  BY <2>1
  <1>2. c[1] < Len(Whole) /\ Whole[c[1] + 1] = c[2]
    BY Zenon DEF OneInv, CallInv
  <1>3. Whole \in Seq(Records) /\ Len(Whole) \in Nat
    BY OneFileFacts, Zenon
  <1>. DEFINE o == c[1]
  <1>. HIDE DEF o
  <1>4. o \in Nat /\ o < Len(Whole)
    BY <1>1, <1>2, Zenon DEF o
  <1>5. Append(Whole, r)[o + 1] = Whole[o + 1] /\ o < Len(Whole) + 1
    BY <1>3, <1>4
  <1>. QED  BY <1>2, <1>5, Zenon DEF o

\* recover_wal takes the entries that the segment lacks, in their order.
LEMMA OneReplay ==
    ASSUME StoreInv, OneFile, OneInv, recover_wal_entry
    PROVE  OneInv' /\ Replayed(Whole', wal') = Replayed(Whole, wal)
  <1>. DEFINE l == Len(Whole)
              o == wal[1].offset
  <1>0. /\ Whole \in Seq(Records) /\ l \in Nat /\ OnDisk \in Nat /\ OnDisk <= l
        /\ wal \in Seq(Entries)
    BY OneFileFacts, Zenon
  <1>1. /\ pc = "replay" /\ pc' = "replay" /\ cursor <= Len(wal) /\ cursor' = cursor + 1
        /\ UNCHANGED <<stable, wal, wal_stable, segments, current, appends, synced>>
    BY Zenon DEF recover_wal_entry, walVars
  <1>2. IF wal[cursor].offset = next_offset_
        THEN store(wal[cursor].record)
        ELSE UNCHANGED <<file, unflushed, index_, next_offset_>>
    BY Zenon DEF recover_wal_entry
  <1>3. next_offset_ = l /\ file # << >> /\ cursor \in 1..(Len(wal) + 1)
    BY <1>1, Zenon DEF StoreInv, RunInv, LoopInv, Whole
  <1>4. cursor \in 1..Len(wal) /\ cursor \in Nat
    BY <1>0, <1>1, <1>3
  <1>5. wal # << >> /\ o + cursor <= l + 1
    BY <1>1, Zenon DEF OneInv, CallInv
  <1>6. /\ o \in Nat /\ wal[cursor].offset \in Nat /\ wal[cursor].record \in Records
        /\ wal[cursor].offset + 1 = o + cursor
    BY <1>0, <1>4, <1>5, RunOffsets, Zenon DEF OneInv, WalInv
  <1>7. l \in OnDisk..l
    BY <1>0
  <1>8. CASE wal[cursor].offset = l
    <2>. DEFINE r == wal[cursor].record
    <2>1. store(r)
      BY <1>2, <1>3, <1>8, Zenon
    <2>2. /\ UNCHANGED <<stable, synced>> /\ pc' \in {"replay", "stored"}
          /\ UNCHANGED <<walVars, current, appends, segments>> /\ pc # "down"
      BY <1>1, Zenon DEF walVars
    <2>3. Whole' = Append(Whole, r) /\ file' # << >>
      BY <1>6, <2>1, <2>2, StoreKeeps, Zenon DEF Whole
    <2>4. OnDisk' = OnDisk
      BY <1>1, <1>3, <2>3, Zenon DEF OnDisk
    <2>5. WalInv' /\ StableWalInv' /\ Len(Whole') = l + 1
      BY <1>1, <1>4, <1>8, <2>3, <2>4, WalStore, Zenon
    <2>6. Replayed(Whole', wal') = Replayed(Whole, wal)
      <3>1. Continues(wal, Whole)
        BY <1>7, WalContinues, Zenon DEF OneInv
      <3>2. Replayed(Append(Whole, r), wal) = Replayed(Whole, wal)
        BY <1>0, <1>4, <1>8, <3>1, CoversStored, Zenon
      <3>. QED  BY <1>1, <2>3, <3>2, Zenon
    <2>7. \A c \in current' : c[1] < Len(Whole') /\ Whole'[c[1] + 1] = c[2]
      <3>1. pc # "logged"
        BY <1>1, Zenon
      <3>. QED  BY <1>1, <2>3, <2>5, <3>1, CurrentStored, Zenon
    <2>. HIDE DEF o, l
    <2>8. o + (cursor + 1) <= (l + 1) + 1
      BY <1>0, <1>4, <1>5, <1>6
    <2>9. CallInv'
      BY <1>1, <1>5, <2>5, <2>7, <2>8, Zenon DEF CallInv, o
    <2>. QED  BY <2>5, <2>6, <2>9, Zenon DEF OneInv
  <1>9. CASE wal[cursor].offset # l
    <2>1. UNCHANGED <<file, unflushed>>
      BY <1>2, <1>3, <1>9, Zenon
    <2>2. Whole' = Whole /\ OnDisk' = OnDisk
      BY <1>1, <2>1, Zenon DEF Whole, OnDisk
    <2>3. OnDisk' \in OnDisk..Len(Whole)
      BY <1>0, <2>2
    <2>4. WalInv' /\ StableWalInv'
      BY <1>1, <2>1, <2>2, <2>3, WalSame, Zenon
    <2>5. \A c \in current' : c[1] < Len(Whole') /\ Whole'[c[1] + 1] = c[2]
      <3>1. pc # "logged"
        BY <1>1, Zenon
      <3>. QED  BY <1>1, <2>2, <3>1, CurrentSame, Zenon
    <2>6. o + (cursor + 1) <= l + 1
      <3>. DEFINE x == wal[cursor].offset
      <3>1. x \in Nat /\ x + 1 = o + cursor /\ x # l
        BY <1>6, <1>9
      <3>. HIDE DEF x, o, l
      <3>. QED  BY <1>0, <1>4, <1>5, <1>6, <3>1
    <2>7. CallInv'
      BY <1>1, <1>5, <2>2, <2>5, <2>6, Zenon DEF CallInv
    <2>. QED  BY <1>1, <2>2, <2>4, <2>7, Zenon DEF OneInv
  <1>. QED  BY <1>8, <1>9, Zenon

\* At its end the segment has all of the WAL, and recovery goes on to sync it.
LEMMA OneReplayed ==
    ASSUME StoreInv, OneFile, OneInv, recover_wal_end
    PROVE  OneInv' /\ Whole' = Whole /\ wal' = wal
  <1>. DEFINE l == Len(Whole)
              o == wal[1].offset
              N == Len(wal)
  <1>0. /\ Whole \in Seq(Records) /\ l \in Nat /\ OnDisk \in Nat /\ OnDisk <= l
        /\ wal \in Seq(Entries)
    BY OneFileFacts, Zenon
  <1>1. /\ pc = "replay" /\ cursor > N
        /\ pc' = (IF next_offset_ > 0 THEN "sync_segments" ELSE "clear_wal")
        /\ UNCHANGED <<file, unflushed, stable, wal, wal_stable, current>>
    BY Zenon DEF recover_wal_end, walVars, diskVars
  <1>2. next_offset_ = l /\ cursor \in 1..(N + 1)
    BY <1>1, Zenon DEF StoreInv, RunInv, LoopInv, Whole
  <1>3. wal # << >> /\ o + cursor <= l + 1
    BY <1>1, Zenon DEF OneInv, CallInv
  <1>4. o \in Nat /\ N \in Nat /\ N # 0 /\ End(wal) = o + N
    BY <1>0, <1>3, RunOffsets, Zenon DEF OneInv, WalInv, End
  <1>5. End(wal) <= l /\ l > 0
    <2>. HIDE DEF o, l, N
    <2>1. cursor = N + 1
      BY <1>1, <1>2, <1>4
    <2>2. o + N <= l /\ l > 0
      BY <1>0, <1>3, <1>4, <2>1
    <2>. QED  BY <1>4, <2>2, Zenon
  <1>6. pc' = "sync_segments"
    BY <1>1, <1>2, <1>5, Zenon
  <1>7. Whole' = Whole /\ OnDisk' = OnDisk
    BY <1>1, Zenon DEF Whole, OnDisk
  <1>8. OnDisk' \in OnDisk..Len(Whole)
    BY <1>0, <1>7
  <1>9. WalInv' /\ StableWalInv'
    BY <1>1, <1>7, <1>8, WalSame, Zenon
  <1>10. \A c \in current' : c[1] < Len(Whole') /\ Whole'[c[1] + 1] = c[2]
    BY <1>1, <1>7, CurrentSame, Zenon
  <1>11. CallInv'
    BY <1>1, <1>5, <1>6, <1>7, <1>10, Zenon DEF CallInv
  <1>. QED  BY <1>1, <1>7, <1>9, <1>11, Zenon DEF OneInv

\* append logs its record,
LEMMA OneWrite ==
    ASSUME StoreInv, OneFile, OneInv, write_wal
    PROVE  OneInv' /\ Whole' = Whole
  <1>0. Len(Whole) \in Nat /\ appends \in 0..MaxAppends /\ MaxAppends \in Nat
    BY OneFileFacts, PartitionLogAssumption, Zenon DEF StoreInv, StoreTypes
  <1>1. /\ pc = "ready" /\ appends < MaxAppends /\ pc' = "logged"
        /\ current' = {<<next_offset_, appends + 1>>}
        /\ wal' = Append(wal, [offset |-> next_offset_, record |-> appends + 1])
        /\ UNCHANGED <<file, unflushed, stable, wal_stable>>
    BY Zenon DEF write_wal, diskVars
  <1>2. next_offset_ = Len(Whole)
    BY <1>1, Zenon DEF StoreInv, RunInv, Whole
  <1>. DEFINE r == appends + 1
  <1>3. r \in Records
    BY <1>0, <1>1 DEF Records
  <1>. HIDE DEF r
  <1>4. Whole' = Whole /\ OnDisk' = OnDisk
    BY <1>1, Zenon DEF Whole, OnDisk
  <1>5. wal' = Append(wal, [offset |-> Len(Whole), record |-> r])
        /\ current' = {<<Len(Whole), r>>}
    BY <1>1, <1>2, Zenon DEF r
  <1>6. /\ WalInv' /\ StableWalInv'
        /\ wal' # << >> /\ End(wal') = Len(Whole) + 1 /\ wal'[Len(wal')].record = r
    BY <1>1, <1>3, <1>4, <1>5, WalWrite, Zenon
  <1>7. CallInv'
    BY <1>1, <1>4, <1>5, <1>6, Zenon DEF CallInv
  <1>. QED  BY <1>4, <1>6, <1>7, Zenon DEF OneInv

\* and then stores it at the offset it was logged with.
LEMMA OneAppend ==
    ASSUME StoreInv, OneFile, OneInv, append_record
    PROVE  OneInv' /\ wal' = wal /\ \E r \in Records : Whole' = Append(Whole, r)
  <1>. DEFINE l == Len(Whole)
              N == Len(wal)
              r == wal[N].record
  <1>0. Whole \in Seq(Records) /\ l \in Nat /\ wal \in Seq(Entries)
    BY OneFileFacts, Zenon
  <1>1. /\ pc = "logged" /\ pc' = "stored" /\ UNCHANGED <<stable, synced>>
        /\ UNCHANGED <<walVars, current, appends, segments>>
        /\ UNCHANGED <<wal, wal_stable, current>>
    BY Zenon DEF append_record, walVars
  <1>2. wal # << >> /\ End(wal) = l + 1 /\ current = {<<l, r>>}
    BY <1>1, Zenon DEF OneInv, CallInv
  <1>3. store(r)
    <2>1. PICK c \in current : store(c[2])
      BY Zenon DEF append_record
    <2>2. <<l, r>>[2] = r
      OBVIOUS
    <2>. QED  BY <1>2, <2>1, <2>2, Zenon
  <1>4. /\ N \in Nat /\ N # 0 /\ wal[1].offset \in Nat /\ End(wal) = wal[1].offset + N
        /\ \A i \in 1..N : /\ wal[i].offset \in Nat /\ wal[i].record \in Records
                           /\ wal[i].offset + 1 = wal[1].offset + i
    BY <1>0, <1>2, RunOffsets, Zenon DEF OneInv, WalInv, End
  <1>5. N \in 1..N
    BY <1>4
  <1>6. wal[N].offset = l /\ r \in Records
    <2>. DEFINE x == wal[N].offset
                o == wal[1].offset
    <2>1. x \in Nat /\ x + 1 = o + N /\ o + N = l + 1 /\ r \in Records /\ o \in Nat
      BY <1>2, <1>4, <1>5, Zenon
    <2>. HIDE DEF x, o, l, N
    <2>2. x = l
      BY <1>0, <1>4, <2>1
    <2>. QED  BY <2>1, <2>2, Zenon DEF x
  <1>7. pc # "down" /\ pc' \in {"replay", "stored"} /\ file # << >>
    BY <1>1, Zenon DEF StoreInv, RunInv
  <1>8. Whole' = Append(Whole, r) /\ file' # << >>
    BY <1>1, <1>3, <1>6, <1>7, StoreKeeps, Zenon DEF Whole
  <1>9. OnDisk' = OnDisk
    BY <1>1, <1>7, <1>8, Zenon DEF OnDisk
  <1>10. WalInv' /\ StableWalInv' /\ Len(Whole') = l + 1
    BY <1>1, <1>5, <1>6, <1>8, <1>9, WalStore, Zenon
  <1>11. l < l + 1 /\ Append(Whole, r)[l + 1] = r
    <2>. HIDE DEF r
    <2>. QED  BY <1>0, <1>6
  <1>12. \A c \in current' : c[1] < Len(Whole') /\ Whole'[c[1] + 1] = c[2]
    <2>1. <<l, r>>[1] = l /\ <<l, r>>[2] = r
      OBVIOUS
    <2>. QED  BY <1>1, <1>2, <1>8, <1>10, <1>11, <2>1, Zenon
  <1>13. CallInv'
    BY <1>1, <1>2, <1>10, <1>12, Zenon DEF CallInv
  <1>. QED  BY <1>1, <1>6, <1>8, <1>10, <1>13, Zenon DEF OneInv

\* The rest of append and flush, up to the sync of the segment, and a read.
LEMMA OneIdle ==
    ASSUME StoreInv, OneFile, OneInv, OneFile',
           roll_segment \/ flush \/ sync_wal \/ \E o \in 0..(MaxAppends - 1) : fetch(o)
    PROVE  OneInv' /\ Whole' = Whole /\ wal' = wal
  <1>0. /\ Whole \in Seq(Records) /\ Len(Whole) \in Nat /\ OnDisk \in Nat /\ OnDisk <= Len(Whole)
        /\ file \in Seq(Seq(Records))
    BY OneFileFacts, Zenon
  <1>1. file' = file /\ stable' = stable
    <2>1. CASE roll_segment
      <3>1. pc # "down" /\ (file' = Append(file, << >>) \/ UNCHANGED <<file, stable>>)
        BY <2>1, Zenon DEF roll_segment
      <3>2. Len(file) = 1
        BY <3>1, OneFileFacts, Zenon DEF StoreInv, RunInv
      <3>3. Len(Append(file, << >>)) = Len(file) + 1
        BY <1>0
      <3>4. ~(1 + 1 <= 1)
        OBVIOUS
      <3>. QED  BY <3>1, <3>2, <3>3, <3>4, Zenon DEF OneFile
    <2>2. CASE flush \/ sync_wal \/ \E o \in 0..(MaxAppends - 1) : fetch(o)
      BY <2>2, Zenon DEF flush, sync_wal, fetch, diskVars
    <2>. QED  BY <2>1, <2>2, Zenon
  <1>2. wal_stable' = wal_stable \/ wal_stable' = wal
    BY Zenon DEF roll_segment, flush, sync_wal, fetch, walVars
  <1>3. unflushed' \subseteq unflushed /\ wal' = wal
    BY Zenon DEF roll_segment, flush, sync_wal, fetch, walVars, diskVars
  <1>4. current' \subseteq current
    BY Zenon DEF roll_segment, flush, sync_wal, fetch
  <1>5. pc \in {"ready", "stored", "sync_wal"}
    BY Zenon DEF roll_segment, flush, sync_wal, fetch
  <1>6. pc' \in {"ready", "sync_wal", "sync_segments"}
    BY Zenon DEF roll_segment, flush, sync_wal, fetch
  <1>7. Whole' = Whole /\ OnDisk' = OnDisk
    BY <1>1, Zenon DEF Whole, OnDisk
  <1>8. OnDisk' \in OnDisk..Len(Whole)
    BY <1>0, <1>7
  <1>9. WalInv' /\ StableWalInv'
    BY <1>2, <1>3, <1>7, <1>8, WalSame, Zenon
  <1>10. pc # "logged" /\ pc' # "logged" /\ pc' # "replay" /\ pc' # "clear_wal"
    BY <1>5, <1>6, Zenon
  <1>11. \A c \in current' : c[1] < Len(Whole') /\ Whole'[c[1] + 1] = c[2]
    BY <1>4, <1>7, <1>10, CurrentSame, Zenon
  <1>12. Len(Whole) <= Len(Whole)
    BY <1>0
  <1>13. wal # << >> => End(wal) = Len(Whole)
    BY <1>5, Zenon DEF OneInv, CallInv
  <1>14. CallInv'
    BY <1>3, <1>7, <1>10, <1>11, <1>12, <1>13, Zenon DEF CallInv
  <1>. QED  BY <1>3, <1>7, <1>9, <1>14, Zenon DEF OneInv

\* The sync of the only segment puts all of it on stable storage.
LEMMA OneSync ==
    ASSUME StoreInv, OneFile, OneInv, sync_segment
    PROVE  OneInv' /\ Whole' = Whole /\ wal' = wal
  <1>1. /\ pc = "sync_segments" /\ file' = file
        /\ UNCHANGED <<wal, wal_stable, current>>
        /\ pc' = (IF cursor = Len(segments) THEN "clear_wal" ELSE pc)
        /\ unflushed' = unflushed \ {segments[cursor]}
        /\ stable' = [stable EXCEPT ![segments[cursor]] = Len(file[segments[cursor]])]
    BY Zenon DEF sync_segment, walVars
  <1>2. file # << >> /\ segments = [i \in 1..Len(file) |-> i] /\ cursor \in 1..Len(file)
    BY <1>1, Zenon DEF StoreInv, RunInv, LoopInv
  <1>3. /\ Len(file) = 1 /\ file[1] = Whole /\ OnDisk = stable[1] /\ unflushed \subseteq {1}
        /\ Len(Whole) \in Nat /\ OnDisk \in Nat /\ OnDisk <= Len(Whole)
    BY <1>2, OneFileFacts, Zenon
  <1>4. cursor = 1 /\ Len(segments) = 1 /\ segments[1] = 1
    BY <1>2, <1>3
  <1>5. pc' = "clear_wal" /\ unflushed' = {}
    BY <1>1, <1>3, <1>4, Zenon
  <1>6. stable' = [stable EXCEPT ![1] = Len(Whole)] /\ 1 \in DOMAIN stable
    <2>1. stable \in Seq(Nat) /\ Len(stable) = 1
      BY <1>3, Zenon DEF StoreInv, StoreTypes
    <2>2. DOMAIN stable = 1..1 /\ 1 \in 1..1
      BY <2>1
    <2>. QED  BY <1>1, <1>3, <1>4, <2>2, Zenon
  <1>7. Whole' = Whole /\ OnDisk' = Len(Whole)
    BY <1>1, <1>2, <1>6, Zenon DEF Whole, OnDisk
  <1>8. OnDisk' \in OnDisk..Len(Whole)
    BY <1>3, <1>7
  <1>9. WalInv' /\ StableWalInv'
    BY <1>1, <1>5, <1>7, <1>8, WalSame, Zenon
  <1>10. \A c \in current' : c[1] < Len(Whole') /\ Whole'[c[1] + 1] = c[2]
    BY <1>1, <1>7, CurrentSame, Zenon
  <1>11. CallInv'
    BY <1>1, <1>5, <1>7, <1>10, Zenon DEF CallInv, OneInv
  <1>. QED  BY <1>1, <1>7, <1>9, <1>11, Zenon DEF OneInv

\* The WAL is truncated when the segment has all of it on stable storage: a
\* power loss that undoes the truncation brings nothing back.
LEMMA OneClear ==
    ASSUME StoreInv, OneFile, OneInv, clear_wal
    PROVE  OneInv' /\ Whole' = Whole /\ wal' = << >>
  <1>0. /\ Whole \in Seq(Records) /\ Len(Whole) \in Nat
        /\ wal \in Seq(Entries) /\ wal_stable \in Seq(Entries)
    BY OneFileFacts, Zenon
  <1>1. /\ pc = "clear_wal" /\ pc' = "ready" /\ wal' = << >> /\ current' = {}
        /\ UNCHANGED <<file, unflushed, stable, wal_stable>>
    BY Zenon DEF clear_wal, diskVars
  <1>2. file # << >> /\ OnStable(Len(file))
    BY <1>1, Zenon DEF StoreInv, RunInv, LoopInv
  <1>3. Len(file) = 1 /\ file[1] = Whole /\ OnDisk = stable[1]
    BY <1>2, OneFileFacts, Zenon
  <1>4. OnDisk = Len(Whole)
    <2>1. 1 \in 1..1
      OBVIOUS
    <2>. QED  BY <1>2, <1>3, <2>1, Zenon DEF OnStable
  <1>5. Whole' = Whole /\ OnDisk' = OnDisk /\ unflushed' = {}
    BY <1>1, Zenon DEF Whole, OnDisk, OneInv, CallInv
  <1>6. WalInv'
    <2>1. Len(<< >>) = 0 /\ 1..0 = {}
      OBVIOUS
    <2>. QED  BY <1>1, <1>4, <1>5, <2>1, Zenon DEF WalInv, Consecutive, Agrees
  <1>7. wal_stable # << >> => End(wal_stable) <= OnDisk
    <2>. SUFFICES ASSUME wal_stable # << >>, Begins(wal_stable, wal)
                  PROVE  End(wal_stable) <= OnDisk
      BY Zenon DEF OneInv, StableWalInv
    <2>1. wal_stable[1].offset \in Nat /\ Len(wal_stable) \in Nat /\ Len(wal_stable) # 0
      BY <1>0, RunOffsets, Zenon DEF OneInv, StableWalInv
    <2>2. Len(wal_stable) <= Len(wal) /\ Len(wal) \in Nat /\ 1 \in 1..Len(wal_stable)
      BY <1>0, <2>1 DEF Begins
    <2>3. wal # << >>
      <3>1. Len(wal) # 0
        BY <2>1, <2>2
      <3>. QED  BY <3>1
    <2>4. End(wal) <= Len(Whole)
      BY <1>1, <2>3, Zenon DEF OneInv, CallInv
    <2>. DEFINE o == wal_stable[1].offset
                a == Len(wal_stable)
                b == Len(wal)
    <2>5. End(wal_stable) = o + a /\ End(wal) = o + b
      BY <2>2, Zenon DEF End, Begins
    <2>. HIDE DEF o, a, b
    <2>6. o \in Nat /\ a \in Nat /\ b \in Nat /\ a <= b /\ o + b <= Len(Whole)
      BY <2>1, <2>2, <2>4, <2>5, Zenon DEF o, a, b
    <2>7. o + a <= Len(Whole)
      BY <1>0, <2>6
    <2>. QED  BY <1>4, <2>5, <2>7, Zenon
  <1>8. StableWalInv'
    BY <1>1, <1>5, <1>7, Zenon DEF OneInv, StableWalInv
  <1>9. CallInv'
    BY <1>1, Zenon DEF CallInv
  <1>. QED  BY <1>1, <1>5, <1>6, <1>8, <1>9, Zenon DEF OneInv

\* The destructors write what is in the buffer.
LEMMA OneClose ==
    ASSUME StoreInv, OneFile, OneInv, close
    PROVE  OneInv' /\ Whole' = Whole /\ wal' = wal
  <1>0. Len(Whole) \in Nat /\ OnDisk \in Nat /\ OnDisk <= Len(Whole)
    BY OneFileFacts, Zenon
  <1>1. /\ pc' = "down" /\ unflushed' = {} /\ current' = {}
        /\ UNCHANGED <<file, stable, wal, wal_stable>>
    BY Zenon DEF close, Forget, walVars
  <1>2. Whole' = Whole /\ OnDisk' = OnDisk
    BY <1>1, Zenon DEF Whole, OnDisk
  <1>3. OnDisk' \in OnDisk..Len(Whole)
    BY <1>0, <1>2
  <1>4. WalInv' /\ StableWalInv'
    BY <1>1, <1>2, <1>3, WalSame, Zenon
  <1>5. CallInv'
    BY <1>1, Zenon DEF CallInv
  <1>. QED  BY <1>1, <1>2, <1>4, <1>5, Zenon DEF OneInv

\* The crashes.
LEMMA OneCrash ==
    ASSUME StoreInv, OneFile, OneInv, kill \/ power_loss
    PROVE  OneInv'
  <1>1. pc' = "down" /\ current' = {}
    BY Zenon DEF kill, power_loss, Forget
  <1>2. CallInv'
    BY <1>1, Zenon DEF CallInv
  <1>. QED  BY <1>2, WalKilled, WalLost, Zenon DEF OneInv

\* Every step keeps the WAL and the segment together.
LEMMA OneStep ==
    ASSUME StoreInv, OneFile, OneInv, OneFile', [Next]_plVars
    PROVE  OneInv'
  <1>1. CASE UNCHANGED plVars
    <2>1. UNCHANGED <<pc, cursor, file, unflushed, stable, wal, wal_stable, current>>
      BY <1>1, Zenon DEF plVars, diskVars, walVars
    <2>2. WalInv'
      BY <2>1, Zenon DEF OneInv, WalInv, Whole, OnDisk
    <2>3. StableWalInv'
      BY <2>1, Zenon DEF OneInv, StableWalInv, Whole, OnDisk
    <2>4. CallInv'
      BY <2>1, Zenon DEF OneInv, CallInv, Whole
    <2>. QED  BY <2>2, <2>3, <2>4, Zenon DEF OneInv
  <1>2. CASE Next
    BY <1>2, OneLoad, OneReplay, OneReplayed, OneWrite, OneAppend, OneIdle, OneSync, OneClear,
       OneClose, OneCrash, Zenon DEF Next
  <1>. QED  BY <1>1, <1>2, Zenon

\* The empty directory has neither.
LEMMA OneInit == Init => OneInv
  <1>. SUFFICES ASSUME Init PROVE OneInv
    BY Zenon
  <1>1. /\ pc = "down" /\ file = << >> /\ wal = << >> /\ wal_stable = << >> /\ unflushed = {}
        /\ current = {}
    BY Zenon DEF Init
  <1>2. Whole = << >> /\ OnDisk = 0
    BY <1>1, FlattenNone, Zenon DEF Whole, OnDisk
  <1>3. Len(<< >>) = 0 /\ 1..0 = {}
    OBVIOUS
  <1>4. Consecutive(<< >>) /\ Agrees(<< >>, << >>)
    BY <1>3, Zenon DEF Consecutive, Agrees
  <1>5. WalInv
    BY <1>1, <1>2, <1>3, <1>4, Zenon DEF WalInv
  <1>6. StableWalInv
    BY <1>1, <1>2, <1>4, Zenon DEF StableWalInv
  <1>7. CallInv
    BY <1>1, Zenon DEF CallInv
  <1>. QED  BY <1>5, <1>6, <1>7, Zenon DEF OneInv

\* A step leaves no fewer files.
LEMMA OneFileBefore ==
    ASSUME FilesSeq, [Next]_plVars, OneFile'
    PROVE  OneFile /\ TenFiles /\ TenFiles'
  <1>1. Len(file) <= Len(file') /\ FilesSeq'
    BY FilesSeqStep, Zenon
  <1>2. PICK S : file \in Seq(S)
    BY Zenon DEF FilesSeq
  <1>3. PICK T : file' \in Seq(T)
    BY <1>1, Zenon DEF FilesSeq
  <1>4. Len(file) \in Nat /\ Len(file') \in Nat
    BY <1>2, <1>3
  <1>. QED  BY <1>1, <1>4 DEF OneFile, TenFiles

\* As long as there is one segment, the WAL has what the segment may lose and
\* nothing that the segment has otherwise.
THEOREM OneInvariant == Spec => [](OneFile => StoreInv /\ OneInv)
  <1>. DEFINE I == FilesSeq /\ (TenFiles => StoreInv) /\ (OneFile => OneInv)
  <1>1. Init => I
    BY FilesSeqInit, StoreInit, OneInit, Zenon
  <1>2. ASSUME I, [Next]_plVars PROVE I'
    <2>1. FilesSeq' /\ (TenFiles' => StoreInv')
      BY <1>2, FilesSeqStep, StoreStep, Zenon
    <2>2. ASSUME OneFile' PROVE OneInv'
      <3>1. OneFile /\ TenFiles
        BY <1>2, <2>2, OneFileBefore, Zenon
      <3>. QED  BY <1>2, <2>2, <3>1, OneStep, Zenon
    <2>. QED  BY <2>1, <2>2, Zenon
  <1>3. I => (OneFile => StoreInv /\ OneInv)
    <2>. SUFFICES ASSUME I, OneFile PROVE TenFiles
      BY Zenon
    <2>1. PICK S : file \in Seq(S)
      BY Zenon DEF FilesSeq
    <2>2. Len(file) \in Nat
      BY <2>1
    <2>. QED  BY <2>2 DEF OneFile, TenFiles
  <1>. HIDE DEF I
  <1>. QED  BY <1>1, <1>2, <1>3, PTL DEF Spec
-----------------------------------------------------------------------------
(* What a log of one segment serves after a restart.                       *)

\* The segment and the WAL replayed on it, whatever is still to be loaded or
\* replayed, but the record that is logged and not yet stored.
ServedInv ==
    /\ Recoverable \in Seq(Records)
    /\ pc # "logged" => Recoverable = Replayed(Whole, wal)
    /\ pc # "down" /\ pc # "replay" => Recoverable = Whole

\* That is what the constructor makes of them.
LEMMA Served ==
    ASSUME StoreInv, OneFile, OneInv
    PROVE  ServedInv
  <1>0. /\ Whole \in Seq(Records) /\ Len(Whole) \in Nat /\ OnDisk \in Nat /\ OnDisk <= Len(Whole)
        /\ wal \in Seq(Entries) /\ file \in Seq(Seq(Records))
    BY OneFileFacts, Zenon
  <1>1. Len(Whole) \in OnDisk..Len(Whole)
    BY <1>0
  <1>2. Continues(wal, Whole)
    BY <1>1, WalContinues, Zenon DEF OneInv
  <1>3. pc # "down" => Content = Whole
    BY <1>0, InOrderOfFiles, Zenon DEF StoreInv, RunInv, Content, Whole
  <1>4. Replayed(Whole, wal) \in Seq(Records)
    BY <1>0, ReplayedBegins, Zenon
  <1>5. CASE pc = "down"
    <2>1. Len(file) \in 0..10
      <3>1. Len(file) \in Nat
        BY <1>0
      <3>2. \A n \in Nat : n <= 1 => n \in 0..10
        OBVIOUS
      <3>. QED  BY <3>1, <3>2, Zenon DEF OneFile
    <2>2. InOrder(LoadOrder(Len(file))) = Whole
      BY <1>0, <2>1, LoadInOrder, InOrderOfFiles, Zenon DEF Whole
    <2>3. Recoverable = Replayed(Whole, wal)
      BY <1>5, <2>2, Zenon DEF Recoverable
    <2>. QED  BY <1>4, <1>5, <2>3, Zenon DEF ServedInv
  <1>6. CASE pc = "replay"
    <2>1. Recoverable = Replayed(Whole, SubSeq(wal, cursor, Len(wal)))
      BY <1>3, <1>6, Zenon DEF Recoverable
    <2>2. cursor \in 1..(Len(wal) + 1) /\ wal # << >> /\ wal[1].offset + cursor <= Len(Whole) + 1
      BY <1>6, Zenon DEF StoreInv, LoopInv, OneInv, CallInv
    <2>3. Recoverable = Replayed(Whole, wal)
      BY <1>0, <1>2, <2>1, <2>2, ReplayedRest, Zenon
    <2>. QED  BY <1>4, <1>6, <2>3, Zenon DEF ServedInv
  <1>7. CASE pc # "down" /\ pc # "replay"
    <2>1. Recoverable = Whole
      BY <1>3, <1>7, Zenon DEF Recoverable
    <2>2. ASSUME pc # "logged" PROVE Replayed(Whole, wal) = Whole
      <3>1. pc \in {"ready", "stored", "sync_wal"} \/ pc \in {"sync_segments", "clear_wal"}
        BY <1>7, <2>2, Zenon DEF StoreInv, StoreTypes
      <3>2. Len(Whole) <= Len(Whole)
        BY <1>0
      <3>3. wal # << >> => End(wal) <= Len(Whole)
        BY <3>1, <3>2, Zenon DEF OneInv, CallInv
      <3>. QED  BY <1>0, <1>2, <3>3, ReplayedSame, Zenon
    <2>. QED  BY <1>0, <1>7, <2>1, <2>2, Zenon DEF ServedInv
  <1>. QED  BY <1>5, <1>6, <1>7, Zenon

\* The WAL adds to it at most the record that is not yet stored.
LEMMA ServedAll ==
    ASSUME StoreInv, OneFile, OneInv, ServedInv
    PROVE  \/ Replayed(Whole, wal) = Recoverable
           \/ \E r \in Records : Replayed(Whole, wal) = Append(Recoverable, r)
  <1>1. CASE pc # "logged"
    BY <1>1, Zenon DEF ServedInv
  <1>2. CASE pc = "logged"
    <2>0. /\ Whole \in Seq(Records) /\ Len(Whole) \in Nat /\ OnDisk \in Nat /\ OnDisk <= Len(Whole)
      BY OneFileFacts, Zenon
    <2>1. Len(Whole) \in OnDisk..Len(Whole)
      BY <2>0
    <2>2. Continues(wal, Whole)
      BY <2>1, WalContinues, Zenon DEF OneInv
    <2>3. wal # << >> /\ End(wal) = Len(Whole) + 1 /\ Recoverable = Whole
      BY <1>2, Zenon DEF OneInv, CallInv, ServedInv
    <2>. QED  BY <2>0, <2>2, <2>3, ReplayedOneMore, Zenon
  <1>. QED  BY <1>1, <1>2, Zenon

\* No step but a power loss takes a record away, and what a step adds is one
\* record at the end.
LEMMA ServedStep ==
    ASSUME StoreInv, OneFile, OneInv, ServedInv, OneFile', ServedInv', [Next]_plVars
    PROVE  \/ Recoverable' = Recoverable
           \/ \E r \in Records : Recoverable' = Append(Recoverable, r)
           \/ power_loss /\ Begins(Recoverable', Replayed(Whole, wal))
  <1>1. CASE UNCHANGED plVars
    <2>1. pc' = pc /\ wal' = wal /\ Whole' = Whole
      BY <1>1, Zenon DEF plVars, diskVars, walVars, Whole
    <2>2. CASE pc = "logged"
      BY <2>1, <2>2, Zenon DEF ServedInv
    <2>3. CASE pc # "logged"
      BY <2>1, <2>3, Zenon DEF ServedInv
    <2>. QED  BY <2>2, <2>3, Zenon
  <1>2. CASE load_existing_segments
    <2>1. pc = "down" /\ pc' # "logged"
      BY <1>2, Zenon DEF load_existing_segments
    <2>. QED  BY <1>2, <2>1, OneLoad, Zenon DEF ServedInv
  <1>3. CASE recover_wal_entry
    <2>1. pc = "replay" /\ pc' = "replay"
      BY <1>3, Zenon DEF recover_wal_entry
    <2>2. Replayed(Whole', wal') = Replayed(Whole, wal)
      BY <1>3, OneReplay, Zenon
    <2>. QED  BY <2>1, <2>2, Zenon DEF ServedInv
  <1>4. CASE recover_wal_end
    <2>1. pc = "replay" /\ pc' # "logged"
      BY <1>4, Zenon DEF recover_wal_end
    <2>. QED  BY <1>4, <2>1, OneReplayed, Zenon DEF ServedInv
  <1>5. CASE write_wal
    <2>1. pc = "ready" /\ pc' = "logged"
      BY <1>5, Zenon DEF write_wal
    <2>. QED  BY <1>5, <2>1, OneWrite, Zenon DEF ServedInv
  <1>6. CASE append_record
    <2>1. pc = "logged" /\ pc' = "stored"
      BY <1>6, Zenon DEF append_record
    <2>. QED  BY <1>6, <2>1, OneAppend, Zenon DEF ServedInv
  <1>7. CASE roll_segment \/ flush \/ sync_wal \/ \E o \in 0..(MaxAppends - 1) : fetch(o)
    <2>1. pc \in {"ready", "stored", "sync_wal"}
      BY <1>7, Zenon DEF roll_segment, flush, sync_wal, fetch
    <2>2. pc' \in {"ready", "sync_wal", "sync_segments"}
      BY <1>7, Zenon DEF roll_segment, flush, sync_wal, fetch
    <2>3. Whole' = Whole
      BY <1>7, OneIdle, Zenon
    <2>. QED  BY <2>1, <2>2, <2>3, Zenon DEF ServedInv
  <1>8. CASE sync_segment
    <2>1. pc = "sync_segments" /\ pc' \in {"sync_segments", "clear_wal"}
      BY <1>8, Zenon DEF sync_segment
    <2>. QED  BY <1>8, <2>1, OneSync, Zenon DEF ServedInv
  <1>9. CASE clear_wal
    <2>1. pc = "clear_wal" /\ pc' = "ready"
      BY <1>9, Zenon DEF clear_wal
    <2>. QED  BY <1>9, <2>1, OneClear, Zenon DEF ServedInv
  <1>10. CASE close
    <2>1. pc = "ready" /\ pc' = "down"
      BY <1>10, Zenon DEF close, Forget
    <2>. QED  BY <1>10, <2>1, OneClose, Zenon DEF ServedInv
  <1>11. CASE kill
    <2>1. pc' = "down"
      BY <1>11, Zenon DEF kill, Forget
    <2>2. Recoverable' = Replayed(Whole, wal)
      BY <1>11, <2>1, WalKilled, Zenon DEF ServedInv
    <2>. QED  BY <2>2, ServedAll, Zenon
  <1>12. CASE power_loss
    <2>1. pc' = "down"
      BY <1>12, Zenon DEF power_loss, Forget
    <2>. QED  BY <1>12, <2>1, WalLost, Zenon DEF ServedInv
  <1>. QED  BY <1>1, <1>2, <1>3, <1>4, <1>5, <1>6, <1>7, <1>8, <1>9, <1>10, <1>11, <1>12,
               Zenon DEF Next

ReturnedInv ==
    /\ losses \in Nat /\ returned \subseteq Nat \X Records
    /\ ReturnedSurvives

\* An append returns from roll_segment or, with a sync, from clear_wal.
LEMMA ReturnedStep ==
    ASSUME [Next]_plVars
    PROVE  /\ \/ returned' = returned
              \/ /\ pc \in {"stored", "clear_wal"} /\ pc' = "ready"
                 /\ returned' = returned \cup current
           /\ losses' = losses \/ losses' = losses + 1
           /\ power_loss => losses' = losses + 1
  <1>1. CASE UNCHANGED plVars \/ \E o \in 0..(MaxAppends - 1) : fetch(o)
    <2>1. returned' = returned /\ losses' = losses
      BY <1>1, Zenon DEF plVars, faultVars, fetch
    <2>. QED  BY <2>1, Zenon DEF power_loss
  <1>2. CASE load_existing_segments \/ recover_wal_entry \/ recover_wal_end
    <2>1. returned' = returned /\ losses' = losses
      BY <1>2, Zenon DEF load_existing_segments, recover_wal_entry, recover_wal_end, faultVars
    <2>. QED  BY <2>1, Zenon DEF power_loss
  <1>3. CASE write_wal \/ append_record \/ flush \/ sync_wal \/ sync_segment
    <2>1. returned' = returned /\ losses' = losses
      BY <1>3, Zenon DEF write_wal, append_record, flush, sync_wal, sync_segment, faultVars
    <2>. QED  BY <2>1, Zenon DEF power_loss
  <1>4. CASE close \/ kill \/ power_loss
    <2>1. returned' = returned /\ (losses' = losses \/ losses' = losses + 1)
      BY <1>4, Zenon DEF close, kill, power_loss, faultVars
    <2>. QED  BY <2>1, Zenon DEF power_loss
  <1>5. CASE roll_segment \/ clear_wal
    <2>1. losses' = losses
      BY <1>5, Zenon DEF roll_segment, clear_wal, faultVars
    <2>2. \/ returned' = returned
          \/ /\ pc \in {"stored", "clear_wal"} /\ pc' = "ready"
             /\ returned' = returned \cup current
      BY <1>5, Zenon DEF roll_segment, clear_wal
    <2>. QED  BY <2>1, <2>2, Zenon DEF power_loss
  <1>. QED  BY <1>1, <1>2, <1>3, <1>4, <1>5, Zenon DEF Next

\* Appends that have returned stay where they were.
LEMMA ReturnedKept ==
    ASSUME StoreInv, OneFile, OneInv, ServedInv, OneFile', OneInv', ServedInv', ReturnedInv,
           [Next]_plVars
    PROVE  ReturnedInv'
  <1>. DEFINE R == Recoverable
  <1>0. R \in Seq(Records) /\ losses \in Nat /\ returned \subseteq Nat \X Records
    BY Zenon DEF ServedInv, ReturnedInv
  <1>1. losses' \in Nat /\ (losses' = 0 => losses = 0 /\ ~power_loss)
    <2>1. losses + 1 \in Nat /\ losses + 1 # 0
      BY <1>0
    <2>. QED  BY <1>0, <2>1, ReturnedStep, Zenon
  <1>2. returned' \subseteq Nat \X Records
    BY <1>0, ReturnedStep, Zenon DEF StoreInv, StoreTypes
  <1>3. ASSUME losses' = 0, NEW a \in returned'
        PROVE  a[1] < Len(R') /\ R'[a[1] + 1] = a[2]
    <2>1. CASE a \in returned
      <3>1. a[1] < Len(R) /\ R[a[1] + 1] = a[2]
        BY <1>1, <1>3, <2>1, Zenon DEF ReturnedInv, ReturnedSurvives
      <3>2. CASE R' = R
        BY <3>1, <3>2, Zenon
      <3>3. ASSUME NEW r \in Records, R' = Append(R, r)
            PROVE  a[1] < Len(R') /\ R'[a[1] + 1] = a[2]
        <4>. DEFINE o == a[1]
        <4>1. o \in Nat
          <5>1. a \in Nat \X Records
            BY <1>0, <2>1, Zenon
          <5>. QED  BY <5>1
        <4>. HIDE DEF o, R
        <4>2. o < Len(R)
          BY <3>1, Zenon DEF o
        <4>3. o < Len(Append(R, r)) /\ Append(R, r)[o + 1] = R[o + 1]
          BY <1>0, <4>1, <4>2
        <4>. QED  BY <3>1, <3>3, <4>3, Zenon DEF o
      <3>. QED  BY <1>1, <1>3, <3>2, <3>3, ServedStep, Zenon
    <2>2. CASE a \notin returned
      <3>1. a \in current /\ pc \in {"stored", "clear_wal"} /\ pc' = "ready"
        BY <2>2, ReturnedStep, Zenon
      <3>2. a[1] < Len(Whole) /\ Whole[a[1] + 1] = a[2]
        BY <3>1, Zenon DEF OneInv, CallInv
      <3>3. roll_segment \/ clear_wal
        <4>1. pc' # pc
          BY <3>1, Zenon
        <4>. QED  BY <3>1, <4>1, Zenon
                  DEF Next, plVars, load_existing_segments, recover_wal_entry, recover_wal_end,
                      write_wal, append_record, flush, sync_wal, sync_segment, fetch, close,
                      kill, power_loss, Forget
      <3>4. Whole' = Whole
        BY <3>3, OneIdle, OneClear, Zenon
      <3>5. R' = Whole
        BY <3>1, <3>4, Zenon DEF ServedInv
      <3>. QED  BY <3>2, <3>5, Zenon
    <2>. QED  BY <2>1, <2>2, Zenon
  <1>. QED  BY <1>1, <1>2, <1>3, Zenon DEF ReturnedInv, ReturnedSurvives

\* Without a power loss, whenever the process ends, a record whose append has
\* returned is served at the offset that was returned, synced or not, as long
\* as the log has one segment.
THEOREM ReturnedIsKept == Spec => [](Len(file) <= 1 => ReturnedSurvives)
  <1>. DEFINE I == OneFile => StoreInv /\ OneInv
              J == FilesSeq /\ (OneFile => ReturnedInv)
  <1>1. Init => J
    <2>1. Init => ReturnedInv
      <3>1. 0 \in Nat
        OBVIOUS
      <3>. QED  BY <3>1, Zenon DEF Init, ReturnedInv, ReturnedSurvives
    <2>. QED  BY <2>1, FilesSeqInit, Zenon
  <1>2. I => (OneFile => ServedInv)
    BY Served, Zenon
  <1>. DEFINE K == I /\ (OneFile => ServedInv)
  <1>3. ASSUME K, K', J, [Next]_plVars PROVE J'
    <2>1. FilesSeq'
      BY <1>3, FilesSeqStep, Zenon
    <2>2. ASSUME OneFile' PROVE ReturnedInv'
      <3>1. OneFile
        BY <1>3, <2>2, OneFileBefore, Zenon
      <3>. QED  BY <1>3, <2>2, <3>1, ReturnedKept, Zenon
    <2>. QED  BY <2>1, <2>2, Zenon
  <1>4. J => (Len(file) <= 1 => ReturnedSurvives)
    BY Zenon DEF OneFile, ReturnedInv
  <1>5. I => K
    BY <1>2, Zenon
  <1>6. Spec => []I
    BY OneInvariant, Zenon
  <1>. HIDE DEF I, J, K
  <1>. QED  BY <1>1, <1>3, <1>4, <1>5, <1>6, PTL DEF Spec
-----------------------------------------------------------------------------
(* The log of one segment implements DurableLog.                           *)

\* What is left of a log after a crash is a beginning of it with the record
\* that was under way.
LEMMA CrashKeeps ==
    ASSUME NEW R \in Seq(Records), NEW S \in Seq(Records), NEW r \in Records, NEW d \in Nat,
           d <= Len(S), Begins(S, R) \/ Begins(S, Append(R, r))
    PROVE  \E k \in d..(Len(R) + 1) : S = SubSeq(Append(R, r), 1, k)
  <1>. DEFINE k == Len(S)
              a == Append(R, r)
  <1>1. /\ a \in Seq(Records) /\ Len(a) = Len(R) + 1 /\ \A i \in 1..Len(R) : a[i] = R[i]
        /\ Len(R) \in Nat /\ k \in Nat
    OBVIOUS
  <1>. HIDE DEF a
  <1>2. k <= Len(R) + 1 /\ \A i \in 1..k : S[i] = a[i]
    <2>1. CASE Begins(S, R)
      <3>1. k <= Len(R) /\ \A i \in 1..k : S[i] = R[i]
        BY <2>1, Zenon DEF Begins
      <3>2. k <= Len(R) + 1 /\ \A i \in 1..k : i \in 1..Len(R)
        BY <1>1, <3>1
      <3>. QED  BY <1>1, <3>1, <3>2, Zenon
    <2>2. CASE Begins(S, Append(R, r))
      BY <1>1, <2>2, Zenon DEF Begins, a
    <2>. QED  BY <2>1, <2>2, Zenon
  <1>3. k \in d..(Len(R) + 1)
    BY <1>1, <1>2
  <1>4. SubSeq(a, 1, k) \in Seq(Records) /\ Len(SubSeq(a, 1, k)) = k
        /\ \A i \in 1..k : SubSeq(a, 1, k)[i] = a[i]
    BY <1>1, <1>2
  <1>. DEFINE b == SubSeq(a, 1, k)
  <1>. HIDE DEF b
  <1>5. b \in Seq(Records) /\ Len(b) = Len(S) /\ \A i \in 1..Len(S) : b[i] = S[i]
    BY <1>2, <1>4, Zenon DEF b
  <1>6. b = S
    BY <1>5
  <1>. QED  BY <1>3, <1>6, Zenon DEF a, b

\* Only a completed sync changes what a sync covers, and it covers everything.
LEMMA SyncedStep ==
    ASSUME [Next]_plVars
    PROVE  synced' = synced \/ clear_wal
  <1>1. CASE UNCHANGED plVars \/ \E o \in 0..(MaxAppends - 1) : fetch(o)
    BY <1>1, Zenon DEF plVars, fetch
  <1>2. CASE load_existing_segments \/ recover_wal_entry \/ recover_wal_end \/ write_wal
    BY <1>2, Zenon DEF load_existing_segments, recover_wal_entry, recover_wal_end, write_wal
  <1>3. CASE append_record \/ roll_segment \/ flush \/ sync_wal \/ sync_segment
    BY <1>3, Zenon DEF append_record, roll_segment, flush, sync_wal, sync_segment
  <1>4. CASE close \/ kill \/ power_loss
    BY <1>4, Zenon DEF close, kill, power_loss
  <1>. QED  BY <1>1, <1>2, <1>3, <1>4, Zenon DEF Next

\* Every step of the storage is a step of DurableLog or none.
LEMMA DurableStep ==
    ASSUME StoreInv, OneFile, OneInv, ServedInv, StoreInv', OneFile', ServedInv',
           SyncedSurvives', [Next]_plVars
    PROVE  [Durable!DLNext]_(Durable!dlVars)
  <1>. DEFINE R == Recoverable
              d == Len(synced)
  <1>0. R \in Seq(Records) /\ R' \in Seq(Records)
    BY Zenon DEF ServedInv
  <1>1. d \in Nat /\ synced \in Seq(Records) /\ synced' \in Seq(Records)
    <2>1. synced \in Seq(Records) /\ synced' \in Seq(Records)
      BY Zenon DEF StoreInv, StoreTypes
    <2>. QED  BY <2>1
  <1>2. CASE clear_wal
    <2>1. synced' = Whole
      BY <1>2, StoreSynced, Zenon DEF Whole
    <2>2. pc = "clear_wal" /\ pc' = "ready"
      BY <1>2, Zenon DEF clear_wal
    <2>3. R = Whole /\ R' = Whole
      BY <1>2, <2>2, OneClear, Zenon DEF ServedInv
    <2>4. Durable!DLSync
      BY <2>1, <2>3, Zenon DEF Durable!DLSync
    <2>. QED  BY <2>4, Zenon DEF Durable!DLNext
  <1>3. CASE synced' = synced
    <2>0. d' = d
      BY <1>3, Zenon
    <2>1. CASE R' = R
      BY <2>0, <2>1, Zenon DEF Durable!dlVars
    <2>2. ASSUME NEW r \in Records, R' = Append(R, r) PROVE Durable!DLNext
      <3>1. Durable!DLAppend(r)
        BY <2>0, <2>2, Zenon DEF Durable!DLAppend
      <3>. QED  BY <3>1, Zenon DEF Durable!DLNext
    <2>3. CASE Begins(R', Replayed(Whole, wal)) /\ R' # R
      <3>1. d <= Len(R')
        <4>1. \A s, t \in Seq(Records) : Begins(s, t) => Len(s) <= Len(t)
          BY Zenon DEF Begins
        <4>2. Begins(synced', R')
          BY Zenon DEF SyncedSurvives
        <4>. QED  BY <1>0, <1>1, <1>3, <4>1, <4>2, Zenon
      <3>2. ASSUME NEW r \in Records, Begins(R', R) \/ Begins(R', Append(R, r))
            PROVE  Durable!DLNext
        <4>1. \E k \in d..(Len(R) + 1) : R' = SubSeq(Append(R, r), 1, k)
          BY <1>0, <1>1, <3>1, <3>2, CrashKeeps, Zenon
        <4>2. Durable!DLCrash(r)
          BY <2>0, <4>1, Zenon DEF Durable!DLCrash
        <4>. QED  BY <4>2, Zenon DEF Durable!DLNext
      <3>3. CASE Replayed(Whole, wal) = R
        <4>1. Begins(R', R)
          BY <2>3, <3>3, Zenon
        <4>2. R[1] \in Records
          <5>. DEFINE S == R'
          <5>. HIDE DEF R, S
          <5>1. Begins(S, R) /\ S \in Seq(Records) /\ S # R
            BY <1>0, <2>3, <4>1, Zenon DEF S
          <5>2. Len(R) # 0
            BY <1>0, <5>1 DEF Begins
          <5>. QED  BY <1>0, <5>2
        <4>. QED  BY <3>2, <4>1, <4>2, Zenon
      <3>4. ASSUME NEW r \in Records, Replayed(Whole, wal) = Append(R, r) PROVE Durable!DLNext
        BY <2>3, <3>2, <3>4, Zenon
      <3>. QED  BY <3>3, <3>4, ServedAll, Zenon
    <2>. QED  BY <2>1, <2>2, <2>3, ServedStep, Zenon
  <1>. QED  BY <1>2, <1>3, SyncedStep, Zenon
=============================================================================
