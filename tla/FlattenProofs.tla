---------------------------- MODULE FlattenProofs ---------------------------
(***************************************************************************)
(* What FlattenSeq makes of a sequence of sequences of any length.  Climb  *)
(* is induction on the naturals in a form the provers can use; with it the *)
(* function FlattenSeq is defined by is shown to exist.                    *)
(***************************************************************************)
EXTENDS Flatten, WellFoundedInduction, TLAPS

\* A set of numbers that has 0 and, with each of them, the next has them all.
LEMMA Climb ==
    ASSUME NEW S, 0 \in S, \A n \in Nat : n \in S => n + 1 \in S
    PROVE  \A n \in Nat : n \in S
  <1>. SUFFICES ASSUME NEW m \in Nat, m \notin S PROVE FALSE
    BY Zenon
  <1>. DEFINE M == {n \in Nat : n \notin S}
  <1>1. M \in SUBSET Nat /\ M # {}
    BY Zenon
  <1>2. PICK x \in M : \A y \in M : ~(<<y, x>> \in OpToRel(<, Nat))
    <2>. HIDE DEF M
    <2>. QED  BY <1>1, NatLessThanWellFounded, WFMin, Zenon
  <1>3. x \in Nat /\ x \notin S /\ x # 0
    BY Zenon
  <1>4. x - 1 \in Nat /\ x - 1 < x /\ (x - 1) + 1 = x
    BY <1>3
  <1>5. x - 1 \in M
    BY <1>3, <1>4, Zenon
  <1>6. <<x - 1, x>> \in OpToRel(<, Nat)
    <2>. DEFINE y == x - 1
    <2>1. y \in Nat /\ y < x
      BY <1>4
    <2>. HIDE DEF y
    <2>. QED  BY <1>3, <2>1 DEF OpToRel
  <1>. QED  BY <1>2, <1>5, <1>6, Zenon

\* The function that FlattenSeq is the last value of.
Flattens(f, s, n) ==
    f = [m \in 0..n |-> IF m = 0 THEN << >> ELSE f[m - 1] \o s[m]]

\* There is such a function, however many sequences there are.
LEMMA FlattensExists ==
    ASSUME NEW s, NEW n \in Nat
    PROVE  \E f : Flattens(f, s, n)
  <1>. DEFINE S == {m \in Nat : \E f : Flattens(f, s, m)}
  <1>1. 0 \in S
    <2>. DEFINE f == [m \in 0..0 |-> << >>]
    <2>1. f = [m \in 0..0 |-> IF m = 0 THEN << >> ELSE f[m - 1] \o s[m]]
      OBVIOUS
    <2>2. Flattens(f, s, 0)
      BY <2>1, Zenon DEF Flattens
    <2>. QED  BY <2>2, Zenon
  <1>2. ASSUME NEW m \in Nat, m \in S PROVE m + 1 \in S
    <2>1. PICK f : Flattens(f, s, m)
      BY <1>2, Zenon
    <2>. DEFINE last == f[m] \o s[m + 1]
                g == [i \in 0..(m + 1) |-> IF i <= m THEN f[i] ELSE last]
                h == [i \in 0..(m + 1) |-> IF i = 0 THEN << >> ELSE g[i - 1] \o s[i]]
    <2>2. \A i \in 0..m : f[i] = IF i = 0 THEN << >> ELSE f[i - 1] \o s[i]
      BY <2>1, Zenon DEF Flattens
    <2>. HIDE DEF last
    <2>3. ASSUME NEW i \in 0..(m + 1) PROVE g[i] = h[i]
      <3>1. CASE i = 0
        <4>1. i \in 0..m /\ g[i] = f[i] /\ h[i] = << >>
          BY <3>1
        <4>. QED  BY <2>2, <3>1, <4>1, Zenon
      <3>2. CASE i <= m /\ i # 0
        <4>1. i \in 0..m /\ i - 1 \in 0..(m + 1) /\ i - 1 <= m
          BY <3>2
        <4>2. g[i] = f[i] /\ g[i - 1] = f[i - 1] /\ h[i] = g[i - 1] \o s[i]
          BY <3>2, <4>1, Zenon
        <4>. QED  BY <2>2, <3>2, <4>1, <4>2, Zenon
      <3>3. CASE ~(i <= m)
        <4>1. i = m + 1 /\ i # 0 /\ i - 1 = m /\ g[i] = last /\ g[i - 1] = f[m]
          BY <3>3
        <4>2. h[i] = g[i - 1] \o s[i]
          BY <4>1
        <4>. QED  BY <4>1, <4>2, Zenon DEF last
      <3>. QED  BY <3>1, <3>2, <3>3, Zenon
    <2>4. g = h
      BY <2>3
    <2>5. Flattens(g, s, m + 1)
      BY <2>4, Zenon DEF Flattens
    <2>. QED  BY <2>5
  <1>. HIDE DEF S
  <1>3. n \in S
    BY <1>1, <1>2, Climb, Zenon
  <1>. QED  BY <1>3, Zenon DEF S

\* FlattenSeq is the last value of such a function,
LEMMA FlattenValue ==
    ASSUME NEW s, Len(s) \in Nat
    PROVE  \E f : /\ FlattenSeq(s) = f[Len(s)] /\ f[0] = << >>
                  /\ \A m \in 1..Len(s) : f[m] = f[m - 1] \o s[m]
  <1>. DEFINE f == CHOOSE f : Flattens(f, s, Len(s))
              n == Len(s)
  <1>1. Flattens(f, s, n)
    BY FlattensExists, Zenon
  <1>2. FlattenSeq(s) = f[n]
    BY Zenon DEF FlattenSeq, Flattens
  <1>. HIDE DEF f, n
  <1>3. n \in Nat
    BY Zenon DEF n
  <1>4. 0 \in 0..n /\ \A m \in 1..n : m \in 0..n /\ m # 0
    BY <1>3
  <1>5. \A m \in 0..n : f[m] = IF m = 0 THEN << >> ELSE f[m - 1] \o s[m]
    BY <1>1, Zenon DEF Flattens
  <1>6. f[0] = << >> /\ \A m \in 1..n : f[m] = f[m - 1] \o s[m]
    BY <1>4, <1>5, Zenon
  <1>. QED  BY <1>2, <1>6, Zenon DEF n

\* of no sequences it is empty,
LEMMA FlattenNone == FlattenSeq(<< >>) = << >>
  <1>1. Len(<< >>) = 0 /\ 0 \in Nat
    OBVIOUS
  <1>. QED  BY <1>1, FlattenValue, Zenon

\* and one more sequence comes behind the others.
LEMMA FlattenAppend ==
    ASSUME NEW R, NEW s \in Seq(Seq(R)), NEW x \in Seq(R)
    PROVE  /\ FlattenSeq(s) \in Seq(R)
           /\ FlattenSeq(Append(s, x)) = FlattenSeq(s) \o x
  <1>. DEFINE t == Append(s, x)
              n == Len(s)
  <1>1. /\ n \in Nat /\ Len(t) = n + 1 /\ Len(t) \in Nat /\ t[n + 1] = x
        /\ \A i \in 1..n : t[i] = s[i] /\ s[i] \in Seq(R)
    OBVIOUS
  <1>2. PICK f : /\ FlattenSeq(s) = f[n] /\ f[0] = << >>
                 /\ \A m \in 1..n : f[m] = f[m - 1] \o s[m]
    BY <1>1, FlattenValue, Zenon
  <1>. HIDE DEF t
  <1>3. PICK g : /\ FlattenSeq(t) = g[Len(t)] /\ g[0] = << >>
                 /\ \A m \in 1..Len(t) : g[m] = g[m - 1] \o t[m]
    BY <1>1, FlattenValue, Zenon
  <1>. HIDE DEF n
  <1>. DEFINE S == {i \in Nat : i <= n => f[i] = g[i] /\ f[i] \in Seq(R)}
  <1>4. 0 \in S
    <2>1. << >> \in Seq(R) /\ 0 \in Nat
      OBVIOUS
    <2>. QED  BY <1>2, <1>3, <2>1, Zenon
  <1>5. ASSUME NEW m \in Nat, m \in S PROVE m + 1 \in S
    <2>0. m + 1 \in Nat
      OBVIOUS
    <2>. SUFFICES ASSUME m + 1 <= n
                  PROVE  f[m + 1] = g[m + 1] /\ f[m + 1] \in Seq(R)
      BY <2>0, Zenon
    <2>1. m <= n /\ m + 1 \in 1..n /\ m + 1 \in 1..Len(t) /\ (m + 1) - 1 = m
      BY <1>1
    <2>2. f[m] = g[m] /\ f[m] \in Seq(R) /\ s[m + 1] \in Seq(R) /\ t[m + 1] = s[m + 1]
      BY <1>1, <1>5, <2>1, Zenon
    <2>3. f[m + 1] = f[m] \o s[m + 1] /\ g[m + 1] = g[m] \o t[m + 1]
      BY <1>2, <1>3, <2>1, Zenon
    <2>4. \A a, b \in Seq(R) : a \o b \in Seq(R)
      OBVIOUS
    <2>. QED  BY <2>2, <2>3, <2>4, Zenon
  <1>. HIDE DEF S
  <1>6. n \in S
    BY <1>1, <1>4, <1>5, Climb, Zenon
  <1>7. n <= n /\ n + 1 \in 1..Len(t) /\ (n + 1) - 1 = n
    BY <1>1
  <1>8. f[n] = g[n] /\ f[n] \in Seq(R)
    BY <1>6, <1>7, Zenon DEF S
  <1>9. g[n + 1] = g[n] \o x
    BY <1>1, <1>3, <1>7, Zenon
  <1>. QED  BY <1>1, <1>2, <1>3, <1>8, <1>9, Zenon DEF t

\* The first n sequences as one.
Upto(s, n) == FlattenSeq(SubSeq(s, 1, n))

\* The first sequences as one, one more at a time.
LEMMA UptoSteps ==
    ASSUME NEW R, NEW s \in Seq(Seq(R))
    PROVE  /\ Upto(s, 0) = << >> /\ Upto(s, Len(s)) = FlattenSeq(s)
           /\ \A n \in 0..Len(s) : Upto(s, n) \in Seq(R)
           /\ \A n \in 1..Len(s) : s[n] \in Seq(R) /\ Upto(s, n) = Upto(s, n - 1) \o s[n]
           /\ FlattenSeq(s) \in Seq(R)
  <1>1. SubSeq(s, 1, 0) = << >> /\ SubSeq(s, 1, Len(s)) = s /\ Len(<< >>) = 0
    OBVIOUS
  <1>2. << >> \in Seq(R) /\ Len(s) \in Nat
    OBVIOUS
  <1>3. \A n \in 0..Len(s) : SubSeq(s, 1, n) \in Seq(Seq(R))
    OBVIOUS
  <1>4. ASSUME NEW n \in 1..Len(s)
        PROVE  /\ SubSeq(s, 1, n) = Append(SubSeq(s, 1, n - 1), s[n])
               /\ s[n] \in Seq(R) /\ SubSeq(s, 1, n - 1) \in Seq(Seq(R))
    OBVIOUS
  <1>5. Upto(s, 0) = << >> /\ Upto(s, Len(s)) = FlattenSeq(s)
    BY <1>1, FlattenNone, Zenon DEF Upto
  <1>6. \A n \in 0..Len(s) : Upto(s, n) \in Seq(R)
    BY <1>2, <1>3, FlattenAppend, Zenon DEF Upto
  <1>7. \A n \in 1..Len(s) : s[n] \in Seq(R) /\ Upto(s, n) = Upto(s, n - 1) \o s[n]
    BY <1>4, FlattenAppend, Zenon DEF Upto
  <1>8. FlattenSeq(s) \in Seq(R)
    BY <1>2, FlattenAppend, Zenon
  <1>. QED  BY <1>5, <1>6, <1>7, <1>8, Zenon
=============================================================================
