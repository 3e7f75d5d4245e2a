----------------------------- MODULE WireProofs -----------------------------
(***************************************************************************)
(* Proofs about Codec, Frame and Wire.  Parsing inverts encoding, for      *)
(* strings, numbers and lists of any length (CodecAgrees).  The frames of  *)
(* a connection are delivered whole, in order and once, for any capacity,  *)
(* any cuts of the stream and any payloads that fit a header: the bytes    *)
(* that went into the stream are one string T, in which every frame has    *)
(* its place, and StreamInv says that what read_exact has, what is on the  *)
(* wire and what the iovecs hold are the rest of T.  Together, messages    *)
(* arrive as they were sent.                                               *)
(***************************************************************************)
EXTENDS Wire, FlattenProofs

\* A length that fits the header's 32 bits comes out of it as it went in.
LEMMA LengthRoundTrip ==
    ASSUME NEW n \in Nat, n \div 16777216 < 256
    PROVE  /\ htonl(n) \in Seq(Bytes) /\ Len(htonl(n)) = 4
           /\ ntohl(htonl(n)) = n
  <1>1. /\ (n \div 16777216) % 256 \in Bytes /\ (n \div 65536) % 256 \in Bytes
        /\ (n \div 256) % 256 \in Bytes /\ n % 256 \in Bytes
    BY DEF Bytes
  <1>2. htonl(n) \in Seq(Bytes) /\ Len(htonl(n)) = 4
    BY <1>1 DEF htonl
  <1>3. ((((n \div 16777216) % 256) * 256 + ((n \div 65536) % 256)) * 256
           + ((n \div 256) % 256)) * 256 + (n % 256) = n
    OBVIOUS
  <1>. QED  BY <1>2, <1>3 DEF htonl, ntohl

-----------------------------------------------------------------------------
(* Pieces of a byte string T: what a parser takes from its input, and what *)
(* the stream of all bytes ever given to write_frame is made of.           *)

\* s is the piece of T that begins after p bytes.
At(s, T, p) == p + Len(s) <= Len(T) /\ \A j \in 1..Len(s) : s[j] = T[p + j]

\* Two neighbouring pieces make one.
LEMMA AtConcat ==
    ASSUME NEW T \in Seq(Bytes), NEW s \in Seq(Bytes), NEW u \in Seq(Bytes), NEW p \in Nat
    PROVE  At(s \o u, T, p) <=> At(s, T, p) /\ At(u, T, p + Len(s))
  <1>1. Len(s \o u) = Len(s) + Len(u) /\ Len(s) \in Nat /\ Len(u) \in Nat /\ Len(T) \in Nat
    OBVIOUS
  <1>2. \A j \in 1..Len(s) : (s \o u)[j] = s[j]
    OBVIOUS
  <1>3. \A j \in 1..Len(u) : (s \o u)[Len(s) + j] = u[j]
    OBVIOUS
  <1>. DEFINE su == s \o u
  <1>. HIDE DEF su
  <1>4. ASSUME At(su, T, p) PROVE At(s, T, p) /\ At(u, T, p + Len(s))
    <2>1. At(s, T, p)
      <3>1. ASSUME NEW j \in 1..Len(s) PROVE s[j] = T[p + j]
        <4>1. j \in 1..Len(su)
          BY <1>1 DEF su
        <4>2. su[j] = s[j]
          BY <1>2, Zenon DEF su
        <4>. QED  BY <1>4, <4>1, <4>2, Zenon DEF At
      <3>. QED  BY <1>1, <1>4, <3>1 DEF At, su
    <2>2. ASSUME NEW j \in 1..Len(u) PROVE u[j] = T[p + Len(s) + j]
      <3>1. Len(s) + j \in 1..Len(su) /\ p + (Len(s) + j) = p + Len(s) + j
        BY <1>1 DEF su
      <3>2. su[Len(s) + j] = u[j]
        BY <1>3, Zenon DEF su
      <3>. QED  BY <1>4, <3>1, <3>2 DEF At
    <2>. QED  BY <1>1, <1>4, <2>1, <2>2 DEF At, su
  <1>5. ASSUME At(s, T, p), At(u, T, p + Len(s)) PROVE At(su, T, p)
    <2>1. ASSUME NEW j \in 1..Len(su) PROVE su[j] = T[p + j]
      <3>1. CASE j \in 1..Len(s)
        BY <1>2, <1>5, <3>1 DEF At, su
      <3>2. CASE j \notin 1..Len(s)
        <4>1. j - Len(s) \in 1..Len(u) /\ j = Len(s) + (j - Len(s))
              /\ p + Len(s) + (j - Len(s)) = p + j
          BY <1>1, <3>2 DEF su
        <4>2. su[j] = u[j - Len(s)]
          BY <1>3, <4>1 DEF su
        <4>. QED  BY <1>5, <4>1, <4>2 DEF At
      <3>. QED  BY <3>1, <3>2, Zenon
    <2>. QED  BY <1>1, <1>5, <2>1 DEF At, su
  <1>. QED  BY <1>4, <1>5, Zenon DEF su

\* A piece taken in two.
LEMMA AtSplit ==
    ASSUME NEW T \in Seq(Bytes), NEW s \in Seq(Bytes), NEW p \in Nat, At(s, T, p),
           NEW k \in 0..Len(s)
    PROVE  /\ SubSeq(s, 1, k) \in Seq(Bytes) /\ Len(SubSeq(s, 1, k)) = k
           /\ SubSeq(s, k + 1, Len(s)) \in Seq(Bytes)
           /\ Len(SubSeq(s, k + 1, Len(s))) = Len(s) - k
           /\ At(SubSeq(s, 1, k), T, p)
           /\ At(SubSeq(s, k + 1, Len(s)), T, p + k)
  <1>. DEFINE a == SubSeq(s, 1, k)
              b == SubSeq(s, k + 1, Len(s))
  <1>1. a \in Seq(Bytes) /\ Len(a) = k /\ \A j \in 1..k : a[j] = s[j]
    OBVIOUS
  <1>2. /\ b \in Seq(Bytes) /\ Len(b) = Len(s) - k
        /\ \A j \in 1..(Len(s) - k) : b[j] = s[k + j]
    OBVIOUS
  <1>. HIDE DEF a, b
  <1>3. At(a, T, p)
    BY <1>1 DEF At
  <1>4. At(b, T, p + k)
    <2>1. ASSUME NEW j \in 1..Len(b) PROVE b[j] = T[p + k + j]
      <3>1. k + j \in 1..Len(s) /\ p + (k + j) = p + k + j
        BY <1>2
      <3>. QED  BY <1>2, <3>1 DEF At
    <2>. QED  BY <1>2, <2>1 DEF At
  <1>. QED  BY <1>1, <1>2, <1>3, <1>4, Zenon DEF a, b

\* What \o makes of two byte strings.
LEMMA ConcatBytes ==
    ASSUME NEW a \in Seq(Bytes), NEW b \in Seq(Bytes)
    PROVE  /\ a \o b \in Seq(Bytes) /\ Len(a \o b) = Len(a) + Len(b)
           /\ b = << >> => a \o b = a
  OBVIOUS

\* Byte strings with the same bytes are the same.
LEMMA SameBytes ==
    ASSUME NEW s \in Seq(Bytes), NEW u \in Seq(Bytes), Len(s) = Len(u),
           \A j \in 1..Len(s) : s[j] = u[j]
    PROVE  s = u
  OBVIOUS

\* Pieces of the same length at the same place are the same.
LEMMA AtSame ==
    ASSUME NEW T \in Seq(Bytes), NEW s \in Seq(Bytes), NEW u \in Seq(Bytes), NEW p \in Nat,
           At(s, T, p), At(u, T, p), Len(s) = Len(u)
    PROVE  s = u
  <1>1. \A j \in 1..Len(s) : s[j] = u[j]
    BY DEF At
  <1>. QED  BY <1>1, SameBytes, Zenon

\* What is in T stays there when T grows.
LEMMA AtGrows ==
    ASSUME NEW T \in Seq(Bytes), NEW X \in Seq(Bytes), NEW s \in Seq(Bytes), NEW p \in Nat,
           At(s, T, p)
    PROVE  At(s, T \o X, p)
  <1>1. Len(T \o X) = Len(T) + Len(X) /\ \A j \in 1..Len(T) : (T \o X)[j] = T[j]
    OBVIOUS
  <1>2. \A j \in 1..Len(s) : p + j \in 1..Len(T)
    BY DEF At
  <1>. DEFINE TX == T \o X
  <1>. HIDE DEF TX
  <1>. QED  BY <1>1, <1>2 DEF At, TX

\* The new end of T.
LEMMA AtEnd ==
    ASSUME NEW T \in Seq(Bytes), NEW X \in Seq(Bytes)
    PROVE  At(X, T \o X, Len(T))
  <1>1. Len(T \o X) = Len(T) + Len(X) /\ \A j \in 1..Len(X) : (T \o X)[Len(T) + j] = X[j]
    OBVIOUS
  <1>. QED  BY <1>1 DEF At
-----------------------------------------------------------------------------
(* The codec: words.                                                       *)

\* put_u32 writes four bytes, whatever the number.
LEMMA WordBytes ==
    ASSUME NEW v \in Int
    PROVE  put_u32(v) \in Seq(Bytes) /\ Len(put_u32(v)) = 4
  <1>1. /\ (v \div 16777216) % 256 \in 0..255 /\ (v \div 65536) % 256 \in 0..255
        /\ (v \div 256) % 256 \in 0..255 /\ v % 256 \in 0..255
    OBVIOUS
  <1>. QED  BY <1>1 DEF put_u32, Bytes

\* A word is read as the number it was made of, when that is a 32-bit number;
LEMMA WordInverts ==
    ASSUME NEW v \in Words
    PROVE  Value32(put_u32(v)) = v
  <1>1. v \in Int /\ -2147483648 <= v /\ v <= 2147483647
    BY DEF Words, Wide
  <1>. DEFINE a == (v \div 16777216) % 256
              b == (v \div 65536) % 256
              c == (v \div 256) % 256
              d == v % 256
              top == IF a < 128 THEN a ELSE a - 256
  <1>2. ((top * 256 + b) * 256 + c) * 256 + d = v
    BY <1>1
  <1>3. put_u32(v) = <<a, b, c, d>>
    BY SMT DEF put_u32
  <1>. HIDE DEF a, b, c, d
  <1>. QED  BY <1>2, <1>3 DEF Value32

\* a length that is too large for that is read as a negative number.
LEMMA LongLength ==
    ASSUME NEW n \in Nat, n \div 16777216 < 256, n > 2147483647
    PROVE  Value32(put_u32(n)) < 0
  <1>. DEFINE a == (n \div 16777216) % 256
              b == (n \div 65536) % 256
              c == (n \div 256) % 256
              d == n % 256
  <1>1. a \in 128..255 /\ b \in 0..255 /\ c \in 0..255 /\ d \in 0..255
    OBVIOUS
  <1>2. put_u32(n) = <<a, b, c, d>>
    BY SMT DEF put_u32
  <1>. HIDE DEF a, b, c, d
  <1>. QED  BY <1>1, <1>2 DEF Value32

\* put_u64 writes eight bytes, which are read as the number they were made of.
LEMMA LongWordInverts ==
    ASSUME NEW v \in Words
    PROVE  /\ put_u64(v) \in Seq(Bytes) /\ Len(put_u64(v)) = 8
           /\ Value64(put_u64(v)) = v
  <1>. DEFINE h == HighWord(v)
              a == put_u32(h)
              b == put_u32(v)
  <1>1. v \in Int /\ -2147483648 <= v /\ v <= 2147483647
    BY DEF Words, Wide
  <1>2. h \in Words /\ h \in Int /\ v \in Int
    BY <1>1, SMT DEF HighWord, Words, Wide
  <1>3. /\ a \in Seq(Bytes) /\ Len(a) = 4 /\ b \in Seq(Bytes) /\ Len(b) = 4
        /\ Value32(a) = h /\ Value32(b) = v
    BY <1>2, WordBytes, WordInverts, Zenon
  <1>. HIDE DEF a, b, h
  <1>4. put_u64(v) = a \o b
    BY Zenon DEF put_u64, a, b, h
  <1>5. a \o b \in Seq(Bytes) /\ Len(a \o b) = 8 /\ SubSeq(a \o b, 5, 8) = b
    <2>1. /\ a \in Seq(Bytes) /\ b \in Seq(Bytes) /\ Len(a) = 4 /\ Len(b) = 4
          /\ Len(a) + 1 = 5 /\ Len(a) + Len(b) = 8
      BY <1>3
    <2>2. \A x, y \in Seq(Bytes) : /\ x \o y \in Seq(Bytes) /\ Len(x \o y) = Len(x) + Len(y)
                                   /\ SubSeq(x \o y, Len(x) + 1, Len(x) + Len(y)) = y
      <3>. SUFFICES ASSUME NEW x \in Seq(Bytes), NEW y \in Seq(Bytes)
                    PROVE  /\ x \o y \in Seq(Bytes) /\ Len(x \o y) = Len(x) + Len(y)
                           /\ SubSeq(x \o y, Len(x) + 1, Len(x) + Len(y)) = y
        OBVIOUS
      <3>. DEFINE xy == x \o y
                  u == SubSeq(xy, Len(x) + 1, Len(x) + Len(y))
      <3>1. /\ xy \in Seq(Bytes) /\ Len(xy) = Len(x) + Len(y)
            /\ \A j \in 1..Len(y) : xy[Len(x) + j] = y[j]
        OBVIOUS
      <3>. HIDE DEF xy
      <3>2. u \in Seq(Bytes) /\ Len(u) = Len(y) /\ \A j \in 1..Len(y) : u[j] = xy[Len(x) + j]
        BY <3>1
      <3>. HIDE DEF u
      <3>3. u = y
        BY <3>1, <3>2, SameBytes
      <3>. QED  BY <3>1, <3>3, Zenon DEF xy, u
    <2>. QED  BY <2>1, <2>2, Zenon
  <1>6. Value32(a \o b) = Value32(a)
    <2>1. (a \o b)[1] = a[1] /\ (a \o b)[2] = a[2] /\ (a \o b)[3] = a[3] /\ (a \o b)[4] = a[4]
      <3>1. \A x, y \in Seq(Bytes) : \A j \in 1..Len(x) : (x \o y)[j] = x[j]
        OBVIOUS
      <3>2. 1 \in 1..Len(a) /\ 2 \in 1..Len(a) /\ 3 \in 1..Len(a) /\ 4 \in 1..Len(a)
        BY <1>3
      <3>. QED  BY <1>3, <3>1, <3>2, Zenon
    <2>. QED  BY <2>1, ZenonT(40) DEF Value32
  <1>7. Value64(a \o b) = v
    BY <1>3, <1>5, <1>6, Zenon DEF Value64, h
  <1>. QED  BY <1>4, <1>5, <1>7, Zenon

\* A size is a 32-bit number that is not negative,
IsSize(n) == n \in Nat /\ n <= 2147483647

\* as the limits of get_string and of the lists are.
LEMMA Limits == IsSize(kMaxStringBytes) /\ IsSize(kMaxBatchMessages)
  BY CodecAssumption, SMT DEF CodecAssumption, IsSize

\* A length that is within a limit is read as it is, one beyond it is read as a
\* number beyond it or a negative one.
LEMMA LengthRead ==
    ASSUME NEW T \in Seq(Bytes), FitsHeader(T), NEW n \in Nat, n <= Len(T), NEW K, IsSize(K)
    PROVE  /\ n <= K => Value32(put_u32(n)) = n
           /\ ~(n <= K) => Value32(put_u32(n)) \notin 0..K
  <1>1. n <= 2147483647 => n \in Words
    BY SMT DEF Words, Wide
  <1>2. n <= 2147483647 => Value32(put_u32(n)) = n
    BY <1>1, WordInverts, SMT
  <1>3. n > 2147483647 => Value32(put_u32(n)) < 0
    <2>1. n \div 16777216 < 256
      BY SMT DEF FitsHeader
    <2>. QED  BY <2>1, LongLength, SMT
  <1>. QED  BY <1>2, <1>3, SMT DEF IsSize
-----------------------------------------------------------------------------
(* The codec: what get_ reads where put_ wrote.                            *)

\* What a read makes of a cursor: of one that has failed, nothing,
LEMMA AfterFailure ==
    ASSUME NEW in
    PROVE  /\ \A n : Take(in, Failed, n) = Failed
           /\ get_u8(in, Failed) = Failed /\ get_u32(in, Failed) = Failed
           /\ get_u64(in, Failed) = Failed /\ get_string(in, Failed) = Failed
           /\ \A items : get_item(in, Failed, items) = Failed
           /\ \A items : get_list(in, Failed, items) = Failed
  <1>0. ~Failed.ok
    BY DEF Failed
  <1>1. \A n : Take(in, Failed, n) = Failed
    BY <1>0 DEF Take
  <1>2. get_u8(in, Failed) = Failed /\ get_u32(in, Failed) = Failed /\ get_u64(in, Failed) = Failed
    BY <1>0, <1>1 DEF get_u8, get_u32, get_u64
  <1>3. get_string(in, Failed) = Failed
    BY <1>0, <1>2 DEF get_string
  <1>4. \A items : get_item(in, Failed, items) = Failed
    BY <1>2, <1>3, Zenon DEF get_item
  <1>5. \A items : get_list(in, Failed, items) = Failed
    BY <1>0, <1>2 DEF get_list
  <1>. QED  BY <1>1, <1>2, <1>3, <1>4, <1>5, Zenon

\* and of one that stands at p, n bytes if there are as many,
LEMMA TakeGot ==
    ASSUME NEW in, NEW p, NEW v, NEW n
    PROVE  Take(in, Got(p, v), n) = IF p + n <= Len(in)
                                    THEN Got(p + n, SubSeq(in, p + 1, p + n)) ELSE Failed
  <1>1. Got(p, v).ok
    BY DEF Got
  <1>2. Got(p, v).pos = p
    BY DEF Got
  <1>. QED  BY <1>1, <1>2 DEF Take

\* which are the value of a word or the size of a string.
LEMMA GetGot ==
    ASSUME NEW in, NEW c, NEW p, NEW x
    PROVE  /\ Take(in, c, 1) = Got(p, x) => get_u8(in, c) = Got(p, x[1])
           /\ Take(in, c, 1) = Failed => get_u8(in, c) = Failed
           /\ Take(in, c, 4) = Got(p, x) => get_u32(in, c) = Got(p, Value32(x))
           /\ Take(in, c, 4) = Failed => get_u32(in, c) = Failed
           /\ Take(in, c, 8) = Got(p, x) => get_u64(in, c) = Got(p, Value64(x))
           /\ Take(in, c, 8) = Failed => get_u64(in, c) = Failed
           /\ get_u32(in, c) = Got(p, x) =>
                 get_string(in, c) = IF x \in 0..kMaxStringBytes
                                     THEN Take(in, Got(p, x), x) ELSE Failed
           /\ get_u32(in, c) = Failed => get_string(in, c) = Failed
  <1>1. Got(p, x).ok
    BY DEF Got
  <1>2. Got(p, x).pos = p /\ Got(p, x).value = x
    BY DEF Got
  <1>3. ~Failed.ok
    BY DEF Failed
  <1>4. Take(in, c, 1) = Got(p, x) => get_u8(in, c) = Got(p, x[1])
    BY <1>1, <1>2 DEF get_u8
  <1>5. Take(in, c, 4) = Got(p, x) => get_u32(in, c) = Got(p, Value32(x))
    BY <1>1, <1>2 DEF get_u32
  <1>6. Take(in, c, 8) = Got(p, x) => get_u64(in, c) = Got(p, Value64(x))
    BY <1>1, <1>2 DEF get_u64
  <1>7. /\ Take(in, c, 1) = Failed => get_u8(in, c) = Failed
        /\ Take(in, c, 4) = Failed => get_u32(in, c) = Failed
        /\ Take(in, c, 8) = Failed => get_u64(in, c) = Failed
    BY <1>3 DEF get_u8, get_u32, get_u64
  <1>8. get_u32(in, c) = Got(p, x) =>
            get_string(in, c) = IF x \in 0..kMaxStringBytes
                                THEN Take(in, Got(p, x), x) ELSE Failed
    BY <1>1, <1>2 DEF get_string
  <1>9. get_u32(in, c) = Failed => get_string(in, c) = Failed
    BY <1>3 DEF get_string
  <1>. QED  BY <1>4, <1>5, <1>6, <1>7, <1>8, <1>9, Zenon

\* As many bytes as x has, read where x is, are x.
LEMMA TakeThere ==
    ASSUME NEW in \in Seq(Bytes), NEW p \in Nat, NEW v,
           NEW x \in Seq(Bytes), At(x, in, p)
    PROVE  Take(in, Got(p, v), Len(x)) = Got(p + Len(x), x)
  <1>. DEFINE u == SubSeq(in, p + 1, p + Len(x))
  <1>1. p + Len(x) <= Len(in) /\ Len(x) \in Nat
    BY DEF At
  <1>2. u \in Seq(Bytes) /\ Len(u) = Len(x) /\ \A j \in 1..Len(x) : u[j] = in[p + j]
    BY <1>1
  <1>. HIDE DEF u
  <1>3. u = x
    <2>1. \A j \in 1..Len(x) : u[j] = x[j]
      BY <1>2, Zenon DEF At
    <2>. QED  BY <1>2, <2>1, SameBytes, Zenon
  <1>. QED  BY <1>1, <1>3, TakeGot, Zenon DEF u

\* A byte, a word of four bytes and a word of eight.
LEMMA ReadWords ==
    ASSUME NEW in \in Seq(Bytes), NEW p \in Nat, NEW x
    PROVE  /\ \A v \in Bytes : At(<<v>>, in, p) => get_u8(in, Got(p, x)) = Got(p + 1, v)
           /\ \A v \in Int : At(put_u32(v), in, p) =>
                                 get_u32(in, Got(p, x)) = Got(p + 4, Value32(put_u32(v)))
           /\ \A v \in Words : At(put_u64(v), in, p) => get_u64(in, Got(p, x)) = Got(p + 8, v)
  <1>1. ASSUME NEW v \in Bytes, At(<<v>>, in, p) PROVE get_u8(in, Got(p, x)) = Got(p + 1, v)
    <2>1. <<v>> \in Seq(Bytes) /\ Len(<<v>>) = 1 /\ <<v>>[1] = v
      OBVIOUS
    <2>2. Take(in, Got(p, x), 1) = Got(p + 1, <<v>>)
      <3>. DEFINE n == 1
      <3>1. Len(<<v>>) = n
        BY <2>1, Zenon
      <3>. HIDE DEF n
      <3>2. Take(in, Got(p, x), n) = Got(p + n, <<v>>)
        BY <1>1, <2>1, <3>1, TakeThere, Zenon
      <3>. QED  BY <3>2, Zenon DEF n
    <2>3. Take(in, Got(p, x), 1) = Got(p + 1, <<v>>) =>
              get_u8(in, Got(p, x)) = Got(p + 1, <<v>>[1])
      BY GetGot, SMT
    <2>. QED  BY <2>1, <2>2, <2>3, Zenon
  <1>2. ASSUME NEW v \in Int, At(put_u32(v), in, p)
        PROVE  get_u32(in, Got(p, x)) = Got(p + 4, Value32(put_u32(v)))
    <2>1. put_u32(v) \in Seq(Bytes) /\ Len(put_u32(v)) = 4
      BY WordBytes, Zenon
    <2>2. Take(in, Got(p, x), 4) = Got(p + 4, put_u32(v))
      <3>. DEFINE n == 4
      <3>1. Len(put_u32(v)) = n
        BY <2>1, Zenon
      <3>. HIDE DEF n
      <3>2. Take(in, Got(p, x), n) = Got(p + n, put_u32(v))
        BY <1>2, <2>1, <3>1, TakeThere, Zenon
      <3>. QED  BY <3>2, Zenon DEF n
    <2>3. Take(in, Got(p, x), 4) = Got(p + 4, put_u32(v)) =>
              get_u32(in, Got(p, x)) = Got(p + 4, Value32(put_u32(v)))
      BY GetGot, SMT
    <2>. QED  BY <2>2, <2>3, Zenon
  <1>3. ASSUME NEW v \in Words, At(put_u64(v), in, p)
        PROVE  get_u64(in, Got(p, x)) = Got(p + 8, v)
    <2>1. put_u64(v) \in Seq(Bytes) /\ Len(put_u64(v)) = 8 /\ Value64(put_u64(v)) = v
      BY LongWordInverts, Zenon
    <2>2. Take(in, Got(p, x), 8) = Got(p + 8, put_u64(v))
      <3>. DEFINE n == 8
      <3>1. Len(put_u64(v)) = n
        BY <2>1, Zenon
      <3>. HIDE DEF n
      <3>2. Take(in, Got(p, x), n) = Got(p + n, put_u64(v))
        BY <1>3, <2>1, <3>1, TakeThere, Zenon
      <3>. QED  BY <3>2, Zenon DEF n
    <2>3. Take(in, Got(p, x), 8) = Got(p + 8, put_u64(v)) =>
              get_u64(in, Got(p, x)) = Got(p + 8, Value64(put_u64(v)))
      BY GetGot, SMT
    <2>. QED  BY <2>1, <2>2, <2>3, Zenon
  <1>. QED  BY <1>1, <1>2, <1>3, Zenon

\* A string is four bytes longer than it is.
LEMMA StringBytes ==
    ASSUME NEW s \in Seq(Bytes)
    PROVE  put_string(s) \in Seq(Bytes) /\ Len(put_string(s)) = 4 + Len(s) /\ Len(s) \in Nat
  <1>1. Len(s) \in Nat /\ Len(s) \in Int
    OBVIOUS
  <1>2. put_u32(Len(s)) \in Seq(Bytes) /\ Len(put_u32(Len(s))) = 4
    BY <1>1, WordBytes, Zenon
  <1>. QED  BY <1>1, <1>2, ConcatBytes, Zenon DEF put_string

\* A string is read as it was written, or refused when it is too long.
LEMMA ReadString ==
    ASSUME NEW in \in Seq(Bytes), FitsHeader(in), NEW p \in Nat, NEW v,
           NEW s \in Seq(Bytes), At(put_string(s), in, p)
    PROVE  get_string(in, Got(p, v)) = IF Len(s) <= kMaxStringBytes
                                       THEN Got(p + Len(put_string(s)), s) ELSE Failed
  <1>. DEFINE n == Len(s)
              w == put_u32(n)
              c == Got(p, v)
  <1>1. n \in Nat /\ n \in Int /\ p + 4 \in Nat
    OBVIOUS
  <1>2. w \in Seq(Bytes) /\ Len(w) = 4
    BY <1>1, WordBytes, Zenon
  <1>3. At(w, in, p) /\ At(s, in, p + 4)
    BY <1>2, AtConcat, Zenon DEF put_string
  <1>4. n <= Len(in)
    <2>1. (p + 4) + n <= Len(in)
      BY <1>3, Zenon DEF At
    <2>2. Len(in) \in Nat
      OBVIOUS
    <2>. QED  BY <1>1, <2>1, <2>2
  <1>5. get_u32(in, c) = Got(p + 4, Value32(w))
    BY <1>1, <1>3, ReadWords, SMT
  <1>7. /\ n <= kMaxStringBytes => Value32(w) = n
        /\ ~(n <= kMaxStringBytes) => Value32(w) \notin 0..kMaxStringBytes
    BY <1>1, <1>4, Limits, LengthRead, Zenon
  <1>8. Take(in, Got(p + 4, n), n) = Got((p + 4) + n, s)
    BY <1>1, <1>3, TakeThere, SMT
  <1>9. get_string(in, c) = IF Value32(w) \in 0..kMaxStringBytes
                            THEN Take(in, Got(p + 4, Value32(w)), Value32(w)) ELSE Failed
    BY <1>5, GetGot, ZenonT(40)
  <1>10. (p + 4) + n = p + Len(put_string(s))
    <2>1. Len(put_string(s)) = 4 + n
      BY StringBytes, Zenon
    <2>. QED  BY <1>1, <2>1
  <1>11. n <= kMaxStringBytes => n \in 0..kMaxStringBytes
    BY <1>1, Limits, SMT DEF IsSize
  <1>12. CASE n <= kMaxStringBytes
    <2>1. Value32(w) = n /\ n \in 0..kMaxStringBytes
      BY <1>7, <1>11, <1>12, Zenon
    <2>. QED  BY <1>8, <1>9, <1>10, <1>12, <2>1, Zenon
  <1>13. CASE ~(n <= kMaxStringBytes)
    BY <1>7, <1>9, <1>13, Zenon
  <1>. QED  BY <1>12, <1>13, Zenon

\* The items of a list.
ItemSet(items) == IF items = "strings" THEN Seq(Bytes) ELSE Words
\* get_item accepts the item v.
ItemWithin(v, items) == items = "strings" => Len(v) <= kMaxStringBytes

\* An item is not empty.
LEMMA ItemBytes ==
    ASSUME NEW items, NEW v \in ItemSet(items)
    PROVE  put_item(v, items) \in Seq(Bytes) /\ Len(put_item(v, items)) >= 1
  <1>1. CASE items = "strings"
    <2>1. v \in Seq(Bytes)
      BY <1>1, Zenon DEF ItemSet
    <2>2. put_string(v) \in Seq(Bytes) /\ Len(put_string(v)) = 4 + Len(v) /\ Len(v) \in Nat
      BY <2>1, StringBytes, Zenon
    <2>. DEFINE s == put_string(v)
    <2>3. put_item(v, items) = s
      BY <1>1, Zenon DEF put_item
    <2>. HIDE DEF s
    <2>. QED  BY <2>2, <2>3 DEF s
  <1>2. CASE items # "strings"
    <2>1. v \in Words
      BY <1>2, Zenon DEF ItemSet
    <2>2. put_u64(v) \in Seq(Bytes) /\ Len(put_u64(v)) = 8
      BY <2>1, LongWordInverts, Zenon
    <2>. DEFINE s == put_u64(v)
    <2>3. put_item(v, items) = s
      BY <1>2, Zenon DEF put_item
    <2>. HIDE DEF s
    <2>. QED  BY <2>2, <2>3 DEF s
  <1>. QED  BY <1>1, <1>2, Zenon

\* An item is read as it was written, or refused when it is too long.
LEMMA ReadItem ==
    ASSUME NEW in \in Seq(Bytes), FitsHeader(in), NEW p \in Nat, NEW x,
           NEW items, NEW v \in ItemSet(items), At(put_item(v, items), in, p)
    PROVE  get_item(in, Got(p, x), items) =
               IF ItemWithin(v, items) THEN Got(p + Len(put_item(v, items)), v) ELSE Failed
  <1>1. CASE items = "strings"
    <2>1. v \in Seq(Bytes) /\ put_item(v, items) = put_string(v)
      BY <1>1, Zenon DEF ItemSet, put_item
    <2>2. get_string(in, Got(p, x)) = IF Len(v) <= kMaxStringBytes
                                      THEN Got(p + Len(put_string(v)), v) ELSE Failed
      BY <2>1, ReadString, Zenon
    <2>3. get_item(in, Got(p, x), items) = get_string(in, Got(p, x))
      BY <1>1, Zenon DEF get_item
    <2>4. ItemWithin(v, items) <=> Len(v) <= kMaxStringBytes
      BY <1>1, Zenon DEF ItemWithin
    <2>. QED  BY <2>1, <2>2, <2>3, <2>4, Zenon
  <1>2. CASE items # "strings"
    <2>1. v \in Words /\ put_item(v, items) = put_u64(v) /\ ItemWithin(v, items)
      BY <1>2, Zenon DEF ItemSet, put_item, ItemWithin
    <2>2. Len(put_u64(v)) = 8
      BY <2>1, LongWordInverts, Zenon
    <2>3. get_u64(in, Got(p, x)) = Got(p + 8, v)
      BY <2>1, ReadWords, SMT
    <2>4. get_item(in, Got(p, x), items) = get_u64(in, Got(p, x))
      BY <1>2, Zenon DEF get_item
    <2>. QED  BY <2>1, <2>2, <2>3, <2>4, Zenon
  <1>. QED  BY <1>1, <1>2, Zenon

\* The pieces of a piece that is made of several.
LEMMA AtPieces ==
    ASSUME NEW T \in Seq(Bytes), NEW s \in Seq(Seq(Bytes)), NEW p \in Nat,
           At(FlattenSeq(s), T, p), NEW n \in 1..Len(s)
    PROVE  /\ At(s[n], T, p + Len(Upto(s, n - 1)))
           /\ Len(Upto(s, n)) = Len(Upto(s, n - 1)) + Len(s[n])
           /\ Len(Upto(s, n - 1)) \in Nat
  <1>. DEFINE N == Len(s)
              S == {d \in Nat : d <= N => At(Upto(s, N - d), T, p)}
  <1>0. N \in Nat
    OBVIOUS
  <1>1. 0 \in S
    <2>1. N - 0 = N
      BY <1>0
    <2>. QED  BY <2>1, UptoSteps, Zenon
  <1>2. ASSUME NEW d \in Nat, d \in S PROVE d + 1 \in S
    <2>0. d + 1 \in Nat
      OBVIOUS
    <2>. SUFFICES ASSUME d + 1 <= N PROVE At(Upto(s, N - (d + 1)), T, p)
      BY <2>0, Zenon
    <2>. DEFINE k == N - d
    <2>1. d <= N /\ k \in 1..N /\ k - 1 = N - (d + 1) /\ k - 1 \in 0..N
      BY <1>0
    <2>2. At(Upto(s, k), T, p)
      BY <1>2, <2>1, Zenon
    <2>. HIDE DEF k, N
    <2>3. Upto(s, k) = Upto(s, k - 1) \o s[k] /\ Upto(s, k - 1) \in Seq(Bytes) /\ s[k] \in Seq(Bytes)
      BY <2>1, UptoSteps, Zenon DEF N
    <2>4. At(Upto(s, k - 1), T, p)
      BY <2>2, <2>3, AtConcat, Zenon
    <2>. QED  BY <2>1, <2>4, Zenon
  <1>. HIDE DEF S
  <1>3. N - n \in Nat /\ N - n <= N /\ N - (N - n) = n /\ n - 1 \in 0..N
    BY <1>0
  <1>4. N - n \in S
    BY <1>1, <1>2, <1>3, Climb, Zenon
  <1>5. At(Upto(s, n), T, p)
    BY <1>3, <1>4, Zenon DEF S
  <1>6. Upto(s, n) = Upto(s, n - 1) \o s[n] /\ Upto(s, n - 1) \in Seq(Bytes) /\ s[n] \in Seq(Bytes)
    BY <1>3, UptoSteps, Zenon
  <1>7. At(s[n], T, p + Len(Upto(s, n - 1)))
    BY <1>5, <1>6, AtConcat, Zenon
  <1>8. Len(Upto(s, n)) = Len(Upto(s, n - 1)) + Len(s[n])
    BY <1>6, ConcatBytes, Zenon
  <1>9. \A a \in Seq(Bytes) : Len(a) \in Nat
    OBVIOUS
  <1>. QED  BY <1>6, <1>7, <1>8, <1>9, Zenon

\* Several pieces, none of which is empty, have a byte each.
LEMMA PiecesCount ==
    ASSUME NEW s \in Seq(Seq(Bytes)), \A i \in 1..Len(s) : Len(s[i]) >= 1
    PROVE  Len(s) <= Len(FlattenSeq(s)) /\ FlattenSeq(s) \in Seq(Bytes)
  <1>. DEFINE N == Len(s)
              S == {d \in Nat : d <= N => d <= Len(Upto(s, d))}
  <1>0. N \in Nat /\ N <= N
    OBVIOUS
  <1>1. 0 \in S
    <2>1. Upto(s, 0) = << >>
      BY UptoSteps, Zenon
    <2>2. 0 <= Len(<< >>)
      OBVIOUS
    <2>. QED  BY <2>1, <2>2, Zenon
  <1>2. ASSUME NEW d \in Nat, d \in S PROVE d + 1 \in S
    <2>0. d + 1 \in Nat
      OBVIOUS
    <2>. SUFFICES ASSUME d + 1 <= N PROVE d + 1 <= Len(Upto(s, d + 1))
      BY <2>0, Zenon
    <2>. DEFINE k == d + 1
                a == Upto(s, d)
                b == s[k]
    <2>1. d <= N /\ k \in 1..N /\ k - 1 = d /\ d \in 0..N
      BY <1>0
    <2>2. d <= Len(a) /\ Len(b) >= 1
      BY <1>2, <2>1, Zenon
    <2>3. Upto(s, k) = a \o b /\ a \in Seq(Bytes) /\ b \in Seq(Bytes)
      BY <2>1, UptoSteps, Zenon
    <2>. HIDE DEF a, b
    <2>4. Len(a \o b) = Len(a) + Len(b) /\ Len(a) \in Nat /\ Len(b) \in Nat
      BY <2>3
    <2>5. d + 1 <= Len(a \o b)
      BY <2>2, <2>4
    <2>. QED  BY <2>3, <2>5, Zenon
  <1>. HIDE DEF S
  <1>3. N \in S
    BY <1>0, <1>1, <1>2, Climb, Zenon
  <1>4. N <= Len(Upto(s, N))
    BY <1>0, <1>3, Zenon DEF S
  <1>. QED  BY <1>4, UptoSteps, Zenon

\* The function get_list computes, which has the items up to the i-th.
Afters(f, in, p, items, n) ==
    f = [i \in 0..n |-> IF i = 0 THEN Got(p, << >>)
                        ELSE ListItem(get_item(in, f[i - 1], items), f[i - 1])]

\* There is such a function.
LEMMA AftersExists ==
    ASSUME NEW in, NEW p, NEW items, NEW n \in Nat
    PROVE  \E f : Afters(f, in, p, items, n)
  <1>. DEFINE S == {m \in Nat : \E f : Afters(f, in, p, items, m)}
  <1>1. 0 \in S
    <2>. DEFINE f == [m \in 0..0 |-> Got(p, << >>)]
    <2>1. f = [m \in 0..0 |-> IF m = 0 THEN Got(p, << >>)
                              ELSE ListItem(get_item(in, f[m - 1], items), f[m - 1])]
      OBVIOUS
    <2>2. Afters(f, in, p, items, 0)
      BY <2>1, Zenon DEF Afters
    <2>. QED  BY <2>2, Zenon
  <1>2. ASSUME NEW m \in Nat, m \in S PROVE m + 1 \in S
    <2>1. PICK f : Afters(f, in, p, items, m)
      BY <1>2, Zenon
    <2>. DEFINE last == ListItem(get_item(in, f[m], items), f[m])
                g == [i \in 0..(m + 1) |-> IF i <= m THEN f[i] ELSE last]
                h == [i \in 0..(m + 1) |-> IF i = 0 THEN Got(p, << >>)
                                           ELSE ListItem(get_item(in, g[i - 1], items), g[i - 1])]
    <2>2. \A i \in 0..m : f[i] = IF i = 0 THEN Got(p, << >>)
                                 ELSE ListItem(get_item(in, f[i - 1], items), f[i - 1])
      BY <2>1, Zenon DEF Afters
    <2>. HIDE DEF last
    <2>3. ASSUME NEW i \in 0..(m + 1) PROVE g[i] = h[i]
      <3>1. CASE i = 0
        <4>1. i \in 0..m /\ g[i] = f[i] /\ h[i] = Got(p, << >>)
          BY <3>1
        <4>. QED  BY <2>2, <3>1, <4>1, Zenon
      <3>2. CASE i <= m /\ i # 0
        <4>1. i \in 0..m /\ i - 1 \in 0..(m + 1) /\ i - 1 <= m
          BY <3>2
        <4>2. /\ g[i] = f[i] /\ g[i - 1] = f[i - 1]
              /\ h[i] = ListItem(get_item(in, g[i - 1], items), g[i - 1])
          BY <3>2, <4>1, Zenon
        <4>. QED  BY <2>2, <3>2, <4>1, <4>2, Zenon
      <3>3. CASE ~(i <= m)
        <4>1. i = m + 1 /\ i # 0 /\ i - 1 = m /\ g[i] = last /\ g[i - 1] = f[m]
          BY <3>3
        <4>2. h[i] = ListItem(get_item(in, g[i - 1], items), g[i - 1])
          BY <4>1, Zenon
        <4>. QED  BY <4>1, <4>2, Zenon DEF last
      <3>. QED  BY <3>1, <3>2, <3>3, Zenon
    <2>4. g = h
      BY <2>3
    <2>5. Afters(g, in, p, items, m + 1)
      BY <2>4, Zenon DEF Afters
    <2>. QED  BY <2>5
  <1>. HIDE DEF S
  <1>3. n \in S
    BY <1>1, <1>2, Climb, Zenon
  <1>. QED  BY <1>3, Zenon DEF S

\* f is that function for a list at p, and the n-th value is returned.
ListRun(f, in, c, p, n, items) ==
    /\ get_list(in, c, items) = f[n] /\ f[0] = Got(p, << >>)
    /\ \A i \in 1..kMaxBatchMessages :
          f[i] = ListItem(get_item(in, f[i - 1], items), f[i - 1])

\* get_list returns its value for the count it has read, if that is within the limit.
LEMMA ListValue ==
    ASSUME NEW in, NEW c, NEW p, NEW n, NEW items, get_u32(in, c) = Got(p, n)
    PROVE  /\ n \notin 0..kMaxBatchMessages => get_list(in, c, items) = Failed
           /\ n \in 0..kMaxBatchMessages => \E f : ListRun(f, in, c, p, n, items)
  <1>. DEFINE K == kMaxBatchMessages
              f == CHOOSE f : Afters(f, in, p, items, K)
  <1>0. K \in Nat
    BY Limits, SMT DEF IsSize
  <1>1. Afters(f, in, p, items, K)
    BY <1>0, AftersExists, Zenon
  <1>2. Got(p, n).ok
    BY DEF Got
  <1>3. Got(p, n).pos = p /\ Got(p, n).value = n
    BY DEF Got
  <1>4. f = CHOOSE g : g = [i \in 0..kMaxBatchMessages |->
                               IF i = 0 THEN Got(p, << >>)
                               ELSE ListItem(get_item(in, g[i - 1], items), g[i - 1])]
    BY Zenon DEF Afters
  <1>. DEFINE F == CHOOSE g : g = [i \in 0..kMaxBatchMessages |->
                               IF i = 0 THEN Got(p, << >>)
                               ELSE ListItem(get_item(in, g[i - 1], items), g[i - 1])]
  <1>5. get_list(in, c, items) = IF n \in 0..kMaxBatchMessages THEN F[n] ELSE Failed
    BY <1>2, <1>3 DEF get_list
  <1>. HIDE DEF f, F
  <1>6. f = F
    BY <1>4, Zenon DEF F
  <1>7. \A i \in 0..K : f[i] = IF i = 0 THEN Got(p, << >>)
                               ELSE ListItem(get_item(in, f[i - 1], items), f[i - 1])
    BY <1>1, Zenon DEF Afters
  <1>8. 0 \in 0..K /\ \A i \in 1..K : i \in 0..K /\ i # 0
    BY <1>0
  <1>9. /\ f[0] = Got(p, << >>)
        /\ \A i \in 1..K : f[i] = ListItem(get_item(in, f[i - 1], items), f[i - 1])
    BY <1>7, <1>8, Zenon
  <1>10. n \in 0..kMaxBatchMessages => ListRun(f, in, c, p, n, items)
    BY <1>5, <1>6, <1>9, Zenon DEF ListRun
  <1>. QED  BY <1>5, <1>10, Zenon

\* There is one, if the count that get_list has read is within the limit.
LEMMA ListRuns ==
    ASSUME NEW in, NEW c, NEW p, NEW n, NEW items
    PROVE  get_u32(in, c) = Got(p, n) /\ n \in 0..kMaxBatchMessages =>
              \E f : ListRun(f, in, c, p, n, items)
  BY ListValue, Zenon

\* An item that was read comes behind the others, one that was not ends the list.
LEMMA ListItemGot ==
    ASSUME NEW p, NEW v, NEW b
    PROVE  /\ \A q, s : ListItem(Got(p, v), Got(q, s)) = Got(p, Append(s, v))
           /\ ListItem(Failed, b) = Failed
  <1>1. Got(p, v).ok
    BY DEF Got
  <1>2. Got(p, v).pos = p /\ Got(p, v).value = v
    BY DEF Got
  <1>3. ~Failed.ok
    BY DEF Failed
  <1>4. \A q, s : Got(q, s).value = s
    BY DEF Got
  <1>. QED  BY <1>1, <1>2, <1>3, <1>4 DEF ListItem

\* A list is within the limits when its length and all of its items are.
ListWithin(s, items) ==
    Len(s) <= kMaxBatchMessages /\ \A i \in 1..Len(s) : ItemWithin(s[i], items)

\* The items of a list, encoded.
ItemsOf(s, items) == [i \in 1..Len(s) |-> put_item(s[i], items)]

\* A list is its count and its items.
LEMMA ListBytes ==
    ASSUME NEW items, NEW s \in Seq(ItemSet(items))
    PROVE  /\ ItemsOf(s, items) \in Seq(Seq(Bytes)) /\ Len(ItemsOf(s, items)) = Len(s)
           /\ Len(s) \in Nat /\ Len(s) <= Len(FlattenSeq(ItemsOf(s, items)))
           /\ \A i \in 1..Len(s) : /\ s[i] \in ItemSet(items)
                                   /\ ItemsOf(s, items)[i] = put_item(s[i], items)
           /\ FlattenSeq(ItemsOf(s, items)) \in Seq(Bytes)
           /\ put_list(s, items) = put_u32(Len(s)) \o FlattenSeq(ItemsOf(s, items))
           /\ put_list(s, items) \in Seq(Bytes)
           /\ Len(put_list(s, items)) = 4 + Len(FlattenSeq(ItemsOf(s, items)))
  <1>. DEFINE e == ItemsOf(s, items)
              n == Len(s)
              b == FlattenSeq(e)
  <1>1. n \in Nat /\ n \in Int /\ \A i \in 1..n : s[i] \in ItemSet(items)
    OBVIOUS
  <1>2. \A i \in 1..n : /\ put_item(s[i], items) \in Seq(Bytes)
                        /\ Len(put_item(s[i], items)) >= 1
    BY <1>1, ItemBytes, Zenon
  <1>. HIDE DEF n
  <1>3. e \in Seq(Seq(Bytes)) /\ Len(e) = n
    BY <1>1, <1>2 DEF ItemsOf, n
  <1>4. \A i \in 1..n : e[i] = put_item(s[i], items)
    BY Zenon DEF ItemsOf, n
  <1>. HIDE DEF e
  <1>5. n <= Len(b) /\ b \in Seq(Bytes)
    BY <1>2, <1>3, <1>4, PiecesCount, Zenon
  <1>6. put_list(s, items) = put_u32(n) \o b
    BY Zenon DEF put_list, ItemsOf, n, e
  <1>7. put_u32(n) \in Seq(Bytes) /\ Len(put_u32(n)) = 4
    BY <1>1, WordBytes, Zenon
  <1>8. put_list(s, items) \in Seq(Bytes) /\ Len(put_list(s, items)) = 4 + Len(b)
    BY <1>5, <1>6, <1>7, ConcatBytes, Zenon
  <1>. QED  BY <1>1, <1>3, <1>4, <1>5, <1>6, <1>8, Zenon DEF n, e

\* A list is read as it was written, or refused when it is beyond the limits.
LEMMA ReadList ==
    ASSUME NEW in \in Seq(Bytes), FitsHeader(in), NEW p \in Nat, NEW x,
           NEW items, NEW s \in Seq(ItemSet(items)), At(put_list(s, items), in, p)
    PROVE  get_list(in, Got(p, x), items) =
               IF ListWithin(s, items) THEN Got(p + Len(put_list(s, items)), s) ELSE Failed
  <1>. DEFINE e == ItemsOf(s, items)
              n == Len(s)
              b == FlattenSeq(e)
              w == put_u32(n)
              K == kMaxBatchMessages
              c == Got(p, x)
              q == p + 4
  <1>1. /\ e \in Seq(Seq(Bytes)) /\ Len(e) = n /\ n \in Nat /\ n <= Len(b)
        /\ \A i \in 1..n : s[i] \in ItemSet(items) /\ e[i] = put_item(s[i], items)
        /\ b \in Seq(Bytes) /\ put_list(s, items) = w \o b
        /\ Len(put_list(s, items)) = 4 + Len(b)
    BY ListBytes, Zenon
  <1>. HIDE DEF e, n, b
  <1>2. w \in Seq(Bytes) /\ Len(w) = 4 /\ n \in Int
    <2>1. n \in Int
      BY <1>1
    <2>. QED  BY <2>1, WordBytes, Zenon
  <1>. HIDE DEF w
  <1>3. At(w, in, p) /\ At(b, in, p + Len(w))
    BY <1>1, <1>2, AtConcat, Zenon
  <1>4. At(b, in, q)
    BY <1>2, <1>3, Zenon
  <1>5. get_u32(in, c) = Got(q, Value32(w))
    <2>1. \A v \in Int : At(put_u32(v), in, p) =>
                             get_u32(in, Got(p, x)) = Got(p + 4, Value32(put_u32(v)))
      BY ReadWords, SMT
    <2>. QED  BY <1>2, <1>3, <2>1, Zenon DEF w
  <1>. HIDE DEF c, q
  <1>6. q \in Nat /\ n <= Len(in) /\ K \in Nat
    <2>1. q + Len(b) <= Len(in) /\ Len(b) \in Nat /\ Len(in) \in Nat /\ q \in Nat
      BY <1>1, <1>4 DEF At, q
    <2>2. K \in Nat
      BY Limits, SMT DEF IsSize
    <2>. QED  BY <1>1, <2>1, <2>2
  <1>7. /\ n <= K => Value32(w) = n
        /\ ~(n <= K) => Value32(w) \notin 0..K
    BY <1>1, <1>6, LengthRead, Limits, Zenon DEF w
  <1>8. CASE ~(n <= K)
    <2>1. get_list(in, c, items) = Failed
      BY <1>5, <1>7, <1>8, ListValue, SMT
    <2>. QED  BY <1>8, <2>1, Zenon DEF c, n, ListWithin
  <1>9. CASE n <= K
    <2>0. n \in 0..K /\ n <= n /\ \A i \in 1..n : i \in 1..K
      BY <1>1, <1>6, <1>9
    <2>1. get_u32(in, c) = Got(q, n)
      BY <1>5, <1>7, <1>9, Zenon
    <2>2. PICK f : /\ get_list(in, c, items) = f[n] /\ f[0] = Got(q, << >>)
                   /\ \A i \in 1..K : f[i] = ListItem(get_item(in, f[i - 1], items), f[i - 1])
      <3>1. \E f : ListRun(f, in, c, q, n, items)
        BY <2>0, <2>1, ListRuns, Zenon
      <3>. QED  BY <3>1, Zenon DEF ListRun
    <2>. DEFINE Good(i) == \A j \in 1..i : ItemWithin(s[j], items)
                Here(i) == Got(q + Len(Upto(e, i)), SubSeq(s, 1, i))
                S == {i \in Nat : i <= n => f[i] = IF Good(i) THEN Here(i) ELSE Failed}
    <2>3. 0 \in S
      <3>1. Upto(e, 0) = << >>
        BY <1>1, UptoSteps, Zenon
      <3>2. SubSeq(s, 1, 0) = << >> /\ q + Len(<< >>) = q /\ 1..0 = {}
        BY <1>6
      <3>3. Good(0)
        BY <3>2, Zenon
      <3>4. Here(0) = Got(q, << >>)
        BY <3>1, <3>2, Zenon
      <3>. QED  BY <2>2, <3>3, <3>4, Zenon
    <2>4. ASSUME NEW i \in Nat, i \in S PROVE i + 1 \in S
      <3>0. i + 1 \in Nat
        OBVIOUS
      <3>. DEFINE k == i + 1
      <3>. SUFFICES ASSUME k <= n PROVE f[k] = IF Good(k) THEN Here(k) ELSE Failed
        BY <3>0, Zenon
      <3>1. i <= n /\ k \in 1..n /\ k - 1 = i
        BY <1>1
      <3>2. f[i] = IF Good(i) THEN Here(i) ELSE Failed
        BY <2>4, <3>1, Zenon
      <3>3. f[k] = ListItem(get_item(in, f[i], items), f[i])
        BY <2>0, <2>2, <3>1, Zenon
      <3>4. Good(k) <=> Good(i) /\ ItemWithin(s[k], items)
        <4>1. \A j : j \in 1..k <=> j \in 1..i \/ j = k
          BY <3>0
        <4>. HIDE DEF k
        <4>. QED  BY <4>1, Zenon
      <3>5. CASE ~Good(i)
        <4>1. f[i] = Failed
          BY <3>2, <3>5, Zenon
        <4>2. f[k] = Failed
          BY <3>3, <4>1, AfterFailure, ListItemGot, ZenonT(40)
        <4>. QED  BY <3>4, <3>5, <4>2, Zenon
      <3>6. CASE Good(i)
        <4>. DEFINE o == q + Len(Upto(e, i))
                    t == SubSeq(s, 1, i)
        <4>1. f[i] = Got(o, t)
          BY <3>2, <3>6, Zenon
        <4>2. /\ At(e[k], in, o) /\ Len(Upto(e, k)) = Len(Upto(e, i)) + Len(e[k])
              /\ Len(Upto(e, i)) \in Nat
          BY <1>1, <1>4, <1>6, <3>1, AtPieces, Zenon DEF b
        <4>3. o \in Nat
          BY <1>6, <4>2
        <4>4. SubSeq(s, 1, k) = Append(t, s[k])
          <5>1. \A y \in 1..Len(s) : SubSeq(s, 1, y) = Append(SubSeq(s, 1, y - 1), s[y])
            OBVIOUS
          <5>. QED  BY <3>1, <5>1, Zenon DEF n
        <4>5. q + Len(Upto(e, k)) = o + Len(e[k])
          <5>1. e[k] \in Seq(Bytes)
            BY <1>1, <3>1, UptoSteps, Zenon
          <5>2. Len(e[k]) \in Nat
            BY <5>1
          <5>3. \A u, v \in Nat : q + (u + v) = q + u + v
            BY <1>6
          <5>. QED  BY <4>2, <5>2, <5>3, Zenon
        <4>. HIDE DEF o, t, k
        <4>6. s[k] \in ItemSet(items) /\ e[k] = put_item(s[k], items)
          BY <1>1, <3>1, Zenon
        <4>7. get_item(in, Got(o, t), items) =
                  IF ItemWithin(s[k], items) THEN Got(o + Len(e[k]), s[k]) ELSE Failed
          BY <4>2, <4>3, <4>6, ReadItem, Zenon
        <4>8. CASE ItemWithin(s[k], items)
          <5>1. f[k] = ListItem(Got(o + Len(e[k]), s[k]), Got(o, t))
            BY <3>3, <4>1, <4>7, <4>8, Zenon
          <5>2. f[k] = Got(o + Len(e[k]), Append(t, s[k]))
            BY <5>1, ListItemGot, SMT
          <5>. QED  BY <3>4, <3>6, <4>4, <4>5, <4>8, <5>2, Zenon
        <4>9. CASE ~ItemWithin(s[k], items)
          <5>1. f[k] = Failed
            BY <3>3, <4>1, <4>7, <4>9, ListItemGot, Zenon
          <5>. QED  BY <3>4, <4>9, <5>1, Zenon
        <4>. QED  BY <4>8, <4>9, Zenon
      <3>. QED  BY <3>5, <3>6, Zenon
    <2>. HIDE DEF S
    <2>5. n \in S
      BY <1>1, <2>3, <2>4, Climb, Zenon
    <2>6. f[n] = IF Good(n) THEN Here(n) ELSE Failed
      BY <2>0, <2>5, Zenon DEF S
    <2>7. SubSeq(s, 1, n) = s
      BY DEF n
    <2>8. q + Len(Upto(e, n)) = p + Len(put_list(s, items))
      <3>1. Upto(e, n) = b
        BY <1>1, UptoSteps, Zenon DEF b
      <3>2. Len(b) \in Nat
        BY <1>1
      <3>. QED  BY <1>1, <3>1, <3>2 DEF q
    <2>9. ListWithin(s, items) <=> Good(n)
      BY <1>9, Zenon DEF ListWithin, n
    <2>. QED  BY <2>2, <2>6, <2>7, <2>8, <2>9, Zenon DEF c
  <1>. QED  BY <1>8, <1>9, Zenon
-----------------------------------------------------------------------------
(* The codec: the fields of a request.                                     *)

\* The values of a field.
FieldSet(f) ==
    IF f \in {"partition", "fetch_offset", "broker_id"} THEN Words
    ELSE IF f = "messages" THEN Seq(Seq(Bytes)) ELSE Seq(Bytes)

\* How a field is written, read and limited, by its kind.
LEMMA FieldKinds ==
    ASSUME NEW f, NEW v, NEW in, NEW c
    PROVE  /\ f = "fetch_offset" =>
                 /\ FieldSet(f) = Words /\ WithinLimits(f, v)
                 /\ put_field(f, v) = put_u64(v) /\ get_field(in, c, f) = get_u64(in, c)
           /\ f \in {"partition", "broker_id"} =>
                 /\ FieldSet(f) = Words /\ WithinLimits(f, v)
                 /\ put_field(f, v) = put_u32(v) /\ get_field(in, c, f) = get_u32(in, c)
           /\ f = "messages" =>
                 /\ FieldSet(f) = Seq(Seq(Bytes))
                 /\ WithinLimits(f, v) <=> ListWithin(v, "strings")
                 /\ put_field(f, v) = put_list(v, "strings")
                 /\ get_field(in, c, f) = get_list(in, c, "strings")
           /\ f \notin {"partition", "fetch_offset", "broker_id", "messages"} =>
                 /\ FieldSet(f) = Seq(Bytes)
                 /\ WithinLimits(f, v) <=> Len(v) <= kMaxStringBytes
                 /\ put_field(f, v) = put_string(v)
                 /\ get_field(in, c, f) = get_string(in, c)
  <1>1. CASE f = "fetch_offset"
    BY <1>1 DEF FieldSet, WithinLimits, put_field, get_field
  <1>2. CASE f \in {"partition", "broker_id"}
    BY <1>2 DEF FieldSet, WithinLimits, put_field, get_field
  <1>3. CASE f = "messages"
    <2>1. /\ FieldSet(f) = Seq(Seq(Bytes))
          /\ put_field(f, v) = put_list(v, "strings")
          /\ get_field(in, c, f) = get_list(in, c, "strings")
      BY <1>3 DEF FieldSet, put_field, get_field
    <2>2. WithinLimits(f, v) <=> /\ Len(v) <= kMaxBatchMessages
                                 /\ \A i \in 1..Len(v) : Len(v[i]) <= kMaxStringBytes
      BY <1>3 DEF WithinLimits
    <2>3. WithinLimits(f, v) <=> ListWithin(v, "strings")
      BY <2>2, Zenon DEF ListWithin, ItemWithin
    <2>. QED  BY <1>3, <2>1, <2>3
  <1>4. CASE f \notin {"partition", "fetch_offset", "broker_id", "messages"}
    BY <1>4 DEF FieldSet, WithinLimits, put_field, get_field
  <1>. QED  BY <1>1, <1>2, <1>3, <1>4

\* A field is bytes, and it is read as it was written, or refused when it is
\* beyond the limits.
LEMMA ReadField ==
    ASSUME NEW f, NEW v \in FieldSet(f)
    PROVE  /\ put_field(f, v) \in Seq(Bytes)
           /\ \A in \in Seq(Bytes), p \in Nat : \A x :
                 FitsHeader(in) /\ At(put_field(f, v), in, p) =>
                     get_field(in, Got(p, x), f) =
                         IF WithinLimits(f, v) THEN Got(p + Len(put_field(f, v)), v) ELSE Failed
  <1>1. CASE f = "fetch_offset"
    <2>1. v \in Words /\ WithinLimits(f, v) /\ put_field(f, v) = put_u64(v)
      BY <1>1, FieldKinds, Zenon
    <2>2. put_u64(v) \in Seq(Bytes) /\ Len(put_u64(v)) = 8
      BY <2>1, LongWordInverts, Zenon
    <2>3. ASSUME NEW in \in Seq(Bytes), NEW p \in Nat, NEW x, At(put_u64(v), in, p)
          PROVE  get_field(in, Got(p, x), f) = Got(p + 8, v)
      <3>1. get_u64(in, Got(p, x)) = Got(p + 8, v)
        BY <2>1, <2>3, ReadWords, SMT
      <3>. QED  BY <1>1, <3>1, FieldKinds, Zenon
    <2>. QED  BY <2>1, <2>2, <2>3, Zenon
  <1>2. CASE f \in {"partition", "broker_id"}
    <2>1. v \in Words /\ WithinLimits(f, v) /\ put_field(f, v) = put_u32(v)
      BY <1>2, FieldKinds, Zenon
    <2>2. put_u32(v) \in Seq(Bytes) /\ Len(put_u32(v)) = 4 /\ v \in Int
      <3>1. v \in Int
        BY <2>1, SMT DEF Words
      <3>. QED  BY <3>1, WordBytes, Zenon
    <2>3. ASSUME NEW in \in Seq(Bytes), NEW p \in Nat, NEW x, At(put_u32(v), in, p)
          PROVE  get_field(in, Got(p, x), f) = Got(p + 4, v)
      <3>1. get_u32(in, Got(p, x)) = Got(p + 4, Value32(put_u32(v)))
        BY <2>2, <2>3, ReadWords, SMT
      <3>2. get_u32(in, Got(p, x)) = Got(p + 4, v)
        BY <2>1, <3>1, WordInverts, Zenon
      <3>. QED  BY <1>2, <3>2, FieldKinds, Zenon
    <2>. QED  BY <2>1, <2>2, <2>3, Zenon
  <1>3. CASE f = "messages"
    <2>1. ItemSet("strings") = Seq(Bytes)
      BY Zenon DEF ItemSet
    <2>2. /\ v \in Seq(ItemSet("strings"))
          /\ WithinLimits(f, v) <=> ListWithin(v, "strings")
          /\ put_field(f, v) = put_list(v, "strings")
      BY <1>3, <2>1, FieldKinds, Zenon
    <2>3. put_list(v, "strings") \in Seq(Bytes)
      BY <2>2, ListBytes, Zenon
    <2>4. ASSUME NEW in \in Seq(Bytes), NEW p \in Nat, NEW x, FitsHeader(in),
                 At(put_list(v, "strings"), in, p)
          PROVE  get_field(in, Got(p, x), f) = IF ListWithin(v, "strings")
                     THEN Got(p + Len(put_list(v, "strings")), v) ELSE Failed
      <3>1. get_list(in, Got(p, x), "strings") = IF ListWithin(v, "strings")
                THEN Got(p + Len(put_list(v, "strings")), v) ELSE Failed
        BY <2>2, <2>4, ReadList, Zenon
      <3>. QED  BY <1>3, <3>1, FieldKinds, Zenon
    <2>. QED  BY <2>2, <2>3, <2>4, Zenon
  <1>4. CASE f \notin {"partition", "fetch_offset", "broker_id", "messages"}
    <2>1. /\ v \in Seq(Bytes)
          /\ WithinLimits(f, v) <=> Len(v) <= kMaxStringBytes
          /\ put_field(f, v) = put_string(v)
      BY <1>4, FieldKinds, Zenon
    <2>2. put_string(v) \in Seq(Bytes)
      BY <2>1, StringBytes, Zenon
    <2>3. ASSUME NEW in \in Seq(Bytes), NEW p \in Nat, NEW x, FitsHeader(in),
                 At(put_string(v), in, p)
          PROVE  get_field(in, Got(p, x), f) = IF Len(v) <= kMaxStringBytes
                     THEN Got(p + Len(put_string(v)), v) ELSE Failed
      <3>1. get_string(in, Got(p, x)) = IF Len(v) <= kMaxStringBytes
                THEN Got(p + Len(put_string(v)), v) ELSE Failed
        BY <2>1, <2>3, ReadString, Zenon
      <3>. QED  BY <1>4, <3>1, FieldKinds, Zenon
    <2>. QED  BY <2>1, <2>2, <2>3, Zenon
  <1>. QED  BY <1>1, <1>2, <1>3, <1>4, Zenon

\* The types of the requests that have an encoding.
Types == {"PRODUCE", "FETCH", "REPLICATE", "ACK", "HEARTBEAT", "COMMIT", "METADATA",
          "JOIN_GROUP", "LEAVE_GROUP", "GROUP_FETCH", "COMMIT_OFFSET", "GROUP_ASSIGNMENT",
          "BATCH_PRODUCE", "BATCH_REPLICATE"}
FieldNames == {"topic", "partition", "message", "fetch_offset", "broker_id", "group_id",
               "member_id", "messages"}

\* encode_request writes the fields that parse_request reads, in the same order.
LEMMA SameFields == \A t : EncodedFields(t) = ParsedFields(t)
  BY Zenon DEF EncodedFields, ParsedFields

\* Those are the fields the handler reads, and at most the offset besides.
LEMMA FieldsOf ==
    ASSUME NEW t \in Types
    PROVE  /\ ParsedFields(t) \in Seq(FieldNames)
           /\ \A f \in Carried(t) : \E i \in 1..Len(ParsedFields(t)) : ParsedFields(t)[i] = f
           /\ \A i \in 1..Len(ParsedFields(t)) :
                 ParsedFields(t)[i] \in Carried(t) \cup {"fetch_offset"}
  <1>1. CASE t = "PRODUCE"
    <2>1. ParsedFields(t) = <<"topic", "partition", "message", "fetch_offset">>
      BY <1>1 DEF ParsedFields
    <2>2. Carried(t) = {"topic", "partition", "message"}
      BY <1>1 DEF Carried
    <2>. QED  BY <2>1, <2>2 DEF FieldNames
  <1>2. CASE t = "BATCH_PRODUCE"
    <2>1. ParsedFields(t) = <<"topic", "partition", "messages">>
      BY <1>2 DEF ParsedFields
    <2>2. Carried(t) = {"topic", "partition", "messages"}
      BY <1>2 DEF Carried
    <2>. QED  BY <2>1, <2>2 DEF FieldNames
  <1>3. CASE t = "BATCH_REPLICATE"
    <2>1. ParsedFields(t) = <<"topic", "partition", "fetch_offset", "messages">>
      BY <1>3 DEF ParsedFields
    <2>2. Carried(t) = {"topic", "partition", "fetch_offset", "messages"}
      BY <1>3 DEF Carried
    <2>. QED  BY <2>1, <2>2 DEF FieldNames
  <1>4. CASE t \in {"FETCH", "COMMIT"}
    <2>1. ParsedFields(t) = <<"topic", "partition", "fetch_offset">>
      BY <1>4 DEF ParsedFields
    <2>2. Carried(t) = {"topic", "partition", "fetch_offset"}
      BY <1>4 DEF Carried
    <2>. QED  BY <2>1, <2>2 DEF FieldNames
  <1>5. CASE t = "REPLICATE"
    <2>1. ParsedFields(t) = <<"topic", "partition", "fetch_offset", "message">>
      BY <1>5 DEF ParsedFields
    <2>2. Carried(t) = {"topic", "partition", "fetch_offset", "message"}
      BY <1>5 DEF Carried
    <2>. QED  BY <2>1, <2>2 DEF FieldNames
  <1>6. CASE t = "ACK"
    <2>1. ParsedFields(t) = <<"fetch_offset", "broker_id", "topic", "partition">>
      BY <1>6 DEF ParsedFields
    <2>2. Carried(t) = {"fetch_offset", "broker_id", "topic", "partition"}
      BY <1>6 DEF Carried
    <2>. QED  BY <2>1, <2>2 DEF FieldNames
  <1>7. CASE t = "HEARTBEAT"
    <2>1. ParsedFields(t) = <<"broker_id">>
      BY <1>7 DEF ParsedFields
    <2>2. Carried(t) = {"broker_id"}
      BY <1>7 DEF Carried
    <2>. QED  BY <2>1, <2>2 DEF FieldNames
  <1>8. CASE t = "METADATA"
    <2>1. ParsedFields(t) = << >>
      BY <1>8 DEF ParsedFields
    <2>2. Carried(t) = {}
      BY <1>8 DEF Carried
    <2>. QED  BY <2>1, <2>2 DEF FieldNames
  <1>9. CASE t \in {"JOIN_GROUP", "LEAVE_GROUP", "GROUP_ASSIGNMENT"}
    <2>1. ParsedFields(t) = <<"group_id", "member_id", "topic">>
      BY <1>9 DEF ParsedFields
    <2>2. Carried(t) = {"group_id", "member_id", "topic"}
      BY <1>9 DEF Carried
    <2>. QED  BY <2>1, <2>2 DEF FieldNames
  <1>10. CASE t = "GROUP_FETCH"
    <2>1. ParsedFields(t) = <<"group_id", "member_id", "topic", "partition", "fetch_offset">>
      BY <1>10 DEF ParsedFields
    <2>2. Carried(t) = {"group_id", "member_id", "topic", "partition"}
      BY <1>10 DEF Carried
    <2>. QED  BY <2>1, <2>2 DEF FieldNames
  <1>11. CASE t = "COMMIT_OFFSET"
    <2>1. ParsedFields(t) = <<"group_id", "member_id", "topic", "partition", "fetch_offset">>
      BY <1>11 DEF ParsedFields
    <2>2. Carried(t) = {"group_id", "member_id", "topic", "partition", "fetch_offset"}
      BY <1>11 DEF Carried
    <2>. QED  BY <2>1, <2>2 DEF FieldNames
  <1>. QED
    BY <1>1, <1>2, <1>3, <1>4, <1>5, <1>6, <1>7, <1>8, <1>9, <1>10, <1>11, Zenon DEF Types
-----------------------------------------------------------------------------
(* The codec: requests.                                                    *)

\* The function parse_request computes, which has the cursor after field i.
Cursors(c, in, start, fields, n) ==
    c = [i \in 0..n |-> IF i = 0 THEN start ELSE get_field(in, c[i - 1], fields[i])]

\* There is such a function.
LEMMA CursorsExist ==
    ASSUME NEW in, NEW start, NEW fields, NEW n \in Nat
    PROVE  \E c : Cursors(c, in, start, fields, n)
  <1>. DEFINE S == {m \in Nat : \E c : Cursors(c, in, start, fields, m)}
  <1>1. 0 \in S
    <2>. DEFINE c == [m \in 0..0 |-> start]
    <2>1. c = [m \in 0..0 |-> IF m = 0 THEN start ELSE get_field(in, c[m - 1], fields[m])]
      OBVIOUS
    <2>2. Cursors(c, in, start, fields, 0)
      BY <2>1, Zenon DEF Cursors
    <2>. QED  BY <2>2, Zenon
  <1>2. ASSUME NEW m \in Nat, m \in S PROVE m + 1 \in S
    <2>1. PICK c : Cursors(c, in, start, fields, m)
      BY <1>2, Zenon
    <2>. DEFINE last == get_field(in, c[m], fields[m + 1])
                g == [i \in 0..(m + 1) |-> IF i <= m THEN c[i] ELSE last]
                h == [i \in 0..(m + 1) |-> IF i = 0 THEN start
                                           ELSE get_field(in, g[i - 1], fields[i])]
    <2>2. \A i \in 0..m : c[i] = IF i = 0 THEN start ELSE get_field(in, c[i - 1], fields[i])
      BY <2>1, Zenon DEF Cursors
    <2>. HIDE DEF last
    <2>3. ASSUME NEW i \in 0..(m + 1) PROVE g[i] = h[i]
      <3>1. CASE i = 0
        <4>1. i \in 0..m /\ g[i] = c[i] /\ h[i] = start
          BY <3>1
        <4>. QED  BY <2>2, <3>1, <4>1, Zenon
      <3>2. CASE i <= m /\ i # 0
        <4>1. i \in 0..m /\ i - 1 \in 0..(m + 1) /\ i - 1 <= m
          BY <3>2
        <4>2. /\ g[i] = c[i] /\ g[i - 1] = c[i - 1]
              /\ h[i] = get_field(in, g[i - 1], fields[i])
          BY <3>2, <4>1, Zenon
        <4>. QED  BY <2>2, <3>2, <4>1, <4>2, Zenon
      <3>3. CASE ~(i <= m)
        <4>1. i = m + 1 /\ i # 0 /\ i - 1 = m /\ g[i] = last /\ g[i - 1] = c[m]
          BY <3>3
        <4>2. h[i] = get_field(in, g[i - 1], fields[i])
          BY <4>1, Zenon
        <4>. QED  BY <4>1, <4>2, Zenon DEF last
      <3>. QED  BY <3>1, <3>2, <3>3, Zenon
    <2>4. g = h
      BY <2>3
    <2>5. Cursors(g, in, start, fields, m + 1)
      BY <2>4, Zenon DEF Cursors
    <2>. QED  BY <2>5
  <1>. HIDE DEF S
  <1>3. n \in S
    BY <1>1, <1>2, Climb, Zenon
  <1>. QED  BY <1>3, Zenon DEF S

\* The version and the type are ones that parse_request goes on with.
Known(in) == 2 <= Len(in) /\ in[1] = kProtocolVersion /\ in[2] <= 13

\* The type, and the fields it has.
TypeOf(in) == RequestTypes[in[2] + 1]
FieldsIn(in) == ParsedFields(TypeOf(in))

\* What it returns of type t when the cursors c have read all fields.
Parsed(t, fields, c) ==
    [f \in DOMAIN NoRequest |->
       IF f = "type" THEN t
       ELSE IF \E i \in DOMAIN fields : fields[i] = f
       THEN c[CHOOSE i \in DOMAIN fields : fields[i] = f].value
       ELSE NoRequest[f]]

\* get_u8 reads the byte at the cursor.
LEMMA ByteRead ==
    ASSUME NEW in \in Seq(Bytes), NEW p \in Nat, NEW x
    PROVE  get_u8(in, Got(p, x)) = IF p + 1 <= Len(in) THEN Got(p + 1, in[p + 1]) ELSE Failed
  <1>1. Take(in, Got(p, x), 1) = IF p + 1 <= Len(in)
                                 THEN Got(p + 1, SubSeq(in, p + 1, p + 1)) ELSE Failed
    BY TakeGot, Zenon
  <1>2. CASE p + 1 <= Len(in)
    <2>. DEFINE u == SubSeq(in, p + 1, p + 1)
    <2>1. u[1] = in[p + 1]
      BY <1>2
    <2>. HIDE DEF u
    <2>2. Take(in, Got(p, x), 1) = Got(p + 1, u)
      BY <1>1, <1>2, Zenon DEF u
    <2>3. get_u8(in, Got(p, x)) = Got(p + 1, u[1])
      BY <2>2, GetGot, SMT
    <2>. QED  BY <1>2, <2>1, <2>3, Zenon
  <1>3. CASE ~(p + 1 <= Len(in))
    <2>1. get_u8(in, Got(p, x)) = Failed
      BY <1>1, <1>3, GetGot, SMT
    <2>. QED  BY <1>3, <2>1, Zenon
  <1>. QED  BY <1>2, <1>3, Zenon

\* The type of a request that has a head is one that has fields.
LEMMA TypeRead ==
    ASSUME NEW in \in Seq(Bytes), Known(in)
    PROVE  /\ TypeOf(in) \in Types /\ FieldsIn(in) \in Seq(FieldNames)
           /\ Len(FieldsIn(in)) \in Nat /\ DOMAIN FieldsIn(in) = 1..Len(FieldsIn(in))
  <1>. DEFINE n == in[2]
  <1>1. n \in 0..13
    <2>1. 2 <= Len(in) /\ n <= 13
      BY DEF Known
    <2>2. n \in Bytes
      BY <2>1
    <2>. HIDE DEF n
    <2>3. n \in Int /\ 0 <= n
      BY <2>2 DEF Bytes
    <2>. QED  BY <2>1, <2>3
  <1>. HIDE DEF n
  <1>2. RequestTypes[n + 1] \in Types
    BY <1>1 DEF RequestTypes, Types
  <1>3. TypeOf(in) \in Types
    BY <1>2, Zenon DEF TypeOf, n
  <1>4. FieldsIn(in) \in Seq(FieldNames)
    BY <1>3, FieldsOf, Zenon DEF FieldsIn
  <1>. QED  BY <1>3, <1>4

\* parse_request reads the fields of the type one after the other, or returns
\* the ERROR request.
LEMMA ParseValue ==
    ASSUME NEW in \in Seq(Bytes)
    PROVE  /\ ~Known(in) => parse_request(in) = NoRequest
           /\ Known(in) =>
                 \E c : /\ c[0] = Got(2, in[2])
                        /\ \A i \in 1..Len(FieldsIn(in)) :
                              c[i] = get_field(in, c[i - 1], FieldsIn(in)[i])
                        /\ parse_request(in) = IF parsed_whole(in, c[Len(FieldsIn(in))])
                                               THEN Parsed(TypeOf(in), FieldsIn(in), c) ELSE NoRequest
  <1>. DEFINE version == get_u8(in, Start)
              type == get_u8(in, version)
              known == version.ok /\ version.value = kProtocolVersion
                       /\ type.ok /\ type.value <= 13
              t == RequestTypes[type.value + 1]
              fields == ParsedFields(t)
              C == CHOOSE c : c = [i \in 0..Len(fields) |->
                                     IF i = 0 THEN type
                                     ELSE get_field(in, c[i - 1], fields[i])]
  <1>1. parse_request(in) =
            IF known /\ parsed_whole(in, C[Len(fields)])
            THEN Parsed(t, fields, C) ELSE NoRequest
    BY Zenon DEF parse_request, Parsed
  <1>2. version = IF 1 <= Len(in) THEN Got(1, in[1]) ELSE Failed
    <2>1. 0 \in Nat /\ 0 + 1 = 1
      OBVIOUS
    <2>. QED  BY <2>1, ByteRead, Zenon DEF Start
  <1>3. \A v : get_u8(in, Got(1, v)) = IF 2 <= Len(in) THEN Got(2, in[2]) ELSE Failed
    <2>1. 1 \in Nat /\ 1 + 1 = 2
      OBVIOUS
    <2>. QED  BY <2>1, ByteRead, Zenon
  <1>. DEFINE ver == version
              typ == type
  <1>4. 2 <= Len(in) => 1 <= Len(in)
    OBVIOUS
  <1>. HIDE DEF version
  <1>5. type = IF 2 <= Len(in) THEN Got(2, in[2]) ELSE Failed
    BY <1>2, <1>3, <1>4, AfterFailure, Zenon
  <1>. HIDE DEF type
  <1>6. \A p, v : Got(p, v).value = v /\ Got(p, v).ok
    BY DEF Got
  <1>7. ~Failed.ok
    BY DEF Failed
  <1>8. known <=> Known(in)
    <2>1. CASE 2 <= Len(in)
      <3>1. version = Got(1, in[1]) /\ type = Got(2, in[2])
        BY <1>2, <1>4, <1>5, <2>1, Zenon
      <3>. QED  BY <1>6, <2>1, <3>1 DEF Known
    <2>2. CASE ~(2 <= Len(in))
      BY <1>5, <1>7, <2>2 DEF Known
    <2>. QED  BY <2>1, <2>2, Zenon
  <1>9. ASSUME ~Known(in) PROVE parse_request(in) = NoRequest
    <2>. HIDE DEF known
    <2>. QED  BY <1>1, <1>8, <1>9, Zenon
  <1>10. ASSUME Known(in)
         PROVE  \E c : /\ c[0] = Got(2, in[2])
                       /\ \A i \in 1..Len(FieldsIn(in)) :
                             c[i] = get_field(in, c[i - 1], FieldsIn(in)[i])
                       /\ parse_request(in) = IF parsed_whole(in, c[Len(FieldsIn(in))])
                                              THEN Parsed(TypeOf(in), FieldsIn(in), c) ELSE NoRequest
    <2>1. type = Got(2, in[2])
      BY <1>5, <1>10, Zenon DEF Known
    <2>2. t = TypeOf(in)
      <3>1. type.value = in[2]
        BY <1>6, <2>1, Zenon
      <3>. QED  BY <3>1, Zenon DEF TypeOf
    <2>3. fields = FieldsIn(in)
      BY <2>2, Zenon DEF FieldsIn
    <2>. HIDE DEF t
    <2>4. parse_request(in) = IF parsed_whole(in, C[Len(fields)])
                              THEN Parsed(t, fields, C) ELSE NoRequest
      <3>. HIDE DEF known, C, fields
      <3>. QED  BY <1>1, <1>8, <1>10, Zenon
    <2>. HIDE DEF fields
    <2>5. C = CHOOSE c : Cursors(c, in, type, fields, Len(fields))
      BY Zenon DEF Cursors
    <2>. HIDE DEF C
    <2>6. Len(fields) \in Nat
      BY <1>10, <2>3, TypeRead, Zenon
    <2>7. Cursors(C, in, type, fields, Len(fields))
      BY <2>5, <2>6, CursorsExist, Zenon
    <2>8. \A i \in 0..Len(fields) : C[i] = IF i = 0 THEN type
                                           ELSE get_field(in, C[i - 1], fields[i])
      BY <2>7, Zenon DEF Cursors
    <2>9. 0 \in 0..Len(fields) /\ \A i \in 1..Len(fields) : i \in 0..Len(fields) /\ i # 0
      BY <2>6
    <2>10. C[0] = type /\ \A i \in 1..Len(fields) : C[i] = get_field(in, C[i - 1], fields[i])
      BY <2>8, <2>9, Zenon
    <2>. QED  BY <2>1, <2>2, <2>3, <2>4, <2>10, Zenon
  <1>. QED  BY <1>9, <1>10, Zenon

\* The fields of a request, encoded.
PartsOf(r) ==
    [i \in 1..Len(ParsedFields(r.type)) |->
        put_field(ParsedFields(r.type)[i], r[ParsedFields(r.type)[i]])]

\* The values of the fields of a request.
LEMMA FieldValues ==
    ASSUME NEW r \in RequestRecords, NEW f \in FieldNames
    PROVE  r[f] \in FieldSet(f)
  <1>. DEFINE W == Words
              B == Seq(Bytes)
              T == {RequestTypes[i] : i \in 1..15}
  <1>1. r \in [type : T, topic : B, partition : W, message : B, fetch_offset : W,
               broker_id : W, group_id : B, member_id : B, messages : Seq(B)]
    BY Zenon DEF RequestRecords, Strings
  <1>2. FieldSet(f) = IF f \in {"partition", "fetch_offset", "broker_id"} THEN W
                      ELSE IF f = "messages" THEN Seq(B) ELSE B
    BY Zenon DEF FieldSet
  <1>. HIDE DEF W, B, T
  <1>. QED  BY <1>1, <1>2 DEF FieldNames

\* The code of a type is where the type is in the enumeration.
LEMMA TypeCode ==
    ASSUME NEW r \in RequestRecords, r.type # "ERROR"
    PROVE  \E n \in 0..13 :
              /\ RequestTypes[n + 1] = r.type /\ r.type \in Types
              /\ n = CHOOSE i \in 0..13 : RequestTypes[i + 1] = r.type
  <1>. DEFINE n == CHOOSE i \in 0..13 : RequestTypes[i + 1] = r.type
  <1>1. \E i \in 0..13 : RequestTypes[i + 1] = r.type
    <2>. DEFINE W == Words
    <2>1. r.type \in {RequestTypes[i] : i \in 1..15}
      <3>. HIDE DEF W
      <3>. QED  BY SMT DEF RequestRecords
    <2>2. PICK i \in 1..15 : r.type = RequestTypes[i]
      BY <2>1, Zenon
    <2>3. RequestTypes[15] = "ERROR"
      BY DEF RequestTypes
    <2>4. i # 15
      BY <2>2, <2>3, Zenon
    <2>5. i - 1 \in 0..13 /\ (i - 1) + 1 = i
      BY <2>4
    <2>. QED  BY <2>2, <2>5, Zenon
  <1>2. n \in 0..13 /\ RequestTypes[n + 1] = r.type
    BY <1>1, Zenon
  <1>3. \A i \in 0..13 : RequestTypes[i + 1] \in Types
    BY DEF RequestTypes, Types
  <1>. QED  BY <1>2, <1>3, Zenon

\* A request is its version, its type and its fields.
LEMMA RequestBytes ==
    ASSUME NEW r \in RequestRecords, r.type # "ERROR"
    PROVE  LET in == encode_request(r)
               fs == FieldsIn(in)
               e == PartsOf(r)
           IN  /\ in \in Seq(Bytes) /\ Known(in) /\ TypeOf(in) = r.type /\ r.type \in Types
               /\ fs = ParsedFields(r.type) /\ fs \in Seq(FieldNames) /\ Len(fs) \in Nat
               /\ e \in Seq(Seq(Bytes)) /\ Len(e) = Len(fs)
               /\ \A i \in 1..Len(fs) : /\ r[fs[i]] \in FieldSet(fs[i])
                                        /\ e[i] = put_field(fs[i], r[fs[i]])
               /\ FlattenSeq(e) \in Seq(Bytes) /\ Len(in) = 2 + Len(FlattenSeq(e))
               /\ At(FlattenSeq(e), in, 2)
  <1>. DEFINE in == encode_request(r)
              fs == ParsedFields(r.type)
              e == PartsOf(r)
              b == FlattenSeq(e)
  <1>1. PICK n \in 0..13 : /\ RequestTypes[n + 1] = r.type /\ r.type \in Types
                           /\ n = CHOOSE i \in 0..13 : RequestTypes[i + 1] = r.type
    BY TypeCode, Zenon
  <1>2. fs \in Seq(FieldNames)
    BY <1>1, FieldsOf, Zenon
  <1>3. in = put_u8(kProtocolVersion) \o put_u8(n) \o b
    <2>1. EncodedFields(r.type) = fs
      BY SameFields, Zenon
    <2>2. in = put_u8(kProtocolVersion)
               \o put_u8(CHOOSE i \in 0..13 : RequestTypes[i + 1] = r.type)
               \o FlattenSeq([i \in 1..Len(EncodedFields(r.type)) |->
                       put_field(EncodedFields(r.type)[i], r[EncodedFields(r.type)[i]])])
      BY Zenon DEF encode_request
    <2>. QED  BY <1>1, <2>1, <2>2, Zenon DEF PartsOf
  <1>4. Len(fs) \in Nat /\ \A i \in 1..Len(fs) : fs[i] \in FieldNames
    BY <1>2
  <1>. HIDE DEF fs
  <1>5. \A i \in 1..Len(fs) : r[fs[i]] \in FieldSet(fs[i])
    BY <1>4, FieldValues, Zenon
  <1>6. e = [i \in 1..Len(fs) |-> put_field(fs[i], r[fs[i]])]
    BY Zenon DEF PartsOf, fs
  <1>7. \A i \in 1..Len(fs) : put_field(fs[i], r[fs[i]]) \in Seq(Bytes)
    BY <1>5, ReadField, Zenon
  <1>. HIDE DEF e
  <1>8. e \in Seq(Seq(Bytes)) /\ Len(e) = Len(fs)
    BY <1>4, <1>6, <1>7
  <1>9. \A i \in 1..Len(fs) : e[i] = put_field(fs[i], r[fs[i]])
    BY <1>6, Zenon
  <1>10. b \in Seq(Bytes)
    BY <1>8, UptoSteps, Zenon
  <1>. HIDE DEF b
  <1>. DEFINE x == put_u8(kProtocolVersion)
              y == put_u8(n)
              h == x \o y
  <1>11. /\ x \in Seq(Bytes) /\ Len(x) = 1 /\ x[1] = 1
         /\ y \in Seq(Bytes) /\ Len(y) = 1 /\ y[1] = n
    <2>1. 1 \in Bytes /\ n \in Bytes
      BY DEF Bytes
    <2>2. x = <<1>> /\ y = <<n>>
      BY DEF put_u8, kProtocolVersion
    <2>. HIDE DEF x, y
    <2>. QED  BY <2>1, <2>2
  <1>. HIDE DEF x, y
  <1>12. h \in Seq(Bytes) /\ Len(h) = 2 /\ h[1] = 1 /\ h[2] = n
    <2>1. \A u, v \in Seq(Bytes) :
              /\ u \o v \in Seq(Bytes) /\ Len(u \o v) = Len(u) + Len(v)
              /\ \A j \in 1..Len(u) : (u \o v)[j] = u[j]
              /\ \A j \in 1..Len(v) : (u \o v)[Len(u) + j] = v[j]
      OBVIOUS
    <2>2. 1 + 1 = 2 /\ 1 \in 1..1
      OBVIOUS
    <2>3. /\ h \in Seq(Bytes) /\ Len(h) = Len(x) + Len(y)
          /\ \A j \in 1..Len(x) : h[j] = x[j]
          /\ \A j \in 1..Len(y) : h[Len(x) + j] = y[j]
      BY <1>11, <2>1, Zenon
    <2>. HIDE DEF h
    <2>4. h[1] = x[1] /\ h[Len(x) + 1] = y[1]
      BY <1>11, <2>2, <2>3, Zenon
    <2>. QED  BY <1>11, <2>3, <2>4
  <1>. HIDE DEF h
  <1>13. in = h \o b
    BY <1>3, Zenon DEF h, x, y
  <1>. HIDE DEF in
  <1>14. in \in Seq(Bytes) /\ Len(in) = 2 + Len(b)
    BY <1>10, <1>12, <1>13, ConcatBytes, Zenon
  <1>15. At(in, in, 0)
    <2>1. \A s \in Seq(Bytes) : 0 + Len(s) <= Len(s) /\ \A j \in 1..Len(s) : s[j] = s[0 + j]
      OBVIOUS
    <2>. QED  BY <1>14, <2>1, Zenon DEF At
  <1>16. At(h, in, 0) /\ At(b, in, 0 + Len(h))
    <2>1. 0 \in Nat
      OBVIOUS
    <2>. QED  BY <1>10, <1>12, <1>13, <1>14, <1>15, <2>1, AtConcat, Zenon
  <1>17. At(b, in, 2)
    <2>1. 0 + 2 = 2
      OBVIOUS
    <2>. QED  BY <1>12, <1>16, <2>1, Zenon
  <1>18. in[1] = 1 /\ in[2] = n
    <2>1. 1 \in 1..2 /\ 2 \in 1..2 /\ 0 + 1 = 1 /\ 0 + 2 = 2
      OBVIOUS
    <2>. QED  BY <1>12, <1>16, <2>1, Zenon DEF At
  <1>19. Known(in) /\ TypeOf(in) = r.type
    <2>1. Len(b) \in Nat
      BY <1>10
    <2>2. 2 <= Len(in) /\ n <= 13
      BY <1>14, <2>1
    <2>. QED  BY <1>1, <1>18, <2>2, Zenon DEF Known, TypeOf, kProtocolVersion
  <1>20. FieldsIn(in) = fs
    BY <1>19, Zenon DEF FieldsIn, fs
  <1>. QED
    BY <1>1, <1>2, <1>4, <1>5, <1>8, <1>9, <1>10, <1>14, <1>17, <1>19, <1>20, Zenon DEF in, e, b, fs

\* What reads a field.
LEMMA GetKinds ==
    ASSUME NEW f, NEW in, NEW c
    PROVE  /\ f = "fetch_offset" => get_field(in, c, f) = get_u64(in, c)
           /\ f \in {"partition", "broker_id"} => get_field(in, c, f) = get_u32(in, c)
           /\ f = "messages" => get_field(in, c, f) = get_list(in, c, "strings")
           /\ f \notin {"partition", "fetch_offset", "broker_id", "messages"} =>
                 get_field(in, c, f) = get_string(in, c)
  <1>. DEFINE v == << >>
  <1>. QED  BY FieldKinds, Zenon

\* No field is read after a failure.
LEMMA FieldFailed ==
    ASSUME NEW in, NEW f
    PROVE  get_field(in, Failed, f) = Failed
  <1>1. /\ get_u32(in, Failed) = Failed /\ get_u64(in, Failed) = Failed
        /\ get_string(in, Failed) = Failed /\ get_list(in, Failed, "strings") = Failed
    BY AfterFailure, Zenon
  <1>2. CASE f = "fetch_offset"
    BY <1>1, <1>2, GetKinds, SMT
  <1>3. CASE f \in {"partition", "broker_id"}
    BY <1>1, <1>3, GetKinds, SMT
  <1>4. CASE f = "messages"
    BY <1>1, <1>4, GetKinds, SMT
  <1>5. CASE f \notin {"partition", "fetch_offset", "broker_id", "messages"}
    BY <1>1, <1>5, GetKinds, SMT
  <1>. QED  BY <1>2, <1>3, <1>4, <1>5, Zenon

\* The fields of r up to the i-th are within the limits.
GoodUpto(r, i) ==
    \A j \in 1..i : WithinLimits(ParsedFields(r.type)[j], r[ParsedFields(r.type)[j]])

\* The cursors stand where the fields were written, and have their values.
LEMMA RequestCursors ==
    ASSUME NEW r \in RequestRecords, r.type # "ERROR", FitsHeader(encode_request(r)), NEW c,
           c[0] = Got(2, encode_request(r)[2]),
           \A i \in 1..Len(FieldsIn(encode_request(r))) :
               c[i] = get_field(encode_request(r), c[i - 1], FieldsIn(encode_request(r))[i])
    PROVE  \A i \in 0..Len(ParsedFields(r.type)) :
               IF GoodUpto(r, i)
               THEN c[i] = Got(2 + Len(Upto(PartsOf(r), i)),
                               IF i = 0 THEN encode_request(r)[2] ELSE r[ParsedFields(r.type)[i]])
               ELSE c[i] = Failed
  <1>. DEFINE in == encode_request(r)
              fs == ParsedFields(r.type)
              e == PartsOf(r)
              n == Len(fs)
  <1>1. /\ in \in Seq(Bytes) /\ FieldsIn(in) = fs /\ n \in Nat
        /\ e \in Seq(Seq(Bytes)) /\ Len(e) = n /\ At(FlattenSeq(e), in, 2)
        /\ \A i \in 1..n : r[fs[i]] \in FieldSet(fs[i]) /\ e[i] = put_field(fs[i], r[fs[i]])
    BY RequestBytes, Zenon
  <1>. DEFINE Value(i) == IF i = 0 THEN in[2] ELSE r[fs[i]]
              Here(i) == Got(2 + Len(Upto(e, i)), Value(i))
              Right(i) == IF GoodUpto(r, i) THEN c[i] = Here(i) ELSE c[i] = Failed
              S == {i \in Nat : i <= n => Right(i)}
  <1>2. /\ c[0] = Got(2, in[2]) /\ FitsHeader(in)
        /\ \A i \in 1..n : c[i] = get_field(in, c[i - 1], fs[i])
    BY <1>1, Zenon
  <1>3. \A i : GoodUpto(r, i) <=> \A j \in 1..i : WithinLimits(fs[j], r[fs[j]])
    BY Zenon DEF GoodUpto
  <1>. HIDE DEF in, fs, e, n
  <1>4. 0 \in S
    <2>1. Upto(e, 0) = << >>
      BY <1>1, UptoSteps, Zenon
    <2>2. 2 + Len(<< >>) = 2 /\ 1..0 = {} /\ 0 \in Nat
      OBVIOUS
    <2>3. GoodUpto(r, 0)
      BY <1>3, <2>2, Zenon
    <2>. QED  BY <1>2, <2>1, <2>2, <2>3, Zenon
  <1>5. ASSUME NEW i \in Nat, i \in S PROVE i + 1 \in S
    <2>0. i + 1 \in Nat /\ i + 1 # 0
      OBVIOUS
    <2>. DEFINE k == i + 1
    <2>. SUFFICES ASSUME k <= n PROVE Right(k)
      BY <2>0, Zenon
    <2>1. i <= n /\ k \in 1..n /\ k - 1 = i
      BY <1>1
    <2>2. Right(i)
      BY <1>5, <2>1, Zenon
    <2>3. c[k] = get_field(in, c[i], fs[k])
      BY <1>2, <2>1, Zenon
    <2>4. GoodUpto(r, k) <=> GoodUpto(r, i) /\ WithinLimits(fs[k], r[fs[k]])
      <3>1. \A j : j \in 1..k <=> j \in 1..i \/ j = k
        BY <2>0
      <3>. HIDE DEF k
      <3>. QED  BY <1>3, <3>1, Zenon
    <2>5. Value(k) = r[fs[k]]
      BY <2>0, Zenon
    <2>6. CASE ~GoodUpto(r, i)
      <3>1. c[i] = Failed
        BY <2>2, <2>6, Zenon
      <3>2. c[k] = Failed
        BY <2>3, <3>1, FieldFailed, Zenon
      <3>. QED  BY <2>4, <2>6, <3>2, Zenon
    <2>7. CASE GoodUpto(r, i)
      <3>. DEFINE o == 2 + Len(Upto(e, i))
                  v == Value(i)
                  l == Len(e[k])
      <3>1. c[i] = Got(o, v)
        BY <2>2, <2>7, Zenon
      <3>2. /\ At(e[k], in, o) /\ Len(Upto(e, k)) = Len(Upto(e, i)) + l
            /\ Len(Upto(e, i)) \in Nat
        <4>1. 2 \in Nat
          OBVIOUS
        <4>. QED  BY <1>1, <2>1, <4>1, AtPieces, Zenon
      <3>3. e[k] \in Seq(Bytes)
        BY <1>1, <2>1, UptoSteps, Zenon
      <3>4. l \in Nat
        BY <3>3
      <3>5. 2 + Len(Upto(e, k)) = o + l /\ o \in Nat
        <4>. DEFINE a == Len(Upto(e, i))
                    b == Len(Upto(e, k))
        <4>1. b = a + l /\ a \in Nat /\ l \in Nat
          BY <3>2, <3>4, Zenon
        <4>. HIDE DEF a, b, l, k
        <4>2. 2 + b = (2 + a) + l /\ 2 + a \in Nat
          BY <4>1
        <4>. QED  BY <4>2, Zenon DEF a, b
      <3>. HIDE DEF o, v
      <3>6. get_field(in, Got(o, v), fs[k]) =
                IF WithinLimits(fs[k], r[fs[k]]) THEN Got(o + l, r[fs[k]]) ELSE Failed
        <4>1. r[fs[k]] \in FieldSet(fs[k]) /\ e[k] = put_field(fs[k], r[fs[k]])
          BY <1>1, <2>1, Zenon
        <4>2. At(put_field(fs[k], r[fs[k]]), in, o) /\ l = Len(put_field(fs[k], r[fs[k]]))
          BY <3>2, <4>1, Zenon
        <4>. DEFINE f == fs[k]
                    y == r[f]
        <4>3. y \in FieldSet(f) /\ in \in Seq(Bytes) /\ o \in Nat /\ FitsHeader(in)
              /\ At(put_field(f, y), in, o)
          BY <1>1, <1>2, <3>5, <4>1, <4>2, Zenon
        <4>. HIDE DEF f, y
        <4>4. get_field(in, Got(o, v), f) =
                  IF WithinLimits(f, y) THEN Got(o + Len(put_field(f, y)), y) ELSE Failed
          BY <4>3, ReadField, ZenonT(40)
        <4>. QED  BY <4>2, <4>4, Zenon DEF f, y
      <3>. QED  BY <2>3, <2>4, <2>5, <2>7, <3>1, <3>5, <3>6, Zenon
    <2>. QED  BY <2>6, <2>7, Zenon
  <1>. HIDE DEF S
  <1>6. \A i \in Nat : i \in S
    BY <1>4, <1>5, Climb, Zenon
  <1>7. \A i \in 0..n : i \in Nat /\ i <= n
    BY <1>1
  <1>8. \A i \in 0..n : Right(i)
    BY <1>6, <1>7, Zenon DEF S
  <1>. QED  BY <1>8, Zenon DEF in, fs, e, n

\* Where the cursors are after the last field.
LEMMA RequestEnd ==
    ASSUME NEW r \in RequestRecords, r.type # "ERROR", FitsHeader(encode_request(r)), NEW c,
           c[0] = Got(2, encode_request(r)[2]),
           \A i \in 1..Len(FieldsIn(encode_request(r))) :
               c[i] = get_field(encode_request(r), c[i - 1], FieldsIn(encode_request(r))[i])
    PROVE  LET n == Len(ParsedFields(r.type))
           IN  IF GoodUpto(r, n) THEN \E v : c[n] = Got(Len(encode_request(r)), v)
               ELSE c[n] = Failed
  <1>. DEFINE n == Len(ParsedFields(r.type))
              e == PartsOf(r)
  <1>1. /\ n \in Nat /\ e \in Seq(Seq(Bytes)) /\ Len(e) = n
        /\ Len(encode_request(r)) = 2 + Len(FlattenSeq(e))
    BY RequestBytes, Zenon
  <1>2. n \in 0..n
    BY <1>1
  <1>3. Upto(e, n) = FlattenSeq(e)
    BY <1>1, UptoSteps, Zenon
  <1>. QED  BY <1>1, <1>2, <1>3, RequestCursors, Zenon

\* A request is acceptable when all that was written is within the limits.
LEMMA AcceptableIs ==
    ASSUME NEW r, r.type \in Types
    PROVE  Acceptable(r) <=> GoodUpto(r, Len(ParsedFields(r.type)))
  <1>. DEFINE fs == ParsedFields(r.type)
  <1>1. /\ \A f \in Carried(r.type) : \E i \in 1..Len(fs) : fs[i] = f
        /\ \A i \in 1..Len(fs) : fs[i] \in Carried(r.type) \cup {"fetch_offset"}
    BY FieldsOf, Zenon
  <1>2. r.type # "ERROR"
    BY DEF Types
  <1>3. \A v : WithinLimits("fetch_offset", v)
    BY FieldKinds, Zenon
  <1>. HIDE DEF fs
  <1>4. GoodUpto(r, Len(fs)) <=> \A j \in 1..Len(fs) : WithinLimits(fs[j], r[fs[j]])
    BY Zenon DEF GoodUpto, fs
  <1>5. Acceptable(r) => GoodUpto(r, Len(fs))
    BY <1>1, <1>3, <1>4, Zenon DEF Acceptable
  <1>6. GoodUpto(r, Len(fs)) => Acceptable(r)
    BY <1>1, <1>2, <1>4, Zenon DEF Acceptable
  <1>. QED  BY <1>5, <1>6, Zenon DEF fs

\* parse_request returns the request that encode_request was given, or the ERROR
\* request when it is beyond the limits.
LEMMA RequestRead ==
    ASSUME NEW r \in RequestRecords, FitsHeader(encode_request(r))
    PROVE  encode_request(r) \in Seq(Bytes) /\ ReadAsRequest(encode_request(r), r)
  <1>0. NoRequest.type = "ERROR"
    BY DEF NoRequest
  <1>1. CASE r.type = "ERROR"
    <2>1. encode_request(r) = << >>
      BY <1>1, Zenon DEF encode_request
    <2>2. << >> \in Seq(Bytes) /\ Len(<< >>) = 0 /\ ~(2 <= 0)
      OBVIOUS
    <2>3. ~Known(<< >>)
      BY <2>2, Zenon DEF Known
    <2>4. parse_request(<< >>) = NoRequest
      BY <2>2, <2>3, ParseValue, Zenon
    <2>. QED  BY <1>0, <1>1, <2>1, <2>2, <2>4, Zenon DEF ReadAsRequest, Acceptable
  <1>2. CASE r.type # "ERROR"
    <2>. DEFINE in == encode_request(r)
                fs == ParsedFields(r.type)
                n == Len(fs)
    <2>1. /\ in \in Seq(Bytes) /\ Known(in) /\ TypeOf(in) = r.type /\ r.type \in Types
          /\ FieldsIn(in) = fs /\ n \in Nat /\ DOMAIN fs = 1..n
      BY <1>2, RequestBytes, TypeRead, Zenon
    <2>2. PICK c : /\ c[0] = Got(2, in[2])
                   /\ \A i \in 1..Len(FieldsIn(in)) :
                         c[i] = get_field(in, c[i - 1], FieldsIn(in)[i])
                   /\ parse_request(in) = IF parsed_whole(in, c[Len(FieldsIn(in))])
                                          THEN Parsed(TypeOf(in), FieldsIn(in), c) ELSE NoRequest
      BY <2>1, ParseValue, Zenon
    <2>3. in # << >>
      <3>1. Len(<< >>) = 0 /\ ~(2 <= 0)
        OBVIOUS
      <3>. QED  BY <2>1, <3>1, Zenon DEF Known
    <2>4. IF GoodUpto(r, n) THEN \E v : c[n] = Got(Len(in), v) ELSE c[n] = Failed
      BY <1>2, <2>2, RequestEnd, Zenon
    <2>5. Acceptable(r) <=> GoodUpto(r, n)
      BY <2>1, AcceptableIs, Zenon
    <2>6. CASE ~Acceptable(r)
      <3>1. c[n] = Failed
        BY <2>4, <2>5, <2>6, Zenon
      <3>2. ~parsed_whole(in, Failed)
        BY DEF parsed_whole, Failed
      <3>3. parse_request(in) = NoRequest
        BY <2>1, <2>2, <3>1, <3>2, Zenon
      <3>. QED  BY <1>0, <1>2, <2>1, <2>3, <2>6, <3>3, Zenon DEF ReadAsRequest
    <2>7. CASE Acceptable(r)
      <3>1. PICK v : c[n] = Got(Len(in), v)
        BY <2>4, <2>5, <2>7, Zenon
      <3>2. parsed_whole(in, Got(Len(in), v))
        BY DEF parsed_whole, Got
      <3>3. parse_request(in) = Parsed(r.type, fs, c)
        BY <2>1, <2>2, <3>1, <3>2, Zenon
      <3>4. ASSUME NEW f \in Carried(r.type)
            PROVE  Parsed(r.type, fs, c)[f] = r[f]
        <4>1. \E i \in DOMAIN fs : fs[i] = f
          BY <2>1, FieldsOf, ZenonT(40)
        <4>. DEFINE i == CHOOSE i \in DOMAIN fs : fs[i] = f
        <4>2. i \in 1..n /\ fs[i] = f
          BY <2>1, <4>1, Zenon
        <4>3. f \in FieldNames
          <5>1. fs \in Seq(FieldNames)
            BY <2>1, FieldsOf, Zenon
          <5>2. \A j \in 1..Len(fs) : fs[j] \in FieldNames
            BY <5>1
          <5>. QED  BY <4>2, <5>2, Zenon
        <4>4. f \in DOMAIN NoRequest /\ f # "type"
          BY <4>3 DEF FieldNames, NoRequest
        <4>5. Parsed(r.type, fs, c)[f] = c[i].value
          BY <4>1, <4>4, Zenon DEF Parsed
        <4>. HIDE DEF i
        <4>6. i \in 0..n /\ i # 0 /\ i <= n
          BY <2>1, <4>2
        <4>7. GoodUpto(r, i)
          <5>1. \A j \in 1..i : j \in 1..n
            BY <2>1, <4>6
          <5>. QED  BY <2>5, <2>7, <5>1, Zenon DEF GoodUpto
        <4>8. c[i] = Got(2 + Len(Upto(PartsOf(r), i)), r[f])
          BY <1>2, <2>2, <4>2, <4>6, <4>7, RequestCursors, Zenon
        <4>9. \A p, x : Got(p, x).value = x
          BY DEF Got
        <4>. QED  BY <4>5, <4>8, <4>9, Zenon
      <3>5. Parsed(r.type, fs, c)["type"] = r.type
        <4>1. "type" \in DOMAIN NoRequest
          BY DEF NoRequest
        <4>. QED  BY <4>1, Zenon DEF Parsed
      <3>6. \A f \in Carried(r.type) \cup {"type"} : parse_request(in)[f] = r[f]
        <4>1. r["type"] = r.type
          OBVIOUS
        <4>. QED  BY <3>3, <3>4, <3>5, <4>1, Zenon
      <3>. QED  BY <1>2, <2>1, <2>3, <2>7, <3>6, Zenon DEF ReadAsRequest
    <2>. QED  BY <2>6, <2>7, Zenon
  <1>. QED  BY <1>1, <1>2, Zenon
-----------------------------------------------------------------------------
(* The codec: what is read of the beginning of a payload.                  *)

\* What a get_ returns.
IsCursor(c) == c = Failed \/ \E p \in Nat : \E v : c = Got(p, v)

\* a, read of the beginning of a payload, has failed or is b, read of the whole.
Local(a, b) == IsCursor(b) /\ (a = Failed \/ a = b)

\* Bytes that are there at the beginning are the same bytes of the whole.
LEMMA TakeLocal ==
    ASSUME NEW P \in Seq(Bytes), NEW in \in Seq(Bytes), At(P, in, 0),
           NEW c, IsCursor(c), NEW n \in Nat
    PROVE  Local(Take(P, c, n), Take(in, c, n))
  <1>1. CASE c = Failed
    BY <1>1, AfterFailure, Zenon DEF Local, IsCursor
  <1>2. ASSUME NEW p \in Nat, NEW v, c = Got(p, v) PROVE Local(Take(P, c, n), Take(in, c, n))
    <2>0. p + n \in Nat
      OBVIOUS
    <2>1. Take(in, c, n) = IF p + n <= Len(in)
                           THEN Got(p + n, SubSeq(in, p + 1, p + n)) ELSE Failed
      BY <1>2, TakeGot, Zenon
    <2>2. Take(P, c, n) = IF p + n <= Len(P)
                          THEN Got(p + n, SubSeq(P, p + 1, p + n)) ELSE Failed
      BY <1>2, TakeGot, Zenon
    <2>3. IsCursor(Take(in, c, n))
      BY <2>0, <2>1, Zenon DEF IsCursor
    <2>4. CASE p + n <= Len(P)
      <3>. DEFINE a == SubSeq(P, p + 1, p + n)
                  b == SubSeq(in, p + 1, p + n)
      <3>1. Len(P) <= Len(in) /\ \A j \in 1..Len(P) : P[j] = in[j]
        BY DEF At
      <3>2. p + n <= Len(in)
        BY <2>4, <3>1
      <3>3. a \in Seq(Bytes) /\ Len(a) = n /\ \A j \in 1..n : a[j] = P[p + j]
        BY <2>4
      <3>4. b \in Seq(Bytes) /\ Len(b) = n /\ \A j \in 1..n : b[j] = in[p + j]
        BY <3>2
      <3>5. \A j \in 1..n : p + j \in 1..Len(P)
        BY <2>4
      <3>. HIDE DEF a, b
      <3>6. a = b
        <4>1. \A j \in 1..n : a[j] = b[j]
          BY <3>1, <3>3, <3>4, <3>5, Zenon
        <4>. QED  BY <3>3, <3>4, <4>1, SameBytes, Zenon
      <3>. QED  BY <2>1, <2>2, <2>3, <2>4, <3>2, <3>6, Zenon DEF Local, a, b
    <2>5. CASE ~(p + n <= Len(P))
      BY <2>2, <2>3, <2>5, Zenon DEF Local
    <2>. QED  BY <2>4, <2>5, Zenon
  <1>. QED  BY <1>1, <1>2, Zenon DEF IsCursor

\* A word or a string whose bytes are not there is not read.
LEMMA GetFailed ==
    ASSUME NEW in, NEW c
    PROVE  /\ Take(in, c, 4) = Failed => get_u32(in, c) = Failed
           /\ Take(in, c, 8) = Failed => get_u64(in, c) = Failed
           /\ get_u32(in, c) = Failed => get_string(in, c) = Failed
           /\ get_u32(in, c) = Failed => \A items : get_list(in, c, items) = Failed
  <1>1. ~Failed.ok
    BY DEF Failed
  <1>2. get_u32(in, c) = Failed => \A items : get_list(in, c, items) = Failed
    BY <1>1 DEF get_list
  <1>. QED  BY <1>1, <1>2 DEF get_u32, get_u64, get_string

\* So are words,
LEMMA WordsLocal ==
    ASSUME NEW P \in Seq(Bytes), NEW in \in Seq(Bytes), At(P, in, 0), NEW c, IsCursor(c)
    PROVE  /\ Local(get_u32(P, c), get_u32(in, c))
           /\ Local(get_u64(P, c), get_u64(in, c))
  <1>1. Local(Take(P, c, 4), Take(in, c, 4)) /\ Local(Take(P, c, 8), Take(in, c, 8))
    <2>1. 4 \in Nat /\ 8 \in Nat
      OBVIOUS
    <2>. QED  BY <2>1, TakeLocal, Zenon
  <1>2. ASSUME NEW q \in Nat, NEW x, NEW T
        PROVE  /\ Take(T, c, 4) = Got(q, x) => get_u32(T, c) = Got(q, Value32(x))
               /\ Take(T, c, 8) = Got(q, x) => get_u64(T, c) = Got(q, Value64(x))
    <2>1. Got(q, x).ok
      BY DEF Got
    <2>2. Got(q, x).pos = q /\ Got(q, x).value = x
      BY DEF Got
    <2>. QED  BY <2>1, <2>2 DEF get_u32, get_u64
  <1>3. ASSUME NEW T
        PROVE  /\ Take(T, c, 4) = Failed => get_u32(T, c) = Failed
               /\ Take(T, c, 8) = Failed => get_u64(T, c) = Failed
    BY GetFailed, Zenon
  <1>4. Local(get_u32(P, c), get_u32(in, c))
    <2>1. CASE Take(in, c, 4) = Failed
      BY <1>1, <1>3, <2>1, Zenon DEF Local, IsCursor
    <2>2. ASSUME NEW q \in Nat, NEW x, Take(in, c, 4) = Got(q, x)
          PROVE  Local(get_u32(P, c), get_u32(in, c))
      <3>1. get_u32(in, c) = Got(q, Value32(x))
        BY <1>2, <2>2, Zenon
      <3>2. get_u32(P, c) = Failed \/ get_u32(P, c) = Got(q, Value32(x))
        BY <1>1, <1>2, <1>3, <2>2, Zenon DEF Local
      <3>. QED  BY <3>1, <3>2, Zenon DEF Local, IsCursor
    <2>. QED  BY <1>1, <2>1, <2>2, Zenon DEF Local, IsCursor
  <1>5. Local(get_u64(P, c), get_u64(in, c))
    <2>1. CASE Take(in, c, 8) = Failed
      BY <1>1, <1>3, <2>1, Zenon DEF Local, IsCursor
    <2>2. ASSUME NEW q \in Nat, NEW x, Take(in, c, 8) = Got(q, x)
          PROVE  Local(get_u64(P, c), get_u64(in, c))
      <3>1. get_u64(in, c) = Got(q, Value64(x))
        BY <1>2, <2>2, Zenon
      <3>2. get_u64(P, c) = Failed \/ get_u64(P, c) = Got(q, Value64(x))
        BY <1>1, <1>2, <1>3, <2>2, Zenon DEF Local
      <3>. QED  BY <3>1, <3>2, Zenon DEF Local, IsCursor
    <2>. QED  BY <1>1, <2>1, <2>2, Zenon DEF Local, IsCursor
  <1>. QED  BY <1>4, <1>5, Zenon

\* strings
LEMMA StringLocal ==
    ASSUME NEW P \in Seq(Bytes), NEW in \in Seq(Bytes), At(P, in, 0), NEW c, IsCursor(c)
    PROVE  Local(get_string(P, c), get_string(in, c))
  <1>1. Local(get_u32(P, c), get_u32(in, c))
    BY WordsLocal, Zenon
  <1>2. ASSUME NEW T PROVE get_u32(T, c) = Failed => get_string(T, c) = Failed
    BY GetFailed, Zenon
  <1>3. CASE get_u32(in, c) = Failed
    BY <1>1, <1>2, <1>3, Zenon DEF Local, IsCursor
  <1>4. ASSUME NEW q \in Nat, NEW x, get_u32(in, c) = Got(q, x)
        PROVE  Local(get_string(P, c), get_string(in, c))
    <2>1. ASSUME NEW T
          PROVE  get_u32(T, c) = Got(q, x) =>
                     get_string(T, c) = IF x \in 0..kMaxStringBytes
                                        THEN Take(T, Got(q, x), x) ELSE Failed
      BY GetGot, Zenon
    <2>2. get_string(in, c) = IF x \in 0..kMaxStringBytes
                              THEN Take(in, Got(q, x), x) ELSE Failed
      BY <1>4, <2>1, Zenon
    <2>3. \/ get_string(P, c) = Failed
          \/ get_string(P, c) = IF x \in 0..kMaxStringBytes
                                THEN Take(P, Got(q, x), x) ELSE Failed
      BY <1>1, <1>2, <1>4, <2>1, Zenon DEF Local
    <2>4. IsCursor(Got(q, x))
      BY Zenon DEF IsCursor
    <2>5. CASE x \in 0..kMaxStringBytes
      <3>1. x \in Nat
        BY <2>5, Limits, SMT DEF IsSize
      <3>2. Local(Take(P, Got(q, x), x), Take(in, Got(q, x), x))
        BY <2>4, <3>1, TakeLocal, Zenon
      <3>. QED  BY <2>2, <2>3, <2>5, <3>2, Zenon DEF Local
    <2>6. CASE x \notin 0..kMaxStringBytes
      BY <2>2, <2>3, <2>6, Zenon DEF Local, IsCursor
    <2>. QED  BY <2>5, <2>6, Zenon
  <1>. QED  BY <1>1, <1>3, <1>4, Zenon DEF Local, IsCursor

\* and items.
LEMMA ItemLocal ==
    ASSUME NEW P \in Seq(Bytes), NEW in \in Seq(Bytes), At(P, in, 0), NEW c, IsCursor(c),
           NEW items
    PROVE  Local(get_item(P, c, items), get_item(in, c, items))
  BY WordsLocal, StringLocal, Zenon DEF get_item

\* Lists whose count is read are read item by item.
LEMMA ItemsLocal ==
    ASSUME NEW P \in Seq(Bytes), NEW in \in Seq(Bytes), At(P, in, 0), NEW c, NEW items,
           NEW q \in Nat, NEW n, get_u32(P, c) = Got(q, n), get_u32(in, c) = Got(q, n)
    PROVE  Local(get_list(P, c, items), get_list(in, c, items))
  <1>. DEFINE K == kMaxBatchMessages
  <1>0. K \in Nat
    BY Limits, SMT DEF IsSize
  <1>1. CASE n \notin 0..K
    <2>1. get_list(P, c, items) = Failed /\ get_list(in, c, items) = Failed
      BY <1>1, ListValue, SMT
    <2>. QED  BY <2>1, Zenon DEF Local, IsCursor
  <1>2. CASE n \in 0..K
    <2>0. (\E f : ListRun(f, P, c, q, n, items)) /\ (\E g : ListRun(g, in, c, q, n, items))
      BY <1>2, ListRuns, Zenon
    <2>1. PICK f : /\ get_list(P, c, items) = f[n] /\ f[0] = Got(q, << >>)
                   /\ \A i \in 1..K : f[i] = ListItem(get_item(P, f[i - 1], items), f[i - 1])
      BY <2>0, Zenon DEF ListRun
    <2>2. PICK g : /\ get_list(in, c, items) = g[n] /\ g[0] = Got(q, << >>)
                   /\ \A i \in 1..K : g[i] = ListItem(get_item(in, g[i - 1], items), g[i - 1])
      BY <2>0, Zenon DEF ListRun
    <2>. DEFINE S == {i \in Nat : i <= K => Local(f[i], g[i])}
    <2>3. 0 \in S
      BY <2>1, <2>2, Zenon DEF Local, IsCursor
    <2>4. ASSUME NEW i \in Nat, i \in S PROVE i + 1 \in S
      <3>0. i + 1 \in Nat
        OBVIOUS
      <3>. DEFINE k == i + 1
      <3>. SUFFICES ASSUME k <= K PROVE Local(f[k], g[k])
        BY <3>0, Zenon
      <3>1. i <= K /\ k \in 1..K /\ k - 1 = i
        BY <1>0
      <3>. DEFINE a == get_item(P, f[i], items)
                  b == get_item(in, g[i], items)
      <3>2. Local(f[i], g[i])
        BY <2>4, <3>1, Zenon
      <3>3. f[k] = ListItem(a, f[i]) /\ g[k] = ListItem(b, g[i])
        BY <2>1, <2>2, <3>1, Zenon
      <3>4. IsCursor(g[i]) /\ (f[i] = Failed \/ f[i] = g[i])
        BY <3>2, Zenon DEF Local
      <3>5. IsCursor(b)
        BY <3>4, ItemLocal, Zenon DEF Local
      <3>6. f[i] = g[i] => a = Failed \/ a = b
        <4>1. Local(get_item(P, g[i], items), b)
          BY <3>4, ItemLocal, Zenon
        <4>. QED  BY <4>1, Zenon DEF Local
      <3>7. \A z : ListItem(Failed, z) = Failed
        BY ListItemGot, SMT
      <3>8. f[i] = Failed => a = Failed
        BY AfterFailure, Zenon
      <3>9. g[i] = Failed => b = Failed
        BY AfterFailure, Zenon
      <3>. HIDE DEF a, b, k
      <3>10. IsCursor(g[k])
        <4>1. CASE b = Failed
          BY <3>3, <3>7, <4>1, Zenon DEF IsCursor
        <4>2. CASE b # Failed
          <5>1. PICK p \in Nat : \E v : b = Got(p, v)
            BY <3>5, <4>2, Zenon DEF IsCursor
          <5>2. PICK v : b = Got(p, v)
            BY <5>1, Zenon
          <5>3. PICK o \in Nat : \E s : g[i] = Got(o, s)
            BY <3>4, <3>9, <4>2, Zenon DEF IsCursor
          <5>4. PICK s : g[i] = Got(o, s)
            BY <5>3, Zenon
          <5>5. g[k] = Got(p, Append(s, v))
            BY <3>3, <5>2, <5>4, ListItemGot, SMT
          <5>. QED  BY <5>5, Zenon DEF IsCursor
        <4>. QED  BY <4>1, <4>2, Zenon
      <3>11. f[k] = Failed \/ f[k] = g[k]
        <4>1. CASE a = Failed
          BY <3>3, <3>7, <4>1, Zenon
        <4>2. CASE a # Failed
          <5>1. f[i] = g[i] /\ a = b
            BY <3>4, <3>6, <3>8, <4>2, Zenon
          <5>. QED  BY <3>3, <5>1, Zenon
        <4>. QED  BY <4>1, <4>2, Zenon
      <3>. QED  BY <3>10, <3>11, Zenon DEF Local
    <2>. HIDE DEF S
    <2>5. n \in Nat /\ n <= K
      BY <1>0, <1>2
    <2>6. n \in S
      BY <2>3, <2>4, <2>5, Climb, Zenon
    <2>7. Local(f[n], g[n])
      BY <2>5, <2>6, Zenon DEF S
    <2>. QED  BY <2>1, <2>2, <2>7, Zenon
  <1>. QED  BY <1>1, <1>2, Zenon

\* A payload begins with itself.
LEMMA AtSelf ==
    ASSUME NEW s \in Seq(Bytes)
    PROVE  At(s, s, 0)
  BY DEF At

\* A list of the beginning is the list of the whole,
LEMMA ListLocal ==
    ASSUME NEW P \in Seq(Bytes), NEW in \in Seq(Bytes), At(P, in, 0), NEW c, IsCursor(c),
           NEW items
    PROVE  Local(get_list(P, c, items), get_list(in, c, items))
  <1>1. Local(get_u32(P, c), get_u32(in, c))
    BY WordsLocal, Zenon
  <1>2. ASSUME NEW T PROVE get_u32(T, c) = Failed => get_list(T, c, items) = Failed
    BY GetFailed, Zenon
  <1>3. CASE get_u32(in, c) = Failed
    BY <1>1, <1>2, <1>3, Zenon DEF Local, IsCursor
  <1>4. ASSUME NEW q \in Nat, NEW n, get_u32(in, c) = Got(q, n)
        PROVE  Local(get_list(P, c, items), get_list(in, c, items))
    <2>1. IsCursor(get_list(in, c, items))
      BY <1>4, AtSelf, ItemsLocal, Zenon DEF Local
    <2>2. CASE get_u32(P, c) = Failed
      BY <1>2, <2>1, <2>2, Zenon DEF Local
    <2>3. CASE get_u32(P, c) = get_u32(in, c)
      BY <1>4, <2>3, ItemsLocal, Zenon
    <2>. QED  BY <1>1, <2>2, <2>3, Zenon DEF Local
  <1>. QED  BY <1>1, <1>3, <1>4, Zenon DEF Local, IsCursor

\* and so is any field.
LEMMA FieldLocal ==
    ASSUME NEW P \in Seq(Bytes), NEW in \in Seq(Bytes), At(P, in, 0), NEW c, IsCursor(c), NEW f
    PROVE  Local(get_field(P, c, f), get_field(in, c, f))
  <1>1. /\ Local(get_u32(P, c), get_u32(in, c)) /\ Local(get_u64(P, c), get_u64(in, c))
        /\ Local(get_string(P, c), get_string(in, c))
        /\ Local(get_list(P, c, "strings"), get_list(in, c, "strings"))
    BY WordsLocal, StringLocal, ListLocal, Zenon
  <1>2. CASE f = "fetch_offset"
    BY <1>1, <1>2, GetKinds, ZenonT(40)
  <1>3. CASE f \in {"partition", "broker_id"}
    BY <1>1, <1>3, GetKinds, Zenon
  <1>4. CASE f = "messages"
    BY <1>1, <1>4, GetKinds, Zenon
  <1>5. CASE f \notin {"partition", "fetch_offset", "broker_id", "messages"}
    BY <1>1, <1>5, GetKinds, Zenon
  <1>. QED  BY <1>2, <1>3, <1>4, <1>5, Zenon

\* A request that is cut short does not parse.
LEMMA CutRequest ==
    ASSUME NEW r \in RequestRecords, FitsHeader(encode_request(r)),
           NEW k \in 0..(Len(encode_request(r)) - 1)
    PROVE  parse_request(SubSeq(encode_request(r), 1, k)).type = "ERROR"
  <1>. DEFINE in == encode_request(r)
              P == SubSeq(in, 1, k)
              fs == ParsedFields(r.type)
              n == Len(fs)
  <1>0. NoRequest.type = "ERROR"
    BY DEF NoRequest
  <1>1. r.type # "ERROR"
    <2>. SUFFICES ASSUME r.type = "ERROR" PROVE FALSE
      BY Zenon
    <2>1. in = << >>
      BY Zenon DEF encode_request
    <2>2. Len(in) = 0
      BY <2>1
    <2>3. 0..(0 - 1) = {}
      OBVIOUS
    <2>. QED  BY <2>2, <2>3, Zenon
  <1>2. in \in Seq(Bytes) /\ Known(in) /\ FieldsIn(in) = fs /\ n \in Nat
    BY <1>1, RequestBytes, Zenon
  <1>. HIDE DEF in, fs, n
  <1>3. P \in Seq(Bytes) /\ Len(P) = k /\ At(P, in, 0) /\ k < Len(in)
    <2>1. k \in Nat /\ k < Len(in) /\ k <= Len(in)
      BY <1>2 DEF in
    <2>2. P \in Seq(Bytes) /\ Len(P) = k /\ \A j \in 1..k : P[j] = in[j]
      BY <1>2, <2>1
    <2>. HIDE DEF P
    <2>. QED  BY <2>1, <2>2 DEF At
  <1>. HIDE DEF P
  <1>4. CASE ~Known(P)
    <2>1. parse_request(P) = NoRequest
      BY <1>3, <1>4, ParseValue, Zenon
    <2>. QED  BY <1>0, <2>1, Zenon DEF P, in
  <1>5. CASE Known(P)
    <2>1. P[2] = in[2]
      <3>1. 2 <= Len(P) /\ \A j \in 1..Len(P) : P[j] = in[0 + j]
        BY <1>3, <1>5, Zenon DEF Known, At
      <3>2. 2 \in 1..Len(P) /\ \A j \in 1..Len(P) : 0 + j = j
        BY <1>3, <3>1
      <3>3. \A j \in 1..Len(P) : P[j] = in[j]
        BY <3>1, <3>2, Zenon
      <3>. QED  BY <3>2, <3>3, Zenon
    <2>2. TypeOf(P) = TypeOf(in) /\ FieldsIn(P) = fs
      BY <1>2, <2>1, Zenon DEF TypeOf, FieldsIn
    <2>3. PICK c : /\ c[0] = Got(2, P[2])
                   /\ \A i \in 1..Len(FieldsIn(P)) :
                         c[i] = get_field(P, c[i - 1], FieldsIn(P)[i])
                   /\ parse_request(P) = IF parsed_whole(P, c[Len(FieldsIn(P))])
                                         THEN Parsed(TypeOf(P), FieldsIn(P), c) ELSE NoRequest
      BY <1>3, <1>5, ParseValue, Zenon
    <2>4. PICK d : /\ d[0] = Got(2, in[2])
                   /\ \A i \in 1..Len(FieldsIn(in)) :
                         d[i] = get_field(in, d[i - 1], FieldsIn(in)[i])
      BY <1>2, ParseValue, Zenon
    <2>. DEFINE S == {i \in Nat : i <= n => Local(c[i], d[i])}
    <2>5. 0 \in S
      <3>1. 2 \in Nat
        OBVIOUS
      <3>. QED  BY <2>1, <2>3, <2>4, <3>1, Zenon DEF Local, IsCursor
    <2>6. ASSUME NEW i \in Nat, i \in S PROVE i + 1 \in S
      <3>0. i + 1 \in Nat
        OBVIOUS
      <3>. DEFINE m == i + 1
      <3>. SUFFICES ASSUME m <= n PROVE Local(c[m], d[m])
        BY <3>0, Zenon
      <3>1. i <= n /\ m \in 1..n /\ m - 1 = i
        BY <1>2
      <3>2. Local(c[i], d[i])
        BY <2>6, <3>1, Zenon
      <3>3. c[m] = get_field(P, c[i], fs[m]) /\ d[m] = get_field(in, d[i], fs[m])
        BY <1>2, <2>2, <2>3, <2>4, <3>1, Zenon DEF n
      <3>4. Local(get_field(P, d[i], fs[m]), get_field(in, d[i], fs[m]))
        <4>1. IsCursor(d[i])
          BY <3>2, Zenon DEF Local
        <4>. QED  BY <1>2, <1>3, <4>1, FieldLocal, Zenon
      <3>5. CASE c[i] = Failed
        <4>1. c[m] = Failed
          BY <3>3, <3>5, FieldFailed, Zenon
        <4>. QED  BY <3>3, <3>4, <4>1, Zenon DEF Local
      <3>6. CASE c[i] = d[i]
        BY <3>3, <3>4, <3>6, Zenon
      <3>. QED  BY <3>2, <3>5, <3>6, Zenon DEF Local
    <2>. HIDE DEF S
    <2>7. Local(c[n], d[n])
      <3>1. n <= n
        BY <1>2
      <3>2. n \in S
        BY <1>2, <2>5, <2>6, Climb, Zenon
      <3>. QED  BY <3>1, <3>2, Zenon DEF S
    <2>8. d[n] = Failed \/ \E v : d[n] = Got(Len(in), v)
      BY <1>1, <2>4, RequestEnd, Zenon DEF in, fs, n
    <2>9. ~parsed_whole(P, c[n])
      <3>1. ~parsed_whole(P, Failed)
        BY DEF parsed_whole, Failed
      <3>2. ASSUME NEW v PROVE ~parsed_whole(P, Got(Len(in), v))
        <4>1. Len(in) # Len(P)
          BY <1>2, <1>3, SMTT(40)
        <4>. QED  BY <4>1 DEF parsed_whole, Got
      <3>. QED  BY <2>7, <2>8, <3>1, <3>2, Zenon DEF Local
    <2>10. parse_request(P) = NoRequest
      BY <2>2, <2>3, <2>9, Zenon DEF n
    <2>. QED  BY <1>0, <2>10, Zenon DEF P, in
  <1>. QED  BY <1>4, <1>5, Zenon
-----------------------------------------------------------------------------
(* The codec: responses.                                                   *)

\* What parse_response returns of a head and an offset that have been read.
LEMMA ResponseValue ==
    ASSUME NEW in, NEW s, NEW k, NEW o,
           get_u8(in, Start) = Got(1, kProtocolVersion),
           get_u8(in, Got(1, kProtocolVersion)) = Got(2, s),
           get_u8(in, Got(2, s)) = Got(3, k), get_u64(in, Got(3, k)) = Got(11, o)
    PROVE  LET message == get_string(in, Got(11, o))
               offsets == get_list(in, message, "words")
           IN  parse_response(in) =
                   IF parsed_whole(in, offsets)
                   THEN [success |-> s # 0, message |-> message.value,
                         appended_offset |-> o, appended_offsets |-> offsets.value]
                   ELSE Malformed
  <1>1. \A p, v : Got(p, v).ok
    BY DEF Got
  <1>2. \A p, v : Got(p, v).value = v
    BY DEF Got
  <1>. DEFINE message == get_string(in, Got(11, o))
              offsets == get_list(in, message, "words")
  <1>3. parse_response(in) =
            IF Got(1, kProtocolVersion).ok /\ Got(1, kProtocolVersion).value = kProtocolVersion
               /\ parsed_whole(in, offsets)
            THEN [success |-> Got(2, s).value # 0, message |-> message.value,
                  appended_offset |-> Got(11, o).value, appended_offsets |-> offsets.value]
            ELSE Malformed
    BY Zenon DEF parse_response
  <1>. HIDE DEF offsets, message
  <1>. QED  BY <1>1, <1>2, <1>3, Zenon DEF offsets, message

\* Whoever reads a frame as a request finds the type of its second byte, if any.
LEMMA TypeOfParsed ==
    ASSUME NEW in \in Seq(Bytes)
    PROVE  parse_request(in).type = "ERROR" \/ (Known(in) /\ parse_request(in).type = TypeOf(in))
  <1>1. NoRequest.type = "ERROR" /\ "type" \in DOMAIN NoRequest
    BY DEF NoRequest
  <1>2. \A t, fs, c : Parsed(t, fs, c).type = t
    BY <1>1 DEF Parsed
  <1>3. CASE ~Known(in)
    BY <1>1, <1>3, ParseValue, Zenon
  <1>4. CASE Known(in)
    <2>1. PICK c : parse_request(in) = IF parsed_whole(in, c[Len(FieldsIn(in))])
                                       THEN Parsed(TypeOf(in), FieldsIn(in), c) ELSE NoRequest
      BY <1>4, ParseValue, Zenon
    <2>2. parse_request(in) = Parsed(TypeOf(in), FieldsIn(in), c) \/ parse_request(in) = NoRequest
      BY <2>1, Zenon
    <2>3. parse_request(in).type = TypeOf(in) \/ parse_request(in).type = "ERROR"
      BY <1>1, <1>2, <2>2
    <2>. QED  BY <1>4, <2>3, Zenon
  <1>. QED  BY <1>3, <1>4, Zenon

\* A response is bytes: three of them, the offset, the message and the offsets.
LEMMA ResponseBytes ==
    ASSUME NEW r \in ResponseRecords
    PROVE  LET in == serialize_response(r)
               m == put_string(r.message)
               l == put_list(r.appended_offsets, "words")
           IN  /\ in \in Seq(Bytes) /\ Len(in) = 11 + Len(m) + Len(l)
               /\ Len(m) \in Nat /\ Len(l) \in Nat
               /\ At(<<1>>, in, 0) /\ At(<<IF r.success THEN 1 ELSE 0>>, in, 1)
               /\ At(<<IF r.message = << >> THEN 0 ELSE 1>>, in, 2)
               /\ At(put_u64(r.appended_offset), in, 3) /\ At(m, in, 11)
               /\ At(l, in, 11 + Len(m))
               /\ r.message \in Seq(Bytes) /\ r.appended_offset \in Words
               /\ r.appended_offsets \in Seq(ItemSet("words"))
  <1>. DEFINE in == serialize_response(r)
              a == <<1>>
              b == <<IF r.success THEN 1 ELSE 0>>
              k == <<IF r.message = << >> THEN 0 ELSE 1>>
              o == put_u64(r.appended_offset)
              m == put_string(r.message)
              l == put_list(r.appended_offsets, "words")
  <1>1. /\ r.message \in Seq(Bytes) /\ r.appended_offset \in Words
        /\ r.appended_offsets \in Seq(ItemSet("words"))
    <2>. DEFINE W == Words
    <2>1. ItemSet("words") = W
      <3>1. "words" # "strings"
        OBVIOUS
      <3>. QED  BY <3>1, Zenon DEF ItemSet
    <2>2. r \in [success : BOOLEAN, message : Seq(Bytes), appended_offset : W,
                 appended_offsets : Seq(W)]
      BY Zenon DEF ResponseRecords, Strings
    <2>. HIDE DEF W
    <2>. QED  BY <2>1, <2>2 DEF W
  <1>2. o \in Seq(Bytes) /\ Len(o) = 8
    BY <1>1, LongWordInverts, Zenon
  <1>3. m \in Seq(Bytes) /\ l \in Seq(Bytes)
    BY <1>1, StringBytes, ListBytes, Zenon
  <1>4. /\ a \in Seq(Bytes) /\ Len(a) = 1 /\ b \in Seq(Bytes) /\ Len(b) = 1
        /\ k \in Seq(Bytes) /\ Len(k) = 1
    <2>1. 0 \in Bytes /\ 1 \in Bytes
      BY DEF Bytes
    <2>2. \A v \in Bytes : <<v>> \in Seq(Bytes) /\ Len(<<v>>) = 1
      OBVIOUS
    <2>. QED  BY <2>1, <2>2, Zenon
  <1>5. in = a \o b \o k \o o \o m \o l
    <2>1. /\ put_u8(kProtocolVersion) = a /\ put_u8(IF r.success THEN 1 ELSE 0) = b
          /\ put_u8(IF r.message = << >> THEN 0 ELSE 1) = k
      <3>1. put_u8(1) = <<1>> /\ put_u8(0) = <<0>>
        BY DEF put_u8
      <3>. QED  BY <3>1, Zenon DEF kProtocolVersion
    <2>. QED  BY <2>1, Zenon DEF serialize_response
  <1>. HIDE DEF in, a, b, k, o, m, l
  <1>. DEFINE s2 == a \o b
              s3 == s2 \o k
              s4 == s3 \o o
              s5 == s4 \o m
  <1>6. s2 \in Seq(Bytes) /\ Len(s2) = Len(a) + Len(b)
    BY <1>4, ConcatBytes, Zenon
  <1>. HIDE DEF s2
  <1>7. s3 \in Seq(Bytes) /\ Len(s3) = Len(s2) + Len(k)
    BY <1>4, <1>6, ConcatBytes, Zenon
  <1>. HIDE DEF s3
  <1>8. s4 \in Seq(Bytes) /\ Len(s4) = Len(s3) + Len(o)
    BY <1>2, <1>7, ConcatBytes, Zenon
  <1>. HIDE DEF s4
  <1>9. s5 \in Seq(Bytes) /\ Len(s5) = Len(s4) + Len(m)
    BY <1>3, <1>8, ConcatBytes, Zenon
  <1>. HIDE DEF s5
  <1>10. in = s5 \o l
    BY <1>5, Zenon DEF s2, s3, s4, s5
  <1>11. in \in Seq(Bytes) /\ Len(in) = Len(s5) + Len(l)
    BY <1>3, <1>9, <1>10, ConcatBytes, Zenon
  <1>12. /\ Len(m) \in Nat /\ Len(l) \in Nat /\ Len(s2) = 2 /\ Len(s3) = 3 /\ Len(s4) = 11
         /\ Len(s5) = 11 + Len(m)
    <2>1. Len(m) \in Nat /\ Len(l) \in Nat
      BY <1>3
    <2>. DEFINE x == Len(m)
                la == Len(a)
                lb == Len(b)
                lk == Len(k)
                lo == Len(o)
                l2 == Len(s2)
                l3 == Len(s3)
                l4 == Len(s4)
                l5 == Len(s5)
    <2>2. /\ x \in Nat /\ la = 1 /\ lb = 1 /\ lk = 1 /\ lo = 8 /\ l2 = la + lb /\ l3 = l2 + lk
          /\ l4 = l3 + lo /\ l5 = l4 + x
      BY <1>2, <1>4, <1>6, <1>7, <1>8, <1>9, <2>1, Zenon
    <2>. HIDE DEF x, la, lb, lk, lo, l2, l3, l4, l5
    <2>3. l2 = 2 /\ l3 = 3 /\ l4 = 11 /\ l5 = 11 + x
      BY <2>2
    <2>. QED  BY <2>1, <2>3, Zenon DEF x, l2, l3, l4, l5
  <1>13. /\ 0 \in Nat /\ \A j \in Nat : 0 + j = j
    OBVIOUS
  <1>14. At(s5, in, 0) /\ At(l, in, 0 + Len(s5))
    BY <1>3, <1>9, <1>10, <1>11, <1>13, AtSelf, AtConcat, Zenon
  <1>15. At(s4, in, 0) /\ At(m, in, 0 + Len(s4))
    BY <1>3, <1>8, <1>11, <1>13, <1>14, AtConcat, Zenon DEF s5
  <1>16. At(s3, in, 0) /\ At(o, in, 0 + Len(s3))
    BY <1>2, <1>7, <1>11, <1>13, <1>15, AtConcat, Zenon DEF s4
  <1>17. At(s2, in, 0) /\ At(k, in, 0 + Len(s2))
    BY <1>4, <1>6, <1>11, <1>13, <1>16, AtConcat, Zenon DEF s3
  <1>18. At(a, in, 0) /\ At(b, in, 0 + Len(a))
    BY <1>4, <1>11, <1>13, <1>17, AtConcat, Zenon DEF s2
  <1>19. \A s \in Seq(Bytes) : 0 + Len(s) = Len(s)
    OBVIOUS
  <1>20. /\ At(l, in, 11 + Len(m)) /\ At(m, in, 11) /\ At(o, in, 3) /\ At(k, in, 2)
         /\ At(b, in, 1)
    BY <1>4, <1>6, <1>7, <1>8, <1>9, <1>12, <1>14, <1>15, <1>16, <1>17, <1>18, <1>19, Zenon
  <1>21. Len(in) = 11 + Len(m) + Len(l)
    BY <1>11, <1>12, Zenon
  <1>. QED
    BY <1>1, <1>11, <1>12, <1>18, <1>20, <1>21, Zenon DEF in, a, b, k, o, m, l

\* parse_response returns the response that serialize_response was given, or
\* Malformed when it is beyond the limits; read as a request it is not an ACK.
LEMMA ResponseRead ==
    ASSUME NEW r \in ResponseRecords, FitsHeader(serialize_response(r))
    PROVE  serialize_response(r) \in Seq(Bytes) /\ ReadAsResponse(serialize_response(r), r)
  <1>. DEFINE in == serialize_response(r)
              m == put_string(r.message)
              l == put_list(r.appended_offsets, "words")
              s == IF r.success THEN 1 ELSE 0
              k == IF r.message = << >> THEN 0 ELSE 1
              o == r.appended_offset
              q == 11 + Len(m)
  <1>1. /\ in \in Seq(Bytes) /\ Len(in) = q + Len(l) /\ Len(m) \in Nat /\ Len(l) \in Nat
        /\ At(<<1>>, in, 0) /\ At(<<s>>, in, 1) /\ At(<<k>>, in, 2)
        /\ At(put_u64(o), in, 3) /\ At(m, in, 11) /\ At(l, in, q)
        /\ r.message \in Seq(Bytes) /\ o \in Words
        /\ r.appended_offsets \in Seq(ItemSet("words"))
    BY ResponseBytes, Zenon
  <1>2. FitsHeader(in)
    OBVIOUS
  <1>3. s \in Bytes /\ k \in Bytes /\ 1 \in Bytes
    <2>1. 0 \in Bytes /\ 1 \in Bytes
      BY DEF Bytes
    <2>. QED  BY <2>1, Zenon
  <1>4. s \in {0, 1} /\ (s # 0 <=> r.success)
    OBVIOUS
  <1>. HIDE DEF in, m, l, s, k, o
  <1>5. q \in Nat /\ 11 \in Nat /\ 3 \in Nat /\ 2 \in Nat /\ 1 \in Nat /\ 0 \in Nat
    BY <1>1
  <1>6. get_u8(in, Start) = Got(1, kProtocolVersion)
    <2>1. get_u8(in, Got(0, 0)) = Got(0 + 1, 1)
      BY <1>1, <1>3, <1>5, ReadWords, SMT
    <2>2. 0 + 1 = 1
      OBVIOUS
    <2>. QED  BY <2>1, <2>2, Zenon DEF Start, kProtocolVersion
  <1>7. get_u8(in, Got(1, kProtocolVersion)) = Got(2, s)
    <2>1. get_u8(in, Got(1, kProtocolVersion)) = Got(1 + 1, s)
      BY <1>1, <1>3, <1>5, ReadWords, SMT
    <2>2. 1 + 1 = 2
      OBVIOUS
    <2>. QED  BY <2>1, <2>2, Zenon
  <1>8. get_u8(in, Got(2, s)) = Got(3, k)
    <2>1. get_u8(in, Got(2, s)) = Got(2 + 1, k)
      BY <1>1, <1>3, <1>5, ReadWords, SMT
    <2>2. 2 + 1 = 3
      OBVIOUS
    <2>. QED  BY <2>1, <2>2, Zenon
  <1>9. get_u64(in, Got(3, k)) = Got(11, o)
    <2>1. get_u64(in, Got(3, k)) = Got(3 + 8, o)
      BY <1>1, <1>5, ReadWords, SMT
    <2>2. 3 + 8 = 11
      OBVIOUS
    <2>. QED  BY <2>1, <2>2, Zenon
  <1>10. get_string(in, Got(11, o)) =
             IF Len(r.message) <= kMaxStringBytes THEN Got(q, r.message) ELSE Failed
    BY <1>1, <1>2, <1>5, ReadString, Zenon DEF m
  <1>11. get_list(in, Got(q, r.message), "words") =
             IF Len(r.appended_offsets) <= kMaxBatchMessages
             THEN Got(Len(in), r.appended_offsets) ELSE Failed
    <2>1. ListWithin(r.appended_offsets, "words") <=>
              Len(r.appended_offsets) <= kMaxBatchMessages
      <3>1. "words" # "strings"
        OBVIOUS
      <3>. QED  BY <3>1, Zenon DEF ListWithin, ItemWithin
    <2>. HIDE DEF q
    <2>2. get_list(in, Got(q, r.message), "words") =
              IF ListWithin(r.appended_offsets, "words")
              THEN Got(q + Len(l), r.appended_offsets) ELSE Failed
      BY <1>1, <1>2, <1>5, ReadList, Zenon DEF l
    <2>. QED  BY <1>1, <2>1, <2>2, Zenon
  <1>. HIDE DEF q
  <1>. DEFINE message == get_string(in, Got(11, o))
              offsets == get_list(in, message, "words")
  <1>12. parse_response(in) =
             IF parsed_whole(in, offsets)
             THEN [success |-> s # 0, message |-> message.value,
                   appended_offset |-> o, appended_offsets |-> offsets.value]
             ELSE Malformed
    BY <1>6, <1>7, <1>8, <1>9, ResponseValue, Zenon
  <1>. HIDE DEF message, offsets
  <1>13. ASSUME Len(r.message) <= kMaxStringBytes, Len(r.appended_offsets) <= kMaxBatchMessages
         PROVE  parse_response(in) = r
    <2>1. message = Got(q, r.message)
      BY <1>10, <1>13, Zenon DEF message
    <2>2. offsets = Got(Len(in), r.appended_offsets)
      BY <1>11, <1>13, <2>1, Zenon DEF offsets
    <2>3. \A p, v : Got(p, v).value = v
      BY DEF Got
    <2>4. \A v : parsed_whole(in, Got(Len(in), v))
      BY DEF parsed_whole, Got
    <2>5. parse_response(in) = [success |-> s # 0, message |-> r.message,
                                appended_offset |-> o, appended_offsets |-> r.appended_offsets]
      BY <1>12, <2>1, <2>2, <2>3, <2>4, Zenon
    <2>6. r = [success |-> s # 0, message |-> r.message,
               appended_offset |-> o, appended_offsets |-> r.appended_offsets]
      <3>. DEFINE W == Words
      <3>1. r \in [success : BOOLEAN, message : Seq(Bytes), appended_offset : W,
                   appended_offsets : Seq(W)]
        BY Zenon DEF ResponseRecords, Strings
      <3>. HIDE DEF W
      <3>. QED  BY <1>4, <3>1 DEF o
    <2>. QED  BY <2>5, <2>6, Zenon
  <1>14. ASSUME ~(/\ Len(r.message) <= kMaxStringBytes
                  /\ Len(r.appended_offsets) <= kMaxBatchMessages)
         PROVE  parse_response(in) = Malformed
    <2>1. offsets = Failed
      <3>1. CASE Len(r.message) <= kMaxStringBytes
        <4>1. message = Got(q, r.message)
          BY <1>10, <3>1, Zenon DEF message
        <4>. QED  BY <1>11, <1>14, <3>1, <4>1, Zenon DEF offsets
      <3>2. CASE ~(Len(r.message) <= kMaxStringBytes)
        <4>1. message = Failed
          BY <1>10, <3>2, Zenon DEF message
        <4>. QED  BY <4>1, AfterFailure, Zenon DEF offsets
      <3>. QED  BY <3>1, <3>2, Zenon
    <2>2. ~parsed_whole(in, Failed)
      BY DEF parsed_whole, Failed
    <2>. QED  BY <1>12, <2>1, <2>2, Zenon
  <1>15. parse_request(in).type # "ACK"
    <2>1. in[2] = s
      <3>1. Len(<<s>>) = 1 /\ <<s>>[1] = s
        OBVIOUS
      <3>2. 1 \in 1..1 /\ 1 + 1 = 2
        OBVIOUS
      <3>. QED  BY <1>1, <3>1, <3>2, Zenon DEF At
    <2>2. TypeOf(in) # "ACK"
      <3>1. RequestTypes[s + 1] # "ACK"
        BY <1>4 DEF RequestTypes
      <3>. QED  BY <2>1, <3>1, Zenon DEF TypeOf
    <2>. QED  BY <1>1, <2>2, TypeOfParsed
  <1>. QED  BY <1>1, <1>13, <1>14, <1>15, Zenon DEF ReadAsResponse, in

\* What the codec promises of the messages that are sent: parsing inverts
\* encoding, and a request that is cut short does not parse.
CodecInverts ==
    /\ \A r \in Requests :
          LET payload == encode_request(r)
          IN  /\ ReadAsRequest(payload, r)
              /\ \A k \in 0..(Len(payload) - 1) :
                    parse_request(SubSeq(payload, 1, k)).type = "ERROR"
    /\ \A r \in Responses : ReadAsResponse(serialize_response(r), r)

\* encode_request and parse_request, serialize_response and parse_response agree.
THEOREM CodecAgrees == CodecInverts
  <1>1. /\ \A r \in Requests : r \in RequestRecords /\ FitsHeader(encode_request(r))
        /\ \A r \in Responses : r \in ResponseRecords /\ FitsHeader(serialize_response(r))
    BY WireAssumption, Zenon
  <1>. QED  BY <1>1, RequestRead, CutRequest, ResponseRead, Zenon DEF CodecInverts
-----------------------------------------------------------------------------
(* writev: what Remaining leaves of the iovecs.                            *)

\* The bytes of the iovecs, of which write_frame has two at most: of one,
LEMMA FlattenOne ==
    ASSUME NEW a \in Seq(Bytes) PROVE FlattenSeq(<<a>>) = a
  <1>1. << >> \in Seq(Seq(Bytes)) /\ Append(<< >>, a) = <<a>> /\ << >> \o a = a
    OBVIOUS
  <1>2. FlattenSeq(Append(<< >>, a)) = FlattenSeq(<< >>) \o a
    BY <1>1, FlattenAppend
  <1>. QED  BY <1>1, <1>2, FlattenNone

\* and of the header and the payload.
LEMMA FlattenTwo ==
    ASSUME NEW a \in Seq(Bytes), NEW b \in Seq(Bytes) PROVE FlattenSeq(<<a, b>>) = a \o b
  <1>1. <<a>> \in Seq(Seq(Bytes)) /\ Append(<<a>>, b) = <<a, b>>
    <2>1. ASSUME NEW S, NEW x \in S, NEW y \in S
          PROVE  <<x>> \in Seq(S) /\ Append(<<x>>, y) = <<x, y>>
      <3>. DEFINE u == Append(<<x>>, y)
                  v == <<x, y>>
      <3>1. <<x>> \in Seq(S) /\ Len(<<x>>) = 1 /\ <<x>>[1] = x
        OBVIOUS
      <3>2. u \in Seq(S) /\ Len(u) = 2 /\ u[1] = x /\ u[2] = y
        BY <3>1
      <3>3. v \in Seq(S) /\ Len(v) = 2 /\ v[1] = x /\ v[2] = y
        OBVIOUS
      <3>. HIDE DEF u, v
      <3>4. u = v
        BY <3>2, <3>3
      <3>. QED  BY <3>1, <3>4, Zenon DEF u, v
    <2>. QED  BY <2>1, Zenon
  <1>2. FlattenSeq(Append(<<a>>, b)) = FlattenSeq(<<a>>) \o b
    BY <1>1, FlattenAppend
  <1>. QED  BY <1>1, <1>2, FlattenOne, Zenon

\* The greatest of a set of iovec counts.
LEMMA MaxIs ==
    ASSUME NEW S \in SUBSET (0..2), NEW m \in S, \A x \in S : x <= m
    PROVE  Max(S) = m
  <1>1. \E x \in S : \A y \in S : x >= y
    OBVIOUS
  <1>. DEFINE M == Max(S)
  <1>2. M \in S /\ \A y \in S : M >= y
    BY <1>1, Zenon DEF Max
  <1>. HIDE DEF M
  <1>3. M \in Nat /\ m \in Nat /\ M >= m /\ M <= m
    BY <1>2
  <1>4. M = m
    BY <1>3
  <1>. QED  BY <1>4, Zenon DEF M

\* skip of the n iovecs are consumed whole by k bytes.
Consumes(bufs, n, k, skip) ==
    \A i \in 0..n : Len(FlattenSeq(SubSeq(bufs, 1, i))) <= k <=> i <= skip

\* The iovecs from there on.
From(bufs, n, k, skip) ==
    [i \in 1..(n - skip) |->
        IF i = 1 THEN SubSeq(bufs[skip + 1],
                             k - Len(FlattenSeq(SubSeq(bufs, 1, skip))) + 1,
                             Len(bufs[skip + 1]))
        ELSE bufs[skip + i]]

\* Remaining, given how many iovecs are consumed whole.
LEMMA RemainingSkips ==
    ASSUME NEW bufs, NEW n \in 0..2, Len(bufs) = n, NEW k, NEW skip \in 0..n,
           Consumes(bufs, n, k, skip)
    PROVE  Remaining(bufs, k) = From(bufs, n, k, skip)
  <1>. DEFINE whole == {i \in 0..Len(bufs) : Len(FlattenSeq(SubSeq(bufs, 1, i))) <= k}
  <1>1. \A i : i \in whole <=> i \in 0..n /\ i <= skip
    BY Zenon DEF Consumes
  <1>2. 0..n \subseteq 0..2 /\ skip \in 0..n /\ skip <= skip
    OBVIOUS
  <1>. HIDE DEF whole
  <1>3. whole \subseteq 0..2 /\ skip \in whole /\ \A x \in whole : x <= skip
    BY <1>1, <1>2, Zenon
  <1>4. Max(whole) = skip
    BY <1>3, MaxIs, Zenon
  <1>. QED  BY <1>4, Zenon DEF Remaining, whole, From

\* The pieces SubSeq takes of one iovec and of two.
LEMMA FirstIovecs ==
    ASSUME NEW a, NEW b
    PROVE  /\ Len(<<a>>) = 1 /\ <<a>>[1] = a
           /\ SubSeq(<<a>>, 1, 0) = << >> /\ SubSeq(<<a>>, 1, 1) = <<a>>
           /\ Len(<<a, b>>) = 2 /\ <<a, b>>[1] = a /\ <<a, b>>[2] = b
           /\ SubSeq(<<a, b>>, 1, 0) = << >> /\ SubSeq(<<a, b>>, 1, 1) = <<a>>
           /\ SubSeq(<<a, b>>, 1, 2) = <<a, b>>
  <1>1. /\ Len(<<a>>) = 1 /\ <<a>>[1] = a /\ <<a>> \in Seq({a})
    OBVIOUS
  <1>2. Len(<<a, b>>) = 2 /\ <<a, b>>[1] = a /\ <<a, b>>[2] = b /\ <<a, b>> \in Seq({a, b})
    OBVIOUS
  <1>3. SubSeq(<<a>>, 1, 0) = << >>
    BY <1>1
  <1>4. SubSeq(<<a, b>>, 1, 0) = << >>
    BY <1>2
  <1>. DEFINE S == {a, b}
              one == <<a>>
              two == <<a, b>>
  <1>8. one \in Seq(S) /\ two \in Seq(S) /\ \A i \in 1..1 : one[i] = two[i]
    OBVIOUS
  <1>9. Len(one) = 1 /\ Len(two) = 2
    OBVIOUS
  <1>. HIDE DEF S, one, two
  <1>5. SubSeq(one, 1, 1) = one
    BY <1>8, <1>9
  <1>6. SubSeq(two, 1, 1) = one
    BY <1>8, <1>9
  <1>7. SubSeq(two, 1, 2) = two
    BY <1>8, <1>9
  <1>. QED  BY <1>1, <1>2, <1>3, <1>4, <1>5, <1>6, <1>7, Zenon DEF one, two

\* What is left of one iovec.
LEMMA RemainingOfOne ==
    ASSUME NEW a \in Seq(Bytes), NEW k \in 0..Len(a)
    PROVE  Remaining(<<a>>, k) = IF k = Len(a) THEN << >> ELSE <<SubSeq(a, k + 1, Len(a))>>
  <1>. DEFINE bufs == <<a>>
              sum(i) == Len(FlattenSeq(SubSeq(bufs, 1, i)))
  <1>1. /\ Len(bufs) = 1 /\ bufs[1] = a
        /\ SubSeq(bufs, 1, 0) = << >> /\ SubSeq(bufs, 1, 1) = bufs
    BY FirstIovecs, Zenon
  <1>2. sum(0) = 0 /\ sum(1) = Len(a)
    <2>1. Len(<< >>) = 0
      OBVIOUS
    <2>. QED  BY <1>1, <2>1, FlattenNone, FlattenOne, Zenon
  <1>. HIDE DEF bufs, sum
  <1>3. CASE k = Len(a)
    <2>1. \A i \in 0..1 : sum(i) <= k <=> i <= 1
      BY <1>2, <1>3
    <2>2. Remaining(bufs, k) = From(bufs, 1, k, 1)
      <3>1. 1 \in 0..2 /\ 1 \in 0..1 /\ Consumes(bufs, 1, k, 1)
        BY <2>1 DEF Consumes, sum
      <3>. QED  BY <1>1, <3>1, RemainingSkips, Zenon
    <2>3. From(bufs, 1, k, 1) = << >>
      BY DEF From
    <2>. QED  BY <1>3, <2>2, <2>3, Zenon DEF bufs
  <1>4. CASE k # Len(a)
    <2>1. \A i \in 0..1 : sum(i) <= k <=> i <= 0
      BY <1>2, <1>4
    <2>2. Remaining(bufs, k) = From(bufs, 1, k, 0)
      <3>1. 1 \in 0..2 /\ 0 \in 0..1 /\ Consumes(bufs, 1, k, 0)
        BY <2>1 DEF Consumes, sum
      <3>. QED  BY <1>1, <3>1, RemainingSkips, Zenon
    <2>3. From(bufs, 1, k, 0) =
             [i \in 1..(1 - 0) |->
                IF i = 1 THEN SubSeq(bufs[0 + 1], k - sum(0) + 1, Len(bufs[0 + 1]))
                ELSE bufs[0 + i]]
      BY Zenon DEF From, sum
    <2>4. From(bufs, 1, k, 0) = <<SubSeq(a, k + 1, Len(a))>>
      <3>1. 1 - 0 = 1 /\ 0 + 1 = 1 /\ k - 0 = k
        OBVIOUS
      <3>2. From(bufs, 1, k, 0) =
             [i \in 1..1 |-> IF i = 1 THEN SubSeq(a, k + 1, Len(a)) ELSE bufs[0 + i]]
        BY <1>1, <1>2, <2>3, <3>1, Zenon
      <3>. DEFINE rest == SubSeq(a, k + 1, Len(a))
      <3>. HIDE DEF rest
      <3>3. [i \in 1..1 |-> IF i = 1 THEN rest ELSE bufs[0 + i]] = <<rest>>
        OBVIOUS
      <3>. QED  BY <3>2, <3>3, Zenon DEF rest
    <2>. QED  BY <1>4, <2>2, <2>4, Zenon DEF bufs
  <1>. QED  BY <1>3, <1>4, Zenon

\* What is left of the header and the payload.
LEMMA RemainingOfTwo ==
    ASSUME NEW a \in Seq(Bytes), NEW b \in Seq(Bytes), NEW k \in 0..(Len(a) + Len(b))
    PROVE  Remaining(<<a, b>>, k) =
             IF k = Len(a) + Len(b) THEN << >>
             ELSE IF Len(a) <= k THEN <<SubSeq(b, k - Len(a) + 1, Len(b))>>
             ELSE <<SubSeq(a, k + 1, Len(a)), b>>
  <1>. DEFINE bufs == <<a, b>>
              sum(i) == Len(FlattenSeq(SubSeq(bufs, 1, i)))
  <1>1. /\ Len(bufs) = 2 /\ bufs[1] = a /\ bufs[2] = b
        /\ SubSeq(bufs, 1, 0) = << >> /\ SubSeq(bufs, 1, 1) = <<a>>
        /\ SubSeq(bufs, 1, 2) = bufs
    BY FirstIovecs, Zenon
  <1>2. sum(0) = 0 /\ sum(1) = Len(a) /\ sum(2) = Len(a) + Len(b)
    <2>1. Len(<< >>) = 0 /\ Len(a \o b) = Len(a) + Len(b)
      OBVIOUS
    <2>. QED  BY <1>1, <2>1, FlattenNone, FlattenOne, FlattenTwo, Zenon
  <1>. HIDE DEF bufs, sum
  <1>3. CASE k = Len(a) + Len(b)
    <2>1. \A i \in 0..2 : sum(i) <= k <=> i <= 2
      BY <1>2, <1>3
    <2>2. Remaining(bufs, k) = From(bufs, 2, k, 2)
      <3>1. 2 \in 0..2 /\ Consumes(bufs, 2, k, 2)
        BY <2>1 DEF Consumes, sum
      <3>. QED  BY <1>1, <3>1, RemainingSkips, Zenon
    <2>3. From(bufs, 2, k, 2) = << >>
      BY DEF From
    <2>. QED  BY <1>3, <2>2, <2>3, Zenon DEF bufs
  <1>4. CASE k # Len(a) + Len(b) /\ Len(a) <= k
    <2>1. \A i \in 0..2 : sum(i) <= k <=> i <= 1
      BY <1>2, <1>4
    <2>2. Remaining(bufs, k) = From(bufs, 2, k, 1)
      <3>1. 2 \in 0..2 /\ 1 \in 0..2 /\ Consumes(bufs, 2, k, 1)
        BY <2>1 DEF Consumes, sum
      <3>. QED  BY <1>1, <3>1, RemainingSkips, Zenon
    <2>3. From(bufs, 2, k, 1) =
             [i \in 1..(2 - 1) |->
                IF i = 1 THEN SubSeq(bufs[1 + 1], k - sum(1) + 1, Len(bufs[1 + 1]))
                ELSE bufs[1 + i]]
      BY Zenon DEF From, sum
    <2>4. From(bufs, 2, k, 1) = <<SubSeq(b, k - Len(a) + 1, Len(b))>>
      <3>1. 2 - 1 = 1 /\ 1 + 1 = 2
        OBVIOUS
      <3>2. From(bufs, 2, k, 1) =
             [i \in 1..1 |-> IF i = 1 THEN SubSeq(b, k - Len(a) + 1, Len(b))
                             ELSE bufs[1 + i]]
        BY <1>1, <1>2, <2>3, <3>1, Zenon
      <3>. DEFINE rest == SubSeq(b, k - Len(a) + 1, Len(b))
      <3>. HIDE DEF rest
      <3>3. [i \in 1..1 |-> IF i = 1 THEN rest ELSE bufs[1 + i]] = <<rest>>
        OBVIOUS
      <3>. QED  BY <3>2, <3>3, Zenon DEF rest
    <2>. QED  BY <1>4, <2>2, <2>4, Zenon DEF bufs
  <1>5. CASE ~(Len(a) <= k)
    <2>1. \A i \in 0..2 : sum(i) <= k <=> i <= 0
      BY <1>2, <1>5
    <2>2. Remaining(bufs, k) = From(bufs, 2, k, 0)
      <3>1. 2 \in 0..2 /\ 0 \in 0..2 /\ Consumes(bufs, 2, k, 0)
        BY <2>1 DEF Consumes, sum
      <3>. QED  BY <1>1, <3>1, RemainingSkips, Zenon
    <2>3. From(bufs, 2, k, 0) =
             [i \in 1..(2 - 0) |->
                IF i = 1 THEN SubSeq(bufs[0 + 1], k - sum(0) + 1, Len(bufs[0 + 1]))
                ELSE bufs[0 + i]]
      BY Zenon DEF From, sum
    <2>4. From(bufs, 2, k, 0) = <<SubSeq(a, k + 1, Len(a)), b>>
      <3>1. 2 - 0 = 2 /\ 0 + 1 = 1 /\ k - 0 = k
        OBVIOUS
      <3>2. From(bufs, 2, k, 0) =
             [i \in 1..2 |-> IF i = 1 THEN SubSeq(a, k + 1, Len(a)) ELSE bufs[0 + i]]
        BY <1>1, <1>2, <2>3, <3>1, Zenon
      <3>. DEFINE rest == SubSeq(a, k + 1, Len(a))
      <3>. HIDE DEF rest
      <3>3. [i \in 1..2 |-> IF i = 1 THEN rest ELSE bufs[0 + i]] = <<rest, b>>
        BY <1>1
      <3>. QED  BY <3>2, <3>3, Zenon DEF rest
    <2>5. k # Len(a) + Len(b)
      BY <1>5
    <2>. QED  BY <1>5, <2>2, <2>4, <2>5, Zenon DEF bufs
  <1>. QED  BY <1>3, <1>4, <1>5, Zenon

\* The iovecs write_frame can have: the header, the payload, both or none.
Iovecs == {<< >>} \cup {<<a>> : a \in Seq(Bytes)} \cup {<<a, b>> : a, b \in Seq(Bytes)}

\* The three forms.
LEMMA IovecForms ==
    /\ << >> \in Iovecs
    /\ \A a \in Seq(Bytes) : <<a>> \in Iovecs
    /\ \A a, b \in Seq(Bytes) : <<a, b>> \in Iovecs
    /\ \A bufs \in Iovecs : \/ bufs = << >>
                            \/ \E a \in Seq(Bytes) : bufs = <<a>>
                            \/ \E a, b \in Seq(Bytes) : bufs = <<a, b>>
  BY DEF Iovecs

\* They are a sequence of byte strings.
LEMMA IovecsAreStrings == Iovecs \subseteq Seq(Seq(Bytes))
  <1>1. \A a \in Seq(Bytes) : <<a>> \in Seq(Seq(Bytes))
    BY SMTT(40)
  <1>2. \A a, b \in Seq(Bytes) : <<a, b>> \in Seq(Seq(Bytes))
    OBVIOUS
  <1>3. << >> \in Seq(Seq(Bytes))
    OBVIOUS
  <1>. QED  BY <1>1, <1>2, <1>3, IovecForms, Zenon

\* After k bytes the iovecs hold the rest of what they held.
LEMMA RemainingIsRest ==
    ASSUME NEW bufs \in Iovecs, NEW k \in 0..Len(FlattenSeq(bufs))
    PROVE  /\ FlattenSeq(bufs) \in Seq(Bytes)
           /\ Remaining(bufs, k) \in Iovecs
           /\ FlattenSeq(Remaining(bufs, k))
                = SubSeq(FlattenSeq(bufs), k + 1, Len(FlattenSeq(bufs)))
           /\ k = Len(FlattenSeq(bufs)) => Remaining(bufs, k) = << >>
  <1>e. \A s \in Seq(Bytes) : SubSeq(s, Len(s) + 1, Len(s)) = << >>
    OBVIOUS
  <1>s. \A s \in Seq(Bytes), i \in Nat : SubSeq(s, i + 1, Len(s)) \in Seq(Bytes)
    OBVIOUS
  <1>1. CASE bufs = << >>
    <2>1. FlattenSeq(bufs) = << >> /\ << >> \in Seq(Bytes) /\ k = 0 /\ Len(bufs) = 0
      BY <1>1, FlattenNone
    <2>2. Remaining(bufs, k) = From(bufs, 0, k, 0)
      <3>1. SubSeq(bufs, 1, 0) = << >>
        BY <1>1
      <3>2. Len(FlattenSeq(SubSeq(bufs, 1, 0))) = 0
        <4>1. Len(<< >>) = 0
          OBVIOUS
        <4>. QED  BY <3>1, <4>1, FlattenNone, Zenon
      <3>3. 0 \in 0..2 /\ 0 \in 0..0 /\ Consumes(bufs, 0, k, 0)
        BY <2>1, <3>2 DEF Consumes
      <3>. QED  BY <2>1, <3>3, RemainingSkips, ZenonT(40)
    <2>3. From(bufs, 0, k, 0) = << >>
      BY DEF From
    <2>4. SubSeq(FlattenSeq(bufs), k + 1, Len(FlattenSeq(bufs))) = << >>
      <3>1. SubSeq(<< >>, 0 + 1, 0) = << >> /\ Len(<< >>) = 0
        OBVIOUS
      <3>. QED  BY <2>1, <3>1, Zenon
    <2>5. Remaining(bufs, k) = << >>
      BY <2>2, <2>3, Zenon
    <2>6. FlattenSeq(bufs) \in Seq(Bytes)
      BY <2>1, Zenon
    <2>7. Remaining(bufs, k) \in Iovecs /\ FlattenSeq(Remaining(bufs, k)) = << >>
      BY <2>5, FlattenNone, IovecForms, Zenon
    <2>. QED  BY <2>4, <2>5, <2>6, <2>7, Zenon
  <1>2. ASSUME NEW a \in Seq(Bytes), bufs = <<a>>
        PROVE  /\ FlattenSeq(bufs) \in Seq(Bytes)
               /\ Remaining(bufs, k) \in Iovecs
               /\ FlattenSeq(Remaining(bufs, k))
                    = SubSeq(FlattenSeq(bufs), k + 1, Len(FlattenSeq(bufs)))
               /\ k = Len(FlattenSeq(bufs)) => Remaining(bufs, k) = << >>
    <2>1. FlattenSeq(bufs) = a
      BY <1>2, FlattenOne, Zenon
    <2>2. Remaining(bufs, k) = IF k = Len(a) THEN << >> ELSE <<SubSeq(a, k + 1, Len(a))>>
      BY <1>2, <2>1, RemainingOfOne, Zenon
    <2>3. CASE k = Len(a)
      BY <1>e, <2>1, <2>2, <2>3, FlattenNone, IovecForms, Zenon
    <2>4. CASE k # Len(a)
      <3>1. SubSeq(a, k + 1, Len(a)) \in Seq(Bytes)
        BY <1>s, <2>1
      <3>. QED  BY <2>1, <2>2, <2>4, <3>1, FlattenOne, IovecForms, Zenon
    <2>. QED  BY <2>3, <2>4, Zenon
  <1>3. ASSUME NEW a \in Seq(Bytes), NEW b \in Seq(Bytes), bufs = <<a, b>>
        PROVE  /\ FlattenSeq(bufs) \in Seq(Bytes)
               /\ Remaining(bufs, k) \in Iovecs
               /\ FlattenSeq(Remaining(bufs, k))
                    = SubSeq(FlattenSeq(bufs), k + 1, Len(FlattenSeq(bufs)))
               /\ k = Len(FlattenSeq(bufs)) => Remaining(bufs, k) = << >>
    <2>. DEFINE ab == a \o b
    <2>1. FlattenSeq(bufs) = ab
      BY <1>3, FlattenTwo, Zenon
    <2>2. ab \in Seq(Bytes) /\ Len(ab) = Len(a) + Len(b)
      OBVIOUS
    <2>e. /\ \A i \in 1..Len(a) : ab[i] = a[i]
          /\ \A i \in 1..Len(b) : ab[Len(a) + i] = b[i]
      OBVIOUS
    <2>. HIDE DEF ab
    <2>3. k \in 0..(Len(a) + Len(b))
      BY <2>1, <2>2, Zenon
    <2>4. Remaining(bufs, k) =
             IF k = Len(a) + Len(b) THEN << >>
             ELSE IF Len(a) <= k THEN <<SubSeq(b, k - Len(a) + 1, Len(b))>>
             ELSE <<SubSeq(a, k + 1, Len(a)), b>>
      BY <1>3, <2>3, RemainingOfTwo, Zenon
    <2>5. CASE k = Len(a) + Len(b)
      BY <1>e, <2>1, <2>2, <2>4, <2>5, FlattenNone, IovecForms, Zenon
    <2>6. CASE k # Len(a) + Len(b) /\ Len(a) <= k
      <3>. DEFINE rest == SubSeq(b, k - Len(a) + 1, Len(b))
      <3>1. k - Len(a) \in Nat /\ rest \in Seq(Bytes)
        BY <2>3, <2>6
      <3>2. rest = SubSeq(ab, k + 1, Len(ab))
        <4>1. /\ Len(rest) = Len(ab) - k
              /\ \A i \in 1..(Len(ab) - k) : rest[i] = b[k - Len(a) + i]
          BY <2>2, <2>3, <2>6
        <4>. DEFINE tail == SubSeq(ab, k + 1, Len(ab))
        <4>2. /\ tail \in Seq(Bytes) /\ Len(tail) = Len(ab) - k
              /\ \A i \in 1..(Len(ab) - k) : tail[i] = ab[k + i]
          BY <2>2, <2>3
        <4>3. ASSUME NEW i \in 1..(Len(ab) - k) PROVE ab[k + i] = b[k - Len(a) + i]
          <5>1. k - Len(a) + i \in 1..Len(b) /\ Len(a) + (k - Len(a) + i) = k + i
            BY <2>2, <2>3, <2>6
          <5>2. ab[Len(a) + (k - Len(a) + i)] = b[k - Len(a) + i]
            BY <2>e, <5>1, Zenon
          <5>. QED  BY <5>1, <5>2, Zenon
        <4>. HIDE DEF rest, tail
        <4>4. \A i \in 1..Len(rest) : rest[i] = tail[i]
          BY <4>1, <4>2, <4>3, Zenon
        <4>5. rest = tail
          BY <3>1, <4>1, <4>2, <4>4, SameBytes, Zenon
        <4>. QED  BY <4>5, Zenon DEF tail
      <3>. HIDE DEF rest
      <3>3. Remaining(bufs, k) = <<rest>>
        BY <2>4, <2>6, Zenon DEF rest
      <3>4. k # Len(ab)
        BY <2>2, <2>6, Zenon
      <3>. QED  BY <2>1, <2>2, <3>1, <3>2, <3>3, <3>4, FlattenOne, IovecForms, Zenon
    <2>7. CASE ~(Len(a) <= k)
      <3>. DEFINE left == SubSeq(a, k + 1, Len(a))
                  rest == left \o b
      <3>1. left \in Seq(Bytes) /\ rest \in Seq(Bytes) /\ Len(left) = Len(a) - k
        BY <2>3, <2>7
      <3>2. rest = SubSeq(ab, k + 1, Len(ab))
        <4>. DEFINE tail == SubSeq(ab, k + 1, Len(ab))
        <4>2. /\ tail \in Seq(Bytes) /\ Len(tail) = Len(ab) - k
              /\ \A i \in 1..(Len(ab) - k) : tail[i] = ab[k + i]
          BY <2>2, <2>3
        <4>l. \A i \in 1..(Len(a) - k) : left[i] = a[k + i]
          BY <2>3, <2>7
        <4>. HIDE DEF left
        <4>1. /\ Len(rest) = Len(ab) - k
              /\ \A i \in 1..(Len(a) - k) : rest[i] = left[i]
              /\ \A i \in 1..Len(b) : rest[Len(a) - k + i] = b[i]
          BY <2>2, <2>3, <3>1
        <4>. HIDE DEF rest, tail
        <4>3. ASSUME NEW i \in 1..(Len(ab) - k) PROVE rest[i] = ab[k + i]
          <5>1. CASE i <= Len(a) - k
            <6>1. i \in 1..(Len(a) - k) /\ k + i \in 1..Len(a)
              BY <2>3, <5>1
            <6>. QED  BY <2>e, <4>1, <4>l, <6>1, Zenon
          <5>2. CASE ~(i <= Len(a) - k)
            <6>. DEFINE j == i - (Len(a) - k)
            <6>1. j \in 1..Len(b) /\ Len(a) + j = k + i /\ Len(a) - k + j = i
              BY <2>2, <2>3, <5>2
            <6>. HIDE DEF j
            <6>2. rest[Len(a) - k + j] = b[j] /\ ab[Len(a) + j] = b[j]
              BY <2>e, <4>1, <6>1, Zenon
            <6>. QED  BY <6>1, <6>2, Zenon
          <5>. QED  BY <5>1, <5>2, Zenon
        <4>4. \A i \in 1..Len(rest) : rest[i] = tail[i]
          BY <4>1, <4>2, <4>3, Zenon
        <4>5. rest = tail
          BY <3>1, <4>1, <4>2, <4>4, SameBytes, Zenon
        <4>. QED  BY <4>5, Zenon DEF tail
      <3>3. k # Len(a) + Len(b)
        BY <2>7
      <3>4. Remaining(bufs, k) = <<left, b>>
        BY <2>4, <2>7, <3>3, Zenon
      <3>5. k # Len(ab)
        BY <2>2, <3>3, Zenon
      <3>. HIDE DEF left
      <3>6. FlattenSeq(<<left, b>>) = rest
        BY <3>1, FlattenTwo, Zenon
      <3>7. <<left, b>> \in Iovecs
        BY <3>1, IovecForms, Zenon
      <3>. HIDE DEF rest
      <3>. QED  BY <2>1, <2>2, <3>2, <3>4, <3>5, <3>6, <3>7, Zenon
    <2>. QED  BY <2>5, <2>6, <2>7, Zenon
  <1>4. \/ bufs = << >>
        \/ \E a \in Seq(Bytes) : bufs = <<a>>
        \/ \E a, b \in Seq(Bytes) : bufs = <<a, b>>
    BY IovecForms, Zenon
  <1>. QED  BY <1>1, <1>2, <1>3, <1>4, Zenon
-----------------------------------------------------------------------------
(* The inductive invariant.  T is the stream of all bytes ever given to    *)
(* write_frame and c[i] the place in it where frame i begins.              *)

\* T has the frames of the payloads s, one after the other.
FramesIn(T, c, s) ==
    /\ T \in Seq(Bytes) /\ c \in [1..(Len(s) + 1) -> Nat]
    /\ c[Len(s) + 1] = Len(T)
    /\ \A i \in 1..Len(s) : /\ c[i + 1] = c[i] + 4 + Len(s[i])
                            /\ At(FrameHeader(s[i]), T, c[i])
                            /\ At(s[i], T, c[i] + 4)

\* What follows place p of T is what read_exact has, then what is on the wire,
\* then what the iovecs hold.
Follow(T, p, buf, onwire, rest) ==
    /\ p \in Nat /\ p + Len(buf) + Len(onwire) + Len(rest) = Len(T)
    /\ At(buf, T, p) /\ At(onwire, T, p + Len(buf))
    /\ At(rest, T, p + Len(buf) + Len(onwire))

\* read_frame is at frame n, where its header begins or where its payload does.
Place(c, n, rd) == IF rd = "payload" THEN c[n] + 4 ELSE c[n]

Payloads == {payload \in Seq(Bytes) : FitsHeader(payload)}

StreamTypes ==
    /\ sent \in Seq(Payloads) /\ delivered \in Seq(Seq(Bytes))
    /\ Len(delivered) <= Len(sent)
    /\ buffers \in Iovecs /\ FlattenSeq(buffers) \in Seq(Bytes)
    /\ wire \in Seq(Bytes) /\ Len(wire) <= Capacity /\ buffer \in Seq(Bytes)
    /\ writer \in {"idle", "writing", "closed"}
    /\ reader \in {"length", "payload", "closed"}
    /\ writer = "idle" => buffers = << >>
    /\ length \in Nat
    /\ reader # "closed" => Len(buffer) < Wanted
    /\ reader = "payload" => /\ Len(delivered) < Len(sent)
                             /\ length = Len(sent[Len(delivered) + 1])

StreamInv ==
    /\ StreamTypes
    /\ reader # "closed" =>
          \E T, c : /\ FramesIn(T, c, sent)
                    /\ Follow(T, Place(c, Len(delivered) + 1, reader), buffer, wire,
                              FlattenSeq(buffers))

\* A header has four bytes, which read_frame decodes to the payload's length.
LEMMA HeaderOf ==
    ASSUME NEW payload \in Payloads
    PROVE  /\ FrameHeader(payload) \in Seq(Bytes) /\ Len(FrameHeader(payload)) = 4
           /\ ntohl(FrameHeader(payload)) = Len(payload)
           /\ payload \in Seq(Bytes) /\ Len(payload) \in Nat
  <1>1. payload \in Seq(Bytes) /\ FitsHeader(payload)
    BY Zenon DEF Payloads
  <1>2. Len(payload) \in Nat
    BY <1>1
  <1>3. Len(payload) \div 16777216 < 256
    BY <1>1 DEF FitsHeader
  <1>4. /\ htonl(Len(payload)) \in Seq(Bytes) /\ Len(htonl(Len(payload))) = 4
        /\ ntohl(htonl(Len(payload))) = Len(payload)
    BY <1>2, <1>3, LengthRoundTrip
  <1>. QED  BY <1>1, <1>2, <1>4, Zenon DEF FrameHeader

\* write_frame puts a frame at the end of T.
LEMMA FramesGrow ==
    ASSUME NEW s \in Seq(Payloads), NEW T, NEW c, FramesIn(T, c, s),
           NEW payload \in Payloads
    PROVE  \E d : /\ FramesIn(T \o (FrameHeader(payload) \o payload), d, Append(s, payload))
                 /\ \A i \in 1..(Len(s) + 1) : d[i] = c[i]
  <1>. DEFINE h == FrameHeader(payload)
              X == h \o payload
              TX == T \o X
              n == Len(s)
              L == Len(T) + 4 + Len(payload)
              d == [i \in 1..(n + 2) |-> IF i = n + 2 THEN L ELSE c[i]]
              u == Append(s, payload)
  <1>1. /\ T \in Seq(Bytes) /\ c \in [1..(n + 1) -> Nat] /\ c[n + 1] = Len(T)
        /\ \A i \in 1..n : /\ c[i + 1] = c[i] + 4 + Len(s[i])
                           /\ At(FrameHeader(s[i]), T, c[i])
                           /\ At(s[i], T, c[i] + 4)
    BY Zenon DEF FramesIn
  <1>2. h \in Seq(Bytes) /\ Len(h) = 4 /\ payload \in Seq(Bytes) /\ Len(payload) \in Nat
    BY HeaderOf, Zenon
  <1>. HIDE DEF h
  <1>3. X \in Seq(Bytes) /\ Len(X) = 4 + Len(payload)
    BY <1>2, ConcatBytes, Zenon
  <1>4. TX \in Seq(Bytes) /\ Len(TX) = L /\ L \in Nat /\ n \in Nat
    <2>1. TX \in Seq(Bytes) /\ Len(TX) = Len(T) + Len(X)
      BY <1>1, <1>3, ConcatBytes, Zenon
    <2>2. Len(T) \in Nat /\ n \in Nat
      BY <1>1
    <2>. HIDE DEF X, TX, n
    <2>. QED  BY <1>2, <1>3, <2>1, <2>2
  <1>5. Len(u) = n + 1 /\ u[n + 1] = payload /\ \A i \in 1..n : u[i] = s[i]
    OBVIOUS
  <1>. HIDE DEF L, u, X, TX
  <1>6. d \in [1..(n + 2) -> Nat] /\ d[n + 2] = L /\ \A i \in 1..(n + 1) : d[i] = c[i]
    <2>. HIDE DEF n
    <2>. QED  BY <1>1, <1>4
  <1>. HIDE DEF d
  <1>7. ASSUME NEW i \in 1..(n + 1)
        PROVE  /\ d[i + 1] = d[i] + 4 + Len(u[i])
               /\ At(FrameHeader(u[i]), TX, d[i])
               /\ At(u[i], TX, d[i] + 4)
    <2>1. CASE i = n + 1
      <3>1. i + 1 = n + 2 /\ d[i] = Len(T) /\ u[i] = payload
        <4>. HIDE DEF n
        <4>. QED  BY <1>1, <1>4, <1>5, <1>6, <2>1
      <3>2. d[i + 1] = d[i] + 4 + Len(u[i])
        BY <1>6, <3>1, Zenon DEF L
      <3>3. At(X, TX, Len(T))
        BY <1>1, <1>3, AtEnd, Zenon DEF TX
      <3>4. Len(T) \in Nat
        BY <1>1
      <3>5. At(h, TX, Len(T)) /\ At(payload, TX, Len(T) + 4)
        BY <1>2, <1>4, <3>3, <3>4, AtConcat, Zenon DEF X
      <3>. QED  BY <3>1, <3>2, <3>5, Zenon DEF h
    <2>2. CASE i # n + 1
      <3>1. i \in 1..n /\ i \in 1..(n + 1) /\ i + 1 \in 1..(n + 1)
        <4>. HIDE DEF n
        <4>. QED  BY <1>4, <2>2
      <3>2. d[i] = c[i] /\ d[i + 1] = c[i + 1] /\ u[i] = s[i] /\ s[i] \in Payloads
        <4>1. s[i] \in Payloads
          BY <3>1
        <4>. QED  BY <1>5, <1>6, <3>1, <4>1, Zenon
      <3>3. FrameHeader(s[i]) \in Seq(Bytes) /\ s[i] \in Seq(Bytes)
        BY <3>2, HeaderOf, Zenon
      <3>4. c[i] \in Nat /\ c[i] + 4 \in Nat
        BY <1>1, <3>1
      <3>5. At(FrameHeader(s[i]), TX, c[i]) /\ At(s[i], TX, c[i] + 4)
        BY <1>1, <1>3, <3>1, <3>3, <3>4, AtGrows, Zenon DEF TX
      <3>. QED  BY <1>1, <3>1, <3>2, <3>5, Zenon
    <2>. QED  BY <2>1, <2>2, Zenon
  <1>8. Len(u) + 1 = n + 2
    <2>. HIDE DEF n
    <2>. QED  BY <1>4, <1>5
  <1>9. FramesIn(TX, d, u)
    BY <1>4, <1>5, <1>6, <1>7, <1>8, Zenon DEF FramesIn
  <1>. QED  BY <1>6, <1>9, Zenon DEF u, TX, X, h, n

\* A connection starts with an empty stream.
LEMMA StreamInit == FrameInit => StreamInv
  <1>. SUFFICES ASSUME FrameInit PROVE StreamInv
    BY Zenon
  <1>. DEFINE T == << >>
              c == [i \in 1..1 |-> 0]
  <1>1. /\ sent = << >> /\ buffers = << >> /\ wire = << >> /\ delivered = << >>
        /\ writer = "idle" /\ reader = "length" /\ buffer = << >> /\ length = 0
    BY Zenon DEF FrameInit
  <1>2. FlattenSeq(buffers) = << >>
    BY <1>1, FlattenNone, Zenon
  <1>3. StreamTypes
    <2>1. buffers \in Iovecs /\ FlattenSeq(buffers) = << >>
      BY <1>1, FlattenNone, IovecForms, Zenon
    <2>2. /\ << >> \in Seq(Payloads) /\ << >> \in Seq(Seq(Bytes)) /\ << >> \in Seq(Bytes)
          /\ Len(<< >>) = 0 /\ 0 <= 0 /\ 0 \in Nat /\ 0 <= Capacity /\ 0 < 4
      BY FrameAssumption
    <2>3. /\ sent \in Seq(Payloads) /\ delivered \in Seq(Seq(Bytes))
          /\ FlattenSeq(buffers) \in Seq(Bytes) /\ wire \in Seq(Bytes)
          /\ buffer \in Seq(Bytes) /\ length \in Nat
      BY <1>1, <2>1, <2>2, Zenon
    <2>4. Len(delivered) <= Len(sent) /\ Len(wire) <= Capacity /\ Len(buffer) < Wanted
      <3>1. /\ Len(delivered) = 0 /\ Len(sent) = 0 /\ Len(wire) = 0 /\ Len(buffer) = 0
            /\ Wanted = 4
        BY <1>1, <2>2, Zenon DEF Wanted
      <3>. QED  BY <2>2, <3>1, Zenon
    <2>5. reader # "payload"
      BY <1>1, Zenon
    <2>. QED  BY <1>1, <2>1, <2>3, <2>4, <2>5, Zenon DEF StreamTypes
  <1>4. FramesIn(T, c, sent)
    BY <1>1 DEF FramesIn
  <1>5. Follow(T, Place(c, Len(delivered) + 1, reader), buffer, wire, FlattenSeq(buffers))
    BY <1>1, <1>2 DEF Follow, Place, At
  <1>. HIDE DEF T, c
  <1>. QED  BY <1>3, <1>4, <1>5, Zenon DEF StreamInv

\* write_frame with another payload.
LEMMA WriteFrameStep ==
    ASSUME StreamInv, NEW payload \in Payloads, write_frame(payload)
    PROVE  StreamInv'
  <1>. DEFINE h == FrameHeader(payload)
              X == h \o payload
              n == Len(sent)
  <1>1. StreamTypes
    BY Zenon DEF StreamInv
  <1>2. /\ writer = "idle" /\ sent' = Append(sent, payload) /\ writer' = "writing"
        /\ buffers' = IF payload = << >> THEN <<h>> ELSE <<h, payload>>
        /\ UNCHANGED <<wire, reader, buffer, length, delivered>>
    BY Zenon DEF write_frame
  <1>3. buffers = << >> /\ FlattenSeq(buffers) = << >>
    BY <1>1, <1>2, FlattenNone, Zenon DEF StreamTypes
  <1>4. h \in Seq(Bytes) /\ Len(h) = 4 /\ payload \in Seq(Bytes) /\ Len(payload) \in Nat
    BY HeaderOf, Zenon
  <1>. HIDE DEF h
  <1>5. buffers' \in Iovecs /\ FlattenSeq(buffers') = X /\ X \in Seq(Bytes)
    <2>1. X \in Seq(Bytes) /\ (payload = << >> => X = h)
      BY <1>4, ConcatBytes, Zenon
    <2>2. CASE payload = << >>
      BY <1>2, <1>4, <2>1, <2>2, FlattenOne, IovecForms, Zenon
    <2>3. CASE payload # << >>
      BY <1>2, <1>4, <2>1, <2>3, FlattenTwo, IovecForms, Zenon
    <2>. QED  BY <2>2, <2>3, Zenon
  <1>6. /\ n \in Nat /\ sent' \in Seq(Payloads) /\ Len(sent') = n + 1
        /\ Len(delivered) \in Nat /\ Len(delivered) <= n
        /\ \A i \in 1..n : sent'[i] = sent[i]
    BY <1>1, <1>2 DEF StreamTypes
  <1>. HIDE DEF X, n
  <1>7. StreamTypes'
    <2>1. Len(delivered') <= Len(sent')
      BY <1>2, <1>6
    <2>2. reader = "payload" => /\ Len(delivered') < Len(sent')
                                /\ length = Len(sent'[Len(delivered) + 1])
      <3>1. reader = "payload" => /\ Len(delivered) + 1 \in 1..n
                                  /\ length = Len(sent[Len(delivered) + 1])
        BY <1>1, <1>6 DEF StreamTypes, n
      <3>2. Len(delivered) + 1 \in 1..n => Len(delivered) < Len(sent')
        BY <1>6
      <3>. QED  BY <1>2, <1>6, <3>1, <3>2, Zenon
    <2>3. reader' # "closed" => Len(buffer') < Wanted'
      BY <1>1, <1>2, Zenon DEF StreamTypes, Wanted
    <2>. QED  BY <1>1, <1>2, <1>5, <1>6, <2>1, <2>2, <2>3, Zenon DEF StreamTypes
  <1>8. ASSUME reader # "closed"
        PROVE  \E T, c : /\ FramesIn(T, c, sent')
                         /\ Follow(T, Place(c, Len(delivered) + 1, reader), buffer, wire, X)
    <2>1. PICK T, c : /\ FramesIn(T, c, sent)
                      /\ Follow(T, Place(c, Len(delivered) + 1, reader), buffer, wire,
                                << >>)
      BY <1>3, <1>8, Zenon DEF StreamInv
    <2>. DEFINE p == Place(c, Len(delivered) + 1, reader)
    <2>2. sent \in Seq(Payloads)
      BY <1>1, Zenon DEF StreamTypes
    <2>3. PICK d : FramesIn(T \o X, d, sent') /\ \A i \in 1..(n + 1) : d[i] = c[i]
      <3>1. \E d : /\ FramesIn(T \o (FrameHeader(payload) \o payload), d,
                              Append(sent, payload))
                   /\ \A i \in 1..(Len(sent) + 1) : d[i] = c[i]
        BY <2>1, <2>2, FramesGrow
      <3>. QED  BY <1>2, <3>1, Zenon DEF n, X, h
    <2>4. Place(d, Len(delivered) + 1, reader) = p
      <3>1. Len(delivered) + 1 \in 1..(n + 1)
        BY <1>6
      <3>. QED  BY <2>3, <3>1, Zenon DEF Place
    <2>5. T \in Seq(Bytes) /\ wire \in Seq(Bytes) /\ buffer \in Seq(Bytes)
      BY <1>1, <2>1, Zenon DEF StreamTypes, FramesIn
    <2>6. /\ p \in Nat /\ p + Len(buffer) + Len(wire) = Len(T)
          /\ At(buffer, T, p) /\ At(wire, T, p + Len(buffer))
      <3>. HIDE DEF p
      <3>1. /\ p \in Nat /\ p + Len(buffer) + Len(wire) + Len(<< >>) = Len(T)
            /\ At(buffer, T, p) /\ At(wire, T, p + Len(buffer))
        BY <2>1, Zenon DEF Follow, p
      <3>2. Len(<< >>) = 0 /\ Len(buffer) \in Nat /\ Len(wire) \in Nat
        BY <2>5
      <3>3. p + Len(buffer) + Len(wire) = Len(T)
        BY <3>1, <3>2
      <3>. QED  BY <3>1, <3>3, Zenon
    <2>. HIDE DEF p
    <2>7. p + Len(buffer) \in Nat
      BY <2>5, <2>6
    <2>8. At(buffer, T \o X, p) /\ At(wire, T \o X, p + Len(buffer))
      BY <1>5, <2>5, <2>6, <2>7, AtGrows, Zenon
    <2>9. At(X, T \o X, p + Len(buffer) + Len(wire))
      BY <1>5, <2>5, <2>6, AtEnd, Zenon
    <2>10. p + Len(buffer) + Len(wire) + Len(X) = Len(T \o X)
      <3>1. Len(T \o X) = Len(T) + Len(X)
        BY <1>5, <2>5
      <3>. QED  BY <2>6, <3>1, Zenon
    <2>11. Follow(T \o X, p, buffer, wire, X)
      BY <2>6, <2>8, <2>9, <2>10, Zenon DEF Follow
    <2>. QED  BY <2>3, <2>4, <2>11, Zenon
  <1>. QED  BY <1>2, <1>5, <1>7, <1>8, Zenon DEF StreamInv

\* writev moves bytes from the iovecs to the wire.
LEMMA WritevStep ==
    ASSUME StreamInv, NEW k \in 1..Capacity, writev(k)
    PROVE  StreamInv'
  <1>. DEFINE F == FlattenSeq(buffers)
              R == Remaining(buffers, k)
              moved == SubSeq(F, 1, k)
  <1>1. StreamTypes
    BY Zenon DEF StreamInv
  <1>2. /\ k <= Len(F) /\ Len(wire) + k <= Capacity
        /\ wire' = wire \o moved /\ buffers' = R
        /\ writer' = IF k = Len(F) THEN "idle" ELSE "writing"
        /\ UNCHANGED <<sent, reader, buffer, length, delivered>>
    BY Zenon DEF writev
  <1>3. buffers \in Iovecs /\ F \in Seq(Bytes) /\ wire \in Seq(Bytes) /\ buffer \in Seq(Bytes)
    BY <1>1, Zenon DEF StreamTypes
  <1>4. k \in 0..Len(F)
    <2>. HIDE DEF F
    <2>. QED  BY <1>2, <1>3, FrameAssumption
  <1>5. /\ R \in Iovecs /\ FlattenSeq(R) = SubSeq(F, k + 1, Len(F))
        /\ k = Len(F) => R = << >>
    BY <1>3, <1>4, RemainingIsRest, Zenon
  <1>. HIDE DEF F, R
  <1>6. /\ moved \in Seq(Bytes) /\ Len(moved) = k
        /\ FlattenSeq(R) \in Seq(Bytes) /\ Len(FlattenSeq(R)) = Len(F) - k
    BY <1>3, <1>4, <1>5
  <1>. HIDE DEF moved
  <1>7. wire \o moved \in Seq(Bytes) /\ Len(wire \o moved) = Len(wire) + k
    BY <1>3, <1>6, ConcatBytes, Zenon
  <1>8. StreamTypes'
    <2>1. Len(wire') <= Capacity
      BY <1>2, <1>7, Zenon
    <2>2. writer' \in {"idle", "writing", "closed"} /\ (writer' = "idle" => buffers' = << >>)
      BY <1>2, <1>5, Zenon
    <2>3. reader' # "closed" => Len(buffer') < Wanted'
      BY <1>1, <1>2, Zenon DEF StreamTypes, Wanted
    <2>. QED  BY <1>1, <1>2, <1>5, <1>6, <1>7, <2>1, <2>2, <2>3, Zenon DEF StreamTypes
  <1>9. ASSUME NEW T \in Seq(Bytes), NEW p, Follow(T, p, buffer, wire, F)
        PROVE  Follow(T, p, buffer, wire \o moved, FlattenSeq(R))
    <2>1. /\ p \in Nat /\ p + Len(buffer) + Len(wire) + Len(F) = Len(T)
          /\ At(buffer, T, p) /\ At(wire, T, p + Len(buffer))
          /\ At(F, T, p + Len(buffer) + Len(wire))
      BY <1>9, Zenon DEF Follow
    <2>2. p + Len(buffer) \in Nat /\ p + Len(buffer) + Len(wire) \in Nat
      BY <1>3, <2>1
    <2>3. At(moved, T, p + Len(buffer) + Len(wire))
          /\ At(FlattenSeq(R), T, p + Len(buffer) + Len(wire) + k)
      <3>. DEFINE q == p + Len(buffer) + Len(wire)
      <3>1. q \in Nat /\ At(F, T, q)
        BY <2>1, <2>2, Zenon
      <3>. HIDE DEF q
      <3>2. At(SubSeq(F, 1, k), T, q) /\ At(SubSeq(F, k + 1, Len(F)), T, q + k)
        BY <1>3, <1>4, <3>1, AtSplit, Zenon
      <3>. QED  BY <1>5, <3>2, Zenon DEF moved, q
    <2>4. At(wire \o moved, T, p + Len(buffer))
      BY <1>3, <1>6, <2>1, <2>2, <2>3, AtConcat, Zenon
    <2>5. /\ p + Len(buffer) + Len(wire \o moved) = p + Len(buffer) + Len(wire) + k
          /\ p + Len(buffer) + Len(wire \o moved) + Len(FlattenSeq(R)) = Len(T)
      <3>1. Len(buffer) \in Nat /\ Len(wire) \in Nat /\ Len(F) \in Nat
        BY <1>3
      <3>. DEFINE l == Len(wire \o moved)
                  r == Len(FlattenSeq(R))
      <3>2. l = Len(wire) + k /\ r = Len(F) - k
        BY <1>6, <1>7, Zenon
      <3>. HIDE DEF l, r
      <3>3. /\ p + Len(buffer) + l = p + Len(buffer) + Len(wire) + k
            /\ p + Len(buffer) + l + r = Len(T)
        BY <2>1, <3>1, <3>2
      <3>. QED  BY <3>3, Zenon DEF l, r
    <2>. QED  BY <2>1, <2>3, <2>4, <2>5, Zenon DEF Follow
  <1>10. ASSUME reader # "closed"
         PROVE  \E T, c : /\ FramesIn(T, c, sent)
                          /\ Follow(T, Place(c, Len(delivered) + 1, reader), buffer,
                                    wire \o moved, FlattenSeq(R))
    <2>1. PICK T, c : /\ FramesIn(T, c, sent)
                      /\ Follow(T, Place(c, Len(delivered) + 1, reader), buffer, wire, F)
      BY <1>10, Zenon DEF StreamInv, F
    <2>2. T \in Seq(Bytes)
      BY <2>1, Zenon DEF FramesIn
    <2>. QED  BY <1>9, <2>1, <2>2, Zenon
  <1>. QED  BY <1>2, <1>8, <1>10, Zenon DEF StreamInv

\* recv moves bytes from the wire to read_exact's buffer.
LEMMA RecvFollows ==
    ASSUME NEW T \in Seq(Bytes), NEW p, NEW buf \in Seq(Bytes), NEW onwire \in Seq(Bytes),
           NEW rest \in Seq(Bytes), Follow(T, p, buf, onwire, rest), NEW k \in 0..Len(onwire)
    PROVE  /\ buf \o SubSeq(onwire, 1, k) \in Seq(Bytes)
           /\ Len(buf \o SubSeq(onwire, 1, k)) = Len(buf) + k
           /\ SubSeq(onwire, k + 1, Len(onwire)) \in Seq(Bytes)
           /\ Len(SubSeq(onwire, k + 1, Len(onwire))) = Len(onwire) - k
           /\ Follow(T, p, buf \o SubSeq(onwire, 1, k),
                     SubSeq(onwire, k + 1, Len(onwire)), rest)
  <1>. DEFINE got == SubSeq(onwire, 1, k)
              left == SubSeq(onwire, k + 1, Len(onwire))
              all == buf \o got
  <1>1. /\ p \in Nat /\ p + Len(buf) + Len(onwire) + Len(rest) = Len(T)
        /\ At(buf, T, p) /\ At(onwire, T, p + Len(buf))
        /\ At(rest, T, p + Len(buf) + Len(onwire))
    BY Zenon DEF Follow
  <1>2. Len(buf) \in Nat /\ Len(onwire) \in Nat /\ Len(rest) \in Nat /\ k \in Nat
    OBVIOUS
  <1>3. p + Len(buf) \in Nat
    BY <1>1, <1>2
  <1>4. /\ got \in Seq(Bytes) /\ Len(got) = k
        /\ left \in Seq(Bytes) /\ Len(left) = Len(onwire) - k
        /\ At(got, T, p + Len(buf)) /\ At(left, T, p + Len(buf) + k)
    <2>. DEFINE q == p + Len(buf)
    <2>1. q \in Nat /\ At(onwire, T, q)
      BY <1>1, <1>3, Zenon
    <2>. HIDE DEF q
    <2>2. At(got, T, q) /\ At(left, T, q + k)
      BY <2>1, AtSplit, Zenon
    <2>3. /\ got \in Seq(Bytes) /\ Len(got) = k
          /\ left \in Seq(Bytes) /\ Len(left) = Len(onwire) - k
      OBVIOUS
    <2>. QED  BY <2>2, <2>3, Zenon DEF q
  <1>. HIDE DEF got, left
  <1>5. all \in Seq(Bytes) /\ Len(all) = Len(buf) + k
    BY <1>4, ConcatBytes, Zenon
  <1>6. At(all, T, p)
    BY <1>1, <1>4, AtConcat, Zenon
  <1>. HIDE DEF all
  <1>7. /\ p + Len(all) = p + Len(buf) + k
        /\ p + Len(all) + Len(left) = p + Len(buf) + Len(onwire)
        /\ p + Len(all) + Len(left) + Len(rest) = Len(T)
    <2>. DEFINE a == Len(all)
                l == Len(left)
    <2>1. a = Len(buf) + k /\ l = Len(onwire) - k
      BY <1>4, <1>5, Zenon
    <2>. HIDE DEF a, l
    <2>2. /\ p + a = p + Len(buf) + k
          /\ p + a + l = p + Len(buf) + Len(onwire)
          /\ p + a + l + Len(rest) = Len(T)
      <3>1. p \in Nat /\ p + Len(buf) + Len(onwire) + Len(rest) = Len(T)
        BY <1>1, Zenon
      <3>. QED  BY <1>2, <2>1, <3>1, SMT
    <2>. QED  BY <2>2, Zenon DEF a, l
  <1>8. Follow(T, p, all, left, rest)
    BY <1>1, <1>4, <1>6, <1>7, Zenon DEF Follow
  <1>. QED  BY <1>4, <1>5, <1>8, Zenon DEF all, got, left

\* read_exact has everything it asked for: what follows is the next piece.
LEMMA PieceDone ==
    ASSUME NEW T \in Seq(Bytes), NEW p, NEW buf \in Seq(Bytes), NEW onwire \in Seq(Bytes),
           NEW rest \in Seq(Bytes), Follow(T, p, buf, onwire, rest)
    PROVE  Follow(T, p + Len(buf), << >>, onwire, rest)
  <1>1. /\ p \in Nat /\ p + Len(buf) + Len(onwire) + Len(rest) = Len(T)
        /\ At(onwire, T, p + Len(buf)) /\ At(rest, T, p + Len(buf) + Len(onwire))
    BY Zenon DEF Follow
  <1>2. Len(buf) \in Nat /\ Len(onwire) \in Nat /\ Len(rest) \in Nat
    OBVIOUS
  <1>. DEFINE q == p + Len(buf)
  <1>3. q \in Nat /\ q <= Len(T) /\ q + 0 = q /\ Len(<< >>) = 0
    BY <1>1, <1>2
  <1>4. q + Len(onwire) + Len(rest) = Len(T) /\ At(onwire, T, q) /\ At(rest, T, q + Len(onwire))
    BY <1>1, Zenon
  <1>. HIDE DEF q
  <1>5. At(<< >>, T, q)
    BY <1>3 DEF At
  <1>6. Follow(T, q, << >>, onwire, rest)
    BY <1>3, <1>4, <1>5, Zenon DEF Follow
  <1>. QED  BY <1>6, Zenon DEF q

\* Bytes are left to read: there is a frame they belong to.
LEMMA FrameBegun ==
    ASSUME NEW s \in Seq(Payloads), NEW T, NEW c, FramesIn(T, c, s), NEW n \in Nat,
           n <= Len(s), NEW bytes \in Seq(Bytes), At(bytes, T, c[n + 1]), Len(bytes) > 0
    PROVE  n + 1 \in 1..Len(s)
  <1>1. Len(s) \in Nat /\ Len(bytes) \in Nat
    OBVIOUS
  <1>2. c[Len(s) + 1] = Len(T) /\ T \in Seq(Bytes)
    BY Zenon DEF FramesIn
  <1>3. c[n + 1] + Len(bytes) <= Len(T) /\ Len(T) \in Nat
    BY <1>2 DEF At
  <1>4. n # Len(s)
    <2>. SUFFICES ASSUME n = Len(s) PROVE FALSE
      BY Zenon
    <2>1. c[n + 1] = Len(T)
      BY <1>2, Zenon
    <2>. QED  BY <1>1, <1>3, <2>1
  <1>. QED  BY <1>1, <1>4

\* What read_frame decodes is the length of the payload that follows.
LEMMA ReadsHeader ==
    ASSUME NEW s \in Seq(Payloads), NEW T \in Seq(Bytes), NEW c, FramesIn(T, c, s),
           NEW i \in 1..Len(s), NEW bytes \in Seq(Bytes), At(bytes, T, c[i]), Len(bytes) = 4
    PROVE  ntohl(bytes) = Len(s[i]) /\ Len(s[i]) \in Nat
  <1>1. s[i] \in Payloads
    OBVIOUS
  <1>2. At(FrameHeader(s[i]), T, c[i])
    BY Zenon DEF FramesIn
  <1>3. c[i] \in Nat
    <2>1. c \in [1..(Len(s) + 1) -> Nat]
      BY Zenon DEF FramesIn
    <2>2. i \in 1..(Len(s) + 1)
      OBVIOUS
    <2>. QED  BY <2>1, <2>2, Zenon
  <1>4. /\ FrameHeader(s[i]) \in Seq(Bytes) /\ Len(FrameHeader(s[i])) = 4
        /\ ntohl(FrameHeader(s[i])) = Len(s[i]) /\ Len(s[i]) \in Nat
    BY <1>1, HeaderOf, Zenon
  <1>5. bytes = FrameHeader(s[i])
    BY <1>2, <1>3, <1>4, AtSame, Zenon
  <1>. QED  BY <1>4, <1>5, Zenon

\* As many bytes as the payload of frame i has, where that payload begins.
PayloadOf(T, c, s, i, bytes) == At(bytes, T, c[i] + 4) /\ Len(bytes) = Len(s[i])
WholePayload(c, s, i, bytes) == bytes = s[i] /\ c[i] + 4 + Len(bytes) = c[i + 1]

\* They are the payload, up to the next frame.
LEMMA ReadsPayload ==
    ASSUME NEW s \in Seq(Payloads), NEW T \in Seq(Bytes), NEW c, FramesIn(T, c, s),
           NEW i \in 1..Len(s), NEW bytes \in Seq(Bytes), PayloadOf(T, c, s, i, bytes)
    PROVE  WholePayload(c, s, i, bytes)
  <1>. USE DEF PayloadOf, WholePayload
  <1>1. s[i] \in Payloads
    OBVIOUS
  <1>2. At(s[i], T, c[i] + 4) /\ c[i + 1] = c[i] + 4 + Len(s[i])
    BY Zenon DEF FramesIn
  <1>3. c[i] \in Nat
    <2>1. c \in [1..(Len(s) + 1) -> Nat]
      BY Zenon DEF FramesIn
    <2>2. i \in 1..(Len(s) + 1)
      OBVIOUS
    <2>. QED  BY <2>1, <2>2, Zenon
  <1>4. c[i] + 4 \in Nat
    BY <1>3
  <1>5. s[i] \in Seq(Bytes)
    BY <1>1, HeaderOf, Zenon
  <1>6. bytes = s[i]
    BY <1>2, <1>4, <1>5, AtSame, Zenon
  <1>. QED  BY <1>2, <1>6, Zenon

\* What a turn of read_exact leaves of what was sent: nothing is delivered, or
\* the payload whose turn it is.
DeliversNext ==
    \/ delivered' = delivered
    \/ /\ Len(delivered) < Len(sent)
       /\ delivered' = Append(delivered, sent[Len(delivered) + 1])

\* A turn of read_exact that leaves bytes to ask for.
LEMMA ReadPart ==
    ASSUME StreamInv, reader # "closed", NEW got, NEW left,
           got \in Seq(Bytes), left \in Seq(Bytes), Len(left) <= Capacity, Len(got) < Wanted,
           \A T \in Seq(Bytes) : \A p : Follow(T, p, buffer, wire, FlattenSeq(buffers)) =>
               Follow(T, p, got, left, FlattenSeq(buffers)),
           wire' = left, buffer' = got,
           UNCHANGED <<reader, length, delivered, sent, buffers, writer>>
    PROVE  StreamInv'
  <1>1. StreamTypes
    BY Zenon DEF StreamInv
  <1>2. UNCHANGED Wanted
    BY Zenon DEF Wanted
  <1>3. StreamTypes'
    BY <1>1, <1>2, Zenon DEF StreamTypes
  <1>4. PICK T, c : /\ FramesIn(T, c, sent)
                    /\ Follow(T, Place(c, Len(delivered) + 1, reader), buffer, wire,
                              FlattenSeq(buffers))
    BY Zenon DEF StreamInv
  <1>5. T \in Seq(Bytes)
    BY <1>4, Zenon DEF FramesIn
  <1>6. Follow(T, Place(c, Len(delivered) + 1, reader), got, left, FlattenSeq(buffers))
    BY <1>4, <1>5, Zenon
  <1>. QED  BY <1>3, <1>4, <1>6, Zenon DEF StreamInv

\* A turn of read_exact that completes a payload, or the header of an empty one.
LEMMA ReadPayload ==
    ASSUME StreamInv, NEW T, NEW c, FramesIn(T, c, sent), NEW left,
           left \in Seq(Bytes), Len(left) <= Capacity, Len(delivered) < Len(sent),
           Follow(T, c[Len(delivered) + 2], << >>, left, FlattenSeq(buffers)),
           wire' = left, buffer' = << >>, reader' = "length", length' = 0,
           delivered' = Append(delivered, sent[Len(delivered) + 1]),
           UNCHANGED <<sent, buffers, writer>>
    PROVE  StreamInv'
  <1>1. StreamTypes
    BY Zenon DEF StreamInv
  <1>2. delivered \in Seq(Seq(Bytes)) /\ sent \in Seq(Payloads)
    BY <1>1, Zenon DEF StreamTypes
  <1>3. sent[Len(delivered) + 1] \in Seq(Bytes)
    <2>1. sent[Len(delivered) + 1] \in Payloads
      BY <1>2
    <2>. QED  BY <2>1, HeaderOf, Zenon
  <1>4. /\ delivered' \in Seq(Seq(Bytes)) /\ Len(delivered') = Len(delivered) + 1
        /\ Len(delivered) + 1 <= Len(sent) /\ Len(delivered) + 1 + 1 = Len(delivered) + 2
    <2>. DEFINE x == sent[Len(delivered) + 1]
    <2>1. x \in Seq(Bytes) /\ delivered' = Append(delivered, x)
      BY <1>3, Zenon
    <2>. HIDE DEF x
    <2>. QED  BY <1>2, <2>1
  <1>5. Wanted' = 4 /\ buffer' \in Seq(Bytes) /\ Len(buffer') < 4
    <2>1. Wanted' = 4
      BY Zenon DEF Wanted
    <2>2. << >> \in Seq(Bytes) /\ Len(<< >>) < 4
      OBVIOUS
    <2>. QED  BY <2>1, <2>2, Zenon
  <1>6. StreamTypes'
    <2>1. Len(delivered') <= Len(sent')
      BY <1>4, Zenon
    <2>2. length' \in Nat
      OBVIOUS
    <2>3. reader' # "payload" /\ reader' \in {"length", "payload", "closed"}
      OBVIOUS
    <2>. QED  BY <1>1, <1>4, <1>5, <2>1, <2>2, <2>3, Zenon DEF StreamTypes
  <1>7. Place(c, Len(delivered') + 1, reader') = c[Len(delivered) + 2]
    <2>1. reader' # "payload"
      OBVIOUS
    <2>. QED  BY <1>4, <2>1, Zenon DEF Place
  <1>8. Follow(T, Place(c, Len(delivered') + 1, reader'), buffer', wire', FlattenSeq(buffers'))
    BY <1>7, Zenon
  <1>. QED  BY <1>6, <1>8, Zenon DEF StreamInv

\* A turn of read_exact that completes the header of a payload that is not empty.
LEMMA ReadHeader ==
    ASSUME StreamInv, NEW T, NEW c, FramesIn(T, c, sent), NEW left,
           left \in Seq(Bytes), Len(left) <= Capacity, Len(delivered) < Len(sent),
           Follow(T, c[Len(delivered) + 1] + 4, << >>, left, FlattenSeq(buffers)),
           wire' = left, buffer' = << >>, reader' = "payload",
           length' = Len(sent[Len(delivered) + 1]), length' > 0, length' \in Nat,
           UNCHANGED <<delivered, sent, buffers, writer>>
    PROVE  StreamInv'
  <1>1. StreamTypes
    BY Zenon DEF StreamInv
  <1>2. Wanted' = length' /\ buffer' \in Seq(Bytes) /\ Len(buffer') < Wanted'
    <2>1. reader' # "length"
      OBVIOUS
    <2>2. Wanted' = length'
      BY <2>1, Zenon DEF Wanted
    <2>3. << >> \in Seq(Bytes) /\ Len(<< >>) < length'
      OBVIOUS
    <2>. QED  BY <2>2, <2>3, Zenon
  <1>3. StreamTypes'
    <2>1. reader' # "length" /\ reader' # "closed" /\ reader' \in {"length", "payload", "closed"}
      OBVIOUS
    <2>. QED  BY <1>1, <1>2, <2>1, Zenon DEF StreamTypes
  <1>4. Follow(T, Place(c, Len(delivered') + 1, reader'), buffer', wire', FlattenSeq(buffers'))
    BY Zenon DEF Place
  <1>. QED  BY <1>3, <1>4, Zenon DEF StreamInv

\* A turn of read_exact's loop keeps the correspondence, and delivers at most the
\* next payload.
LEMMA ReadStep ==
    ASSUME StreamInv, NEW k \in 1..Capacity, read_exact(k)
    PROVE  StreamInv' /\ DeliversNext /\ UNCHANGED sent
  <1>. DEFINE got == buffer \o SubSeq(wire, 1, k)
              left == SubSeq(wire, k + 1, Len(wire))
              F == FlattenSeq(buffers)
              n == Len(delivered)
  <1>1. StreamTypes
    BY Zenon DEF StreamInv
  <1>2. /\ reader # "closed" /\ k <= Len(wire) /\ Len(buffer) + k <= Wanted
        /\ wire' = left
        /\ IF Len(got) = Wanted
           THEN read_exact_done(got) /\ buffer' = << >>
           ELSE buffer' = got /\ UNCHANGED <<reader, length, delivered>>
        /\ UNCHANGED <<sent, buffers, writer>>
    BY Zenon DEF read_exact, RecvAsks
  <1>3. /\ wire \in Seq(Bytes) /\ buffer \in Seq(Bytes) /\ F \in Seq(Bytes)
        /\ sent \in Seq(Payloads) /\ delivered \in Seq(Seq(Bytes))
        /\ Len(wire) <= Capacity /\ Len(delivered) <= Len(sent)
    BY <1>1, Zenon DEF StreamTypes
  <1>4. k \in 0..Len(wire) /\ n \in Nat /\ Len(wire) \in Nat /\ Len(buffer) \in Nat
    BY <1>2, <1>3, FrameAssumption
  <1>5. PICK T, c : FramesIn(T, c, sent) /\ Follow(T, Place(c, n + 1, reader), buffer, wire, F)
    BY <1>2, Zenon DEF StreamInv
  <1>6. T \in Seq(Bytes)
    BY <1>5, Zenon DEF FramesIn
  <1>. HIDE DEF F, n
  <1>7. ASSUME NEW U \in Seq(Bytes), NEW p, Follow(U, p, buffer, wire, F)
        PROVE  /\ got \in Seq(Bytes) /\ Len(got) = Len(buffer) + k
               /\ left \in Seq(Bytes) /\ Len(left) = Len(wire) - k
               /\ Follow(U, p, got, left, F)
    <2>1. Follow(U, p, got, left, F)
      BY <1>3, <1>4, <1>7, RecvFollows, Zenon
    <2>. QED  BY <1>3, <1>4, <2>1
  <1>8. /\ got \in Seq(Bytes) /\ Len(got) = Len(buffer) + k
        /\ left \in Seq(Bytes) /\ Len(left) = Len(wire) - k
        /\ Follow(T, Place(c, n + 1, reader), got, left, F)
    BY <1>5, <1>6, <1>7, Zenon
  <1>9. \A U \in Seq(Bytes) : \A p : Follow(U, p, buffer, wire, F) => Follow(U, p, got, left, F)
    BY <1>7, Zenon
  <1>. HIDE DEF got, left
  <1>10. Len(left) <= Capacity /\ Len(got) > 0
    <2>. DEFINE a == Len(got)
                l == Len(left)
    <2>1. a = Len(buffer) + k /\ l = Len(wire) - k
      BY <1>8, Zenon
    <2>. HIDE DEF a, l
    <2>2. l <= Capacity /\ a > 0
      BY <1>3, <1>4, <2>1, FrameAssumption, SMT
    <2>. QED  BY <2>2, Zenon DEF a, l
  <1>11. Follow(T, Place(c, n + 1, reader) + Len(got), << >>, left, F)
         /\ At(got, T, Place(c, n + 1, reader))
    <2>1. At(got, T, Place(c, n + 1, reader))
      BY <1>8, Zenon DEF Follow
    <2>. QED  BY <1>3, <1>6, <1>8, <2>1, PieceDone, Zenon
  <1>12. CASE Len(got) # Wanted
    <2>1. buffer' = got /\ UNCHANGED <<reader, length, delivered>>
      BY <1>2, <1>12, Zenon
    <2>2. Len(got) < Wanted
      <3>1. Wanted \in Nat
        <4>1. length \in Nat
          BY <1>1, Zenon DEF StreamTypes
        <4>. QED  BY <4>1 DEF Wanted
      <3>. DEFINE a == Len(got)
                  w == Wanted
      <3>2. a = Len(buffer) + k /\ Len(buffer) + k <= w /\ a # w /\ w \in Nat
        BY <1>2, <1>8, <1>12, <3>1, Zenon
      <3>. HIDE DEF a, w
      <3>3. a < w
        BY <1>4, <3>2, SMT
      <3>. QED  BY <3>3, Zenon DEF a, w
    <2>3. StreamInv'
      BY <1>2, <1>8, <1>9, <1>10, <2>1, <2>2, ReadPart, Zenon DEF F
    <2>. QED  BY <1>2, <2>1, <2>3, Zenon DEF DeliversNext
  <1>13. CASE Len(got) = Wanted /\ reader = "payload"
    <2>1. /\ buffer' = << >> /\ reader' = "length" /\ length' = 0
          /\ delivered' = Append(delivered, got)
      BY <1>2, <1>13, Zenon DEF read_exact_done
    <2>2. Len(delivered) < Len(sent) /\ Wanted = Len(sent[n + 1])
      BY <1>1, <1>13, Zenon DEF StreamTypes, Wanted, n
    <2>3. n + 1 \in 1..Len(sent) /\ (n + 1) + 1 = n + 2
      BY <1>3, <1>4, <2>2 DEF n
    <2>4. Place(c, n + 1, reader) = c[n + 1] + 4
      BY <1>13, Zenon DEF Place
    <2>5. got = sent[n + 1] /\ c[n + 1] + 4 + Len(got) = c[n + 2]
      <3>. DEFINE i == n + 1
      <3>1. /\ i \in 1..Len(sent) /\ PayloadOf(T, c, sent, i, got)
            /\ i + 1 = n + 2
        BY <1>11, <1>13, <2>2, <2>3, <2>4, Zenon DEF PayloadOf
      <3>. HIDE DEF i
      <3>2. WholePayload(c, sent, i, got)
        BY <1>3, <1>5, <1>6, <1>8, <3>1, ReadsPayload, Zenon
      <3>. QED  BY <3>1, <3>2, Zenon DEF i, WholePayload
    <2>6. Follow(T, c[n + 2], << >>, left, F)
      BY <1>11, <2>4, <2>5, Zenon
    <2>7. StreamInv'
      BY <1>2, <1>5, <1>8, <1>10, <2>1, <2>2, <2>5, <2>6, ReadPayload, Zenon DEF F, n
    <2>. QED  BY <1>2, <2>1, <2>2, <2>5, <2>7, Zenon DEF DeliversNext, n
  <1>14. CASE Len(got) = Wanted /\ reader = "length"
    <2>1. Len(got) = 4 /\ Place(c, n + 1, reader) = c[n + 1]
      <3>1. "length" # "payload"
        OBVIOUS
      <3>. QED  BY <1>14, <3>1, Zenon DEF Wanted, Place
    <2>2. n + 1 \in 1..Len(sent)
      BY <1>3, <1>4, <1>5, <1>8, <1>10, <1>11, <2>1, FrameBegun, Zenon DEF n
    <2>3. ntohl(got) = Len(sent[n + 1]) /\ Len(sent[n + 1]) \in Nat
      <3>. DEFINE i == n + 1
      <3>1. i \in 1..Len(sent) /\ At(got, T, c[i])
        BY <1>11, <2>1, <2>2, Zenon
      <3>. HIDE DEF i
      <3>2. ntohl(got) = Len(sent[i]) /\ Len(sent[i]) \in Nat
        BY <1>3, <1>5, <1>6, <1>8, <2>1, <3>1, ReadsHeader, Zenon
      <3>. QED  BY <3>2, Zenon DEF i
    <2>4. Follow(T, c[n + 1] + 4, << >>, left, F)
      BY <1>11, <2>1, Zenon
    <2>5. Len(delivered) < Len(sent)
      BY <1>3, <2>2 DEF n
    <2>6. CASE ntohl(got) > 0
      <3>1. /\ buffer' = << >> /\ reader' = "payload" /\ length' = Len(sent[n + 1])
            /\ UNCHANGED delivered
        BY <1>2, <1>14, <2>3, <2>6, Zenon DEF read_exact_done
      <3>2. StreamInv'
        BY <1>2, <1>5, <1>8, <1>10, <2>3, <2>4, <2>5, <2>6, <3>1, ReadHeader, Zenon DEF F, n
      <3>. QED  BY <1>2, <3>1, <3>2, Zenon DEF DeliversNext
    <2>7. CASE ~(ntohl(got) > 0)
      <3>1. /\ buffer' = << >> /\ reader' = "length" /\ length' = 0
            /\ delivered' = Append(delivered, << >>)
        BY <1>2, <1>14, <2>7, Zenon DEF read_exact_done
      <3>2. Len(sent[n + 1]) = 0
        <4>. DEFINE m == Len(sent[n + 1])
        <4>1. m \in Nat /\ ~(m > 0)
          BY <2>3, <2>7, Zenon
        <4>. HIDE DEF m
        <4>2. m = 0
          BY <4>1
        <4>. QED  BY <4>2, Zenon DEF m
      <3>3. << >> \in Seq(Bytes) /\ Len(<< >>) = 0
        OBVIOUS
      <3>4. At(<< >>, T, c[n + 1] + 4)
        BY <2>4, Zenon DEF Follow
      <3>5. << >> = sent[n + 1] /\ c[n + 1] + 4 + Len(<< >>) = c[n + 2]
        <4>. DEFINE none == << >>
                    i == n + 1
        <4>1. none \in Seq(Bytes) /\ i \in 1..Len(sent) /\ PayloadOf(T, c, sent, i, none)
          BY <2>2, <3>2, <3>3, <3>4, Zenon DEF PayloadOf
        <4>2. i + 1 = n + 2
          BY <1>4
        <4>. HIDE DEF none, i
        <4>3. WholePayload(c, sent, i, none)
          BY <1>3, <1>5, <1>6, <4>1, ReadsPayload, Zenon
        <4>. QED  BY <4>2, <4>3, Zenon DEF none, i, WholePayload
      <3>6. Follow(T, c[n + 2], << >>, left, F)
        <4>1. Follow(T, c[n + 1] + 4 + Len(<< >>), << >>, left, F)
          BY <1>3, <1>6, <1>8, <2>4, <3>3, PieceDone, Zenon
        <4>. QED  BY <3>5, <4>1, Zenon
      <3>7. StreamInv'
        BY <1>2, <1>5, <1>8, <1>10, <2>5, <3>1, <3>5, <3>6, ReadPayload, Zenon DEF F, n
      <3>. QED  BY <1>2, <2>5, <3>1, <3>5, <3>7, Zenon DEF DeliversNext, n
    <2>. QED  BY <2>6, <2>7, Zenon
  <1>15. reader \in {"length", "payload", "closed"}
    BY <1>1, Zenon DEF StreamTypes
  <1>. QED  BY <1>2, <1>12, <1>13, <1>14, <1>15, Zenon

\* The writer closes: what it had not written stays unwritten.
LEMMA WriterGone ==
    ASSUME StreamInv, writer' = "closed",
           UNCHANGED <<sent, buffers, wire, reader, buffer, length, delivered>>
    PROVE  StreamInv'
  <1>1. UNCHANGED Wanted
    BY Zenon DEF Wanted
  <1>2. "closed" # "idle"
    OBVIOUS
  <1>3. StreamTypes'
    BY <1>1, <1>2, Zenon DEF StreamInv, StreamTypes
  <1>. QED  BY <1>3, Zenon DEF StreamInv

\* The reader closes.
LEMMA ReaderGone ==
    ASSUME StreamInv, reader' = "closed",
           UNCHANGED <<sent, buffers, wire, writer, buffer, length, delivered>>
    PROVE  StreamInv'
  <1>1. "closed" # "payload"
    OBVIOUS
  <1>2. StreamTypes'
    BY <1>1, Zenon DEF StreamInv, StreamTypes
  <1>. QED  BY <1>2, Zenon DEF StreamInv

\* Nothing of the connection changes.
LEMMA StreamRests ==
    ASSUME StreamInv, UNCHANGED frameVars
    PROVE  StreamInv'
  <1>1. UNCHANGED <<sent, buffers, wire, writer, reader, buffer, length, delivered>>
    BY Zenon DEF frameVars
  <1>2. UNCHANGED Wanted
    BY <1>1, Zenon DEF Wanted
  <1>3. StreamTypes'
    BY <1>1, <1>2, Zenon DEF StreamInv, StreamTypes
  <1>. QED  BY <1>1, <1>3, Zenon DEF StreamInv

\* Every step keeps the correspondence of the bytes under way with the frames,
\* and is a step of the channel.
LEMMA StreamStep ==
    ASSUME StreamInv, [Next]_vars
    PROVE  StreamInv' /\ [Channel!Next]_<<sent, delivered>>
  <1>. DEFINE Same == UNCHANGED <<sent, delivered>>
  <1>1. ASSUME NEW payload \in Payloads, write_frame(payload)
        PROVE  StreamInv' /\ Channel!Send
    <2>1. StreamInv'
      BY <1>1, WriteFrameStep, Zenon
    <2>2. sent' = Append(sent, payload) /\ UNCHANGED delivered
      BY <1>1, Zenon DEF write_frame
    <2>3. sent \in Seq(Payloads)
      BY Zenon DEF StreamInv, StreamTypes
    <2>4. Len(sent') = Len(sent) + 1 /\ SubSeq(sent', 1, Len(sent)) = sent
      BY <2>2, <2>3
    <2>. QED  BY <2>1, <2>2, <2>4, Zenon DEF Channel!Send
  <1>2. ASSUME NEW r \in Requests, send_request(r)
        PROVE  StreamInv' /\ Channel!Send
    <2>1. encode_request(r) \in Payloads
      BY WireAssumption, RequestRead, Zenon DEF Payloads
    <2>. QED  BY <1>1, <1>2, <2>1, Zenon DEF send_request
  <1>3. ASSUME NEW r \in Responses, send_response(r)
        PROVE  StreamInv' /\ Channel!Send
    <2>1. serialize_response(r) \in Payloads
      BY WireAssumption, ResponseRead, Zenon DEF Payloads
    <2>. QED  BY <1>1, <1>3, <2>1, Zenon DEF send_response
  <1>4. ASSUME Write
        PROVE  StreamInv' /\ Same
    <2>1. CASE writev_fail
      BY <2>1, WriterGone, Zenon DEF writev_fail
    <2>2. ASSUME NEW k \in 1..Capacity, writev(k)
          PROVE  StreamInv' /\ Same
      <3>1. Same
        BY <2>2, Zenon DEF writev
      <3>. QED  BY <2>2, <3>1, WritevStep, Zenon
    <2>. QED  BY <1>4, <2>1, <2>2, Zenon DEF Write
  <1>5. ASSUME Read
        PROVE  StreamInv' /\ (Same \/ Channel!Deliver)
    <2>1. CASE read_exact_fail
      BY <2>1, ReaderGone, Zenon DEF read_exact_fail
    <2>2. ASSUME NEW k \in 1..Capacity, read_exact(k)
          PROVE  StreamInv' /\ (Same \/ Channel!Deliver)
      <3>1. StreamInv' /\ DeliversNext /\ UNCHANGED sent
        BY <2>2, ReadStep, Zenon
      <3>. QED  BY <3>1, Zenon DEF DeliversNext, Channel!Deliver
    <2>. QED  BY <1>5, <2>1, <2>2, Zenon DEF Read
  <1>6. CASE writer_close
    <2>1. StreamInv' /\ Same
      BY <1>6, WriterGone, Zenon DEF writer_close
    <2>. QED  BY <2>1, Zenon
  <1>7. CASE reader_close
    <2>1. StreamInv' /\ Same
      BY <1>7, ReaderGone, Zenon DEF reader_close
    <2>. QED  BY <2>1, Zenon
  <1>8. CASE UNCHANGED vars
    <2>1. UNCHANGED frameVars
      BY <1>8, Zenon DEF vars
    <2>2. StreamInv' /\ Same
      BY <2>1, StreamRests, Zenon DEF frameVars
    <2>. QED  BY <2>2, Zenon
  <1>. QED
    BY <1>2, <1>3, <1>4, <1>5, <1>6, <1>7, <1>8, Zenon DEF Next, Channel!Next

\* At any moment the bytes read_exact has, those on the wire and those still in
\* the iovecs are, in this order, the frames from the one read_frame is at on.
THEOREM StreamInvariant == Spec => []StreamInv
  <1>1. Init => StreamInv
    BY StreamInit, Zenon DEF Init
  <1>2. StreamInv /\ [Next]_vars => StreamInv'
    BY StreamStep, Zenon
  <1>. QED  BY <1>1, <1>2, PTL DEF Spec

\* However TCP cuts the stream, whatever partial writev and recv do and whoever
\* closes when, read_frame returns the payloads given to write_frame whole, in
\* order and once: the connection implements FrameChannel.
THEOREM FramesDelivered == Spec => DeliversFrames
  <1>1. Init => Channel!Init
    BY Zenon DEF Init, FrameInit, Channel!Init
  <1>2. StreamInv /\ [Next]_vars => [Channel!Next]_<<sent, delivered>>
    BY StreamStep, Zenon
  <1>. QED
    BY <1>1, <1>2, StreamInvariant, PTL DEF Spec, DeliversFrames, Channel!Spec

\* read_exact never has more bytes than its buffer was allocated for, and every
\* byte of the connection is a byte.
THEOREM FrameTypesCorrect == Spec => []FrameTypeOK
  <1>1. StreamInv => FrameTypeOK
    <2>. SUFFICES ASSUME StreamInv PROVE FrameTypeOK
      BY Zenon
    <2>1. StreamTypes
      BY Zenon DEF StreamInv
    <2>2. sent \in Seq(Seq(Bytes))
      <3>1. sent \in Seq(Payloads)
        BY <2>1, Zenon DEF StreamTypes
      <3>2. \A payload \in Payloads : payload \in Seq(Bytes)
        BY Zenon DEF Payloads
      <3>. QED  BY <3>1, <3>2
    <2>3. buffers \in Seq(Seq(Bytes))
      BY <2>1, IovecsAreStrings, Zenon DEF StreamTypes
    <2>. QED  BY <2>1, <2>2, <2>3, Zenon DEF StreamTypes, FrameTypeOK
  <1>. QED  BY <1>1, StreamInvariant, PTL
-----------------------------------------------------------------------------
(* What was posted is what arrives.                                        *)

\* payload is the encoding of the message m.
Encodes(payload, m) ==
    \/ \E r \in Requests : m = <<"request", r>> /\ payload = encode_request(r)
    \/ \E r \in Responses : m = <<"response", r>> /\ payload = serialize_response(r)

\* Frame i carries the i-th message, and the frames delivered are the first ones.
PostInv ==
    /\ posted \in Seq({<<"request", r>> : r \in Requests}
                      \cup {<<"response", r>> : r \in Responses})
    /\ Len(posted) = Len(sent) /\ Len(delivered) <= Len(sent)
    /\ \A i \in 1..Len(sent) : Encodes(sent[i], posted[i])
    /\ \A i \in 1..Len(delivered) : delivered[i] = sent[i]

\* A message and its frame are added together.
LEMMA PostStep ==
    ASSUME PostInv, StreamTypes, NEW m, NEW payload,
           m \in {<<"request", r>> : r \in Requests} \cup {<<"response", r>> : r \in Responses},
           Encodes(payload, m), sent' = Append(sent, payload), posted' = Append(posted, m),
           UNCHANGED delivered
    PROVE  PostInv'
  <1>. DEFINE M == {<<"request", r>> : r \in Requests} \cup {<<"response", r>> : r \in Responses}
  <1>1. posted \in Seq(M) /\ m \in M /\ Len(posted) = Len(sent)
    BY Zenon DEF PostInv
  <1>. HIDE DEF M
  <1>2. sent \in Seq(Payloads) /\ delivered \in Seq(Seq(Bytes)) /\ Len(delivered) <= Len(sent)
    BY Zenon DEF StreamTypes
  <1>3. /\ posted' \in Seq(M) /\ Len(posted') = Len(posted) + 1
        /\ posted'[Len(posted) + 1] = m
        /\ \A i \in 1..Len(posted) : posted'[i] = posted[i]
    BY <1>1
  <1>4. /\ Len(sent') = Len(sent) + 1 /\ sent'[Len(sent) + 1] = payload
        /\ \A i \in 1..Len(sent) : sent'[i] = sent[i]
    BY <1>2
  <1>5. ASSUME NEW i \in 1..Len(sent') PROVE Encodes(sent'[i], posted'[i])
    <2>1. CASE i \in 1..Len(sent)
      <3>1. Encodes(sent[i], posted[i])
        BY <2>1, Zenon DEF PostInv
      <3>. QED  BY <1>1, <1>3, <1>4, <2>1, <3>1, Zenon
    <2>2. CASE i = Len(sent) + 1
      BY <1>1, <1>3, <1>4, <2>2, Zenon
    <2>3. i \in 1..Len(sent) \/ i = Len(sent) + 1
      BY <1>2, <1>4
    <2>. QED  BY <2>1, <2>2, <2>3, Zenon
  <1>6. ASSUME NEW i \in 1..Len(delivered') PROVE delivered'[i] = sent'[i]
    <2>1. i \in 1..Len(delivered) /\ i \in 1..Len(sent)
      BY <1>2
    <2>2. delivered[i] = sent[i]
      BY <2>1, Zenon DEF PostInv
    <2>. QED  BY <1>4, <2>1, <2>2, Zenon
  <1>7. Len(posted') = Len(sent') /\ Len(delivered') <= Len(sent')
    BY <1>1, <1>2, <1>3, <1>4
  <1>. QED  BY <1>3, <1>5, <1>6, <1>7, Zenon DEF PostInv, M

\* A frame is delivered, or nothing is.
LEMMA ArriveStep ==
    ASSUME PostInv, StreamTypes, UNCHANGED <<sent, posted>>, DeliversNext
    PROVE  PostInv'
  <1>1. CASE delivered' = delivered
    BY <1>1, Zenon DEF PostInv
  <1>2. CASE /\ Len(delivered) < Len(sent)
             /\ delivered' = Append(delivered, sent[Len(delivered) + 1])
    <2>. DEFINE x == sent[Len(delivered) + 1]
    <2>1. delivered' = Append(delivered, x)
      BY <1>2, Zenon
    <2>2. sent \in Seq(Payloads) /\ delivered \in Seq(Seq(Bytes))
      BY Zenon DEF StreamTypes
    <2>3. x \in Seq(Bytes)
      <3>1. x \in Payloads
        BY <1>2, <2>2
      <3>. QED  BY <3>1, HeaderOf, Zenon
    <2>. HIDE DEF x
    <2>4. /\ Len(delivered') = Len(delivered) + 1 /\ delivered'[Len(delivered) + 1] = x
          /\ \A i \in 1..Len(delivered) : delivered'[i] = delivered[i]
      BY <2>1, <2>2, <2>3
    <2>5. ASSUME NEW i \in 1..Len(delivered') PROVE delivered'[i] = sent'[i]
      <3>1. i \in 1..Len(delivered) \/ i = Len(delivered) + 1
        BY <2>2, <2>4
      <3>2. CASE i \in 1..Len(delivered)
        BY <2>4, <3>2, Zenon DEF PostInv
      <3>3. CASE i = Len(delivered) + 1
        BY <2>4, <3>3, Zenon DEF x
      <3>. QED  BY <3>1, <3>2, <3>3, Zenon
    <2>6. Len(delivered') <= Len(sent')
      BY <1>2, <2>2, <2>4
    <2>. QED  BY <2>5, <2>6, Zenon DEF PostInv
  <1>. QED  BY <1>1, <1>2, Zenon DEF DeliversNext

\* Every step keeps messages and frames together.
LEMMA PostNext ==
    ASSUME PostInv, StreamInv, [Next]_vars
    PROVE  PostInv'
  <1>. DEFINE M == {<<"request", r>> : r \in Requests} \cup {<<"response", r>> : r \in Responses}
  <1>1. StreamTypes
    BY Zenon DEF StreamInv
  <1>2. ASSUME NEW r \in Requests, send_request(r)
        PROVE  PostInv'
    <2>1. <<"request", r>> \in M /\ Encodes(encode_request(r), <<"request", r>>)
      BY Zenon DEF Encodes
    <2>2. /\ sent' = Append(sent, encode_request(r)) /\ UNCHANGED delivered
          /\ posted' = Append(posted, <<"request", r>>)
      BY <1>2, Zenon DEF send_request, write_frame
    <2>. QED  BY <1>1, <2>1, <2>2, PostStep, Zenon
  <1>3. ASSUME NEW r \in Responses, send_response(r)
        PROVE  PostInv'
    <2>1. <<"response", r>> \in M /\ Encodes(serialize_response(r), <<"response", r>>)
      BY Zenon DEF Encodes
    <2>2. /\ sent' = Append(sent, serialize_response(r)) /\ UNCHANGED delivered
          /\ posted' = Append(posted, <<"response", r>>)
      BY <1>3, Zenon DEF send_response, write_frame
    <2>. QED  BY <1>1, <2>1, <2>2, PostStep, Zenon
  <1>4. ASSUME (Write \/ Read \/ writer_close \/ reader_close) /\ UNCHANGED posted
        PROVE  PostInv'
    <2>1. ASSUME NEW k \in 1..Capacity, read_exact(k) PROVE DeliversNext /\ UNCHANGED sent
      BY <2>1, ReadStep, Zenon
    <2>2. DeliversNext /\ UNCHANGED sent
      BY <1>4, <2>1, Zenon DEF Write, Read, writev, writev_fail, read_exact_fail,
                               writer_close, reader_close, DeliversNext
    <2>. QED  BY <1>1, <1>4, <2>2, ArriveStep, Zenon
  <1>5. CASE UNCHANGED vars
    <2>1. UNCHANGED <<sent, delivered, posted>>
      BY <1>5, Zenon DEF vars, frameVars
    <2>. QED  BY <2>1, Zenon DEF PostInv
  <1>. QED  BY <1>2, <1>3, <1>4, <1>5, Zenon DEF Next

\* What arrives are the encodings of the messages, in the order they were posted.
LEMMA PostInvariant == Spec => []PostInv
  <1>1. Init => PostInv
    <2>. SUFFICES ASSUME Init PROVE PostInv
      BY Zenon
    <2>. DEFINE M == {<<"request", r>> : r \in Requests} \cup {<<"response", r>> : r \in Responses}
    <2>1. posted = << >> /\ sent = << >> /\ delivered = << >>
      BY Zenon DEF Init, FrameInit
    <2>2. Len(posted) = 0 /\ Len(sent) = 0 /\ Len(delivered) = 0
      BY <2>1
    <2>. HIDE DEF M
    <2>3. posted \in Seq(M)
      BY <2>1
    <2>4. Len(delivered) <= Len(sent) /\ 1..Len(sent) = {} /\ 1..Len(delivered) = {}
      BY <2>2
    <2>. QED  BY <2>2, <2>3, <2>4, Zenon DEF PostInv, M
  <1>2. PostInv /\ StreamInv /\ [Next]_vars => PostInv'
    BY PostNext, Zenon
  <1>. QED  BY <1>1, <1>2, StreamInvariant, PTL DEF Spec

\* What frame i carries tells whether the message is a request or a response.
LEMMA PostedKind ==
    ASSUME NEW payload, NEW m, Encodes(payload, m)
    PROVE  /\ m[1] = "request" => m[2] \in Requests /\ payload = encode_request(m[2])
           /\ m[1] = "response" => m[2] \in Responses /\ payload = serialize_response(m[2])
  <1>1. ASSUME NEW r, m = <<"request", r>> PROVE m[1] = "request" /\ m[2] = r
    BY <1>1
  <1>2. ASSUME NEW r, m = <<"response", r>> PROVE m[1] = "response" /\ m[2] = r
    BY <1>2
  <1>3. "request" # "response"
    OBVIOUS
  <1>. QED  BY <1>1, <1>2, <1>3, Zenon DEF Encodes

\* A message that has arrived, with its payload.
LEMMA ArrivedPayload ==
    ASSUME PostInv, StreamTypes, NEW i \in DOMAIN delivered
    PROVE  Encodes(delivered[i], posted[i])
  <1>1. delivered \in Seq(Seq(Bytes)) /\ sent \in Seq(Payloads) /\ Len(delivered) <= Len(sent)
    BY Zenon DEF StreamTypes
  <1>2. i \in 1..Len(delivered) /\ i \in 1..Len(sent)
    BY <1>1
  <1>. QED  BY <1>2, Zenon DEF PostInv

\* Parsing inverts encoding and the connection does not come between them:
\* every request arrives with its type and the fields its handler reads, or is
\* refused when it is beyond parse_request's limits.
THEOREM RequestsIntact == Spec => []RequestsArrive
  <1>1. PostInv /\ StreamInv => RequestsArrive
    <2>. SUFFICES ASSUME PostInv, StreamInv, NEW i \in DOMAIN delivered,
                         posted[i][1] = "request"
                  PROVE  ReadAsRequest(delivered[i], posted[i][2])
      BY Zenon DEF RequestsArrive
    <2>1. Encodes(delivered[i], posted[i])
      BY ArrivedPayload, Zenon DEF StreamInv
    <2>2. posted[i][2] \in Requests /\ delivered[i] = encode_request(posted[i][2])
      BY <2>1, PostedKind, Zenon
    <2>. QED  BY <2>2, CodecAgrees, Zenon DEF CodecInverts
  <1>. QED  BY <1>1, PostInvariant, StreamInvariant, PTL

\* The same for responses, whose offset may be uint64_t(-1) and which are never
\* taken for an ACK.
THEOREM ResponsesIntact == Spec => []ResponsesArrive
  <1>1. PostInv /\ StreamInv => ResponsesArrive
    <2>. SUFFICES ASSUME PostInv, StreamInv, NEW i \in DOMAIN delivered,
                         posted[i][1] = "response"
                  PROVE  ReadAsResponse(delivered[i], posted[i][2])
      BY Zenon DEF ResponsesArrive
    <2>1. Encodes(delivered[i], posted[i])
      BY ArrivedPayload, Zenon DEF StreamInv
    <2>2. posted[i][2] \in Responses /\ delivered[i] = serialize_response(posted[i][2])
      BY <2>1, PostedKind, Zenon
    <2>. QED  BY <2>2, CodecAgrees, Zenon DEF CodecInverts
  <1>. QED  BY <1>1, PostInvariant, StreamInvariant, PTL

\* What read_exact has of a payload is the beginning of it.
LEMMA BufferBegins ==
    ASSUME StreamInv, reader = "payload"
    PROVE  /\ Len(delivered) + 1 \in 1..Len(sent)
           /\ Len(buffer) \in 0..(Len(sent[Len(delivered) + 1]) - 1)
           /\ buffer = SubSeq(sent[Len(delivered) + 1], 1, Len(buffer))
  <1>. DEFINE n == Len(delivered)
              x == sent[n + 1]
  <1>1. /\ StreamTypes /\ buffer \in Seq(Bytes) /\ sent \in Seq(Payloads)
        /\ delivered \in Seq(Seq(Bytes)) /\ n < Len(sent) /\ length = Len(x)
        /\ reader # "closed" => Len(buffer) < Wanted
    BY Zenon DEF StreamInv, StreamTypes
  <1>2. reader # "closed" /\ reader # "length"
    OBVIOUS
  <1>3. Len(buffer) < Len(x)
    BY <1>1, <1>2, Zenon DEF Wanted
  <1>4. n + 1 \in 1..Len(sent)
    BY <1>1
  <1>5. x \in Seq(Bytes) /\ Len(x) \in Nat
    <2>1. x \in Payloads
      BY <1>1, <1>4
    <2>. QED  BY <2>1, HeaderOf, Zenon
  <1>6. PICK T, c : /\ FramesIn(T, c, sent)
                    /\ Follow(T, Place(c, n + 1, reader), buffer, wire, FlattenSeq(buffers))
    BY <1>2, Zenon DEF StreamInv
  <1>7. At(buffer, T, c[n + 1] + 4) /\ At(x, T, c[n + 1] + 4)
    <2>1. Place(c, n + 1, reader) = c[n + 1] + 4
      BY Zenon DEF Place
    <2>2. At(buffer, T, c[n + 1] + 4)
      BY <1>6, <2>1, Zenon DEF Follow
    <2>3. \A i \in 1..Len(sent) : At(sent[i], T, c[i] + 4)
      BY <1>6, Zenon DEF FramesIn
    <2>. QED  BY <1>4, <2>2, <2>3, Zenon
  <1>. HIDE DEF x
  <1>8. Len(buffer) \in 0..(Len(x) - 1) /\ Len(buffer) \in Nat
    BY <1>1, <1>3, <1>5
  <1>9. \A j \in 1..Len(buffer) : buffer[j] = x[j]
    <2>. DEFINE q == c[n + 1] + 4
    <2>1. At(buffer, T, q) /\ At(x, T, q)
      BY <1>7, Zenon
    <2>. HIDE DEF q
    <2>. QED  BY <1>5, <1>8, <2>1 DEF At
  <1>10. buffer = SubSeq(x, 1, Len(buffer))
    <2>1. /\ SubSeq(x, 1, Len(buffer)) \in Seq(Bytes)
          /\ Len(SubSeq(x, 1, Len(buffer))) = Len(buffer)
          /\ \A j \in 1..Len(buffer) : SubSeq(x, 1, Len(buffer))[j] = x[j]
      BY <1>5, <1>8
    <2>. QED  BY <1>1, <1>9, <2>1, SameBytes, Zenon
  <1>. QED  BY <1>4, <1>8, <1>10, Zenon DEF x

\* No encoding parses after it is cut short: what read_frame has of a request
\* when the connection breaks off does not parse.
THEOREM PartialRequestsRefused == Spec => []NoPartialRequest
  <1>1. PostInv /\ StreamInv => NoPartialRequest
    <2>. DEFINE n == Len(delivered)
    <2>. SUFFICES ASSUME PostInv, StreamInv, reader = "payload", posted[n + 1][1] = "request"
                  PROVE  parse_request(buffer).type = "ERROR"
      BY Zenon DEF NoPartialRequest
    <2>1. /\ n + 1 \in 1..Len(sent) /\ Len(buffer) \in 0..(Len(sent[n + 1]) - 1)
          /\ buffer = SubSeq(sent[n + 1], 1, Len(buffer))
      BY BufferBegins, Zenon
    <2>2. Encodes(sent[n + 1], posted[n + 1])
      BY <2>1, Zenon DEF PostInv
    <2>3. posted[n + 1][2] \in Requests /\ sent[n + 1] = encode_request(posted[n + 1][2])
      BY <2>2, PostedKind, Zenon
    <2>4. \A r \in Requests : \A k \in 0..(Len(encode_request(r)) - 1) :
             parse_request(SubSeq(encode_request(r), 1, k)).type = "ERROR"
      BY CodecAgrees, Zenon DEF CodecInverts
    <2>. QED  BY <2>1, <2>3, <2>4, Zenon
  <1>. QED  BY <1>1, PostInvariant, StreamInvariant, PTL
=============================================================================
