--------------------------- MODULE ESP32VFSProofs ---------------------------
(***************************************************************************)
(* The virtual file system, for any bytes, any sizes and any number of     *)
(* failures: its layers always fit, a method that says OK has lost         *)
(* nothing, and what SQLite sees is the abstract file.                     *)
(***************************************************************************)
EXTENDS ESP32VFS, SequenceTheorems, TLAPS

-----------------------------------------------------------------------------
(* The content of a file.                                                  *)

\* What an overlay is, place by place.
LEMMA OverlayIs ==
  ASSUME NEW S, NEW c \in Seq(S), NEW at \in 0..Len(c), NEW b \in Seq(S)
  PROVE  /\ Overlay(c, at, b) \in Seq(S)
         /\ Len(Overlay(c, at, b)) =
              IF at + Len(b) <= Len(c) THEN Len(c) ELSE at + Len(b)
         /\ \A p \in 1..Len(Overlay(c, at, b)) :
              Overlay(c, at, b)[p] =
                IF p > at /\ p <= at + Len(b) THEN b[p - at] ELSE c[p]
<1>1. Len(c) \in Nat /\ Len(b) \in Nat /\ at \in Nat
  BY LenProperties
<1>2. CASE b = <<>>
  <2>1. Len(b) = 0
    BY <1>2
  <2>2. Overlay(c, at, b) = c
    BY <1>2 DEF Overlay
  <2> QED
    BY <2>1, <2>2, <1>1
<1>3. CASE b # <<>>
  <2> DEFINE x == SubSeq(c, 1, at)
             z == SubSeq(c, at + Len(b) + 1, Len(c))
  <2>1. \A i \in 1..Len(c) : c[i] \in S
    BY ElementOfSeq
  <2>2. /\ x \in Seq(S) /\ Len(x) = at
        /\ \A i \in 1..at : x[i] = c[i]
    <3>1. \A i \in 1..at : c[i] \in S
      BY <2>1, <1>1
    <3>2. /\ x \in Seq(S)
          /\ Len(x) = IF 1 <= at THEN at - 1 + 1 ELSE 0
          /\ \A i \in 1..(at - 1 + 1) : x[i] = c[1 + i - 1]
      BY <3>1, <1>1, SubSeqProperties
    <3> HIDE DEF x
    <3> QED
      BY <3>2, <1>1
  <2> DEFINE e == at + Len(b)
  <2>3. e \in Nat /\ e >= at /\ Len(b) = e - at
    BY <1>1
  <2>4. /\ z \in Seq(S)
        /\ Len(z) = IF e < Len(c) THEN Len(c) - e ELSE 0
        /\ \A i \in 1..(Len(c) - e) : z[i] = c[e + i]
    <3> DEFINE m == e + 1
    <3>1. m \in Int /\ \A i \in m..Len(c) : c[i] \in S
      BY <2>1, <2>3, <1>1
    <3>2. z = SubSeq(c, m, Len(c))
      OBVIOUS
    <3> HIDE DEF m, z
    <3>3. /\ z \in Seq(S)
          /\ Len(z) = IF m <= Len(c) THEN Len(c) - m + 1 ELSE 0
          /\ \A i \in 1..(Len(c) - m + 1) : z[i] = c[m + i - 1]
      BY <3>1, <3>2, <1>1, SubSeqProperties
    <3> HIDE DEF e
    <3>4. \A i \in 1..(Len(c) - e) : i \in 1..(Len(c) - m + 1) /\ m + i - 1 = e + i
      BY <2>3, <1>1 DEF m
    <3>5. Len(z) = IF e < Len(c) THEN Len(c) - e ELSE 0
      BY <3>3, <2>3, <1>1 DEF m
    <3>6. \A i \in 1..(Len(c) - e) : z[i] = c[e + i]
      BY <3>3, <3>4
    <3> QED
      BY <3>3, <3>5, <3>6
  <2>5. Overlay(c, at, b) = (x \o b) \o z
    BY <1>3 DEF Overlay
  <2> HIDE DEF x, z, e
  <2> DEFINE y == x \o b
  <2>6. /\ y \in Seq(S) /\ Len(y) = e
        /\ \A i \in 1..e : y[i] = IF i <= at THEN x[i] ELSE b[i - at]
    <3>1. /\ y \in Seq(S) /\ Len(y) = Len(x) + Len(b)
          /\ \A i \in 1..(Len(x) + Len(b)) :
               y[i] = IF i <= Len(x) THEN x[i] ELSE b[i - Len(x)]
      BY <2>2, ConcatProperties
    <3>2. Len(x) = at /\ Len(x) + Len(b) = e
      BY <2>2 DEF e
    <3> HIDE DEF y
    <3> QED
      BY <3>1, <3>2
  <2> DEFINE w == y \o z
  <2>7. Overlay(c, at, b) = w
    BY <2>5
  <2> HIDE DEF y
  <2>8. /\ w \in Seq(S) /\ Len(w) = e + Len(z)
        /\ \A i \in 1..(e + Len(z)) : w[i] = IF i <= e THEN y[i] ELSE z[i - e]
    <3>1. /\ w \in Seq(S) /\ Len(w) = Len(y) + Len(z)
          /\ \A i \in 1..(Len(y) + Len(z)) :
               w[i] = IF i <= Len(y) THEN y[i] ELSE z[i - Len(y)]
      BY <2>4, <2>6, ConcatProperties
    <3> HIDE DEF w
    <3> QED
      BY <3>1, <2>6
  <2> HIDE DEF w
  <2>9. Len(z) \in Nat /\ (Len(z) = 0 \/ Len(z) = Len(c) - e)
    BY <2>4, <2>3, <1>1
  <2>10. Len(w) = IF e <= Len(c) THEN Len(c) ELSE e
    BY <2>8, <2>4, <2>3, <1>1
  <2>11. ASSUME NEW p \in 1..Len(w)
         PROVE  w[p] = IF p > at /\ p <= e THEN b[p - at] ELSE c[p]
    <3>1. p \in 1..(e + Len(z))
      BY <2>8
    <3>2. CASE p <= at
      <4>1. p \in 1..e /\ p <= e /\ ~(p > at) /\ p \in 1..at
        BY <3>1, <3>2, <2>3, <2>9, <1>1
      <4> QED
        BY <3>1, <3>2, <4>1, <2>8, <2>6, <2>2
    <3>3. CASE p > at /\ p <= e
      <4>1. p \in 1..e /\ ~(p <= at)
        BY <3>1, <3>3, <2>3, <2>9, <1>1
      <4> QED
        BY <3>1, <3>3, <4>1, <2>8, <2>6
    <3>4. CASE p > e
      <4>1. p - e \in 1..(Len(c) - e) /\ e + (p - e) = p /\ ~(p <= e)
        BY <3>1, <3>4, <2>9, <2>3, <1>1
      <4> QED
        BY <3>1, <3>4, <4>1, <2>8, <2>4
    <3> QED
      BY <3>1, <3>2, <3>3, <3>4, <2>3, <2>9, <1>1
  <2> QED
    BY <2>7, <2>8, <2>10, <2>11 DEF e
<1> QED
  BY <1>2, <1>3

\* What a slice is, place by place.
LEMMA SliceIs ==
  ASSUME NEW S, NEW c \in Seq(S), NEW at \in Nat, NEW n \in Nat,
         n = 0 \/ at + n <= Len(c)
  PROVE  /\ Slice(c, at, n) \in Seq(S)
         /\ Len(Slice(c, at, n)) = n
         /\ \A i \in 1..n : Slice(c, at, n)[i] = c[at + i]
<1> DEFINE m == at + 1
           k == at + n
           x == SubSeq(c, m, k)
<1>1. Len(c) \in Nat
  BY LenProperties
<1>2. m \in Int /\ k \in Int /\ \A i \in m..k : i \in 1..Len(c)
  BY <1>1
<1>3. \A i \in m..k : c[i] \in S
  BY <1>2, ElementOfSeq
<1>4. Slice(c, at, n) = x
  BY DEF Slice
<1> HIDE DEF m, k
<1>5. /\ x \in Seq(S)
      /\ Len(x) = IF m <= k THEN k - m + 1 ELSE 0
      /\ \A i \in 1..(k - m + 1) : x[i] = c[m + i - 1]
  BY <1>2, <1>3, SubSeqProperties
<1> HIDE DEF x
<1>6. Len(x) = n
  BY <1>5 DEF m, k
<1>7. ASSUME NEW i \in 1..n
      PROVE  x[i] = c[at + i]
  <2>1. i \in 1..(k - m + 1) /\ m + i - 1 = at + i
    BY DEF m, k
  <2> QED
    BY <2>1, <1>5
<1> QED
  BY <1>4, <1>5, <1>6, <1>7

\* The bytes of a write from the first to the last of an interval.
LEMMA PieceIs ==
  ASSUME NEW S, NEW b \in Seq(S), NEW from \in Nat, NEW to \in Nat,
         from <= to, to <= Len(b)
  PROVE  /\ SubSeq(b, from + 1, to) \in Seq(S)
         /\ Len(SubSeq(b, from + 1, to)) = to - from
         /\ \A i \in 1..(to - from) : SubSeq(b, from + 1, to)[i] = b[from + i]
<1> DEFINE n == to - from
<1>1. n \in Nat /\ from + n = to /\ from + n <= Len(b)
  BY LenProperties
<1>2. SubSeq(b, from + 1, to) = Slice(b, from, n)
  BY <1>1 DEF Slice
<1> HIDE DEF n
<1>3. /\ Slice(b, from, n) \in Seq(S) /\ Len(Slice(b, from, n)) = n
      /\ \A i \in 1..n : Slice(b, from, n)[i] = b[from + i]
  BY <1>1, SliceIs
<1>4. n = to - from
  BY DEF n
<1> QED
  BY <1>2, <1>3, <1>4

\* Two overlays that follow each other are one (fwrite and the buffers cut a
\* write into pieces).
LEMMA OverlayJoin ==
  ASSUME NEW S, NEW c \in Seq(S), NEW at \in 0..Len(c),
         NEW a \in Seq(S), NEW b \in Seq(S)
  PROVE  /\ at + Len(a) \in 0..Len(Overlay(c, at, a))
         /\ Overlay(Overlay(c, at, a), at + Len(a), b) = Overlay(c, at, a \o b)
<1> DEFINE e == at + Len(a)
           x == Overlay(c, at, a)
           y == Overlay(x, e, b)
           ab == a \o b
           z == Overlay(c, at, ab)
<1>1. /\ Len(a) \in Nat /\ Len(b) \in Nat /\ Len(c) \in Nat /\ at \in Nat
      /\ at <= Len(c)
  BY LenProperties
<1>2. e \in Nat /\ e >= at
  BY <1>1
<1>3. /\ x \in Seq(S) /\ Len(x) = IF e <= Len(c) THEN Len(c) ELSE e
      /\ \A p \in 1..Len(x) : x[p] = IF p > at /\ p <= e THEN a[p - at] ELSE c[p]
  BY OverlayIs
<1>4. /\ ab \in Seq(S) /\ Len(ab) = Len(a) + Len(b)
      /\ \A i \in 1..(Len(a) + Len(b)) :
           ab[i] = IF i <= Len(a) THEN a[i] ELSE b[i - Len(a)]
  BY ConcatProperties
<1>5. /\ z \in Seq(S)
      /\ Len(z) = IF at + Len(ab) <= Len(c) THEN Len(c) ELSE at + Len(ab)
      /\ \A p \in 1..Len(z) :
           z[p] = IF p > at /\ p <= at + Len(ab) THEN ab[p - at] ELSE c[p]
  <2> HIDE DEF ab
  <2> QED
    BY <1>4, OverlayIs
<1> HIDE DEF x, z, ab
<1>6. e \in 0..Len(x)
  BY <1>1, <1>2, <1>3
<1> HIDE DEF e
<1>7. /\ y \in Seq(S) /\ Len(y) = IF e + Len(b) <= Len(x) THEN Len(x) ELSE e + Len(b)
      /\ \A p \in 1..Len(y) : y[p] = IF p > e /\ p <= e + Len(b) THEN b[p - e] ELSE x[p]
  BY <1>3, <1>6, OverlayIs
<1> HIDE DEF y
<1>8. at + Len(ab) = e + Len(b) /\ Len(a) = e - at
  BY <1>4, <1>1 DEF e
<1>9. Len(y) = Len(z)
  BY <1>1, <1>2, <1>3, <1>5, <1>7, <1>8
<1>10. ASSUME NEW p \in 1..Len(y)
       PROVE  y[p] = z[p]
  <2>1. p \in 1..Len(z) /\ p \in Nat /\ p >= 1 /\ Len(y) \in Nat
    BY <1>9, <1>7, LenProperties
  <2>2. CASE p <= at
    <3>1. p \in 1..Len(x) /\ ~(p > e) /\ ~(p > at)
      BY <2>1, <2>2, <1>1, <1>2, <1>3
    <3> QED
      BY <2>1, <3>1, <1>3, <1>5, <1>7
  <2>3. CASE p > at /\ p <= e
    <3>1. /\ p \in 1..Len(x) /\ ~(p > e) /\ p <= at + Len(ab)
          /\ p - at \in 1..(Len(a) + Len(b)) /\ p - at <= Len(a)
      BY <2>1, <2>3, <1>1, <1>2, <1>3, <1>8
    <3> QED
      BY <2>1, <2>3, <3>1, <1>3, <1>4, <1>5, <1>7
  <2>4. CASE p > e /\ p <= e + Len(b)
    <3>1. /\ p > at /\ p <= at + Len(ab)
          /\ p - at \in 1..(Len(a) + Len(b)) /\ ~(p - at <= Len(a))
          /\ (p - at) - Len(a) = p - e
      BY <2>1, <2>4, <1>1, <1>2, <1>8
    <3> QED
      BY <2>1, <2>4, <3>1, <1>4, <1>5, <1>7
  <2>5. CASE p > e + Len(b)
    <3>1. /\ ~(p <= at + Len(ab)) /\ ~(p <= e) /\ ~(p <= e + Len(b))
          /\ p \in 1..Len(x)
      BY <2>1, <2>5, <1>1, <1>2, <1>7, <1>8
    <3> QED
      BY <2>1, <2>5, <3>1, <1>3, <1>5, <1>7
  <2> QED
    BY <2>1, <2>2, <2>3, <2>4, <2>5, <1>1, <1>2
<1>11. y = z
  BY <1>5, <1>7, <1>9, <1>10, SeqEqual
<1> QED
  BY <1>6, <1>11 DEF e, x, y, z, ab

\* What was overlaid is found there, and nothing else has changed.
LEMMA OverlayKeeps ==
  ASSUME NEW S, NEW c \in Seq(S), NEW at \in 0..Len(c), NEW b \in Seq(S)
  PROVE  /\ Slice(Overlay(c, at, b), at, Len(b)) = b
         /\ Len(c) <= Len(Overlay(c, at, b))
         /\ at + Len(b) <= Len(Overlay(c, at, b))
         /\ \A p \in 1..Len(c) : p \notin Places(at, b) => Overlay(c, at, b)[p] = c[p]
<1> DEFINE x == Overlay(c, at, b)
           y == Slice(x, at, Len(b))
<1>1. Len(b) \in Nat /\ Len(c) \in Nat /\ at \in Nat /\ at <= Len(c)
  BY LenProperties
<1>2. /\ x \in Seq(S) /\ Len(x) = IF at + Len(b) <= Len(c) THEN Len(c) ELSE at + Len(b)
      /\ \A p \in 1..Len(x) : x[p] = IF p > at /\ p <= at + Len(b) THEN b[p - at] ELSE c[p]
  BY OverlayIs
<1> HIDE DEF x
<1>3. Len(c) <= Len(x) /\ at + Len(b) <= Len(x)
  BY <1>1, <1>2
<1>4. /\ y \in Seq(S) /\ Len(y) = Len(b)
      /\ \A i \in 1..Len(b) : y[i] = x[at + i]
  <2>1. Len(b) \in Nat /\ at \in Nat /\ x \in Seq(S)
        /\ (Len(b) = 0 \/ at + Len(b) <= Len(x))
    BY <1>1, <1>2, <1>3
  <2> QED
    BY <2>1, SliceIs
<1> HIDE DEF y
<1>5. ASSUME NEW i \in 1..Len(y)
      PROVE  y[i] = b[i]
  <2>1. at + i \in 1..Len(x) /\ at + i > at /\ at + i <= at + Len(b) /\ (at + i) - at = i
    BY <1>1, <1>2, <1>3, <1>4
  <2> QED
    BY <2>1, <1>2, <1>4
<1>6. y = b
  BY <1>4, <1>5, SeqEqual
<1>7. ASSUME NEW p \in 1..Len(c), p \notin Places(at, b)
      PROVE  x[p] = c[p]
  <2>1. p \in 1..Len(x) /\ ~(p > at /\ p <= at + Len(b))
    BY <1>1, <1>2, <1>3, <1>7 DEF Places
  <2> QED
    BY <2>1, <1>2
<1> QED
  BY <1>3, <1>6, <1>7 DEF x, y

\* Bytes that are in the file already change nothing.
LEMMA OverlayOwn ==
  ASSUME NEW S, NEW c \in Seq(S), NEW at \in Nat, NEW n \in Nat, at + n <= Len(c)
  PROVE  Overlay(c, at, Slice(c, at, n)) = c
<1> DEFINE b == Slice(c, at, n)
           x == Overlay(c, at, b)
<1>1. at \in 0..Len(c) /\ Len(c) \in Nat
  BY LenProperties
<1>2. b \in Seq(S) /\ Len(b) = n /\ \A i \in 1..n : b[i] = c[at + i]
  BY SliceIs
<1> HIDE DEF b
<1>3. /\ x \in Seq(S) /\ Len(x) = IF at + n <= Len(c) THEN Len(c) ELSE at + n
      /\ \A p \in 1..Len(x) : x[p] = IF p > at /\ p <= at + n THEN b[p - at] ELSE c[p]
  BY <1>1, <1>2, OverlayIs
<1> HIDE DEF x
<1>4. Len(x) = Len(c)
  BY <1>3
<1>5. ASSUME NEW p \in 1..Len(x)
      PROVE  x[p] = c[p]
  <2>1. CASE p > at /\ p <= at + n
    <3>1. p - at \in 1..n /\ at + (p - at) = p
      BY <2>1
    <3> QED
      BY <2>1, <3>1, <1>2, <1>3
  <2> QED
    BY <2>1, <1>3
<1> QED
  BY <1>3, <1>4, <1>5, SeqEqual DEF x, b

\* A write of which the first n bytes are in place goes on to its byte m as a
\* write of m bytes would.
LEMMA OverlayContinues ==
  ASSUME NEW S, NEW c \in Seq(S), NEW d \in Seq(S),
         NEW at \in Nat, NEW n \in Nat, NEW m \in Nat,
         n <= m, m <= Len(d), at + n <= Len(c),
         Slice(c, at, n) = SubSeq(d, 1, n)
  PROVE  LET x == Overlay(c, at + n, SubSeq(d, n + 1, m))
         IN  /\ x = Overlay(c, at, SubSeq(d, 1, m))
             /\ Slice(x, at, m) = SubSeq(d, 1, m)
             /\ at + m <= Len(x)
<1> DEFINE a == SubSeq(d, 1, n)
           b == SubSeq(d, n + 1, m)
           ab == SubSeq(d, 1, m)
<1>1. Len(c) \in Nat /\ Len(d) \in Nat /\ at \in 0..Len(c) /\ n <= Len(d)
  BY LenProperties
<1>2. a \in Seq(S) /\ Len(a) = n
  <2>1. 0 \in Nat /\ 0 <= n /\ 0 + 1 = 1 /\ n - 0 = n
    OBVIOUS
  <2>2. /\ SubSeq(d, 0 + 1, n) \in Seq(S)
        /\ Len(SubSeq(d, 0 + 1, n)) = n - 0
    BY <2>1, <1>1, PieceIs
  <2> QED
    BY <2>1, <2>2
<1>3. b \in Seq(S)
  BY PieceIs
<1>4. ab \in Seq(S) /\ Len(ab) = m
  <2>1. 0 \in Nat /\ 0 <= m /\ 0 + 1 = 1 /\ m - 0 = m
    OBVIOUS
  <2>2. /\ SubSeq(d, 0 + 1, m) \in Seq(S)
        /\ Len(SubSeq(d, 0 + 1, m)) = m - 0
    BY <2>1, PieceIs
  <2> QED
    BY <2>1, <2>2
<1>5. a \o b = ab
  <2>1. 1 \in 1..(Len(d) + 1) /\ n \in (1 - 1)..Len(d) /\ m \in n..Len(d)
    BY <1>1
  <2> QED
    BY <2>1, ConcatAdjacentSubSeq
<1>6. Overlay(c, at, a) = c
  BY OverlayOwn
<1> HIDE DEF a, b, ab
<1>7. Overlay(Overlay(c, at, a), at + Len(a), b) = Overlay(c, at, a \o b)
  <2>1. at \in 0..Len(c) /\ a \in Seq(S)
    BY <1>1, <1>2
  <2> QED
    BY <2>1, <1>3, OverlayJoin
<1>8. Overlay(c, at + n, b) = Overlay(c, at, ab)
  BY <1>2, <1>5, <1>6, <1>7
<1>9. /\ Slice(Overlay(c, at, ab), at, Len(ab)) = ab
      /\ at + Len(ab) <= Len(Overlay(c, at, ab))
  BY <1>1, <1>4, OverlayKeeps
<1> QED
  BY <1>4, <1>8, <1>9 DEF b, ab

\* A write cut anywhere is the same write.
LEMMA OverlayCut ==
  ASSUME NEW S, NEW c \in Seq(S), NEW at \in 0..Len(c), NEW b \in Seq(S),
         NEW n \in 0..Len(b)
  PROVE  LET x == Overlay(c, at, SubSeq(b, 1, n))
         IN  /\ SubSeq(b, 1, n) \in Seq(S)
             /\ Places(at, SubSeq(b, 1, n)) \subseteq Places(at, b)
             /\ SubSeq(b, n + 1, Len(b)) \in Seq(S)
             /\ Places(at + n, SubSeq(b, n + 1, Len(b))) \subseteq Places(at, b)
             /\ x \in Seq(S)
             /\ at + n \in 0..Len(x)
             /\ Overlay(x, at + n, SubSeq(b, n + 1, Len(b))) = Overlay(c, at, b)
<1> DEFINE u == SubSeq(b, 1, n)
           v == SubSeq(b, n + 1, Len(b))
<1>1. Len(b) \in Nat /\ Len(c) \in Nat /\ at \in Nat /\ at <= Len(c) /\ n \in Nat /\ n <= Len(b)
  BY LenProperties
<1>2. u \in Seq(S) /\ Len(u) = n
  <2>1. 0 \in Nat /\ 0 <= n /\ 0 + 1 = 1 /\ n - 0 = n
    BY <1>1
  <2>2. /\ SubSeq(b, 0 + 1, n) \in Seq(S)
        /\ Len(SubSeq(b, 0 + 1, n)) = n - 0
    BY <2>1, <1>1, PieceIs
  <2> QED
    BY <2>1, <2>2
<1>3. v \in Seq(S) /\ Len(v) = Len(b) - n
  BY <1>1, PieceIs
<1>4. u \o v = b
  <2>1. 1 \in 1..(Len(b) + 1) /\ n \in (1 - 1)..Len(b) /\ Len(b) \in n..Len(b)
    BY <1>1
  <2>2. u \o v = SubSeq(b, 1, Len(b))
    BY <2>1, ConcatAdjacentSubSeq
  <2> QED
    BY <2>2, SubSeqFull
<1> HIDE DEF u, v
<1>5. /\ at + n \in 0..Len(Overlay(c, at, u))
      /\ Overlay(Overlay(c, at, u), at + n, v) = Overlay(c, at, b)
  <2>1. u \in Seq(S) /\ v \in Seq(S)
    BY <1>2, <1>3
  <2>2. /\ at + Len(u) \in 0..Len(Overlay(c, at, u))
        /\ Overlay(Overlay(c, at, u), at + Len(u), v) = Overlay(c, at, u \o v)
    BY <2>1, OverlayJoin
  <2> QED
    BY <2>2, <1>2, <1>4, Zenon
<1>6. Overlay(c, at, u) \in Seq(S)
  BY <1>2, OverlayIs
<1>7. Places(at, u) \subseteq Places(at, b) /\ Places(at + n, v) \subseteq Places(at, b)
  BY <1>1, <1>2, <1>3 DEF Places
<1> QED
  BY <1>2, <1>3, <1>5, <1>6, <1>7 DEF u, v

-----------------------------------------------------------------------------
(* The stream.                                                             *)

\* A stream whose buffer continues its file without a hole.
StreamFits(s) == s \in Stream /\ s.at <= Len(s.file)

\* What a stream may become while the places D are dirty: it loses no place, and
\* outside of D the file system has what it had.
Becomes(s, t, D) ==
  /\ StreamFits(t)
  /\ Places(t.at, t.tail) \subseteq D
  /\ Len(s.file) <= Len(t.file)
  /\ SameBut(s.file, t.file, D)

LEMMA SameButItself ==
  ASSUME NEW S, NEW c \in Seq(S), NEW D
  PROVE  SameBut(c, c, D)
BY LenProperties DEF SameBut

LEMMA SameButReversed ==
  ASSUME NEW c, NEW d, NEW D, SameBut(c, d, D)
  PROVE  SameBut(d, c, D)
BY DEF SameBut

LEMMA SameButTransitive ==
  ASSUME NEW S, NEW c \in Seq(S), NEW d \in Seq(S), NEW e \in Seq(S), NEW D,
         SameBut(c, d, D), SameBut(d, e, D)
  PROVE  SameBut(c, e, D)
<1>1. Len(c) \in Nat /\ Len(d) \in Nat /\ Len(e) \in Nat
  BY LenProperties
<1>2. ASSUME NEW p \in ((1..Len(c)) \cup (1..Len(e))) \ D
      PROVE  p <= Len(c) /\ p <= Len(e) /\ c[p] = e[p]
  <2>1. p \in ((1..Len(c)) \cup (1..Len(d))) \ D
    BY <1>1, <1>2 DEF SameBut
  <2>2. p \in ((1..Len(d)) \cup (1..Len(e))) \ D
    BY <1>1, <1>2 DEF SameBut
  <2>3. p <= Len(c) /\ c[p] = d[p]
    BY <2>1 DEF SameBut
  <2>4. p <= Len(e) /\ d[p] = e[p]
    BY <2>2 DEF SameBut
  <2> QED
    BY <2>3, <2>4
<1> QED
  BY <1>2 DEF SameBut

LEMMA SameButWider ==
  ASSUME NEW c, NEW d, NEW D, NEW E, D \subseteq E, SameBut(c, d, D)
  PROVE  SameBut(c, d, E)
BY DEF SameBut

\* An overlay changes nothing but its places.
LEMMA OverlaySame ==
  ASSUME NEW S, NEW c \in Seq(S), NEW at \in 0..Len(c), NEW b \in Seq(S)
  PROVE  SameBut(c, Overlay(c, at, b), Places(at, b))
<1> DEFINE x == Overlay(c, at, b)
<1>1. Len(b) \in Nat /\ Len(c) \in Nat /\ at \in Nat /\ at <= Len(c)
  BY LenProperties
<1>2. /\ Len(x) = IF at + Len(b) <= Len(c) THEN Len(c) ELSE at + Len(b)
      /\ \A p \in 1..Len(x) : x[p] = IF p > at /\ p <= at + Len(b) THEN b[p - at] ELSE c[p]
  BY OverlayIs
<1> HIDE DEF x
<1>3. ASSUME NEW p \in ((1..Len(c)) \cup (1..Len(x))) \ Places(at, b)
      PROVE  p <= Len(c) /\ p <= Len(x) /\ c[p] = x[p]
  <2>1. p \in Nat /\ p >= 1 /\ ~(p > at /\ p <= at + Len(b))
    BY <1>1, <1>2, <1>3 DEF Places
  <2>2. p <= Len(c) /\ p \in 1..Len(x)
    BY <1>1, <1>2, <1>3, <2>1
  <2> QED
    BY <1>2, <2>1, <2>2
<1> QED
  BY <1>3 DEF SameBut, x

LEMMA StreamParts ==
  ASSUME NEW s, StreamFits(s)
  PROVE  /\ s.file \in Seq(Byte) /\ s.tail \in Seq(Byte)
         /\ s.at \in 0..Len(s.file)
         /\ Len(s.file) \in Nat /\ Len(s.tail) \in Nat
<1>1. s.file \in Seq(Byte) /\ s.tail \in Seq(Byte) /\ s.at \in Nat /\ s.at <= Len(s.file)
  BY DEF StreamFits, Stream
<1>2. Len(s.file) \in Nat /\ Len(s.tail) \in Nat
  BY <1>1, LenProperties
<1> QED
  BY <1>1, <1>2

\* A stream without a tail fits, and shows the file that it has.
LEMMA StreamOfIs ==
  ASSUME NEW c \in Seq(Byte)
  PROVE  /\ StreamFits(StreamOf(c))
         /\ StreamOf(c).file = c
         /\ Contents(StreamOf(c)) = c
         /\ \A D : Places(StreamOf(c).at, StreamOf(c).tail) \subseteq D
<1>1. StreamOf(c) = [file |-> c, at |-> 0, tail |-> <<>>]
  BY DEF StreamOf
<1>2. <<>> \in Seq(Byte) /\ Len(<<>>) = 0 /\ Len(c) \in Nat
  BY EmptySeq, LenProperties
<1>3. StreamFits(StreamOf(c))
  BY <1>1, <1>2 DEF StreamFits, Stream
<1>4. Contents(StreamOf(c)) = c
  BY <1>1 DEF Contents, Overlay
<1>5. Places(StreamOf(c).at, StreamOf(c).tail) = {}
  BY <1>1, <1>2 DEF Places
<1> QED
  BY <1>1, <1>3, <1>4, <1>5

\* What a stream shows continues its file.
LEMMA ContentsIs ==
  ASSUME NEW s, StreamFits(s)
  PROVE  /\ Contents(s) \in Seq(Byte)
         /\ Len(Contents(s)) \in Nat
         /\ Len(s.file) <= Len(Contents(s))
         /\ \A D : Places(s.at, s.tail) \subseteq D => SameBut(s.file, Contents(s), D)
<1>1. /\ s.file \in Seq(Byte) /\ s.tail \in Seq(Byte)
      /\ s.at \in 0..Len(s.file)
  BY StreamParts
<1>2. Overlay(s.file, s.at, s.tail) \in Seq(Byte)
  BY <1>1, OverlayIs
<1>3. Len(s.file) <= Len(Overlay(s.file, s.at, s.tail))
  BY <1>1, OverlayKeeps
<1>4. Len(Overlay(s.file, s.at, s.tail)) \in Nat
  BY <1>2, LenProperties
<1>5. SameBut(s.file, Contents(s), Places(s.at, s.tail))
  BY <1>1, OverlaySame DEF Contents
<1>6. \A D : Places(s.at, s.tail) \subseteq D => SameBut(s.file, Contents(s), D)
  BY <1>5, SameButWider
<1> QED
  BY <1>2, <1>3, <1>4, <1>6 DEF Contents

LEMMA BecomesItself ==
  ASSUME NEW s, NEW D, StreamFits(s), Places(s.at, s.tail) \subseteq D
  PROVE  Becomes(s, s, D)
<1>1. s.file \in Seq(Byte) /\ Len(s.file) \in Nat
  BY StreamParts
<1>2. SameBut(s.file, s.file, D)
  BY <1>1, SameButItself
<1> QED
  BY <1>1, <1>2 DEF Becomes

LEMMA BecomesTransitive ==
  ASSUME NEW s, NEW t, NEW u, NEW D, StreamFits(s), Becomes(s, t, D), Becomes(t, u, D)
  PROVE  Becomes(s, u, D)
<1>1. /\ s.file \in Seq(Byte) /\ t.file \in Seq(Byte) /\ u.file \in Seq(Byte)
      /\ Len(s.file) \in Nat /\ Len(t.file) \in Nat /\ Len(u.file) \in Nat
  BY StreamParts DEF Becomes
<1>2. Len(s.file) <= Len(u.file)
  BY <1>1 DEF Becomes
<1>3. SameBut(s.file, u.file, D)
  BY <1>1, SameButTransitive DEF Becomes
<1> QED
  BY <1>2, <1>3 DEF Becomes

\* What the streams show is the same as well.
LEMMA BecomesShows ==
  ASSUME NEW s, NEW t, NEW D, StreamFits(s), Places(s.at, s.tail) \subseteq D,
         Becomes(s, t, D)
  PROVE  SameBut(Contents(s), Contents(t), D)
<1>1. /\ StreamFits(t) /\ Places(t.at, t.tail) \subseteq D
      /\ SameBut(s.file, t.file, D)
  BY DEF Becomes
<1>2. /\ s.file \in Seq(Byte) /\ t.file \in Seq(Byte)
      /\ Contents(s) \in Seq(Byte) /\ Contents(t) \in Seq(Byte)
  BY <1>1, StreamParts, ContentsIs
<1>3. SameBut(Contents(s), s.file, D) /\ SameBut(t.file, Contents(t), D)
  BY <1>1, ContentsIs, SameButReversed
<1>4. SameBut(Contents(s), t.file, D)
  BY <1>1, <1>2, <1>3, SameButTransitive
<1> QED
  BY <1>2, <1>3, <1>4, SameButTransitive

\* fseek writes the tail out.
LEMMA DrainedStream ==
  ASSUME NEW s, NEW D, StreamFits(s), Places(s.at, s.tail) \subseteq D
  PROVE  /\ Becomes(s, Drained(s), D)
         /\ Drained(s).file = Contents(s)
         /\ Contents(Drained(s)) = Contents(s)
<1>1. /\ Contents(s) \in Seq(Byte)
      /\ Len(s.file) <= Len(Contents(s))
      /\ SameBut(s.file, Contents(s), D)
  BY ContentsIs
<1>2. /\ StreamFits(Drained(s))
      /\ Drained(s).file = Contents(s)
      /\ Contents(Drained(s)) = Contents(s)
      /\ \A E : Places(Drained(s).at, Drained(s).tail) \subseteq E
  BY <1>1, StreamOfIs DEF Drained
<1> QED
  BY <1>1, <1>2 DEF Becomes

\* A stream that becomes a file with bytes put over it.
LEMMA OverlaidStream ==
  ASSUME NEW s, NEW D, StreamFits(s), NEW at \in 0..Len(s.file), NEW b \in Seq(Byte),
         Places(at, b) \subseteq D
  PROVE  Becomes(s, StreamOf(Overlay(s.file, at, b)), D)
<1> DEFINE c == Overlay(s.file, at, b)
<1>1. s.file \in Seq(Byte)
  BY StreamParts
<1>2. c \in Seq(Byte)
  BY <1>1, OverlayIs
<1>3. Len(s.file) <= Len(c) /\ SameBut(s.file, c, D)
  BY <1>1, OverlayKeeps, OverlaySame, SameButWider
<1> HIDE DEF c
<1>4. /\ StreamFits(StreamOf(c)) /\ StreamOf(c).file = c
      /\ \A E : Places(StreamOf(c).at, StreamOf(c).tail) \subseteq E
  BY <1>2, StreamOfIs
<1> QED
  BY <1>3, <1>4 DEF Becomes, c

\* A tail that gets lost, or the rest of it.
LEMMA SpiltStream ==
  ASSUME NEW s, NEW D, StreamFits(s), Places(s.at, s.tail) \subseteq D, NEW t \in Spilt(s)
  PROVE  Becomes(s, t, D)
<1>1. PICK n \in 0..Len(s.tail) : t = StreamOf(Overlay(s.file, s.at, SubSeq(s.tail, 1, n)))
  BY DEF Spilt
<1>2. /\ s.file \in Seq(Byte) /\ s.tail \in Seq(Byte)
      /\ s.at \in 0..Len(s.file)
  BY StreamParts
<1>3. /\ SubSeq(s.tail, 1, n) \in Seq(Byte)
      /\ Places(s.at, SubSeq(s.tail, 1, n)) \subseteq Places(s.at, s.tail)
  BY <1>2, OverlayCut
<1> QED
  BY <1>1, <1>2, <1>3, OverlaidStream

\* fwrite: wherever it leaves the bytes, the stream shows them.
LEMMA WrittenStream ==
  ASSUME NEW s, NEW D, StreamFits(s), Places(s.at, s.tail) \subseteq D,
         NEW at \in 0..Len(Contents(s)), NEW b \in Seq(Byte), Places(at, b) \subseteq D,
         NEW t \in Written(s, at, b)
  PROVE  /\ Becomes(s, t, D)
         /\ Contents(t) = Overlay(Contents(s), at, b)
<1> DEFINE d == Drained(s)
           u(n) == Overlay(Contents(s), at, SubSeq(b, 1, n))
<1>1. PICK n \in 0..Len(b) : t = [file |-> u(n), at |-> at + n,
                                  tail |-> SubSeq(b, n + 1, Len(b))]
  BY DEF Written
<1>2. Contents(s) \in Seq(Byte)
  BY ContentsIs
<1>3. /\ SubSeq(b, 1, n) \in Seq(Byte)
      /\ Places(at, SubSeq(b, 1, n)) \subseteq D
      /\ SubSeq(b, n + 1, Len(b)) \in Seq(Byte)
      /\ Places(at + n, SubSeq(b, n + 1, Len(b))) \subseteq D
      /\ u(n) \in Seq(Byte)
      /\ at + n \in 0..Len(u(n))
      /\ Overlay(u(n), at + n, SubSeq(b, n + 1, Len(b))) = Overlay(Contents(s), at, b)
  BY <1>2, OverlayCut
<1>4. Becomes(s, d, D) /\ d.file = Contents(s)
  BY DrainedStream
<1>5. Becomes(d, StreamOf(u(n)), D)
  <2>1. StreamFits(d) /\ at \in 0..Len(d.file)
    BY <1>4 DEF Becomes
  <2> HIDE DEF d
  <2>2. Becomes(d, StreamOf(Overlay(d.file, at, SubSeq(b, 1, n))), D)
    BY <2>1, <1>3, OverlaidStream
  <2> QED
    BY <2>2, <1>4
<1> HIDE DEF u, d
<1>6. t.file = u(n) /\ t.at = at + n /\ t.tail = SubSeq(b, n + 1, Len(b))
  BY <1>1
<1>7. StreamOf(u(n)).file = u(n)
  BY DEF StreamOf
<1>8. StreamFits(t) /\ Places(t.at, t.tail) \subseteq D
  <2>1. at + n \in Nat /\ at + n <= Len(u(n))
    BY <1>3
  <2> QED
    BY <1>1, <1>3, <1>6, <2>1 DEF StreamFits, Stream
<1>9. Becomes(d, t, D)
  BY <1>5, <1>6, <1>7, <1>8 DEF Becomes
<1>10. Becomes(s, t, D)
  BY <1>4, <1>9, BecomesTransitive
<1>11. Contents(t) = Overlay(Contents(s), at, b)
  BY <1>3, <1>6 DEF Contents
<1> QED
  BY <1>10, <1>11

\* A write that fails leaves a stream that has some of the bytes.
LEMMA BrokenStream ==
  ASSUME NEW s, NEW D, StreamFits(s), Places(s.at, s.tail) \subseteq D,
         NEW at \in 0..Len(Contents(s)), NEW b \in Seq(Byte), Places(at, b) \subseteq D,
         NEW t \in WriteBroken(s, at, b)
  PROVE  Becomes(s, t, D)
<1>1. CASE t \in Spilt(s)
  BY <1>1, SpiltStream
<1>2. CASE t \notin Spilt(s)
  <2> DEFINE d == Drained(s)
  <2>1. PICK n \in 0..Len(b) : t = StreamOf(Overlay(Contents(s), at, SubSeq(b, 1, n)))
    BY <1>2 DEF WriteBroken
  <2>2. Contents(s) \in Seq(Byte)
    BY ContentsIs
  <2>3. /\ SubSeq(b, 1, n) \in Seq(Byte)
        /\ Places(at, SubSeq(b, 1, n)) \subseteq D
    BY <2>2, OverlayCut
  <2>4. Becomes(s, d, D) /\ d.file = Contents(s)
    BY DrainedStream
  <2>5. Becomes(d, t, D)
    <3>1. StreamFits(d) /\ at \in 0..Len(d.file)
      BY <2>4 DEF Becomes
    <3> HIDE DEF d
    <3>2. Becomes(d, StreamOf(Overlay(d.file, at, SubSeq(b, 1, n))), D)
      BY <3>1, <2>3, OverlaidStream
    <3> QED
      BY <3>2, <2>1, <2>4
  <2> QED
    BY <2>4, <2>5, BecomesTransitive
<1> QED
  BY <1>1, <1>2

-----------------------------------------------------------------------------
(* The invariant.                                                          *)

\* What LayersFit needs to be inductive: a temporary file has no name on the
\* card and an open one of another kind has; nothing is left of a closed file;
\* whatever waits in a buffer is dirty; and a write in progress has returned
\* nothing yet.
KindsFit ==
  /\ handle = "temp" => disk = Absent
  /\ handle \notin {"none", "temp"} => disk # Absent
  /\ Closed => stream = NoStream /\ aBuffer = <<>> /\ dirty = {}
  /\ Places(stream.at, stream.tail) \subseteq dirty
  /\ Places(iBufferOfst, aBuffer) \subseteq dirty
  /\ writing # NoWrite => result.op = "none"

VfsInv == VfsTypeOK /\ LayersFit /\ KindsFit

\* The stream and the file in a state of the invariant.
LEMMA InvStream ==
  ASSUME VfsInv
  PROVE  /\ StreamFits(stream)
         /\ Places(stream.at, stream.tail) \subseteq dirty
         /\ Contents(stream) \in Seq(Byte) /\ Len(Contents(stream)) \in Nat
         /\ Logical \in Seq(Byte) /\ Len(Logical) \in Nat
         /\ aBuffer = <<>> => Logical = Contents(stream)
         /\ aBuffer # <<>> => /\ iBufferOfst \in 0..Len(Contents(stream))
                              /\ aBuffer \in Seq(Byte)
                              /\ Places(iBufferOfst, aBuffer) \subseteq dirty
         /\ Closed => writing = NoWrite
<1>1. StreamFits(stream)
  BY DEF VfsInv, VfsTypeOK, LayersFit, StreamFits
<1>2. Contents(stream) \in Seq(Byte) /\ Len(Contents(stream)) \in Nat
  BY <1>1, ContentsIs
<1>3. aBuffer = <<>> => Logical = Contents(stream)
  BY DEF Logical, Overlay
<1>4. /\ aBuffer \in Seq(Byte)
      /\ aBuffer # <<>> => iBufferOfst \in 0..Len(Contents(stream))
  BY <1>2 DEF VfsInv, VfsTypeOK, LayersFit
<1>5. aBuffer # <<>> => Logical \in Seq(Byte)
  BY <1>2, <1>4, OverlayIs DEF Logical
<1>6. Logical \in Seq(Byte)
  BY <1>2, <1>3, <1>5
<1>7. Len(Logical) \in Nat
  BY <1>6, LenProperties
<1>8. Closed => writing = NoWrite
  BY DEF VfsInv, LayersFit, Closed
<1> QED
  BY <1>1, <1>2, <1>3, <1>4, <1>6, <1>7, <1>8 DEF VfsInv, KindsFit

\* Outside of the dirty places the file is what the file system has.
LEMMA LogicalShown ==
  ASSUME VfsInv
  PROVE  /\ SameBut(Contents(stream), Logical, dirty)
         /\ SameBut(Logical, stream.file, dirty)
<1>1. /\ StreamFits(stream) /\ stream.file \in Seq(Byte)
      /\ Contents(stream) \in Seq(Byte) /\ Logical \in Seq(Byte)
  BY InvStream, StreamParts
<1>2. SameBut(Contents(stream), Logical, dirty)
  <2>1. CASE aBuffer = <<>>
    BY <2>1, <1>1, InvStream, SameButItself
  <2>2. CASE aBuffer # <<>>
    BY <2>2, <1>1, InvStream, OverlaySame, SameButWider DEF Logical
  <2> QED
    BY <2>1, <2>2
<1>3. SameBut(stream.file, Contents(stream), dirty)
  BY <1>1, InvStream, ContentsIs
<1> QED
  BY <1>1, <1>2, <1>3, SameButReversed, SameButTransitive

\* A method that lets the stream lose what is dirty touches no other place.
LEMMA LosesDirty ==
  ASSUME VfsInv, NEW t, NEW D, dirty \subseteq D, Becomes(stream, t, D)
  PROVE  /\ SameBut(Logical, Contents(t), D)
         /\ SameBut(Logical, t.file, D)
<1>1. /\ StreamFits(stream) /\ StreamFits(t) /\ Places(stream.at, stream.tail) \subseteq D
      /\ stream.file \in Seq(Byte) /\ t.file \in Seq(Byte)
      /\ Contents(stream) \in Seq(Byte) /\ Logical \in Seq(Byte)
      /\ Contents(t) \in Seq(Byte)
  BY InvStream, StreamParts, ContentsIs DEF Becomes
<1>2. SameBut(Logical, Contents(stream), D) /\ SameBut(Logical, stream.file, D)
  BY LogicalShown, SameButReversed, SameButWider
<1>3. SameBut(Contents(stream), Contents(t), D) /\ SameBut(stream.file, t.file, D)
  BY <1>1, BecomesShows DEF Becomes
<1> QED
  BY <1>1, <1>2, <1>3, SameButTransitive

\* ESP32FlushBuffer: the stream has what the buffer had.
LEMMA FlushedStream ==
  ASSUME VfsInv, NEW s \in Flushed
  PROVE  Becomes(stream, s, dirty) /\ Contents(s) = Logical
<1>1. CASE aBuffer = <<>>
  <2>1. s = stream
    BY <1>1 DEF Flushed
  <2> QED
    BY <2>1, <1>1, InvStream, BecomesItself
<1>2. CASE aBuffer # <<>>
  <2>1. s \in Written(stream, iBufferOfst, aBuffer)
    BY <1>2 DEF Flushed
  <2>2. /\ StreamFits(stream) /\ Places(stream.at, stream.tail) \subseteq dirty
        /\ iBufferOfst \in 0..Len(Contents(stream)) /\ aBuffer \in Seq(Byte)
        /\ Places(iBufferOfst, aBuffer) \subseteq dirty
    BY <1>2, InvStream
  <2> QED
    BY <2>1, <2>2, WrittenStream DEF Logical
<1> QED
  BY <1>1, <1>2

\* A flush that fails leaves a stream that is dirty in no new place.
LEMMA FlushBroken ==
  ASSUME VfsInv, aBuffer # <<>>, NEW t \in WriteBroken(stream, iBufferOfst, aBuffer)
  PROVE  Becomes(stream, t, dirty)
BY InvStream, BrokenStream

\* The stream of ESP32Read and ESP32Sync when all goes well, and when it does not.
LEMMA FlushedDrained ==
  ASSUME VfsInv, NEW s \in Flushed
  PROVE  /\ Becomes(stream, Drained(s), dirty)
         /\ Drained(s).file = Logical
         /\ Contents(Drained(s)) = Logical
         /\ \A t \in Spilt(s) : Becomes(stream, t, dirty)
<1>1. Becomes(stream, s, dirty) /\ Contents(s) = Logical
  BY FlushedStream
<1>2. StreamFits(stream) /\ StreamFits(s) /\ Places(s.at, s.tail) \subseteq dirty
  BY <1>1, InvStream DEF Becomes
<1>3. /\ Becomes(s, Drained(s), dirty)
      /\ Drained(s).file = Contents(s)
      /\ Contents(Drained(s)) = Contents(s)
  BY <1>2, DrainedStream
<1>4. \A t \in Spilt(s) : Becomes(s, t, dirty)
  BY <1>2, SpiltStream
<1>5. \A t \in Spilt(s) : Becomes(stream, t, dirty)
  BY <1>1, <1>2, <1>4, BecomesTransitive
<1>6. Becomes(stream, Drained(s), dirty)
  BY <1>1, <1>2, <1>3, BecomesTransitive
<1> QED
  BY <1>1, <1>3, <1>5, <1>6

\* The card stays under a stream that only becomes dirtier.
LEMMA CardStays ==
  ASSUME VfsInv, ~Closed, NEW t, NEW D, Becomes(stream, t, D), dirty \subseteq D,
         disk # Absent
  PROVE  /\ Len(disk) <= Len(t.file)
         /\ \A p \in 1..Len(disk) : p \notin D => disk[p] = t.file[p]
<1>1. disk \in Seq(Byte) /\ Len(disk) \in Nat
  BY LenProperties DEF VfsInv, VfsTypeOK
<1>2. /\ Len(disk) <= Len(stream.file)
      /\ \A p \in 1..Len(disk) : p \notin dirty => disk[p] = stream.file[p]
  BY DEF VfsInv, LayersFit
<1>3. Len(stream.file) \in Nat /\ Len(t.file) \in Nat
  BY InvStream, StreamParts DEF Becomes
<1>4. \A p \in 1..Len(disk) : p \in 1..Len(stream.file)
  BY <1>1, <1>2, <1>3
<1>5. Len(disk) <= Len(t.file)
  BY <1>1, <1>2, <1>3 DEF Becomes
<1>6. ASSUME NEW p \in 1..Len(disk), p \notin D
      PROVE  disk[p] = t.file[p]
  BY <1>2, <1>4, <1>6 DEF Becomes, SameBut
<1> QED
  BY <1>5, <1>6

\* A call of the device has worked, or one more has failed.
LEMMA FaultsType ==
  ASSUME VfsInv, Works \/ Fault
  PROVE  faults' \in 0..MaxFaults
BY VfsAssumption DEF VfsInv, VfsTypeOK, Works, Fault

\* A method of an open file that leaves nothing in the write buffer.
LEMMA EmptiesBuffer ==
  ASSUME VfsInv, ~Closed, Becomes(stream, stream', dirty'), dirty \subseteq dirty',
         dirty' \subseteq Nat, aBuffer' = <<>>, iBufferOfst' = iBufferOfst,
         writing' = NoWrite, disk' = disk, handle' = handle,
         Works \/ Fault, result' \in Result
  PROVE  VfsInv' /\ Logical' = Contents(stream')
<1>1. StreamFits(stream') /\ Places(stream'.at, stream'.tail) \subseteq dirty'
  BY DEF Becomes
<1>2. faults' \in 0..MaxFaults
  BY FaultsType
<1>3. <<>> \in Seq(Byte) /\ Len(<<>>) = 0
  BY EmptySeq
<1>4. VfsTypeOK'
  BY <1>1, <1>2, <1>3, VfsAssumption DEF VfsInv, VfsTypeOK, StreamFits
<1>5. disk # Absent =>
        /\ Len(disk) <= Len(stream'.file)
        /\ \A p \in 1..Len(disk) : p \notin dirty' => disk[p] = stream'.file[p]
  BY CardStays
<1>6. LayersFit'
  BY <1>1, <1>5 DEF LayersFit, StreamFits, Closed
<1>7. Places(iBufferOfst', aBuffer') = {}
  BY <1>3 DEF Places, VfsInv, VfsTypeOK
<1>8. KindsFit'
  BY <1>1, <1>7 DEF KindsFit, Closed, VfsInv
<1>9. Logical' = Contents(stream')
  BY DEF Logical, Overlay
<1> QED
  BY <1>4, <1>6, <1>8, <1>9 DEF VfsInv

\* Whatever closes the file, or finds it closed.
LEMMA ClosedFits ==
  ASSUME VfsInv, handle' = "none", stream' = NoStream, aBuffer' = <<>>,
         iBufferOfst' \in Nat, dirty' = {}, writing' = NoWrite,
         disk' \in Seq(Byte) \cup {Absent}, result' \in Result,
         faults' \in 0..MaxFaults
  PROVE  VfsInv'
<1>1. <<>> \in Seq(Byte) /\ Len(<<>>) = 0
  BY EmptySeq
<1>2. /\ StreamFits(stream')
      /\ Places(stream'.at, stream'.tail) \subseteq dirty'
  BY <1>1, StreamOfIs DEF NoStream
<1>3. Places(iBufferOfst', aBuffer') = {}
  <2>1. \A n \in Nat : Places(n, <<>>) = {}
    BY <1>1 DEF Places
  <2> QED
    BY <2>1
<1>4. VfsTypeOK'
  BY <1>1, <1>2, VfsAssumption DEF VfsTypeOK, StreamFits, Handles
<1>5. LayersFit'
  BY <1>2 DEF LayersFit, StreamFits, Closed
<1>6. KindsFit'
  BY <1>2, <1>3 DEF KindsFit, Closed
<1> QED
  BY <1>4, <1>5, <1>6 DEF VfsInv

\* Whatever opens it.
LEMMA OpenedFits ==
  ASSUME VfsInv, NEW kind \in Handles \ {"none"}, NEW c \in Seq(Byte),
         Opened(kind, StreamOf(c)),
         disk' = IF kind = "temp" THEN Absent ELSE c,
         dirty' = {}, Works \/ Fault
  PROVE  VfsInv' /\ Logical' = c
<1>1. <<>> \in Seq(Byte) /\ Len(<<>>) = 0 /\ Len(c) \in Nat
  BY EmptySeq, LenProperties
<1>2. /\ StreamFits(stream') /\ stream'.file = c /\ Contents(stream') = c
      /\ Places(stream'.at, stream'.tail) \subseteq dirty'
  BY StreamOfIs DEF Opened
<1>3. Places(iBufferOfst', aBuffer') = {}
  BY <1>1 DEF Places, Opened
<1>4. writing' = NoWrite
  BY InvStream DEF Opened
<1>5. faults' \in 0..MaxFaults
  BY FaultsType
<1>6. result' \in Result
  BY <1>1 DEF Opened, Returns, Result
<1>7. VfsTypeOK'
  BY <1>1, <1>2, <1>4, <1>5, <1>6, VfsAssumption DEF VfsTypeOK, StreamFits, Opened
<1>8. LayersFit'
  BY <1>1, <1>2, <1>4 DEF LayersFit, StreamFits, Opened, Closed
<1>9. KindsFit'
  BY <1>2, <1>3, <1>4, VfsAssumption DEF KindsFit, Closed, Opened
<1>10. Logical' = c
  BY <1>2 DEF Logical, Overlay, Opened
<1> QED
  BY <1>7, <1>8, <1>9, <1>10 DEF VfsInv

-----------------------------------------------------------------------------
(* ESP32Write with a write buffer.                                         *)

\* The write in progress, in a state of the invariant.
LEMMA WriteInProgress ==
  ASSUME VfsInv, writing # NoWrite
  PROVE  /\ writing.data \in Seq(Byte) /\ Len(writing.data) \in Nat
         /\ writing.at \in Nat /\ writing.done \in Nat
         /\ writing.done < Len(writing.data)
         /\ Next_i \in 0..Len(Logical)
         /\ Slice(Logical, writing.at, writing.done) = SubSeq(writing.data, 1, writing.done)
         /\ handle = "journal" /\ disk # Absent /\ result.op = "none"
         /\ writing = [at |-> writing.at, data |-> writing.data, done |-> writing.done]
<1>1. writing \in Write
  BY DEF VfsInv, VfsTypeOK
<1>2. writing.data \in Seq(Byte) /\ writing.at \in Nat /\ writing.done \in Nat
  BY <1>1 DEF Write
<1>3. Len(writing.data) \in Nat
  BY <1>2, LenProperties
<1>4. Next_i \in 0..Len(Logical)
  BY <1>2, InvStream DEF VfsInv, LayersFit, Next_i
<1>5. writing = [at |-> writing.at, data |-> writing.data, done |-> writing.done]
  BY <1>1 DEF Write
<1> QED
  BY <1>2, <1>3, <1>4, <1>5 DEF VfsInv, LayersFit, KindsFit

\* An iteration copies something, and no more than there is room for.
LEMMA CopiedIs ==
  ASSUME VfsInv, writing # NoWrite, NEW kept \in Seq(Byte), Len(kept) < BUFFERSZ
  PROVE  \E m \in 1..Len(writing.data) :
           /\ writing.done < m
           /\ Copied(kept) = SubSeq(writing.data, writing.done + 1, m)
           /\ Copied(kept) \in Seq(Byte)
           /\ Len(Copied(kept)) = m - writing.done
           /\ Len(kept) + Len(Copied(kept)) <= BUFFERSZ
<1> DEFINE d == writing.data
           n == writing.done
           k == IF BUFFERSZ - Len(kept) < Len(d) - n THEN BUFFERSZ - Len(kept) ELSE Len(d) - n
           m == n + k
<1>1. d \in Seq(Byte) /\ Len(d) \in Nat /\ n \in Nat /\ n < Len(d)
  BY WriteInProgress
<1>2. Len(kept) \in Nat /\ BUFFERSZ \in Nat
  BY LenProperties, VfsAssumption
<1>3. Copied(kept) = SubSeq(d, n + 1, m)
  BY DEF Copied
<1> HIDE DEF d, n
<1>4. m \in 1..Len(d) /\ n < m /\ m - n <= BUFFERSZ - Len(kept)
  BY <1>1, <1>2
<1> HIDE DEF m
<1>5. n \in Nat /\ m \in Nat /\ n <= m /\ m <= Len(d)
  BY <1>1, <1>4
<1>6. SubSeq(d, n + 1, m) \in Seq(Byte) /\ Len(SubSeq(d, n + 1, m)) = m - n
  BY <1>1, <1>5, PieceIs
<1>7. Len(kept) + (m - n) <= BUFFERSZ
  BY <1>2, <1>4, <1>5
<1>8. /\ m \in 1..Len(d) /\ n < m
      /\ Copied(kept) = SubSeq(d, n + 1, m)
      /\ Copied(kept) \in Seq(Byte)
      /\ Len(Copied(kept)) = m - n
      /\ Len(kept) + Len(Copied(kept)) <= BUFFERSZ
  BY <1>3, <1>4, <1>6, <1>7
<1> QED
  BY <1>8 DEF d, n

\* What an iteration keeps in the buffer, and leaves for the stream.
KeptBytes == IF MustFlush THEN <<>> ELSE aBuffer

\* The buffers after an iteration: they show the bytes that it has copied.
LEMMA CopyShows ==
  ASSUME VfsInv, CopyOn
  PROVE  LET b == Copied(KeptBytes)
         IN  /\ StreamFits(stream') /\ Becomes(stream, stream', dirty)
             /\ KeptBytes \in Seq(Byte) /\ Len(KeptBytes) < BUFFERSZ
             /\ b \in Seq(Byte)
             /\ iBufferOfst' \in 0..Len(Contents(stream'))
             /\ aBuffer' \in Seq(Byte) /\ Len(aBuffer') = Len(KeptBytes) + Len(b)
             /\ Places(iBufferOfst', aBuffer') \subseteq dirty \cup Places(Next_i, b)
             /\ Logical' = Overlay(Logical, Next_i, b)
<1> DEFINE b == Copied(KeptBytes)
<1>1. /\ writing # NoWrite
      /\ IF MustFlush THEN stream' \in Flushed ELSE UNCHANGED stream
      /\ iBufferOfst' = Next_i - Len(KeptBytes)
      /\ aBuffer' = KeptBytes \o b
  BY DEF CopyOn, KeptBytes, BufferStart
<1>2. /\ Next_i \in 0..Len(Logical) /\ Next_i \in Nat
  BY <1>1, WriteInProgress, InvStream
<1>3. aBuffer \in Seq(Byte) /\ Len(aBuffer) \in Nat /\ Len(aBuffer) <= BUFFERSZ
      /\ iBufferOfst \in Nat /\ BUFFERSZ \in Nat \ {0}
  BY VfsAssumption, LenProperties DEF VfsInv, VfsTypeOK
<1>4. <<>> \in Seq(Byte) /\ Len(<<>>) = 0
  BY EmptySeq
<1>5. KeptBytes \in Seq(Byte) /\ Len(KeptBytes) < BUFFERSZ /\ Len(KeptBytes) \in Nat
  BY <1>3, <1>4 DEF KeptBytes, MustFlush
<1>6. b \in Seq(Byte) /\ Len(b) \in Nat
  BY <1>1, <1>5, CopiedIs, LenProperties
<1> HIDE DEF b
<1>7. aBuffer' \in Seq(Byte) /\ Len(aBuffer') = Len(KeptBytes) + Len(b)
  BY <1>1, <1>5, <1>6, ConcatProperties
<1>8. CASE MustFlush
  <2>1. KeptBytes = <<>> /\ aBuffer' = b /\ iBufferOfst' = Next_i
    BY <1>1, <1>2, <1>4, <1>6, <1>8, ConcatEmptySeq DEF KeptBytes
  <2>2. Becomes(stream, stream', dirty) /\ Contents(stream') = Logical
    BY <1>1, <1>8, FlushedStream
  <2>3. Logical' = Overlay(Logical, Next_i, b)
    BY <2>1, <2>2 DEF Logical
  <2>4. iBufferOfst' \in 0..Len(Contents(stream'))
    BY <2>1, <2>2, <1>2
  <2> QED
    BY <1>5, <1>6, <1>7, <2>1, <2>2, <2>3, <2>4 DEF Becomes, b
<1>9. CASE ~MustFlush
  <2>1. KeptBytes = aBuffer /\ stream' = stream
    BY <1>1, <1>9 DEF KeptBytes
  <2>2. iBufferOfst + Len(aBuffer) = Next_i /\ iBufferOfst' = iBufferOfst
    <3>1. iBufferOfst + Len(aBuffer) = Next_i
      BY <1>9 DEF MustFlush
    <3> QED
      BY <3>1, <2>1, <1>1, <1>3
  <2>3. Becomes(stream, stream', dirty) /\ StreamFits(stream')
    BY <2>1, InvStream, BecomesItself
  <2>4. iBufferOfst \in 0..Len(Contents(stream))
    <3>1. CASE aBuffer = <<>>
      BY <3>1, <2>2, <1>2, <1>3, <1>4, InvStream
    <3> QED
      BY <3>1, InvStream
  <2>5. Logical' = Overlay(Contents(stream), iBufferOfst, aBuffer \o b)
    BY <1>1, <2>1, <2>2 DEF Logical
  <2>6. Contents(stream) \in Seq(Byte)
    BY InvStream
  <2>7. Overlay(Overlay(Contents(stream), iBufferOfst, aBuffer),
                iBufferOfst + Len(aBuffer), b)
          = Overlay(Contents(stream), iBufferOfst, aBuffer \o b)
    BY <1>3, <1>6, <2>4, <2>6, OverlayJoin
  <2>8. Logical' = Overlay(Logical, Next_i, b)
    BY <2>2, <2>5, <2>7 DEF Logical
  <2>9. Places(iBufferOfst', aBuffer') \subseteq dirty \cup Places(Next_i, b)
    <3>1. Places(iBufferOfst, aBuffer) \subseteq dirty
      BY DEF VfsInv, KindsFit
    <3>2. Len(aBuffer') = Len(aBuffer) + Len(b)
      BY <1>7, <2>1
    <3>3. \A p \in Places(iBufferOfst, aBuffer') :
            p \in Places(iBufferOfst, aBuffer) \/ p \in Places(Next_i, b)
      BY <1>2, <1>3, <1>6, <2>2, <3>2 DEF Places
    <3> QED
      BY <2>2, <3>1, <3>3
  <2> QED
    BY <1>5, <1>6, <1>7, <2>1, <2>2, <2>3, <2>4, <2>8, <2>9 DEF b
<1> QED
  BY <1>8, <1>9

LEMMA CopyOnStep ==
  ASSUME VfsInv, CopyOn
  PROVE  /\ VfsInv'
         /\ Logical' = Overlay(Logical, Next_i, Copied(KeptBytes))
         /\ Copied(KeptBytes) \in Seq(Byte) /\ Len(Copied(KeptBytes)) \in Nat \ {0}
         /\ dirty' = dirty \cup Places(Next_i, Copied(KeptBytes))
         /\ result'.op \in {"none", "write"}
         /\ result'.op = "write" => Logical' = Overlay(Logical, writing.at, writing.data)
<1> DEFINE b == Copied(KeptBytes)
           d == writing.data
           n == writing.done
<1>1. /\ writing # NoWrite
      /\ dirty' = dirty \cup Places(Next_i, b)
      /\ IF n + Len(b) < Len(d)
           THEN writing' = [writing EXCEPT !.done = n + Len(b)] /\ UNCHANGED result
           ELSE writing' = NoWrite /\ Returns("write", "ok", writing.at, d)
      /\ UNCHANGED <<disk, handle, faults>>
  BY DEF CopyOn, KeptBytes
<1>2. /\ StreamFits(stream') /\ Becomes(stream, stream', dirty)
      /\ KeptBytes \in Seq(Byte) /\ Len(KeptBytes) < BUFFERSZ
      /\ b \in Seq(Byte)
      /\ iBufferOfst' \in 0..Len(Contents(stream'))
      /\ aBuffer' \in Seq(Byte) /\ Len(aBuffer') = Len(KeptBytes) + Len(b)
      /\ Places(iBufferOfst', aBuffer') \subseteq dirty \cup Places(Next_i, b)
      /\ Logical' = Overlay(Logical, Next_i, b)
  BY CopyShows
<1>3. /\ d \in Seq(Byte) /\ Len(d) \in Nat
      /\ writing.at \in Nat /\ n \in Nat
      /\ n < Len(d)
      /\ Next_i = writing.at + n /\ Next_i \in 0..Len(Logical)
      /\ Slice(Logical, writing.at, n) = SubSeq(d, 1, n)
      /\ handle = "journal" /\ disk # Absent /\ result.op = "none"
      /\ writing = [at |-> writing.at, data |-> d, done |-> n]
  BY <1>1, WriteInProgress DEF Next_i
<1>4. PICK m \in 1..Len(d) :
        /\ n < m
        /\ b = SubSeq(d, n + 1, m)
        /\ Len(b) = m - n
        /\ Len(KeptBytes) + Len(b) <= BUFFERSZ
  BY <1>1, <1>2, CopiedIs
<1> HIDE DEF b, d, n
<1>5. m \in Nat /\ n <= m /\ m <= Len(d) /\ n + Len(b) = m /\ Len(b) \in Nat \ {0}
  <2>1. n \in Nat /\ Len(d) \in Nat
    BY <1>3
  <2>2. m \in Nat /\ m <= Len(d) /\ n < m
    BY <1>4, <2>1
  <2>3. Len(b) = m - n
    BY <1>4
  <2> QED
    BY <2>1, <2>2, <2>3
<1>6. Logical \in Seq(Byte) /\ Len(Logical) \in Nat
  BY InvStream
<1>7. /\ Logical' = Overlay(Logical, writing.at, SubSeq(d, 1, m))
      /\ Slice(Logical', writing.at, m) = SubSeq(d, 1, m)
      /\ writing.at + m <= Len(Logical')
  <2>1. /\ writing.at + n <= Len(Logical)
        /\ d \in Seq(Byte) /\ writing.at \in Nat /\ n \in Nat
        /\ Slice(Logical, writing.at, n) = SubSeq(d, 1, n)
        /\ m \in Nat /\ n <= m /\ m <= Len(d) /\ Logical \in Seq(Byte)
    BY <1>3, <1>5, <1>6
  <2> DEFINE x == Overlay(Logical, writing.at + n, SubSeq(d, n + 1, m))
  <2>2. /\ x = Overlay(Logical, writing.at, SubSeq(d, 1, m))
        /\ Slice(x, writing.at, m) = SubSeq(d, 1, m)
        /\ writing.at + m <= Len(x)
    BY <2>1, OverlayContinues, Zenon
  <2>3. x = Logical'
    BY <1>2, <1>3, <1>4
  <2> QED
    BY <2>2, <2>3
<1>8. \/ /\ m < Len(d)
         /\ writing' = [at |-> writing.at, data |-> d, done |-> m]
         /\ UNCHANGED result
      \/ /\ m = Len(d)
         /\ writing' = NoWrite /\ Returns("write", "ok", writing.at, d)
  BY <1>1, <1>3, <1>5
<1>9. /\ stream'.at <= Len(stream'.file)
      /\ aBuffer' # <<>> => handle' = "journal" /\ iBufferOfst' <= Len(Contents(stream'))
      /\ Len(disk') <= Len(stream'.file)
      /\ \A p \in 1..Len(disk') : p \notin dirty' => disk'[p] = stream'.file[p]
  <2>1. ~Closed /\ dirty \subseteq dirty' /\ disk' = disk /\ handle' = "journal"
    BY <1>1, <1>3 DEF Closed
  <2>2. Becomes(stream, stream', dirty')
    BY <1>2, <2>1, SameButWider DEF Becomes
  <2>3. /\ Len(disk) <= Len(stream'.file)
        /\ \A p \in 1..Len(disk) : p \notin dirty' => disk[p] = stream'.file[p]
    BY <2>1, <2>2, <1>3, CardStays
  <2>4. Contents(stream') \in Seq(Byte) /\ Len(Contents(stream')) \in Nat
    BY <1>2, ContentsIs
  <2> QED
    BY <2>1, <2>3, <2>4, <1>2 DEF StreamFits
<1>10. writing' # NoWrite =>
         /\ handle' = "journal"
         /\ writing'.done < Len(writing'.data)
         /\ Next_i' <= Len(Logical')
         /\ Slice(Logical', writing'.at, writing'.done)
              = SubSeq(writing'.data, 1, writing'.done)
         /\ result'.op = "none"
         /\ writing' \in Write
  <2> SUFFICES ASSUME writing' # NoWrite
               PROVE  /\ handle' = "journal"
                      /\ writing'.done < Len(writing'.data)
                      /\ Next_i' <= Len(Logical')
                      /\ Slice(Logical', writing'.at, writing'.done)
                           = SubSeq(writing'.data, 1, writing'.done)
                      /\ result'.op = "none"
                      /\ writing' \in Write
    OBVIOUS
  <2>1. /\ m < Len(d)
        /\ writing' = [at |-> writing.at, data |-> d, done |-> m]
        /\ UNCHANGED result
    BY <1>8
  <2>2. writing'.at = writing.at /\ writing'.data = d /\ writing'.done = m
    BY <2>1
  <2>3. Next_i' = writing.at + m
    BY <2>2 DEF Next_i
  <2>4. writing' \in Write
    BY <2>1, <1>3, <1>5 DEF Write
  <2> QED
    BY <2>1, <2>2, <2>3, <2>4, <1>1, <1>3, <1>7
<1>11. LayersFit'
  BY <1>9, <1>10 DEF LayersFit
<1>12. result' \in Result /\ result'.op \in {"none", "write"}
  <2>1. CASE UNCHANGED result
    BY <2>1, <1>3 DEF VfsInv, VfsTypeOK
  <2>2. CASE Returns("write", "ok", writing.at, d)
    BY <2>2, <1>3 DEF Returns, Result
  <2> QED
    BY <2>1, <2>2, <1>8
<1>13. VfsTypeOK'
  <2>1. Places(Next_i, b) \subseteq Nat
    BY <1>3, <1>5 DEF Places
  <2>2. writing' \in Write \cup {NoWrite}
    BY <1>10
  <2>3. iBufferOfst' \in Nat
    BY <1>2
  <2>4. stream' \in Stream
    BY <1>2 DEF StreamFits
  <2> QED
    BY <2>1, <2>2, <2>3, <2>4, <1>1, <1>2, <1>4, <1>12 DEF VfsInv, VfsTypeOK
<1>14. KindsFit'
  <2>1. Places(stream'.at, stream'.tail) \subseteq dirty'
    BY <1>1, <1>2 DEF Becomes
  <2> QED
    BY <2>1, <1>1, <1>2, <1>3, <1>10 DEF KindsFit, Closed
<1>15. result'.op = "write" => Logical' = Overlay(Logical, writing.at, d)
  <2> SUFFICES ASSUME result'.op = "write"
               PROVE  Logical' = Overlay(Logical, writing.at, d)
    OBVIOUS
  <2>1. m = Len(d)
    BY <1>3, <1>8
  <2> QED
    BY <2>1, <1>3, <1>7, SubSeqFull
<1> QED
  BY <1>1, <1>2, <1>5, <1>11, <1>12, <1>13, <1>14, <1>15 DEF VfsInv, b, d

-----------------------------------------------------------------------------
(* The abstract file.                                                      *)

\* The file as SQLite sees it: what SqliteFile calls its content.
Content == IF Closed THEN disk ELSE Logical

LEMMA ContentClosed ==
  /\ Closed => Content = disk
  /\ Closed' => Content' = disk'
  /\ ~Closed => Content = Logical
  /\ ~Closed' => Content' = Logical'
BY DEF Content

LEMMA IsOutcome ==
  /\ Works => File!Works
  /\ Fault => File!Fails
  /\ \A op, rc : (result'.op = op /\ result'.rc = rc) => File!Returned(op, rc)
BY DEF Works, Fault, File!Works, File!Fails, File!Returned

LEMMA IsSame ==
  ASSUME Content' = Content, disk' = disk, dirty' = dirty, writing' = writing
  PROVE  File!Same
BY DEF File!Same, Content

LEMMA IsHarm ==
  ASSUME Content # Absent, Content' # Absent, SameBut(Content, Content', dirty'),
         disk' = disk
  PROVE  File!Harms
<1>1. File!SameBut(Content, Content', dirty')
  BY DEF SameBut, File!SameBut
<1> QED
  BY <1>1 DEF File!Harms, Content

\* Bytes that go into the file at a place that it has, or right behind its end.
LEMMA IsPut ==
  ASSUME Content # Absent, NEW at, NEW b, Content' = Overlay(Content, at, b),
         dirty' = dirty \cup Places(at, b), disk' = disk, Works
  PROVE  File!Put(at, b)
<1>1. Content' = File!Overlay(Content, at, b)
  BY DEF Overlay, File!Overlay
<1>2. dirty' = dirty \cup File!Places(at, b)
  BY DEF Places, File!Places
<1> QED
  BY <1>1, <1>2, IsOutcome DEF File!Put, Content

LEMMA IsSettled ==
  ASSUME disk' = IF disk = Absent THEN Absent ELSE Content, dirty' = {},
         writing' = writing
  PROVE  File!Settled
BY DEF File!Settled, Content

LEMMA IsSurvivor ==
  ASSUME NEW c,
         IF disk = Absent
           THEN c = Absent
           ELSE /\ c \in Seq(Byte) /\ Len(c) = Len(disk)
                /\ \A p \in 1..Len(c) : p \notin dirty => c[p] = disk[p]
  PROVE  File!Survives(c)
BY Zenon DEF File!Survives

\* A call on an open file that fails.
LEMMA IsFailedCall ==
  ASSUME File!Harms, Fault, dirty' = dirty, writing' = writing,
         \/ result'.op = "read"
         \/ result'.op \in {"sync", "size"} /\ result'.rc = "error"
  PROVE  File!Read \/ File!Sync \/ File!Size
<1>1. CASE result'.op = "read"
  BY <1>1, IsOutcome DEF File!Read
<1>2. CASE result'.op = "sync" /\ result'.rc = "error"
  BY <1>2, IsOutcome DEF File!Sync
<1>3. CASE result'.op = "size" /\ result'.rc = "error"
  BY <1>3, IsOutcome DEF File!Size
<1> QED
  BY <1>1, <1>2, <1>3

\* What a call returns is well formed.
LEMMA Returned ==
  ASSUME NEW op \in {"none", "open", "write", "read", "sync", "size", "truncate",
                     "close", "delete", "access"},
         NEW rc \in {"ok", "short", "error", "crash"}, NEW at \in Nat, NEW data \in Seq(Byte),
         Returns(op, rc, at, data)
  PROVE  /\ result' \in Result
         /\ result'.op = op /\ result'.rc = rc /\ result'.at = at /\ result'.data = data
BY DEF Returns, Result

\* In an open file, what is shown before and after.
LEMMA StaysOpen ==
  ASSUME ~Closed, handle' = handle, Logical' = Logical
  PROVE  Content' = Content
BY DEF Closed, Content

\* An open file is there.
LEMMA OpenContent ==
  ASSUME VfsInv, ~Closed
  PROVE  Content = Logical /\ Content # Absent /\ Content \in Seq(Byte)
BY InvStream, VfsAssumption DEF Content

-----------------------------------------------------------------------------
(* The steps of an open file.                                              *)

\* A call that fails and leaves nothing in the write buffer.
LEMMA FailedCall ==
  ASSUME VfsInv, ~Closed, Becomes(stream, stream', dirty'), dirty \subseteq dirty',
         dirty' \subseteq Nat, aBuffer' = <<>>, iBufferOfst' = iBufferOfst,
         writing' = NoWrite, disk' = disk, handle' = handle,
         Fault, result' \in Result
  PROVE  VfsInv' /\ File!Harms
<1>1. VfsInv' /\ Logical' = Contents(stream')
  BY EmptiesBuffer
<1>2. SameBut(Logical, Logical', dirty')
  BY <1>1, LosesDirty
<1>3. Contents(stream') \in Seq(Byte)
  BY ContentsIs DEF Becomes
<1>4. /\ Content = Logical /\ Content # Absent
      /\ Content' = Logical' /\ Content' # Absent
  BY <1>1, <1>3, OpenContent, VfsAssumption DEF Content, Closed
<1> QED
  BY <1>1, <1>2, <1>4, IsHarm

LEMMA FlushErrorStep ==
  ASSUME VfsInv, NEW op \in {"read", "sync", "size"}, FlushError(op)
  PROVE  VfsInv' /\ (File!Read \/ File!Sync \/ File!Size) /\ result'.rc = "error"
<1>1. aBuffer # <<>> /\ Fault /\ stream' \in WriteBroken(stream, iBufferOfst, aBuffer)
  BY DEF FlushError, FlushFails
<1>2. Becomes(stream, stream', dirty)
  BY <1>1, FlushBroken
<1>3. result' \in Result /\ result'.op = op /\ result'.rc = "error"
  BY Returned, EmptySeq DEF FlushError
<1>4. /\ ~Closed /\ aBuffer' = <<>> /\ iBufferOfst' = iBufferOfst
      /\ writing = NoWrite /\ writing' = NoWrite
      /\ disk' = disk /\ handle' = handle /\ dirty' = dirty
  BY DEF FlushError, FlushFails, Ready, Closed
<1>5. dirty' \subseteq Nat
  BY <1>4 DEF VfsInv, VfsTypeOK
<1>6. VfsInv' /\ File!Harms
  BY <1>1, <1>2, <1>3, <1>4, <1>5, FailedCall
<1> QED
  BY <1>1, <1>3, <1>4, <1>6, IsFailedCall

LEMMA CopyFailsStep ==
  ASSUME VfsInv, CopyFails
  PROVE  VfsInv' /\ File!WriteFails /\ result'.rc = "error"
<1>1. aBuffer # <<>> /\ Fault /\ stream' \in WriteBroken(stream, iBufferOfst, aBuffer)
  BY DEF CopyFails, FlushFails
<1>2. Becomes(stream, stream', dirty)
  BY <1>1, FlushBroken
<1>3. /\ result' \in Result /\ result'.op = "write" /\ result'.rc = "error"
      /\ result'.at = writing.at /\ result'.data = writing.data
  BY WriteInProgress, Returned DEF CopyFails
<1>4. /\ ~Closed /\ aBuffer' = <<>> /\ iBufferOfst' = iBufferOfst
      /\ writing' = NoWrite /\ disk' = disk /\ handle' = handle /\ dirty' = dirty
  BY WriteInProgress DEF CopyFails, FlushFails, Closed
<1>5. dirty' \subseteq Nat
  BY <1>4 DEF VfsInv, VfsTypeOK
<1>6. VfsInv' /\ File!Harms
  BY <1>1, <1>2, <1>3, <1>4, <1>5, FailedCall
<1>7. File!WriteFails
  BY <1>1, <1>3, <1>4, <1>6, IsOutcome DEF File!WriteFails
<1> QED
  BY <1>3, <1>6, <1>7

LEMMA TextsAre ==
  ASSUME NEW b \in Texts
  PROVE  b \in Seq(Byte) /\ Len(b) \in Nat \ {0}
<1>1. PICK n \in 1..MaxSize : b \in [1..n -> Byte]
  BY DEF Texts
<1>2. n \in Nat \ {0}
  BY VfsAssumption
<1>3. b \in Seq(Byte)
  BY <1>1, <1>2, SeqDef
<1> QED
  BY <1>1, <1>2, <1>3, LenProperties

LEMMA DirectWriteStep ==
  ASSUME VfsInv, NEW at \in 0..MaxSize, NEW b \in Texts, DirectWrite(at, b)
  PROVE  VfsInv' /\ (File!WriteAtOnce \/ File!WriteFails) /\ writing = NoWrite
<1>1. b \in Seq(Byte) /\ Len(b) \in Nat \ {0}
  BY TextsAre
<1>2. /\ ~Closed /\ writing = NoWrite /\ at <= Len(Logical) /\ at \in Nat
      /\ handle \notin {"none", "journal"}
  BY VfsAssumption DEF DirectWrite, Writable, Ready, Closed
<1>3. aBuffer = <<>>
  BY <1>2 DEF VfsInv, LayersFit
<1>4. at \in 0..Len(Contents(stream)) /\ Logical = Contents(stream) /\ Logical \in Seq(Byte)
  BY <1>2, <1>3, InvStream
<1>5. /\ UNCHANGED <<disk, handle, aBuffer, iBufferOfst, writing>>
      /\ dirty' = dirty \cup Places(at, b)
  BY DEF DirectWrite
<1>6. dirty \subseteq dirty' /\ Places(at, b) \subseteq dirty' /\ dirty' \subseteq Nat
  <2>1. Places(at, b) \subseteq Nat
    BY <1>1, <1>2 DEF Places
  <2> QED
    BY <1>5, <2>1 DEF VfsInv, VfsTypeOK
<1>7. StreamFits(stream) /\ Places(stream.at, stream.tail) \subseteq dirty'
  BY <1>6, InvStream
<1>8. CASE /\ Works /\ stream' \in Written(stream, at, b)
           /\ Returns("write", "ok", at, b)
  <2>1. Becomes(stream, stream', dirty') /\ Contents(stream') = Overlay(Contents(stream), at, b)
    <3>1. stream' \in Written(stream, at, b)
      BY <1>8
    <3> QED
      BY <3>1, <1>1, <1>4, <1>6, <1>7, WrittenStream
  <2>2. /\ result' \in Result /\ result'.op = "write" /\ result'.rc = "ok"
        /\ result'.at = at /\ result'.data = b
    BY <1>1, <1>2, <1>8, Returned
  <2>3. VfsInv' /\ Logical' = Contents(stream')
    BY <1>2, <1>3, <1>5, <1>6, <1>8, <2>1, <2>2, EmptiesBuffer
  <2>4. Content = Logical /\ Content # Absent /\ Content' = Logical'
    BY <1>2, <1>5, OpenContent DEF Content, Closed
  <2>5. File!WriteAtOnce
    <3>1. File!Put(result'.at, result'.data)
      BY <1>4, <1>5, <1>8, <2>1, <2>2, <2>3, <2>4, IsPut
    <3> QED
      BY <1>5, <2>2, <3>1, IsOutcome DEF File!WriteAtOnce
  <2> QED
    BY <1>2, <2>3, <2>5
<1>9. CASE /\ Fault /\ stream' \in WriteBroken(stream, at, b)
           /\ Returns("write", "error", at, b)
  <2>1. Becomes(stream, stream', dirty')
    BY <1>1, <1>4, <1>6, <1>7, <1>9, BrokenStream
  <2>2. /\ result' \in Result /\ result'.op = "write" /\ result'.rc = "error"
        /\ result'.at = at /\ result'.data = b
    BY <1>1, <1>2, <1>9, Returned
  <2>3. VfsInv' /\ File!Harms
    BY <1>2, <1>3, <1>5, <1>6, <1>9, <2>1, <2>2, FailedCall
  <2>4. dirty' = dirty \cup File!Places(result'.at, result'.data)
    BY <1>5, <2>2 DEF Places, File!Places
  <2>5. File!WriteFails
    BY <1>2, <1>5, <1>9, <2>2, <2>3, <2>4, IsOutcome DEF File!WriteFails
  <2> QED
    BY <1>2, <2>3, <2>5
<1> QED
  BY <1>8, <1>9 DEF DirectWrite

\* An iteration is a piece of the write, and the last one its end.
LEMMA CopyOnPuts ==
  ASSUME VfsInv, CopyOn
  PROVE  File!WritePiece
<1> DEFINE b == Copied(KeptBytes)
           d == writing.data
           k == writing.done
<1>1. /\ Logical' = Overlay(Logical, Next_i, b)
      /\ dirty' = dirty \cup Places(Next_i, b)
  BY CopyOnStep
<1>2. /\ writing # NoWrite /\ UNCHANGED <<disk, handle, faults>>
      /\ IF k + Len(b) < Len(d)
           THEN writing' = [writing EXCEPT !.done = k + Len(b)] /\ UNCHANGED result
           ELSE writing' = NoWrite /\ Returns("write", "ok", writing.at, d)
  BY DEF CopyOn, KeptBytes
<1>3. d \in Seq(Byte) /\ Len(d) \in Nat /\ k \in Nat /\ writing.at \in Nat /\ ~Closed
  BY <1>2, WriteInProgress, InvStream DEF Closed
<1>4. PICK m \in 1..Len(d) :
        k < m /\ b = SubSeq(d, k + 1, m) /\ b \in Seq(Byte) /\ Len(b) = m - k
  BY <1>2, CopyShows, CopiedIs
<1>5. Len(b) \in 1..(Len(d) - k) /\ k + Len(b) = m
  <2> HIDE DEF b, d, k
  <2>1. Len(d) \in Nat /\ k \in Nat
    BY <1>3
  <2>2. m \in Nat /\ m <= Len(d) /\ k < m /\ Len(b) = m - k
    BY <1>4, <2>1
  <2> QED
    BY <2>1, <2>2
<1>6. Content = Logical /\ Content # Absent /\ Content' = Logical'
  BY <1>2, <1>3, OpenContent DEF Content, Closed
<1>7. File!Put(writing.at + k, b)
  BY <1>1, <1>2, <1>6, IsPut DEF Next_i, Works
<1>8. b = File!Piece(Len(b))
  BY <1>4, <1>5 DEF File!Piece
<1>9. IF k + Len(b) < Len(d)
        THEN writing' = [writing EXCEPT !.done = @ + Len(b)] /\ UNCHANGED result
        ELSE /\ writing' = NoWrite
             /\ File!Returned("write", "ok")
             /\ result'.at = writing.at /\ result'.data = d
  BY <1>2, <1>3, Returned, IsOutcome
<1> HIDE DEF b
<1> QED
  BY <1>2, <1>5, <1>7, <1>8, <1>9 DEF File!WritePiece

\* The write buffer stays as it is.
LEMMA BufferStays ==
  ASSUME VfsInv, ~Closed, result' \in Result,
         UNCHANGED <<disk, stream, handle, aBuffer, iBufferOfst, dirty, faults>>,
         writing' = NoWrite \/ /\ handle = "journal"
                               /\ writing' \in Write
                               /\ writing'.done = 0
                               /\ Len(writing'.data) > 0
                               /\ writing'.at <= Len(Logical)
                               /\ result'.op = "none"
  PROVE  VfsInv' /\ Logical' = Logical /\ Content' = Content
<1>1. Logical' = Logical /\ Contents(stream') = Contents(stream)
  BY DEF Logical, Contents
<1>2. VfsTypeOK'
  BY DEF VfsInv, VfsTypeOK
<1>3. writing' # NoWrite =>
        /\ handle' = "journal"
        /\ writing'.done < Len(writing'.data)
        /\ Next_i' <= Len(Logical')
        /\ Slice(Logical', writing'.at, writing'.done)
             = SubSeq(writing'.data, 1, writing'.done)
  <2> SUFFICES ASSUME writing' # NoWrite
               PROVE  /\ handle' = "journal"
                      /\ writing'.done < Len(writing'.data)
                      /\ Next_i' <= Len(Logical')
                      /\ Slice(Logical', writing'.at, writing'.done)
                           = SubSeq(writing'.data, 1, writing'.done)
    OBVIOUS
  <2>1. writing'.done = 0 /\ writing'.at \in Nat
    BY DEF Write
  <2>2. Next_i' = writing'.at
    BY <2>1 DEF Next_i
  <2>3. SubSeq(writing'.data, 1, 0) = <<>>
    BY SubSeqEmpty
  <2>4. Slice(Logical', writing'.at, 0) = <<>>
    <3>1. \A n \in Nat : SubSeq(Logical', n + 1, n + 0) = <<>>
      BY SubSeqEmpty
    <3> QED
      BY <2>1, <3>1 DEF Slice
  <2> QED
    BY <1>1, <2>1, <2>2, <2>3, <2>4
<1>4. LayersFit'
  BY <1>1, <1>3 DEF VfsInv, LayersFit, Closed
<1>5. KindsFit'
  BY DEF VfsInv, KindsFit, Closed
<1> QED
  BY <1>1, <1>2, <1>4, <1>5, StaysOpen DEF VfsInv

LEMMA BufferedWriteStep ==
  ASSUME VfsInv, NEW at \in 0..MaxSize, NEW b \in Texts, BufferedWrite(at, b)
  PROVE  VfsInv' /\ File!Begin /\ result'.op = "none"
<1>1. b \in Seq(Byte) /\ Len(b) > 0
  BY TextsAre
<1>2. <<>> \in Seq(Byte)
  BY EmptySeq
<1>3. result' \in Result /\ result'.op = "none" /\ result'.rc = "ok"
  BY <1>2, Returned DEF BufferedWrite, Nothing
<1>4. /\ writing = NoWrite
      /\ ~Closed /\ handle = "journal" /\ at \in Nat /\ at <= Len(Logical)
      /\ writing' = [at |-> at, data |-> b, done |-> 0]
      /\ UNCHANGED <<disk, stream, handle, aBuffer, iBufferOfst, dirty, faults>>
  BY VfsAssumption DEF BufferedWrite, Writable, Ready, Closed
<1>5. /\ writing' \in Write /\ writing'.done = 0 /\ Len(writing'.data) > 0
      /\ writing'.at <= Len(Logical)
  BY <1>1, <1>4 DEF Write
<1>6. VfsInv' /\ Content' = Content
  BY <1>3, <1>4, <1>5, BufferStays
<1>7. File!Begin
  BY <1>3, <1>4, <1>5, <1>6, IsOutcome, VfsAssumption DEF File!Begin, Works, Content
<1> QED
  BY <1>3, <1>6, <1>7

LEMMA TruncateStep ==
  ASSUME VfsInv, Truncate
  PROVE  VfsInv' /\ File!Truncate /\ result'.op = "truncate"
<1>1. <<>> \in Seq(Byte)
  BY EmptySeq
<1>2. result' \in Result /\ result'.op = "truncate" /\ result'.rc = "ok"
  BY <1>1, Returned DEF Truncate
<1>3. /\ ~Closed /\ writing' = NoWrite /\ writing' = writing
      /\ UNCHANGED <<disk, stream, handle, aBuffer, iBufferOfst, dirty, faults>>
  BY DEF Truncate, Ready, Closed
<1>4. VfsInv' /\ Content' = Content
  BY <1>2, <1>3, BufferStays
<1> QED
  BY <1>2, <1>3, <1>4, IsSame, IsOutcome DEF File!Truncate, Works

\* The bytes that a read of n behind place `at` finds in the content c.
LEMMA ReadIs ==
  ASSUME NEW c \in Seq(Byte), NEW at \in Nat, NEW n \in Nat
  PROVE  LET there == Len(c) - at
             got == IF there < 0 THEN 0 ELSE IF there < n THEN there ELSE n
         IN  /\ Slice(c, at, got) \in Seq(Byte)
             /\ Len(Slice(c, at, got)) = got
             /\ got # n => at + got >= Len(c)
<1> DEFINE there == Len(c) - at
           got == IF there < 0 THEN 0 ELSE IF there < n THEN there ELSE n
<1>1. Len(c) \in Nat
  BY LenProperties
<1>2. got \in Nat /\ (got = 0 \/ at + got <= Len(c)) /\ (got # n => at + got >= Len(c))
  BY <1>1
<1> HIDE DEF got
<1>3. Slice(c, at, got) \in Seq(Byte) /\ Len(Slice(c, at, got)) = got
  BY <1>2, SliceIs
<1> QED
  BY <1>2, <1>3 DEF got

LEMMA ReadStep ==
  ASSUME VfsInv, NEW at \in 0..MaxSize, NEW n \in 1..MaxRead, Read(at, n)
  PROVE  VfsInv' /\ File!Read /\ result'.op = "read"
<1> DEFINE there == Len(stream'.file) - at
           got == IF there < 0 THEN 0 ELSE IF there < n THEN there ELSE n
           data == Slice(stream'.file, at, got)
<1>1. PICK s \in Flushed : stream' = Drained(s)
  BY DEF Read
<1>2. Becomes(stream, stream', dirty) /\ stream'.file = Logical /\ Contents(stream') = Logical
  BY <1>1, FlushedDrained
<1>3. at \in Nat /\ n \in Nat /\ stream'.file \in Seq(Byte)
  BY <1>2, VfsAssumption, InvStream
<1>4. /\ data \in Seq(Byte) /\ Len(data) = got
      /\ got # n => at + got >= Len(stream'.file)
  BY <1>3, ReadIs
<1>5. Returns("read", IF got = n THEN "ok" ELSE "short", at, data)
  BY DEF Read
<1>6. data = Slice(stream'.file, at, Len(data))
  BY <1>4
<1> HIDE DEF got, data
<1>7. /\ result' \in Result /\ result'.op = "read" /\ result'.at = at /\ result'.data = data
      /\ result'.rc \in {"ok", "short"} /\ (result'.rc = "short" => got # n)
  BY <1>3, <1>4, <1>5 DEF Returns, Result
<1>8. /\ ~Closed /\ aBuffer' = <<>> /\ iBufferOfst' = iBufferOfst
      /\ writing' = NoWrite /\ writing' = writing
      /\ disk' = disk /\ handle' = handle /\ dirty' = dirty /\ Works
  BY DEF Read, Ready, Closed, Works
<1>9. dirty' \subseteq Nat
  BY <1>8 DEF VfsInv, VfsTypeOK
<1>10. VfsInv' /\ Logical' = Contents(stream')
  BY <1>2, <1>7, <1>8, <1>9, EmptiesBuffer
<1>11. Content = Logical /\ Content # Absent /\ Content' = Content
  BY <1>2, <1>8, <1>10, StaysOpen, OpenContent
<1>12. File!Read
  <2>1. result'.data = File!Slice(Content, result'.at, Len(result'.data))
    BY <1>2, <1>6, <1>7, <1>11 DEF Slice, File!Slice
  <2>2. result'.rc = "short" => result'.at + Len(result'.data) >= Len(Content)
    BY <1>2, <1>4, <1>7, <1>11
  <2>3. File!Same /\ File!Works
    BY <1>8, <1>11, IsSame, IsOutcome
  <2> QED
    BY <1>7, <1>11, <2>1, <2>2, <2>3 DEF File!Read, Content
<1> QED
  BY <1>7, <1>10, <1>12

LEMMA ReadAstrayStep ==
  ASSUME VfsInv, NEW at \in 0..MaxSize, NEW n \in 1..MaxRead, ReadAstray(at, n)
  PROVE  VfsInv' /\ (File!Read \/ File!Sync \/ File!Size) /\ result'.op = "read"
<1>1. PICK s \in Flushed : stream' \in Spilt(s)
  BY DEF ReadAstray
<1>2. Becomes(stream, stream', dirty)
  BY <1>1, FlushedDrained
<1>3. at \in Nat /\ n \in Nat /\ stream'.file \in Seq(Byte)
  BY <1>2, VfsAssumption, StreamParts DEF Becomes
<1>4. PICK from \in 0..n, got \in 0..n :
        /\ from + got <= Len(stream'.file)
        /\ Returns("read", IF got = n THEN "ok" ELSE "short", at, Slice(stream'.file, from, got))
  BY DEF ReadAstray
<1>5. from \in Nat /\ got \in Nat
  BY <1>3
<1>6. Slice(stream'.file, from, got) \in Seq(Byte)
  BY <1>3, <1>4, <1>5, SliceIs
<1>7. result' \in Result /\ result'.op = "read"
  BY <1>3, <1>4, <1>6 DEF Returns, Result
<1>8. /\ ~Closed /\ aBuffer' = <<>> /\ iBufferOfst' = iBufferOfst
      /\ writing' = NoWrite /\ writing' = writing
      /\ disk' = disk /\ handle' = handle /\ dirty' = dirty /\ Fault
  BY DEF ReadAstray, Ready, Closed
<1>9. dirty' \subseteq Nat
  BY <1>8 DEF VfsInv, VfsTypeOK
<1>10. VfsInv' /\ File!Harms
  BY <1>2, <1>7, <1>8, <1>9, FailedCall
<1> QED
  BY <1>7, <1>8, <1>10, IsFailedCall

LEMMA SyncFailsStep ==
  ASSUME VfsInv, SyncFails
  PROVE  VfsInv' /\ (File!Read \/ File!Sync \/ File!Size) /\ result'.rc = "error"
<1>1. PICK s \in Flushed : stream' \in Spilt(s)
  BY DEF SyncFails
<1>2. Becomes(stream, stream', dirty)
  BY <1>1, FlushedDrained
<1>3. result' \in Result /\ result'.op = "sync" /\ result'.rc = "error"
  BY Returned, EmptySeq DEF SyncFails
<1>4. /\ ~Closed /\ aBuffer' = <<>> /\ iBufferOfst' = iBufferOfst
      /\ writing' = NoWrite /\ writing' = writing
      /\ disk' = disk /\ handle' = handle /\ dirty' = dirty /\ Fault
  BY DEF SyncFails, Ready, Closed
<1>5. dirty' \subseteq Nat
  BY <1>4 DEF VfsInv, VfsTypeOK
<1>6. VfsInv' /\ File!Harms
  BY <1>2, <1>3, <1>4, <1>5, FailedCall
<1> QED
  BY <1>3, <1>4, <1>6, IsFailedCall

LEMMA FileSizeStep ==
  ASSUME VfsInv, FileSize
  PROVE  VfsInv' /\ (File!Read \/ File!Sync \/ File!Size) /\ Logical' = Logical
<1>1. stream' \in Flushed
  BY DEF FileSize
<1>2. Becomes(stream, stream', dirty) /\ Contents(stream') = Logical
  BY <1>1, FlushedStream
<1>3. Len(stream'.file) \in Nat
  BY <1>2, StreamParts DEF Becomes
<1>4. /\ result' \in Result /\ result'.op = "size"
      /\ \/ Works /\ result'.rc = "ok" /\ result'.at = Len(stream'.file)
         \/ Fault /\ result'.rc = "error"
  BY <1>3, Returned, EmptySeq DEF FileSize
<1>5. /\ ~Closed /\ aBuffer' = <<>> /\ iBufferOfst' = iBufferOfst
      /\ writing' = NoWrite /\ writing' = writing
      /\ disk' = disk /\ handle' = handle /\ dirty' = dirty
      /\ Works \/ Fault
  BY DEF FileSize, Ready, Closed
<1>6. dirty' \subseteq Nat
  BY <1>5 DEF VfsInv, VfsTypeOK
<1>7. VfsInv' /\ Logical' = Contents(stream')
  BY <1>2, <1>4, <1>5, <1>6, EmptiesBuffer
<1>8. Content' = Content /\ Content = Logical /\ Content # Absent
  BY <1>2, <1>5, <1>7, StaysOpen, OpenContent
<1>9. CASE Works /\ result'.rc = "ok" /\ result'.at = Len(stream'.file)
  <2>1. result'.at <= Len(Content)
    BY <1>2, <1>8, <1>9, ContentsIs DEF Becomes
  <2>2. disk # Absent => Len(disk) <= result'.at
    BY <1>2, <1>5, <1>9, CardStays
  <2>3. File!Size
    BY <1>4, <1>5, <1>8, <1>9, <2>1, <2>2, IsSame, IsOutcome DEF File!Size, Content
  <2> QED
    BY <1>2, <1>7, <2>3
<1>10. CASE Fault /\ result'.rc = "error"
  <2>1. File!Harms
    BY <1>2, <1>4, <1>5, <1>6, <1>10, FailedCall
  <2> QED
    BY <1>2, <1>4, <1>5, <1>7, <1>10, <2>1, IsFailedCall
<1> QED
  BY <1>4, <1>9, <1>10

LEMMA SyncStep ==
  ASSUME VfsInv, Sync
  PROVE  VfsInv' /\ File!Sync /\ Logical' = Logical
<1>1. PICK s \in Flushed : stream' = Drained(s)
  BY DEF Sync
<1>2. Becomes(stream, stream', dirty) /\ stream'.file = Logical /\ Contents(stream') = Logical
  BY <1>1, FlushedDrained
<1>3. result' \in Result /\ result'.op = "sync" /\ result'.rc = "ok"
  BY Returned, EmptySeq DEF Sync
<1>4. /\ ~Closed /\ aBuffer' = <<>> /\ iBufferOfst' = iBufferOfst
      /\ writing' = NoWrite /\ writing' = writing /\ handle' = handle
  BY DEF Sync, Ready, Closed
<1>5. CASE Fault /\ UNCHANGED <<disk, dirty>>
  <2>1. dirty' \subseteq Nat
    BY <1>5 DEF VfsInv, VfsTypeOK
  <2>2. VfsInv' /\ Logical' = Logical
    BY <1>2, <1>3, <1>4, <1>5, <2>1, EmptiesBuffer
  <2>3. Content' = Content
    BY <1>4, <2>2, StaysOpen
  <2>4. File!Sync
    BY <1>3, <1>4, <1>5, <2>3, IsSame, IsOutcome DEF File!Sync
  <2> QED
    BY <2>2, <2>4
<1>6. CASE /\ Works /\ disk' = (IF handle = "temp" THEN Absent ELSE stream'.file)
           /\ dirty' = {}
  <2>1. Logical' = Logical
    BY <1>2, <1>4 DEF Logical, Overlay
  <2>2. Logical \in Seq(Byte) /\ StreamFits(stream') /\ StreamOf(Logical) = stream'
    BY <1>1, <1>2, FlushedStream, InvStream DEF Becomes, Drained
  <2>3. Places(stream'.at, stream'.tail) = {} /\ Places(iBufferOfst', aBuffer') = {}
    <3>1. \A n \in Nat : Places(n, <<>>) = {}
      BY EmptySeq DEF Places
    <3>2. stream'.at = 0 /\ stream'.tail = <<>>
      BY <2>2 DEF StreamOf
    <3>3. iBufferOfst \in Nat
      BY DEF VfsInv, VfsTypeOK
    <3> QED
      BY <1>4, <3>1, <3>2, <3>3
  <2>4. faults' \in 0..MaxFaults
    BY <1>6, FaultsType
  <2>5. VfsTypeOK'
    BY <1>2, <1>3, <1>4, <1>6, <2>2, <2>4, EmptySeq, VfsAssumption
       DEF VfsInv, VfsTypeOK, StreamFits
  <2>6. Len(Logical) \in Nat
    BY InvStream
  <2>7. LayersFit'
    BY <1>2, <1>4, <1>6, <2>2, <2>6 DEF LayersFit, StreamFits, Closed
  <2>8. KindsFit'
    BY <1>2, <1>4, <1>6, <2>2, <2>3, VfsAssumption DEF KindsFit, Closed
  <2>9. disk = Absent <=> handle = "temp"
    BY <1>4 DEF VfsInv, KindsFit, Closed
  <2>10. Content = Logical /\ Content' = Content
    BY <1>4, <2>1, StaysOpen DEF Content
  <2>11. File!Settled /\ File!Works /\ File!Returned("sync", "ok")
    BY <1>2, <1>3, <1>4, <1>6, <2>9, <2>10, IsSettled, IsOutcome
  <2>12. File!Sync
    BY <2>10, <2>11 DEF File!Sync, Content
  <2> QED
    BY <2>1, <2>5, <2>7, <2>8, <2>12 DEF VfsInv
<1> QED
  BY <1>5, <1>6, <1>2, <1>4 DEF Sync, Logical, Overlay

-----------------------------------------------------------------------------
(* Opening, closing and what happens to a closed file.                     *)

LEMMA OpenExistingStep ==
  ASSUME VfsInv, NEW kind \in {"main", "readonly", "journal"}, OpenExisting(kind)
  PROVE  VfsInv' /\ File!Open /\ result'.op = "open"
<1>1. /\ Closed /\ disk # Absent /\ disk' = disk /\ dirty' = dirty /\ Works
      /\ Opened(kind, StreamOf(disk))
  BY DEF OpenExisting, Opened
<1>2. disk \in Seq(Byte) /\ dirty' = {}
  BY <1>1 DEF VfsInv, VfsTypeOK, KindsFit
<1>3. kind \in Handles \ {"none"} /\ disk' = (IF kind = "temp" THEN Absent ELSE disk)
  BY <1>1 DEF Handles
<1>4. VfsInv' /\ Logical' = disk
  BY <1>1, <1>2, <1>3, OpenedFits
<1>5. /\ Content = disk /\ Content' = Logical' /\ writing' = writing
      /\ result'.op = "open" /\ result'.rc = "ok"
  BY <1>1 DEF Content, Opened, Closed, Returns
<1> QED
  BY <1>1, <1>4, <1>5, IsSame, IsOutcome DEF File!Open, Content

LEMMA OpenCreatesStep ==
  ASSUME VfsInv, NEW kind \in {"main", "readonly", "journal"}, OpenCreates(kind)
  PROVE  VfsInv' /\ File!Create /\ result'.op = "open"
<1>1. /\ Closed /\ disk' = <<>> /\ dirty' = {} /\ ((Works /\ disk = Absent) \/ Fault)
      /\ Opened(kind, StreamOf(<<>>))
  BY DEF OpenCreates, Opened, NoStream
<1>2. <<>> \in Seq(Byte)
  BY EmptySeq
<1>3. kind \in Handles \ {"none"} /\ disk' = (IF kind = "temp" THEN Absent ELSE <<>>)
  BY <1>1 DEF Handles
<1>4. VfsInv' /\ Logical' = <<>>
  BY <1>1, <1>2, <1>3, OpenedFits
<1>5. /\ Content = disk /\ Content' = Logical' /\ writing' = writing
      /\ result'.op = "open" /\ result'.rc = "ok"
  BY <1>1 DEF Content, Opened, Closed, Returns
<1> QED
  BY <1>1, <1>4, <1>5, IsOutcome DEF File!Create, Content

LEMMA OpenTempStep ==
  ASSUME VfsInv, OpenTemp
  PROVE  VfsInv' /\ File!Create /\ result'.op = "open"
<1>1. /\ Closed /\ disk = Absent /\ disk' = Absent /\ dirty' = {} /\ Works
      /\ Opened("temp", StreamOf(<<>>))
  BY DEF OpenTemp, Opened, NoStream
<1>2. <<>> \in Seq(Byte)
  BY EmptySeq
<1>3. "temp" \in Handles \ {"none"}
  BY DEF Handles
<1>4. VfsInv' /\ Logical' = <<>>
  BY <1>1, <1>2, <1>3, OpenedFits
<1>5. /\ Content = disk /\ Content' = Logical' /\ writing' = writing
      /\ result'.op = "open" /\ result'.rc = "ok"
  BY <1>1 DEF Content, Opened, Closed, Returns
<1> QED
  BY <1>1, <1>4, <1>5, IsOutcome DEF File!Create, Content

\* A method that leaves a closed file closed and nothing in its buffers.
LEMMA StaysClosed ==
  ASSUME VfsInv, Closed, disk' \in Seq(Byte) \cup {Absent}, Works \/ Fault,
         result' \in Result,
         UNCHANGED <<stream, handle, aBuffer, iBufferOfst, writing, dirty>>
  PROVE  VfsInv' /\ Content = disk /\ Content' = disk' /\ dirty' = {}
<1>1. /\ handle' = "none" /\ stream' = NoStream /\ aBuffer' = <<>>
      /\ iBufferOfst' \in Nat /\ dirty' = {} /\ writing' = NoWrite
  BY InvStream DEF VfsInv, VfsTypeOK, KindsFit, Closed
<1>2. faults' \in 0..MaxFaults
  BY FaultsType
<1>3. VfsInv'
  BY <1>1, <1>2, ClosedFits
<1> QED
  BY <1>1, <1>3 DEF Content, Closed

LEMMA OpenFailsStep ==
  ASSUME VfsInv, NEW kind \in {"main", "readonly", "journal"}, OpenFails(kind)
  PROVE  VfsInv' /\ File!Open /\ result'.op = "open"
<1>1. result' \in Result /\ result'.op = "open" /\ result'.rc = "error"
  BY Returned, EmptySeq DEF OpenFails
<1>2. /\ Closed /\ disk' = disk /\ ((Works /\ disk = Absent) \/ Fault)
      /\ UNCHANGED <<stream, handle, aBuffer, iBufferOfst, writing, dirty>>
  BY DEF OpenFails
<1>3. disk' \in Seq(Byte) \cup {Absent}
  BY <1>2 DEF VfsInv, VfsTypeOK
<1>4. VfsInv' /\ Content = disk /\ Content' = Content /\ dirty' = dirty
  BY <1>1, <1>2, <1>3, StaysClosed
<1> QED
  BY <1>1, <1>2, <1>4, IsSame, IsOutcome DEF File!Open, Content

LEMMA DeleteStep ==
  ASSUME VfsInv, NEW dirSync \in BOOLEAN, Delete(dirSync)
  PROVE  VfsInv' /\ File!Delete /\ result'.op = "delete"
<1>1. /\ result' \in Result /\ result'.op = "delete"
      /\ result'.at = IF dirSync THEN 1 ELSE 0
      /\ result'.rc \in IF dirSync /\ disk # Absent THEN {"error", "crash"} ELSE {"ok"}
  <2>1. PICK rc \in IF dirSync /\ disk # Absent THEN {"error", "crash"} ELSE {"ok"} :
          Returns("delete", rc, IF dirSync THEN 1 ELSE 0, <<>>)
    BY DEF Delete
  <2>2. rc \in {"ok", "short", "error", "crash"} /\ (IF dirSync THEN 1 ELSE 0) \in Nat
    OBVIOUS
  <2> QED
    BY <2>1, <2>2, Returned, EmptySeq
<1>2. /\ Closed /\ disk' = Absent /\ Works
      /\ UNCHANGED <<stream, handle, aBuffer, iBufferOfst, writing, dirty>>
  BY DEF Delete, Works
<1>3. VfsInv' /\ Content = disk /\ Content' = Absent /\ dirty' = {}
  BY <1>1, <1>2, StaysClosed
<1>4. result'.rc \in IF Content # Absent /\ result'.at = 1 THEN {"error", "crash"} ELSE {"ok"}
  BY <1>1, <1>3
<1>5. File!Delete
  BY <1>1, <1>2, <1>3, <1>4, IsOutcome DEF File!Delete, Content
<1> QED
  BY <1>1, <1>3, <1>5

LEMMA DeleteFailsStep ==
  ASSUME VfsInv, DeleteFails
  PROVE  VfsInv' /\ File!Delete /\ result'.rc = "error"
<1>1. result' \in Result /\ result'.op = "delete" /\ result'.rc = "error"
  BY Returned, EmptySeq DEF DeleteFails
<1>2. /\ Closed /\ disk' = disk /\ Fault
      /\ UNCHANGED <<stream, handle, aBuffer, iBufferOfst, writing, dirty>>
  BY DEF DeleteFails
<1>3. disk' \in Seq(Byte) \cup {Absent}
  BY <1>2 DEF VfsInv, VfsTypeOK
<1>4. VfsInv' /\ Content' = Content /\ dirty' = dirty
  BY <1>1, <1>2, <1>3, StaysClosed
<1> QED
  BY <1>1, <1>2, <1>4, IsSame, IsOutcome DEF File!Delete

LEMMA AccessStep ==
  ASSUME VfsInv, Access
  PROVE  VfsInv' /\ File!Access /\ result'.op = "access"
<1>1. /\ result' \in Result /\ result'.op = "access" /\ result'.rc = "ok"
      /\ \/ Works /\ result'.at = IF disk = Absent THEN 0 ELSE 1
         \/ Fault /\ result'.at = 0
  <2>1. (IF disk = Absent THEN 0 ELSE 1) \in Nat
    OBVIOUS
  <2> QED
    BY <2>1, Returned, EmptySeq DEF Access
<1>2. /\ Closed /\ disk' = disk /\ (Works \/ Fault)
      /\ UNCHANGED <<stream, handle, aBuffer, iBufferOfst, writing, dirty>>
  BY DEF Access
<1>3. disk' \in Seq(Byte) \cup {Absent}
  BY <1>2 DEF VfsInv, VfsTypeOK
<1>4. VfsInv' /\ Content = disk /\ Content' = Content /\ dirty' = dirty
  BY <1>1, <1>2, <1>3, StaysClosed
<1>5. result'.at = (IF Content = Absent THEN 0 ELSE 1) \/ (Fault /\ result'.at = 0)
  BY <1>1, <1>4
<1> QED
  BY <1>1, <1>2, <1>4, IsSame, IsOutcome DEF File!Access, Content

\* What a file system that stops half way leaves is what the abstract file may
\* be left as.
LEMMA LeftSurvives ==
  ASSUME VfsInv, NEW c \in LeftBehind
  PROVE  /\ c \in Seq(Byte) \cup {Absent}
         /\ IF disk = Absent
              THEN c = Absent
              ELSE /\ c \in Seq(Byte) /\ Len(c) = Len(disk)
                   /\ \A p \in 1..Len(c) : p \notin dirty => c[p] = disk[p]
<1>1. CASE disk = Absent
  BY <1>1 DEF LeftBehind
<1>2. CASE disk # Absent /\ Closed
  <2>1. c = disk
    BY <1>2 DEF LeftBehind
  <2> QED
    BY <1>2, <2>1 DEF VfsInv, VfsTypeOK
<1>3. CASE disk # Absent /\ ~Closed
  <2>1. disk \in Seq(Byte) /\ Len(disk) \in Nat
    BY <1>3, LenProperties DEF VfsInv, VfsTypeOK
  <2>2. /\ c \in [1..Len(disk) -> Byte]
        /\ \A p \in 1..Len(disk) : c[p] \in {disk[p], stream.file[p]}
    BY <1>3 DEF LeftBehind
  <2>3. c \in Seq(Byte)
    BY <2>1, <2>2, SeqDef
  <2>4. Len(c) = Len(disk)
    BY <2>1, <2>2, <2>3, LenProperties
  <2>5. \A p \in 1..Len(disk) : p \notin dirty => c[p] = disk[p]
    BY <1>3, <2>2 DEF VfsInv, LayersFit
  <2> QED
    BY <1>3, <2>3, <2>4, <2>5
<1> QED
  BY <1>1, <1>2, <1>3

\* The file is gone from memory.
LEMMA GoneFits ==
  ASSUME VfsInv, Gone, writing' = NoWrite, disk' \in Seq(Byte) \cup {Absent},
         result' \in Result, Works \/ Fault
  PROVE  VfsInv' /\ Content' = disk' /\ dirty' = {}
<1>1. faults' \in 0..MaxFaults
  BY FaultsType
<1>2. VfsInv'
  BY <1>1, ClosedFits DEF Gone
<1> QED
  BY <1>2 DEF Content, Closed, Gone

LEMMA CloseStep ==
  ASSUME VfsInv, Close
  PROVE  VfsInv' /\ File!Close /\ result'.op = "close"
<1>1. result' \in Result /\ result'.op = "close" /\ result'.rc = "ok"
  BY Returned, EmptySeq DEF Close
<1>2. /\ ~Closed /\ writing' = NoWrite /\ writing' = writing /\ Gone /\ Works
      /\ disk' = IF handle = "temp" THEN Absent ELSE Logical
  BY DEF Close, Ready, Closed
<1>3. disk' \in Seq(Byte) \cup {Absent}
  BY <1>2, InvStream
<1>4. VfsInv' /\ Content' = disk' /\ dirty' = {}
  BY <1>1, <1>2, <1>3, GoneFits
<1>5. Content = Logical
  BY <1>2 DEF Content
<1>6. disk = Absent <=> handle = "temp"
  BY <1>2 DEF VfsInv, KindsFit, Closed
<1>7. File!Settled /\ File!Works /\ File!Returned("close", "ok")
  BY <1>1, <1>2, <1>4, <1>5, <1>6, IsSettled, IsOutcome
<1> QED
  BY <1>1, <1>2, <1>4, <1>7 DEF File!Close, Content

LEMMA CloseFailsStep ==
  ASSUME VfsInv, CloseFails
  PROVE  VfsInv' /\ File!Close /\ result'.op = "close"
<1>1. result' \in Result /\ result'.op = "close" /\ result'.rc = "ok"
  BY Returned, EmptySeq DEF CloseFails
<1>2. /\ writing' = NoWrite /\ writing' = writing /\ Gone /\ Fault
      /\ disk' \in LeftBehind
  BY DEF CloseFails, Ready
<1>3. disk' \in Seq(Byte) \cup {Absent} /\ File!Survives(disk')
  BY <1>2, LeftSurvives, IsSurvivor
<1>4. VfsInv' /\ Content' = disk' /\ dirty' = {}
  BY <1>1, <1>2, <1>3, GoneFits
<1> QED
  BY <1>1, <1>2, <1>3, <1>4, IsOutcome DEF File!Close, Content

LEMMA CloseFlushFailsStep ==
  ASSUME VfsInv, CloseFlushFails
  PROVE  VfsInv' /\ File!Close /\ result'.rc = "error"
<1>1. result' \in Result /\ result'.op = "close" /\ result'.rc = "error"
  BY Returned, EmptySeq DEF CloseFlushFails
<1>2. /\ ~Closed /\ writing' = NoWrite /\ writing' = writing /\ Gone /\ Fault
      /\ aBuffer # <<>>
  BY DEF CloseFlushFails, Ready, Closed
<1>3. PICK s \in WriteBroken(stream, iBufferOfst, aBuffer) : disk' = s.file
  BY DEF CloseFlushFails
<1>4. Becomes(stream, s, dirty)
  BY <1>2, <1>3, FlushBroken
<1>5. disk' \in Seq(Byte)
  BY <1>3, <1>4, StreamParts DEF Becomes
<1>6. VfsInv' /\ Content' = disk' /\ dirty' = {}
  BY <1>1, <1>2, <1>5, GoneFits
<1>7. Content = Logical /\ Content # Absent /\ disk' # Absent
  BY <1>2, <1>5, OpenContent, VfsAssumption
<1>8. File!SameBut(Content, disk', dirty)
  BY <1>3, <1>4, <1>7, LosesDirty DEF SameBut, File!SameBut
<1> QED
  BY <1>1, <1>2, <1>6, <1>7, <1>8, IsOutcome DEF File!Close, Content

LEMMA PowerLossStep ==
  ASSUME VfsInv, PowerLoss
  PROVE  VfsInv' /\ File!PowerLoss /\ result'.op = "none"
<1>1. result' \in Result /\ result'.op = "none" /\ result'.rc = "ok"
  BY Returned, EmptySeq DEF PowerLoss, Nothing
<1>2. writing' = NoWrite /\ Gone /\ Works /\ disk' \in LeftBehind
  BY DEF PowerLoss, Works
<1>3. /\ disk' \in Seq(Byte) \cup {Absent}
      /\ IF disk = Absent
           THEN disk' = Absent
           ELSE /\ disk' \in Seq(Byte) /\ Len(disk') = Len(disk)
                /\ \A p \in 1..Len(disk') : p \notin dirty => disk'[p] = disk[p]
  BY <1>2, LeftSurvives
<1>4. VfsInv' /\ Content' = disk' /\ dirty' = {}
  BY <1>1, <1>2, <1>3, GoneFits
<1>5. File!Survives(disk')
  BY <1>3, IsSurvivor
<1> QED
  BY <1>1, <1>2, <1>4, <1>5, IsOutcome DEF File!PowerLoss, Content

-----------------------------------------------------------------------------
(* The theorems.                                                           *)

LEMMA VfsInitInv ==
  ASSUME VfsInit
  PROVE  VfsInv /\ File!FileInit
<1>1. <<>> \in Seq(Byte) /\ Len(<<>>) = 0
  BY EmptySeq
<1>2. disk \in Seq(Byte) \cup {Absent}
  BY SeqDef, VfsAssumption DEF VfsInit
<1>3. /\ StreamFits(stream) /\ Places(stream.at, stream.tail) \subseteq dirty
  <2>1. \A c \in Seq(Byte) :
          /\ StreamFits(StreamOf(c))
          /\ \A D : Places(StreamOf(c).at, StreamOf(c).tail) \subseteq D
    BY StreamOfIs
  <2>2. stream = StreamOf(<<>>)
    BY DEF VfsInit, NoStream
  <2>3. StreamFits(stream) /\ \A D : Places(stream.at, stream.tail) \subseteq D
    BY <1>1, <2>1, <2>2
  <2> QED
    BY <2>3
<1>4. Places(0, <<>>) = {}
  BY <1>1 DEF Places
<1>5. VfsTypeOK
  BY <1>1, <1>2, <1>3, VfsAssumption
     DEF VfsInit, VfsTypeOK, StreamFits, Handles, Result
<1>6. LayersFit
  BY <1>3 DEF VfsInit, LayersFit, StreamFits, Closed
<1>7. KindsFit
  BY <1>3, <1>4 DEF VfsInit, KindsFit, Closed
<1>8. File!FileInit
  BY <1>2 DEF File!FileInit, VfsInit, Closed
<1> QED
  BY <1>5, <1>6, <1>7, <1>8 DEF VfsInv

\* Every step keeps the invariant and is one of the abstract file.
LEMMA VfsStep ==
  ASSUME VfsInv, VfsNext
  PROVE  VfsInv' /\ File!FileNext
<1>1. CASE OpenSteps
  <2>1. VfsInv' /\ (File!Open \/ File!Create)
    BY <1>1, OpenExistingStep, OpenCreatesStep, OpenFailsStep, OpenTempStep DEF OpenSteps
  <2> QED
    BY <2>1 DEF File!FileNext
<1>2. CASE WriteSteps
  <2>1. VfsInv' /\ (File!WriteAtOnce \/ File!Begin \/ File!WritePiece \/ File!WriteFails)
    BY <1>2, DirectWriteStep, BufferedWriteStep, CopyOnStep, CopyOnPuts, CopyFailsStep
       DEF WriteSteps
  <2> QED
    BY <2>1 DEF File!FileNext
<1>3. CASE ReadSteps
  <2>1. VfsInv' /\ (File!Read \/ File!Sync \/ File!Size)
    BY <1>3, ReadStep, ReadAstrayStep DEF ReadSteps
  <2> QED
    BY <2>1 DEF File!FileNext
<1>4. CASE OtherSteps
  <2>1. VfsInv' /\ \/ File!Read \/ File!Sync \/ File!Size \/ File!Truncate
                   \/ File!Close \/ File!Delete \/ File!Access
    BY <1>4, SyncStep, SyncFailsStep, FileSizeStep, TruncateStep, FlushErrorStep,
       CloseStep, CloseFailsStep, CloseFlushFailsStep, DeleteStep, DeleteFailsStep,
       AccessStep
       DEF OtherSteps
  <2> QED
    BY <2>1 DEF File!FileNext
<1>5. CASE PowerLoss
  BY <1>5, PowerLossStep DEF File!FileNext
<1> QED
  BY <1>1, <1>2, <1>3, <1>4, <1>5 DEF VfsNext

LEMMA VfsStutter ==
  ASSUME UNCHANGED vfsVars
  PROVE  /\ VfsInv => VfsInv'
         /\ UNCHANGED File!fileVars
<1>1. UNCHANGED <<disk, stream, handle, aBuffer, iBufferOfst, writing, result, dirty, faults>>
  BY DEF vfsVars
<1>2. Logical' = Logical /\ Contents(stream') = Contents(stream) /\ Next_i' = Next_i
  BY <1>1 DEF Logical, Contents, Next_i
<1>3. VfsInv => VfsInv'
  BY <1>1, <1>2 DEF VfsInv, VfsTypeOK, LayersFit, KindsFit, Closed
<1>4. UNCHANGED File!fileVars
  BY <1>1, <1>2 DEF File!fileVars, Closed
<1> QED
  BY <1>3, <1>4

LEMMA VfsInvariant == VfsSpec => []VfsInv
<1>1. VfsInv /\ [VfsNext]_vfsVars => VfsInv'
  BY VfsStep, VfsStutter
<1> QED
  BY <1>1, VfsInitInv, PTL DEF VfsSpec

\* What the file is on the card, in the stream and in the buffers keeps its type,
\* and the write buffer never overflows.
THEOREM VfsTypeCorrect == VfsSpec => []VfsTypeOK
<1>1. VfsInv => VfsTypeOK
  BY DEF VfsInv
<1> QED
  BY <1>1, VfsInvariant, PTL

\* Whatever is where, the buffers continue the file without a hole, the write in
\* progress has its first bytes in place, and the card differs from the file in
\* dirty places only (ESP32Write, ESP32FlushBuffer, ESP32Sync).
THEOREM LayersAlwaysFit == VfsSpec => []LayersFit
<1>1. VfsInv => LayersFit
  BY DEF VfsInv
<1> QED
  BY <1>1, VfsInvariant, PTL

\* A method that says OK after a flush has lost nothing by it (ESP32Write,
\* ESP32Sync, ESP32FileSize).
THEOREM OkLosesNothing == VfsSpec => OkKeepsAll
<1> DEFINE Kept ==
      result'.rc = "ok" =>
        CASE result'.op = "write" /\ writing # NoWrite ->
               Logical' = Overlay(Logical, writing.at, writing.data)
          [] result'.op \in {"sync", "size"} -> Logical' = Logical
          [] OTHER -> TRUE
<1>1. ASSUME VfsInv, VfsNext
      PROVE  /\ (result'.rc = "ok" /\ result'.op = "write" /\ writing # NoWrite)
                  => Logical' = Overlay(Logical, writing.at, writing.data)
             /\ (result'.rc = "ok" /\ result'.op \in {"sync", "size"}) => Logical' = Logical
  <2>1. CASE OpenSteps
    <3>1. result'.op = "open"
      BY <1>1, <2>1, OpenExistingStep, OpenCreatesStep, OpenFailsStep, OpenTempStep DEF OpenSteps
    <3> QED
      BY <3>1
  <2>2. CASE WriteSteps
    <3>1. CASE CopyOn
      BY <1>1, <3>1, CopyOnStep
    <3>2. CASE CopyFails
      BY <1>1, <3>2, CopyFailsStep
    <3>3. ASSUME NEW at \in 0..MaxSize, NEW b \in Texts, DirectWrite(at, b)
          PROVE  writing = NoWrite /\ result'.op = "write"
      BY <1>1, <3>3, DirectWriteStep DEF DirectWrite, Returns
    <3>4. ASSUME NEW at \in 0..MaxSize, NEW b \in Texts, BufferedWrite(at, b)
          PROVE  result'.op = "none"
      BY <1>1, <3>4, BufferedWriteStep
    <3> QED
      BY <2>2, <3>1, <3>2, <3>3, <3>4 DEF WriteSteps
  <2>3. CASE ReadSteps
    <3>1. result'.op = "read"
      BY <1>1, <2>3, ReadStep, ReadAstrayStep DEF ReadSteps
    <3> QED
      BY <3>1
  <2>4. CASE OtherSteps
    <3>1. CASE Sync \/ FileSize
      <4>1. Logical' = Logical /\ result'.op \in {"sync", "size"}
        BY <1>1, <3>1, SyncStep, FileSizeStep DEF Sync, FileSize, Returns
      <4> QED
        BY <4>1
    <3>2. CASE \/ SyncFails \/ CloseFlushFails \/ DeleteFails
               \/ \E op \in {"read", "sync", "size"} : FlushError(op)
      <4>1. result'.rc = "error"
        BY <1>1, <3>2, SyncFailsStep, CloseFlushFailsStep, DeleteFailsStep, FlushErrorStep
      <4> QED
        BY <4>1
    <3>3. CASE \/ Truncate \/ Close \/ CloseFails \/ Access
               \/ \E dirSync \in BOOLEAN : Delete(dirSync)
      <4>1. result'.op \in {"truncate", "close", "access", "delete"}
        BY <1>1, <3>3, TruncateStep, CloseStep, CloseFailsStep, AccessStep, DeleteStep
      <4> QED
        BY <4>1
    <3> QED
      BY <2>4, <3>1, <3>2, <3>3 DEF OtherSteps
  <2>5. CASE PowerLoss
    BY <1>1, <2>5, PowerLossStep
  <2> QED
    BY <1>1, <2>1, <2>2, <2>3, <2>4, <2>5 DEF VfsNext
<1>2. VfsInv /\ [VfsNext]_vfsVars => [Kept]_vfsVars
  BY <1>1
<1> QED
  BY <1>2, VfsInvariant, PTL DEF VfsSpec, OkKeepsAll

\* The VFS is the file that SQLite relies on, with the deviations that SqliteFile
\* names: the bytes of every write arrive in their place, reads find them, a sync
\* makes them permanent, and neither a loss of power nor a failing call touches
\* what was permanent (ESP32Open to ESP32Access).
THEOREM VfsActsAsFile == VfsSpec => ActsAsFile
<1>1. VfsInv /\ [VfsNext]_vfsVars => [File!FileNext]_File!fileVars
  BY VfsStep, VfsStutter
<1>2. VfsInit => File!FileInit
  BY VfsInitInv
<1> QED
  BY <1>1, <1>2, VfsInvariant, PTL DEF VfsSpec, ActsAsFile, File!FileSpec
=============================================================================
