---------------------------- MODULE FileContent ----------------------------
(* The content of a file as a sequence of what its places hold.            *)
EXTENDS Integers, Sequences

\* The content c after the bytes b were written behind its first `at` places.
Overlay(c, at, b) ==
  IF b = <<>> THEN c
  ELSE SubSeq(c, 1, at) \o b \o SubSeq(c, at + Len(b) + 1, Len(c))

\* The n places behind the first `at`.
Slice(c, at, n) == SubSeq(c, at + 1, at + n)

\* The places that b covers there.
Places(at, b) == (at + 1)..(at + Len(b))

\* Outside the places D the contents c and d are the same.
SameBut(c, d, D) ==
  \A p \in ((1..Len(c)) \cup (1..Len(d))) \ D :
    p <= Len(c) /\ p <= Len(d) /\ c[p] = d[p]
=============================================================================
