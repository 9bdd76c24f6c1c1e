-------------------------- MODULE FloodTablesProofs -------------------------
(***************************************************************************)
(* Facts about page arithmetic, ranks, the tables and the calls: for every *)
(* value of IntMax, every page number and size and any tables.  The proofs *)
(* about the repository, its store and the routes share them.              *)
(***************************************************************************)
EXTENDS FloodTables, FiniteSetTheorems, TLAPS

-----------------------------------------------------------------------------
(* Machine integers.                                                       *)

\* An int that is in range is not changed by wrapping.
LEMMA WrapInRange ==
  ASSUME NEW n \in CInt
  PROVE  Wrap(n) = n
<1>1. /\ IntMax + 1 \in Nat \ {0}
      /\ n + IntMax + 1 \in 0..(2 * (IntMax + 1) - 1)
  BY IntMaxAssumption DEF CInt
<1>2. \A a, N \in Nat : a < N => a % N = a
  OBVIOUS
<1>3. (n + IntMax + 1) % (2 * (IntMax + 1)) = n + IntMax + 1
  BY <1>1, <1>2
<1> QED
  BY <1>1, <1>3, IntMaxAssumption DEF Wrap, CInt

\* Wrapping always gives an int.
LEMMA WrapType ==
  ASSUME NEW n \in Int
  PROVE  Wrap(n) \in CInt
<1>1. 2 * (IntMax + 1) \in Nat \ {0}
  BY IntMaxAssumption
<1>2. n + IntMax + 1 \in Int
  BY IntMaxAssumption
<1>3. (n + IntMax + 1) % (2 * (IntMax + 1)) \in 0..(2 * (IntMax + 1) - 1)
  BY <1>1, <1>2
<1> QED
  BY <1>3, IntMaxAssumption DEF Wrap, CInt

\* When the first row of a page is an int, it is the number of rows the
\* statement skips (the OFFSET of getRiverReadings): no wrapping is seen.
THEOREM OffsetIsFirst ==
  ASSUME NEW page \in CInt, NEW size \in UInt8s, Representable(page, size)
  PROVE  Skipped(page, size) = FirstOf(page, size)
<1>1. /\ page \in Int /\ size \in Nat
      /\ IntMax \in Nat
  BY IntMaxAssumption DEF CInt, UInt8s
<1>2. FirstOf(page, size) \in CInt /\ FirstOf(page, size) >= 0
  BY <1>1 DEF Representable, CInt
<1>3. CASE page = -(IntMax + 1)
  <2>1. size = 0
    <3>1. size > 0 => FirstOf(page, size) < 0
      BY <1>1, <1>3, SMTT(30) DEF FirstOf
    <3> QED
      BY <3>1, <1>1, <1>2 DEF CInt
  <2>2. Wrap(page - 1) \in Int
    BY <1>1, WrapType DEF CInt
  <2>3. Wrap(page - 1) * size = 0 /\ FirstOf(page, size) = 0
    BY <1>1, <2>1, <2>2 DEF FirstOf
  <2>4. Wrap(0) = 0
    BY <1>1, WrapInRange DEF CInt
  <2> QED
    BY <2>3, <2>4 DEF Skipped, Offset, PAGE_OFFSET
<1>4. CASE page # -(IntMax + 1)
  <2>1. page - 1 \in CInt
    BY <1>1, <1>4 DEF CInt
  <2>2. Wrap(page - 1) = page - 1
    BY <2>1, WrapInRange
  <2>3. Wrap(FirstOf(page, size)) = FirstOf(page, size)
    BY <1>2, WrapInRange
  <2>4. Offset(page, size) = FirstOf(page, size)
    BY <2>2, <2>3 DEF Offset, PAGE_OFFSET, FirstOf
  <2> QED
    BY <1>2, <2>4 DEF Skipped, CInt
<1> QED
  BY <1>3, <1>4

\* A statement never skips a negative number of rows.
LEMMA SkippedType ==
  ASSUME NEW page \in CInt, NEW size \in UInt8s
  PROVE  Skipped(page, size) \in Nat
<1>1. Wrap(page - 1) \in Int
  BY WrapType, IntMaxAssumption DEF CInt
<1>2. Offset(page, size) \in CInt
  BY <1>1, WrapType DEF Offset, PAGE_OFFSET, UInt8s
<1> QED
  BY <1>2, IntMaxAssumption DEF Skipped, CInt

-----------------------------------------------------------------------------
(* Ranks.                                                                  *)

\* Every non-empty finite set of rows has a first one.
LEMMA FirstRow ==
  ASSUME NEW T \in SUBSET Nat, IsFiniteSet(T), T # {}
  PROVE  \E m \in T : \A j \in T : m <= j
<1> DEFINE F == {UpTo(T, i) : i \in T}
           R == StrictSubsetOrdering(T)
<1>0. \A j \in T : j \in Nat
  OBVIOUS
<1>1. F \subseteq FiniteSubsetsOf(T) /\ F # {}
  <2>1. \A i \in T : UpTo(T, i) \in SUBSET T
    BY DEF UpTo
  <2>2. \A i \in T : IsFiniteSet(UpTo(T, i))
    BY <2>1, FS_Subset
  <2> QED
    BY <2>1, <2>2 DEF FiniteSubsetsOf
<1>2. PICK S \in F : \A U \in F : <<U, S>> \notin R
  <2> HIDE DEF F, R
  <2> QED
    BY <1>1, FS_StrictSubsetOrderingWellFounded, WFMin DEF R
<1>3. PICK m \in T : S = UpTo(T, m)
  OBVIOUS
<1>4. \A j \in T : UpTo(T, j) \in F
  OBVIOUS
<1> HIDE DEF F
<1>5. ASSUME NEW j \in T, j < m
      PROVE  FALSE
  <2>0. m \in Nat /\ j \in Nat /\ j < m
    BY <1>0, <1>5
  <2>1. /\ UpTo(T, j) \subseteq UpTo(T, m)
        /\ m \in UpTo(T, m)
        /\ m \notin UpTo(T, j)
    <3>1. \A x \in T : x <= j => x <= m
      BY <2>0, <1>0
    <3>2. m <= m /\ ~(m <= j)
      BY <2>0
    <3> QED
      BY <3>1, <3>2, Zenon DEF UpTo
  <2>2. UpTo(T, j) \in SUBSET T /\ UpTo(T, m) \in SUBSET T
    BY DEF UpTo
  <2>3. <<UpTo(T, j), UpTo(T, m)>> \in R
    BY <2>1, <2>2 DEF StrictSubsetOrdering
  <2> QED
    BY <1>2, <1>3, <1>4, <2>3
<1> QED
  BY <1>0, <1>5

\* Every non-empty finite set of rows has a last one.
LEMMA LastRow ==
  ASSUME NEW T \in SUBSET Nat, IsFiniteSet(T), T # {}
  PROVE  \E m \in T : \A j \in T : j <= m
<1> DEFINE From(i) == {j \in T : j >= i}
           F == {From(i) : i \in T}
           R == StrictSubsetOrdering(T)
<1>0. \A j \in T : j \in Nat
  OBVIOUS
<1>1. F \subseteq FiniteSubsetsOf(T) /\ F # {}
  <2>1. \A i \in T : From(i) \in SUBSET T
    OBVIOUS
  <2>2. \A i \in T : IsFiniteSet(From(i))
    BY <2>1, FS_Subset
  <2> QED
    BY <2>1, <2>2 DEF FiniteSubsetsOf
<1>2. PICK S \in F : \A U \in F : <<U, S>> \notin R
  <2> HIDE DEF F, R
  <2> QED
    BY <1>1, FS_StrictSubsetOrderingWellFounded, WFMin DEF R
<1>3. PICK m \in T : S = From(m)
  OBVIOUS
<1>4. \A j \in T : From(j) \in F
  OBVIOUS
<1> HIDE DEF F
<1>5. ASSUME NEW j \in T, m < j
      PROVE  FALSE
  <2>0. m \in Nat /\ j \in Nat /\ m < j
    BY <1>0, <1>5
  <2>1. From(j) \subseteq From(m) /\ m \in From(m) /\ m \notin From(j)
    <3>1. \A x \in T : x >= j => x >= m
      BY <2>0, <1>0
    <3>2. m >= m /\ ~(m >= j)
      BY <2>0
    <3> QED
      BY <3>1, <3>2, Zenon
  <2>2. <<From(j), From(m)>> \in R
    BY <2>1 DEF StrictSubsetOrdering
  <2> QED
    BY <1>2, <1>3, <1>4, <2>2
<1> QED
  BY <1>0, <1>5

\* A rank is a natural number, at most the number of rows.
LEMMA RankType ==
  ASSUME NEW M \in SUBSET Nat, IsFiniteSet(M), NEW i \in Nat
  PROVE  /\ Rank(M, i) \in Nat
         /\ Cardinality(M) \in Nat
         /\ Rank(M, i) <= Cardinality(M)
<1>1. UpTo(M, i) \in SUBSET M
  BY DEF UpTo
<1>2. IsFiniteSet(UpTo(M, i)) /\ Cardinality(UpTo(M, i)) <= Cardinality(M)
  BY <1>1, FS_Subset
<1> QED
  BY <1>2, FS_CardinalityType DEF Rank

\* From row `at` to a later row i the rank grows by the rows between them and
\* by row i itself.
LEMMA RankStep ==
  ASSUME NEW M \in SUBSET Nat, IsFiniteSet(M),
         NEW at \in Nat, NEW i \in M, at < i
  PROVE  /\ Cardinality(Between(M, at, i)) \in Nat
         /\ Rank(M, i) = Rank(M, at) + Cardinality(Between(M, at, i)) + 1
<1> DEFINE A == UpTo(M, at)
           B == Between(M, at, i)
<1>0. i \in Nat /\ \A j \in M : j \in Nat
  OBVIOUS
<1>1. A \in SUBSET M /\ B \in SUBSET M
  BY DEF UpTo, Between
<1>2. IsFiniteSet(A) /\ IsFiniteSet(B)
  BY <1>1, FS_Subset
<1>3. A \cap B = {}
  <2>1. \A j \in M : j <= at => ~(at < j)
    BY <1>0
  <2> QED
    BY <2>1, Zenon DEF UpTo, Between
<1>4. UpTo(M, i) = (A \cup B) \cup {i}
  <2>1. \A j \in M : j <= i <=> (j <= at \/ (at < j /\ j < i) \/ j = i)
    BY <1>0
  <2> QED
    BY <2>1, Zenon DEF UpTo, Between
<1>5. i \notin A \cup B
  BY <1>0 DEF UpTo, Between
<1> HIDE DEF A, B
<1>6. /\ IsFiniteSet(A \cup B)
      /\ Cardinality(A \cup B) = Cardinality(A) + Cardinality(B) - Cardinality({})
  BY <1>2, <1>3, FS_Union
<1>7. Cardinality((A \cup B) \cup {i}) = Cardinality(A \cup B) + 1
  BY <1>5, <1>6, FS_AddElement
<1>8. Cardinality(A) \in Nat /\ Cardinality(B) \in Nat /\ Cardinality({}) = 0
  BY <1>2, FS_CardinalityType, FS_EmptySet
<1>9. Cardinality(UpTo(M, i)) = Cardinality(A) + Cardinality(B) + 1
  BY <1>4, <1>6, <1>7, <1>8
<1> QED
  BY <1>8, <1>9 DEF A, B, Rank

\* As long as the rows passed over and the skipped ones are not all of M, there
\* is a row for the next step of the scan to return.
LEMMA NextRowExists ==
  ASSUME NEW M \in SUBSET Nat, IsFiniteSet(M),
         NEW at \in Nat, NEW skip \in Nat,
         Rank(M, at) + skip < Cardinality(M)
  PROVE  \E i \in M : at < i /\ Cardinality(Between(M, at, i)) = skip
<1> DEFINE A == {j \in M : at < j}
           Cand == {j \in A : Cardinality(Between(M, at, j)) >= skip}
<1>0. \A j \in M : j \in Nat
  OBVIOUS
<1>1. \A j \in A : /\ IsFiniteSet(Between(M, at, j))
                  /\ Cardinality(Between(M, at, j)) \in Nat
  <2>1. \A j \in A : Between(M, at, j) \in SUBSET M
    BY DEF Between
  <2> QED
    BY <2>1, FS_Subset, FS_CardinalityType
<1>2. IsFiniteSet(A) /\ A \in SUBSET Nat /\ Cardinality(A) \in Nat
  BY FS_Subset, FS_CardinalityType
<1>3. Cardinality(A) > skip
  <2>1. M = UpTo(M, at) \cup A /\ UpTo(M, at) \cap A = {}
    <3>1. \A j \in M : ~(j <= at) <=> at < j
      BY <1>0
    <3> QED
      BY <3>1, Zenon DEF UpTo
  <2>2. UpTo(M, at) \in SUBSET M
    BY DEF UpTo
  <2>3. IsFiniteSet(UpTo(M, at))
    BY <2>2, FS_Subset
  <2> HIDE DEF A
  <2>4. Cardinality(M) = Cardinality(UpTo(M, at)) + Cardinality(A) - Cardinality({})
    BY <1>2, <2>1, <2>3, FS_Union
  <2>5. Cardinality({}) = 0 /\ Cardinality(UpTo(M, at)) \in Nat
    BY <2>3, FS_EmptySet, FS_CardinalityType
  <2> QED
    BY <1>2, <2>4, <2>5 DEF Rank
<1>4. Cand # {}
  <2>1. A # {}
    <3>1. A = {} => Cardinality(A) = 0
      BY FS_EmptySet, Zenon
    <3> HIDE DEF A
    <3> QED
      BY <1>3, <3>1
  <2>2. PICK m \in A : \A j \in A : j <= m
    <3> HIDE DEF A
    <3> QED
      BY <1>2, <2>1, LastRow
  <2>3. Between(M, at, m) = A \ {m}
    <3>1. \A j \in M : at < j => (j < m <=> j # m)
      BY <1>0, <2>2
    <3> QED
      BY <3>1, Zenon DEF Between
  <2>4. Cardinality(A \ {m}) = Cardinality(A) - 1
    BY <1>2, FS_RemoveElement
  <2>5. Cardinality(Between(M, at, m)) >= skip
    <3> HIDE DEF A
    <3> QED
      BY <1>2, <1>3, <2>3, <2>4
  <2> QED
    BY <2>5
<1>5. PICK m \in Cand : \A j \in Cand : m <= j
  <2>1. Cand \in SUBSET A
    OBVIOUS
  <2>2. IsFiniteSet(Cand) /\ Cand \in SUBSET Nat
    BY <1>2, <2>1, FS_Subset
  <2> HIDE DEF Cand
  <2> QED
    BY <1>4, <2>2, FirstRow
<1>6. m \in M /\ at < m /\ Cardinality(Between(M, at, m)) >= skip
  OBVIOUS
<1>7. ASSUME Cardinality(Between(M, at, m)) > skip
      PROVE  FALSE
  <2> DEFINE B == Between(M, at, m)
  <2>1. IsFiniteSet(B) /\ Cardinality(B) \in Nat /\ B \in SUBSET Nat
    BY <1>1, <1>6 DEF Between
  <2>2. B # {}
    BY <1>7, FS_EmptySet, <2>1
  <2>3. PICK p \in B : \A j \in B : j <= p
    <3> HIDE DEF B
    <3> QED
      BY <2>1, <2>2, LastRow
  <2>4. p \in M /\ at < p /\ p < m
    BY DEF Between
  <2>5. Between(M, at, p) = B \ {p}
    <3>1. \A j \in M : (at < j /\ j < p) => (j < m /\ j # p)
      BY <1>0, <1>6, <2>4
    <3>2. \A j \in B : j # p => j < p
      BY <2>1, <2>3
    <3>3. \A j \in Between(M, at, p) : j \in B \ {p}
      BY <3>1 DEF Between
    <3>4. \A j \in B \ {p} : j \in Between(M, at, p)
      BY <3>2 DEF Between
    <3> QED
      BY <3>3, <3>4
  <2>6. Cardinality(B \ {p}) = Cardinality(B) - 1
    <3> HIDE DEF B
    <3> QED
      BY <2>1, <2>3, FS_RemoveElement
  <2>7. p \in Cand
    <3>1. Cardinality(Between(M, at, p)) >= skip
      <4> HIDE DEF B
      <4> QED
        BY <1>7, <2>1, <2>5, <2>6 DEF B
    <3> QED
      BY <2>4, <3>1
  <2> QED
    BY <1>0, <1>5, <1>6, <2>4, <2>7
<1> QED
  BY <1>1, <1>6, <1>7

\* Row i of a whole table of n rows has rank i.
LEMMA RankInTable ==
  ASSUME NEW n \in Nat, NEW i \in 1..n
  PROVE  Rank(1..n, i) = i
<1>1. UpTo(1..n, i) = 1..i
  BY DEF UpTo
<1> QED
  BY <1>1, FS_Interval DEF Rank

-----------------------------------------------------------------------------
(* Pages.                                                                  *)

\* Two rows of the same rank are the same row.
LEMMA RankUnique ==
  ASSUME NEW M \in SUBSET Nat, IsFiniteSet(M),
         NEW i \in M, NEW j \in M, Rank(M, i) = Rank(M, j)
  PROVE  i = j
<1>1. ASSUME NEW a \in M, NEW b \in M, a < b
      PROVE  Rank(M, a) < Rank(M, b)
  <2>1. a \in Nat
    OBVIOUS
  <2>2. /\ Cardinality(Between(M, a, b)) \in Nat
        /\ Rank(M, b) = Rank(M, a) + Cardinality(Between(M, a, b)) + 1
    BY <1>1, <2>1, RankStep
  <2>3. Rank(M, a) \in Nat
    BY <2>1, RankType
  <2> QED
    BY <2>2, <2>3
<1>2. i \in Nat /\ j \in Nat /\ Rank(M, i) \in Nat
  BY RankType
<1>3. ~(i < j) /\ ~(j < i)
  BY <1>1, <1>2
<1> QED
  BY <1>2, <1>3

\* A page is as long as there are rows for it, and no longer than its limit.
LEMMA PageType ==
  ASSUME NEW M \in SUBSET Nat, IsFiniteSet(M), NEW skip \in Nat, NEW limit \in Nat
  PROVE  /\ PageLen(M, skip, limit) \in 0..limit
         /\ Len(PageOf(M, skip, limit)) = PageLen(M, skip, limit)
         /\ DOMAIN PageOf(M, skip, limit) = 1..PageLen(M, skip, limit)
<1> DEFINE n == PageLen(M, skip, limit)
           page == PageOf(M, skip, limit)
           S == {page[k] : k \in 1..n}
<1>1. n \in 0..limit
  <2>1. Cardinality(M) \in Nat
    BY FS_CardinalityType
  <2> QED
    BY <2>1 DEF PageLen
<1>2. page = [k \in 1..n |-> page[k]]
  BY DEF PageOf
<1>3. Len(page) = n /\ DOMAIN page = 1..n
  <2>1. n \in Nat
    BY <1>1
  <2>2. page \in [1..n -> S]
    <3> HIDE DEF page, n
    <3> QED BY <1>2
  <2> HIDE DEF page, n, S
  <2>3. page \in Seq(S)
    BY <2>1, <2>2
  <2> QED
    BY <2>1, <2>2, <2>3
<1> QED
  BY <1>1, <1>3

\* Rows of the ranks that follow `skip`, as many as the limit allows, are the
\* first rows of the page.
LEMMA RowsOfPage ==
  ASSUME NEW M \in SUBSET Nat, IsFiniteSet(M), NEW skip \in Nat, NEW limit \in Nat,
         NEW rows \in Seq(Nat), Len(rows) <= limit,
         \A k \in 1..Len(rows) : rows[k] \in M /\ Rank(M, rows[k]) = skip + k
  PROVE  /\ Len(rows) \in 0..PageLen(M, skip, limit)
         /\ rows = SubSeq(PageOf(M, skip, limit), 1, Len(rows))
         /\ Len(rows) = PageLen(M, skip, limit) => rows = PageOf(M, skip, limit)
<1> DEFINE n == Len(rows)
           p == PageLen(M, skip, limit)
           page == PageOf(M, skip, limit)
<1>1. n \in Nat /\ p \in 0..limit /\ Len(page) = p /\ DOMAIN page = 1..p
  <2>1. n \in Nat
    OBVIOUS
  <2> HIDE DEF n
  <2> QED
    BY <2>1, PageType
<1>2. n \in 0..p
  <2>1. Cardinality(M) \in Nat
    BY FS_CardinalityType
  <2>2. n > 0 => rows[n] \in M /\ Rank(M, rows[n]) = skip + n
    BY <1>1
  <2>3. n > 0 => skip + n <= Cardinality(M)
    BY <2>2, RankType
  <2> HIDE DEF n
  <2>4. n <= limit /\ n \in Nat
    BY <1>1 DEF n
  <2> QED
    BY <1>1, <2>1, <2>3, <2>4 DEF PageLen
<1>3. ASSUME NEW k \in 1..n PROVE page[k] = rows[k]
  <2>1. k \in 1..p
    BY <1>1, <1>2
  <2>2. page[k] = CHOOSE i \in M : Rank(M, i) = skip + k
    BY <2>1 DEF PageOf
  <2>3. rows[k] \in M /\ Rank(M, rows[k]) = skip + k
    BY <1>3
  <2>4. \A i \in M : Rank(M, i) = skip + k => i = rows[k]
    <3> SUFFICES ASSUME NEW i \in M, Rank(M, i) = skip + k PROVE i = rows[k]
      OBVIOUS
    <3>1. Rank(M, i) = Rank(M, rows[k])
      BY <2>3
    <3> QED
      BY <2>3, <3>1, RankUnique
  <2> QED
    BY <2>2, <2>3, <2>4
<1>4. rows = SubSeq(page, 1, n)
  <2> HIDE DEF page, p
  <2>1. DOMAIN rows = 1..n /\ rows = [k \in 1..n |-> rows[k]]
    OBVIOUS
  <2>2. SubSeq(page, 1, n) = [k \in 1..n |-> page[k]]
    BY <1>1, <1>2
  <2> QED
    BY <1>3, <2>1, <2>2
<1>5. n = p => rows = page
  <2>1. rows = [k \in 1..n |-> rows[k]] /\ page = [k \in 1..p |-> page[k]]
    BY DEF PageOf
  <2> HIDE DEF page, p, n
  <2> QED
    BY <1>3, <2>1
<1> QED
  BY <1>2, <1>4, <1>5

\* There is a row of every rank, and a page has it in its place.
LEMMA RankOnPage ==
  ASSUME NEW M \in SUBSET (Nat \ {0}), IsFiniteSet(M), NEW skip \in Nat, NEW limit \in Nat,
         NEW k \in 1..PageLen(M, skip, limit)
  PROVE  /\ PageOf(M, skip, limit)[k] \in M
         /\ Rank(M, PageOf(M, skip, limit)[k]) = skip + k
<1>1. PageLen(M, skip, limit) \in 0..limit /\ Cardinality(M) \in Nat /\ M \in SUBSET Nat
  BY PageType, FS_CardinalityType
<1>2. skip + k <= Cardinality(M) /\ skip + k - 1 \in Nat
  BY <1>1 DEF PageLen
<1>3. Rank(M, 0) = 0
  <2>1. UpTo(M, 0) = {}
    <3>1. \A j \in M : ~(j <= 0)
      OBVIOUS
    <3> QED
      BY <3>1, Zenon DEF UpTo
  <2> QED
    BY <2>1, FS_EmptySet DEF Rank
<1>4. PICK i \in M : 0 < i /\ Cardinality(Between(M, 0, i)) = skip + k - 1
  <2>1. Rank(M, 0) + (skip + k - 1) < Cardinality(M)
    BY <1>1, <1>2, <1>3
  <2> QED
    BY <1>1, <1>2, <2>1, NextRowExists
<1>5. Rank(M, i) = skip + k
  <2>1. Rank(M, i) = Rank(M, 0) + Cardinality(Between(M, 0, i)) + 1
    BY <1>1, <1>4, RankStep
  <2> QED
    BY <1>2, <1>3, <1>4, <2>1
<1>6. PageOf(M, skip, limit)[k] = CHOOSE j \in M : Rank(M, j) = skip + k
  BY DEF PageOf
<1> QED
  BY <1>5, <1>6

\* A page is a sequence of rows of M.
LEMMA PageRows ==
  ASSUME NEW M \in SUBSET (Nat \ {0}), IsFiniteSet(M), NEW skip \in Nat, NEW limit \in Nat
  PROVE  PageOf(M, skip, limit) \in Seq(Nat)
<1> DEFINE n == PageLen(M, skip, limit)
           page == PageOf(M, skip, limit)
<1>1. n \in Nat
  <2>1. M \in SUBSET Nat
    OBVIOUS
  <2> QED
    BY <2>1, PageType
<1>2. \A k \in 1..n : page[k] \in Nat
  BY RankOnPage
<1>3. page = [k \in 1..n |-> page[k]]
  BY DEF PageOf
<1> HIDE DEF n, page
<1>4. page \in [1..n -> Nat]
  BY <1>2, <1>3
<1>5. page \in Seq(Nat)
  BY <1>1, <1>4
<1> QED
  BY <1>5 DEF page

\* Positions in pages of one size name different ranks.
LEMMA PlacesDiffer ==
  ASSUME NEW size \in Nat, NEW p \in Nat \ {0}, NEW q \in Nat \ {0},
         NEW k \in 1..size, NEW l \in 1..size,
         FirstOf(p, size) + k = FirstOf(q, size) + l
  PROVE  p = q /\ k = l
<1>1. ASSUME NEW a \in Nat \ {0}, NEW b \in Nat \ {0}, a < b
      PROVE  FirstOf(a, size) + size <= FirstOf(b, size)
  <2> DEFINE d == b - 1 - a
  <2>1. d \in Nat /\ b - 1 = (a - 1) + 1 + d
    BY <1>1
  <2>2. (b - 1) * size = (a - 1) * size + size + d * size /\ d * size \in Nat
    <3> HIDE DEF d
    <3> QED
      BY <2>1
  <2>3. (a - 1) * size \in Nat
    OBVIOUS
  <2> HIDE DEF d
  <2> QED
    BY <2>2, <2>3 DEF FirstOf
<1>2. FirstOf(p, size) \in Nat /\ FirstOf(q, size) \in Nat
  BY DEF FirstOf
<1>3. ~(p < q) /\ ~(q < p)
  BY <1>1, <1>2
<1>4. p = q
  BY <1>3
<1> QED
  BY <1>2, <1>4

\* The pages of one size, laid end to end, are the rows of M, each of them in one
\* place: a client that asks for page 1, 2, ... misses no reading and gets none
\* twice, whatever page size it has chosen.
THEOREM EachRowOnOnePage ==
  ASSUME NEW M \in SUBSET (Nat \ {0}), IsFiniteSet(M), NEW size \in Nat \ {0}, NEW i \in M
  PROVE  \E p \in Nat \ {0} : \E k \in 1..PageLen(M, FirstOf(p, size), size) :
           /\ PageOf(M, FirstOf(p, size), size)[k] = i
           /\ \A q \in Nat \ {0} : \A l \in 1..PageLen(M, FirstOf(q, size), size) :
                PageOf(M, FirstOf(q, size), size)[l] = i => q = p /\ l = k
<1> DEFINE r == Rank(M, i)
           d == (r - 1) \div size
           m == (r - 1) % size
           p == d + 1
           k == m + 1
<1>1. /\ M \in SUBSET Nat /\ Cardinality(M) \in Nat /\ i \in Nat
      /\ r \in Nat /\ r <= Cardinality(M)
  BY RankType
<1>2. r >= 1
  <2>1. UpTo(M, i) # {} /\ IsFiniteSet(UpTo(M, i))
    <3>1. i \in UpTo(M, i)
      BY DEF UpTo
    <3>2. UpTo(M, i) \subseteq M
      BY DEF UpTo
    <3> QED
      BY <3>1, <3>2, FS_Subset
  <2> QED
    BY <1>1, <2>1, FS_EmptySet DEF Rank
<1> HIDE DEF r
<1>3. /\ p \in Nat \ {0} /\ k \in 1..size
      /\ r = FirstOf(p, size) + k
  <2>1. d \in Nat /\ m \in 0..(size - 1) /\ r - 1 = size * d + m
    BY <1>1, <1>2
  <2> HIDE DEF d, m
  <2>2. p - 1 = d /\ size * d = d * size /\ d * size \in Nat
    BY <2>1
  <2>3. FirstOf(p, size) = d * size
    BY <2>2, Zenon DEF FirstOf
  <2>4. r = d * size + k
    BY <1>1, <2>1, <2>2
  <2>5. p \in Nat \ {0} /\ k \in 1..size
    BY <2>1
  <2> QED
    BY <2>3, <2>4, <2>5
<1> HIDE DEF p, k, d, m
<1>4. \A q \in Nat \ {0} : FirstOf(q, size) \in Nat
  BY DEF FirstOf
<1>5. k \in 1..PageLen(M, FirstOf(p, size), size)
  <2>1. FirstOf(p, size) \in Nat
    BY <1>3, <1>4
  <2> QED
    BY <1>1, <1>3, <2>1 DEF PageLen
<1>6. PageOf(M, FirstOf(p, size), size)[k] = i
  <2>1. /\ PageOf(M, FirstOf(p, size), size)[k] \in M
        /\ Rank(M, PageOf(M, FirstOf(p, size), size)[k]) = Rank(M, i)
    BY <1>3, <1>4, <1>5, RankOnPage DEF r
  <2> DEFINE j == PageOf(M, FirstOf(p, size), size)[k]
  <2> HIDE DEF j
  <2>2. j \in M /\ Rank(M, j) = Rank(M, i)
    BY <2>1 DEF j
  <2>3. j = i
    BY <1>1, <2>2, RankUnique
  <2> QED
    BY <2>3 DEF j
<1>7. ASSUME NEW q \in Nat \ {0}, NEW l \in 1..PageLen(M, FirstOf(q, size), size),
             PageOf(M, FirstOf(q, size), size)[l] = i
      PROVE  q = p /\ l = k
  <2>1. r = FirstOf(q, size) + l
    BY <1>4, <1>7, RankOnPage DEF r
  <2>2. l \in 1..size
    <3>1. PageLen(M, FirstOf(q, size), size) \in 0..size
      BY <1>1, <1>4, PageType
    <3> QED
      BY <3>1
  <2> QED
    BY <1>3, <2>1, <2>2, PlacesDiffer
<1> QED
  BY <1>3, <1>5, <1>6, <1>7

-----------------------------------------------------------------------------
(* The tables.                                                             *)

\* A call is of one of three kinds and carries the arguments of its kind.
LEMMA CallKinds ==
  ASSUME NEW c \in Call
  PROVE  \/ c.op = "stations" /\ c = getAllStations
         \/ c.op = "river" /\ c.page \in CInt /\ c.size \in UInt8s
         \/ c.op = "rainfall" /\ c.page \in CInt /\ c.size \in UInt8s /\ c.station \in Names
BY DEF Call, StationsCall, RiverCall, RainCall, getAllStations

\* A statement matches finitely many rows, all of them after position 0.
LEMMA MatchesType ==
  ASSUME NEW c \in Call, NEW map
  PROVE  /\ Matches(c, map) \in SUBSET (Nat \ {0})
         /\ IsFiniteSet(Matches(c, map))
<1>1. /\ Len(StationRows) \in Nat /\ DOMAIN StationRows = 1..Len(StationRows)
      /\ Len(RiverRows) \in Nat /\ DOMAIN RiverRows = 1..Len(RiverRows)
      /\ Len(RainRows) \in Nat /\ DOMAIN RainRows = 1..Len(RainRows)
  BY TablesAssumption
<1>2. PICK n \in Nat : Matches(c, map) \in SUBSET (1..n)
  <2>1. CASE c.op = "stations"
    BY <1>1, <2>1 DEF Matches
  <2>2. CASE c.op = "river"
    BY <1>1, <2>2 DEF Matches, RiverMatches
  <2>3. CASE c.op = "rainfall"
    BY <1>1, <2>3 DEF Matches, RainMatches
  <2> QED
    BY <2>1, <2>2, <2>3, CallKinds
<1>3. IsFiniteSet(1..n)
  BY FS_Interval
<1> QED
  BY <1>2, <1>3, FS_Subset

\* LIMIT and OFFSET are natural numbers.
LEMMA PlanType ==
  ASSUME NEW c \in Call
  PROVE  SkipOf(c) \in Nat /\ LimitOf(c) \in Nat
<1>1. Len(StationRows) \in Nat
  BY TablesAssumption
<1>2. CASE c.op = "stations"
  BY <1>1, <1>2 DEF SkipOf, LimitOf
<1>3. CASE c.op # "stations"
  <2>1. c.page \in CInt /\ c.size \in UInt8s
    BY <1>3, CallKinds
  <2>2. Skipped(c.page, c.size) \in Nat
    BY <2>1, SkippedType
  <2> QED
    BY <1>3, <2>1, <2>2 DEF SkipOf, LimitOf, UInt8s
<1> QED
  BY <1>2, <1>3

\* A map that has the right identifier for its station gives a call its own rows.
LEMMA MatchesAgree ==
  ASSUME NEW c \in Call, NEW map,
         c.op = "rainfall" => map[c.station] = FullMap[c.station]
  PROVE  Matches(c, map) = Matches(c, FullMap)
BY CallKinds DEF Matches

\* The first row with a name, among the first n rows of the station table.
LEMMA FirstRowOfName ==
  ASSUME NEW n \in 0..Len(StationRows),
         NEW name \in {StationRows[i].name : i \in 1..n}
  PROVE  \E i \in 1..n :
           /\ StationRows[i].name = name
           /\ \A j \in 1..n : StationRows[j].name = name => i <= j
<1>1. Len(StationRows) \in Nat
  BY TablesAssumption
<1> DEFINE T == {i \in 1..n : StationRows[i].name = name}
<1>2. T \in SUBSET (1..n) /\ T # {} /\ T \in SUBSET Nat
  BY <1>1
<1>3. IsFiniteSet(T)
  <2>1. IsFiniteSet(1..n)
    BY <1>1, FS_Interval
  <2> QED
    BY <1>2, <2>1, FS_Subset
<1>4. \E i \in T : \A j \in T : i <= j
  <2> HIDE DEF T
  <2> QED
    BY <1>2, <1>3, FirstRow
<1> QED
  BY <1>4

\* The station table.
LEMMA StationTable ==
  /\ Len(StationRows) \in Nat
  /\ DOMAIN StationRows = 1..Len(StationRows)
  /\ \A i \in 1..Len(StationRows) : StationRows[i] \in [id : Ids, name : Names]
<1> DEFINE S == [id : Ids, name : Names]
<1>1. StationRows \in Seq(S)
  BY TablesAssumption
<1> HIDE DEF S
<1>2. /\ Len(StationRows) \in Nat
      /\ DOMAIN StationRows = 1..Len(StationRows)
      /\ \A i \in 1..Len(StationRows) : StationRows[i] \in S
  BY <1>1
<1> QED
  BY <1>2 DEF S
=============================================================================
