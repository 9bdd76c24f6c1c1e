------------------------------- MODULE Paging -------------------------------
(***************************************************************************)
(* How a page number and a page size become the LIMIT and OFFSET of a      *)
(* query: the C++ integers the values pass through on their way from the   *)
(* request (int, then uint8_t) to the SQL text, and what SQLite makes of   *)
(* them.  The second half says what a page is, over any set of rows.       *)
(*                                                                         *)
(* A row is its position in the order in which SQLite visits the table.    *)
(* No query has an ORDER BY, so nothing relates that order to timestamps.  *)
(***************************************************************************)
EXTENDS Integers, Sequences, FiniteSets

CONSTANT IntMax          \* INT_MAX, the largest C++ int of the build

ASSUME IntMaxAssumption == IntMax \in Nat /\ IntMax >= 255

-----------------------------------------------------------------------------
(* Machine integers.                                                       *)

CInt == -(IntMax + 1) .. IntMax
UInt8s == 0..255

\* The result of int arithmetic in the build: the multiply and subtract
\* instructions keep the low bits and the sign bit is read back.
Wrap(n) == ((n + IntMax + 1) % (2 * (IntMax + 1))) - (IntMax + 1)

\* The conversion of an int argument to a uint8_t parameter.
UInt8(n) == n % 256

-----------------------------------------------------------------------------
(* LIMIT and OFFSET.                                                       *)

PAGE_OFFSET == 1

\* A mutant of Offset: pages counted from 0.
ZeroBasedOffset(page, size) == Wrap(page * size)

\* ((page - PAGE_OFFSET) * pageSize), all of it in int arithmetic.
Offset(page, size) == Wrap(Wrap(page - PAGE_OFFSET) * size)

\* SQLite reads a negative OFFSET as 0.
Skipped(page, size) ==
  IF Offset(page, size) < 0 THEN 0 ELSE Offset(page, size)

-----------------------------------------------------------------------------
(* What a page is.  M is a finite set of row positions.                    *)

\* Rows of M up to and including position i.
UpTo(M, i) == {j \in M : j <= i}

\* The place of row i among the rows of M, counted from 1.
Rank(M, i) == Cardinality(UpTo(M, i))

\* Rows of M strictly between positions a and i.
Between(M, a, i) == {j \in M : a < j /\ j < i}

\* How many rows are left for a page that skips the first `skip` rows.
PageLen(M, skip, limit) ==
  LET rest == Cardinality(M) - skip
  IN  IF rest <= 0 THEN 0 ELSE IF rest < limit THEN rest ELSE limit

\* The rows of M that a page of at most `limit` rows holds after `skip` rows.
PageOf(M, skip, limit) ==
  [k \in 1..PageLen(M, skip, limit) |->
     CHOOSE i \in M : Rank(M, i) = skip + k]

\* The page a caller means by a page number and a size: page p holds the rows
\* whose ranks are (p - 1) * size + 1 up to p * size.
FirstOf(page, size) == (page - 1) * size

\* The arguments for which FirstOf is a non-negative C++ int.
Representable(page, size) == FirstOf(page, size) \in 0..IntMax
=============================================================================
