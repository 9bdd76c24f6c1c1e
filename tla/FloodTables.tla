---------------------------- MODULE FloodTables ----------------------------
(***************************************************************************)
(* The flood database as the program reads it: three tables that no code   *)
(* of the program writes, and what its three SELECT statements match.      *)
(*                                                                         *)
(* Levels, the text form of a timestamp and the 'T' and 'Z' put into it    *)
(* are functions of the row, so a row is returned as its position.  A time *)
(* stamp or a start text is its place among them all in the order of text, *)
(* which is the order SQLite compares them in.                             *)
(***************************************************************************)
EXTENDS Paging, Functions

CONSTANTS
  Names,         \* station names
  Ids,           \* station identifiers
  StationRows,   \* table StationNames: a sequence of [id, name]
  RiverRows,     \* table RiverLevels: the time stamps of its rows
  RainRows,      \* table Rainfalls: a sequence of [station, ts]
  NoStart,       \* the empty start text
  BadStart,      \* a start text that does not stay inside its quotes
  None           \* no call, no statement, no reply

ASSUME TablesAssumption ==
  /\ StationRows \in Seq([id : Ids, name : Names])
  /\ RiverRows \in Seq(Nat)
  /\ RainRows \in Seq([station : Ids, ts : Nat])
  /\ NoStart \notin Nat /\ BadStart \notin Nat /\ NoStart # BadStart

Starts == Nat \cup {NoStart, BadStart}

(* The calls of IFloodRepository.                                          *)
StationsCall == [op : {"stations"}]
RiverCall == [op : {"river"}, start : Starts, page : CInt, size : UInt8s]
RainCall ==
  [op : {"rainfall"}, station : Names, start : Starts, page : CInt, size : UInt8s]
Call == StationsCall \cup RiverCall \cup RainCall

getAllStations == [op |-> "stations"]

\* The calls the callers of a run make.
CONSTANT Calls

ASSUME CallsAssumption == Calls \subseteq Call /\ None \notin Call

-----------------------------------------------------------------------------
(* The station map.                                                        *)

\* A mutant of IdIn: m_stationMap[name] = id, so the last row wins.
LastIdIn(R, name) ==
  StationRows[CHOOSE i \in R :
                /\ StationRows[i].name = name
                /\ \A j \in R : StationRows[j].name = name => i >= j].id

\* std::map::insert keeps the value a key already has, and rows are inserted
\* in ascending order: the first of the rows R with a name gives its id.
IdIn(R, name) ==
  StationRows[CHOOSE i \in R :
                /\ StationRows[i].name = name
                /\ \A j \in R : StationRows[j].name = name => i <= j].id

\* The map getAllStations builds from the rows R.
MapOf(R) == [name \in {StationRows[i].name : i \in R} |-> IdIn(R, name)]

EmptyMap == MapOf({})

\* The map of the whole table.
FullMap == MapOf(DOMAIN StationRows)

-----------------------------------------------------------------------------
(* The rows each statement matches.                                        *)

\* timestamp >= 'start', left out of the statement when start is empty.
After(ts, start) == start = NoStart \/ (start \in Nat /\ ts >= start)

\* The start text goes into the SQL as it is.  With a quote in it the statement is
\* not the one that was meant: it does not compile, or it is another SELECT.
Misquoted(c) == c.op # "stations" /\ c.start = BadStart

RiverMatches(start) == {i \in DOMAIN RiverRows : After(RiverRows[i], start)}

RainMatches(id, start) ==
  {i \in DOMAIN RainRows : RainRows[i].station = id /\ After(RainRows[i].ts, start)}

\* The rows the statement of call c matches when station names are looked up
\* in `map`.
Matches(c, map) ==
  CASE c.op = "stations" -> DOMAIN StationRows
    [] c.op = "river"    -> RiverMatches(c.start)
    [] c.op = "rainfall" -> RainMatches(map[c.station], c.start)

\* A mutant of SkipOf: a negative offset handed on as it is.
UnclampedSkip(c) == IF c.op = "stations" THEN 0 ELSE Offset(c.page, c.size)

\* Rows the statement passes over before its first result.
SkipOf(c) == IF c.op = "stations" THEN 0 ELSE Skipped(c.page, c.size)

\* A mutant of LimitOf: one more, to see whether there is another page.
LimitOneMore(c) == IF c.op = "stations" THEN Len(StationRows) + 1 ELSE c.size + 1

\* The largest number of results of the statement.  The one of getAllStations has
\* no LIMIT: it never gets to the end of one.
LimitOf(c) == IF c.op = "stations" THEN Len(StationRows) + 1 ELSE c.size

\* A mutant of Known: the map is asked for the identifier.
KnownById(c, names) == c.op = "rainfall" => c.station \in Ids

\* A call names only known stations.  stationExists and at() agree on it.
Known(c, names) == c.op = "rainfall" => c.station \in names

-----------------------------------------------------------------------------
(* How a scan went.  A scan that an error ended is short.  A scan is spoilt *)
(* when it read a page that is not the one it wanted: the VFS leaves the   *)
(* buffer of a failed read as it was, and SQLite takes what is in it.  The *)
(* scan of a statement that is not the one that was meant is spoilt too.   *)

Fates == {"whole", "short", "spoilt"}

\* What a call returns, with the fate of its scan.
Answers == [call : Call, rows : Seq(Nat), fate : Fates]

ASSUME AnswersAssumption == None \notin Answers

\* The rows of a spoilt scan come from anywhere: 0 stands for them, and all
\* that is kept is whether there are any.  A misquoted start may have cut off the
\* LIMIT behind it.
SpoiltRows(c) == {s \in {<<>>, <<0>>} : Misquoted(c) \/ Len(s) <= LimitOf(c)}
=============================================================================
