----------------------------- MODULE FloodStore -----------------------------
(***************************************************************************)
(* What IFloodRepository promises the routes, without SQLite, the card or  *)
(* the steps of a query.                                                   *)
(*                                                                         *)
(* The store is down or up.  Coming up it learns the station names.  Up,   *)
(* it answers one call at a time.  The answer to a query is the page that  *)
(* the caller means; an error that the code swallows can cut it short, and *)
(* then it is a prefix of that page, or a read that fails unnoticed can    *)
(* spoil it, and then it is anything.  Any exception takes the whole       *)
(* device down.                                                            *)
(***************************************************************************)
EXTENDS FloodTables

VARIABLES
  up,         \* init() has returned
  known,      \* the station names
  knownFate,  \* the fate of the scan that found them
  job,        \* the call in progress, or None
  fate,       \* the fate of the scan in progress so far
  answer      \* the last call that returned, with its result, or None

storeVars == <<up, known, knownFate, job, fate, answer>>

StoreTypeOK ==
  /\ up \in BOOLEAN
  /\ known \subseteq Names
  /\ knownFate \in Fates
  /\ job \in Call \cup {None}
  /\ fate \in Fates
  /\ answer \in Answers \cup {None}

StoreInit ==
  /\ up = FALSE
  /\ known = {}
  /\ knownFate = "whole"
  /\ job = None
  /\ fate = "whole"
  /\ answer = None

\* The pages a query can mean.  A page number that does not name a page, or one
\* beyond the range of int, means no page in particular: the code then reads
\* from some other place of the same rows.
Pages(c) ==
  LET M == Matches(c, FullMap)
  IN  IF c = getAllStations
        THEN {PageOf(M, 0, LimitOf(c))}
      ELSE IF Representable(c.page, c.size)
        THEN {PageOf(M, FirstOf(c.page, c.size), c.size)}
        ELSE {PageOf(M, first, c.size) : first \in 0..Cardinality(M)}

\* The rows a scan of that fate gives for c.
Results(c, f) ==
  CASE f = "whole"  -> Pages(c)
    [] f = "short"  -> UNION {{SubSeq(page, 1, n) : n \in 0..Len(page)} : page \in Pages(c)}
    [] f = "spoilt" -> SpoiltRows(c)

\* The station names in those rows of the station table.
NamesIn(rows, f) ==
  IF f = "spoilt"
    THEN {names \in SUBSET Names : names = {} <=> rows = <<>>}
    ELSE {{StationRows[i].name : i \in 1..Len(rows)}}

\* The name of a station in a query becomes an identifier: a spoilt station map
\* spoils the queries that use it.  Nothing is promised of a misquoted query.
FateOf(c, f) ==
  IF (c.op = "rainfall" /\ knownFate = "spoilt") \/ Misquoted(c) THEN "spoilt" ELSE f

\* init() returns.
Open ==
  /\ ~up
  /\ up' = TRUE
  /\ \E rows \in Results(getAllStations, fate) : known' \in NamesIn(rows, fate)
  /\ known' # {}
  /\ knownFate' = fate
  /\ fate' = "whole"
  /\ UNCHANGED <<job, answer>>

\* A caller that asks for an unknown station gets an exception, not a job.
Ask(c) ==
  /\ up
  /\ job = None
  /\ Known(c, known)
  /\ job' = c
  /\ answer' = None
  /\ UNCHANGED <<up, known, knownFate, fate>>

\* sqlite3_step reports an error and the scan loop takes it for the end.
Cut ==
  /\ ~up \/ job # None
  /\ fate = "whole"
  /\ fate' = "short"
  /\ UNCHANGED <<up, known, knownFate, job, answer>>

\* A page is not the one that was to be read, or the statement is not the one that
\* was meant.
Spoil ==
  /\ ~up \/ job # None
  /\ fate = "whole"
  /\ fate' = "spoilt"
  /\ UNCHANGED <<up, known, knownFate, job, answer>>

\* getRiverReadings or getStationRainfallReadings returns.
AnswerQuery ==
  /\ job # None
  /\ job # getAllStations
  /\ LET f == FateOf(job, fate)
     IN  \E rows \in Results(job, f) :
           answer' = [call |-> job, rows |-> rows, fate |-> f]
  /\ job' = None
  /\ fate' = "whole"
  /\ UNCHANGED <<up, known, knownFate>>

\* getAllStations returns.
AnswerStations ==
  /\ job = getAllStations
  /\ \E rows \in Results(job, fate) :
       /\ known' \in NamesIn(rows, fate)
       /\ answer' = [call |-> job, rows |-> rows, fate |-> fate]
  /\ knownFate' = fate
  /\ job' = None
  /\ fate' = "whole"
  /\ UNCHANGED up

\* An exception or a reset: the device loses everything it kept in memory.
Lose ==
  /\ up' = FALSE
  /\ known' = {}
  /\ knownFate' = "whole"
  /\ job' = None
  /\ fate' = "whole"
  /\ answer' = None

StoreNext ==
  \/ Open
  \/ \E c \in Calls : Ask(c)
  \/ Cut
  \/ Spoil
  \/ AnswerQuery
  \/ AnswerStations
  \/ Lose

StoreSpec == StoreInit /\ [][StoreNext]_storeVars
=============================================================================
