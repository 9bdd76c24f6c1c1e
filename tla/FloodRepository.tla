-------------------------- MODULE FloodRepository --------------------------
(***************************************************************************)
(* FloodRepository step by step: init() up to the station cache, then one  *)
(* query at a time as a prepared statement that is stepped row by row.     *)
(*                                                                         *)
(* The SD card can be pulled out and put back at any moment, and single    *)
(* reads can fail: sqlite3_prepare reports it and the code throws, but the *)
(* scan loops take any result that is not SQLITE_ROW for the end of the    *)
(* rows.  And a failure need not even reach SQLite: ESP32Read calls every  *)
(* failed read a short one and does not fill the buffer, and SQLite takes  *)
(* what it finds there for the page.  No exception is caught anywhere, so  *)
(* a throw ends in abort() and the device starts again.                    *)
(***************************************************************************)
EXTENDS FloodTables

CONSTANTS
  MaxFaults,   \* bound: single operations that fail although the card is fine
  MaxEjects,   \* bound: times the card is pulled out
  MaxCrashes   \* bound: resets that no exception of the program causes

ASSUME BoundsAssumption ==
  MaxFaults \in Nat /\ MaxEjects \in Nat /\ MaxCrashes \in Nat

VARIABLES
  pc,          \* where the main task is in the repository
  up,          \* init() has returned since the last reset
  inserted,    \* there is a card in the slot
  mounted,     \* SD.begin has mounted the card that is in the slot
  file,        \* the database file: "absent", "blank" or "flood"
  conn,        \* m_floodDb is an open connection
  stale,       \* the page cache holds a page under the number of another one
  stationMap,  \* m_stationMap
  mapFate,     \* the fate of the scan that filled m_stationMap
  call,        \* the call in progress, or None
  stmt,        \* the prepared statement, or None
  rows,        \* the local `result` of the call in progress
  fate,        \* the fate of the scan in progress so far
  reply,       \* what the last call returned, or None
  faults, ejects, crashes

card == <<inserted, mounted, file>>
memory == <<up, conn, stale, stationMap, mapFate, call, stmt, rows, fate, reply>>
budget == <<faults, ejects, crashes>>
vars == <<pc, card, memory, budget>>

PCs == {"off", "mount", "open", "idle", "prepare", "step", "finalize", "aborted"}

\* A statement: the rows it matches, the row it is at, rows it still has to
\* pass over and results it may still give.
Stmt == [match : SUBSET Nat, at : Nat, skip : Nat, left : Nat]

StationMap == UNION {[D -> Ids] : D \in SUBSET Names}

TypeOK ==
  /\ pc \in PCs
  /\ up \in BOOLEAN
  /\ inserted \in BOOLEAN
  /\ mounted \in BOOLEAN
  /\ file \in {"absent", "blank", "flood"}
  /\ conn \in BOOLEAN
  /\ stale \in BOOLEAN
  /\ stationMap \in StationMap
  /\ mapFate \in Fates
  /\ call \in Call \cup {None}
  /\ stmt \in Stmt \cup {None}
  /\ rows \in Seq(Nat)
  /\ fate \in Fates
  /\ reply \in Answers \cup {None}
  /\ faults \in 0..MaxFaults
  /\ ejects \in 0..MaxEjects
  /\ crashes \in 0..MaxCrashes

\* What a reset leaves of the device's memory.
MemoryLost ==
  /\ up' = FALSE
  /\ conn' = FALSE
  /\ stale' = FALSE
  /\ stationMap' = EmptyMap
  /\ mapFate' = "whole"
  /\ call' = None
  /\ stmt' = None
  /\ rows' = <<>>
  /\ fate' = "whole"
  /\ reply' = None

Init ==
  /\ pc = "off"
  /\ up = FALSE
  /\ inserted \in BOOLEAN
  /\ mounted = FALSE
  /\ file \in {"absent", "blank", "flood"}
  /\ conn = FALSE
  /\ stale = FALSE
  /\ stationMap = EmptyMap
  /\ mapFate = "whole"
  /\ call = None
  /\ stmt = None
  /\ rows = <<>>
  /\ fate = "whole"
  /\ reply = None
  /\ faults = 0 /\ ejects = 0 /\ crashes = 0

-----------------------------------------------------------------------------
(* The card and the device.                                                *)

Eject ==
  /\ inserted
  /\ ejects < MaxEjects
  /\ inserted' = FALSE
  /\ mounted' = FALSE
  /\ ejects' = ejects + 1
  /\ UNCHANGED <<pc, file, memory, faults, crashes>>

\* A card put back is not mounted: only init() calls SD.begin.
Insert ==
  /\ ~inserted
  /\ inserted' = TRUE
  /\ UNCHANGED <<pc, mounted, file, memory, budget>>

\* An operation on the card fails: always without a mounted card, and a
\* bounded number of times with one.
Fails ==
  IF mounted
    THEN faults < MaxFaults /\ faults' = faults + 1 /\ UNCHANGED <<ejects, crashes>>
    ELSE UNCHANGED budget

\* An allocation fails or a driver call returns an error.
Fault == faults < MaxFaults /\ faults' = faults + 1 /\ UNCHANGED <<ejects, crashes>>

\* An exception leaves the repository.  Nothing on its way finalizes the
\* statement or closes the connection.
Throw == pc' = "aborted" /\ UNCHANGED memory

\* std::terminate calls abort() and the panic handler restarts the device.
Reboot ==
  /\ pc = "aborted"
  /\ pc' = "off"
  /\ mounted' = FALSE
  /\ MemoryLost
  /\ UNCHANGED <<inserted, file, budget>>

\* Power loss, brown-out or watchdog, at any point of the program.
Crash ==
  /\ pc \notin {"off", "aborted"}
  /\ crashes < MaxCrashes
  /\ crashes' = crashes + 1
  /\ pc' = "off"
  /\ mounted' = FALSE
  /\ MemoryLost
  /\ UNCHANGED <<inserted, file, faults, ejects>>

-----------------------------------------------------------------------------
(* init().                                                                 *)

BeginInit ==
  /\ pc = "off"
  /\ pc' = "mount"
  /\ UNCHANGED <<card, memory, budget>>

\* while (!SD.begin(...)) tries again for ever: without a card the task stays
\* here.
Mount ==
  /\ pc = "mount"
  /\ inserted
  /\ mounted' = TRUE
  /\ pc' = "open"
  /\ UNCHANGED <<inserted, file, memory, budget>>

\* SD.begin succeeded but cardType() is CARD_NONE, or sqlite3_initialize fails.
InitThrows ==
  /\ pc \in {"mount", "open"}
  /\ Fault
  /\ Throw
  /\ UNCHANGED card

\* sqlite3_open: the VFS opens a file that stat() finds with "r+".
OpenExisting ==
  /\ pc = "open"
  /\ mounted
  /\ file # "absent"
  /\ conn' = TRUE
  /\ call' = getAllStations
  /\ pc' = "prepare"
  /\ UNCHANGED <<card, up, stale, stationMap, mapFate, stmt, rows, fate, reply, budget>>

\* A file that stat() does not find is opened with "w+", which creates it, or
\* empties it when it was there after all.
OpenCreates ==
  /\ pc = "open"
  /\ mounted
  /\ IF file = "absent" THEN UNCHANGED budget ELSE Fault
  /\ file' = "blank"
  /\ conn' = TRUE
  /\ call' = getAllStations
  /\ pc' = "prepare"
  /\ UNCHANGED <<inserted, mounted>>
  /\ UNCHANGED <<up, stale, stationMap, mapFate, stmt, rows, fate, reply>>

\* A mutant of OpenThrows: the result of openDb is not looked at.
OpenFailureIgnored ==
  /\ pc = "open"
  /\ Fails
  /\ call' = getAllStations
  /\ pc' = "prepare"
  /\ UNCHANGED <<card, up, conn, stale, stationMap, mapFate, stmt, rows, fate, reply>>

\* fopen fails: SQLITE_CANTOPEN.
OpenThrows ==
  /\ pc = "open"
  /\ Fails
  /\ Throw
  /\ UNCHANGED card

-----------------------------------------------------------------------------
(* The calls of the interface.                                             *)

\* Entry of a call: m_stationMap.at throws for a name that is not in the map.
Issue(c) ==
  /\ pc = "idle"
  /\ IF Known(c, DOMAIN stationMap)
       THEN /\ pc' = "prepare"
            /\ call' = c
            /\ reply' = None
            /\ UNCHANGED <<up, conn, stale, stationMap, mapFate, stmt, rows, fate>>
       ELSE Throw

BeginCall ==
  /\ \E c \in Calls : Issue(c)
  /\ UNCHANGED <<card, budget>>

\* A mutant of Plan: LIMIT and OFFSET swapped.
PlanSwapped(c) ==
  LET counts == IF c = getAllStations
                  THEN <<SkipOf(c), LimitOf(c)>>
                  ELSE <<LimitOf(c), SkipOf(c)>>
  IN  [match |-> Matches(c, stationMap),
       at    |-> 0,
       skip  |-> counts[1],
       left  |-> counts[2]]

\* The statement of the call in progress, before its first step.
Plan(c) ==
  [match |-> Matches(c, stationMap),
   at    |-> 0,
   skip  |-> SkipOf(c),
   left  |-> LimitOf(c)]

\* The tables must be in the file.  Once SQLite has read the schema it can
\* prepare a statement without touching the card.  What a misquoted statement
\* selects cannot be told.
Prepare ==
  /\ pc = "prepare"
  /\ file = "flood"
  /\ mounted \/ up
  /\ stmt' = Plan(call)
  /\ rows' = <<>>
  /\ fate' = IF Misquoted(call) THEN "spoilt" ELSE fate
  /\ pc' = "step"
  /\ UNCHANGED <<card, up, conn, stale, stationMap, mapFate, call, reply, budget>>

\* A mutant of PrepareThrows: prepared again until it works.
PrepareRetries ==
  /\ pc = "prepare"
  /\ IF file = "flood" /\ ~Misquoted(call) THEN Fails ELSE UNCHANGED budget
  /\ UNCHANGED <<pc, card, memory>>

\* "no such table" in a blank file, an I/O error or no memory; or, with the card
\* and the file as they should be, the SQL of a misquoted start.
PrepareThrows ==
  /\ pc = "prepare"
  /\ IF file = "flood" /\ ~Misquoted(call) THEN Fails ELSE UNCHANGED budget
  /\ Throw
  /\ UNCHANGED card

-----------------------------------------------------------------------------
(* The scan loop.                                                          *)

\* Rows that sqlite3_step can return next.
NextRows(s) ==
  {i \in s.match : i > s.at /\ Cardinality(Between(s.match, s.at, i)) = s.skip}

\* The statement after it has returned row i.
Stepped(s, i) == [s EXCEPT !.at = i, !.skip = 0, !.left = s.left - 1]

\* SQLite stops after the last row of the limit without another read.
LimitReached == stmt.left = 0 /\ rows # <<>>

\* SQLITE_ROW, and the row is appended to the result.  The page of the row comes
\* from the card, or from the cache also when the card is gone.  Reading on may
\* recycle the buffer of a stale page.
StepRow ==
  /\ pc = "step"
  /\ fate = "whole"
  /\ stmt.left > 0
  /\ \E i \in NextRows(stmt) :
       /\ stmt' = Stepped(stmt, i)
       /\ rows' = Append(rows, i)
  /\ stale' \in {stale, FALSE}
  /\ UNCHANGED <<pc, card, up, conn, stationMap, mapFate, call, fate, reply, budget>>

\* SQLITE_DONE.
StepDone ==
  /\ pc = "step"
  /\ fate = "whole"
  /\ stmt.left = 0 \/ NextRows(stmt) = {}
  /\ pc' = "finalize"
  /\ UNCHANGED <<card, memory, budget>>

\* Any other result code ends the loop as SQLITE_DONE does.
StepError ==
  /\ pc = "step"
  /\ fate = "whole"
  /\ ~LimitReached
  /\ Fails
  /\ fate' = "short"
  /\ pc' = "finalize"
  /\ UNCHANGED <<card, up, conn, stale, stationMap, mapFate, call, stmt, rows, reply>>

\* A read fails and leaves another page, or anything, in the buffer; or the page
\* comes from the cache and it had failed before.  No version of the file is
\* compared between statements: the lock is never given up.  A misquoted statement
\* reads pages like any other.
StalePage ==
  /\ pc = "step"
  /\ fate = "whole" \/ Misquoted(call)
  /\ ~LimitReached
  /\ (stale /\ UNCHANGED budget) \/ Fails
  /\ stale' = TRUE
  /\ fate' = "spoilt"
  /\ UNCHANGED <<pc, card, up, conn, stationMap, mapFate, call, stmt, rows, reply>>

\* The rows that a spoilt scan ends with, and with what result it ends, cannot
\* be told.
SpoiltScan ==
  /\ pc = "step"
  /\ fate = "spoilt"
  /\ rows' \in SpoiltRows(call)
  /\ rows # <<>> => rows' # <<>>
  /\ pc' = "finalize"
  /\ UNCHANGED <<card, up, conn, stale, stationMap, mapFate, call, stmt, fate, reply, budget>>

\* sqlite3_column_text returns a null pointer, when it has no memory for the text
\* or a column of a stale page or of a misquoted statement is NULL, and std::string
\* throws on it.
NullText ==
  /\ pc = "step"
  /\ \/ fate = "spoilt" /\ (LimitOf(call) > 0 \/ Misquoted(call)) /\ UNCHANGED budget
     \/ fate = "whole" /\ stmt.left > 0 /\ NextRows(stmt) # {} /\ Fault
  /\ Throw
  /\ UNCHANGED card

\* The station maps that the rows of the station table give.
MapsFrom(result, f) ==
  IF f = "spoilt"
    THEN {map \in StationMap : map = EmptyMap <=> result = <<>>}
    ELSE {MapOf(Range(result))}

\* A spoilt station map gives a query the identifier of another station.
FateOf(c) == IF c.op = "rainfall" /\ mapFate = "spoilt" THEN "spoilt" ELSE fate

\* sqlite3_finalize and the return of the call.  The rows of the station table
\* replace m_stationMap before init() looks whether there are any.
Finalize ==
  /\ pc = "finalize"
  /\ stmt' = None
  /\ fate' = "whole"
  /\ rows' = <<>>
  /\ call' = None
  /\ IF call = getAllStations
       THEN stationMap' \in MapsFrom(rows, fate) /\ mapFate' = fate
       ELSE UNCHANGED <<stationMap, mapFate>>
  /\ IF ~up
       THEN /\ UNCHANGED reply
            /\ IF rows = <<>>
                 THEN pc' = "aborted" /\ UNCHANGED up
                 ELSE pc' = "idle" /\ up' = TRUE
       ELSE /\ reply' = [call |-> call, rows |-> rows, fate |-> FateOf(call)]
            /\ pc' = "idle"
            /\ UNCHANGED up
  /\ UNCHANGED <<card, conn, stale, budget>>

-----------------------------------------------------------------------------
Environment == Eject \/ Insert \/ Crash

InitSteps ==
  \/ BeginInit \/ Mount \/ InitThrows
  \/ OpenExisting \/ OpenCreates \/ OpenThrows

CallSteps ==
  \/ Prepare \/ PrepareThrows
  \/ StepRow \/ StepDone \/ StepError \/ StalePage \/ SpoiltScan \/ NullText
  \/ Finalize

Next == Environment \/ Reboot \/ InitSteps \/ BeginCall \/ CallSteps

Spec == Init /\ [][Next]_vars

\* The main task keeps running.  It need not be asked for anything, the card
\* need not be put back and nothing has to fail.
Fairness == WF_vars(Reboot) /\ WF_vars(InitSteps) /\ WF_vars(CallSteps)

FairSpec == Spec /\ Fairness

-----------------------------------------------------------------------------
(* Properties.                                                             *)

\* The rows a query reply is about, under the right station identifier.
MatchesOf(c) == Matches(c, FullMap)

Answered == reply # None /\ reply.call # getAllStations

\* Also when an error cut the scan short, row k of a reply is the one with the
\* rank the page number and size ask for, so that no row is repeated, left out
\* in the middle or out of its turn (getRiverReadings and
\* getStationRainfallReadings).
ReplyInPlace ==
  (Answered /\ reply.fate # "spoilt" /\ Representable(reply.call.page, reply.call.size)) =>
    /\ Len(reply.rows) <= reply.call.size
    /\ \A k \in 1..Len(reply.rows) :
         /\ reply.rows[k] \in MatchesOf(reply.call)
         /\ Rank(MatchesOf(reply.call), reply.rows[k])
              = FirstOf(reply.call.page, reply.call.size) + k

\* A reply that no error touched holds the whole page: the scan loop stops
\* early for nothing but the end of the matches and the limit.
ReplyWhole ==
  (Answered /\ reply.fate = "whole" /\ Representable(reply.call.page, reply.call.size)) =>
    Len(reply.rows) = PageLen(MatchesOf(reply.call),
                              FirstOf(reply.call.page, reply.call.size),
                              reply.call.size)

\* A reply that an error cut short has fewer rows than its page size: the only
\* sign of it that reaches a caller, who sees the same at the last page.
CutIsShort ==
  (Answered /\ reply.fate = "short" /\ reply.call.size > 0) =>
    Len(reply.rows) < reply.call.size

\* Whatever was cut from the scan of the station table, now or in an earlier
\* refresh, a station the map does hold has the identifier of its first row in
\* the whole table (map::insert in getAllStations).
StationIdsRight ==
  mapFate # "spoilt" =>
    \A name \in DOMAIN stationMap : stationMap[name] = FullMap[name]

\* A repository whose init() returned reads the flood tables: a missing file,
\* which sqlite3_open creates blank, or one that it emptied never gets past
\* the station cache.
UpHasDatabase == up => conn /\ file = "flood"

\* A reply as FloodStore has it, where rows of a spoilt scan are all the same.
Told(r) ==
  IF r # None /\ r.fate = "spoilt" /\ r.rows # <<>> THEN [r EXCEPT !.rows = <<0>>] ELSE r

\* The repository keeps the promise of IFloodRepository.  From the throw on it is
\* as good as restarted.
Alive == pc # "aborted"
Store == INSTANCE FloodStore WITH
  up        <- up /\ Alive,
  known     <- IF Alive THEN DOMAIN stationMap ELSE {},
  knownFate <- IF Alive THEN mapFate ELSE "whole",
  job       <- IF up /\ Alive THEN call ELSE None,
  fate      <- IF Alive THEN fate ELSE "whole",
  answer    <- IF Alive THEN Told(reply) ELSE None

KeepsPromise == Store!StoreSpec

\* Every call ends, by a return or by a reset, with the card or without it.
CallsEnd == (call # None) ~> (call = None)

\* Once a card with the database stays in the slot, the repository gets back,
\* again and again, to where it can be called.
Recovers == <>[](inserted /\ file = "flood") => []<>(pc = "idle")

\* The contract of a VFS has xRead fill with zeros what a short read leaves of
\* its buffer.  SQLite refuses a page of zeros, so that every row of a reply
\* would be a row that its query matches, unless its start text had made it
\* another query.
RowsMatch ==
  (Answered /\ ~Misquoted(reply.call)) =>
    \A k \in 1..Len(reply.rows) : reply.rows[k] \in MatchesOf(reply.call)

-----------------------------------------------------------------------------
(* The inductive invariant behind the safety properties.                   *)

Busy == pc \in {"prepare", "step", "finalize"}
Scanning == pc \in {"step", "finalize"}

\* A call in progress names a known station, and init() makes only one call.
CallInv ==
  /\ Busy => /\ call \in Call
             /\ Known(call, DOMAIN stationMap)
             /\ ~up => call = getAllStations
  /\ fate # "whole" => Scanning \/ pc = "aborted"
  /\ fate = "short" => pc = "finalize"
  /\ (Scanning /\ Misquoted(call)) => fate = "spoilt"

\* The connection is open and the tables are there before they are used.
DatabaseInv ==
  /\ pc \in {"off", "mount", "open"} => ~up
  /\ pc = "idle" => up
  /\ Busy => conn
  /\ Scanning => file = "flood"

\* The ranks of the rows collected so far run on from the offset, and the
\* statement stands right behind the last of them.
ScanInv ==
  Scanning =>
    /\ stmt \in Stmt
    /\ stmt.match = Matches(call, stationMap)
    /\ fate # "spoilt" =>
         /\ Len(rows) + stmt.left = LimitOf(call)
         /\ Rank(stmt.match, stmt.at) + stmt.skip = SkipOf(call) + Len(rows)
         /\ \A k \in 1..Len(rows) :
              /\ rows[k] \in stmt.match
              /\ Rank(stmt.match, rows[k]) = SkipOf(call) + k

\* What the scan loop has collected when it ends.
FinishInv ==
  pc = "finalize" =>
    /\ fate = "short" => (LimitOf(call) > 0 => Len(rows) < LimitOf(call))
    /\ fate = "whole" => Len(rows) = PageLen(stmt.match, SkipOf(call), LimitOf(call))

RepositoryInv ==
  /\ TypeOK
  /\ CallInv
  /\ DatabaseInv
  /\ ScanInv
  /\ FinishInv
  /\ StationIdsRight
  /\ UpHasDatabase
  /\ ReplyInPlace
  /\ ReplyWhole
  /\ CutIsShort
=============================================================================
