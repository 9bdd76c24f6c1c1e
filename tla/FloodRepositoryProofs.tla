----------------------- MODULE FloodRepositoryProofs -----------------------
(***************************************************************************)
(* The safety properties of FloodRepository for every content of the       *)
(* tables, every set of calls and every bound on the failures.             *)
(***************************************************************************)
EXTENDS FloodRepository, FloodTablesProofs

-----------------------------------------------------------------------------
(* The station map.                                                        *)

\* The map of the first n rows of the station table is a map from names to
\* identifiers, and names that it holds have the identifier of the whole table.
LEMMA MapOfPrefix ==
  ASSUME NEW n \in 0..Len(StationRows)
  PROVE  /\ MapOf(1..n) \in StationMap
         /\ \A name \in DOMAIN MapOf(1..n) : MapOf(1..n)[name] = FullMap[name]
<1>1. /\ Len(StationRows) \in Nat
      /\ DOMAIN StationRows = 1..Len(StationRows)
      /\ \A i \in 1..Len(StationRows) : StationRows[i] \in [id : Ids, name : Names]
  BY StationTable
<1> DEFINE D == {StationRows[i].name : i \in 1..n}
           First(m, name, i) ==
             /\ StationRows[i].name = name
             /\ \A j \in 1..m : StationRows[j].name = name => i <= j
<1>2. ASSUME NEW name \in D
      PROVE  /\ IdIn(1..n, name) \in Ids
             /\ name \in {StationRows[i].name : i \in 1..Len(StationRows)}
             /\ IdIn(1..n, name) = IdIn(1..Len(StationRows), name)
  <2>1. PICK a \in 1..n : First(n, name, a)
    BY FirstRowOfName
  <2>2. a \in 1..Len(StationRows)
    BY <1>1
  <2>3. First(Len(StationRows), name, a)
    BY <1>1, <2>1
  <2>4. \A i \in 1..n : First(n, name, i) => i = a
    BY <1>1, <2>1
  <2>5. \A i \in 1..Len(StationRows) : First(Len(StationRows), name, i) => i = a
    BY <1>1, <2>2, <2>3
  <2>6. (CHOOSE i \in 1..n : First(n, name, i)) = a
    <3> HIDE DEF First
    <3> QED
      BY <2>1, <2>4
  <2>7. (CHOOSE i \in 1..Len(StationRows) : First(Len(StationRows), name, i)) = a
    <3> HIDE DEF First
    <3> QED
      BY <2>2, <2>3, <2>5
  <2>8. IdIn(1..n, name) = StationRows[a].id
    BY <2>6 DEF IdIn
  <2>9. IdIn(1..Len(StationRows), name) = StationRows[a].id
    BY <2>7 DEF IdIn
  <2>10. StationRows[a].id \in Ids
    BY <1>1, <2>2
  <2> QED
    BY <2>1, <2>2, <2>8, <2>9, <2>10
<1>3. D \in SUBSET Names
  BY <1>1
<1>4. MapOf(1..n) = [name \in D |-> IdIn(1..n, name)]
  BY DEF MapOf
<1>5. FullMap = [name \in {StationRows[i].name : i \in 1..Len(StationRows)} |->
                   IdIn(1..Len(StationRows), name)]
  BY <1>1 DEF FullMap, MapOf
<1> HIDE DEF D, First
<1>6. MapOf(1..n) \in [D -> Ids]
  BY <1>2, <1>4
<1> QED
  BY <1>2, <1>3, <1>4, <1>5, <1>6 DEF StationMap

LEMMA EmptyMapType ==
  /\ EmptyMap \in StationMap
  /\ \A name \in DOMAIN EmptyMap : EmptyMap[name] = FullMap[name]
<1>1. 0 \in 0..Len(StationRows) /\ 1..0 = {}
  BY TablesAssumption
<1> QED
  BY <1>1, MapOfPrefix DEF EmptyMap

-----------------------------------------------------------------------------
(* The inductive invariant.                                                *)

ReplyInv == ReplyInPlace /\ ReplyWhole /\ CutIsShort

\* The properties of the last reply only look at the reply.
LEMMA ReplyKept ==
  ASSUME ReplyInv, reply' = reply \/ reply' = None
  PROVE  ReplyInv'
BY DEF ReplyInv, ReplyInPlace, ReplyWhole, CutIsShort, Answered, MatchesOf

\* The properties of the station map only look at the map.
LEMMA StationsKept ==
  ASSUME StationIdsRight, UNCHANGED <<stationMap, mapFate>>
  PROVE  StationIdsRight'
BY DEF StationIdsRight

\* The invariant holds when the device is switched on.
LEMMA InitInv == Init => RepositoryInv
<1> SUFFICES ASSUME Init PROVE RepositoryInv
  OBVIOUS
<1>1. TypeOK
  <2>1. <<>> \in Seq(Nat)
    OBVIOUS
  <2>2. 0 \in 0..MaxFaults /\ 0 \in 0..MaxEjects /\ 0 \in 0..MaxCrashes
    BY BoundsAssumption
  <2> QED
    BY <2>1, <2>2, EmptyMapType, Zenon DEF Init, TypeOK, PCs, Fates
<1>2. CallInv /\ DatabaseInv /\ ScanInv /\ FinishInv /\ UpHasDatabase
  BY DEF Init, CallInv, DatabaseInv, ScanInv, FinishInv, UpHasDatabase, Busy, Scanning
<1>3. ReplyInPlace /\ ReplyWhole /\ CutIsShort
  BY DEF Init, ReplyInPlace, ReplyWhole, CutIsShort, Answered
<1>4. StationIdsRight
  BY EmptyMapType DEF Init, StationIdsRight
<1> QED
  BY <1>1, <1>2, <1>3, <1>4 DEF RepositoryInv

\* A reset loses the memory and keeps the card.
LEMMA ResetInv ==
  ASSUME RepositoryInv, MemoryLost, pc' = "off", mounted' = FALSE,
         UNCHANGED <<inserted, file>>,
         faults' \in 0..MaxFaults, ejects' \in 0..MaxEjects, crashes' \in 0..MaxCrashes
  PROVE  RepositoryInv'
<1>1. TypeOK'
  <2>1. <<>> \in Seq(Nat)
    OBVIOUS
  <2> QED
    BY <2>1, EmptyMapType, Zenon DEF RepositoryInv, TypeOK, PCs, MemoryLost, Fates
<1>2. /\ CallInv' /\ DatabaseInv' /\ ScanInv' /\ FinishInv' /\ UpHasDatabase'
  BY DEF MemoryLost, CallInv, DatabaseInv, ScanInv, FinishInv, UpHasDatabase, Busy, Scanning
<1>3. ReplyInv'
  BY ReplyKept DEF RepositoryInv, ReplyInv, MemoryLost
<1>4. StationIdsRight'
  BY EmptyMapType DEF MemoryLost, StationIdsRight
<1> QED
  BY <1>1, <1>2, <1>3, <1>4 DEF RepositoryInv, ReplyInv

\* An exception changes nothing but the place of the main task.
LEMMA ThrowInv ==
  ASSUME RepositoryInv, Throw, pc # "finalize", UNCHANGED card,
         faults' \in 0..MaxFaults, ejects' \in 0..MaxEjects, crashes' \in 0..MaxCrashes
  PROVE  RepositoryInv'
<1>0. /\ pc' = "aborted"
      /\ UNCHANGED <<inserted, mounted, file>>
      /\ UNCHANGED <<up, conn, stale, stationMap, mapFate, call, stmt, rows, fate, reply>>
  BY DEF Throw, memory, card
<1>1. TypeOK'
  BY <1>0 DEF RepositoryInv, TypeOK, PCs
<1>2. /\ CallInv' /\ DatabaseInv' /\ ScanInv' /\ FinishInv' /\ UpHasDatabase'
  BY <1>0 DEF RepositoryInv, CallInv, DatabaseInv, ScanInv, FinishInv, UpHasDatabase,
              Busy, Scanning
<1>3. ReplyInv' /\ StationIdsRight'
  BY <1>0, ReplyKept, StationsKept DEF RepositoryInv, ReplyInv
<1> QED
  BY <1>1, <1>2, <1>3 DEF RepositoryInv, ReplyInv

\* The counters of failures stay within their bounds.
LEMMA BudgetType ==
  ASSUME TypeOK, Fails \/ Fault \/ UNCHANGED budget
  PROVE  /\ faults' \in 0..MaxFaults
         /\ ejects' \in 0..MaxEjects
         /\ crashes' \in 0..MaxCrashes
BY BoundsAssumption DEF TypeOK, Fails, Fault, budget

\* What the card, the device and the boot sequence do.
LEMMA EnvironmentInv ==
  ASSUME RepositoryInv, Environment \/ Reboot
  PROVE  RepositoryInv'
<1>1. CASE Eject
  <2>0. /\ UNCHANGED <<pc, file, up, conn, stale, stationMap, mapFate, call, stmt, rows, fate, reply>>
        /\ inserted' = FALSE /\ mounted' = FALSE
        /\ faults' = faults /\ crashes' = crashes /\ ejects' = ejects + 1
        /\ ejects < MaxEjects
    BY <1>1 DEF Eject, memory
  <2>1. TypeOK'
    <3>1. ejects' \in 0..MaxEjects
      BY <2>0, BoundsAssumption DEF RepositoryInv, TypeOK
    <3> QED
      BY <2>0, <3>1, Zenon DEF RepositoryInv, TypeOK
  <2>2. CallInv' /\ DatabaseInv' /\ ScanInv' /\ FinishInv' /\ UpHasDatabase'
    BY <2>0 DEF RepositoryInv, CallInv, DatabaseInv, ScanInv, FinishInv, UpHasDatabase,
                Busy, Scanning
  <2>3. ReplyInv' /\ StationIdsRight'
    BY <2>0, ReplyKept, StationsKept DEF RepositoryInv, ReplyInv
  <2> QED
    BY <2>1, <2>2, <2>3 DEF RepositoryInv, ReplyInv
<1>2. CASE Insert
  <2>0. /\ UNCHANGED <<pc, file, up, conn, stale, stationMap, mapFate, call, stmt, rows, fate, reply>>
        /\ inserted' = TRUE /\ UNCHANGED <<mounted, faults, ejects, crashes>>
    BY <1>2 DEF Insert, memory, budget
  <2>1. TypeOK'
    BY <2>0 DEF RepositoryInv, TypeOK
  <2>2. CallInv' /\ DatabaseInv' /\ ScanInv' /\ FinishInv' /\ UpHasDatabase'
    BY <2>0 DEF RepositoryInv, CallInv, DatabaseInv, ScanInv, FinishInv, UpHasDatabase,
                Busy, Scanning
  <2>3. ReplyInv' /\ StationIdsRight'
    BY <2>0, ReplyKept, StationsKept DEF RepositoryInv, ReplyInv
  <2> QED
    BY <2>1, <2>2, <2>3 DEF RepositoryInv, ReplyInv
<1>3. CASE Crash
  <2>1. /\ faults' \in 0..MaxFaults
        /\ ejects' \in 0..MaxEjects
        /\ crashes' \in 0..MaxCrashes
    BY <1>3, BoundsAssumption DEF Crash, RepositoryInv, TypeOK
  <2> QED
    BY <1>3, <2>1, ResetInv DEF Crash
<1>4. CASE Reboot
  BY <1>4, ResetInv, BudgetType DEF Reboot, RepositoryInv, budget
<1> QED
  BY <1>1, <1>2, <1>3, <1>4 DEF Environment

\* The steps of init() up to the scan of the station table.
LEMMA InitStepsInv ==
  ASSUME RepositoryInv, InitSteps
  PROVE  RepositoryInv'
<1>0. getAllStations \in Call /\ \A map : Known(getAllStations, map)
  BY DEF Call, StationsCall, getAllStations, Known
<1>1. CASE BeginInit
  <2>0. /\ pc = "off" /\ pc' = "mount"
        /\ UNCHANGED <<inserted, mounted, file>>
        /\ UNCHANGED <<up, conn, stale, stationMap, mapFate, call, stmt, rows, fate, reply>>
        /\ UNCHANGED <<faults, ejects, crashes>>
    BY <1>1 DEF BeginInit, card, memory, budget
  <2>1. TypeOK'
    BY <2>0, Zenon DEF RepositoryInv, TypeOK, PCs
  <2>2. CallInv' /\ DatabaseInv' /\ ScanInv' /\ FinishInv' /\ UpHasDatabase'
    BY <2>0 DEF RepositoryInv, CallInv, DatabaseInv, ScanInv, FinishInv, UpHasDatabase,
                Busy, Scanning
  <2>3. ReplyInv' /\ StationIdsRight'
    BY <2>0, ReplyKept, StationsKept DEF RepositoryInv, ReplyInv
  <2> QED
    BY <2>1, <2>2, <2>3 DEF RepositoryInv, ReplyInv
<1>2. CASE Mount
  <2>0. /\ pc = "mount" /\ pc' = "open" /\ mounted' = TRUE
        /\ UNCHANGED <<inserted, file>>
        /\ UNCHANGED <<up, conn, stale, stationMap, mapFate, call, stmt, rows, fate, reply>>
        /\ UNCHANGED <<faults, ejects, crashes>>
    BY <1>2 DEF Mount, memory, budget
  <2>1. TypeOK'
    BY <2>0, Zenon DEF RepositoryInv, TypeOK, PCs
  <2>2. CallInv' /\ DatabaseInv' /\ ScanInv' /\ FinishInv' /\ UpHasDatabase'
    BY <2>0 DEF RepositoryInv, CallInv, DatabaseInv, ScanInv, FinishInv, UpHasDatabase,
                Busy, Scanning
  <2>3. ReplyInv' /\ StationIdsRight'
    BY <2>0, ReplyKept, StationsKept DEF RepositoryInv, ReplyInv
  <2> QED
    BY <2>1, <2>2, <2>3 DEF RepositoryInv, ReplyInv
<1>3. CASE InitThrows \/ OpenThrows
  <2>1. /\ Throw /\ pc # "finalize" /\ UNCHANGED card
        /\ Fails \/ Fault
    BY <1>3 DEF InitThrows, OpenThrows
  <2> QED
    BY <2>1, ThrowInv, BudgetType DEF RepositoryInv
<1>4. CASE OpenExisting \/ OpenCreates
  <2>0. /\ pc = "open" /\ pc' = "prepare" /\ conn' = TRUE /\ call' = getAllStations
        /\ file' \in {file, "blank"}
        /\ UNCHANGED <<inserted, mounted, up, stale, stationMap, mapFate, stmt, rows, fate, reply>>
        /\ Fault \/ UNCHANGED budget
    BY <1>4 DEF OpenExisting, OpenCreates, card
  <2>1. TypeOK'
    <3>1. /\ faults' \in 0..MaxFaults
          /\ ejects' \in 0..MaxEjects
          /\ crashes' \in 0..MaxCrashes
      BY <2>0, BudgetType DEF RepositoryInv
    <3>2. file' \in {"absent", "blank", "flood"}
      BY <2>0 DEF RepositoryInv, TypeOK
    <3> QED
      BY <1>0, <2>0, <3>1, <3>2, Zenon DEF RepositoryInv, TypeOK, PCs
  <2>2. CallInv' /\ DatabaseInv' /\ ScanInv' /\ FinishInv' /\ UpHasDatabase'
    BY <1>0, <2>0 DEF RepositoryInv, CallInv, DatabaseInv, ScanInv, FinishInv,
                      UpHasDatabase, Busy, Scanning
  <2>3. ReplyInv' /\ StationIdsRight'
    BY <2>0, ReplyKept, StationsKept DEF RepositoryInv, ReplyInv
  <2> QED
    BY <2>1, <2>2, <2>3 DEF RepositoryInv, ReplyInv
<1> QED
  BY <1>1, <1>2, <1>3, <1>4 DEF InitSteps

\* A call begins, or throws for an unknown station.
LEMMA IssueInv ==
  ASSUME RepositoryInv, NEW c \in Call, Issue(c), UNCHANGED <<card, budget>>
  PROVE  RepositoryInv'
<1>1. UNCHANGED <<inserted, mounted, file, faults, ejects, crashes>>
  BY DEF card, budget
<1>2. CASE Known(c, DOMAIN stationMap)
  <2>0. /\ pc = "idle" /\ pc' = "prepare" /\ call' = c /\ reply' = None
        /\ UNCHANGED <<up, conn, stale, stationMap, mapFate, stmt, rows, fate>>
    BY <1>2 DEF Issue
  <2>1. TypeOK'
    BY <1>1, <2>0, Zenon DEF RepositoryInv, TypeOK, PCs
  <2>2. CallInv' /\ DatabaseInv' /\ ScanInv' /\ FinishInv' /\ UpHasDatabase'
    BY <1>1, <1>2, <2>0
       DEF RepositoryInv, CallInv, DatabaseInv, ScanInv, FinishInv, UpHasDatabase,
           Busy, Scanning, Known
  <2>3. ReplyInv' /\ StationIdsRight'
    BY <2>0, ReplyKept, StationsKept DEF RepositoryInv, ReplyInv
  <2> QED
    BY <2>1, <2>2, <2>3 DEF RepositoryInv, ReplyInv
<1>3. CASE ~Known(c, DOMAIN stationMap)
  <2>1. pc = "idle" /\ Throw
    BY <1>3 DEF Issue
  <2>2. UNCHANGED card /\ UNCHANGED budget
    OBVIOUS
  <2> QED
    BY <2>1, <2>2, ThrowInv, BudgetType DEF RepositoryInv
<1> QED
  BY <1>2, <1>3

LEMMA BeginCallInv ==
  ASSUME RepositoryInv, BeginCall
  PROVE  RepositoryInv'
<1>1. PICK c \in Calls : Issue(c)
  BY DEF BeginCall
<1>2. c \in Call
  BY CallsAssumption
<1> QED
  BY <1>1, <1>2, IssueInv DEF BeginCall

\* A prepared statement stands before its first row.
LEMMA PrepareInv ==
  ASSUME RepositoryInv, Prepare
  PROVE  RepositoryInv'
<1>0. /\ pc = "prepare" /\ pc' = "step" /\ file = "flood"
      /\ stmt' = Plan(call) /\ rows' = <<>>
      /\ UNCHANGED <<inserted, mounted, file>>
      /\ UNCHANGED <<up, conn, stale, stationMap, mapFate, call, reply>>
      /\ UNCHANGED <<faults, ejects, crashes>>
      /\ fate = "whole"
      /\ fate' = IF Misquoted(call) THEN "spoilt" ELSE "whole"
  BY DEF Prepare, card, budget, RepositoryInv, CallInv, Scanning
<1>1. call \in Call
  BY <1>0 DEF RepositoryInv, CallInv, Busy
<1> DEFINE M == Matches(call, stationMap)
<1>2. M \in SUBSET (Nat \ {0}) /\ IsFiniteSet(M)
  BY <1>1, MatchesType
<1>3. SkipOf(call) \in Nat /\ LimitOf(call) \in Nat
  BY <1>1, PlanType
<1>4. Rank(M, 0) = 0
  <2> HIDE DEF M
  <2>1. UpTo(M, 0) = {}
    <3>1. \A j \in M : ~(j <= 0)
      BY <1>2
    <3> QED
      BY <3>1, Zenon DEF UpTo
  <2> QED
    BY <2>1, FS_EmptySet DEF Rank
<1>5. /\ stmt' \in Stmt
      /\ stmt'.match = M /\ stmt'.at = 0
      /\ stmt'.skip = SkipOf(call) /\ stmt'.left = LimitOf(call)
  BY <1>0, <1>2, <1>3 DEF Plan, Stmt
<1>6. TypeOK'
  <2>1. <<>> \in Seq(Nat)
    OBVIOUS
  <2> QED
    BY <1>0, <1>5, <2>1, Zenon DEF RepositoryInv, TypeOK, PCs, Fates
<1>7. ScanInv'
  <2>1. Matches(call', stationMap') = M /\ SkipOf(call') = SkipOf(call)
        /\ LimitOf(call') = LimitOf(call)
    BY <1>0
  <2>2. Len(rows') = 0
    BY <1>0
  <2> HIDE DEF M
  <2> QED
    BY <1>3, <1>4, <1>5, <2>1, <2>2 DEF ScanInv
<1>8. CallInv' /\ DatabaseInv' /\ FinishInv' /\ UpHasDatabase'
  BY <1>0 DEF RepositoryInv, CallInv, DatabaseInv, FinishInv, UpHasDatabase,
              Busy, Scanning
<1>9. ReplyInv' /\ StationIdsRight'
  BY <1>0, ReplyKept, StationsKept DEF RepositoryInv, ReplyInv
<1> QED
  BY <1>6, <1>7, <1>8, <1>9 DEF RepositoryInv, ReplyInv

\* The statement of a call that is being scanned, and its rows.
LEMMA ScanType ==
  ASSUME RepositoryInv, Scanning
  PROVE  /\ call \in Call
         /\ stmt \in Stmt /\ stmt.at \in Nat /\ stmt.skip \in Nat /\ stmt.left \in Nat
         /\ stmt.match \in SUBSET Nat /\ IsFiniteSet(stmt.match)
         /\ SkipOf(call) \in Nat /\ LimitOf(call) \in Nat
         /\ rows \in Seq(Nat) /\ Len(rows) \in Nat
<1>1. call \in Call /\ stmt \in Stmt /\ rows \in Seq(Nat)
  BY DEF RepositoryInv, TypeOK, CallInv, ScanInv, Busy, Scanning
<1>2. stmt.match = Matches(call, stationMap)
  BY DEF RepositoryInv, ScanInv
<1>3. IsFiniteSet(stmt.match)
  BY <1>1, <1>2, MatchesType
<1>4. /\ stmt.at \in Nat /\ stmt.skip \in Nat /\ stmt.left \in Nat
      /\ stmt.match \in SUBSET Nat
  BY <1>1 DEF Stmt
<1>5. Len(rows) \in Nat
  BY <1>1
<1> QED
  BY <1>1, <1>3, <1>4, <1>5, PlanType

\* A row that a step returns has the rank that follows the last one.
LEMMA StepRowInv ==
  ASSUME RepositoryInv, StepRow
  PROVE  RepositoryInv'
<1>1. PICK i \in NextRows(stmt) : stmt' = Stepped(stmt, i) /\ rows' = Append(rows, i)
  BY DEF StepRow
<1>0. /\ pc = "step" /\ pc' = "step" /\ stmt.left > 0
      /\ UNCHANGED <<inserted, mounted, file>>
      /\ UNCHANGED <<up, conn, stationMap, mapFate, call, fate, reply>>
      /\ fate = "whole" /\ stale' \in {stale, FALSE}
      /\ UNCHANGED <<faults, ejects, crashes>>
  BY DEF StepRow, card, budget
<1>2. /\ call \in Call
      /\ stmt \in Stmt /\ stmt.at \in Nat /\ stmt.skip \in Nat /\ stmt.left \in Nat
      /\ stmt.match \in SUBSET Nat /\ IsFiniteSet(stmt.match)
      /\ SkipOf(call) \in Nat /\ LimitOf(call) \in Nat
      /\ rows \in Seq(Nat) /\ Len(rows) \in Nat
  BY <1>0, ScanType DEF Scanning
<1> DEFINE M == stmt.match
<1>3. /\ i \in M /\ i \in Nat /\ stmt.at < i
      /\ Cardinality(Between(M, stmt.at, i)) = stmt.skip
  BY <1>2 DEF NextRows
<1>4. Rank(M, i) = SkipOf(call) + Len(rows) + 1
  <2>1. Rank(M, i) = Rank(M, stmt.at) + stmt.skip + 1
    <3> HIDE DEF M
    <3> QED
      BY <1>2, <1>3, RankStep DEF M
  <2>2. Rank(M, stmt.at) + stmt.skip = SkipOf(call) + Len(rows)
    BY <1>0 DEF RepositoryInv, ScanInv, Scanning
  <2>3. Rank(M, stmt.at) \in Nat
    BY <1>2, RankType
  <2> QED
    BY <2>1, <2>2, <2>3, <1>2
<1>5. /\ stmt' \in Stmt
      /\ stmt'.match = M /\ stmt'.at = i /\ stmt'.skip = 0
      /\ stmt'.left = stmt.left - 1
  <2>1. stmt' = [match |-> stmt.match, at |-> i, skip |-> 0, left |-> stmt.left - 1]
    BY <1>1, <1>2 DEF Stepped, Stmt
  <2>2. stmt.left - 1 \in Nat
    BY <1>0, <1>2
  <2> QED
    BY <1>2, <1>3, <2>1, <2>2 DEF Stmt
<1>6. /\ rows' \in Seq(Nat)
      /\ Len(rows') = Len(rows) + 1
      /\ \A k \in 1..Len(rows) : rows'[k] = rows[k]
      /\ rows'[Len(rows) + 1] = i
  BY <1>1, <1>2, <1>3
<1>7. TypeOK'
  BY <1>0, <1>5, <1>6, Zenon DEF RepositoryInv, TypeOK
<1>8. ScanInv'
  <2>1. /\ stmt.match = Matches(call, stationMap)
        /\ Len(rows) + stmt.left = LimitOf(call)
        /\ \A k \in 1..Len(rows) :
             /\ rows[k] \in M
             /\ Rank(M, rows[k]) = SkipOf(call) + k
    BY <1>0 DEF RepositoryInv, ScanInv, Scanning
  <2>2. ASSUME NEW k \in 1..Len(rows')
        PROVE  rows'[k] \in M /\ Rank(M, rows'[k]) = SkipOf(call) + k
    <3>1. CASE k \in 1..Len(rows)
      BY <3>1, <1>6, <2>1
    <3>2. CASE k = Len(rows) + 1
      <4>1. rows'[k] = i
        BY <3>2, <1>6
      <4> HIDE DEF M
      <4>2. Rank(M, rows'[k]) = SkipOf(call) + k
        BY <3>2, <4>1, <1>2, <1>4
      <4> QED
        BY <4>1, <4>2, <1>3
    <3> QED
      BY <3>1, <3>2, <1>2, <1>6
  <2>3. /\ Matches(call', stationMap') = M
        /\ SkipOf(call') = SkipOf(call)
        /\ LimitOf(call') = LimitOf(call)
    BY <1>0, <2>1
  <2>4. Len(rows') + stmt'.left = LimitOf(call)
    BY <1>2, <1>5, <1>6, <2>1
  <2>5. Rank(stmt'.match, stmt'.at) + stmt'.skip = SkipOf(call) + Len(rows')
    <3> HIDE DEF M
    <3> QED
      BY <1>2, <1>4, <1>5, <1>6
  <2> HIDE DEF M
  <2> QED
    BY <1>5, <2>2, <2>3, <2>4, <2>5 DEF ScanInv
<1>9. CallInv' /\ DatabaseInv' /\ FinishInv' /\ UpHasDatabase'
  BY <1>0 DEF RepositoryInv, CallInv, DatabaseInv, FinishInv, UpHasDatabase,
              Busy, Scanning
<1>10. ReplyInv' /\ StationIdsRight'
  BY <1>0, ReplyKept, StationsKept DEF RepositoryInv, ReplyInv
<1> QED
  BY <1>7, <1>8, <1>9, <1>10 DEF RepositoryInv, ReplyInv

\* SQLITE_DONE comes when the page is complete.
LEMMA StepDoneInv ==
  ASSUME RepositoryInv, StepDone
  PROVE  RepositoryInv'
<1>0. /\ pc = "step" /\ pc' = "finalize"
      /\ UNCHANGED <<inserted, mounted, file>>
      /\ UNCHANGED <<up, conn, stale, stationMap, mapFate, call, stmt, rows, fate, reply>>
      /\ UNCHANGED <<faults, ejects, crashes>>
      /\ fate = "whole"
      /\ stmt.left = 0 \/ NextRows(stmt) = {}
  BY DEF StepDone, LimitReached, card, memory, budget
<1>1. /\ call \in Call
      /\ stmt \in Stmt /\ stmt.at \in Nat /\ stmt.skip \in Nat /\ stmt.left \in Nat
      /\ stmt.match \in SUBSET Nat /\ IsFiniteSet(stmt.match)
      /\ SkipOf(call) \in Nat /\ LimitOf(call) \in Nat
      /\ rows \in Seq(Nat) /\ Len(rows) \in Nat
  BY <1>0, ScanType DEF Scanning
<1>2. /\ Len(rows) + stmt.left = LimitOf(call)
      /\ Rank(stmt.match, stmt.at) + stmt.skip = SkipOf(call) + Len(rows)
      /\ \A k \in 1..Len(rows) :
           /\ rows[k] \in stmt.match
           /\ Rank(stmt.match, rows[k]) = SkipOf(call) + k
  BY <1>0 DEF RepositoryInv, ScanInv, Scanning
<1> DEFINE M == stmt.match
           c == Cardinality(M)
           n == Len(rows)
<1>3. /\ c \in Nat
      /\ Rank(M, stmt.at) \in Nat
      /\ \A i \in M : Rank(M, i) <= c
  BY <1>1, RankType
<1>4. n > 0 => SkipOf(call) + n <= c
  <2>1. n > 0 => n \in 1..Len(rows)
    BY <1>1
  <2>2. n > 0 => rows[n] \in M /\ Rank(M, rows[n]) = SkipOf(call) + n
    BY <1>2, <2>1
  <2> HIDE DEF M, n
  <2> QED
    BY <1>3, <2>2
<1>5. stmt.left > 0 => SkipOf(call) + n >= c
  <2>1. NextRows(stmt) = {} => ~(Rank(M, stmt.at) + stmt.skip < c)
    BY <1>1, NextRowExists DEF NextRows
  <2> QED
    BY <1>0, <1>1, <1>2, <1>3, <2>1
<1>6. n = PageLen(M, SkipOf(call), LimitOf(call))
  <2> HIDE DEF c, n
  <2>1. n \in Nat /\ n + stmt.left = LimitOf(call)
    BY <1>1, <1>2 DEF n
  <2> QED
    BY <1>1, <1>3, <1>4, <1>5, <2>1 DEF PageLen, c
<1>7. TypeOK'
  BY <1>0, Zenon DEF RepositoryInv, TypeOK, PCs
<1>8. ScanInv' /\ FinishInv'
  <2>1. ScanInv'
    BY <1>0 DEF RepositoryInv, ScanInv, Scanning
  <2> QED
    BY <1>0, <1>6, <2>1 DEF FinishInv
<1>9. CallInv' /\ DatabaseInv' /\ UpHasDatabase'
  BY <1>0 DEF RepositoryInv, CallInv, DatabaseInv, UpHasDatabase, Busy, Scanning
<1>10. ReplyInv' /\ StationIdsRight'
  BY <1>0, ReplyKept, StationsKept DEF RepositoryInv, ReplyInv
<1> QED
  BY <1>7, <1>8, <1>9, <1>10 DEF RepositoryInv, ReplyInv

\* An error before the limit is reached leaves the page short.
LEMMA StepErrorInv ==
  ASSUME RepositoryInv, StepError
  PROVE  RepositoryInv'
<1>0. /\ pc = "step" /\ pc' = "finalize" /\ fate' = "short"
      /\ UNCHANGED <<inserted, mounted, file>>
      /\ UNCHANGED <<up, conn, stale, stationMap, mapFate, call, stmt, rows, reply>>
      /\ fate = "whole"
      /\ ~LimitReached
  BY DEF StepError, card
<1>1. TypeOK'
  <2>1. /\ faults' \in 0..MaxFaults
        /\ ejects' \in 0..MaxEjects
        /\ crashes' \in 0..MaxCrashes
    BY BudgetType DEF RepositoryInv, StepError
  <2> QED
    BY <1>0, <2>1, Zenon DEF RepositoryInv, TypeOK, PCs, Fates
<1>2. ScanInv'
  BY <1>0 DEF RepositoryInv, ScanInv, Scanning
<1>3. FinishInv'
  <2>1. stmt.left # 0 \/ rows = <<>>
    BY <1>0 DEF LimitReached
  <2>2. Len(rows) \in Nat /\ stmt.left \in Nat /\ LimitOf(call) \in Nat
    BY <1>0, ScanType DEF Scanning
  <2>3. Len(rows) + stmt.left = LimitOf(call)
    BY <1>0 DEF RepositoryInv, ScanInv, Scanning
  <2>4. LimitOf(call) > 0 => Len(rows) < LimitOf(call)
    BY <2>1, <2>2, <2>3
  <2> QED
    BY <1>0, <2>4 DEF FinishInv
<1>4. CallInv' /\ DatabaseInv' /\ UpHasDatabase'
  BY <1>0 DEF RepositoryInv, CallInv, DatabaseInv, UpHasDatabase, Busy, Scanning
<1>5. ReplyInv' /\ StationIdsRight'
  BY <1>0, ReplyKept, StationsKept DEF RepositoryInv, ReplyInv
<1> QED
  BY <1>1, <1>2, <1>3, <1>4, <1>5 DEF RepositoryInv, ReplyInv

\* Nothing is claimed of a scan that a stale page has spoilt.
LEMMA StalePageInv ==
  ASSUME RepositoryInv, StalePage
  PROVE  RepositoryInv'
<1>0. /\ pc = "step" /\ pc' = "step" /\ fate' = "spoilt" /\ stale' = TRUE
      /\ UNCHANGED <<inserted, mounted, file>>
      /\ UNCHANGED <<up, conn, stationMap, mapFate, call, stmt, rows, reply>>
  BY DEF StalePage, card
<1>1. TypeOK'
  <2>1. /\ faults' \in 0..MaxFaults
        /\ ejects' \in 0..MaxEjects
        /\ crashes' \in 0..MaxCrashes
    BY BudgetType DEF RepositoryInv, StalePage
  <2> QED
    BY <1>0, <2>1, Zenon DEF RepositoryInv, TypeOK, Fates
<1>2. ScanInv' /\ FinishInv'
  BY <1>0 DEF RepositoryInv, ScanInv, FinishInv, Scanning
<1>3. CallInv' /\ DatabaseInv' /\ UpHasDatabase'
  BY <1>0 DEF RepositoryInv, CallInv, DatabaseInv, UpHasDatabase, Busy, Scanning
<1>4. ReplyInv' /\ StationIdsRight'
  BY <1>0, ReplyKept, StationsKept DEF RepositoryInv, ReplyInv
<1> QED
  BY <1>1, <1>2, <1>3, <1>4 DEF RepositoryInv, ReplyInv

LEMMA SpoiltScanInv ==
  ASSUME RepositoryInv, SpoiltScan
  PROVE  RepositoryInv'
<1>0. /\ pc = "step" /\ pc' = "finalize" /\ fate = "spoilt"
      /\ rows' \in {<<>>, <<0>>}
      /\ UNCHANGED <<inserted, mounted, file>>
      /\ UNCHANGED <<up, conn, stale, stationMap, mapFate, call, stmt, fate, reply>>
      /\ UNCHANGED <<faults, ejects, crashes>>
  BY DEF SpoiltScan, SpoiltRows, card, budget
<1>1. TypeOK'
  <2>1. <<>> \in Seq(Nat) /\ <<0>> \in Seq(Nat)
    OBVIOUS
  <2>2. rows' \in Seq(Nat)
    BY <1>0, <2>1
  <2> QED
    BY <1>0, <2>2, Zenon DEF RepositoryInv, TypeOK, PCs
<1>2. ScanInv' /\ FinishInv'
  BY <1>0 DEF RepositoryInv, ScanInv, FinishInv, Scanning
<1>3. CallInv' /\ DatabaseInv' /\ UpHasDatabase'
  BY <1>0 DEF RepositoryInv, CallInv, DatabaseInv, UpHasDatabase, Busy, Scanning
<1>4. ReplyInv' /\ StationIdsRight'
  BY <1>0, ReplyKept, StationsKept DEF RepositoryInv, ReplyInv
<1> QED
  BY <1>1, <1>2, <1>3, <1>4 DEF RepositoryInv, ReplyInv

\* The result of a scan of the station table is the first rows of the table.
LEMMA StationScan ==
  ASSUME RepositoryInv, Scanning, call = getAllStations, fate # "spoilt"
  PROVE  Len(rows) \in 0..Len(StationRows) /\ Range(rows) = 1..Len(rows)
<1> DEFINE N == Len(StationRows)
           n == Len(rows)
<1>1. N \in Nat /\ DOMAIN StationRows = 1..N
  BY TablesAssumption
<1>2. SkipOf(call) = 0
  BY DEF getAllStations, SkipOf
<1>3. stmt.match = 1..N
  BY <1>1 DEF RepositoryInv, ScanInv, Matches, getAllStations
<1>4. n \in Nat /\ rows \in Seq(Nat)
  BY ScanType
<1>5. \A k \in 1..n : rows[k] \in 1..N /\ Rank(1..N, rows[k]) = k
  BY <1>2, <1>3 DEF RepositoryInv, ScanInv
<1>6. \A k \in 1..n : rows[k] = k
  <2> HIDE DEF N, n
  <2> QED
    BY <1>1, <1>5, RankInTable
<1>7. DOMAIN rows = 1..n
  BY <1>4
<1>8. Range(rows) = 1..n
  BY <1>6, <1>7 DEF Range
<1>9. n \in 0..N
  <2>1. n = 0 \/ n \in 1..n
    BY <1>4
  <2>2. n \in 1..n => n \in 1..N
    BY <1>5, <1>6
  <2> HIDE DEF n
  <2> QED
    BY <1>1, <1>4, <2>1, <2>2
<1> QED
  BY <1>8, <1>9

\* The return of a call.
LEMMA FinalizeInv ==
  ASSUME RepositoryInv, Finalize
  PROVE  RepositoryInv'
<1>0. /\ pc = "finalize" /\ pc' \in {"aborted", "idle"}
      /\ stmt' = None /\ fate' = "whole" /\ rows' = <<>> /\ call' = None
      /\ UNCHANGED <<inserted, mounted, file, conn, stale, faults, ejects, crashes>>
      /\ up' \in {up, TRUE} /\ (pc' = "idle" => up')
  BY DEF Finalize, card, budget, RepositoryInv, TypeOK
<1>1. /\ call \in Call /\ rows \in Seq(Nat) /\ Len(rows) \in Nat
      /\ stmt.left \in Nat
      /\ conn /\ file = "flood"
  BY <1>0, ScanType DEF RepositoryInv, DatabaseInv, Busy, Scanning
<1>2. stationMap' \in StationMap /\ mapFate' \in Fates /\ StationIdsRight'
  <2>1. CASE call = getAllStations /\ fate # "spoilt"
    <3>1. Len(rows) \in 0..Len(StationRows) /\ Range(rows) = 1..Len(rows)
      BY <1>0, <2>1, StationScan DEF Scanning
    <3>2. stationMap' = MapOf(1..Len(rows)) /\ mapFate' = fate
      BY <2>1, <3>1 DEF Finalize, MapsFrom
    <3> QED
      BY <3>1, <3>2, MapOfPrefix DEF StationIdsRight, RepositoryInv, TypeOK
  <2>2. CASE call = getAllStations /\ fate = "spoilt"
    <3>1. stationMap' \in StationMap /\ mapFate' = fate
      BY <2>2 DEF Finalize, MapsFrom
    <3> QED
      BY <2>2, <3>1 DEF StationIdsRight, Fates
  <2>3. CASE call # getAllStations
    <3>1. UNCHANGED <<stationMap, mapFate>>
      BY <2>3 DEF Finalize
    <3> QED
      BY <3>1, StationsKept DEF RepositoryInv, TypeOK
  <2> QED
    BY <2>1, <2>2, <2>3
<1>3. ReplyInv' /\ reply' \in Answers \cup {None}
  <2>1. CASE reply' = reply
    BY <2>1, ReplyKept DEF RepositoryInv, ReplyInv, TypeOK
  <2>2. CASE reply' = [call |-> call, rows |-> rows, fate |-> FateOf(call)]
    <3>1. /\ reply'.call = call /\ reply'.rows = rows /\ reply'.fate = FateOf(call)
          /\ reply' \in Answers
      <4>1. FateOf(call) \in Fates
        BY DEF FateOf, Fates, RepositoryInv, TypeOK
      <4> QED
        BY <1>1, <2>2, <4>1 DEF Answers
    <3>2. SUFFICES ASSUME Answered', reply'.fate # "spoilt" PROVE ReplyInv'
      BY <3>1 DEF ReplyInv, ReplyInPlace, ReplyWhole, CutIsShort
    <3>12. /\ fate # "spoilt" /\ reply'.fate = fate
           /\ call.op = "rainfall" => mapFate # "spoilt"
      BY <3>1, <3>2 DEF FateOf
    <3>3. call # getAllStations
      BY <3>1, <3>2 DEF Answered
    <3>4. /\ call.page \in CInt /\ call.size \in UInt8s
          /\ SkipOf(call) = Skipped(call.page, call.size)
          /\ LimitOf(call) = call.size
      BY <1>1, <3>3, CallKinds DEF SkipOf, LimitOf
    <3>5. stmt.match = MatchesOf(call)
      <4>1. /\ call.op = "rainfall" => call.station \in DOMAIN stationMap
            /\ stmt.match = Matches(call, stationMap)
        BY <1>0 DEF RepositoryInv, CallInv, ScanInv, Busy, Scanning, Known
      <4>2. call.op = "rainfall" => stationMap[call.station] = FullMap[call.station]
        BY <3>12, <4>1 DEF RepositoryInv, StationIdsRight
      <4> QED
        BY <1>1, <4>1, <4>2, MatchesAgree DEF MatchesOf
    <3>6. /\ Len(rows) <= call.size
          /\ \A k \in 1..Len(rows) :
               /\ rows[k] \in MatchesOf(call)
               /\ Rank(MatchesOf(call), rows[k]) = SkipOf(call) + k
      <4>1. Len(rows) + stmt.left = call.size
        BY <1>0, <3>4, <3>12 DEF RepositoryInv, ScanInv, Scanning
      <4>2. \A k \in 1..Len(rows) :
               /\ rows[k] \in MatchesOf(call)
               /\ Rank(MatchesOf(call), rows[k]) = SkipOf(call) + k
        BY <1>0, <3>5, <3>12 DEF RepositoryInv, ScanInv, Scanning
      <4> QED
        BY <1>1, <4>1, <4>2
    <3>7. Representable(call.page, call.size)
            => SkipOf(call) = FirstOf(call.page, call.size)
      BY <3>4, OffsetIsFirst
    <3>8. /\ fate = "short" => (call.size > 0 => Len(rows) < call.size)
          /\ fate = "whole" => Len(rows) = PageLen(MatchesOf(call), SkipOf(call), call.size)
      BY <1>0, <3>4, <3>5 DEF RepositoryInv, FinishInv
    <3>9. ReplyInPlace'
      BY <3>1, <3>6, <3>7 DEF ReplyInPlace
    <3>10. ReplyWhole'
      BY <3>1, <3>7, <3>8, <3>12 DEF ReplyWhole
    <3>11. CutIsShort'
      BY <3>1, <3>8, <3>12 DEF CutIsShort
    <3> QED
      BY <3>9, <3>10, <3>11 DEF ReplyInv
  <2> QED
    BY <2>1, <2>2 DEF Finalize
<1>4. TypeOK'
  <2>1. up' \in BOOLEAN
    BY <1>0 DEF RepositoryInv, TypeOK
  <2>2. <<>> \in Seq(Nat)
    OBVIOUS
  <2>3. pc' \in PCs
    BY <1>0 DEF PCs
  <2> QED
    BY <1>0, <1>2, <1>3, <2>1, <2>2, <2>3, Zenon DEF RepositoryInv, TypeOK, Fates
<1>5. CallInv' /\ ScanInv' /\ FinishInv'
  BY <1>0 DEF CallInv, ScanInv, FinishInv, Busy, Scanning
<1>6. DatabaseInv' /\ UpHasDatabase'
  BY <1>0, <1>1 DEF DatabaseInv, UpHasDatabase, Busy, Scanning
<1> QED
  BY <1>2, <1>3, <1>4, <1>5, <1>6 DEF RepositoryInv, ReplyInv

\* Every step of the specification keeps the invariant.
LEMMA NextInv == RepositoryInv /\ [Next]_vars => RepositoryInv'
<1> SUFFICES ASSUME RepositoryInv, [Next]_vars PROVE RepositoryInv'
  OBVIOUS
<1>1. CASE Environment \/ Reboot
  BY <1>1, EnvironmentInv
<1>2. CASE InitSteps
  BY <1>2, InitStepsInv
<1>3. CASE BeginCall
  BY <1>3, BeginCallInv
<1>4. CASE Prepare
  BY <1>4, PrepareInv
<1>5. CASE PrepareThrows
  <2>1. /\ Throw /\ pc # "finalize" /\ UNCHANGED card
        /\ Fails \/ UNCHANGED budget
    BY <1>5 DEF PrepareThrows
  <2> QED
    BY <2>1, ThrowInv, BudgetType DEF RepositoryInv
<1>6. CASE StepRow
  BY <1>6, StepRowInv
<1>7. CASE StepDone
  BY <1>7, StepDoneInv
<1>8. CASE StepError
  BY <1>8, StepErrorInv
<1>9. CASE NullText
  <2>1. /\ Throw /\ pc # "finalize" /\ UNCHANGED card
        /\ Fault \/ UNCHANGED budget
    BY <1>9 DEF NullText
  <2> QED
    BY <2>1, ThrowInv, BudgetType DEF RepositoryInv
<1>10. CASE Finalize
  BY <1>10, FinalizeInv
<1>12. CASE StalePage
  BY <1>12, StalePageInv
<1>13. CASE SpoiltScan
  BY <1>13, SpoiltScanInv
<1>11. CASE UNCHANGED vars
  BY <1>11 DEF vars, card, memory, budget, RepositoryInv, TypeOK, CallInv, DatabaseInv,
       ScanInv, FinishInv, StationIdsRight, UpHasDatabase, ReplyInPlace, ReplyWhole,
       CutIsShort, Answered, MatchesOf, Busy, Scanning
<1> QED
  BY <1>1, <1>2, <1>3, <1>4, <1>5, <1>6, <1>7, <1>8, <1>9, <1>10, <1>11, <1>12, <1>13
     DEF Next, CallSteps
-----------------------------------------------------------------------------
(* The theorems.                                                           *)

\* The invariant of the repository holds in every reachable state: whatever the
\* tables hold, whatever is asked and however often the card fails.
THEOREM RepositoryInvariant == Spec => []RepositoryInv
BY InitInv, NextInv, PTL DEF Spec

\* Type correctness.
THEOREM TypeCorrect == Spec => []TypeOK
<1>1. RepositoryInv => TypeOK
  BY DEF RepositoryInv
<1> QED
  BY <1>1, RepositoryInvariant, PTL

\* Row k of every reply of getRiverReadings and getStationRainfallReadings that
\* no stale page has spoilt is the row of rank (page - 1) * pagesize + k among
\* the rows the query matches, whether or not an error has cut it short.
THEOREM RepliesInPlace == Spec => []ReplyInPlace
<1>1. RepositoryInv => ReplyInPlace
  BY DEF RepositoryInv
<1> QED
  BY <1>1, RepositoryInvariant, PTL

\* A scan loop that met no error has returned every row of the page.
THEOREM RepliesWhole == Spec => []ReplyWhole
<1>1. RepositoryInv => ReplyWhole
  BY DEF RepositoryInv
<1> QED
  BY <1>1, RepositoryInvariant, PTL

\* A page as long as the page size was not cut short by an error.
THEOREM FullPagesUncut == Spec => []CutIsShort
<1>1. RepositoryInv => CutIsShort
  BY DEF RepositoryInv
<1> QED
  BY <1>1, RepositoryInvariant, PTL

\* getAllStations never gives a station the identifier of another row, however
\* early its scans were cut, unless a stale page has spoilt the last of them.
THEOREM StationIdentifiers == Spec => []StationIdsRight
<1>1. RepositoryInv => StationIdsRight
  BY DEF RepositoryInv
<1> QED
  BY <1>1, RepositoryInvariant, PTL

\* init() does not return without an open connection to the flood tables.
THEOREM UpMeansDatabase == Spec => []UpHasDatabase
<1>1. RepositoryInv => UpHasDatabase
  BY DEF RepositoryInv
<1> QED
  BY <1>1, RepositoryInvariant, PTL
=============================================================================
