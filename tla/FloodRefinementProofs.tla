------------------------ MODULE FloodRefinementProofs ------------------------
(***************************************************************************)
(* FloodRepository implements FloodStore: opening the database, beginning  *)
(* a call and returning from it are Open, Ask and the store's answers, an  *)
(* error that is swallowed cuts or spoils its scan, every throw and        *)
(* every reset takes it down, and nothing else that happens in a query, in *)
(* init() or to the card can be seen from outside.                         *)
(***************************************************************************)
EXTENDS FloodRepositoryProofs

-----------------------------------------------------------------------------
(* The operators of the store are those of the repository.                 *)

LEMMA StoreCall ==
  /\ Store!getAllStations = getAllStations
  /\ \A c, names : Store!Known(c, names) <=> Known(c, names)
  /\ \A c : Store!LimitOf(c) = LimitOf(c) /\ Store!SpoiltRows(c) = SpoiltRows(c)
  /\ \A p, s : /\ Store!FirstOf(p, s) = FirstOf(p, s)
               /\ Store!Representable(p, s) <=> Representable(p, s)
BY DEF Store!getAllStations, getAllStations, Store!Known, Known,
       Store!LimitOf, LimitOf, Store!SpoiltRows, SpoiltRows, Store!Misquoted, Misquoted,
       Store!FirstOf, FirstOf, Store!Representable, Representable

LEMMA StoreMatches ==
  ASSUME NEW c
  PROVE  Store!Matches(c, Store!FullMap) = MatchesOf(c)
BY DEF Store!Matches, Store!FullMap, Store!MapOf, Store!IdIn, Store!RiverMatches,
       Store!RainMatches, Store!After, MatchesOf, Matches, FullMap, MapOf, IdIn,
       RiverMatches, RainMatches, After

LEMMA StorePage ==
  ASSUME NEW M, NEW skip, NEW limit
  PROVE  /\ Store!PageOf(M, skip, limit) = PageOf(M, skip, limit)
         /\ Store!Cardinality(M) = Cardinality(M)
<1>1. \A S : Store!Cardinality(S) = Cardinality(S)
  BY Zenon DEF Store!Cardinality, Cardinality
<1>2. Store!PageLen(M, skip, limit) = PageLen(M, skip, limit)
  BY <1>1 DEF Store!PageLen, PageLen
<1>3. \A i : Store!Rank(M, i) = Rank(M, i)
  BY <1>1, Zenon DEF Store!Rank, Store!UpTo, Rank, UpTo
<1> QED
  BY <1>1, <1>2, <1>3 DEF Store!PageOf, PageOf

\* A call goes to the first page that its arguments can mean.
PageAskedOf(c) == PageOf(MatchesOf(c), SkipOf(c), LimitOf(c))

\* The page that the code reads is one that the store allows.
LEMMA PageAllowed ==
  ASSUME NEW c \in Call
  PROVE  PageAskedOf(c) \in Store!Pages(c)
<1> DEFINE M == MatchesOf(c)
<1>0. M \in SUBSET Nat /\ IsFiniteSet(M) /\ SkipOf(c) \in Nat /\ LimitOf(c) \in Nat
  BY MatchesType, PlanType DEF MatchesOf
<1>1. CASE c = getAllStations
  <2>1. SkipOf(c) = 0
    BY <1>1 DEF SkipOf, getAllStations
  <2> QED
    BY <1>1, <2>1, StoreCall, StoreMatches, StorePage DEF Store!Pages, PageAskedOf
<1>2. CASE c # getAllStations
  <2>1. /\ c.page \in CInt /\ c.size \in UInt8s
        /\ SkipOf(c) = Skipped(c.page, c.size)
        /\ LimitOf(c) = c.size
    BY <1>2, CallKinds DEF SkipOf, LimitOf
  <2>2. CASE Representable(c.page, c.size)
    <3>1. SkipOf(c) = FirstOf(c.page, c.size)
      BY <2>1, <2>2, OffsetIsFirst
    <3> QED
      BY <1>2, <2>1, <2>2, <3>1, StoreCall, StoreMatches, StorePage
         DEF Store!Pages, PageAskedOf
  <2>3. CASE ~Representable(c.page, c.size)
    <3>1. Cardinality(M) \in Nat
      BY <1>0, FS_CardinalityType
    <3>2. PICK first \in 0..Cardinality(M) : PageOf(M, first, c.size) = PageAskedOf(c)
      <4>1. CASE SkipOf(c) <= Cardinality(M)
        BY <1>0, <2>1, <3>1, <4>1 DEF PageAskedOf
      <4>2. CASE SkipOf(c) > Cardinality(M)
        <5>1. /\ PageLen(M, SkipOf(c), c.size) = 0
              /\ PageLen(M, Cardinality(M), c.size) = 0
          BY <1>0, <3>1, <4>2 DEF PageLen
        <5>2. PageOf(M, SkipOf(c), c.size) = PageOf(M, Cardinality(M), c.size)
          BY <5>1 DEF PageOf
        <5> QED
          BY <2>1, <3>1, <5>2 DEF PageAskedOf
      <4> QED
        BY <1>0, <3>1, <4>1, <4>2
    <3> HIDE DEF M
    <3>3. PageAskedOf(c) \in {PageOf(M, f, c.size) : f \in 0..Cardinality(M)}
      BY <3>2
    <3> QED
      BY <1>2, <2>3, <3>3, StoreCall, StoreMatches, StorePage DEF Store!Pages, M
  <2> QED
    BY <2>2, <2>3
<1> QED
  BY <1>1, <1>2

-----------------------------------------------------------------------------
(* The invariant that the refinement needs besides RepositoryInv.          *)

\* Between calls there is none, and a spoilt scan ends with rows that the store
\* allows.
QuietInv ==
  /\ pc \in {"off", "mount", "open", "idle"} => call = None
  /\ (pc = "finalize" /\ fate = "spoilt") => rows \in SpoiltRows(call)

RefinementInv == RepositoryInv /\ QuietInv

LEMMA QuietIssue ==
  ASSUME QuietInv, NEW c, Issue(c)
  PROVE  QuietInv'
BY DEF QuietInv, Issue, Throw

LEMMA QuietNext ==
  ASSUME RepositoryInv, QuietInv, [Next]_vars
  PROVE  QuietInv'
<1>1. CASE Environment \/ Reboot
  BY <1>1 DEF QuietInv, Environment, Eject, Insert, Crash, Reboot, MemoryLost, memory
<1>2. CASE InitSteps
  BY <1>2 DEF QuietInv, InitSteps, BeginInit, Mount, InitThrows, OpenExisting, OpenCreates,
              OpenThrows, Throw, memory
<1>3. CASE BeginCall
  BY <1>3, QuietIssue DEF BeginCall
<1>4. CASE Prepare \/ PrepareThrows \/ NullText
  BY <1>4 DEF QuietInv, Prepare, PrepareThrows, NullText, Throw
<1>5. CASE StepRow \/ StepDone \/ StepError \/ StalePage
  BY <1>5 DEF QuietInv, StepRow, StepDone, StepError, StalePage, memory
<1>6. CASE SpoiltScan
  BY <1>6 DEF QuietInv, SpoiltScan, SpoiltRows, LimitOf
<1>7. CASE Finalize
  BY <1>7 DEF QuietInv, Finalize
<1>8. CASE UNCHANGED vars
  BY <1>8 DEF QuietInv, vars, memory, SpoiltRows, LimitOf
<1> QED
  BY <1>1, <1>2, <1>3, <1>4, <1>5, <1>6, <1>7, <1>8 DEF Next, CallSteps

LEMMA RefinementInvariant == Spec => []RefinementInv
<1>1. Init => QuietInv
  BY DEF Init, QuietInv
<1>2. RefinementInv /\ [Next]_vars => RefinementInv'
  BY NextInv, QuietNext DEF RefinementInv
<1> QED
  BY <1>1, <1>2, InitInv, PTL DEF Spec, RefinementInv

-----------------------------------------------------------------------------
(* The steps.                                                              *)

\* What the store sees is not touched.
Unseen == UNCHANGED <<up, stationMap, mapFate, call, fate, reply>> /\ Alive' = Alive

LEMMA Stutter ==
  ASSUME Unseen
  PROVE  UNCHANGED Store!storeVars
BY DEF Unseen, Store!storeVars, Told

\* An exception and a reset take the store down.
LEMMA ThrowLoses ==
  ASSUME pc' = "aborted"
  PROVE  Store!Lose
BY DEF Store!Lose, Alive

LEMMA ResetLoses ==
  ASSUME MemoryLost, pc' = "off"
  PROVE  Store!Lose
<1>1. DOMAIN EmptyMap = {}
  BY DEF EmptyMap, MapOf
<1> QED
  BY <1>1 DEF MemoryLost, Store!Lose, Alive, Told

LEMMA EnvironmentMaps ==
  ASSUME Environment \/ Reboot
  PROVE  Store!Lose \/ UNCHANGED Store!storeVars
<1>1. CASE Eject \/ Insert
  <2>1. Unseen
    BY <1>1 DEF Eject, Insert, Unseen, memory, Alive
  <2> QED
    BY <2>1, Stutter
<1>2. CASE Crash \/ Reboot
  BY <1>2, ResetLoses DEF Crash, Reboot
<1> QED
  BY <1>1, <1>2 DEF Environment

\* init() is not seen before it returns.
LEMMA InitStepsMap ==
  ASSUME RefinementInv, InitSteps
  PROVE  Store!Lose \/ UNCHANGED Store!storeVars
<1>1. CASE BeginInit \/ Mount
  <2>1. Unseen
    BY <1>1 DEF BeginInit, Mount, Unseen, memory, Alive
  <2> QED
    BY <2>1, Stutter
<1>2. CASE InitThrows \/ OpenThrows
  BY <1>2, ThrowLoses DEF InitThrows, OpenThrows, Throw
<1>3. CASE OpenExisting \/ OpenCreates
  <2>1. /\ pc = "open" /\ pc' = "prepare"
        /\ UNCHANGED <<up, stationMap, mapFate, fate, reply>>
    BY <1>3 DEF OpenExisting, OpenCreates
  <2>2. ~up
    BY <2>1 DEF RefinementInv, RepositoryInv, DatabaseInv
  <2> QED
    BY <2>1, <2>2 DEF Store!storeVars, Told, Alive
<1> QED
  BY <1>1, <1>2, <1>3 DEF InitSteps

LEMMA BeginCallMaps ==
  ASSUME RefinementInv, BeginCall
  PROVE  (\E c \in Calls : Store!Ask(c)) \/ Store!Lose
<1>1. PICK c \in Calls : Issue(c)
  BY DEF BeginCall
<1>2. CASE Known(c, DOMAIN stationMap)
  <2>1. /\ pc = "idle" /\ pc' = "prepare" /\ call' = c /\ reply' = None
        /\ UNCHANGED <<up, stationMap, mapFate, fate>>
    BY <1>1, <1>2 DEF Issue
  <2>2. up /\ call = None
    BY <2>1 DEF RefinementInv, RepositoryInv, DatabaseInv, QuietInv
  <2>3. Store!Ask(c)
    BY <1>2, <2>1, <2>2, StoreCall DEF Store!Ask, Alive, Told
  <2> QED
    BY <2>3
<1>3. CASE ~Known(c, DOMAIN stationMap)
  BY <1>1, <1>3, ThrowLoses DEF Issue, Throw
<1> QED
  BY <1>2, <1>3

\* Of a scan only its fate is seen before it returns.
LEMMA ScanMaps ==
  ASSUME RefinementInv,
         \/ Prepare \/ PrepareThrows \/ StepRow \/ StepDone \/ StepError
         \/ StalePage \/ SpoiltScan \/ NullText
  PROVE  Store!Cut \/ Store!Spoil \/ Store!Lose \/ UNCHANGED Store!storeVars
<1>0. pc \in {"prepare", "step"} => call # None
  BY CallsAssumption DEF RefinementInv, RepositoryInv, CallInv, Busy
<1>1. CASE StepRow \/ StepDone \/ SpoiltScan
  <2>1. Unseen
    BY <1>1 DEF StepRow, StepDone, SpoiltScan, Unseen, memory, Alive
  <2> QED
    BY <2>1, Stutter
<1>2. CASE PrepareThrows \/ NullText
  BY <1>2, ThrowLoses DEF PrepareThrows, NullText, Throw
<1>3. CASE Prepare
  <2>1. /\ pc = "prepare" /\ pc' = "step"
        /\ fate' = IF Misquoted(call) THEN "spoilt" ELSE fate
        /\ UNCHANGED <<up, stationMap, mapFate, call, reply>>
    BY <1>3 DEF Prepare
  <2>2. fate = "whole"
    BY <2>1 DEF RefinementInv, RepositoryInv, CallInv, Scanning
  <2>3. CASE Misquoted(call)
    BY <1>0, <2>1, <2>2, <2>3 DEF Store!Spoil, Alive, Told
  <2>4. CASE ~Misquoted(call)
    <3>1. Unseen
      BY <2>1, <2>4 DEF Unseen, Alive
    <3> QED
      BY <3>1, Stutter
  <2> QED
    BY <2>3, <2>4
<1>4. CASE StepError
  BY <1>0, <1>4 DEF StepError, Store!Cut, Alive, Told
<1>5. CASE StalePage
  <2>1. /\ pc = "step" /\ fate' = "spoilt"
        /\ UNCHANGED <<pc, up, stationMap, mapFate, call, reply>>
    BY <1>5 DEF StalePage
  <2>2. CASE fate = "whole"
    BY <1>0, <2>1, <2>2 DEF Store!Spoil, Alive, Told
  <2>3. CASE fate # "whole"
    <3>1. fate = "spoilt"
      BY <1>5, <2>1, <2>3 DEF StalePage, RefinementInv, RepositoryInv, CallInv, Scanning
    <3>2. Unseen
      BY <2>1, <3>1 DEF Unseen, Alive
    <3> QED
      BY <3>2, Stutter
  <2> QED
    BY <2>2, <2>3
<1> QED
  BY <1>1, <1>2, <1>3, <1>4, <1>5

-----------------------------------------------------------------------------
(* The return of a call.                                                   *)

\* The rows of a scan that is over, as the store has them.
ToldRows(f) == IF f = "spoilt" /\ rows # <<>> THEN <<0>> ELSE rows

LEMMA RowsAllowed ==
  ASSUME RefinementInv, pc = "finalize"
  PROVE  ToldRows(FateOf(call)) \in Store!Results(call, FateOf(call))
<1> SUFFICES ASSUME NEW f, f = FateOf(call)
             PROVE  ToldRows(f) \in Store!Results(call, f)
  OBVIOUS
<1>0. /\ call \in Call
      /\ rows \in Seq(Nat) /\ Len(rows) \in Nat
      /\ SkipOf(call) \in Nat /\ LimitOf(call) \in Nat
      /\ stmt.left \in Nat
  BY ScanType DEF RefinementInv, Scanning
<1>1. f \in Fates /\ (f # "spoilt" => fate = f /\ (call.op = "rainfall" => mapFate # "spoilt"))
  BY DEF FateOf, Fates, RefinementInv, RepositoryInv, TypeOK
<1>2. fate # "spoilt" => Len(rows) + stmt.left = LimitOf(call)
  BY DEF RefinementInv, RepositoryInv, ScanInv, Scanning
<1>3. CASE f = "spoilt"
  <2>1. rows # <<>> => Misquoted(call) \/ 1 <= LimitOf(call)
    <3>1. CASE fate = "spoilt"
      <4>1. rows \in {<<>>, <<0>>} /\ (Misquoted(call) \/ Len(rows) <= LimitOf(call))
        BY <3>1 DEF RefinementInv, QuietInv, SpoiltRows
      <4> QED
        BY <1>0, <4>1
    <3>2. CASE fate # "spoilt"
      <4>1. rows # <<>> => Len(rows) > 0
        BY <1>0
      <4> QED
        BY <1>0, <1>2, <3>2, <4>1
    <3> QED
      BY <3>1, <3>2
  <2>2. ToldRows(f) \in SpoiltRows(call)
    <3>1. Len(<<>>) = 0 /\ Len(<<0>>) = 1
      OBVIOUS
    <3> QED
      BY <1>0, <1>3, <2>1, <3>1 DEF ToldRows, SpoiltRows
  <2> QED
    BY <1>3, <2>2, StoreCall DEF Store!Results
<1>4. CASE f # "spoilt"
  <2> DEFINE M == MatchesOf(call)
             p == PageLen(M, SkipOf(call), LimitOf(call))
  <2>0. fate = f /\ ToldRows(f) = rows
    BY <1>1, <1>4 DEF ToldRows
  <2>1. stmt.match = M
    <3>1. /\ call.op = "rainfall" => call.station \in DOMAIN stationMap
          /\ stmt.match = Matches(call, stationMap)
      BY DEF RefinementInv, RepositoryInv, CallInv, ScanInv, Busy, Scanning, Known
    <3>2. call.op = "rainfall" => stationMap[call.station] = FullMap[call.station]
      BY <1>1, <1>4, <3>1 DEF RefinementInv, RepositoryInv, StationIdsRight
    <3> QED
      BY <1>0, <3>1, <3>2, MatchesAgree DEF MatchesOf
  <2>2. M \in SUBSET Nat /\ IsFiniteSet(M)
    BY <1>0, MatchesType DEF MatchesOf
  <2>3. \A k \in 1..Len(rows) : rows[k] \in M /\ Rank(M, rows[k]) = SkipOf(call) + k
    BY <1>4, <2>0, <2>1 DEF RefinementInv, RepositoryInv, ScanInv, Scanning
  <2>4. Len(rows) <= LimitOf(call)
    BY <1>0, <1>2, <1>4, <2>0
  <2> HIDE DEF M
  <2>5. /\ Len(rows) \in 0..p
        /\ rows = SubSeq(PageAskedOf(call), 1, Len(rows))
        /\ Len(rows) = p => rows = PageAskedOf(call)
    BY <1>0, <2>2, <2>3, <2>4, RowsOfPage DEF PageAskedOf, M
  <2>6. CASE f = "whole"
    <3>1. Len(rows) = p
      BY <2>0, <2>1, <2>6 DEF RefinementInv, RepositoryInv, FinishInv
    <3> QED
      BY <1>0, <2>0, <2>5, <2>6, <3>1, PageAllowed DEF Store!Results
  <2>7. CASE f = "short"
    <3>1. Len(PageAskedOf(call)) = p
      BY <1>0, <2>2, PageType DEF PageAskedOf, M
    <3>2. rows \in {SubSeq(PageAskedOf(call), 1, n) : n \in 0..Len(PageAskedOf(call))}
      BY <2>5, <3>1
    <3> QED
      BY <1>0, <2>0, <2>7, <3>2, PageAllowed DEF Store!Results
  <2> QED
    BY <1>1, <1>4, <2>6, <2>7 DEF Fates
<1> QED
  BY <1>3, <1>4

\* The names that the station map gets are those in the rows.
LEMMA NamesAllowed ==
  ASSUME RefinementInv, Finalize, call = getAllStations
  PROVE  /\ DOMAIN stationMap' \in Store!NamesIn(ToldRows(fate), fate)
         /\ rows # <<>> => DOMAIN stationMap' # {}
<1>0. pc = "finalize" /\ stationMap' \in MapsFrom(rows, fate)
  BY DEF Finalize
<1>1. CASE fate = "spoilt"
  <2>1. /\ stationMap' \in StationMap
        /\ stationMap' = EmptyMap <=> rows = <<>>
    BY <1>0, <1>1 DEF MapsFrom
  <2>2. DOMAIN stationMap' \in SUBSET Names
    BY <2>1 DEF StationMap
  <2>3. stationMap' = EmptyMap <=> DOMAIN stationMap' = {}
    <3>1. EmptyMap = [name \in {} |-> IdIn({}, name)]
      BY DEF EmptyMap, MapOf
    <3>2. stationMap' = [name \in DOMAIN stationMap' |-> stationMap'[name]]
      BY <2>1 DEF StationMap
    <3> QED
      BY <3>1, <3>2
  <2>4. ToldRows(fate) = <<>> <=> rows = <<>>
    BY DEF ToldRows
  <2> QED
    BY <1>1, <2>1, <2>2, <2>3, <2>4 DEF Store!NamesIn
<1>2. CASE fate # "spoilt"
  <2>1. Len(rows) \in 0..Len(StationRows) /\ Range(rows) = 1..Len(rows)
    BY <1>0, <1>2, StationScan DEF RefinementInv, Scanning
  <2>2. stationMap' = MapOf(1..Len(rows))
    BY <1>0, <1>2, <2>1 DEF MapsFrom
  <2>3. DOMAIN stationMap' = {StationRows[i].name : i \in 1..Len(rows)}
    BY <2>2 DEF MapOf
  <2>4. rows # <<>> => 1 \in 1..Len(rows)
    BY <1>0, ScanType DEF RefinementInv, Scanning
  <2> QED
    BY <1>2, <2>3, <2>4 DEF Store!NamesIn, ToldRows
<1> QED
  BY <1>1, <1>2

\* init() returns.
LEMMA InitReturnOpens ==
  ASSUME RefinementInv, Finalize, ~up, rows # <<>>
  PROVE  Store!Open
<1>1. pc = "finalize" /\ call \in Call /\ call = getAllStations
  BY DEF Finalize, RefinementInv, RepositoryInv, CallInv, Busy
<1>2. /\ pc' = "idle" /\ up' = TRUE /\ mapFate' = fate /\ UNCHANGED reply
      /\ fate' = "whole" /\ call' = None
  BY <1>1 DEF Finalize
<1>3. ToldRows(fate) \in Store!Results(getAllStations, fate)
  <2>1. FateOf(call) = fate
    BY <1>1 DEF FateOf, getAllStations
  <2> QED
    BY <1>1, <2>1, RowsAllowed
<1> QED
  BY <1>1, <1>2, <1>3, NamesAllowed, StoreCall DEF Store!Open, Alive, Told

\* The reply of a call, as the store has it.
LEMMA ReplyOfCall ==
  ASSUME RefinementInv, Finalize, up
  PROVE  /\ pc = "finalize" /\ call \in Call /\ call # None /\ up \in BOOLEAN
         /\ fate' = "whole" /\ call' = None /\ pc' = "idle" /\ UNCHANGED up
         /\ Told(reply') =
              [call |-> call, rows |-> ToldRows(FateOf(call)), fate |-> FateOf(call)]
<1>0. /\ pc = "finalize" /\ call \in Call /\ call # None
      /\ fate' = "whole" /\ call' = None
      /\ up \in BOOLEAN
  BY CallsAssumption
     DEF Finalize, RefinementInv, RepositoryInv, CallInv, Busy, TypeOK
<1>1. /\ reply' = [call |-> call, rows |-> rows, fate |-> FateOf(call)]
      /\ pc' = "idle" /\ UNCHANGED up
  BY DEF Finalize
<1>2. reply' # None
  <2>1. FateOf(call) \in Fates /\ rows \in Seq(Nat)
    BY DEF FateOf, Fates, RefinementInv, RepositoryInv, TypeOK
  <2> QED
    BY <1>0, <1>1, <2>1, AnswersAssumption DEF Answers
<1> QED
  BY <1>0, <1>1, <1>2 DEF Told, ToldRows

\* getRiverReadings or getStationRainfallReadings returns.
LEMMA QueryReturnAnswers ==
  ASSUME RefinementInv, Finalize, up, call # getAllStations
  PROVE  Store!AnswerQuery
<1>1. UNCHANGED <<stationMap, mapFate>>
  BY DEF Finalize
<1>2. Store!FateOf(call, fate) = FateOf(call)
  <2>1. Misquoted(call) => fate = "spoilt"
    BY ReplyOfCall DEF RefinementInv, RepositoryInv, CallInv, Scanning
  <2> QED
    BY <2>1, ReplyOfCall DEF Store!FateOf, FateOf, Store!Misquoted, Misquoted, Alive,
                            Store!getAllStations, getAllStations
<1> QED
  BY <1>1, <1>2, ReplyOfCall, RowsAllowed, StoreCall DEF Store!AnswerQuery, Alive

LEMMA FinalizeMaps ==
  ASSUME RefinementInv, Finalize
  PROVE  Store!Open \/ Store!AnswerQuery \/ Store!AnswerStations \/ Store!Lose
<1>1. CASE ~up /\ rows = <<>>
  BY <1>1, ThrowLoses DEF Finalize
<1>2. CASE ~up /\ rows # <<>>
  BY <1>2, InitReturnOpens
<1>3. CASE up /\ call = getAllStations
  <2>1. FateOf(call) = fate /\ mapFate' = fate
    BY <1>3 DEF FateOf, getAllStations, Finalize
  <2>2. Store!AnswerStations
    BY <1>3, <2>1, ReplyOfCall, RowsAllowed, NamesAllowed, StoreCall
       DEF Store!AnswerStations, Alive
  <2> QED
    BY <2>2
<1>4. CASE up /\ call # getAllStations
  BY <1>4, QueryReturnAnswers
<1> QED
  BY <1>1, <1>2, <1>3, <1>4 DEF RefinementInv, RepositoryInv, TypeOK

-----------------------------------------------------------------------------
\* Whatever the tables hold, whatever is asked and however the card fails, the
\* repository does what IFloodRepository promises: FloodStore with the state
\* of the repository in the place of its own.
THEOREM RepositoryKeepsPromise == Spec => KeepsPromise
<1>1. Init => Store!StoreInit
  <2>1. DOMAIN EmptyMap = {}
    BY DEF EmptyMap, MapOf
  <2> QED
    BY <2>1 DEF Init, Store!StoreInit, Alive, Told
<1>2. RefinementInv /\ [Next]_vars => [Store!StoreNext]_(Store!storeVars)
  <2> SUFFICES ASSUME RefinementInv, [Next]_vars
               PROVE  [Store!StoreNext]_(Store!storeVars)
    OBVIOUS
  <2>1. CASE Environment \/ Reboot
    BY <2>1, EnvironmentMaps DEF Store!StoreNext
  <2>2. CASE InitSteps
    BY <2>2, InitStepsMap DEF Store!StoreNext
  <2>3. CASE BeginCall
    BY <2>3, BeginCallMaps DEF Store!StoreNext
  <2>4. CASE CallSteps /\ ~Finalize
    BY <2>4, ScanMaps DEF Store!StoreNext, CallSteps
  <2>5. CASE Finalize
    BY <2>5, FinalizeMaps DEF Store!StoreNext
  <2>6. CASE UNCHANGED vars
    <3>1. Unseen
      BY <2>6 DEF vars, memory, Unseen, Alive
    <3> QED
      BY <3>1, Stutter
  <2> QED
    BY <2>1, <2>2, <2>3, <2>4, <2>5, <2>6 DEF Next
<1> QED
  BY <1>1, <1>2, RefinementInvariant, PTL DEF Spec, KeepsPromise, Store!StoreSpec
=============================================================================
