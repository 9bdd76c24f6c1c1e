-------------------------- MODULE FloodRoutesProofs -------------------------
(***************************************************************************)
(* What FloodStore, the promise of IFloodRepository, is worth to a caller; *)
(* then the safety properties of the handlers for every set of requests,   *)
(* every content of the tables and every failure of the repository.        *)
(***************************************************************************)
EXTENDS FloodRoutes, FloodTablesProofs

-----------------------------------------------------------------------------
(* The store.                                                              *)

\* The rows that a call is about.
MatchesMeant(c) == Matches(c, FullMap)

\* A page that a query can mean has rows of the tables, no more than its limit.
LEMMA PagesType ==
  ASSUME NEW c \in Call, NEW rows \in Pages(c)
  PROVE  /\ rows \in Seq(Nat)
         /\ Len(rows) \in 0..LimitOf(c)
         /\ c = getAllStations => Len(rows) = Len(StationRows)
<1> DEFINE M == MatchesMeant(c)
<1>0. M \in SUBSET (Nat \ {0}) /\ M \in SUBSET Nat /\ IsFiniteSet(M) /\ LimitOf(c) \in Nat
  BY MatchesType, PlanType DEF MatchesMeant
<1>1. Cardinality(M) \in Nat
  BY <1>0, FS_CardinalityType
<1>2. PICK skip \in Nat : /\ rows = PageOf(M, skip, LimitOf(c))
                          /\ c = getAllStations => skip = 0
  <2>1. CASE c = getAllStations
    BY <2>1 DEF Pages, MatchesMeant
  <2>2. CASE c # getAllStations
    <3>1. LimitOf(c) = c.size
      BY <2>2, CallKinds DEF LimitOf
    <3>2. CASE Representable(c.page, c.size)
      BY <2>2, <3>1, <3>2, IntMaxAssumption DEF Pages, MatchesMeant, Representable
    <3>3. CASE ~Representable(c.page, c.size)
      BY <1>1, <2>2, <3>1, <3>3 DEF Pages, MatchesMeant
    <3> QED
      BY <3>2, <3>3
  <2> QED
    BY <2>1, <2>2
<1> HIDE DEF M
<1>3. /\ rows \in Seq(Nat)
      /\ Len(rows) = PageLen(M, skip, LimitOf(c))
      /\ Len(rows) \in 0..LimitOf(c)
  <2> DEFINE limit == LimitOf(c)
  <2> HIDE DEF limit
  <2>1. limit \in Nat /\ rows = PageOf(M, skip, limit)
    BY <1>0, <1>2 DEF limit
  <2>2. /\ PageLen(M, skip, limit) \in 0..limit
        /\ Len(PageOf(M, skip, limit)) = PageLen(M, skip, limit)
    BY <1>0, <2>1, PageType
  <2>3. PageOf(M, skip, limit) \in Seq(Nat)
    BY <1>0, <2>1, PageRows
  <2> QED
    BY <2>1, <2>2, <2>3 DEF limit
<1>4. ASSUME c = getAllStations PROVE Len(rows) = Len(StationRows)
  <2>1. M = 1..Len(StationRows) /\ Len(StationRows) \in Nat
    BY <1>4, StationTable DEF M, MatchesMeant, Matches, getAllStations
  <2>2. Cardinality(M) = Len(StationRows)
    <3> DEFINE n == Len(StationRows)
    <3> HIDE DEF n
    <3>1. n \in Nat
      BY <2>1 DEF n
    <3>2. Cardinality(1..n) = n
      BY <3>1, FS_Interval
    <3> QED
      BY <2>1, <3>2 DEF n
  <2>3. LimitOf(c) = Len(StationRows) + 1 /\ skip = 0
    BY <1>2, <1>4 DEF LimitOf, getAllStations
  <2> QED
    BY <1>3, <2>1, <2>2, <2>3 DEF PageLen
<1> QED
  BY <1>3, <1>4

\* So has what a scan of any fate leaves of it.
LEMMA ResultsType ==
  ASSUME NEW c \in Call, NEW f \in Fates, NEW rows \in Results(c, f)
  PROVE  /\ rows \in Seq(Nat)
         /\ Misquoted(c) \/ Len(rows) \in 0..LimitOf(c)
         /\ (c = getAllStations /\ f # "spoilt") => Len(rows) \in 0..Len(StationRows)
<1>0. LimitOf(c) \in Nat /\ Len(StationRows) \in Nat
  BY PlanType, StationTable
<1>1. CASE f = "whole"
  <2>1. rows \in Pages(c)
    BY <1>1 DEF Results
  <2> QED
    BY <1>0, <2>1, PagesType
<1>2. CASE f = "short"
  <2>1. PICK p \in Pages(c) : \E n \in 0..Len(p) : rows = SubSeq(p, 1, n)
    BY <1>2 DEF Results
  <2>2. PICK n \in 0..Len(p) : rows = SubSeq(p, 1, n)
    BY <2>1
  <2>3. /\ p \in Seq(Nat) /\ Len(p) \in 0..LimitOf(c)
        /\ c = getAllStations => Len(p) = Len(StationRows)
    BY PagesType
  <2>4. rows \in Seq(Nat) /\ Len(rows) = n
    BY <2>2, <2>3
  <2> QED
    BY <1>0, <2>3, <2>4
<1>3. CASE f = "spoilt"
  <2>1. rows \in {<<>>, <<0>>} /\ (Misquoted(c) \/ Len(rows) <= LimitOf(c))
    BY <1>3 DEF Results, SpoiltRows
  <2>2. rows \in Seq(Nat) /\ Len(rows) \in Nat
    <3>1. <<>> \in Seq(Nat) /\ <<0>> \in Seq(Nat)
      OBVIOUS
    <3>2. rows \in Seq(Nat)
      BY <2>1, <3>1
    <3> QED
      BY <3>2
  <2>3. Misquoted(c) \/ Len(rows) \in 0..LimitOf(c)
    BY <1>0, <2>1, <2>2
  <2> QED
    BY <1>3, <2>2, <2>3
<1> QED
  BY <1>1, <1>2, <1>3 DEF Fates

\* The names that a refresh learns are names of the table.
LEMMA NamesType ==
  ASSUME NEW f \in Fates, NEW rows \in Results(getAllStations, f),
         NEW names \in NamesIn(rows, f)
  PROVE  /\ names \in SUBSET Names
         /\ f # "spoilt" => names \in SUBSET DOMAIN FullMap
<1>1. CASE f = "spoilt"
  BY <1>1 DEF NamesIn
<1>2. CASE f # "spoilt"
  <2>1. Len(rows) \in 0..Len(StationRows)
    BY <1>2, ResultsType DEF Call, StationsCall, getAllStations
  <2>2. names = {StationRows[i].name : i \in 1..Len(rows)}
    BY <1>2 DEF NamesIn
  <2>3. DOMAIN FullMap = {StationRows[i].name : i \in 1..Len(StationRows)}
    BY StationTable DEF FullMap, MapOf
  <2>4. \A i \in 1..Len(rows) : i \in 1..Len(StationRows)
    BY <2>1, StationTable
  <2> QED
    BY <2>2, <2>3, <2>4, StationTable
<1> QED
  BY <1>1, <1>2

-----------------------------------------------------------------------------
(* What a caller can rely on.                                              *)

\* A call in progress has found the store up and its station known.
JobInv == job # None => up /\ Known(job, known)

\* Names are of the table unless the scan that found them was spoilt.
NamesInv == knownFate # "spoilt" => known \in SUBSET DOMAIN FullMap

\* An answer has rows that its call allows, of a station in the table.
AnswerInv ==
  answer # None =>
    /\ answer.rows \in Results(answer.call, answer.fate)
    /\ (answer.call.op = "rainfall" /\ answer.fate # "spoilt") =>
         answer.call.station \in DOMAIN FullMap

StoreInv == StoreTypeOK /\ JobInv /\ NamesInv /\ AnswerInv

LEMMA StoreInitInv == StoreInit => StoreInv
BY DEF StoreInit, StoreInv, StoreTypeOK, JobInv, NamesInv, AnswerInv, Fates

LEMMA OpenInv ==
  ASSUME StoreInv, Open
  PROVE  StoreInv'
<1>1. PICK rows \in Results(getAllStations, fate) : known' \in NamesIn(rows, fate)
  BY DEF Open
<1>2. known' \in SUBSET Names /\ (fate # "spoilt" => known' \in SUBSET DOMAIN FullMap)
  BY <1>1, NamesType DEF StoreInv, StoreTypeOK
<1> QED
  BY <1>2 DEF StoreInv, StoreTypeOK, JobInv, NamesInv, AnswerInv, Open, Fates

LEMMA AskInv ==
  ASSUME StoreInv, NEW c \in Call, Ask(c)
  PROVE  StoreInv'
BY DEF StoreInv, StoreTypeOK, JobInv, NamesInv, AnswerInv, Ask

LEMMA FailInv ==
  ASSUME StoreInv, Cut \/ Spoil
  PROVE  StoreInv'
BY DEF StoreInv, StoreTypeOK, JobInv, NamesInv, AnswerInv, Cut, Spoil, Fates

LEMMA AnswerQueryInv ==
  ASSUME StoreInv, AnswerQuery
  PROVE  /\ StoreInv'
         /\ answer' # None /\ answer'.call = job
<1> DEFINE f == FateOf(job, fate)
<1>1. job \in Call /\ f \in Fates
  BY DEF AnswerQuery, StoreInv, StoreTypeOK, FateOf, Fates
<1> HIDE DEF f
<1>2. PICK rows \in Results(job, f) : answer' = [call |-> job, rows |-> rows, fate |-> f]
  BY DEF AnswerQuery, f
<1>3. rows \in Seq(Nat)
  BY <1>1, ResultsType
<1>4. /\ answer' \in Answers
      /\ answer' # None
      /\ answer'.call = job /\ answer'.rows = rows /\ answer'.fate = f
  BY <1>1, <1>2, <1>3, AnswersAssumption DEF Answers
<1>5. /\ job' = None /\ fate' = "whole" /\ job # None
      /\ UNCHANGED <<up, known, knownFate>>
  BY DEF AnswerQuery
<1>6. (job.op = "rainfall" /\ f # "spoilt") => job.station \in DOMAIN FullMap
  BY <1>5 DEF f, FateOf, StoreInv, JobInv, NamesInv, Known
<1>7. StoreTypeOK'
  BY <1>4, <1>5 DEF StoreInv, StoreTypeOK, Fates
<1>8. JobInv' /\ NamesInv'
  BY <1>5 DEF StoreInv, JobInv, NamesInv
<1>9. AnswerInv'
  BY <1>4, <1>6 DEF AnswerInv
<1> QED
  BY <1>4, <1>7, <1>8, <1>9 DEF StoreInv

LEMMA AnswerStationsInv ==
  ASSUME StoreInv, AnswerStations
  PROVE  StoreInv'
<1>1. PICK rows \in Results(job, fate) :
        /\ known' \in NamesIn(rows, fate)
        /\ answer' = [call |-> job, rows |-> rows, fate |-> fate]
  BY DEF AnswerStations
<1>2. job = getAllStations /\ job \in Call /\ fate \in Fates
  BY DEF AnswerStations, StoreInv, StoreTypeOK, Call, StationsCall, getAllStations
<1>3. known' \in SUBSET Names /\ (fate # "spoilt" => known' \in SUBSET DOMAIN FullMap)
  BY <1>1, <1>2, NamesType
<1>4. rows \in Seq(Nat)
  BY <1>2, ResultsType
<1>5. /\ answer' \in Answers
      /\ answer'.call = job /\ answer'.rows = rows /\ answer'.fate = fate
  BY <1>1, <1>2, <1>4 DEF Answers
<1>6. knownFate' = fate /\ job' = None /\ fate' = "whole" /\ UNCHANGED up
  BY DEF AnswerStations
<1>7. AnswerInv'
  BY <1>2, <1>5 DEF AnswerInv, getAllStations
<1>8. StoreTypeOK'
  BY <1>2, <1>3, <1>5, <1>6 DEF StoreInv, StoreTypeOK, Fates
<1> QED
  BY <1>3, <1>6, <1>7, <1>8 DEF StoreInv, JobInv, NamesInv

LEMMA LoseInv ==
  ASSUME Lose
  PROVE  StoreInv'
BY DEF Lose, StoreInv, StoreTypeOK, JobInv, NamesInv, AnswerInv, Fates

LEMMA StoreStays ==
  ASSUME StoreInv, UNCHANGED storeVars
  PROVE  StoreInv'
BY DEF storeVars, StoreInv, StoreTypeOK, JobInv, NamesInv, AnswerInv

-----------------------------------------------------------------------------
(* Requests and their calls.                                               *)

LEMMA RequestKinds ==
  ASSUME NEW r \in Request
  PROVE  /\ r.route \in {"river", "rainfall"}
         /\ r.start \in Starts /\ r.page \in Param /\ r.pagesize \in Param
         /\ r.route = "rainfall" => r.station \in Names
BY DEF Request

\* What std::stoi accepts is an int.
LEMMA CallOfType ==
  ASSUME NEW r \in Request, NEW p \in CInt, NEW s \in CInt
  PROVE  /\ CallOf(r, p, s) \in Call
         /\ CallOf(r, p, s) # getAllStations
         /\ CallOf(r, p, s).op = r.route
         /\ CallOf(r, p, s).page = p
         /\ CallOf(r, p, s).size = UInt8(s)
         /\ r.route = "rainfall" => CallOf(r, p, s).station = r.station
         /\ Matches(CallOf(r, p, s), FullMap) = RowsAsked(r)
<1>1. UInt8(s) \in UInt8s
  BY IntMaxAssumption DEF UInt8, UInt8s, CInt
<1>2. CASE r.route = "river"
  BY <1>1, <1>2, RequestKinds
     DEF CallOf, Call, RiverCall, getAllStations, Matches, RowsAsked
<1>3. CASE r.route = "rainfall"
  BY <1>1, <1>3, RequestKinds
     DEF CallOf, Call, RainCall, getAllStations, Matches, RowsAsked
<1> QED
  BY <1>2, <1>3, RequestKinds

LEMMA DefaultsAreInts == 0 \in CInt /\ DEFAULT_PAGE \in CInt /\ DEFAULT_PAGESIZE \in CInt
BY IntMaxAssumption DEF CInt, DEFAULT_PAGE, DEFAULT_PAGESIZE

\* A document gives its rows back.
LEMMA DocumentRows ==
  ASSUME NEW rows
  PROVE  ReadingsOf(Document(rows)) = rows
<1>1. CASE rows = <<>>
  BY <1>1 DEF ReadingsOf, Document
<1>2. CASE rows # <<>>
  <2>1. Document(rows) = [kind |-> "object", readings |-> rows]
    BY <1>2 DEF Document
  <2>2. Document(rows).kind = "object" /\ NullDocument.kind = "null"
    BY <2>1 DEF NullDocument
  <2> QED
    BY <2>1, <2>2 DEF ReadingsOf
<1> QED
  BY <1>1, <1>2

\* What the repository answers to the call of a request is the page that the
\* request asks for, as far as it was read.
LEMMA AnswerCarriesPage ==
  ASSUME NEW r \in Request, PageAsked(r) \in CInt, SizeAsked(r) \in CInt,
         NEW a, a.call = CallOf(r, PageAsked(r), SizeAsked(r)),
         a.fate \in Fates, a.rows \in Results(a.call, a.fate),
         Served(r)
  PROVE  CarriesPage(Page200(a), r)
<1> DEFINE c == CallOf(r, PageAsked(r), SizeAsked(r))
           first == FirstOf(PageAsked(r), SizeAsked(r))
           asked == PageOf(RowsAsked(r), first, SizeAsked(r))
<1>1. /\ SizeAsked(r) \in UInt8s /\ UInt8(SizeAsked(r)) = SizeAsked(r)
      /\ Representable(PageAsked(r), SizeAsked(r))
      /\ first \in Nat
  BY IntMaxAssumption DEF Served, UInt8, UInt8s, Representable
<1>2. /\ c \in Call /\ c # getAllStations
      /\ c.page = PageAsked(r) /\ c.size = SizeAsked(r)
      /\ Matches(c, FullMap) = RowsAsked(r)
  BY <1>1, CallOfType
<1>3. Pages(c) = {asked}
  BY <1>1, <1>2 DEF Pages
<1>4. asked \in Seq(Nat)
  BY <1>2, <1>3, PagesType
<1>5. ReadingsOf(Page200(a).body) = a.rows /\ Page200(a).fate = a.fate
  BY DocumentRows DEF Page200
<1>6. a.rows \in Results(c, a.fate)
  OBVIOUS
<1> HIDE DEF c, asked
<1>7. CASE a.fate = "whole"
  <2>1. a.rows = asked
    BY <1>3, <1>6, <1>7 DEF Results
  <2>2. asked = SubSeq(asked, 1, Len(asked)) /\ Len(asked) \in Nat
    BY <1>4
  <2> QED
    BY <1>5, <2>1, <2>2 DEF CarriesPage, asked
<1>8. CASE a.fate = "short"
  <2>1. PICK n \in 0..Len(asked) : a.rows = SubSeq(asked, 1, n)
    BY <1>3, <1>6, <1>8 DEF Results
  <2>2. Len(a.rows) = n /\ Len(asked) \in Nat
    BY <1>4, <2>1
  <2> QED
    BY <1>5, <1>8, <2>1, <2>2 DEF CarriesPage, asked
<1>9. CASE a.fate = "spoilt"
  BY <1>5, <1>9 DEF CarriesPage
<1> QED
  BY <1>7, <1>8, <1>9 DEF Fates

-----------------------------------------------------------------------------
(* The inductive invariant.                                                *)

Reading == handler \in {"page", "pagesize", "query", "await", "send"}

RoutesType ==
  /\ handler \in Handlers
  /\ request \in Request \cup {None}
  /\ page \in CInt
  /\ pagesize \in CInt
  /\ response \in Responses \cup {None}
  /\ sticky \in Messages
  /\ throws \in 0..MaxThrows

\* The locals of a handler are those of its request as far as it has read them,
\* and its station is known from the check on.
LocalsInv ==
  /\ handler = "idle" <=> request = None
  /\ handler \in {"pagesize", "query", "await", "send"} => page = PageAsked(request)
  /\ handler \in {"query", "await", "send"} => pagesize = SizeAsked(request)
  /\ (Reading /\ request.route = "rainfall") => request.station \in known

\* The call in progress, and the answer, are those of the handler that runs.
CallInv ==
  /\ handler # "idle" => up
  /\ handler = "await" => job = CallOf(request, page, pagesize)
  /\ job # None => handler \in {"await", "thrown"}
  /\ handler = "send" => answer # None /\ answer.call = CallOf(request, page, pagesize)

\* What a handler sends may be sent for its request.
Proper(a, r) ==
  IF a = NotFound
    THEN r.route = "rainfall"
    ELSE /\ (a.fate # "spoilt" /\ r.route = "rainfall") => r.station \in DOMAIN FullMap
         /\ Served(r) => CarriesPage(a, r)

ResponseInv ==
  /\ response # None => handler \in {"idle", "done"}
  /\ handler = "done" => Proper(response, request)

ThrownInv == handler = "thrown" => throws > 0 \/ MayThrow(request)

\* What holds whatever it is that throws.
RoutesCore == StoreInv /\ RoutesType /\ LocalsInv /\ CallInv /\ ResponseInv

RoutesInv == RoutesCore /\ ThrownInv

LEMMA RoutesInitInv == RoutesInit => RoutesInv
<1> SUFFICES ASSUME RoutesInit PROVE RoutesInv
  OBVIOUS
<1>1. StoreInv
  BY StoreInitInv DEF RoutesInit
<1>2. RoutesType
  BY DefaultsAreInts, RequestsAssumption DEF RoutesInit, RoutesType, Handlers, Messages
<1>3. LocalsInv /\ CallInv /\ ResponseInv /\ ThrownInv
  BY DEF RoutesInit, StoreInit, LocalsInv, CallInv, ResponseInv, ThrownInv, Reading
<1> QED
  BY <1>1, <1>2, <1>3 DEF RoutesInv, RoutesCore

LEMMA DispatchInv ==
  ASSUME RoutesCore, up, NEW r \in Requests, Dispatch(r)
  PROVE  RoutesCore'
<1>0. r \in Request /\ r # None
  BY RequestsAssumption
<1>1. StoreInv'
  BY StoreStays DEF RoutesCore, Dispatch
<1>2. RoutesType'
  BY <1>0 DEF RoutesCore, RoutesType, Dispatch, Goto, Handlers
<1>3. LocalsInv' /\ CallInv' /\ ResponseInv'
  BY <1>0 DEF RoutesCore, LocalsInv, CallInv, ResponseInv, Dispatch, Goto,
              Reading, storeVars
<1> QED
  BY <1>1, <1>2, <1>3 DEF RoutesCore

\* The steps up to the call of the repository.
LEMMA ReadInv ==
  ASSUME RoutesCore, CallRiver \/ CallRainfall \/ ReadPage \/ ReadPagesize \/ StoiFails
  PROVE  RoutesCore'
<1>0. StoreInv'
  BY StoreStays
     DEF RoutesCore, CallRiver, CallRainfall, ReadPage, ReadPagesize, StoiFails
<1>1. CASE CallRiver \/ CallRainfall
  <2>1. RoutesType'
    BY <1>1 DEF RoutesCore, RoutesType, CallRiver, CallRainfall, Goto, Handlers
  <2>2. LocalsInv' /\ CallInv' /\ ResponseInv'
    BY <1>1 DEF RoutesCore, LocalsInv, CallInv, ResponseInv, CallRiver,
                CallRainfall, Goto, Reading, storeVars
  <2> QED
    BY <1>0, <2>1, <2>2 DEF RoutesCore
<1>2. CASE ReadPage
  <2>1. RoutesType' /\ page' = PageAsked(request)
    BY <1>2 DEF RoutesCore, RoutesType, ReadPage, Goto, Handlers, StoiThrows, PageAsked
  <2>2. LocalsInv' /\ CallInv' /\ ResponseInv'
    BY <1>2, <2>1 DEF RoutesCore, LocalsInv, CallInv, ResponseInv, ReadPage,
                      Goto, Reading, storeVars
  <2> QED
    BY <1>0, <2>1, <2>2 DEF RoutesCore
<1>3. CASE ReadPagesize
  <2>1. RoutesType' /\ pagesize' = SizeAsked(request)
    BY <1>3 DEF RoutesCore, RoutesType, ReadPagesize, Goto, Handlers, StoiThrows, SizeAsked
  <2>2. LocalsInv' /\ CallInv' /\ ResponseInv'
    BY <1>3, <2>1 DEF RoutesCore, LocalsInv, CallInv, ResponseInv, ReadPagesize,
                      Goto, Reading, storeVars
  <2> QED
    BY <1>0, <2>1, <2>2 DEF RoutesCore
<1>4. CASE StoiFails
  <2>1. RoutesType'
    BY <1>4 DEF RoutesCore, RoutesType, StoiFails, Goto, Handlers
  <2>2. LocalsInv' /\ CallInv' /\ ResponseInv'
    BY <1>4 DEF RoutesCore, LocalsInv, CallInv, ResponseInv, StoiFails, Goto,
                Reading, storeVars, MayThrow, PageAsked, SizeAsked
  <2> QED
    BY <1>0, <2>1, <2>2 DEF RoutesCore
<1> QED
  BY <1>1, <1>2, <1>3, <1>4

LEMMA NotFoundInv ==
  ASSUME RoutesCore, SendNotFound
  PROVE  RoutesCore'
<1>1. StoreInv'
  BY StoreStays DEF RoutesCore, SendNotFound
<1>2. RoutesType'
  BY DEF RoutesCore, RoutesType, SendNotFound, Goto, Handlers, Responses
<1>3. LocalsInv' /\ CallInv' /\ ResponseInv'
  BY DEF RoutesCore, LocalsInv, CallInv, ResponseInv, SendNotFound, Goto,
         Reading, storeVars, Proper
<1> QED
  BY <1>1, <1>2, <1>3 DEF RoutesCore

\* The station of a query is still known: the repository does not throw.
LEMMA QueryAsks ==
  ASSUME RoutesCore, handler = "query"
  PROVE  /\ CallOf(request, page, pagesize) \in Call
         /\ Known(CallOf(request, page, pagesize), known)
<1>1. request \in Request /\ page \in CInt /\ pagesize \in CInt
  BY DEF RoutesCore, RoutesType, LocalsInv
<1> QED
  BY <1>1, CallOfType DEF RoutesCore, LocalsInv, Reading, Known

LEMMA QueryInv ==
  ASSUME RoutesCore, Query
  PROVE  RoutesCore'
<1> DEFINE c == CallOf(request, page, pagesize)
<1>1. /\ handler = "query" /\ handler' = "await" /\ sticky' = request.route
      /\ c \in Call /\ Ask(c)
      /\ UNCHANGED <<request, page, pagesize, response, throws>>
  BY QueryAsks DEF Query
<1>2. request \in Request
  BY <1>1 DEF RoutesCore, RoutesType, LocalsInv
<1>3. StoreInv'
  BY <1>1, AskInv DEF RoutesCore
<1>4. RoutesType'
  BY <1>1, <1>2, RequestKinds DEF RoutesCore, RoutesType, Handlers, Messages
<1>5. LocalsInv' /\ CallInv' /\ ResponseInv'
  BY <1>1 DEF RoutesCore, LocalsInv, CallInv, ResponseInv, Reading, Ask
<1> QED
  BY <1>3, <1>4, <1>5 DEF RoutesCore

LEMMA TakeAnswerInv ==
  ASSUME RoutesCore, TakeAnswer
  PROVE  RoutesCore'
<1>0. /\ handler = "await" /\ handler' = "send" /\ AnswerQuery
      /\ UNCHANGED <<request, page, pagesize, response, sticky, throws>>
  BY DEF TakeAnswer, Goto
<1>1. StoreInv'
  BY <1>0, AnswerQueryInv DEF RoutesCore
<1>2. /\ answer' # None /\ answer'.call = job
      /\ job' = None /\ UNCHANGED <<up, known>>
  BY <1>0, AnswerQueryInv DEF AnswerQuery, RoutesCore
<1>3. RoutesType'
  BY <1>0 DEF RoutesCore, RoutesType, Handlers
<1>4. LocalsInv' /\ CallInv' /\ ResponseInv'
  BY <1>0, <1>2 DEF RoutesCore, LocalsInv, CallInv, ResponseInv, Reading
<1> QED
  BY <1>1, <1>3, <1>4 DEF RoutesCore

LEMMA SendsPage ==
  ASSUME RoutesCore, SendPage
  PROVE  response' \in Responses
<1>1. answer.rows \in Seq(Nat) /\ answer.fate \in Fates /\ response' = Page200(answer)
  BY DEF SendPage, Goto, RoutesCore, CallInv, StoreInv, StoreTypeOK, Answers
<1>2. Document(answer.rows) \in {NullDocument} \cup [kind : {"object"}, readings : Seq(Nat)]
  BY <1>1 DEF Document
<1> QED
  BY <1>1, <1>2 DEF Page200, Responses

\* The answer, in a document, is the response to the request.
LEMMA SendPageInv ==
  ASSUME RoutesCore, SendPage
  PROVE  RoutesCore'
<1>0. /\ handler = "send" /\ handler' = "done" /\ response' = Page200(answer)
      /\ UNCHANGED storeVars
      /\ UNCHANGED <<request, page, pagesize, sticky, throws>>
  BY DEF SendPage, Goto
<1>1. StoreInv'
  BY <1>0, StoreStays DEF RoutesCore
<1>2. /\ request \in Request /\ page = PageAsked(request) /\ pagesize = SizeAsked(request)
      /\ page \in CInt /\ pagesize \in CInt
      /\ answer # None /\ answer.call = CallOf(request, page, pagesize)
      /\ answer \in Answers
      /\ answer.rows \in Results(answer.call, answer.fate)
      /\ (answer.call.op = "rainfall" /\ answer.fate # "spoilt") =>
           answer.call.station \in DOMAIN FullMap
  BY <1>0 DEF RoutesCore, RoutesType, LocalsInv, CallInv, StoreInv, StoreTypeOK, AnswerInv
<1>3. answer.rows \in Seq(Nat) /\ answer.fate \in Fates
  BY <1>2 DEF Answers
<1>4. RoutesType'
  BY <1>0, SendsPage DEF RoutesCore, RoutesType, Handlers
<1>5. Proper(response', request)
  <2>1. response' # NotFound /\ response'.fate = answer.fate
    <3>1. response'.status = 200 /\ NotFound.status = 404 /\ response'.fate = answer.fate
      BY <1>0 DEF Page200, NotFound
    <3> QED
      BY <3>1
  <2>2. Served(request) => CarriesPage(response', request)
    BY <1>0, <1>2, <1>3, AnswerCarriesPage
  <2>3. (answer.fate # "spoilt" /\ request.route = "rainfall") =>
          request.station \in DOMAIN FullMap
    BY <1>2, CallOfType
  <2> QED
    BY <2>1, <2>2, <2>3 DEF Proper
<1>6. LocalsInv' /\ CallInv'
  BY <1>0 DEF RoutesCore, LocalsInv, CallInv, Reading, storeVars
<1>7. ResponseInv'
  BY <1>0, <1>5 DEF ResponseInv
<1> QED
  BY <1>1, <1>4, <1>6, <1>7 DEF RoutesCore

LEMMA DoneInv ==
  ASSUME RoutesCore, Done
  PROVE  RoutesCore'
<1>1. StoreInv'
  BY StoreStays DEF RoutesCore, Done
<1>2. RoutesType'
  BY DEF RoutesCore, RoutesType, Done, Goto, Handlers
<1>3. LocalsInv' /\ CallInv' /\ ResponseInv'
  BY DEF RoutesCore, LocalsInv, CallInv, ResponseInv, Done, Goto, Reading, storeVars
<1> QED
  BY <1>1, <1>2, <1>3 DEF RoutesCore

LEMMA ThrownThroughInv ==
  ASSUME RoutesCore, ThrownThrough, throws' \in 0..MaxThrows
  PROVE  RoutesCore'
<1>0. /\ handler \in {"await", "send"} /\ handler' = "thrown"
      /\ UNCHANGED storeVars
      /\ UNCHANGED <<request, page, pagesize, response, sticky>>
  BY DEF ThrownThrough
<1>1. StoreInv'
  BY <1>0, StoreStays DEF RoutesCore
<1>2. RoutesType'
  BY <1>0 DEF RoutesCore, RoutesType, Handlers
<1>3. LocalsInv' /\ CallInv' /\ ResponseInv'
  BY <1>0 DEF RoutesCore, LocalsInv, CallInv, ResponseInv, Reading, storeVars
<1> QED
  BY <1>1, <1>2, <1>3 DEF RoutesCore

LEMMA StatementThrowsInv ==
  ASSUME RoutesCore, StatementThrows
  PROVE  RoutesCore'
<1>1. throws' \in 0..MaxThrows /\ ThrownThrough
  BY DEF StatementThrows, RoutesCore, RoutesType
<1> QED
  BY <1>1, ThrownThroughInv

LEMMA HandlerStepsInv ==
  ASSUME RoutesCore, HandlerSteps
  PROVE  RoutesCore'
BY ReadInv, NotFoundInv, QueryInv, TakeAnswerInv, StatementThrowsInv, SendPageInv, DoneInv
   DEF HandlerSteps, QuietSteps

LEMMA ThrowsInv ==
  ASSUME RoutesCore, Throws
  PROVE  RoutesCore'
<1>1. throws' \in 0..MaxThrows /\ ThrownThrough
  BY RequestsAssumption DEF Throws, RoutesCore, RoutesType
<1> QED
  BY <1>1, ThrownThroughInv

LEMMA RestartInv ==
  ASSUME RoutesCore, RoutesRestart
  PROVE  RoutesCore'
<1>0. /\ Lose /\ handler' = "idle" /\ request' = None /\ page' = 0 /\ pagesize' = 0
      /\ response' = None /\ sticky' = "none" /\ throws' = throws
  BY DEF RoutesRestart
<1>1. StoreInv'
  BY <1>0, LoseInv
<1>2. RoutesType'
  BY <1>0, DefaultsAreInts DEF RoutesCore, RoutesType, Handlers, Messages
<1>3. LocalsInv' /\ CallInv' /\ ResponseInv'
  BY <1>0 DEF LocalsInv, CallInv, ResponseInv, Lose, Reading
<1> QED
  BY <1>1, <1>2, <1>3 DEF RoutesCore

\* What happens in the repository meanwhile.
LEMMA StoreStepsInv ==
  ASSUME RoutesCore, StoreOpens \/ StoreFails
  PROVE  RoutesCore'
<1>1. StoreInv'
  BY OpenInv, FailInv DEF RoutesCore, StoreOpens, StoreFails
<1>2. UNCHANGED <<handler, request, page, pagesize, response, sticky, throws>>
  BY DEF StoreOpens, StoreFails, routeVars
<1>3. RoutesType' /\ ResponseInv'
  BY <1>2 DEF RoutesCore, RoutesType, ResponseInv
<1>4. /\ UNCHANGED <<job, answer>>
      /\ handler # "idle" => up' /\ known' = known
  BY DEF RoutesCore, CallInv, StoreOpens, StoreFails, Open, Cut, Spoil
<1>5. LocalsInv' /\ CallInv'
  BY <1>2, <1>4 DEF RoutesCore, LocalsInv, CallInv, Reading
<1> QED
  BY <1>1, <1>3, <1>5 DEF RoutesCore

LEMMA RoutesStay ==
  ASSUME RoutesCore, UNCHANGED allVars
  PROVE  RoutesCore'
<1>1. StoreInv'
  BY StoreStays DEF RoutesCore, allVars
<1>2. RoutesType' /\ LocalsInv' /\ CallInv' /\ ResponseInv'
  BY DEF RoutesCore, RoutesType, LocalsInv, CallInv, ResponseInv, allVars,
         routeVars, storeVars, Reading
<1> QED
  BY <1>1, <1>2 DEF RoutesCore

LEMMA RoutesNextCore ==
  ASSUME RoutesCore, [RoutesNext]_allVars
  PROVE  RoutesCore'
BY StoreStepsInv, DispatchInv, HandlerStepsInv, ThrowsInv, RestartInv, RoutesStay
   DEF RoutesNext

-----------------------------------------------------------------------------
(* What throws.                                                            *)

\* A handler throws where std::stoi does or the SQL of its start text, or by a
\* failure that is counted.
LEMMA HandlerThrowsWhy ==
  ASSUME RoutesCore, HandlerSteps \/ Throws, handler # "thrown", handler' = "thrown"
  PROVE  MayThrow(request) \/ throws' > throws
<1>1. CASE StoiFails
  BY <1>1 DEF StoiFails, PageAsked, SizeAsked, MayThrow
<1>2. CASE Throws
  BY <1>2 DEF Throws, RoutesCore, RoutesType
<1>3. CASE Query
  BY <1>3, QueryAsks DEF Query
<1>4. CASE StatementThrows
  BY <1>4 DEF StatementThrows, MayThrow
<1>5. CASE HandlerSteps /\ ~StoiFails /\ ~Query /\ ~StatementThrows
  BY <1>5 DEF HandlerSteps, QuietSteps, CallRiver, CallRainfall, SendNotFound, ReadPage,
              ReadPagesize, TakeAnswer, SendPage, Done, Goto
<1> QED
  BY <1>1, <1>2, <1>3, <1>4, <1>5

LEMMA ThrownKept ==
  ASSUME RoutesCore, ThrownInv,
         \/ HandlerSteps \/ Throws \/ RoutesRestart
         \/ \E r \in Requests : Dispatch(r)
         \/ UNCHANGED <<handler, request, throws>>
  PROVE  ThrownInv'
<1>1. CASE HandlerSteps \/ Throws
  <2>1. UNCHANGED <<request, throws>> \/ (throws' > throws /\ throws \in Nat) \/ handler' = "idle"
    BY <1>1 DEF HandlerSteps, QuietSteps, CallRiver, CallRainfall, SendNotFound,
                ReadPage, ReadPagesize, StoiFails, Query, TakeAnswer, StatementThrows, ThrownThrough, SendPage, Done,
                Goto, Throws, RoutesCore, RoutesType
  <2>2. handler # "thrown"
    BY <1>1 DEF HandlerSteps, QuietSteps, CallRiver, CallRainfall, SendNotFound,
                ReadPage, ReadPagesize, StoiFails, Query, TakeAnswer, StatementThrows, SendPage, Done, Goto, Throws,
                ThrownThrough
  <2>3. throws \in Nat /\ (throws' = throws \/ throws' = throws + 1)
    BY <1>1 DEF HandlerSteps, QuietSteps, CallRiver, CallRainfall, SendNotFound,
                ReadPage, ReadPagesize, StoiFails, Query, TakeAnswer, StatementThrows, SendPage, Done, Throws,
                RoutesCore, RoutesType
  <2>4. SUFFICES ASSUME handler' = "thrown" PROVE throws' > 0 \/ MayThrow(request')
    BY DEF ThrownInv
  <2>5. MayThrow(request) \/ throws' > throws
    BY <1>1, <2>2, <2>4, HandlerThrowsWhy
  <2>6. CASE throws' > throws
    BY <2>3, <2>6
  <2>7. CASE ~(throws' > throws)
    <3>1. request' = request
      BY <2>1, <2>4, <2>7
    <3> QED
      BY <2>5, <2>7, <3>1
  <2> QED
    BY <2>6, <2>7
<1>2. CASE RoutesRestart \/ \E r \in Requests : Dispatch(r)
  BY <1>2 DEF RoutesRestart, Dispatch, Goto, ThrownInv
<1>3. CASE UNCHANGED <<handler, request, throws>>
  BY <1>3 DEF ThrownInv
<1> QED
  BY <1>1, <1>2, <1>3

LEMMA RoutesNextInv == RoutesInv /\ [RoutesNext]_allVars => RoutesInv'
<1> SUFFICES ASSUME RoutesInv, [RoutesNext]_allVars PROVE RoutesInv'
  OBVIOUS
<1>1. RoutesCore'
  BY RoutesNextCore DEF RoutesInv
<1>2. CASE StoreOpens \/ StoreFails \/ UNCHANGED allVars
  <2>1. UNCHANGED <<handler, request, throws>>
    BY <1>2 DEF StoreOpens, StoreFails, allVars, routeVars
  <2> QED
    BY <1>1, <2>1, ThrownKept DEF RoutesInv
<1>3. CASE ~(StoreOpens \/ StoreFails \/ UNCHANGED allVars)
  BY <1>1, <1>3, ThrownKept DEF RoutesInv, RoutesNext
<1> QED
  BY <1>2, <1>3

LEMMA RoutesInvariant == RoutesSpec => []RoutesInv
BY RoutesInitInv, RoutesNextInv, PTL DEF RoutesSpec

-----------------------------------------------------------------------------
(* The theorems.                                                           *)

LEMMA RoutesConsequences ==
  ASSUME RoutesCore
  PROVE  RoutesTypeOK /\ ResponseIsPageAsked /\ StationStillKnown /\ CallsBelongToHandlers
<1>1. RoutesTypeOK
  BY DEF RoutesCore, StoreInv, RoutesType, RoutesTypeOK
<1>2. ResponseIsPageAsked
  BY DEF RoutesCore, ResponseInv, LocalsInv, Proper, ResponseIsPageAsked, Responded200
<1>3. StationStillKnown
  BY QueryAsks DEF StationStillKnown
<1>4. CallsBelongToHandlers
  <2>1. handler = "await" => job # None
    <3>1. SUFFICES ASSUME handler = "await" PROVE job # None
      OBVIOUS
    <3>2. request \in Request /\ page \in CInt /\ pagesize \in CInt
      BY <3>1 DEF RoutesCore, RoutesType, LocalsInv
    <3> QED
      BY <3>1, <3>2, CallOfType, CallsAssumption DEF RoutesCore, CallInv
  <2> QED
    BY <2>1 DEF RoutesCore, CallInv, CallsBelongToHandlers
<1> QED
  BY <1>1, <1>2, <1>3, <1>4

\* Type correctness.
THEOREM RoutesTypeCorrect == RoutesSpec => []RoutesTypeOK
BY RoutesInvariant, RoutesConsequences, PTL DEF RoutesInv

\* river() and rainfallStation() respond with the page that their own request asks
\* for, or the beginning of it, whatever else has been asked for before.
THEOREM ResponsesArePagesAsked == RoutesSpec => []ResponseIsPageAsked
BY RoutesInvariant, RoutesConsequences, PTL DEF RoutesInv

\* at() in getStationRainfallReadings finds every station that stationExists has
\* found.
THEOREM StationsStayKnown == RoutesSpec => []StationStillKnown
BY RoutesInvariant, RoutesConsequences, PTL DEF RoutesInv

\* The repository is called by the handler that runs, and after init().
THEOREM HandlersCall == RoutesSpec => []CallsBelongToHandlers
BY RoutesInvariant, RoutesConsequences, PTL DEF RoutesInv

\* A handler that throws has met a parameter that std::stoi refuses, a start text
\* that spoils the SQL it is put into, or a failure of the device.
THEOREM IntsDoNotThrow == RoutesSpec => FittingRequestsDoNotThrow
<1> DEFINE A == (handler # "thrown" /\ handler' = "thrown") =>
                  MayThrow(request) \/ throws' > throws
<1>1. RoutesCore /\ [RoutesNext]_allVars => [A]_allVars
  <2> SUFFICES ASSUME RoutesCore, RoutesNext, handler # "thrown", handler' = "thrown"
               PROVE  A
    BY DEF allVars, routeVars
  <2>1. HandlerSteps \/ Throws
    BY DEF RoutesNext, StoreOpens, StoreFails, routeVars, RoutesRestart, Dispatch, Goto
  <2> QED
    BY <2>1, HandlerThrowsWhy
<1>2. RoutesInv => RoutesCore
  BY DEF RoutesInv
<1> QED
  BY <1>1, <1>2, RoutesInvariant, PTL DEF RoutesSpec, FittingRequestsDoNotThrow
=============================================================================
