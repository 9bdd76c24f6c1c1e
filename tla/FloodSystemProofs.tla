--------------------------- MODULE FloodSystemProofs ---------------------------
(***************************************************************************)
(* The safety properties of the device as it is built.                     *)
(*                                                                         *)
(* The inductive invariant is that of the repository, that of the          *)
(* application with the repository in the place of its store, and what     *)
(* holds them together: where the one task is, and what failed before an   *)
(* exception.  A step of the system is a step of each half that the        *)
(* lemmas about that half speak of, or one that it does not see.           *)
(***************************************************************************)
EXTENDS FloodSystem, FloodRefinementProofs

\* The lemmas about the application, for the same store that App has in
\* FloodSystem.  App and Device are the same module in two instances, and to the
\* provers two sets of names, which the lemmas called Same... make one.
Device == INSTANCE FloodAppProofs WITH
  known     <- DOMAIN stationMap,
  knownFate <- mapFate,
  job       <- IF up THEN call ELSE None,
  answer    <- Told(reply),
  conn      <- link,
  throws    <- 0, MaxThrows <- 0,
  resets    <- 0, MaxResets <- 0

\* The sets of the application are those of the repository.
LEMMA SameSets ==
  /\ App!CInt = CInt /\ Device!CInt = CInt
  /\ Device!Call = Call
  /\ Device!Answers = Answers
  /\ Device!Request = App!Request
  /\ Device!Responses = App!Responses
BY DEF App!CInt, CInt, Device!CInt, Device!Call, Call, Device!StationsCall, StationsCall,
       Device!RiverCall, RiverCall, Device!RainCall, RainCall, Device!Starts, Starts,
       Device!UInt8s, UInt8s, Device!Answers, Answers, Device!Fates, Fates,
       Device!Request, App!Request, Device!Param, App!Param, App!Starts,
       Device!Responses, App!Responses, App!Fates, Device!NotFound, App!NotFound,
       Device!NullDocument, App!NullDocument

\* What the modules of the application assume of their constants.
LEMMA DeviceAssumptions ==
  /\ IntMax \in Nat /\ IntMax >= 255
  /\ StationRows \in Seq([id : Ids, name : Names])
  /\ RiverRows \in Seq(Nat)
  /\ RainRows \in Seq([station : Ids, ts : Nat])
  /\ NoStart \notin Nat /\ BadStart \notin Nat /\ NoStart # BadStart
  /\ Calls \subseteq Device!Call /\ None \notin Device!Call
  /\ None \notin Device!Answers
  /\ Requests \subseteq Device!Request
  /\ Absent \notin Int /\ NotNumber \notin Int /\ Absent # NotNumber
  /\ None \notin Device!Request /\ None \notin Device!Responses
  /\ 0 \in Nat
  /\ RequestOf \in [Clients -> Requests]
  /\ None \notin Clients
  /\ MaxBacklog \in Nat \ {0}
  /\ MaxDrops \in Nat
BY SameSets, SystemAssumption, IntMaxAssumption, TablesAssumption, CallsAssumption,
   AnswersAssumption

\* The steps of the application in the system are those the lemmas speak of.
LEMMA SameSteps ==
  /\ App!PowerUp <=> Device!PowerUp
  /\ App!Connected <=> Device!Connected
  /\ App!StartServer <=> Device!StartServer
  /\ App!Idle <=> Device!Idle
  /\ App!Accept <=> Device!Accept
  /\ App!CloseConnection <=> Device!CloseConnection
  /\ App!HandleRequest <=> Device!HandleRequest
  /\ App!CallRiver <=> Device!CallRiver
  /\ App!CallRainfall <=> Device!CallRainfall
  /\ App!Done <=> Device!Done
  /\ App!ReadPage <=> Device!ReadPage
  /\ App!ReadPagesize <=> Device!ReadPagesize
  /\ App!StoiFails <=> Device!StoiFails
  /\ App!Query <=> Device!Query
  /\ App!HandlerSends <=> Device!HandlerSends
  /\ App!ThrownThrough <=> Device!ThrownThrough
  /\ App!Restart <=> Device!Restart
  /\ App!WifiUp <=> Device!WifiUp
  /\ App!WifiDown <=> Device!WifiDown
  /\ App!ClientSteps <=> Device!ClientSteps
<1>1. /\ App!PowerUp <=> Device!PowerUp
      /\ App!Connected <=> Device!Connected
      /\ App!StartServer <=> Device!StartServer
  BY DEF App!PowerUp, Device!PowerUp, App!Connected, Device!Connected,
         App!StartServer, Device!StartServer, App!allVars, Device!allVars,
         App!storeVars, Device!storeVars, App!routeVars, Device!routeVars,
         App!serverVars, Device!serverVars, App!clientVars, Device!clientVars
<1>2. /\ App!Idle <=> Device!Idle
      /\ App!Accept <=> Device!Accept
      /\ App!CloseConnection <=> Device!CloseConnection
  BY DEF App!Idle, Device!Idle, App!Accept, Device!Accept, App!CloseConnection,
         Device!CloseConnection, App!Looping, Device!Looping, App!everything,
         Device!everything, App!appVars, Device!appVars, App!serverVars,
         Device!serverVars, App!clientVars, Device!clientVars, App!allVars,
         Device!allVars, App!storeVars, Device!storeVars, App!routeVars,
         Device!routeVars
<1>3. App!HandleRequest <=> Device!HandleRequest
  BY DEF App!HandleRequest, Device!HandleRequest, App!Looping, Device!Looping,
         App!Dispatch, Device!Dispatch, App!Goto, Device!Goto, App!storeVars,
         Device!storeVars, App!appVars, Device!appVars, App!serverVars,
         Device!serverVars, App!clientVars, Device!clientVars
<1>4. /\ App!CallRiver <=> Device!CallRiver
      /\ App!CallRainfall <=> Device!CallRainfall
      /\ App!Done <=> Device!Done
  BY DEF App!CallRiver, Device!CallRiver, App!CallRainfall, Device!CallRainfall,
         App!Done, Device!Done, App!Goto, Device!Goto, App!storeVars, Device!storeVars
<1>5. /\ App!ReadPage <=> Device!ReadPage
      /\ App!ReadPagesize <=> Device!ReadPagesize
      /\ App!StoiFails <=> Device!StoiFails
  BY DEF App!ReadPage, Device!ReadPage, App!ReadPagesize, Device!ReadPagesize,
         App!StoiFails, Device!StoiFails, App!Goto, Device!Goto, App!storeVars,
         Device!storeVars, App!StoiThrows, Device!StoiThrows, App!PageAsked, Device!PageAsked,
         App!SizeAsked, Device!SizeAsked, App!QueryParameter,
         Device!QueryParameter, App!CInt, Device!CInt, App!DEFAULT_PAGE,
         Device!DEFAULT_PAGE, App!DEFAULT_PAGESIZE, Device!DEFAULT_PAGESIZE
<1>6. App!Query <=> Device!Query
  BY DEF App!Query, Device!Query, App!CallOf, Device!CallOf, App!UInt8, Device!UInt8,
         App!Known, Device!Known, App!Ask, Device!Ask, App!storeVars, Device!storeVars
<1>7. App!HandlerSends <=> Device!HandlerSends
  BY DEF App!HandlerSends, Device!HandlerSends, App!SendNotFound, Device!SendNotFound,
         App!SendPage, Device!SendPage, App!Goto, Device!Goto, App!Page200,
         Device!Page200, App!Document, Device!Document, App!NullDocument,
         Device!NullDocument, App!NotFound, Device!NotFound, App!storeVars,
         Device!storeVars, App!serverVars, Device!serverVars
<1>8. App!ThrownThrough <=> Device!ThrownThrough
  BY DEF App!ThrownThrough, Device!ThrownThrough, App!storeVars, Device!storeVars
<1>9. App!Restart <=> Device!Restart
  BY DEF App!Restart, Device!Restart, App!RoutesRestart, Device!RoutesRestart,
         App!Lose, Device!Lose
<1>10. /\ App!WifiUp <=> Device!WifiUp
       /\ App!WifiDown <=> Device!WifiDown
       /\ App!ClientSteps <=> Device!ClientSteps
  BY DEF App!WifiUp, Device!WifiUp, App!WifiDown, Device!WifiDown, App!ClientSteps,
         Device!ClientSteps, App!Connect, Device!Connect, App!Arrive, Device!Arrive,
         App!GiveUp, Device!GiveUp, App!allVars, Device!allVars, App!storeVars,
         Device!storeVars, App!routeVars, Device!routeVars, App!serverVars,
         Device!serverVars, App!clientVars, Device!clientVars
<1> QED
  BY <1>1, <1>2, <1>3, <1>4, <1>5, <1>6, <1>7, <1>8, <1>9, <1>10

\* So are the properties, the initial states and the requests that throw.
LEMMA SameProperties ==
  /\ Device!AppTypeOK => App!AppTypeOK
  /\ Device!OwnResponse => App!OwnResponse
  /\ Device!ClosedIsAnswered <=> App!ClosedIsAnswered
  /\ App!AppInit => Device!AppInit
  /\ \A r : Device!MayThrow(r) <=> App!MayThrow(r)
<1>1. Device!AppTypeOK => App!AppTypeOK
  BY DEF Device!AppTypeOK, App!AppTypeOK, Device!RoutesTypeOK, App!RoutesTypeOK,
         Device!StoreTypeOK, App!StoreTypeOK, Device!Fates, App!Fates,
         Device!Call, App!Call, Device!StationsCall, App!StationsCall,
         Device!RiverCall, App!RiverCall, Device!RainCall, App!RainCall,
         Device!Starts, App!Starts, Device!CInt, App!CInt, Device!UInt8s, App!UInt8s,
         Device!Answers, App!Answers, Device!Handlers, App!Handlers,
         Device!Request, App!Request, Device!Param, App!Param,
         Device!Responses, App!Responses, Device!NotFound, App!NotFound,
         Device!NullDocument, App!NullDocument, Device!Messages, App!Messages,
         Device!Mains, App!Mains, Device!Conns, App!Conns
<1>2. \A S : Device!Cardinality(S) = App!Cardinality(S)
  BY Zenon DEF Device!Cardinality, App!Cardinality
<1>3. \A M, i : Device!Rank(M, i) = App!Rank(M, i)
  BY <1>2, Zenon DEF Device!Rank, App!Rank, Device!UpTo, App!UpTo
<1>4. ASSUME NEW M, NEW skip, NEW limit
      PROVE  Device!PageOf(M, skip, limit) = App!PageOf(M, skip, limit)
  <2>1. Device!PageLen(M, skip, limit) = App!PageLen(M, skip, limit)
    BY <1>2 DEF Device!PageLen, App!PageLen
  <2> QED
    BY <1>3, <2>1 DEF Device!PageOf, App!PageOf
<1>5. ASSUME NEW a, NEW r
      PROVE  Device!CarriesPage(a, r) <=> App!CarriesPage(a, r)
  <2>1. Device!ReadingsOf(a.body) = App!ReadingsOf(a.body)
    BY DEF Device!ReadingsOf, App!ReadingsOf, Device!NullDocument, App!NullDocument
  <2>2. Device!RowsAsked(r) = App!RowsAsked(r)
    BY DEF Device!RowsAsked, App!RowsAsked, Device!RiverMatches, App!RiverMatches,
           Device!RainMatches, App!RainMatches, Device!After, App!After,
           Device!FullMap, App!FullMap, Device!MapOf, App!MapOf, Device!IdIn, App!IdIn
  <2>3. /\ Device!PageAsked(r) = App!PageAsked(r)
        /\ Device!SizeAsked(r) = App!SizeAsked(r)
    BY DEF Device!PageAsked, App!PageAsked, Device!SizeAsked, App!SizeAsked,
           Device!QueryParameter, App!QueryParameter, Device!DEFAULT_PAGE,
           App!DEFAULT_PAGE, Device!DEFAULT_PAGESIZE, App!DEFAULT_PAGESIZE
  <2>4. \A p, q : Device!FirstOf(p, q) = App!FirstOf(p, q)
    BY DEF Device!FirstOf, App!FirstOf
  <2> QED
    BY <1>4, <2>1, <2>2, <2>3, <2>4, Zenon DEF Device!CarriesPage, App!CarriesPage
<1>6. \A r : Device!Served(r) <=> App!Served(r)
  BY DEF Device!Served, App!Served, Device!PageAsked, App!PageAsked, Device!SizeAsked,
         App!SizeAsked, Device!QueryParameter, App!QueryParameter,
         Device!DEFAULT_PAGE, App!DEFAULT_PAGE, Device!DEFAULT_PAGESIZE,
         App!DEFAULT_PAGESIZE, Device!CInt, App!CInt, Device!UInt8s, App!UInt8s,
         Device!Representable, App!Representable, Device!FirstOf, App!FirstOf
<1>7. Device!OwnResponse => App!OwnResponse
  BY <1>5, <1>6, Zenon
     DEF Device!OwnResponse, App!OwnResponse, Device!NotFound, App!NotFound,
         Device!FullMap, App!FullMap, Device!MapOf, App!MapOf, Device!IdIn, App!IdIn
<1>8. App!AppInit => Device!AppInit
  BY DEF Device!AppInit, App!AppInit, Device!RoutesInit, App!RoutesInit,
         Device!StoreInit, App!StoreInit
<1>9. \A r : Device!MayThrow(r) <=> App!MayThrow(r)
  BY DEF Device!MayThrow, App!MayThrow, Device!StoiThrows, App!StoiThrows, Device!CInt, App!CInt,
         Device!PageAsked, App!PageAsked, Device!SizeAsked, App!SizeAsked,
         Device!QueryParameter, App!QueryParameter, Device!DEFAULT_PAGE,
         App!DEFAULT_PAGE, Device!DEFAULT_PAGESIZE, App!DEFAULT_PAGESIZE
<1>10. Device!ClosedIsAnswered <=> App!ClosedIsAnswered
  BY DEF Device!ClosedIsAnswered, App!ClosedIsAnswered
<1> QED
  BY <1>1, <1>7, <1>8, <1>9, <1>10

-----------------------------------------------------------------------------
(* The inductive invariant.                                                *)

Failed == faults > 0 \/ ejects > 0

\* What may take the device down.  Once there is a cause, there is one for good.
Cause ==
  \/ Failed \/ crashes > 0
  \/ file # "flood" \/ StationRows = <<>>
  \/ \E d \in handled : Device!MayThrow(RequestOf[d])

\* A card that was mounted is gone only if it was pulled out, and only failures
\* leave a stale page, or a scan that is not whole of a call that is not misquoted.
FailureInv ==
  /\ (pc \notin {"off", "mount", "aborted"} /\ ~mounted) => ejects > 0
  /\ stale => Failed
  /\ (fate # "whole" /\ ~Misquoted(call)) => Failed

\* No handler waits for a repository that has thrown.
SystemCauseInv ==
  /\ pc = "aborted" => Cause /\ handler \in {"idle", "thrown"}
  /\ (\E c \in Clients : link[c] = "reset") => Cause

SystemInv == RefinementInv /\ Device!AppCore /\ OneTask /\ FailureInv /\ SystemCauseInv

\* The invariant holds when the device is switched on.
LEMMA SystemInitInv == SystemInit => SystemInv
<1> SUFFICES ASSUME SystemInit PROVE SystemInv
  OBVIOUS
<1>1. RefinementInv
  BY InitInv DEF SystemInit, RefinementInv, QuietInv, Init
<1>2. Device!AppInv
  BY SameProperties, Device!AppInitInv, DeviceAssumptions DEF SystemInit
<1>3. Device!AppCore
  BY <1>2 DEF Device!AppInv
<1>4. OneTask
  BY DEF SystemInit, Init, App!AppInit, App!RoutesInit, OneTask
<1>5. FailureInv /\ SystemCauseInv
  BY DEF SystemInit, Init, App!AppInit, FailureInv, SystemCauseInv
<1> QED
  BY <1>1, <1>3, <1>4, <1>5 DEF SystemInv

\* What the invariant says of the place of the task.
LEMMA Places ==
  ASSUME SystemInv
  PROVE  /\ up \in BOOLEAN
         /\ main = "loop" <=> up
         /\ handler # "idle" => /\ up
                                /\ current \in Clients /\ current \in handled
                                /\ request = RequestOf[current]
         /\ handler = "await" <=> (up /\ pc \in {"prepare", "step", "finalize"})
         /\ handler \in {"calling", "page", "pagesize", "query", "send", "done"} =>
              pc = "idle"
         /\ handler = "thrown" => pc = "aborted"
         /\ pc \in PCs
         /\ pc \in {"off", "mount", "open"} => ~up
         /\ pc = "idle" => up
         /\ link \in [Clients -> Device!Conns]
<1>1. /\ up \in BOOLEAN /\ pc \in PCs
      /\ pc \in {"off", "mount", "open"} => ~up
      /\ pc = "idle" => up
  BY DEF SystemInv, RefinementInv, RepositoryInv, TypeOK, DatabaseInv
<1>2. /\ main = "loop" <=> up
      /\ handler # "idle" => /\ up
                             /\ current # None /\ current \in handled
                             /\ request = RequestOf[current]
      /\ current \in Clients \cup {None}
      /\ link \in [Clients -> Device!Conns]
      /\ handler \in Device!Handlers
  BY DEF SystemInv, Device!AppCore, Device!RoutesCore, Device!CallInv, Device!MainInv,
         Device!AppType, Device!RoutesType
<1>3. OneTask /\ (pc = "aborted" => handler \in {"idle", "thrown"})
  BY DEF SystemInv, SystemCauseInv
<1>4. handler = "await" <=> (up /\ pc \in {"prepare", "step", "finalize"})
  <2>1. ASSUME handler = "await" PROVE up /\ pc \in {"prepare", "step", "finalize"}
    BY <1>1, <1>2, <1>3, <2>1 DEF OneTask, PCs
  <2>2. ASSUME up, pc \in {"prepare", "step", "finalize"} PROVE handler = "await"
    BY <1>1, <1>2, <1>3, <2>2 DEF OneTask, PCs
  <2> QED
    BY <2>1, <2>2
<1>5. handler \in {"calling", "page", "pagesize", "query", "send", "done"} => pc = "idle"
  BY <1>1, <1>2, <1>3 DEF OneTask, PCs
<1> QED
  BY <1>1, <1>2, <1>3, <1>4, <1>5 DEF OneTask

-----------------------------------------------------------------------------
(* The repository in the system.                                           *)

\* The store that the repository implements and the store of the application
\* give a call the same results.
LEMMA ResultsSame ==
  ASSUME NEW c, NEW f
  PROVE  Store!Results(c, f) = Device!Results(c, f)
<1>1. \A S : Store!Cardinality(S) = Device!Cardinality(S)
  BY Zenon DEF Store!Cardinality, Device!Cardinality
<1>2. \A M, i : Store!Rank(M, i) = Device!Rank(M, i)
  BY <1>1, Zenon DEF Store!Rank, Device!Rank, Store!UpTo, Device!UpTo
<1>3. ASSUME NEW M, NEW skip, NEW limit
      PROVE  Store!PageOf(M, skip, limit) = Device!PageOf(M, skip, limit)
  <2>1. Store!PageLen(M, skip, limit) = Device!PageLen(M, skip, limit)
    BY <1>1 DEF Store!PageLen, Device!PageLen
  <2> QED
    BY <1>2, <2>1 DEF Store!PageOf, Device!PageOf
<1>4. Store!Matches(c, Store!FullMap) = Device!Matches(c, Device!FullMap)
  BY DEF Store!Matches, Device!Matches, Store!FullMap, Device!FullMap, Store!MapOf,
         Device!MapOf, Store!IdIn, Device!IdIn, Store!RiverMatches, Device!RiverMatches,
         Store!RainMatches, Device!RainMatches, Store!After, Device!After
<1>5. /\ Store!LimitOf(c) = Device!LimitOf(c)
      /\ Store!SpoiltRows(c) = Device!SpoiltRows(c)
      /\ Store!getAllStations = Device!getAllStations
      /\ \A p, s : /\ Store!FirstOf(p, s) = Device!FirstOf(p, s)
                   /\ Store!Representable(p, s) <=> Device!Representable(p, s)
  BY DEF Store!LimitOf, Device!LimitOf, Store!SpoiltRows, Device!SpoiltRows,
         Store!Misquoted, Device!Misquoted, Store!getAllStations, Device!getAllStations, Store!FirstOf, Device!FirstOf,
         Store!Representable, Device!Representable
<1>6. Store!Pages(c) = Device!Pages(c)
  BY <1>1, <1>3, <1>4, <1>5, Zenon DEF Store!Pages, Device!Pages
<1> QED
  BY <1>5, <1>6, Zenon DEF Store!Results, Device!Results

\* What an instance calls a name is what the repository calls it.
LEMMA SameNames ==
  /\ Device!getAllStations = getAllStations
  /\ Device!Fates = Fates
  /\ \A c, names : Device!Known(c, names) <=> Known(c, names)
  /\ Device!FullMap = FullMap
BY DEF Device!getAllStations, getAllStations, Device!Fates, Fates, Device!Known, Known,
       Device!FullMap, FullMap, Device!MapOf, MapOf, Device!IdIn, IdIn

\* The reply of a query is an answer the handler can rely on.
LEMMA ReplyAnswers ==
  ASSUME RefinementInv, Finalize, up, call # getAllStations
  PROVE  Device!AnswerQuery
<1>1. Store!AnswerQuery
  BY QueryReturnAnswers
<1>2. Alive /\ Alive' /\ up'
  BY ReplyOfCall DEF Alive
<1> QED
  BY <1>1, <1>2, ResultsSame
     DEF Store!AnswerQuery, Device!AnswerQuery, Store!FateOf, Device!FateOf,
         Store!Misquoted, Device!Misquoted, Store!getAllStations, Device!getAllStations

\* The return of init() is what setup() waits for.
LEMMA InitAnswers ==
  ASSUME RefinementInv, Finalize, ~up, up'
  PROVE  Device!Open
<1>1. Store!Open
  BY InitReturnOpens DEF Finalize
<1>2. Alive /\ Alive'
  BY DEF Finalize, Alive
<1>3. Store!getAllStations = Device!getAllStations
  BY DEF Store!getAllStations, Device!getAllStations
<1>4. \A r, f : Store!NamesIn(r, f) = Device!NamesIn(r, f)
  BY DEF Store!NamesIn, Device!NamesIn
<1> QED
  BY <1>1, <1>2, <1>3, <1>4, ResultsSame DEF Store!Open, Device!Open

\* The call of a handler is a query of a known station.
LEMMA HandlerCall ==
  ASSUME SystemInv, handler = "query"
  PROVE  /\ App!CallOf(request, page, pagesize) \in Call
         /\ Known(App!CallOf(request, page, pagesize), DOMAIN stationMap)
<1>1. Device!RoutesCore
  BY DEF SystemInv, Device!AppCore
<1>2. Device!CallOf(request, page, pagesize) = App!CallOf(request, page, pagesize)
  BY DEF Device!CallOf, App!CallOf, Device!UInt8, App!UInt8
<1>3. /\ Device!CallOf(request, page, pagesize) \in Device!Call
      /\ Device!Known(Device!CallOf(request, page, pagesize), DOMAIN stationMap)
  BY <1>1, Device!QueryAsks, DeviceAssumptions
<1> QED
  BY <1>2, <1>3, SameSets, SameNames

\* The two invariants of the repository, one step on.
LEMMA NextRefinement ==
  ASSUME RefinementInv, [Next]_vars
  PROVE  RefinementInv'
BY NextInv, QuietNext DEF RefinementInv

\* Every step of the system is one of the repository, a query of a handler or an
\* exception in one, as far as the repository is concerned.
LEMMA RepositoryInSystem ==
  ASSUME SystemInv, [SystemNext]_systemVars
  PROVE  RefinementInv'
<1>0. RefinementInv
  BY DEF SystemInv
<1>1. CASE SetupRuns \/ ServerRuns \/ HandlerRuns \/ OthersMove \/ UNCHANGED systemVars
  <2>1. UNCHANGED vars
    BY <1>1 DEF SetupRuns, ServerRuns, HandlerRuns, OthersMove, systemVars
  <2> QED
    BY <1>0, <2>1, NextRefinement
<1>2. CASE HandlerThrows
  <2>1. /\ Throw /\ UNCHANGED card
        /\ Fault \/ UNCHANGED budget
        /\ handler \in {"page", "pagesize", "send"}
    BY <1>2 DEF HandlerThrows, App!StoiFails, App!Goto
  <2>2. pc = "idle"
    BY <2>1, Places
  <2>3. RepositoryInv'
    BY <1>0, <2>1, <2>2, ThrowInv, BudgetType DEF RefinementInv, RepositoryInv
  <2>4. QuietInv'
    BY <2>1 DEF Throw, QuietInv
  <2> QED
    BY <2>3, <2>4 DEF RefinementInv
<1>3. CASE QueryCalled
  <2> DEFINE c == App!CallOf(request, page, pagesize)
  <2>1. c \in Call /\ Issue(c) /\ UNCHANGED <<card, budget>>
    BY <1>3, HandlerCall DEF QueryCalled
  <2> HIDE DEF c
  <2>2. RepositoryInv'
    BY <1>0, <2>1, IssueInv DEF RefinementInv
  <2>3. QuietInv'
    BY <1>0, <2>1, QuietIssue DEF RefinementInv
  <2> QED
    BY <2>2, <2>3 DEF RefinementInv
<1>4. CASE InitCalled \/ RepositoryRuns \/ RepositoryThrows \/ RepositoryReturns
             \/ DeviceRestarts \/ CardMoves
  <2>1. Next
    BY <1>4
       DEF InitCalled, RepositoryRuns, RepositoryThrows, RepositoryReturns, DeviceRestarts,
           CardMoves, Next, Environment, InitSteps, CallSteps
  <2> QED
    BY <1>0, <2>1, NextRefinement
<1> QED
  BY <1>1, <1>2, <1>3, <1>4 DEF SystemNext, TaskSteps

-----------------------------------------------------------------------------
(* The application in the system.                                          *)

\* The counters that the system has no use for are constants.
LEMMA Outside ==
  /\ UNCHANGED hull <=> UNCHANGED Device!appVars
  /\ UNCHANGED outer <=> (UNCHANGED Device!routeVars /\ UNCHANGED Device!appVars)
BY DEF outer, hull, Device!appVars, Device!serverVars, Device!clientVars, Device!routeVars

\* A step of the repository that no caller can see.
LEMMA StoreStaysInv ==
  ASSUME Device!StoreInv, UNCHANGED <<up, stationMap, mapFate, reply>>,
         ~up \/ call' = call, fate' \in Fates
  PROVE  Device!StoreInv'
BY SameNames, Zenon
   DEF Device!StoreInv, Device!StoreTypeOK, Device!JobInv, Device!NamesInv,
       Device!AnswerInv, Told

\* A step of the repository that the application sees only in its store.
LEMMA StoreMoves ==
  ASSUME SystemInv, Device!StoreInv', UNCHANGED outer, UNCHANGED <<up, reply>>,
         ~up \/ UNCHANGED <<stationMap, call>>
  PROVE  Device!AppCore'
<1>1. UNCHANGED Device!routeVars /\ UNCHANGED Device!appVars
  BY Outside
<1>2. (IF up THEN call ELSE None)' = (IF up THEN call ELSE None) /\ Told(reply)' = Told(reply)
  BY DEF Told
<1>3. handler # "idle" => (DOMAIN stationMap)' = DOMAIN stationMap
  BY Places
<1>4. Device!AppCore
  BY DEF SystemInv
<1> QED
  BY <1>1, <1>2, <1>3, <1>4, Device!StoreMovesInv, DeviceAssumptions

\* A step of the repository that the application does not see.
LEMMA UnseenInv ==
  ASSUME SystemInv, RefinementInv', UNCHANGED outer,
         UNCHANGED <<up, stationMap, mapFate, reply>>, ~up \/ call' = call
  PROVE  Device!AppCore'
<1>1. Device!StoreInv
  BY DEF SystemInv, Device!AppCore, Device!RoutesCore
<1>2. fate' \in Fates
  BY DEF RefinementInv, RepositoryInv, TypeOK
<1>3. Device!StoreInv'
  BY <1>1, <1>2, StoreStaysInv
<1> QED
  BY <1>3, StoreMoves

\* An init() without stations leaves an empty map behind, and throws.
LEMMA InitFails ==
  ASSUME SystemInv, Finalize, ~up, ~up', UNCHANGED outer
  PROVE  Device!AppCore'
<1>1. /\ pc = "finalize" /\ rows = <<>> /\ call = getAllStations
      /\ UNCHANGED <<up, reply>> /\ fate' = "whole"
      /\ stationMap' \in MapsFrom(rows, fate) /\ mapFate' = fate
  BY DEF Finalize, SystemInv, RefinementInv, RepositoryInv, CallInv, Busy, TypeOK
<1>2. stationMap' = EmptyMap
  <2>1. Range(rows) = {}
    BY <1>1 DEF Range
  <2> QED
    BY <1>1, <2>1 DEF MapsFrom, EmptyMap
<1>3. DOMAIN stationMap' = {}
  BY <1>2 DEF EmptyMap, MapOf
<1>4. Device!StoreInv
  BY DEF SystemInv, Device!AppCore, Device!RoutesCore
<1>5. fate \in Fates
  BY DEF SystemInv, RefinementInv, RepositoryInv, TypeOK
<1>6. Told(reply)' = Told(reply)
  BY <1>1 DEF Told
<1>7. Device!StoreInv'
  BY <1>1, <1>3, <1>4, <1>5, <1>6, SameNames
     DEF Device!StoreInv, Device!StoreTypeOK, Device!JobInv, Device!NamesInv,
         Device!AnswerInv, Fates
<1> QED
  BY <1>1, <1>7, StoreMoves

\* The return of a query gives the handler its answer, and the return of init()
\* gives setup() a store that is open.
LEMMA ReturnInv ==
  ASSUME SystemInv, RepositoryReturns
  PROVE  Device!AppCore'
<1>0. RefinementInv /\ Device!AppCore /\ Finalize
  BY DEF SystemInv, RepositoryReturns
<1>1. CASE up
  <2>1. /\ handler = "await" /\ handler' = "send"
        /\ UNCHANGED <<request, page, pagesize, response, sticky, hull>>
    BY <1>1 DEF RepositoryReturns, App!Goto
  <2>2. call # getAllStations
    <3>1. call = Device!CallOf(request, page, pagesize)
      BY <1>0, <1>1, <2>1 DEF Device!AppCore, Device!RoutesCore, Device!CallInv
    <3>2. request \in Device!Request /\ page \in Device!CInt /\ pagesize \in Device!CInt
      BY <1>0, <2>1
         DEF Device!AppCore, Device!RoutesCore, Device!RoutesType, Device!LocalsInv
    <3>3. Device!CallOf(request, page, pagesize) # Device!getAllStations
      BY <3>2, Device!CallOfType, DeviceAssumptions
    <3> QED
      BY <3>1, <3>3, SameNames
  <2>3. Device!AnswerQuery
    BY <1>0, <1>1, <2>2, ReplyAnswers
  <2>4. Device!TakeAnswer
    BY <2>1, <2>3 DEF Device!TakeAnswer, Device!Goto
  <2>5. Device!QuietSteps /\ UNCHANGED Device!appVars
    BY <2>1, <2>4, Outside DEF Device!QuietSteps
  <2> QED
    BY <1>0, <2>1, <2>5, Device!HandlerRunsInv, DeviceAssumptions
<1>2. CASE ~up /\ up'
  <2>1. Device!Open
    BY <1>0, <1>2, InitAnswers
  <2>2. Device!InitReturns
    BY <1>2, <2>1
       DEF RepositoryReturns, Device!InitReturns, Device!routeVars, Device!serverVars,
           Device!clientVars
  <2>3. Device!SetupSteps
    BY <2>2 DEF Device!SetupSteps
  <2> QED
    BY <1>0, <2>3, Device!SetupInv, DeviceAssumptions
<1>3. CASE ~up /\ ~up'
  BY <1>0, <1>3, InitFails DEF RepositoryReturns
<1> QED
  BY <1>1, <1>2, <1>3 DEF RepositoryReturns

\* Every step of the system is one of the application, or one that it cannot see.
LEMMA AppInSystem ==
  ASSUME SystemInv, RefinementInv', [SystemNext]_systemVars
  PROVE  Device!AppCore'
<1>0. Device!AppCore
  BY DEF SystemInv
<1>1. CASE SetupRuns \/ ServerRuns \/ OthersMove \/ App!HandlerSends
  <2>1. Device!AppNext
    BY <1>1, SameSteps
       DEF SetupRuns, ServerRuns, OthersMove, Device!AppNext, Device!SetupSteps,
           Device!LoopSteps
  <2> QED
    BY <1>0, <2>1, Device!AppNextCore, DeviceAssumptions
<1>2. CASE HandlerRuns /\ ~App!HandlerSends
  <2>1. Device!QuietSteps /\ UNCHANGED Device!appVars
    BY <1>2, SameSteps, Outside DEF HandlerRuns, Device!QuietSteps
  <2> QED
    BY <1>0, <2>1, Device!HandlerRunsInv, DeviceAssumptions
<1>3. CASE QueryCalled
  <2>1. Device!QuietSteps /\ UNCHANGED Device!appVars
    BY <1>3, SameSteps, Outside DEF QueryCalled, Device!QuietSteps
  <2> QED
    BY <1>0, <2>1, Device!HandlerRunsInv, DeviceAssumptions
<1>4. ASSUME App!ThrownThrough, UNCHANGED hull PROVE Device!AppCore'
  <2>1. Device!ThrownThrough /\ UNCHANGED Device!appVars
    BY <1>4, SameSteps, Outside
  <2>2. 0 \in 0..0
    OBVIOUS
  <2> QED
    BY <1>0, <2>1, <2>2, Device!ThrownThroughCore, DeviceAssumptions
<1>5. CASE HandlerThrows
  <2>1. CASE App!StoiFails
    <3>1. Device!QuietSteps /\ UNCHANGED Device!appVars
      BY <1>5, <2>1, SameSteps, Outside DEF HandlerThrows, Device!QuietSteps
    <3> QED
      BY <1>0, <3>1, Device!HandlerRunsInv, DeviceAssumptions
  <2>2. CASE ~App!StoiFails
    BY <1>4, <1>5, <2>2 DEF HandlerThrows
  <2> QED
    BY <2>1, <2>2
<1>6. CASE InitCalled \/ RepositoryRuns \/ CardMoves \/ UNCHANGED systemVars
  <2>1. UNCHANGED outer /\ UNCHANGED <<up, stationMap, mapFate, reply>>
    BY <1>6
       DEF InitCalled, RepositoryRuns, CardMoves, systemVars, vars, memory, BeginInit, Mount,
           OpenExisting, OpenCreates, Prepare, StepRow, StepDone, StepError, StalePage,
           SpoiltScan, Eject, Insert
  <2>2. ~up \/ call' = call
    BY <1>6, Places
       DEF InitCalled, RepositoryRuns, CardMoves, systemVars, vars, memory, BeginInit, Mount,
           OpenExisting, OpenCreates, Prepare, StepRow, StepDone, StepError, StalePage,
           SpoiltScan, Eject, Insert
  <2> QED
    BY <2>1, <2>2, UnseenInv
<1>7. CASE RepositoryThrows
  <2>1. UNCHANGED memory
    BY <1>7 DEF RepositoryThrows, InitThrows, OpenThrows, PrepareThrows, NullText, Throw
  <2>2. CASE up
    BY <1>4, <1>7, <2>2 DEF RepositoryThrows
  <2>3. CASE ~up
    BY <1>7, <2>1, <2>3, UnseenInv DEF RepositoryThrows, memory
  <2> QED
    BY <2>2, <2>3
<1>8. CASE RepositoryReturns
  BY <1>8, ReturnInv
<1>9. CASE DeviceRestarts
  <2>1. Device!Restart
    BY <1>9, SameSteps DEF DeviceRestarts
  <2>2. 0 \in 0..0
    OBVIOUS
  <2> QED
    BY <1>0, <2>1, <2>2, Device!RestartCore, DeviceAssumptions
<1> QED
  BY <1>1, <1>2, <1>3, <1>5, <1>6, <1>7, <1>8, <1>9
     DEF SystemNext, TaskSteps, HandlerRuns

-----------------------------------------------------------------------------
(* The one task.                                                           *)

\* The handler gets its page from the repository: the call does not throw.
LEMMA QueryGoes ==
  ASSUME SystemInv, QueryCalled
  PROVE  /\ pc = "idle" /\ pc' = "prepare" /\ handler = "query" /\ handler' = "await"
         /\ UNCHANGED <<up, stale, fate, mounted, file, main, handled, link>>
         /\ UNCHANGED <<faults, ejects, crashes>>
<1> DEFINE c == App!CallOf(request, page, pagesize)
<1>1. Known(c, DOMAIN stationMap) /\ Issue(c) /\ App!Query
      /\ handler = "query" /\ UNCHANGED <<card, budget, hull>>
  BY HandlerCall DEF QueryCalled
<1>2. App!Known(c, DOMAIN stationMap)
  BY <1>1 DEF App!Known, Known
<1>3. handler' = "await"
  BY <1>2, <1>1 DEF App!Query
<1>4. pc = "idle" /\ pc' = "prepare" /\ UNCHANGED <<up, stale, fate>>
  BY <1>1 DEF Issue
<1> QED
  BY <1>1, <1>3, <1>4 DEF card, budget, hull

\* Each step moves the task in the repository and in the program together.
LEMMA OneTaskNext ==
  ASSUME SystemInv, [SystemNext]_systemVars
  PROVE  OneTask'
<1>0. OneTask
  BY DEF SystemInv
<1>1. CASE SetupRuns
  <2>1. pc = "off" /\ pc' = "off" /\ main' # "off" /\ handler' = handler
    BY <1>0, <1>1
       DEF SetupRuns, OneTask, vars, App!PowerUp, App!Connected, App!StartServer, App!allVars,
           App!routeVars
  <2>2. handler = "idle"
    BY <2>1, Places
  <2> QED
    BY <2>1, <2>2 DEF OneTask
<1>2. CASE ServerRuns
  <2>1. /\ pc' = pc /\ main = "loop" /\ main' = "loop"
        /\ handler = "idle" /\ handler' \in {"idle", "calling"}
    BY <1>2
       DEF ServerRuns, vars, App!Idle, App!Accept, App!HandleRequest, App!CloseConnection,
           App!Looping, App!Dispatch, App!Goto, App!allVars, App!routeVars, App!everything,
           App!appVars
  <2> QED
    BY <1>0, <2>1 DEF OneTask
<1>3. CASE HandlerRuns
  <2>1. /\ pc' = pc /\ main' = main
        /\ handler \in {"calling", "page", "pagesize", "send", "done"}
        /\ handler' \in {"page", "pagesize", "query", "done", "idle"}
    BY <1>3
       DEF HandlerRuns, vars, hull, App!HandlerSends, App!SendNotFound, App!SendPage,
           App!CallRiver, App!CallRainfall, App!ReadPage, App!ReadPagesize, App!Done, App!Goto
  <2>2. pc = "idle" /\ main = "loop"
    BY <2>1, Places
  <2> QED
    BY <2>1, <2>2 DEF OneTask
<1>4. CASE HandlerThrows
  <2>1. /\ pc' = "aborted" /\ main' = main /\ handler' = "thrown"
        /\ handler \in {"page", "pagesize", "send"}
    BY <1>4 DEF HandlerThrows, hull, Throw, App!StoiFails, App!ThrownThrough, App!Goto
  <2>2. main = "loop"
    BY <2>1, Places
  <2> QED
    BY <2>1, <2>2 DEF OneTask
<1>5. CASE InitCalled
  <2>1. pc = "off" /\ pc' = "mount" /\ main' = "init" /\ handler' = handler
    BY <1>5 DEF InitCalled, BeginInit, outer, hull
  <2>2. handler = "idle"
    BY <2>1, Places
  <2> QED
    BY <2>1, <2>2 DEF OneTask
<1>6. CASE QueryCalled
  <2>1. /\ pc = "idle" /\ pc' = "prepare" /\ handler = "query" /\ handler' = "await"
        /\ main' = main
    BY <1>6, QueryGoes
  <2>2. main = "loop"
    BY <2>1, Places
  <2> QED
    BY <2>1, <2>2 DEF OneTask
<1>7. CASE RepositoryRuns \/ CardMoves \/ OthersMove \/ UNCHANGED systemVars
  <2>1. /\ main' = main /\ handler' = handler
        /\ \/ pc' = pc
           \/ /\ pc \in {"mount", "open", "prepare", "step"}
              /\ pc' \in {"open", "prepare", "step", "finalize"}
    BY <1>7
       DEF RepositoryRuns, CardMoves, OthersMove, systemVars, vars, outer, hull, Mount,
           OpenExisting, OpenCreates, Prepare, StepRow, StepDone, StepError, StalePage,
           SpoiltScan, Eject, Insert, App!WifiUp, App!WifiDown, App!ClientSteps, App!Connect,
           App!Arrive, App!GiveUp, App!allVars, App!routeVars
  <2> QED
    BY <1>0, <2>1 DEF OneTask
<1>8. CASE RepositoryThrows
  <2>1. pc \in {"mount", "open", "prepare", "step"} /\ pc' = "aborted"
    BY <1>8 DEF RepositoryThrows, InitThrows, OpenThrows, PrepareThrows, NullText, Throw
  <2>2. CASE up
    <3>1. handler' = "thrown" /\ main' = main
      BY <1>8, <2>2 DEF RepositoryThrows, App!ThrownThrough, hull
    <3>2. main = "loop"
      BY <2>2, Places
    <3> QED
      BY <2>1, <3>1, <3>2 DEF OneTask
  <2>3. CASE ~up
    <3>1. handler' = handler /\ main' = main
      BY <1>8, <2>3 DEF RepositoryThrows, outer, hull
    <3>2. handler = "idle"
      BY <2>3, Places
    <3> QED
      BY <1>0, <2>1, <3>1, <3>2 DEF OneTask
  <2> QED
    BY <2>2, <2>3
<1>9. CASE RepositoryReturns
  <2>0. Finalize /\ pc = "finalize"
    BY <1>9 DEF RepositoryReturns, Finalize
  <2>1. CASE up
    <3>1. pc' = "idle" /\ handler' = "send" /\ main' = main
      BY <1>9, <2>0, <2>1 DEF RepositoryReturns, Finalize, App!Goto, hull
    <3>2. main = "loop"
      BY <2>1, Places
    <3> QED
      BY <3>1, <3>2 DEF OneTask
  <2>2. CASE ~up /\ up'
    <3>1. pc' = "idle" /\ handler' = handler /\ main' = "loop"
      BY <1>9, <2>0, <2>2 DEF RepositoryReturns, Finalize
    <3>2. handler = "idle"
      BY <2>2, Places
    <3> QED
      BY <3>1, <3>2 DEF OneTask
  <2>3. CASE ~up /\ ~up'
    <3>1. pc' = "aborted" /\ handler' = handler /\ main' = main
      BY <1>9, <2>0, <2>3 DEF RepositoryReturns, Finalize, outer, hull
    <3>2. handler = "idle"
      BY <2>3, Places
    <3> QED
      BY <1>0, <2>0, <3>1, <3>2 DEF OneTask
  <2> QED
    BY <2>1, <2>2, <2>3
<1>10. CASE DeviceRestarts
  BY <1>10 DEF DeviceRestarts, Reboot, Crash, App!Restart, App!RoutesRestart, OneTask
<1> QED
  BY <1>1, <1>2, <1>3, <1>4, <1>5, <1>6, <1>7, <1>8, <1>9, <1>10
     DEF SystemNext, TaskSteps

-----------------------------------------------------------------------------
(* The causes of a restart.                                                *)

\* What was a cause stays one.
LEMMA CauseStays ==
  ASSUME SystemInv, RefinementInv', [SystemNext]_systemVars
  PROVE  /\ faults \in Nat /\ ejects \in Nat /\ crashes \in Nat
         /\ faults' \in Nat /\ ejects' \in Nat /\ crashes' \in Nat
         /\ Failed => Failed'
         /\ Cause => Cause'
<1>1. /\ faults \in Nat /\ ejects \in Nat /\ crashes \in Nat
      /\ faults' \in Nat /\ ejects' \in Nat /\ crashes' \in Nat
  BY BoundsAssumption DEF SystemInv, RefinementInv, RepositoryInv, TypeOK
<1>2. /\ faults' \in {faults, faults + 1}
      /\ ejects' \in {ejects, ejects + 1}
      /\ crashes' \in {crashes, crashes + 1}
      /\ file' \in {file, "blank"}
  <2>1. CASE QueryCalled
    BY <2>1 DEF QueryCalled, card, budget
  <2>2. CASE HandlerThrows
    BY <2>2 DEF HandlerThrows, card, budget, Fault
  <2>3. CASE SetupRuns \/ ServerRuns \/ HandlerRuns \/ OthersMove \/ UNCHANGED systemVars
    BY <2>3
       DEF SetupRuns, ServerRuns, HandlerRuns, OthersMove, systemVars, vars, card, budget
  <2>4. CASE InitCalled \/ RepositoryRuns \/ RepositoryThrows \/ RepositoryReturns
               \/ DeviceRestarts \/ CardMoves
    BY <2>4
       DEF InitCalled, RepositoryRuns, RepositoryThrows, RepositoryReturns, DeviceRestarts,
           CardMoves, BeginInit, Mount, OpenExisting, OpenCreates, Prepare, StepRow,
           StepDone, StepError, StalePage, SpoiltScan, Eject, Insert, InitThrows, OpenThrows,
           PrepareThrows, NullText, Finalize, Reboot, Crash, Fails, Fault, card, budget
  <2> QED
    BY <2>1, <2>2, <2>3, <2>4 DEF SystemNext, TaskSteps
<1>3. handled \subseteq handled'
  <2>1. CASE OthersMove
    BY <2>1
       DEF OthersMove, App!WifiUp, App!WifiDown, App!ClientSteps, App!Connect, App!Arrive,
           App!GiveUp, App!clientVars
  <2>2. CASE DeviceRestarts
    BY <2>2 DEF DeviceRestarts, App!Restart
  <2>3. CASE SetupRuns \/ ServerRuns \/ HandlerRuns
    BY <2>3
       DEF SetupRuns, ServerRuns, HandlerRuns, App!PowerUp, App!Connected, App!StartServer,
           App!Idle, App!Accept, App!HandleRequest, App!CloseConnection, App!HandlerSends,
           App!clientVars, App!appVars, App!everything, hull
  <2>4. CASE HandlerThrows \/ InitCalled \/ QueryCalled \/ RepositoryRuns
               \/ RepositoryThrows \/ RepositoryReturns \/ CardMoves \/ UNCHANGED systemVars
    BY <2>4
       DEF HandlerThrows, InitCalled, QueryCalled, RepositoryRuns, RepositoryThrows,
           RepositoryReturns, CardMoves, systemVars, outer, hull
  <2> QED
    BY <2>1, <2>2, <2>3, <2>4 DEF SystemNext, TaskSteps
<1>4. Failed => Failed'
  BY <1>1, <1>2 DEF Failed
<1>5. (\E d \in handled : Device!MayThrow(RequestOf[d])) =>
         (\E d \in handled' : Device!MayThrow(RequestOf[d]))
  BY <1>3
<1>6. (\E d \in handled' : Device!MayThrow(RequestOf[d])) => Cause'
  BY DEF Cause
<1>7. (crashes > 0 \/ file # "flood" \/ StationRows = <<>>) => Cause'
  BY <1>1, <1>2 DEF Cause
<1> QED
  BY <1>1, <1>4, <1>5, <1>6, <1>7 DEF Cause

\* The whole station table is read by a scan that met no failure.
LEMMA EmptyTable ==
  ASSUME SystemInv, pc = "finalize", ~up, rows = <<>>, fate = "whole"
  PROVE  StationRows = <<>>
<1> DEFINE N == Len(StationRows)
<1>1. call = getAllStations
  BY DEF SystemInv, RefinementInv, RepositoryInv, CallInv, Busy
<1>2. /\ 0 = PageLen(stmt.match, SkipOf(call), LimitOf(call))
      /\ stmt.match = Matches(call, stationMap)
  BY DEF SystemInv, RefinementInv, RepositoryInv, FinishInv, ScanInv, Scanning
<1>3. N \in Nat /\ SkipOf(call) = 0 /\ LimitOf(call) = N + 1
  BY <1>1, TablesAssumption DEF SkipOf, LimitOf, getAllStations
<1>4. Matches(call, stationMap) = 1..N
  BY <1>1, StationTable DEF Matches, getAllStations
<1>5. Cardinality(1..N) = N
  <2> HIDE DEF N
  <2> QED
    BY <1>3, FS_Interval
<1>6. N = 0
  <2> HIDE DEF N
  <2>1. 0 = PageLen(1..N, 0, N + 1)
    BY <1>2, <1>3, <1>4
  <2> QED
    BY <1>3, <1>5, <2>1 DEF PageLen
<1> QED
  BY <1>6, TablesAssumption

\* Stale pages, scans that are not whole and lost cards come from failures.
LEMMA FailureNext ==
  ASSUME SystemInv, RefinementInv', [SystemNext]_systemVars
  PROVE  FailureInv'
<1>0. /\ FailureInv
      /\ Failed => Failed'
      /\ faults \in Nat /\ ejects \in Nat
      /\ faults' \in Nat /\ ejects' \in Nat
  BY CauseStays DEF SystemInv
<1>9. pc \in {"off", "mount", "open", "idle", "prepare"} => fate = "whole"
  BY DEF SystemInv, RefinementInv, RepositoryInv, CallInv, Scanning
<1> DEFINE Calm == /\ ejects' = ejects /\ faults' \in {faults, faults + 1}
                   /\ stale' => stale
                   /\ (fate' # "whole" /\ ~Misquoted(call')) =>
                         (fate # "whole" /\ ~Misquoted(call))
                   /\ \/ pc' \in {"off", "mount", "aborted"} \/ mounted'
                      \/ pc \notin {"off", "mount", "aborted"} /\ mounted' = mounted
<1>1. ASSUME Calm PROVE FailureInv'
  <2>1. (pc' \notin {"off", "mount", "aborted"} /\ ~mounted') => ejects' > 0
    <3>1. (pc \notin {"off", "mount", "aborted"} /\ ~mounted) => ejects > 0
      BY <1>0 DEF FailureInv
    <3> QED
      BY <1>1, <3>1
  <2>2. (stale \/ (fate # "whole" /\ ~Misquoted(call))) => Failed
    BY <1>0 DEF FailureInv
  <2>3. (stale' \/ (fate' # "whole" /\ ~Misquoted(call'))) =>
          (stale \/ (fate # "whole" /\ ~Misquoted(call)))
    BY <1>1
  <2> QED
    BY <1>0, <2>1, <2>2, <2>3 DEF FailureInv
<1>2. CASE SetupRuns \/ ServerRuns \/ HandlerRuns \/ OthersMove \/ UNCHANGED systemVars
  <2>1. UNCHANGED vars
    BY <1>2 DEF SetupRuns, ServerRuns, HandlerRuns, OthersMove, systemVars
  <2> QED
    BY <1>1, <2>1 DEF vars, memory, card, budget
<1>3. CASE QueryCalled
  BY <1>1, <1>3, <1>9, QueryGoes
<1>4. CASE HandlerThrows
  BY <1>1, <1>4 DEF HandlerThrows, Throw, Fault, memory, budget
<1>5. CASE InitCalled \/ RepositoryThrows \/ DeviceRestarts
  BY <1>1, <1>5
     DEF InitCalled, RepositoryThrows, DeviceRestarts, BeginInit, InitThrows, OpenThrows,
         PrepareThrows, NullText, Throw, Fails, Fault, Reboot, Crash, MemoryLost, memory,
         card, budget
<1>6. CASE RepositoryReturns
  BY <1>1, <1>6 DEF RepositoryReturns, Finalize, card, budget
<1>7. CASE CardMoves
  <2>1. CASE Eject
    BY <1>0, <2>1 DEF Eject, FailureInv, Failed
  <2>2. CASE Insert
    BY <1>1, <2>2 DEF Insert, memory, budget
  <2> QED
    BY <1>7, <2>1, <2>2 DEF CardMoves
<1>8. CASE RepositoryRuns
  <2>1. CASE Mount \/ OpenExisting \/ OpenCreates \/ Prepare \/ StepRow \/ StepDone
               \/ SpoiltScan
    BY <1>0, <1>1, <1>9, <2>1
       DEF Mount, OpenExisting, OpenCreates, Prepare, StepRow, StepDone, SpoiltScan, Fault,
           memory, card, budget
  <2>2. CASE StepError \/ StalePage
    <3>1. /\ pc = "step" /\ mounted' = mounted
          /\ stale \/ Fails
          /\ UNCHANGED budget \/ Fails
      BY <2>2 DEF StepError, StalePage, card
    <3>2. ejects' = ejects
      BY <3>1 DEF Fails, budget
    <3>3. ~mounted => ejects > 0
      BY <1>0, <3>1 DEF FailureInv
    <3>4. Failed'
      <4>1. CASE stale
        BY <1>0, <4>1 DEF FailureInv
      <4>2. CASE Fails
        <5>1. CASE mounted
          BY <1>0, <4>2, <5>1 DEF Fails, Failed
        <5>2. CASE ~mounted
          BY <1>0, <3>3, <5>2 DEF Failed
        <5> QED
          BY <5>1, <5>2
      <4> QED
        BY <3>1, <4>1, <4>2
    <3>5. (pc' \notin {"off", "mount", "aborted"} /\ ~mounted') => ejects' > 0
      BY <3>1, <3>2, <3>3
    <3> QED
      BY <3>4, <3>5 DEF FailureInv
  <2> QED
    BY <1>8, <2>1, <2>2 DEF RepositoryRuns
<1> QED
  BY <1>2, <1>3, <1>4, <1>5, <1>6, <1>7, <1>8 DEF SystemNext, TaskSteps

\* Only a restart resets a connection.
LEMMA ConnectionsLost ==
  ASSUME SystemInv, [SystemNext]_systemVars,
         NEW c \in Clients, link'[c] = "reset", link[c] # "reset"
  PROVE  DeviceRestarts
<1>0. link \in [Clients -> Device!Conns]
  BY Places
<1>1. CASE OthersMove
  <2>1. ASSUME NEW d \in Clients, App!Connect(d) \/ App!GiveUp(d) PROVE FALSE
    <3>1. PICK s \in {"open", "gone"} : link' = [link EXCEPT ![d] = s]
      BY <2>1 DEF App!Connect, App!GiveUp
    <3> QED
      BY <1>0, <3>1
  <2>2. CASE App!WifiUp \/ App!WifiDown \/ \E d \in Clients : App!Arrive(d)
    BY <2>2 DEF App!WifiUp, App!WifiDown, App!Arrive, App!clientVars
  <2> QED
    BY <1>1, <2>1, <2>2 DEF OthersMove, App!ClientSteps
<1>2. CASE App!CloseConnection
  <2>1. link' = [link EXCEPT ![current] = IF @ = "open" THEN "closed" ELSE @]
    BY <1>2 DEF App!CloseConnection
  <2>2. link'[c] \in {link[c], "closed"}
    BY <1>0, <2>1
  <2> QED
    BY <2>2
<1>3. CASE SetupRuns \/ (ServerRuns /\ ~App!CloseConnection) \/ HandlerRuns
  BY <1>3
     DEF SetupRuns, ServerRuns, HandlerRuns, App!PowerUp, App!Connected, App!StartServer,
         App!Idle, App!Accept, App!HandleRequest, App!HandlerSends, App!clientVars,
         App!appVars, App!everything, hull
<1>4. CASE HandlerThrows \/ InitCalled \/ QueryCalled \/ RepositoryRuns \/ RepositoryThrows
             \/ RepositoryReturns \/ CardMoves \/ UNCHANGED systemVars
  BY <1>4
     DEF HandlerThrows, InitCalled, QueryCalled, RepositoryRuns, RepositoryThrows,
         RepositoryReturns, CardMoves, systemVars, outer, hull
<1> QED
  BY <1>1, <1>2, <1>3, <1>4 DEF SystemNext, TaskSteps, ServerRuns

\* A misquoted call is that of a request with such a start.
LEMMA MisquotedHasCause ==
  ASSUME SystemInv, pc \in {"prepare", "step", "finalize"}, Misquoted(call)
  PROVE  up /\ Cause
<1>1. up
  <2>1. ~up => call = getAllStations
    BY DEF SystemInv, RefinementInv, RepositoryInv, CallInv, Busy
  <2> QED
    BY <2>1, Places DEF Misquoted, getAllStations
<1>2. handler = "await" /\ current \in handled /\ request = RequestOf[current]
  BY <1>1, Places
<1>3. call = Device!CallOf(request, page, pagesize)
  BY <1>1, <1>2 DEF SystemInv, Device!AppCore, Device!RoutesCore, Device!CallInv
<1>4. request.start = BadStart
  BY <1>3 DEF Misquoted, Device!CallOf
<1> QED
  BY <1>1, <1>2, <1>4 DEF Cause, Device!MayThrow

\* An exception has a cause: a failure, a file or a table that is not what it
\* should be, or a parameter of the request that is handled.
LEMMA ThrowsHaveCause ==
  ASSUME SystemInv, RefinementInv', [SystemNext]_systemVars, pc # "aborted", pc' = "aborted"
  PROVE  Cause' /\ handler' \in {"idle", "thrown"}
<1>0. /\ FailureInv
      /\ Failed => Failed'
      /\ Cause => Cause'
      /\ faults \in Nat /\ ejects \in Nat
      /\ faults' \in Nat /\ ejects' \in Nat
  BY CauseStays DEF SystemInv
<1>1. Failed' => Cause'
  BY DEF Cause
<1>2. CASE HandlerThrows
  <2>1. handler' = "thrown"
    BY <1>2 DEF HandlerThrows, App!StoiFails, App!ThrownThrough, App!Goto
  <2>2. CASE Fault
    BY <1>0, <1>1, <2>1, <2>2 DEF Fault, Failed
  <2>3. CASE App!StoiFails
    <3>1. Device!StoiFails
      BY <2>3, SameSteps
    <3>2. Device!MayThrow(request) /\ handler # "idle"
      BY <3>1 DEF Device!StoiFails, Device!MayThrow, Device!Goto
    <3>3. current \in handled /\ request = RequestOf[current]
      BY <3>2, Places
    <3>4. Cause
      BY <3>2, <3>3 DEF Cause
    <3> QED
      BY <1>0, <2>1, <3>4
  <2> QED
    BY <1>2, <2>2, <2>3 DEF HandlerThrows
<1>3. CASE RepositoryThrows
  <2>1. handler' \in {"idle", "thrown"}
    BY <1>3, Places
       DEF RepositoryThrows, App!ThrownThrough, outer
  <2>2. CASE Fault
    BY <1>0, <1>1, <2>1, <2>2 DEF Fault, Failed
  <2>3. CASE Fails /\ pc \notin {"off", "mount", "aborted"}
    <3>1. CASE mounted
      BY <1>0, <1>1, <2>1, <2>3, <3>1 DEF Fails, Failed
    <3>2. CASE ~mounted
      <4>1. Failed
        BY <1>0, <2>3, <3>2 DEF FailureInv, Failed
      <4> QED
        BY <1>0, <1>1, <2>1, <4>1
    <3> QED
      BY <3>1, <3>2
  <2>4. CASE file # "flood" \/ (pc \in {"prepare", "step"} /\ Misquoted(call))
    <3>1. Cause
      BY <2>4, MisquotedHasCause DEF Cause
    <3> QED
      BY <1>0, <2>1, <3>1
  <2>5. CASE pc = "step" /\ fate = "spoilt" /\ ~Misquoted(call)
    BY <1>0, <1>1, <2>1, <2>5 DEF FailureInv
  <2> QED
    BY <1>3, <2>2, <2>3, <2>4, <2>5
       DEF RepositoryThrows, InitThrows, OpenThrows, PrepareThrows, NullText
<1>4. CASE RepositoryReturns
  <2>1. pc = "finalize" /\ ~up /\ ~up' /\ rows = <<>> /\ handler' = handler
    BY <1>4, Places DEF RepositoryReturns, Finalize, outer
  <2>2. handler' = "idle"
    BY <2>1, Places
  <2>3. CASE fate = "whole"
    <3>1. Cause
      BY <2>1, <2>3, EmptyTable DEF Cause
    <3> QED
      BY <1>0, <2>2, <3>1
  <2>4. CASE fate # "whole"
    <3>1. Failed
      BY <1>0, <2>1, <2>4, MisquotedHasCause DEF FailureInv
    <3> QED
      BY <1>0, <1>1, <2>2, <3>1
  <2> QED
    BY <2>3, <2>4
<1>5. CASE QueryCalled
  BY <1>5, QueryGoes
<1>6. CASE SetupRuns \/ ServerRuns \/ HandlerRuns \/ OthersMove \/ UNCHANGED systemVars
  BY <1>6 DEF SetupRuns, ServerRuns, HandlerRuns, OthersMove, systemVars, vars
<1>7. CASE InitCalled \/ RepositoryRuns \/ DeviceRestarts \/ CardMoves
  BY <1>7
     DEF InitCalled, RepositoryRuns, DeviceRestarts, CardMoves, BeginInit, Mount,
         OpenExisting, OpenCreates, Prepare, StepRow, StepDone, StepError, StalePage,
         SpoiltScan, Eject, Insert, Reboot, Crash
<1> QED
  BY <1>2, <1>3, <1>4, <1>5, <1>6, <1>7 DEF SystemNext, TaskSteps

\* Nothing moves the task from an exception to anything but the restart.
LEMMA AbortStays ==
  ASSUME SystemInv, [SystemNext]_systemVars, pc = "aborted", pc' = "aborted"
  PROVE  handler' = handler
<1>0. OneTask /\ handler \in {"idle", "thrown"}
  BY DEF SystemInv, SystemCauseInv
<1>1. main \notin {"off", "wifi", "server"} /\ (handler = "idle" => main = "init")
  BY <1>0, Places DEF OneTask
<1>2. CASE SetupRuns \/ ServerRuns
  BY <1>1, <1>2
     DEF SetupRuns, ServerRuns, App!PowerUp, App!Connected, App!StartServer, App!Idle,
         App!Accept, App!HandleRequest, App!CloseConnection, App!Looping, App!allVars,
         App!routeVars
<1>3. CASE HandlerRuns \/ HandlerThrows \/ QueryCalled
  BY <1>0, <1>3
     DEF HandlerRuns, HandlerThrows, QueryCalled, App!HandlerSends, App!SendNotFound,
         App!SendPage, App!CallRiver, App!CallRainfall, App!ReadPage, App!ReadPagesize,
         App!Done, App!StoiFails, App!ThrownThrough, App!Goto
<1>4. CASE OthersMove
  BY <1>4
     DEF OthersMove, App!WifiUp, App!WifiDown, App!ClientSteps, App!Connect, App!Arrive,
         App!GiveUp, App!allVars, App!routeVars
<1>5. CASE CardMoves \/ UNCHANGED systemVars
  BY <1>5 DEF CardMoves, systemVars, outer
<1>6. CASE InitCalled \/ RepositoryRuns \/ RepositoryThrows \/ RepositoryReturns
             \/ DeviceRestarts
  BY <1>6
     DEF InitCalled, RepositoryRuns, RepositoryThrows, RepositoryReturns, DeviceRestarts,
         BeginInit, Mount, OpenExisting, OpenCreates, Prepare, StepRow, StepDone, StepError,
         StalePage, SpoiltScan, InitThrows, OpenThrows, PrepareThrows, NullText, Finalize,
         Reboot, Crash
<1> QED
  BY <1>2, <1>3, <1>4, <1>5, <1>6 DEF SystemNext, TaskSteps

\* A task that is aborted and a connection that is reset have a cause.
LEMMA SystemCauseNext ==
  ASSUME SystemInv, RefinementInv', [SystemNext]_systemVars
  PROVE  SystemCauseInv'
<1>0. /\ SystemCauseInv
      /\ Cause => Cause'
  BY CauseStays DEF SystemInv
<1>1. ASSUME pc' = "aborted" PROVE Cause' /\ handler' \in {"idle", "thrown"}
  <2>1. CASE pc = "aborted"
    BY <1>0, <1>1, <2>1, AbortStays DEF SystemCauseInv
  <2>2. CASE pc # "aborted"
    BY <1>1, <2>2, ThrowsHaveCause
  <2> QED
    BY <2>1, <2>2
<1>2. ASSUME NEW c \in Clients, link'[c] = "reset" PROVE Cause'
  <2>1. CASE link[c] = "reset"
    BY <1>0, <2>1 DEF SystemCauseInv
  <2>2. CASE link[c] # "reset"
    <3>1. DeviceRestarts
      BY <1>2, <2>2, ConnectionsLost
    <3>2. CASE Reboot
      BY <1>0, <3>2 DEF Reboot, SystemCauseInv
    <3>3. CASE Crash
      <4>1. crashes' = crashes + 1 /\ crashes \in Nat
        BY <3>3, CauseStays DEF Crash
      <4> QED
        BY <4>1 DEF Cause
    <3> QED
      BY <3>1, <3>2, <3>3 DEF DeviceRestarts
  <2> QED
    BY <2>1, <2>2
<1> QED
  BY <1>1, <1>2 DEF SystemCauseInv

-----------------------------------------------------------------------------
(* The theorems.                                                           *)

\* The invariant is inductive.
LEMMA SystemNextInv == SystemInv /\ [SystemNext]_systemVars => SystemInv'
<1> SUFFICES ASSUME SystemInv, [SystemNext]_systemVars PROVE SystemInv'
  OBVIOUS
<1>1. RefinementInv'
  BY RepositoryInSystem
<1>2. Device!AppCore'
  BY <1>1, AppInSystem
<1>3. OneTask'
  BY OneTaskNext
<1>4. FailureInv' /\ SystemCauseInv'
  BY <1>1, FailureNext, SystemCauseNext
<1> QED
  BY <1>1, <1>2, <1>3, <1>4 DEF SystemInv

LEMMA SystemInvariant == SystemSpec => []SystemInv
BY SystemInitInv, SystemNextInv, PTL DEF SystemSpec

\* Type correctness of the device.
THEOREM SystemTypeCorrect == SystemSpec => []SystemTypeOK
<1>1. SystemInv => SystemTypeOK
  <2> SUFFICES ASSUME SystemInv PROVE SystemTypeOK
    OBVIOUS
  <2>1. TypeOK /\ Device!AppCore
    BY DEF SystemInv, RefinementInv, RepositoryInv
  <2>2. Device!AppTypeOK
    BY <2>1, Device!AppConsequences, DeviceAssumptions
  <2> QED
    BY <2>1, <2>2, SameProperties DEF SystemTypeOK
<1> QED
  BY <1>1, SystemInvariant, PTL

\* The repository and the program agree on where the task is, through exceptions
\* and through restarts at any point of either.
THEOREM TaskIsOne == SystemSpec => []OneTask
<1>1. SystemInv => OneTask
  BY DEF SystemInv
<1> QED
  BY <1>1, SystemInvariant, PTL

\* From the rows of the file, through a statement that is stepped while the card
\* comes and goes and through a handler that clients do not wait for, each client
\* gets the page of its own request, or the beginning of it, or one that a failed
\* read has spoilt.
THEOREM PagesReachTheirClients == SystemSpec => []OwnPages
<1>1. SystemInv => OwnPages
  <2> SUFFICES ASSUME SystemInv PROVE OwnPages
    OBVIOUS
  <2>1. Device!OwnResponse
    BY Device!AppConsequences, DeviceAssumptions DEF SystemInv
  <2> QED
    BY <2>1, SameProperties DEF OwnPages
<1> QED
  BY <1>1, SystemInvariant, PTL

\* No client whose handler was called finds its connection closed without a
\* response, unless the network was lost, although the server closes whatever the
\* handler has sent: part of EveryoneIsServed, without a card and without fairness.
THEOREM NobodyIsTurnedAway == SystemSpec => []App!ClosedIsAnswered
<1>1. SystemInv => App!ClosedIsAnswered
  <2> SUFFICES ASSUME SystemInv PROVE App!ClosedIsAnswered
    OBVIOUS
  <2>1. Device!ClosedIsAnswered
    BY Device!AppConsequences, DeviceAssumptions DEF SystemInv
  <2> QED
    BY <2>1, SameProperties
<1> QED
  BY <1>1, SystemInvariant, PTL

\* No connection is reset without a cause that is outside of the program, a
\* parameter that std::stoi refuses or a start text that spoils the SQL.
THEOREM RestartsAreCaused == SystemSpec => []RestartsHaveCauses
<1>1. SystemInv => RestartsHaveCauses
  <2> SUFFICES ASSUME SystemInv PROVE RestartsHaveCauses
    OBVIOUS
  <2>1. (\E c \in Clients : link[c] = "reset") => Cause
    BY DEF SystemInv, SystemCauseInv
  <2> QED
    BY <2>1, SameProperties DEF Cause, Failed, RestartsHaveCauses
<1> QED
  BY <1>1, SystemInvariant, PTL
=============================================================================
