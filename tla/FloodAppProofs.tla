--------------------------- MODULE FloodAppProofs ---------------------------
(***************************************************************************)
(* The safety properties of the device for any number of clients, any      *)
(* requests, and any restarts and losses of the network.                   *)
(***************************************************************************)
EXTENDS FloodApp, FloodRoutesProofs

-----------------------------------------------------------------------------
(* The inductive invariant.                                                *)

AppType ==
  /\ main \in Mains
  /\ wifi \in BOOLEAN
  /\ listening \in BOOLEAN
  /\ backlog \in Seq(Clients)
  /\ Len(backlog) <= MaxBacklog
  /\ current \in Clients \cup {None}
  /\ conn \in [Clients -> Conns]
  /\ arrived \subseteq Clients
  /\ handled \subseteq arrived
  /\ got \in [Clients -> Responses \cup {None}]
  /\ resets \in 0..MaxResets
  /\ drops \in 0..MaxDrops

\* The repository is up while loop() runs, and a handler works on the request of
\* the current client.
MainInv ==
  /\ main = "loop" <=> up
  /\ handler # "idle" => /\ current # None
                         /\ current \in handled
                         /\ request = RequestOf[current]

\* A connection waits in one place of the backlog, or is the current one.  One that
\* waits has been made, and its request has not been handled.
HeldInv ==
  /\ \A c \in Clients :
       conn[c] = "open" => c = current \/ \E k \in 1..Len(backlog) : backlog[k] = c
  /\ \A j, k \in 1..Len(backlog) : backlog[j] = backlog[k] => j = k
  /\ \A k \in 1..Len(backlog) : backlog[k] # current /\ conn[backlog[k]] # "none"
  /\ \A k \in 1..Len(backlog) : backlog[k] \notin handled
  /\ current # None => conn[current] # "none"
  /\ \A c \in arrived : conn[c] # "none"

GotInv == \A c \in Clients : got[c] # None => Proper(got[c], RequestOf[c])

\* A handler that has come to its end has sent its response.  Only a loss can take
\* the network away once setup() has found it.
SentInv ==
  /\ (main \in {"server", "init", "loop"} /\ ~wifi) => drops > 0
  /\ (handler \in {"idle", "done"} /\ current \in handled /\ conn[current] = "open") =>
       got[current] # None \/ drops > 0
  /\ ClosedIsAnswered

\* What holds whatever it is that throws.
AppCore == RoutesCore /\ AppType /\ MainInv /\ HeldInv /\ GotInv /\ SentInv

CauseInv ==
  (\E c \in Clients : conn[c] = "reset") =>
    throws > 0 \/ resets > 0 \/ \E d \in handled : MayThrow(RequestOf[d])

AppInv == AppCore /\ ThrownInv /\ CauseInv

LEMMA AppInitInv == AppInit => AppInv
<1> SUFFICES ASSUME AppInit PROVE AppInv
  OBVIOUS
<1>1. RoutesCore /\ ThrownInv
  BY RoutesInitInv DEF AppInit, RoutesInv
<1>2. AppType
  <2>1. <<>> \in Seq(Clients) /\ Len(<<>>) = 0
    OBVIOUS
  <2>2. 0 <= MaxBacklog /\ 0 \in 0..MaxResets /\ 0 \in 0..MaxDrops
    BY AppAssumption
  <2>3. /\ [c \in Clients |-> "none"] \in [Clients -> Conns]
        /\ [c \in Clients |-> None] \in [Clients -> Responses \cup {None}]
    BY DEF Conns
  <2>4. backlog \in Seq(Clients) /\ Len(backlog) <= MaxBacklog
    BY <2>1, <2>2, Zenon DEF AppInit
  <2>5. conn \in [Clients -> Conns] /\ got \in [Clients -> Responses \cup {None}]
    BY <2>3, Zenon DEF AppInit
  <2>6. resets \in 0..MaxResets /\ drops \in 0..MaxDrops
    BY <2>2, Zenon DEF AppInit
  <2>7. /\ main \in Mains /\ wifi \in BOOLEAN /\ listening \in BOOLEAN
        /\ current \in Clients \cup {None}
        /\ arrived \subseteq Clients /\ handled \subseteq arrived
    BY DEF AppInit, Mains
  <2> QED
    BY <2>4, <2>5, <2>6, <2>7 DEF AppType
<1>3. MainInv /\ HeldInv /\ GotInv /\ SentInv /\ CauseInv
  BY DEF AppInit, RoutesInit, StoreInit, MainInv, HeldInv, GotInv, SentInv,
         ClosedIsAnswered, CauseInv
<1> QED
  BY <1>1, <1>2, <1>3 DEF AppInv, AppCore

\* Steps that are not about connections.
Connections == <<listening, backlog, current, conn, arrived, handled>>

LEMMA ConnectionsStay ==
  ASSUME HeldInv, UNCHANGED Connections
  PROVE  HeldInv'
BY DEF HeldInv, Connections

\* Nothing is sent, and the network is as it was.
LEMMA SentStays ==
  ASSUME SentInv, UNCHANGED <<wifi, current, conn, handled, got, drops>>,
         handler' \in {"idle", "done"} => handler \in {"idle", "done"},
         main' = main \/ main' = "wifi" \/ wifi
                      \/ {main, main'} \subseteq {"server", "init", "loop"}
  PROVE  SentInv'
<1>1. UNCHANGED <<conn[current], got[current]>>
  OBVIOUS
<1>2. ClosedIsAnswered'
  BY DEF SentInv, ClosedIsAnswered
<1> QED
  BY <1>1, <1>2 DEF SentInv

-----------------------------------------------------------------------------
(* setup() and the server.                                                 *)

LEMMA SetupInv ==
  ASSUME AppCore, SetupSteps
  PROVE  AppCore'
<1>1. CASE PowerUp \/ Connected
  <2>0. /\ UNCHANGED storeVars
        /\ UNCHANGED <<handler, request, page, pagesize, response, throws>>
        /\ UNCHANGED <<wifi, listening, backlog, current, conn, arrived, handled, got>>
        /\ UNCHANGED <<resets, drops>>
        /\ sticky' \in {"starting", "address"}
        /\ main \in {"off", "wifi"} /\ main' \in {"wifi", "server"}
        /\ main' = "wifi" \/ wifi
    BY <1>1 DEF PowerUp, Connected, serverVars, clientVars
  <2>1. RoutesCore'
    <3>1. StoreInv'
      BY <2>0, StoreStays DEF AppCore, RoutesCore
    <3>2. RoutesType' /\ LocalsInv' /\ CallInv' /\ ResponseInv'
      BY <2>0 DEF AppCore, RoutesCore, RoutesType, LocalsInv, CallInv, ResponseInv,
                  Reading, Messages, storeVars
    <3> QED
      BY <3>1, <3>2 DEF RoutesCore
  <2>2. AppType' /\ MainInv' /\ GotInv'
    BY <2>0 DEF AppCore, AppType, MainInv, GotInv, Mains, storeVars
  <2>3. HeldInv'
    BY <2>0, ConnectionsStay DEF AppCore, Connections
  <2>4. SentInv'
    BY <2>0, SentStays DEF AppCore
  <2> QED
    BY <2>1, <2>2, <2>3, <2>4 DEF AppCore
<1>2. CASE StartServer
  <2>0. /\ UNCHANGED allVars
        /\ UNCHANGED <<wifi, backlog, current, conn, arrived, handled, got>>
        /\ UNCHANGED <<resets, drops>>
        /\ main = "server" /\ main' = "init" /\ listening' = TRUE
    BY <1>2 DEF StartServer, clientVars
  <2>1. RoutesCore'
    BY <2>0, RoutesStay DEF AppCore
  <2>2. AppType' /\ MainInv' /\ HeldInv' /\ GotInv'
    BY <2>0 DEF AppCore, AppType, MainInv, HeldInv, GotInv, Mains, allVars,
                storeVars, routeVars
  <2>3. SentInv'
    BY <2>0, SentStays DEF AppCore, allVars, routeVars
  <2> QED
    BY <2>1, <2>2, <2>3 DEF AppCore
<1>3. CASE InitReturns
  <2>0. /\ Open /\ UNCHANGED routeVars
        /\ UNCHANGED <<wifi, listening, backlog, current, conn, arrived, handled, got>>
        /\ UNCHANGED <<resets, drops>>
        /\ main = "init" /\ main' = "loop" /\ up' = TRUE
    BY <1>3 DEF InitReturns, serverVars, clientVars, Open
  <2>1. RoutesCore'
    BY <2>0, StoreStepsInv DEF AppCore, StoreOpens
  <2>2. AppType' /\ MainInv' /\ GotInv'
    BY <2>0 DEF AppCore, AppType, MainInv, GotInv, Mains, routeVars
  <2>3. HeldInv'
    BY <2>0, ConnectionsStay DEF AppCore, Connections
  <2>4. SentInv'
    BY <2>0, SentStays DEF AppCore, routeVars
  <2> QED
    BY <2>1, <2>2, <2>3, <2>4 DEF AppCore
<1> QED
  BY <1>1, <1>2, <1>3 DEF SetupSteps

LEMMA NoneHandled ==
  ASSUME AppType
  PROVE  None \notin handled
BY AppAssumption DEF AppType

LEMMA AcceptInv ==
  ASSUME AppCore, Accept
  PROVE  AppCore'
<1>0. /\ handler = "idle" /\ current = None /\ backlog # <<>>
      /\ current' = Head(backlog) /\ backlog' = Tail(backlog)
      /\ UNCHANGED allVars
      /\ UNCHANGED <<main, wifi, listening, conn, arrived, handled, got, resets, drops>>
  BY DEF Accept, Looping, clientVars
<1>1. backlog \in Seq(Clients) /\ Len(backlog) <= MaxBacklog /\ MaxBacklog \in Nat
  BY AppAssumption DEF AppCore, AppType
<1>2. /\ Len(backlog) \in Nat \ {0}
      /\ backlog' \in Seq(Clients) /\ Len(backlog') = Len(backlog) - 1
      /\ \A k \in 1..Len(backlog') : k + 1 \in 1..Len(backlog) /\ backlog'[k] = backlog[k + 1]
      /\ 1 \in 1..Len(backlog) /\ current' = backlog[1]
      /\ backlog[1] \in Clients
  BY <1>0, <1>1
<1>3. RoutesCore'
  BY <1>0, RoutesStay DEF AppCore
<1>4. AppType'
  BY <1>0, <1>1, <1>2 DEF AppCore, AppType
<1>5. MainInv' /\ GotInv'
  BY <1>0 DEF AppCore, MainInv, GotInv, allVars, storeVars, routeVars
<1>6. HeldInv'
  <2>1. ASSUME NEW c \in Clients, conn[c] = "open"
        PROVE  c = current' \/ \E k \in 1..Len(backlog') : backlog'[k] = c
    <3>1. c # None
      BY AppAssumption
    <3>2. PICK k \in 1..Len(backlog) : backlog[k] = c
      BY <1>0, <2>1, <3>1 DEF AppCore, HeldInv
    <3>3. CASE k = 1
      BY <1>2, <3>2, <3>3
    <3>4. CASE k # 1
      <4>1. k - 1 \in 1..Len(backlog') /\ (k - 1) + 1 = k
        BY <1>2, <3>4
      <4> QED
        BY <1>2, <3>2, <4>1
    <3> QED
      BY <3>3, <3>4
  <2>2. ASSUME NEW k \in 1..Len(backlog')
        PROVE  /\ backlog'[k] # current' /\ conn[backlog'[k]] # "none"
               /\ backlog'[k] \notin handled
               /\ \A j \in 1..Len(backlog') : backlog'[j] = backlog'[k] => j = k
    <3>1. k + 1 # 1 /\ k \in Int
      BY <1>2
    <3>2. backlog'[k] # current'
      BY <1>2, <3>1 DEF AppCore, HeldInv
    <3>3. conn[backlog'[k]] # "none" /\ backlog'[k] \notin handled
      BY <1>2 DEF AppCore, HeldInv
    <3>4. ASSUME NEW j \in 1..Len(backlog'), backlog'[j] = backlog'[k] PROVE j = k
      <4>1. j + 1 = k + 1
        BY <1>2, <3>4 DEF AppCore, HeldInv
      <4> QED
        BY <3>1, <4>1
    <3> QED
      BY <3>2, <3>3, <3>4
  <2>3. conn[current'] # "none"
    BY <1>2 DEF AppCore, HeldInv
  <2> QED
    BY <1>0, <2>1, <2>2, <2>3 DEF AppCore, HeldInv
<1>7. SentInv'
  <2>1. current' \notin handled
    BY <1>2 DEF AppCore, HeldInv
  <2> QED
    BY <1>0, <2>1 DEF AppCore, SentInv, ClosedIsAnswered
<1> QED
  BY <1>3, <1>4, <1>5, <1>6, <1>7 DEF AppCore

LEMMA HandleRequestInv ==
  ASSUME AppCore, HandleRequest
  PROVE  AppCore'
<1>0. /\ main = "loop" /\ current \in arrived /\ conn[current] # "closed"
      /\ Dispatch(RequestOf[current])
      /\ handled' = handled \cup {current}
      /\ UNCHANGED <<main, wifi, listening, backlog, current, conn, arrived, got>>
      /\ UNCHANGED <<resets, drops>>
  BY DEF HandleRequest, Looping, serverVars
<1>1. RequestOf[current] \in Requests /\ up /\ current # None
  BY <1>0, AppAssumption DEF AppCore, AppType, MainInv
<1>2. RoutesCore'
  BY <1>0, <1>1, DispatchInv DEF AppCore
<1>3. AppType' /\ MainInv' /\ GotInv'
  BY <1>0, <1>1 DEF AppCore, AppType, MainInv, GotInv, Dispatch, storeVars
<1>4. HeldInv'
  BY <1>0 DEF AppCore, HeldInv
<1>5. SentInv'
  BY <1>0 DEF AppCore, SentInv, ClosedIsAnswered, Dispatch, Goto
<1> QED
  BY <1>2, <1>3, <1>4, <1>5 DEF AppCore

\* A handler goes on with its request until it is done.
LEMMA HandlerKeeps ==
  ASSUME HandlerSteps
  PROVE  /\ handler # "idle" /\ up' = up /\ throws' = throws
         /\ handler' # "idle" => request' = request
BY DEF HandlerSteps, QuietSteps, CallRiver, CallRainfall, SendNotFound, ReadPage,
       ReadPagesize, StoiFails, Query, TakeAnswer, StatementThrows, ThrownThrough, SendPage,
       Done, Goto, Ask, AnswerQuery, storeVars

\* It is over when it has sent its response.
LEMMA QuietEnds ==
  ASSUME QuietSteps, handler' \in {"idle", "done"}
  PROVE  handler \in {"idle", "done"}
BY DEF QuietSteps, CallRiver, CallRainfall, ReadPage, ReadPagesize, StoiFails, Query,
       TakeAnswer, StatementThrows, ThrownThrough, Done, Goto

\* Steps of the handlers that send nothing, and whatever else does not touch the
\* connections or a request.
LEMMA BehindServerInv ==
  ASSUME AppCore, RoutesCore', UNCHANGED appVars, up' = up,
         handler' # "idle" => handler # "idle" /\ request' = request,
         handler' \in {"idle", "done"} => handler \in {"idle", "done"}
  PROVE  AppCore'
<1>0. /\ UNCHANGED <<main, wifi, listening, backlog, current, conn, arrived, handled>>
      /\ UNCHANGED <<got, resets, drops>>
  BY DEF appVars, serverVars, clientVars
<1>1. AppType' /\ MainInv' /\ GotInv'
  BY <1>0 DEF AppCore, AppType, MainInv, GotInv
<1>2. HeldInv'
  BY <1>0, ConnectionsStay DEF AppCore, Connections
<1>3. SentInv'
  BY <1>0, SentStays DEF AppCore
<1> QED
  BY <1>1, <1>2, <1>3 DEF AppCore

LEMMA HandlerRunsInv ==
  ASSUME AppCore, QuietSteps, UNCHANGED appVars
  PROVE  AppCore'
<1>1. HandlerSteps
  BY DEF HandlerSteps
<1>2. RoutesCore'
  BY <1>1, HandlerStepsInv DEF AppCore
<1> QED
  BY <1>1, <1>2, HandlerKeeps, QuietEnds, BehindServerInv

\* The client that gets a response is the one whose request is handled.
LEMMA HandlerSendsInv ==
  ASSUME AppCore, HandlerSends
  PROVE  AppCore'
<1>0. /\ SendNotFound \/ SendPage
      /\ got' = IF conn[current] = "open" /\ wifi
                  THEN [got EXCEPT ![current] = response'] ELSE got
      /\ UNCHANGED <<main, wifi, listening, backlog, current, conn, arrived, handled>>
      /\ UNCHANGED <<resets, drops>>
  BY DEF HandlerSends, serverVars
<1>1. HandlerSteps
  BY <1>0 DEF HandlerSteps
<1>2. RoutesCore'
  BY <1>1, HandlerStepsInv DEF AppCore
<1>3. /\ current \in Clients /\ request = RequestOf[current]
      /\ handler' = "done" /\ request' = request
  BY <1>0, <1>1, HandlerKeeps DEF AppCore, AppType, MainInv, SendNotFound, SendPage, Goto
<1>4. main = "loop"
  BY <1>1, HandlerKeeps DEF AppCore, RoutesCore, CallInv, MainInv
<1>5. /\ response' \in Responses \cup {None} /\ response' # None
      /\ Proper(response', RequestOf[current])
  <2>1. response' \in Responses
    <3>1. CASE SendNotFound
      BY <3>1 DEF SendNotFound, Responses
    <3>2. CASE SendPage
      BY <3>2, SendsPage DEF AppCore, SendPage
    <3> QED
      BY <1>0, <3>1, <3>2
  <2> QED
    BY <1>2, <1>3, <2>1, ResponsesAssumption DEF RoutesCore, ResponseInv
<1>6. AppType'
  BY <1>0, <1>5 DEF AppCore, AppType
<1>7. GotInv'
  <2> SUFFICES ASSUME NEW c \in Clients, got'[c] # None
               PROVE  Proper(got'[c], RequestOf[c])
    BY DEF GotInv
  <2>1. got'[c] = got[c] \/ (c = current /\ got'[c] = response')
    BY <1>0 DEF AppCore, AppType
  <2> QED
    BY <1>5, <2>1 DEF AppCore, GotInv
<1>8. MainInv'
  BY <1>0, <1>1, HandlerKeeps DEF AppCore, MainInv
<1>9. HeldInv'
  BY <1>0, ConnectionsStay DEF AppCore, Connections
<1>10. SentInv'
  <2>1. got \in [Clients -> Responses \cup {None}]
    BY DEF AppCore, AppType
  <2>2. ASSUME conn[current] = "open" PROVE got'[current] # None \/ drops > 0
    <3>1. CASE wifi
      BY <1>0, <1>3, <1>5, <2>1, <2>2, <3>1
    <3>2. CASE ~wifi
      BY <1>4, <3>2 DEF AppCore, SentInv
    <3> QED
      BY <3>1, <3>2
  <2>3. ASSUME NEW c \in handled, conn[c] = "closed"
        PROVE  got'[c] # None \/ drops > 0
    <3>1. got'[c] = got[c]
      BY <1>0, <2>1, <2>3
    <3> QED
      BY <2>3, <3>1 DEF AppCore, SentInv, ClosedIsAnswered
  <2> QED
    BY <1>0, <1>3, <2>2, <2>3 DEF AppCore, SentInv, ClosedIsAnswered
<1> QED
  BY <1>2, <1>6, <1>7, <1>8, <1>9, <1>10 DEF AppCore

LEMMA CloseConnectionInv ==
  ASSUME AppCore, CloseConnection
  PROVE  AppCore'
<1>0. /\ handler = "idle" /\ current # None
      /\ conn' = [conn EXCEPT ![current] = IF @ = "open" THEN "closed" ELSE @]
      /\ current' = None /\ response' = None
      /\ UNCHANGED storeVars
      /\ UNCHANGED <<handler, request, page, pagesize, sticky, throws>>
      /\ UNCHANGED <<main, wifi, listening, backlog, arrived, handled, got>>
      /\ UNCHANGED <<resets, drops>>
  BY DEF CloseConnection, Looping
<1>1. RoutesCore'
  <2>1. StoreInv'
    BY <1>0, StoreStays DEF AppCore, RoutesCore
  <2>2. RoutesType' /\ LocalsInv' /\ CallInv' /\ ResponseInv'
    BY <1>0 DEF AppCore, RoutesCore, RoutesType, LocalsInv, CallInv, ResponseInv,
                Reading, storeVars
  <2> QED
    BY <2>1, <2>2 DEF RoutesCore
<1>2. /\ current \in Clients /\ conn \in [Clients -> Conns]
      /\ backlog \in Seq(Clients) /\ current' = None
      /\ \A k \in 1..Len(backlog) : backlog[k] \in Clients
  BY <1>0 DEF AppCore, AppType
<1>3. /\ conn'[current] \in Conns
      /\ conn'[current] # "open" /\ (conn'[current] = "reset" => conn[current] = "reset")
      /\ \A c \in Clients : c # current => conn'[c] = conn[c]
  BY <1>0, <1>2 DEF Conns
<1>4. AppType'
  BY <1>0, <1>2, <1>3 DEF AppCore, AppType
<1>5. MainInv' /\ GotInv'
  BY <1>0, <1>3 DEF AppCore, MainInv, GotInv, storeVars
<1>6. HeldInv'
  BY <1>0, <1>2, <1>3, AppAssumption DEF AppCore, HeldInv
<1>7. SentInv'
  <2>1. ASSUME NEW c \in handled, conn'[c] = "closed"
        PROVE  got[c] # None \/ drops > 0
    <3>0. c \in Clients
      BY DEF AppCore, AppType
    <3>1. CASE conn[c] = "closed"
      BY <2>1, <3>1 DEF AppCore, SentInv, ClosedIsAnswered
    <3>2. CASE conn[c] # "closed"
      <4>1. c = current /\ conn[current] = "open"
        BY <1>0, <1>2, <1>3, <2>1, <3>0, <3>2
      <4> QED
        BY <1>0, <2>1, <4>1 DEF AppCore, SentInv
    <3> QED
      BY <3>1, <3>2
  <2> QED
    BY <1>0, <1>2, <2>1, NoneHandled DEF AppCore, SentInv, ClosedIsAnswered
<1> QED
  BY <1>1, <1>4, <1>5, <1>6, <1>7 DEF AppCore

-----------------------------------------------------------------------------
(* Failures, restarts, the network and the clients.                        *)

LEMMA ThrownThroughCore ==
  ASSUME AppCore, ThrownThrough, UNCHANGED appVars, throws' \in 0..MaxThrows
  PROVE  AppCore'
<1>1. RoutesCore'
  BY ThrownThroughInv DEF AppCore
<1>2. handler # "idle" /\ handler' = "thrown" /\ up' = up /\ request' = request
  BY DEF ThrownThrough, storeVars
<1> QED
  BY <1>1, <1>2, BehindServerInv

\* The store works for a handler, or opens, and neither sees more of it.
LEMMA StoreMovesInv ==
  ASSUME AppCore, StoreInv', UNCHANGED <<up, job, answer>>,
         handler # "idle" => known' = known,
         UNCHANGED routeVars, UNCHANGED appVars
  PROVE  AppCore'
<1>0. UNCHANGED <<handler, request, page, pagesize, response, sticky, throws>>
  BY DEF routeVars
<1>1. RoutesType' /\ LocalsInv' /\ CallInv' /\ ResponseInv'
  BY <1>0 DEF AppCore, RoutesCore, RoutesType, LocalsInv, CallInv, ResponseInv, Reading
<1>2. RoutesCore'
  BY <1>1 DEF RoutesCore
<1> QED
  BY <1>0, <1>2, BehindServerInv

LEMMA FailuresInv ==
  ASSUME AppCore, StoreFailsHere \/ ThrowsHere
  PROVE  AppCore'
<1>1. CASE StoreFailsHere
  <2>1. StoreInv'
    BY <1>1, FailInv DEF StoreFailsHere, StoreFails, AppCore, RoutesCore
  <2>2. UNCHANGED <<up, known, job, answer>> /\ UNCHANGED routeVars /\ UNCHANGED appVars
    BY <1>1 DEF StoreFailsHere, StoreFails, Cut, Spoil
  <2> QED
    BY <2>1, <2>2, StoreMovesInv
<1>2. CASE ThrowsHere
  <2>1. ThrownThrough /\ UNCHANGED appVars
    BY <1>2 DEF ThrowsHere, Throws
  <2>2. throws' \in 0..MaxThrows
    BY <1>2, RequestsAssumption DEF ThrowsHere, Throws, AppCore, RoutesCore, RoutesType
  <2> QED
    BY <2>1, <2>2, ThrownThroughCore
<1> QED
  BY <1>1, <1>2

LEMMA RestartCore ==
  ASSUME AppCore, Restart, resets' \in 0..MaxResets
  PROVE  AppCore'
<1>0. /\ RoutesRestart /\ up' = FALSE /\ handler' = "idle" /\ response' = None
      /\ main' = "off" /\ wifi' = FALSE /\ listening' = FALSE
      /\ backlog' = <<>> /\ current' = None
      /\ conn' = [c \in Clients |-> IF conn[c] = "open" THEN "reset" ELSE conn[c]]
      /\ UNCHANGED <<arrived, handled, got, drops>>
  BY DEF Restart, RoutesRestart, Lose
<1>1. RoutesCore'
  BY <1>0, RestartInv DEF AppCore
<1>2. AppType'
  <2>1. <<>> \in Seq(Clients) /\ Len(<<>>) = 0
    OBVIOUS
  <2>2. 0 <= MaxBacklog
    BY AppAssumption
  <2>3. backlog' \in Seq(Clients) /\ Len(backlog') <= MaxBacklog
    BY <1>0, <2>1, <2>2, Zenon
  <2>4. conn' \in [Clients -> Conns]
    BY <1>0 DEF AppCore, AppType, Conns
  <2>5. /\ main' \in Mains /\ wifi' \in BOOLEAN /\ listening' \in BOOLEAN
        /\ current' \in Clients \cup {None}
    BY <1>0 DEF Mains
  <2>6. /\ arrived' \subseteq Clients /\ handled' \subseteq arrived'
        /\ got' \in [Clients -> Responses \cup {None}]
        /\ drops' \in 0..MaxDrops
    BY <1>0, Zenon DEF AppCore, AppType
  <2> QED
    BY <2>3, <2>4, <2>5, <2>6 DEF AppType
<1>3. MainInv' /\ GotInv'
  BY <1>0 DEF AppCore, MainInv, GotInv
<1>4. HeldInv'
  BY <1>0 DEF AppCore, AppType, HeldInv
<1>5. SentInv'
  BY <1>0, NoneHandled DEF AppCore, AppType, SentInv, ClosedIsAnswered
<1> QED
  BY <1>1, <1>2, <1>3, <1>4, <1>5 DEF AppCore

LEMMA RestartsInv ==
  ASSUME AppCore, RestartAfterThrow \/ Reset
  PROVE  AppCore'
<1>1. resets' \in 0..MaxResets
  BY AppAssumption DEF RestartAfterThrow, Reset, AppCore, AppType
<1> QED
  BY <1>1, RestartCore DEF RestartAfterThrow, Reset

LEMMA NetworkInv ==
  ASSUME AppCore, WifiUp \/ WifiDown
  PROVE  AppCore'
<1>0. /\ UNCHANGED allVars
      /\ UNCHANGED <<main, listening, backlog, current, conn, arrived, handled, got, resets>>
      /\ wifi' \in BOOLEAN /\ drops' \in 0..MaxDrops
      /\ (wifi' /\ drops' = drops) \/ drops' > 0
  <2>1. drops \in 0..MaxDrops /\ MaxDrops \in Nat
    BY AppAssumption DEF AppCore, AppType
  <2>2. CASE WifiUp
    BY <2>1, <2>2 DEF WifiUp, serverVars, clientVars
  <2>3. CASE WifiDown
    <3>1. drops' \in 0..MaxDrops /\ drops' > 0
      BY <2>1, <2>3 DEF WifiDown
    <3>2. wifi' = FALSE /\ UNCHANGED allVars
      BY <2>3, Zenon DEF WifiDown
    <3>3. UNCHANGED <<main, listening, backlog, current, conn, arrived, handled, got, resets>>
      BY <2>3 DEF WifiDown, serverVars, clientVars
    <3> QED
      BY <3>1, <3>2, <3>3
  <2> QED
    BY <2>2, <2>3
<1>1. RoutesCore'
  BY <1>0, RoutesStay DEF AppCore
<1>2. AppType' /\ MainInv' /\ GotInv'
  BY <1>0 DEF AppCore, AppType, MainInv, GotInv, allVars, storeVars, routeVars
<1>3. HeldInv'
  BY <1>0, ConnectionsStay DEF AppCore, Connections
<1>4. SentInv'
  <2>1. handler' = handler
    BY <1>0 DEF allVars, routeVars
  <2>2. CASE wifi' /\ drops' = drops
    BY <1>0, <2>1, <2>2 DEF AppCore, SentInv, ClosedIsAnswered
  <2>3. CASE drops' > 0
    BY <1>0, <2>1, <2>3 DEF AppCore, SentInv, ClosedIsAnswered
  <2> QED
    BY <1>0, <2>2, <2>3
<1> QED
  BY <1>1, <1>2, <1>3, <1>4 DEF AppCore

LEMMA ConnectInv ==
  ASSUME AppCore, NEW c \in Clients, Connect(c)
  PROVE  AppCore'
<1>0. /\ conn[c] = "none" /\ Len(backlog) < MaxBacklog
      /\ backlog' = Append(backlog, c)
      /\ conn' = [conn EXCEPT ![c] = "open"]
      /\ UNCHANGED allVars
      /\ UNCHANGED <<main, wifi, listening, current, arrived, handled, got>>
      /\ UNCHANGED <<resets, drops>>
  BY DEF Connect
<1>1. /\ backlog \in Seq(Clients) /\ MaxBacklog \in Nat /\ conn \in [Clients -> Conns]
      /\ Len(backlog) \in Nat
  BY AppAssumption DEF AppCore, AppType
<1>2. /\ backlog' \in Seq(Clients) /\ Len(backlog') = Len(backlog) + 1
      /\ \A k \in 1..Len(backlog) : backlog'[k] = backlog[k] /\ backlog[k] \in Clients
      /\ backlog'[Len(backlog) + 1] = c
  BY <1>0, <1>1
<1>3. /\ conn' \in [Clients -> Conns] /\ conn'[c] = "open"
      /\ \A d \in Clients : d # c => conn'[d] = conn[d]
  BY <1>0, <1>1 DEF Conns
<1>4. RoutesCore'
  BY <1>0, RoutesStay DEF AppCore
<1>5. AppType'
  <2>1. Len(backlog') <= MaxBacklog
    BY <1>0, <1>1, <1>2
  <2> QED
    BY <1>0, <1>2, <1>3, <2>1 DEF AppCore, AppType
<1>6. MainInv' /\ GotInv'
  BY <1>0, <1>3 DEF AppCore, MainInv, GotInv, allVars, storeVars, routeVars
<1>7. HeldInv'
  <2>1. /\ c # current
        /\ \A k \in 1..Len(backlog) : backlog[k] # c
    BY <1>0, AppAssumption DEF AppCore, HeldInv
  <2>2. \A k \in 1..Len(backlog') : k \in 1..Len(backlog) \/ k = Len(backlog) + 1
    BY <1>1, <1>2
  <2>3. \A k \in 1..Len(backlog) : k \in 1..Len(backlog')
    BY <1>1, <1>2
  <2>4. Len(backlog) + 1 \in 1..Len(backlog')
    BY <1>1, <1>2
  <2>5. ASSUME NEW d \in Clients, conn'[d] = "open"
        PROVE  d = current' \/ \E k \in 1..Len(backlog') : backlog'[k] = d
    BY <1>0, <1>2, <1>3, <2>3, <2>4, <2>5 DEF AppCore, HeldInv
  <2>6. \A j, k \in 1..Len(backlog') : backlog'[j] = backlog'[k] => j = k
    BY <1>2, <2>1, <2>2 DEF AppCore, HeldInv
  <2>7. \A k \in 1..Len(backlog') : backlog'[k] # current' /\ conn'[backlog'[k]] # "none"
    BY <1>0, <1>2, <1>3, <2>1, <2>2 DEF AppCore, HeldInv
  <2>8. \A k \in 1..Len(backlog') : backlog'[k] \notin handled'
    <3>1. c \notin handled
      BY <1>0 DEF AppCore, HeldInv, AppType
    <3> QED
      BY <1>0, <1>2, <2>2, <3>1 DEF AppCore, HeldInv
  <2>9. \A d \in arrived' : conn'[d] # "none"
    BY <1>0, <1>3 DEF AppCore, HeldInv, AppType
  <2>10. current' # None => conn'[current'] # "none"
    BY <1>0, <1>3, <2>1 DEF AppCore, HeldInv, AppType
  <2> QED
    BY <2>5, <2>6, <2>7, <2>8, <2>9, <2>10 DEF HeldInv
<1>8. SentInv'
  <2>1. handler' = handler
    BY <1>0 DEF allVars, routeVars
  <2>2. c \notin handled /\ handled \subseteq Clients
    BY <1>0 DEF AppCore, AppType, HeldInv
  <2> QED
    BY <1>0, <1>3, <2>1, <2>2 DEF AppCore, SentInv, ClosedIsAnswered
<1> QED
  BY <1>4, <1>5, <1>6, <1>7, <1>8 DEF AppCore

LEMMA ArriveInv ==
  ASSUME AppCore, NEW c \in Clients, Arrive(c)
  PROVE  AppCore'
<1>0. /\ arrived' = arrived \cup {c} /\ conn[c] = "open"
      /\ UNCHANGED allVars
      /\ UNCHANGED <<main, wifi, listening, backlog, current, conn, handled, got>>
      /\ UNCHANGED <<resets, drops>>
  BY DEF Arrive, serverVars
<1>1. RoutesCore'
  BY <1>0, RoutesStay DEF AppCore
<1>2. AppType' /\ MainInv' /\ HeldInv' /\ GotInv'
  BY <1>0 DEF AppCore, AppType, MainInv, HeldInv, GotInv, allVars, storeVars,
              routeVars
<1>3. SentInv'
  BY <1>0 DEF AppCore, SentInv, ClosedIsAnswered, allVars, routeVars
<1> QED
  BY <1>1, <1>2, <1>3 DEF AppCore

LEMMA GiveUpInv ==
  ASSUME AppCore, NEW c \in Clients, GiveUp(c)
  PROVE  AppCore'
<1>0. /\ conn' = [conn EXCEPT ![c] = "gone"]
      /\ UNCHANGED allVars
      /\ UNCHANGED <<main, wifi, listening, backlog, current, arrived, handled, got>>
      /\ UNCHANGED <<resets, drops>>
  BY DEF GiveUp, serverVars
<1>1. RoutesCore'
  BY <1>0, RoutesStay DEF AppCore
<1>2. /\ conn' \in [Clients -> Conns] /\ conn'[c] = "gone"
      /\ \A d \in Clients : d # c => conn'[d] = conn[d]
      /\ \A k \in 1..Len(backlog) : backlog[k] \in Clients
  BY <1>0 DEF AppCore, AppType, Conns
<1>3. AppType' /\ MainInv' /\ GotInv'
  BY <1>0, <1>2 DEF AppCore, AppType, MainInv, GotInv, allVars, storeVars, routeVars
<1>4. HeldInv'
  BY <1>0, <1>2 DEF AppCore, AppType, HeldInv
<1>5. SentInv'
  <2>1. handler' = handler
    BY <1>0 DEF allVars, routeVars
  <2>2. handled \subseteq Clients
    BY DEF AppCore, AppType
  <2> QED
    BY <1>0, <1>2, <2>1, <2>2 DEF AppCore, SentInv, ClosedIsAnswered
<1> QED
  BY <1>1, <1>3, <1>4, <1>5 DEF AppCore

LEMMA ClientsInv ==
  ASSUME AppCore, ClientSteps
  PROVE  AppCore'
BY ConnectInv, ArriveInv, GiveUpInv DEF ClientSteps

LEMMA AppStays ==
  ASSUME AppCore, UNCHANGED everything
  PROVE  AppCore'
<1>0. /\ UNCHANGED allVars
      /\ UNCHANGED <<main, wifi, listening, backlog, current, conn, arrived, handled, got>>
      /\ UNCHANGED <<resets, drops>>
  BY DEF everything, appVars, serverVars, clientVars
<1>1. RoutesCore'
  BY <1>0, RoutesStay DEF AppCore
<1>2. AppType' /\ MainInv' /\ GotInv'
  BY <1>0 DEF AppCore, AppType, MainInv, GotInv, allVars, storeVars, routeVars
<1>3. HeldInv'
  BY <1>0, ConnectionsStay DEF AppCore, Connections
<1>4. SentInv'
  BY <1>0, SentStays DEF AppCore, allVars, routeVars
<1> QED
  BY <1>1, <1>2, <1>3, <1>4 DEF AppCore

LEMMA AppNextCore ==
  ASSUME AppCore, [AppNext]_everything
  PROVE  AppCore'
<1>1. CASE HandlerRuns
  BY <1>1, HandlerRunsInv DEF HandlerRuns
<1>2. CASE Idle \/ UNCHANGED everything
  BY <1>2, AppStays DEF Idle
<1>3. CASE LoopSteps /\ ~HandlerRuns /\ ~Idle
  BY <1>3, AcceptInv, HandleRequestInv, HandlerSendsInv, CloseConnectionInv DEF LoopSteps
<1> QED
  BY <1>1, <1>2, <1>3, SetupInv, FailuresInv, RestartsInv, NetworkInv, ClientsInv
     DEF AppNext, LoopSteps

-----------------------------------------------------------------------------
(* What throws and what resets connections.                                *)

\* Steps that are not about the handlers or the causes of a reset.
Calm == UNCHANGED <<handler, request, throws, resets, handled>>

LEMMA CalmSteps ==
  ASSUME SetupSteps \/ Accept \/ CloseConnection \/ StoreFailsHere \/ WifiUp \/ WifiDown
           \/ ClientSteps
  PROVE  /\ Calm
         /\ conn \in [Clients -> Conns] =>
              \A c \in Clients : conn'[c] = "reset" => conn[c] = "reset"
<1>1. CASE SetupSteps \/ Accept \/ StoreFailsHere \/ WifiUp \/ WifiDown
  BY <1>1 DEF SetupSteps, PowerUp, Connected, StartServer, InitReturns, Accept, WifiUp,
              WifiDown, StoreFailsHere, StoreFails, appVars, serverVars, clientVars,
              allVars, routeVars, Calm
<1>2. CASE CloseConnection
  BY <1>2 DEF CloseConnection, Calm
<1>3. CASE ClientSteps
  BY <1>3 DEF ClientSteps, Connect, Arrive, GiveUp, Calm, serverVars, allVars, routeVars
<1> QED
  BY <1>1, <1>2, <1>3

LEMMA ThrownNext ==
  ASSUME AppCore, ThrownInv, [AppNext]_everything
  PROVE  ThrownInv'
<1>1. CASE SetupSteps \/ Accept \/ CloseConnection \/ StoreFailsHere \/ WifiUp \/ WifiDown
             \/ ClientSteps
  BY <1>1, CalmSteps, ThrownKept DEF Calm, AppCore
<1>2. CASE HandleRequest
  <2>1. RequestOf[current] \in Requests /\ Dispatch(RequestOf[current])
    BY <1>2, AppAssumption DEF HandleRequest, AppCore, AppType
  <2> QED
    BY <2>1, ThrownKept DEF AppCore
<1>3. CASE HandlerRuns \/ HandlerSends \/ ThrowsHere \/ RestartAfterThrow \/ Reset
  <2>1. HandlerSteps \/ Throws \/ RoutesRestart
    BY <1>3 DEF HandlerRuns, HandlerSends, HandlerSteps, QuietSteps, ThrowsHere,
                RestartAfterThrow, Reset, Restart
  <2> QED
    BY <2>1, ThrownKept DEF AppCore
<1>4. CASE Idle \/ UNCHANGED everything
  <2>1. UNCHANGED <<handler, request, throws>>
    BY <1>4 DEF Idle, everything, allVars, routeVars
  <2> QED
    BY <2>1, ThrownKept DEF AppCore
<1> QED
  BY <1>1, <1>2, <1>3, <1>4 DEF AppNext, LoopSteps

LEMMA CauseNext ==
  ASSUME AppCore, AppCore', ThrownInv, CauseInv, [AppNext]_everything
  PROVE  CauseInv'
<1>0. /\ throws \in Nat /\ throws' \in Nat /\ resets \in Nat /\ resets' \in Nat
      /\ conn \in [Clients -> Conns] /\ current \in Clients \cup {None}
  BY DEF AppCore, RoutesCore, RoutesType, AppType
<1>1. CASE SetupSteps \/ Accept \/ CloseConnection \/ StoreFailsHere \/ WifiUp \/ WifiDown
             \/ ClientSteps
  BY <1>0, <1>1, CalmSteps DEF Calm, CauseInv
<1>2. CASE HandleRequest \/ HandlerRuns \/ HandlerSends \/ ThrowsHere
             \/ Idle \/ UNCHANGED everything
  <2>1. UNCHANGED <<conn, resets>> /\ handled \subseteq handled'
    BY <1>2 DEF HandleRequest, HandlerRuns, HandlerSends, ThrowsHere, Idle, everything,
                appVars, clientVars
  <2>2. throws' = throws \/ throws' = throws + 1
    BY <1>2 DEF HandleRequest, Dispatch, HandlerRuns, HandlerSends, QuietSteps, CallRiver,
                CallRainfall, SendNotFound, ReadPage, ReadPagesize, StoiFails, Query,
                TakeAnswer, StatementThrows, SendPage, Done, ThrowsHere, Throws, Idle,
                everything, allVars, routeVars
  <2> QED
    BY <1>0, <2>1, <2>2 DEF CauseInv
<1>3. CASE RestartAfterThrow
  <2>1. throws > 0 \/ (current \in handled /\ MayThrow(RequestOf[current]))
    BY <1>3 DEF RestartAfterThrow, AppCore, ThrownInv, MainInv
  <2>2. throws' = throws /\ handled' = handled
    BY <1>3 DEF RestartAfterThrow, Restart, RoutesRestart
  <2> QED
    BY <2>1, <2>2 DEF CauseInv
<1>4. CASE Reset
  BY <1>0, <1>4 DEF Reset, CauseInv
<1> QED
  BY <1>1, <1>2, <1>3, <1>4 DEF AppNext, LoopSteps

LEMMA AppNextInv == AppInv /\ [AppNext]_everything => AppInv'
BY AppNextCore, ThrownNext, CauseNext DEF AppInv

LEMMA AppInvariant == AppSpec => []AppInv
BY AppInitInv, AppNextInv, PTL DEF AppSpec

-----------------------------------------------------------------------------
(* The theorems.                                                           *)

LEMMA AppConsequences ==
  ASSUME AppCore
  PROVE  AppTypeOK /\ OwnResponse /\ OpenIsKnown /\ HandledAfterSetup /\ ClosedIsAnswered
<1>1. AppTypeOK
  BY RoutesConsequences DEF AppCore, AppType, AppTypeOK
<1>2. OwnResponse
  BY DEF AppCore, GotInv, Proper, OwnResponse
<1>3. OpenIsKnown
  <2>1. backlog \in Seq(Clients) /\ DOMAIN backlog = 1..Len(backlog)
    BY DEF AppCore, AppType
  <2> QED
    BY <2>1, AppAssumption DEF AppCore, HeldInv, OpenIsKnown, Range, IsInjective
<1>4. HandledAfterSetup
  BY DEF AppCore, RoutesCore, CallInv, MainInv, HandledAfterSetup
<1>5. ClosedIsAnswered
  BY DEF AppCore, SentInv
<1> QED
  BY <1>1, <1>2, <1>3, <1>4, <1>5

\* Type correctness.
THEOREM AppTypeCorrect == AppSpec => []AppTypeOK
BY AppInvariant, AppConsequences, PTL DEF AppInv

\* However long handlers run, and whoever connects, gives up or is reset
\* meanwhile, no client receives what belongs to the request of another.
THEOREM ResponsesReachTheirClients == AppSpec => []OwnResponse
BY AppInvariant, AppConsequences, PTL DEF AppInv

\* No open connection falls out of the server's sight.
THEOREM OpenConnectionsKnown == AppSpec => []OpenIsKnown
BY AppInvariant, AppConsequences, PTL DEF AppInv

\* No handler runs before setup() has returned, although the server listens.
THEOREM SetupComesFirst == AppSpec => []HandledAfterSetup
BY AppInvariant, AppConsequences, PTL DEF AppInv

\* The server closes a connection when the handler has returned, without a look at
\* what was sent; yet no client whose handler was called finds its connection closed
\* without a response.
THEOREM ClosedWereAnswered == AppSpec => []ClosedIsAnswered
BY AppInvariant, AppConsequences, PTL DEF AppInv

\* Connections are not reset without a failure, a parameter that std::stoi refuses or
\* a start text that spoils the SQL.
THEOREM ResetsAreCaused == AppSpec => []ResetsHaveCauses
<1>1. AppInv => ResetsHaveCauses
  BY DEF AppInv, CauseInv, ResetsHaveCauses
<1> QED
  BY <1>1, AppInvariant, PTL
=============================================================================
