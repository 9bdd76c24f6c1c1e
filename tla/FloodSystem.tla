---------------------------- MODULE FloodSystem ----------------------------
(***************************************************************************)
(* The device as it is built: the application of FloodApp over the         *)
(* step-by-step repository of FloodRepository instead of its abstract      *)
(* store, with the card, the network and the clients around it.            *)
(*                                                                         *)
(* There is one task.  It is in the repository from the call of init() or  *)
(* of a query to its return or its exception, and each of these is one     *)
(* step of the repository and the step of the application that belongs to  *)
(* it.  An exception from anywhere leaves the repository and the handler   *)
(* as they are until abort() restarts the device.                          *)
(***************************************************************************)
EXTENDS FloodRepository

CONSTANTS Absent, NotNumber, Requests, Clients, RequestOf, MaxBacklog, MaxDrops

VARIABLES
  handler, request, page, pagesize, response, sticky,   \* of FloodRoutes
  main, wifi, listening, backlog, current, arrived, handled, got,
  drops,   \* of FloodApp
  link   \* what FloodApp calls conn: the connection to each client

hull == <<main, wifi, listening, backlog, current, arrived, handled, got, drops, link>>
outer == <<handler, request, page, pagesize, response, sticky, hull>>
systemVars == <<vars, outer>>

\* The store of the application is the repository.  Here exceptions and resets
\* are those of the repository and need no bounds of their own.
App == INSTANCE FloodApp WITH
  known     <- DOMAIN stationMap,
  knownFate <- mapFate,
  job       <- IF up THEN call ELSE None,
  answer    <- Told(reply),
  conn      <- link,
  throws    <- 0, MaxThrows <- 0,
  resets    <- 0, MaxResets <- 0

\* As in FloodRoutes and FloodApp.
ASSUME SystemAssumption ==
  /\ Requests \subseteq App!Request
  /\ Absent \notin Int /\ NotNumber \notin Int /\ Absent # NotNumber
  /\ None \notin App!Request /\ None \notin App!Responses
  /\ RequestOf \in [Clients -> Requests]
  /\ None \notin Clients
  /\ MaxBacklog \in Nat \ {0}
  /\ MaxDrops \in Nat

SystemInit == Init /\ App!AppInit

-----------------------------------------------------------------------------
(* The task outside the repository.                                        *)

SetupRuns ==
  /\ UNCHANGED vars
  /\ App!PowerUp \/ App!Connected \/ App!StartServer

ServerRuns ==
  /\ UNCHANGED vars
  /\ App!Idle \/ App!Accept \/ App!HandleRequest \/ App!CloseConnection

HandlerRuns ==
  /\ UNCHANGED vars
  /\ \/ App!HandlerSends
     \/ /\ \/ App!CallRiver \/ App!CallRainfall
           \/ App!ReadPage \/ App!ReadPagesize \/ App!Done
        /\ UNCHANGED hull

\* std::stoi throws, or there is no memory for the document.
HandlerThrows ==
  /\ Throw
  /\ UNCHANGED <<card, hull>>
  /\ \/ UNCHANGED budget /\ App!StoiFails
     \/ handler = "send" /\ Fault /\ App!ThrownThrough

-----------------------------------------------------------------------------
(* The task in the repository.                                             *)

\* setup() calls init() once the server listens.
InitCalled ==
  /\ main = "init"
  /\ BeginInit
  /\ UNCHANGED outer

\* The handler calls the repository, which may throw at once.
QueryCalled ==
  /\ handler = "query"
  /\ Issue(App!CallOf(request, page, pagesize))
  /\ App!Query
  /\ UNCHANGED <<card, budget, hull>>

RepositoryRuns ==
  /\ \/ Mount \/ OpenExisting \/ OpenCreates
     \/ Prepare \/ StepRow \/ StepDone \/ StepError \/ StalePage \/ SpoiltScan
  /\ UNCHANGED outer

RepositoryThrows ==
  /\ InitThrows \/ OpenThrows \/ PrepareThrows \/ NullText
  /\ IF up THEN App!ThrownThrough /\ UNCHANGED hull ELSE UNCHANGED outer

\* A query or init() returns, whatever is in its reply; an init() without
\* stations throws.
RepositoryReturns ==
  /\ Finalize
  /\ \/ /\ up
        /\ App!Goto("await", "send")
        /\ UNCHANGED <<request, page, pagesize, response, sticky, hull>>
     \/ /\ ~up /\ up'
        /\ main = "init" /\ main' = "loop"
        /\ UNCHANGED <<handler, request, page, pagesize, response, sticky>>
        /\ UNCHANGED <<wifi, listening, backlog, current, arrived, handled, got, drops, link>>
     \/ /\ ~up /\ ~up'
        /\ UNCHANGED outer

DeviceRestarts == (Reboot \/ Crash) /\ App!Restart

-----------------------------------------------------------------------------
(* Around the device.                                                      *)

CardMoves == (Eject \/ Insert) /\ UNCHANGED outer

OthersMove ==
  /\ UNCHANGED vars
  /\ App!WifiUp \/ App!WifiDown \/ App!ClientSteps

-----------------------------------------------------------------------------
TaskSteps ==
  \/ SetupRuns \/ ServerRuns \/ HandlerRuns \/ HandlerThrows
  \/ InitCalled \/ QueryCalled
  \/ RepositoryRuns \/ RepositoryThrows \/ RepositoryReturns

SystemNext == TaskSteps \/ DeviceRestarts \/ CardMoves \/ OthersMove

\* The one task goes on, abort() restarts the device, and the network is found
\* when it is looked for.  The card need not be put back, and no client has to
\* connect, to send or to wait.
SystemFairness ==
  /\ WF_systemVars(TaskSteps)
  /\ WF_systemVars(Reboot /\ App!Restart)
  /\ WF_systemVars(UNCHANGED vars /\ App!WifiUp)

SystemSpec == SystemInit /\ [][SystemNext]_systemVars /\ SystemFairness

-----------------------------------------------------------------------------
(* Properties.                                                             *)

CardStays == <>[]inserted
DatabaseStays == <>[](inserted /\ file = "flood")

\* No connection is forgotten, by a client that says nothing, by a card that was
\* away or by a database that is gone: once there is a card in the slot, each is
\* given up by its client, reset by a restart or closed by the server, and the
\* server closes none without the answer to a request that has arrived, unless the
\* network was lost.  Without a card init() keeps those that have connected to the
\* new server for ever (setup, FloodRepository::init, FloodRoutes::loop).
EveryoneIsServed ==
  CardStays =>
    \A c \in Clients :
      link[c] = "open" ~>
        \/ link[c] \in {"gone", "reset"}
        \/ link[c] = "closed" /\ (c \in arrived => got[c] # None \/ drops > 0)

\* Whatever failed before, with the database in the slot the device serves
\* again, and again (setup, loop).
ServesAgain == DatabaseStays => []<>(main = "loop" /\ handler = "idle")

SystemTypeOK == TypeOK /\ App!AppTypeOK

\* Where the task is in the repository and where it is in the program agree, so
\* that every return and every exception finds the handler, or setup(), that is
\* waiting for it, also when a restart came in between.
OneTask ==
  /\ main \in {"off", "wifi", "server"} => pc = "off"
  /\ (handler = "await" \/ (main = "init" /\ pc # "off")) <=>
       pc \notin {"off", "idle"} /\ handler # "thrown"
  /\ handler = "thrown" => pc = "aborted"

\* What a client has received answers its own request, from the rows in the file
\* to the response: the page it asked for, or the beginning of that page, of a
\* station that is in the table, unless a read failed unnoticed (StalePage).
OwnPages == App!OwnResponse

\* A client loses its connection to a restart only if the card or the database
\* was not what it should be, or the station table is empty, the device failed, or
\* a handler was called for a request that can make it throw: nothing that requests
\* of integers, names and start texts without a quote do, in any order, takes the
\* device down.
RestartsHaveCauses ==
  (\E c \in Clients : link[c] = "reset") =>
    \/ faults > 0 \/ ejects > 0 \/ crashes > 0
    \/ file # "flood" \/ StationRows = <<>>
    \/ \E d \in handled : App!MayThrow(RequestOf[d])
=============================================================================
