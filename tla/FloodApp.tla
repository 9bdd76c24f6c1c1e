------------------------------ MODULE FloodApp ------------------------------
(***************************************************************************)
(* The whole device: setup() and loop() of main.cpp around the routes, the *)
(* web server's one client at a time, the network, and the clients.        *)
(*                                                                         *)
(* setup() starts the server before it initializes the repository, so that *)
(* clients connect and wait while the card is still being mounted.  There  *)
(* is one task: nothing is handled before setup() returns, and a handler   *)
(* holds up everybody else for the seconds that its messages stay on the   *)
(* display.  A restart resets every connection.                            *)
(*                                                                         *)
(* A client stands for one connection with one request, which arrives as a *)
(* whole.  The web server gives its one handler call to each connection,   *)
(* and then lets go of it whether or not the handler has sent anything.    *)
(***************************************************************************)
EXTENDS FloodRoutes

CONSTANTS
  Clients,
  RequestOf,    \* the request each client sends
  MaxBacklog,   \* bound: connections the server keeps waiting
  MaxResets,    \* bound: restarts that no request causes
  MaxDrops      \* bound: times the WiFi connection is lost

ASSUME AppAssumption ==
  /\ RequestOf \in [Clients -> Requests]
  /\ None \notin Clients
  /\ MaxBacklog \in Nat \ {0}
  /\ MaxResets \in Nat /\ MaxDrops \in Nat

VARIABLES
  main,       \* where the main task is: setup() up to "init", then loop()
  wifi,       \* the WiFi connection is there
  listening,  \* the server accepts connections
  backlog,    \* connections that wait for the server
  current,    \* the connection the server works on, or None
  conn,       \* what each connection is to its client
  arrived,    \* the clients whose request is there for the device to read
  handled,    \* the clients whose request a handler was called for
  got,        \* the response each client has received, or None
  resets, drops

serverVars == <<listening, backlog, current>>
clientVars == <<conn, arrived, handled, got>>
appVars == <<main, wifi, serverVars, clientVars, resets, drops>>
everything == <<allVars, appVars>>

Mains == {"off", "wifi", "server", "init", "loop"}
Conns == {"none", "open", "gone", "reset", "closed"}

AppTypeOK ==
  /\ RoutesTypeOK
  /\ main \in Mains
  /\ wifi \in BOOLEAN
  /\ listening \in BOOLEAN
  /\ backlog \in Seq(Clients)
  /\ Len(backlog) <= MaxBacklog
  /\ current \in Clients \cup {None}
  /\ conn \in [Clients -> Conns]
  /\ arrived \subseteq Clients
  /\ handled \subseteq arrived
  /\ got \in [Clients -> Responses \cup {None}]
  /\ resets \in 0..MaxResets
  /\ drops \in 0..MaxDrops

AppInit ==
  /\ RoutesInit
  /\ main = "off"
  /\ wifi = FALSE
  /\ listening = FALSE
  /\ backlog = <<>>
  /\ current = None
  /\ conn = [c \in Clients |-> "none"]
  /\ arrived = {}
  /\ handled = {}
  /\ got = [c \in Clients |-> None]
  /\ resets = 0
  /\ drops = 0

-----------------------------------------------------------------------------
(* setup().                                                                *)

\* Display, repository object, mapper, and WiFi.begin.
PowerUp ==
  /\ main = "off"
  /\ main' = "wifi"
  /\ sticky' = "starting"
  /\ UNCHANGED <<storeVars, handler, request, page, pagesize, response, throws>>
  /\ UNCHANGED <<wifi, serverVars, clientVars, resets, drops>>

\* The loop that waits for WL_CONNECTED ends; the address goes on the display.
Connected ==
  /\ main = "wifi"
  /\ wifi
  /\ main' = "server"
  /\ sticky' = "address"
  /\ UNCHANGED <<storeVars, handler, request, page, pagesize, response, throws>>
  /\ UNCHANGED <<wifi, serverVars, clientVars, resets, drops>>

\* The constructor of FloodRoutes.
StartServer ==
  /\ main = "server"
  /\ main' = "init"
  /\ listening' = TRUE
  /\ UNCHANGED <<allVars, wifi, backlog, current, clientVars, resets, drops>>

\* A mutant of InitReturns: init() is not waited for.
InitNotAwaited ==
  /\ main = "init"
  /\ main' = "loop"
  /\ Open \/ UNCHANGED storeVars
  /\ UNCHANGED <<routeVars, wifi, serverVars, clientVars, resets, drops>>

\* A mutant of InitReturns: the server is started once more.
InitRestartsServer ==
  /\ main = "init"
  /\ main' = "loop"
  /\ Open
  /\ backlog' = <<>>
  /\ UNCHANGED <<routeVars, wifi, listening, current, clientVars, resets, drops>>

\* flood_repository->init() returns, and so does setup().
InitReturns ==
  /\ main = "init"
  /\ main' = "loop"
  /\ Open
  /\ UNCHANGED <<routeVars, wifi, serverVars, clientVars, resets, drops>>

-----------------------------------------------------------------------------
(* loop(): handleClient of the web server.                                 *)

Looping == main = "loop" /\ handler = "idle"

\* Nobody is there: handleClient returns at once.
Idle ==
  /\ Looping
  /\ current = None
  /\ backlog = <<>>
  /\ UNCHANGED everything

\* The next connection, when there is none to work on.
Accept ==
  /\ Looping
  /\ current = None
  /\ backlog # <<>>
  /\ current' = Head(backlog)
  /\ backlog' = Tail(backlog)
  /\ UNCHANGED <<allVars, main, wifi, listening, clientVars, resets, drops>>

\* The request is there, and its route is known: the handler is called, once.
HandleRequest ==
  /\ Looping
  /\ current \in arrived \ handled
  /\ conn[current] \in {"open", "gone"}
  /\ Dispatch(RequestOf[current])
  /\ handled' = handled \cup {current}
  /\ UNCHANGED <<main, wifi, serverVars, conn, arrived, got, resets, drops>>

\* A handler step that sends nothing.
HandlerRuns ==
  /\ QuietSteps
  /\ UNCHANGED appVars

\* m_server.send: the client receives the response if it is still there and the
\* network is; nobody repeats it.
HandlerSends ==
  /\ SendNotFound \/ SendPage
  /\ got' = IF conn[current] = "open" /\ wifi
              THEN [got EXCEPT ![current] = response']
              ELSE got
  /\ UNCHANGED <<main, wifi, serverVars, conn, arrived, handled, resets, drops>>

\* The server lets go of a connection whose handler has returned, whether or not it
\* has sent anything, of one that its client has closed, and of one that has had no
\* request in time.
CloseConnection ==
  /\ Looping
  /\ current # None
  /\ current \in handled \/ conn[current] # "open" \/ current \notin arrived
  /\ conn' = [conn EXCEPT ![current] = IF @ = "open" THEN "closed" ELSE @]
  /\ current' = None
  /\ response' = None
  /\ UNCHANGED <<storeVars, handler, request, page, pagesize, sticky, throws>>
  /\ UNCHANGED <<main, wifi, listening, backlog, arrived, handled, got, resets, drops>>

-----------------------------------------------------------------------------
(* Restarts.                                                               *)

\* Every connection the device knew is reset.
Restart ==
  /\ RoutesRestart
  /\ main' = "off"
  /\ wifi' = FALSE
  /\ listening' = FALSE
  /\ backlog' = <<>>
  /\ current' = None
  /\ conn' = [c \in Clients |-> IF conn[c] = "open" THEN "reset" ELSE conn[c]]
  /\ UNCHANGED <<arrived, handled, got, drops>>

\* An exception has left loop(): abort() and the panic handler.
RestartAfterThrow ==
  /\ handler = "thrown"
  /\ Restart
  /\ UNCHANGED resets

\* An exception of init(), a watchdog or a loss of power, at any time.
Reset ==
  /\ main # "off"
  /\ resets < MaxResets
  /\ resets' = resets + 1
  /\ Restart

-----------------------------------------------------------------------------
(* The network and the clients.                                            *)

WifiUp ==
  /\ main # "off"
  /\ ~wifi
  /\ wifi' = TRUE
  /\ UNCHANGED <<allVars, main, serverVars, clientVars, resets, drops>>

WifiDown ==
  /\ wifi
  /\ drops < MaxDrops
  /\ drops' = drops + 1
  /\ wifi' = FALSE
  /\ UNCHANGED <<allVars, main, serverVars, clientVars, resets>>

\* A full backlog refuses connections.
Connect(c) ==
  /\ conn[c] = "none"
  /\ wifi /\ listening
  /\ Len(backlog) < MaxBacklog
  /\ backlog' = Append(backlog, c)
  /\ conn' = [conn EXCEPT ![c] = "open"]
  /\ UNCHANGED <<allVars, main, wifi, listening, current, arrived, handled, got, resets, drops>>

\* The request of c reaches the device.  It is sent at any time after the
\* connection is made, and lost packets are sent again.
Arrive(c) ==
  /\ conn[c] = "open"
  /\ wifi
  /\ c \notin arrived
  /\ arrived' = arrived \cup {c}
  /\ UNCHANGED <<allVars, main, wifi, serverVars, conn, handled, got, resets, drops>>

\* A client without a response stops waiting.  Its connection stays with the
\* server, and so does its request when it has arrived.
GiveUp(c) ==
  /\ conn[c] = "open"
  /\ got[c] = None
  /\ conn' = [conn EXCEPT ![c] = "gone"]
  /\ UNCHANGED <<allVars, main, wifi, serverVars, arrived, handled, got, resets, drops>>

-----------------------------------------------------------------------------
SetupSteps == PowerUp \/ Connected \/ StartServer \/ InitReturns
LoopSteps ==
  Idle \/ Accept \/ HandleRequest \/ HandlerRuns \/ HandlerSends \/ CloseConnection

\* The store and the faults, under the conditions of their own modules.
StoreFailsHere == StoreFails /\ UNCHANGED appVars
ThrowsHere == Throws /\ UNCHANGED appVars

ClientSteps == \E c \in Clients : Connect(c) \/ Arrive(c) \/ GiveUp(c)

AppNext ==
  \/ SetupSteps
  \/ LoopSteps
  \/ StoreFailsHere
  \/ ThrowsHere
  \/ RestartAfterThrow
  \/ Reset
  \/ WifiUp
  \/ WifiDown
  \/ ClientSteps

AppSpec == AppInit /\ [][AppNext]_everything

-----------------------------------------------------------------------------
(* Properties.                                                             *)

\* What a client has received is the response to its own request, although
\* handlers run for seconds while others connect, give up and are reset: the
\* page it asked for, of a station that exists unless the reads of the repository
\* were spoilt, and a 404 only from the route that has one.
OwnResponse ==
  \A c \in Clients : got[c] # None =>
    LET r == RequestOf[c]
    IN  IF got[c] = NotFound
          THEN r.route = "rainfall"
          ELSE /\ (got[c].fate # "spoilt" /\ r.route = "rainfall") =>
                    r.station \in DOMAIN FullMap
               /\ Served(r) => CarriesPage(got[c], r)

\* The server knows each open connection once, as the current one or in the
\* backlog: no client waits on a connection that nobody will look at.
OpenIsKnown ==
  LET held == Range(backlog) \cup ({current} \ {None})
  IN  /\ \A c \in Clients : conn[c] = "open" => c \in held
      /\ IsInjective(backlog)
      /\ current \notin Range(backlog)

\* The server listens before the repository is initialized, and yet no handler
\* runs on a repository that is not: setup() has to return first.
HandledAfterSetup == handler # "idle" => (main = "loop" /\ up /\ current # None)

\* A client whose handler was called has its response when the server closes the
\* connection, whatever happened to the clients before it, unless the network was
\* lost: river() and rainfallStation() send on every path, or take the device down.
\* The server does not look: it closes after the handler anyway.
ClosedIsAnswered ==
  \A c \in handled : conn[c] = "closed" => got[c] # None \/ drops > 0

\* A client loses its connection to a restart only if something failed or a handler
\* was called for a request that can make it throw: a parameter that std::stoi
\* refuses, or a start text that does not stay inside its quotes in the SQL.
ResetsHaveCauses ==
  (\E c \in Clients : conn[c] = "reset") =>
    throws > 0 \/ resets > 0 \/ \E d \in handled : MayThrow(RequestOf[d])
=============================================================================
