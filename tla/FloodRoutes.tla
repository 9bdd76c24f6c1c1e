---------------------------- MODULE FloodRoutes ----------------------------
(***************************************************************************)
(* The two route handlers: from the text parameters of a request to a call *)
(* of the repository, and from its rows to a response.                     *)
(*                                                                         *)
(* A handler shows each parameter on the display for a second before it    *)
(* looks at the next one, so every step here is a state in which the rest  *)
(* of the world can move.  The repository is the abstract FloodStore.      *)
(***************************************************************************)
EXTENDS FloodStore

CONSTANTS
  Absent,      \* a query parameter that the request does not have
  NotNumber,   \* a parameter text that does not start with an integer
  Requests,    \* the requests that clients make
  MaxThrows    \* bound: exceptions that no request causes

Param == Int \cup {Absent, NotNumber}

Request ==
  [route : {"river"}, start : Starts, page : Param, pagesize : Param]
    \cup
  [route : {"rainfall"}, station : Names, start : Starts, page : Param, pagesize : Param]

ASSUME RequestsAssumption ==
  /\ Requests \subseteq Request
  /\ Absent \notin Int /\ NotNumber \notin Int /\ Absent # NotNumber
  /\ None \notin Request
  /\ MaxThrows \in Nat

VARIABLES
  handler,    \* where the handler is
  request,    \* the request being handled, or None
  page,       \* the local of that name once it is read (the code calls it limit)
  pagesize,   \* the local of that name once it is read
  response,   \* what the handler has given to m_server.send, or None
  sticky,     \* the message that stays on the display
  throws

routeVars == <<handler, request, page, pagesize, response, sticky, throws>>
allVars == <<storeVars, routeVars>>

Handlers ==
  {"idle", "calling", "page", "pagesize", "query", "await", "send", "done", "thrown"}

Messages == {"none", "starting", "address", "river", "rainfall"}

-----------------------------------------------------------------------------
(* Parameters.                                                             *)

DEFAULT_PAGE == 1
DEFAULT_PAGESIZE == 12

\* getQueryParameter.
QueryParameter(value, default) == IF value = Absent THEN default ELSE value

\* std::stoi throws invalid_argument or out_of_range.
StoiThrows(value) == value \notin CInt

\* The parameters of a request as its handler takes them.
PageAsked(r) == QueryParameter(r.page, DEFAULT_PAGE)
SizeAsked(r) == QueryParameter(r.pagesize, DEFAULT_PAGESIZE)

\* The requests that can make a handler throw though nothing fails: a parameter
\* that std::stoi refuses, or a start text that makes another statement of the SQL.
MayThrow(r) ==
  StoiThrows(PageAsked(r)) \/ StoiThrows(SizeAsked(r)) \/ r.start = BadStart

\* A mutant of CallOf: the arguments swapped.
SwappedCallOf(r, p, s) ==
  IF r.route = "river"
    THEN [op |-> "river", start |-> r.start, page |-> s, size |-> UInt8(p)]
    ELSE [op |-> "rainfall", station |-> r.station,
          start |-> r.start, page |-> s, size |-> UInt8(p)]

\* A mutant of CallOf: the page size stays an int.
CallOfWide(r, p, s) ==
  IF r.route = "river"
    THEN [op |-> "river", start |-> r.start, page |-> p, size |-> s]
    ELSE [op |-> "rainfall", station |-> r.station,
          start |-> r.start, page |-> p, size |-> s]

\* The call a handler makes: the int page size becomes a uint8_t argument.
CallOf(r, p, s) ==
  IF r.route = "river"
    THEN [op |-> "river", start |-> r.start, page |-> p, size |-> UInt8(s)]
    ELSE [op |-> "rainfall", station |-> r.station,
          start |-> r.start, page |-> p, size |-> UInt8(s)]

-----------------------------------------------------------------------------
(* The JSON document of FloodMapper.  `readings` only comes into being with *)
(* its first element.                                                      *)

NullDocument == [kind |-> "null"]

Document(rows) ==
  IF rows = <<>> THEN NullDocument ELSE [kind |-> "object", readings |-> rows]

NotFound == [status |-> 404]

Page200(a) == [status |-> 200, body |-> Document(a.rows), fate |-> a.fate]

Responses ==
  {NotFound} \cup
  [status : {200}, fate : Fates,
   body : {NullDocument} \cup [kind : {"object"}, readings : Seq(Nat)]]

ASSUME ResponsesAssumption == None \notin Responses

-----------------------------------------------------------------------------
(* The handlers.                                                           *)

RoutesInit ==
  /\ StoreInit
  /\ handler = "idle"
  /\ request = None
  /\ page = 0 /\ pagesize = 0
  /\ response = None
  /\ sticky = "none"
  /\ throws = 0

Goto(from, to) == handler = from /\ handler' = to

\* The web server has parsed a request and calls the handler of its route.
Dispatch(r) ==
  /\ Goto("idle", "calling")
  /\ request' = r
  /\ response' = None
  /\ UNCHANGED <<storeVars, page, pagesize, sticky, throws>>

\* river() shows that it was called and reads `start`.
CallRiver ==
  /\ Goto("calling", "page")
  /\ request.route = "river"
  /\ UNCHANGED <<storeVars, request, page, pagesize, response, sticky, throws>>

\* A mutant of CallRainfall: the check of the station is left to the repository.
CallRainfallUnchecked ==
  /\ Goto("calling", "page")
  /\ request.route = "rainfall"
  /\ UNCHANGED <<storeVars, request, page, pagesize, response, sticky, throws>>

\* rainfallStation() shows that it was called, and reads `start` when the
\* station exists.
CallRainfall ==
  /\ Goto("calling", "page")
  /\ request.route = "rainfall"
  /\ request.station \in known
  /\ UNCHANGED <<storeVars, request, page, pagesize, response, sticky, throws>>

\* A mutant of SendNotFound: returns without a response.
NotFoundUnsent ==
  /\ Goto("calling", "done")
  /\ request.route = "rainfall"
  /\ request.station \notin known
  /\ UNCHANGED <<storeVars, request, page, pagesize, response, sticky, throws>>

\* stationExists is false.
SendNotFound ==
  /\ Goto("calling", "done")
  /\ request.route = "rainfall"
  /\ request.station \notin known
  /\ response' = NotFound
  /\ UNCHANGED <<storeVars, request, page, pagesize, sticky, throws>>

\* A mutant of ReadPage: a request without a page gets the one read last.
ReadPageKept ==
  LET value == IF request.page = Absent /\ page # 0 THEN page
                 ELSE PageAsked(request)
  IN  /\ Goto("page", "pagesize")
      /\ ~StoiThrows(value)
      /\ page' = value
      /\ UNCHANGED <<storeVars, request, pagesize, response, sticky, throws>>

ReadPage ==
  /\ Goto("page", "pagesize")
  /\ ~StoiThrows(PageAsked(request))
  /\ page' = PageAsked(request)
  /\ UNCHANGED <<storeVars, request, pagesize, response, sticky, throws>>

ReadPagesize ==
  /\ Goto("pagesize", "query")
  /\ ~StoiThrows(SizeAsked(request))
  /\ pagesize' = SizeAsked(request)
  /\ UNCHANGED <<storeVars, request, page, response, sticky, throws>>

\* std::stoi throws.
StoiFails ==
  /\ \/ /\ Goto("page", "thrown")
        /\ StoiThrows(PageAsked(request))
     \/ /\ Goto("pagesize", "thrown")
        /\ StoiThrows(SizeAsked(request))
  /\ UNCHANGED <<storeVars, request, page, pagesize, response, sticky, throws>>

\* The display says what is loading and the repository is called.
Query ==
  LET c == CallOf(request, page, pagesize)
  IN  /\ handler = "query"
      /\ sticky' = request.route
      /\ IF Known(c, known)
           THEN handler' = "await" /\ Ask(c)
           ELSE handler' = "thrown" /\ UNCHANGED storeVars
      /\ UNCHANGED <<request, page, pagesize, response, throws>>

\* The repository returns.
TakeAnswer ==
  /\ Goto("await", "send")
  /\ AnswerQuery
  /\ UNCHANGED <<request, page, pagesize, response, sticky, throws>>

SendPage ==
  /\ Goto("send", "done")
  /\ response' = Page200(answer)
  /\ UNCHANGED <<storeVars, request, page, pagesize, sticky, throws>>

\* "Done in" and the end of handleClient.
Done ==
  /\ Goto("done", "idle")
  /\ request' = None
  /\ UNCHANGED <<storeVars, page, pagesize, response, sticky, throws>>

\* A mutant of ThrownThrough: something catches the exception and goes on with the
\* next request, but the call is left as it is.
ThrownCaught ==
  /\ handler \in {"await", "send"}
  /\ handler' = "idle"
  /\ UNCHANGED <<storeVars, request, page, pagesize, response, sticky>>

\* An exception passes through the handler.
ThrownThrough ==
  /\ handler \in {"await", "send"}
  /\ handler' = "thrown"
  /\ UNCHANGED <<storeVars, request, page, pagesize, response, sticky>>

\* The SQL of a misquoted start does not compile, or has a NULL among its results:
\* the repository throws though nothing has failed.
StatementThrows ==
  /\ handler = "await"
  /\ request.start = BadStart
  /\ ThrownThrough
  /\ UNCHANGED throws

\* The repository or the mapper throws on something the request does not cause: a
\* read of prepare fails, there is no memory for a text or for the document.
Throws ==
  /\ throws < MaxThrows
  /\ throws' = throws + 1
  /\ ThrownThrough

\* The steps of a handler that send nothing.
QuietSteps ==
  \/ CallRiver \/ CallRainfall
  \/ ReadPage \/ ReadPagesize \/ StoiFails
  \/ Query \/ TakeAnswer \/ StatementThrows \/ Done

HandlerSteps == QuietSteps \/ SendNotFound \/ SendPage

\* The device restarts after an exception nobody catches.
RoutesRestart ==
  /\ Lose
  /\ handler' = "idle"
  /\ request' = None
  /\ page' = 0 /\ pagesize' = 0
  /\ response' = None
  /\ sticky' = "none"
  /\ UNCHANGED throws

\* What the repository does by itself.
StoreOpens == Open /\ UNCHANGED routeVars
StoreFails == (Cut \/ Spoil) /\ UNCHANGED routeVars

\* The handlers under an environment that dispatches any request once init()
\* has returned.
RoutesNext ==
  \/ StoreOpens
  \/ StoreFails
  \/ up /\ \E r \in Requests : Dispatch(r)
  \/ HandlerSteps
  \/ Throws
  \/ handler = "thrown" /\ RoutesRestart

RoutesSpec == RoutesInit /\ [][RoutesNext]_allVars

-----------------------------------------------------------------------------
(* Properties.                                                             *)

RoutesTypeOK ==
  /\ StoreTypeOK
  /\ handler \in Handlers
  /\ request \in Request \cup {None}
  /\ page \in CInt
  /\ pagesize \in CInt
  /\ response \in Responses \cup {None}
  /\ sticky \in Messages
  /\ throws \in 0..MaxThrows

\* The rows a request asks for a page of.
RowsAsked(r) ==
  IF r.route = "river"
    THEN RiverMatches(r.start)
    ELSE RainMatches(FullMap[r.station], r.start)

\* Requests whose parameters the handlers can carry as they are.
Served(r) ==
  /\ PageAsked(r) \in CInt
  /\ SizeAsked(r) \in UInt8s
  /\ Representable(PageAsked(r), SizeAsked(r))

ReadingsOf(body) == IF body = NullDocument THEN <<>> ELSE body.readings

\* A page that is the one asked for, or the beginning of it when the repository
\* lost the rest to an error.  Nothing is claimed of a spoilt one.
CarriesPage(a, r) ==
  a.fate # "spoilt" =>
  LET rows == ReadingsOf(a.body)
      asked == PageOf(RowsAsked(r), FirstOf(PageAsked(r), SizeAsked(r)), SizeAsked(r))
  IN  /\ Len(rows) <= Len(asked)
      /\ rows = SubSeq(asked, 1, Len(rows))
      /\ a.fate = "whole" => rows = asked

Responded200 == response # None /\ response # NotFound /\ request # None

\* A response carries the page of its own request, under the defaults of
\* river() and rainfallStation(): the whole of it, or the beginning when the
\* repository lost the rest to an error.
ResponseIsPageAsked ==
  (Responded200 /\ Served(request)) => CarriesPage(response, request)

\* The answer of stationExists still holds two parameters later, when the
\* repository looks the station up with at().
StationStillKnown ==
  handler = "query" => Known(CallOf(request, page, pagesize), known)

\* The repository has a call in progress exactly while a handler waits for it,
\* and the device is up as long as a handler runs: no response comes from a
\* repository that has not been initialized.
CallsBelongToHandlers ==
  /\ job # None => handler \in {"await", "thrown"}
  /\ handler = "await" => job # None
  /\ handler # "idle" => up

\* A request of C++ ints, with a start text that stays inside its quotes, does not
\* by itself take the device down: a handler that throws has met a parameter that
\* std::stoi refuses, a start text that spoils the SQL, or a failure that has
\* nothing to do with the request.
FittingRequestsDoNotThrow ==
  [][(handler # "thrown" /\ handler' = "thrown") =>
       MayThrow(request) \/ throws' > throws]_allVars

\* The API describes `pagesize` as the number of measurements per page.  The
\* repository takes it as a uint8_t.
PagesizeHonoured ==
  (Responded200 /\ response.fate = "whole" /\ PageAsked(request) = 1 /\ SizeAsked(request) \in CInt
     /\ SizeAsked(request) > 0) =>
    Len(ReadingsOf(response.body))
      = PageLen(RowsAsked(request), 0, SizeAsked(request))

\* The API gives `page` the type integer, without bounds.  std::stoi throws for
\* one that is not an int, and nothing catches it.
IntegersDoNotThrow ==
  (handler = "thrown" /\ throws = 0 /\ request.start # BadStart) =>
    ~(PageAsked(request) \in Int /\ SizeAsked(request) \in Int)

\* The API describes a response as an object with an array of readings.  The
\* document of an empty page is null.
BodyIsObject == Responded200 => response.body.kind = "object"
=============================================================================
