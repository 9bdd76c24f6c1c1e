--------------------------- MODULE MCFloodSystem ---------------------------
(* A client or two to be served, and one that may take the device down.    *)
EXTENDS FloodSystem

CONSTANTS alston, chirdon, id1, id2, c1, c2, c3

MCNames == {alston, chirdon}
MCIds == {id1, id2}

MCStationRows == <<
  [id |-> id1, name |-> alston],
  [id |-> id2, name |-> chirdon] >>

MCRiverRows == <<1, 2>>

MCRainRows == <<
  [station |-> id1, ts |-> 1],
  [station |-> id2, ts |-> 1] >>

River(start, p, s) ==
  [route |-> "river", start |-> start, page |-> p, pagesize |-> s]

RainfallOfAlston ==
  [route |-> "rainfall", station |-> alston, start |-> NoStart, page |-> Absent, pagesize |-> 1]

\* The two pages have one row each, and it is not the same.  One request leaves out
\* the page that the other names, and the third has a start text that spoils the
\* SQL, with a page size that is no uint8_t.
MCClients == {c1, c2, c3}
MCRequestOf ==
  [c \in MCClients |->
     CASE c = c1 -> RainfallOfAlston
       [] c = c2 -> River(NoStart, 2, 1)
       [] c = c3 -> River(BadStart, Absent, 258)]
MCRequests == {MCRequestOf[c] : c \in MCClients}

\* For the liveness run: a page number that is none.
TwoClients == {c1, c2}
TwoRequestOf ==
  [c \in TwoClients |-> IF c = c1 THEN RainfallOfAlston ELSE River(NoStart, NotNumber, 2)]
TwoRequests == {TwoRequestOf[c] : c \in TwoClients}

\* No calls but those of the handlers.
MCCalls == {}
=============================================================================
