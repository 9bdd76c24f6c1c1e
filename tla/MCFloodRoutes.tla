--------------------------- MODULE MCFloodRoutes ---------------------------
(* Small tables and requests with every kind of parameter.                 *)
EXTENDS FloodRoutes

CONSTANTS alston, chirdon, unknown, id1, id2, id3

MCNames == {alston, chirdon, unknown}
MCIds == {id1, id2, id3}

MCStationRows == <<
  [id |-> id1, name |-> alston],
  [id |-> id2, name |-> chirdon],
  [id |-> id3, name |-> alston] >>

MCRiverRows == <<1, 2, 4, 3, 4>>

MCRainRows == <<
  [station |-> id1, ts |-> 1],
  [station |-> id2, ts |-> 1],
  [station |-> id1, ts |-> 3],
  [station |-> id3, ts |-> 2],
  [station |-> id1, ts |-> 2] >>

River(start, p, s) ==
  [route |-> "river", start |-> start, page |-> p, pagesize |-> s]

Rainfall(name, start, p, s) ==
  [route |-> "rainfall", station |-> name, start |-> start, page |-> p, pagesize |-> s]

\* Absent parameters, pages from first to missing, the edges of uint8_t and of
\* int, texts that are no numbers, and a start text that spoils the SQL.
RiverRequests ==
  { River(3, p, s) : p \in {Absent, 1, 2}, s \in {Absent, 0, 1, 255} }
    \cup
  { River(NoStart, p, s) : p \in {Absent, 2, 3}, s \in {Absent, 2, 256, 258} }
    \cup
  { River(NoStart, p, 2) : p \in {NotNumber, IntMax, IntMax + 1, -(IntMax + 1),
                                  -(IntMax + 2), 0} }
    \cup
  { River(BadStart, Absent, 2), River(NoStart, Absent, NotNumber), River(NoStart, NotNumber, IntMax + 1) }

RainfallRequests ==
  { Rainfall(n, NoStart, p, 2) : n \in MCNames, p \in {Absent, 2} }
    \cup
  { Rainfall(n, 2, NotNumber, Absent) : n \in {alston, unknown} }
    \cup
  { Rainfall(n, BadStart, 1, 1) : n \in {alston, unknown} }

MCRequests == RiverRequests \cup RainfallRequests

\* No calls but those of the handlers.
MCCalls == {}
=============================================================================
