----------------------------- MODULE MCFloodApp -----------------------------
(* A few clients of one device.                                            *)
EXTENDS FloodApp

CONSTANTS alston, chirdon, unknown, id1, id2, id3, c1, c2, c3

MCNames == {alston, chirdon, unknown}
MCIds == {id1, id2, id3}

MCStationRows == <<
  [id |-> id1, name |-> alston],
  [id |-> id2, name |-> chirdon] >>

MCRiverRows == <<2, 1, 3>>

MCRainRows == <<
  [station |-> id2, ts |-> 1],
  [station |-> id1, ts |-> 1],
  [station |-> id2, ts |-> 2] >>

River(p, s) == [route |-> "river", start |-> NoStart, page |-> p, pagesize |-> s]

Rainfall(name, start, p, s) ==
  [route |-> "rainfall", station |-> name, start |-> start, page |-> p, pagesize |-> s]

\* No calls but those of the handlers.
MCCalls == {}

\* Two pages with rows in them, one of a station that a scan cut short does not
\* find, and a start text that spoils the SQL, with a page size that is no uint8_t.
MCClients == {c1, c2, c3}
MCRequestOf ==
  [c \in MCClients |->
     CASE c = c1 -> River(Absent, 2)
       [] c = c2 -> Rainfall(chirdon, NoStart, 2, 1)
       [] c = c3 -> Rainfall(alston, BadStart, Absent, 258)]
MCRequests == {MCRequestOf[c] : c \in MCClients}
=============================================================================
