------------------------- MODULE MCFloodRepository -------------------------
(* Small tables and the calls worth making on them.                        *)
EXTENDS FloodRepository

CONSTANTS alston, chirdon, unknown, id1, id2, id3

MCNames == {alston, chirdon, unknown}
MCIds == {id1, id2, id3}

\* Two rows share a name, so the first row must win.
MCStationRows == <<
  [id |-> id1, name |-> alston],
  [id |-> id2, name |-> chirdon],
  [id |-> id3, name |-> alston] >>

\* Scan order is not the order of the time stamps.
MCRiverRows == <<1, 2, 4, 3, 4>>

MCRainRows == <<
  [station |-> id1, ts |-> 1],
  [station |-> id2, ts |-> 1],
  [station |-> id1, ts |-> 3],
  [station |-> id3, ts |-> 2],
  [station |-> id1, ts |-> 2] >>

River(start, page, size) ==
  [op |-> "river", start |-> start, page |-> page, size |-> size]

Rainfall(name, start, page, size) ==
  [op |-> "rainfall", station |-> name, start |-> start, page |-> page, size |-> size]

\* First, middle, last and missing pages, page numbers below 1, sizes 0 and 1
\* and the largest size, with and without a start text, and start texts that spoil
\* the SQL.
PlainCalls ==
  { River(NoStart, 1, 2), River(NoStart, 2, 2), River(NoStart, 3, 2),
    River(3, 2, 2), River(NoStart, 1, 12), River(9, 1, 12),
    River(NoStart, 2, 0), River(NoStart, 0, 2), River(NoStart, 5, 255),
    Rainfall(alston, NoStart, 1, 2), Rainfall(alston, NoStart, 2, 2),
    Rainfall(alston, 2, 2, 1), Rainfall(chirdon, 1, 1, 1),
    River(BadStart, 1, 2), Rainfall(alston, BadStart, 1, 0),
    Rainfall(unknown, NoStart, 1, 12), getAllStations }

\* (6 - 1) * 255 and (10 - 1) * 255 are beyond IntMax: the first wraps to a
\* negative offset, the second to a positive one.  The smallest int wraps in
\* the subtraction already.
OverflowCalls ==
  { River(NoStart, 6, 255), River(NoStart, 10, 255),
    River(NoStart, -(IntMax + 1), 1) }

MCCalls == PlainCalls \cup OverflowCalls

\* One call of each kind.
FewCalls ==
  { River(NoStart, 1, 2), Rainfall(alston, NoStart, 2, 2),
    Rainfall(alston, BadStart, 1, 2),
    Rainfall(unknown, NoStart, 1, 12), getAllStations }
=============================================================================
