CONSTANTS
  IntMax = 1023
  alston = alston
  chirdon = chirdon
  unknown = unknown
  id1 = id1
  id2 = id2
  id3 = id3
  NoStart = NoStart
  BadStart = BadStart
  None = None
  Names <- MCNames
  Ids <- MCIds
  StationRows <- MCStationRows
  RiverRows <- MCRiverRows
  RainRows <- MCRainRows
  Calls <- FewCalls
  MaxFaults = 1
  MaxEjects = 0
  MaxCrashes = 0
SPECIFICATION Spec
INVARIANT RowsMatch
