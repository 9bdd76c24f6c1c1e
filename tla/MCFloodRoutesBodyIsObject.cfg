CONSTANTS
  IntMax = 1023
  alston = alston
  chirdon = chirdon
  unknown = unknown
  id1 = id1
  id2 = id2
  id3 = id3
  NoStart = NoStart
  BadStart = BadStart
  None = None
  Absent = Absent
  NotNumber = NotNumber
  Names <- MCNames
  Ids <- MCIds
  StationRows <- MCStationRows
  RiverRows <- MCRiverRows
  RainRows <- MCRainRows
  Calls <- MCCalls
  Requests <- MCRequests
  MaxThrows = 1
SPECIFICATION RoutesSpec
INVARIANT BodyIsObject
