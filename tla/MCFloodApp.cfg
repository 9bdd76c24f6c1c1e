CONSTANTS
  IntMax = 1023
  alston = alston
  chirdon = chirdon
  unknown = unknown
  id1 = id1
  id2 = id2
  id3 = id3
  c1 = c1
  c2 = c2
  c3 = c3
  NoStart = NoStart
  BadStart = BadStart
  None = None
  Absent = Absent
  NotNumber = NotNumber
  Names <- MCNames
  Ids <- MCIds
  StationRows <- MCStationRows
  RiverRows <- MCRiverRows
  RainRows <- MCRainRows
  Calls <- MCCalls
  Requests <- MCRequests
  Clients <- MCClients
  RequestOf <- MCRequestOf
  MaxBacklog = 2
  MaxThrows = 1
  MaxResets = 1
  MaxDrops = 1
SPECIFICATION AppSpec
INVARIANTS
  AppTypeOK
  OwnResponse
  OpenIsKnown
  HandledAfterSetup
  ClosedIsAnswered
  ResetsHaveCauses
