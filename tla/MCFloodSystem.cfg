CONSTANTS
  IntMax = 1023
  alston = alston
  chirdon = chirdon
  id1 = id1
  id2 = id2
  c1 = c1
  c2 = c2
  c3 = c3
  NoStart = NoStart
  BadStart = BadStart
  None = None
  Absent = Absent
  NotNumber = NotNumber
  Names <- MCNames
  Ids <- MCIds
  StationRows <- MCStationRows
  RiverRows <- MCRiverRows
  RainRows <- MCRainRows
  Calls <- MCCalls
  Requests <- MCRequests
  Clients <- MCClients
  RequestOf <- MCRequestOf
  MaxFaults = 1
  MaxEjects = 1
  MaxCrashes = 0
  MaxBacklog = 1
  MaxDrops = 0
SPECIFICATION SystemSpec
INVARIANTS
  SystemTypeOK
  OneTask
  OwnPages
  RestartsHaveCauses
