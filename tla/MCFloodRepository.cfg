CONSTANTS
  IntMax = 1023
  alston = alston
  chirdon = chirdon
  unknown = unknown
  id1 = id1
  id2 = id2
  id3 = id3
  NoStart = NoStart
  BadStart = BadStart
  None = None
  Names <- MCNames
  Ids <- MCIds
  StationRows <- MCStationRows
  RiverRows <- MCRiverRows
  RainRows <- MCRainRows
  Calls <- MCCalls
  MaxFaults = 2
  MaxEjects = 1
  MaxCrashes = 1
SPECIFICATION FairSpec
INVARIANTS
  TypeOK
  ReplyInPlace
  ReplyWhole
  CutIsShort
  StationIdsRight
  UpHasDatabase
  RepositoryInv
PROPERTIES
  KeepsPromise
  CallsEnd
  Recovers
