SPECIFICATION Spec
CONSTANTS
  s1 = s1
  s2 = s2
  L2 = L2
  L3 = L3
  Sites <- MCSites
  Products <- MCProducts
  Level2 = L2
  Times <- MCTimes
  Latest = 0
  Scans <- MCScans
  Picks <- MCPicks
  Files <- MCFiles
  StartSite = s1
  Published <- MCPublished
  Uploads <- MCUploads
  NoFile = NoFile
  NoTime = NoTime
  NoProduct = NoProduct
  NoSweep = NoSweep
  MaxManagers = 3
  MaxInputs = 2
INVARIANTS
  TypeOK
  ShowsSelection
  LiveShowsNewest
CHECK_DEADLOCK FALSE
