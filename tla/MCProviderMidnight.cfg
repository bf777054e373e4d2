SPECIFICATION Spec
CONSTANTS
  Queriers = {}
  Refreshers = {r1}
  NoThread = NoThread
  NoTime = NoTime
  LastDay = 2
  SlotsPerDay = 1
  StartDay = 1
  Archive <- FullArchive
  MaxObjects = 2
  MinDates = 3
  RequestsMayFail = TRUE
  LateUploads = FALSE
INVARIANTS
  MidnightCovered
