SPECIFICATION FairSpec
CONSTANTS
  Queriers = {q1}
  Refreshers = {r1}
  NoThread = NoThread
  NoTime = NoTime
  LastDay = 3
  SlotsPerDay = 1
  StartDay = 1
  Archive <- FullArchive
  MaxObjects = 1
  MinDates = 2
  RequestsMayFail = TRUE
  LateUploads = TRUE
INVARIANTS
  TypeOK
  EveryObjectPrunable
  MetadataFresh
  MissedOnlyByFailure
PROPERTIES
  RecentObjectsKept
  MinDatesKept
  PublishedEventuallyCached
