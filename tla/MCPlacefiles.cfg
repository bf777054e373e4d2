CONSTANTS
  DefaultLayers <- MCDefaultLayers
  Immovable <- MCImmovable
  SavedLayers <- MCSavedLayers
  Settings <- MCSettings
  overlay = overlay
  radarSite = radarSite
  range = range
  radar = radar
  underlay = underlay
  unknown = unknown
  RadarSite = radarSite
  UnknownLayer = unknown
  Names = {"a", "b"}
  Local = {"b"}
  Sites = {s1}
  NoSite = NoSite
  MaxRecords = 2
  MaxCalls = 2
  MaxQueue = 1
SPECIFICATION Spec
INVARIANTS
  PlacefileTypeOK
  RecordsIndexed
  RecordsListed
  EnabledIsRetried
PROPERTIES
  RemovalEnds
CHECK_DEADLOCK FALSE
