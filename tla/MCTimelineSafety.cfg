SPECIFICATION Spec
CONSTANTS
  MapCount = 2
  Sites = {s1}
  NoSite = NoSite
  Live = 0
  DateTimes = {18}
  LoopTimes = {1}
  FirstMinute = 20
  LastMinute = 20
  MaxAttempts = 2
  NoThread = NoThread
  NoEvent = NoEvent
  MaxCalls = 2
INVARIANTS
  TypeOK
  MapsFollowTimeline
CHECK_DEADLOCK FALSE
