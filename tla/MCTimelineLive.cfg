SPECIFICATION FairSpec
CONSTANTS
  MapCount = 1
  Sites = {}
  NoSite = NoSite
  Live = 0
  DateTimes = {18}
  LoopTimes = {1}
  FirstMinute = 20
  LastMinute = 21
  MaxAttempts = 2
  NoThread = NoThread
  NoEvent = NoEvent
  MaxCalls = 2
PROPERTIES
  RequestsServed
  KeepsPlaying
  PauseEnds
CHECK_DEADLOCK FALSE
