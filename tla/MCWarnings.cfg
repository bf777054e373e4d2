SPECIFICATION Spec
CONSTANTS
  Messages = {1, 2, 3, 4, 5}
  Initial <- MCInitial
  Publishable = {2}
  Events = {"first", "second"}
  Headers = {"a", "b", "c", "d"}
  EventOf <- MCEventOf
  HeaderOf <- MCHeaderOf
  Segments <- MCSegments
  HasVtec = {1, 2, 3, 4}
  NFiles = 2
  FileOf <- MCFileOf
  LocalFile <- MCLocalFile
  MaxLoads = 1
  MaxProviders = 2
  NoEvent = NoEvent
  FaultSets <- MCFaultSets
INVARIANTS TypeOK EachMessageOnce SignalsInOrder NewestJudged SegmentsReplaced DialogCorrected
PROPERTY PublishedArrives
CHECK_DEADLOCK FALSE
