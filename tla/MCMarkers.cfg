SPECIFICATION Spec
CONSTANTS
  Names = {1, 2}
  NewName = 1
  Saved <- MCSaved
  Dialogs = {"settings", "icons"}
  Adders = {"settings"}
  RowEditors = {"settings"}
  IconEditors = {"icons"}
  MaxTags = 3
  MaxCalls = 3
  MaxSessions = 2
INVARIANTS
  TypeOK
  ViewsAgree
  RecordsAreWanted
  FileKeepsMarkers
CHECK_DEADLOCK FALSE
