SPECIFICATION FairSpec

CONSTANTS
  Uuids = {u1, u2, o1}
  Overlays = {o1}
  Level2 = {l2}
  Level3 = {l3}
  NoProvider = NoProvider
  Gui = Gui
  Workers = {w1, w2}
  NoJob = NoJob
  MaxRequests = 3
  FaultSets <- AllFaults

INVARIANTS
  TypeOK
  AssociatedIsEnabled
  ChainAlive

PROPERTIES
  KeepsRefreshing
  DisabledEnds

CHECK_DEADLOCK FALSE
