SPECIFICATION Spec
CONSTANTS
  Uuids = {u1}
  Overlays = {}
  Level2 = {}
  Level3 = {l3a, l3b}
  NoProvider = NoProvider
  Gui = Gui
  Workers = {w1, w2}
  NoJob = NoJob
  MaxRequests = 3
  FaultSets <- NoFaults
INVARIANTS
  EnabledIsAssociated
CHECK_DEADLOCK FALSE
