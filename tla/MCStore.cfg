SPECIFICATION Spec
CONSTANTS
  Times = {1, 2, 3}
  Latest = 0
  Queries = {2}
  Files = {2}
  Level2 = TRUE
  Clients = {c1}
  Loaders = {w1}
  FileLoaders = {f1}
  Copies = {a, b}
  NoRecord = NoRecord
  NoTime = NoTime
  NoJob = NoJob
  NoThread = NoThread
  MinCacheLimit = 2
  CacheLimits = {0, 3}
  LoadMayFail = TRUE
  MaxLoads = 1
SYMMETRY Symmetry
INVARIANTS
  TypeOK
  SharedIsFound
  LastStoredInMemory
PROPERTIES
  ImplementsCache
