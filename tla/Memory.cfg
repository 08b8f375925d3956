SPECIFICATION Spec
CONSTANTS
  Area = {"mem", "legacy"}
  Mid = {1, 2, 3}
  Client = {c1, c2}
  Profile = {"p1", "p2"}
  Chunks = 2
  Day = 2
  Staging = 1
  Days = {0, 1}
  TopK = 2
  FirstLimit = 1
  MaxNow = 2
  MaxGens = 4
  MaxCalls = 2
  Migrator = {x1, x2}
  Target = "p2"
  Order <- Areas
  MaxRuns = 3
  None = None
  Old = "p1"
  LateCalls = 1
SYMMETRY Symmetry
INVARIANTS
  EveryRecordIsServed
  SearchFinds
  ManifestIsTrue
PROPERTIES
  SourcesArePreserved
CHECK_DEADLOCK FALSE
