SPECIFICATION Spec
CONSTANTS
  ProjectPaths <- Project
  Manual = {"A", "B"}
  Managed = {"M"}
  Surface <- Branch
  Drives = {x1, x2}
  None = None
  Claims = {"PASS"}
  MaxEdits = 1
  MaxLost = 0
  Sessions = {x1, x2}
  Runs = {r1}
  Steps <- Block
  Kind <- KindOf
  MaxLapses = 2
  MaxStarts = 2
  MaxKills = 1
  Procs = {x1, x2}
  Paths = {"a", "b"}
  Aliases = {{"a", "b"}}
  Declared = {"a"}
  Artifacts = {"a"}
  Required = {"a"}
  Control = "b"
  MaxEntries = 2
  Nothing = Nothing
  Torn = Torn
  MaxWsDeaths = 1
  MaxStray = 1
SYMMETRY Interchangeable
INVARIANTS
  BranchesMeet
  OwnerAnswers
  HandedOnAsDeclared
  OutputIsKept
PROPERTIES
  OwnerIsNotRobbed
CHECK_DEADLOCK FALSE
