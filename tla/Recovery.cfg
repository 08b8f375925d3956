SPECIFICATION Spec
CONSTANTS
  Procs = {p1, p2}
  RunIds = {1, 2}
  PageSize = 1
  MaxDeaths = 1
  Paths = {"a", "b"}
  Aliases = {}
  Declared = {"a"}
  Artifacts = {"a"}
  Required = {"a"}
  Control = "b"
  MaxEntries = 2
  None = None
  Torn = Torn
  Starters = {p1}
  MaxStray = 1
INVARIANTS
  BackfillIsSound
PROPERTIES
  AdmittedRunsBegin
  BackfillCompletes
  AttemptIsAnswered
CHECK_DEADLOCK FALSE
