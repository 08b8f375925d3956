SPECIFICATION Spec
CONSTANTS
  Engines = {e1, e2}
  Supervisors = {s1, s2}
  MaxDeaths = 1
INVARIANTS
  AttemptIsSound
PROPERTIES
  AttemptEnds
CHECK_DEADLOCK FALSE
