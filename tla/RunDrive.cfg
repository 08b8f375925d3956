SPECIFICATION MCSpec
CONSTANTS
  r1 = r1
  r2 = r2
  s1 = s1
  s2 = s2
  Runs = {r1, r2}
  Servers = {s1, s2}
  Capacity = 1
  MaxWaits = 2
  MaxFaults = 1
INVARIANTS
  UnfinishedIsWatched
  SlotsAreServed
PROPERTIES
  RunsAdvance
CHECK_DEADLOCK FALSE
