SPECIFICATION Spec
CONSTANTS
  Effects = {e1, e2}
  Drivers = {d1, d2}
  Refusals = {"changed"}
  MaxCrashes = 1
  MaxStalls = 0
SYMMETRY Interchangeable
INVARIANTS
  LedgerIsTrue
PROPERTIES
  LaunchIsCommitted
  KeepsRunPromise
CHECK_DEADLOCK FALSE
