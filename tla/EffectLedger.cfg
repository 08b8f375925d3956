SPECIFICATION Spec
CONSTANTS
  Keys = {e1, k2}
  Effects = {e1}
  Owners = {o1, o2}
  Ttls = {1}
  Times = {0, 1}
  MaxEpoch = 2
  Bindings = {b1}
INVARIANTS
  LedgerIsCoherent
PROPERTIES
  StaleHolderCannotWrite
  KeepsPromise
CHECK_DEADLOCK FALSE
