SPECIFICATION Spec
CONSTANTS
  Calls = {c1, c2, c3}
  MaxLockDeaths = 1
INVARIANTS
  OneHolder
PROPERTIES
  OrphansAreBroken
