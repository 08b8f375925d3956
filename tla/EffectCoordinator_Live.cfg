SPECIFICATION Spec
CONSTANTS
  Effects = {e1}
  Drivers = {d1, d2}
  Refusals = {"denied", "changed"}
  MaxCrashes = 2
  MaxStalls = 1
PROPERTIES
  EveryEffectAnswered
CHECK_DEADLOCK FALSE
