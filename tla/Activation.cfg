SPECIFICATION MCSpec
CONSTANTS
  k1 = k1  codex = codex  i1 = i1  i2 = i2  o1 = o1  o2 = o2
  t1 = t1  t2 = t2  r1 = r1  r2 = r2
  Keys = {k1}
  Runners = {codex}
  selector <- MCSelector
  Installs = {i1, i2}
  Owners = {o1, o2}
  MaxGeneration = 2
  Threads = {t1, t2}
  Pump = pump
  None = None
  Runs = {r1, r2}
  requirement <- MCRequirement
  MaxCommands = 2
  MaxFaults = 1
INVARIANTS
  CoreIsSound
  SweepHasAuthority
  SomebodyMoves
PROPERTIES
  UnderCurrentOwner
CHECK_DEADLOCK FALSE
