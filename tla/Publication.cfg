SPECIFICATION Spec
CONSTANTS
    p1 = p1
    p2 = p2
    p3 = p3
    r1 = r1
    r2 = r2
    Runs <- MCRuns
    Paths <- MCPaths
    Plans <- MCPlans
    None = None
    Old = Old
    Alien = Alien
    MaxEpoch = 2
    MaxEdits = 1
    MaxFaults = 1
INVARIANTS
  JournalIsTrue
PROPERTIES
  FilesUnderConsent
  AcceptedIsPublished
CHECK_DEADLOCK FALSE
