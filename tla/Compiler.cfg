CONSTANTS
  Replies <- RepliesTo
  Caps = {"v", "g"}
  Calls <- CallsOf
  RootRole = "parent"
  Reads <- ReadsOf
  Order <- OrderOf
  Publishers = {p1, p2}
  MaxWritten = 2
  NoFile = NoFile
SPECIFICATION Spec
SYMMETRY Interchangeable
INVARIANTS
  GraphMeansSource
  FragmentsAreHonest
  WaitingIsLawful
  EstimateBoundsRun
  ProfileIsKept
  PublicationsAreWhole
CHECK_DEADLOCK FALSE
