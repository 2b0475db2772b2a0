SPECIFICATION Spec
CONSTANTS
  Jobs = {j1}
  EvidenceJobs = {j1}
  RetentionAwaits = TRUE
  TornWrites = FALSE
  MaxCrashes = 1
  Garbage = Garbage
  Nothing = Nothing
  None = None
INVARIANTS
  ReplaySucceeds
CHECK_DEADLOCK FALSE
