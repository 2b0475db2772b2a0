SPECIFICATION FairSpec
CONSTANTS
  Jobs = {j1, j2}
  EvidenceJobs = {j1}
  RetentionAwaits = FALSE
  TornWrites = FALSE
  MaxCrashes = 2
  Garbage = Garbage
  Nothing = Nothing
  None = None
INVARIANTS
  TypeOK
  ReplaySucceeds
  RecordedOnce
  LedgerMatchesEvents
PROPERTIES
  Implements
  SettledJobsCosted
CHECK_DEADLOCK FALSE
