SPECIFICATION Spec
CONSTANTS
  NumStatements = 3
  Party <- MCParty
  Gross <- MCGross
  Modes = {"off", "hold", "net"}
  MaxOutstanding = 2
  MaxPayout = 3
  DailyLimit = 2
  ListLimit = 3
  SuffixedSource = FALSE
  MaxDays = 2
  Calls = {c1, c2}
  Serial = FALSE
  ServerMayCrash = TRUE
  None = None
INVARIANTS
  OperationsInstructed
  OverrunBounded
CHECK_DEADLOCK FALSE
