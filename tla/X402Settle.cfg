SPECIFICATION Spec
CONSTANTS
  Agents = {a1, a2}
  NoAgent = NoAgent
  Gates = {g1, g2}
  Payers = {a1, a2}
  Credited = {a1, a2}
  Freezable = {a1}
  QuotedGates = {}
  Windows = {TRUE, FALSE}
  Amounts = {2}
  Funds = {4}
  HoldbackBps = {5000}
  LifecycleStatuses = {"active"}
  Reasons = {"funds_exhausted"}
  ReserveModes = {"stub", "fail"}
  RekeyedCreate = FALSE
  ServerMayCrash = TRUE
  MaxFunded = 4
  MaxOutbox = 2
SYMMETRY AnyGate
INVARIANTS
  TypeOK
  RecordsAgree
  MoneyConserved
  RecordsExplainBalances
  NothingStranded
PROPERTIES
  SettlesOnce
CHECK_DEADLOCK FALSE
