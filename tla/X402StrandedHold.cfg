SPECIFICATION Spec
CONSTANTS
  Agents = {a1, a2}
  NoAgent = NoAgent
  Gates = {g1, g2}
  Payers = {a1}
  Credited = {a1, a2}
  Freezable = {}
  QuotedGates = {}
  Windows = {FALSE}
  Amounts = {2}
  Funds = {4}
  HoldbackBps = {0}
  LifecycleStatuses = {"active"}
  Reasons = {"funds_exhausted"}
  ReserveModes = {"fail"}
  RekeyedCreate = FALSE
  ServerMayCrash = FALSE
  MaxFunded = 4
  MaxOutbox = 0
INVARIANTS
  HoldsAreFunded
CHECK_DEADLOCK FALSE
