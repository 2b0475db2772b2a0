SPECIFICATION RaceSpec
CONSTANTS
  Agents = {a1, a2}
  NoAgent = NoAgent
  Gates = {g1, g2}
  Payers = {a1}
  Credited = {a1}
  Freezable = {}
  QuotedGates = {}
  Windows = {FALSE, TRUE}
  Amounts = {2}
  Funds = {4}
  HoldbackBps = {5000}
  LifecycleStatuses = {"active"}
  Reasons = {"funds_exhausted"}
  ReserveModes = {"stub"}
  RekeyedCreate = FALSE
  ServerMayCrash = TRUE
  MaxFunded = 4
  MaxOutbox = 1
  Calls = {c1}
  Worker = Worker
  Idle = Idle
  ReserveMayFail = TRUE
  VoidMayFail = TRUE
INVARIANTS
  RaceTypeOK
PROPERTIES
  HoldbackPaidOnce
  PayeesKeepMoney
CHECK_DEADLOCK FALSE
