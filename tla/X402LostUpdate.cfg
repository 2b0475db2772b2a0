SPECIFICATION RaceSpec
CONSTANTS
  Agents = {a1, a2}
  NoAgent = NoAgent
  Gates = {g1}
  Payers = {a1}
  Credited = {a1, a2}
  Freezable = {}
  QuotedGates = {}
  Windows = {FALSE}
  Amounts = {2}
  Funds = {2}
  HoldbackBps = {0}
  LifecycleStatuses = {"active"}
  Reasons = {"funds_exhausted"}
  ReserveModes = {"stub"}
  RekeyedCreate = FALSE
  ServerMayCrash = FALSE
  MaxFunded = 4
  MaxOutbox = 0
  Calls = {c1}
  Worker = Worker
  Idle = Idle
  ReserveMayFail = TRUE
  VoidMayFail = FALSE
INVARIANTS
  MoneyConserved
CHECK_DEADLOCK FALSE
