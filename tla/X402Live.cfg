SPECIFICATION FairSpec
CONSTANTS
  Agents = {a1, a2}
  NoAgent = NoAgent
  Gates = {g1, g2}
  Payers = {a1}
  Credited = {a1}
  Freezable = {a1}
  QuotedGates = {g1}
  Windows = {TRUE}
  Amounts = {2}
  Funds = {4}
  HoldbackBps = {5000}
  LifecycleStatuses = {"active"}
  Reasons = {"funds_exhausted"}
  ReserveModes = {"stub"}
  RekeyedCreate = FALSE
  ServerMayCrash = FALSE
  MaxFunded = 4
  MaxOutbox = 2
INVARIANTS
  FrozenPayerUnwound
  EscrowMatchesClaims
PROPERTIES
  FrozenHoldsResolve
  QueuedVoidsHappen
  HoldbacksArePaid
CHECK_DEADLOCK FALSE
