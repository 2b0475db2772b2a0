SPECIFICATION Spec
CONSTANTS
  Operations = {o1}
  Keys = {k1}
  Amounts = {10}
  NoOperation = NoOperation
  Calls = {c1}
  EventIds = {e1}
  NoEvent = NoEvent
  Serial = TRUE
  ServerMayCrash = TRUE
  ProviderMayFail = FALSE
  MaxTransfers = 2
INVARIANTS
  OneTransfer
CHECK_DEADLOCK FALSE
