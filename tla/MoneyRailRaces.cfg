SPECIFICATION Spec
CONSTANTS
  Operations = {o1, o2}
  Keys = {k1, k2}
  Amounts = {10, 20}
  NoOperation = NoOperation
  Calls = {c1, c2}
  EventIds = {}
  NoEvent = NoEvent
  Serial = FALSE
  ServerMayCrash = FALSE
  ProviderMayFail = FALSE
  MaxTransfers = 1
INVARIANTS
  KeysUnique
CHECK_DEADLOCK FALSE
