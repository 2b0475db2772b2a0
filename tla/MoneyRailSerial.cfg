SPECIFICATION Spec
CONSTANTS
  Operations = {o1, o2}
  Keys = {k1, k2}
  Amounts = {10, 20}
  NoOperation = NoOperation
  Calls = {c1}
  EventIds = {e1}
  NoEvent = NoEvent
  Serial = TRUE
  ServerMayCrash = TRUE
  ProviderMayFail = TRUE
  MaxTransfers = 2
INVARIANTS
  TypeOK
  RecordedEventsApplied
PROPERTIES
  Implements
  
CHECK_DEADLOCK FALSE
