--------------------------- MODULE MoneyRailProofs ---------------------------
(***************************************************************************)
(* The adapter over a store implements the adapter in memory when requests *)
(* do not overlap, and what holds when they do.                            *)
(***************************************************************************)
EXTENDS MoneyRailStore, TLAPS

(* A request that is about to write or record belongs to a known operation; *)
(* the operation it writes has the key it was created with.                 *)
CallsKnown ==
  \A c \in Calls :
    /\ calls[c].step # "idle" => calls[c].op \in Operations
    /\ calls[c].step \in {"transfer", "load"} => Exists(calls[c].op)
    /\ calls[c].step \in {"put", "record"} => calls[c].next \in Rail!Operation
    /\ calls[c].step = "record" => /\ calls[c].event \in EventIds
                                   /\ calls[c].next.state \in Rail!EventTypes
    /\ calls[c].step = "put" /\ calls[c].event # NoEvent =>
         calls[c].next.state \in Rail!EventTypes

TypeInv == TypeOK /\ CallsKnown

USE DEF Rail!Operation, Rail!States, Rail!EventTypes

(* The types hold at first. *)
LEMMA InitType == Init => TypeInv
  BY StoreAssumption DEF Init, TypeInv, TypeOK, CallsKnown, Idle, Call, Steps, Exists

(* Every step keeps the types. *)
LEMMA StepType == TypeInv /\ [Next]_vars => TypeInv'
<1> SUFFICES ASSUME TypeInv, [Next]_vars PROVE TypeInv'
  OBVIOUS
<1> USE StoreAssumption DEF TypeInv, TypeOK, Call, Steps
<1>1. ASSUME NEW c \in Calls, NEW o \in Operations, NEW k \in Keys, NEW a \in Amounts,
             StartCreate(c, o, k, a)
      PROVE  TypeInv'
  <2>1. Rail!buildOperationRecord(k, a) \in Rail!Operation
    BY DEF Rail!buildOperationRecord
  <2>2. TypeOK'
    BY <1>1, <2>1 DEF StartCreate, Await
  <2>3. CallsKnown'
    BY <1>1, <2>1 DEF StartCreate, Await, CallsKnown, Exists
  <2>4. QED BY <2>2, <2>3
<1>2. ASSUME NEW c \in Calls, NEW o \in Operations, StartCancel(c, o)
      PROVE  TypeInv'
  <2>1. [operations[o] EXCEPT !.state = "cancelled"] \in Rail!Operation
    BY <1>2 DEF StartCancel, Exists
  <2>2. TypeOK'
    BY <1>2, <2>1 DEF StartCancel, Await
  <2>3. CallsKnown'
    BY <1>2, <2>1 DEF StartCancel, Await, CallsKnown, Exists
  <2>4. QED BY <2>2, <2>3
<1>3. ASSUME NEW c \in Calls, NEW o \in Operations, StartSubmit(c, o)
      PROVE  TypeInv'
  BY <1>3 DEF StartSubmit, Await, CallsKnown, Exists
<1>4. ASSUME NEW c \in Calls, NEW o \in Operations, NEW type \in Rail!EventTypes,
             NEW e \in EventIds, StartIngest(c, o, type, e)
      PROVE  TypeInv'
  <2>1. /\ [operations[o] EXCEPT !.state = type] \in Rail!Operation
        /\ [operations[o] EXCEPT !.state = type].state = type
    BY <1>4 DEF StartIngest, Exists
  <2>2. TypeOK'
    BY <1>4, <2>1 DEF StartIngest, Await
  <2>3. CallsKnown'
    BY <1>4, <2>1 DEF StartIngest, Await, CallsKnown, Exists
  <2>4. QED BY <2>2, <2>3
<1>5. ASSUME NEW c \in Calls, Transfer(c) \/ TransferFails(c)
      PROVE  TypeInv'
  BY <1>5 DEF Transfer, TransferFails, Await, Return, Idle, CallsKnown, Exists
<1>6. ASSUME NEW c \in Calls, LoadSubmitted(c)
      PROVE  TypeInv'
  <2>1. /\ calls[c].op \in Operations
        /\ [operations[calls[c].op] EXCEPT !.state = "submitted"] \in Rail!Operation
    BY <1>6 DEF LoadSubmitted, CallsKnown, Exists
  <2>2. \/ Await(c, "put", calls[c].op,
                 [operations[calls[c].op] EXCEPT !.state = "submitted"], NoEvent)
        \/ Return(c)
    BY <1>6 DEF LoadSubmitted
  <2>3. TypeOK'
    <3>1. UNCHANGED <<operations, providerEvents, transfers>>
      BY <1>6 DEF LoadSubmitted
    <3>2. CASE Await(c, "put", calls[c].op,
                     [operations[calls[c].op] EXCEPT !.state = "submitted"], NoEvent)
      BY <3>1, <3>2, <2>1 DEF Await
    <3>3. CASE Return(c)
      BY <3>1, <3>3 DEF Return, Idle
    <3>4. QED BY <2>2, <3>2, <3>3
  <2>4. CallsKnown'
    BY <1>6, <2>1, <2>2 DEF LoadSubmitted, Await, Return, Idle, CallsKnown, Exists
  <2>5. QED BY <2>3, <2>4
<1>7. ASSUME NEW c \in Calls, PutOperation(c)
      PROVE  TypeInv'
  <2>1. calls[c].op \in Operations /\ calls[c].next \in Rail!Operation
    BY <1>7 DEF PutOperation, CallsKnown
  <2>2. TypeOK'
    BY <1>7, <2>1 DEF PutOperation, Await, Return, Idle
  <2>3. CallsKnown'
    BY <1>7, <2>1 DEF PutOperation, Await, Return, Idle, CallsKnown, Exists
  <2>4. QED BY <2>2, <2>3
<1>8. ASSUME NEW c \in Calls, RecordEvent(c)
      PROVE  TypeInv'
  BY <1>8 DEF RecordEvent, Return, Idle, CallsKnown, Exists
<1>9. CASE Crash
  BY <1>9 DEF Crash, Idle, CallsKnown, Exists
<1>10. CASE UNCHANGED vars
  BY <1>10 DEF vars, CallsKnown, Exists
<1>11. QED
  BY <1>1, <1>2, <1>3, <1>4, <1>5, <1>6, <1>7, <1>8, <1>9, <1>10 DEF Next

(* Every record, event and request in flight is well formed, with any number *)
(* of overlapping requests, failures and crashes.                            *)
THEOREM RailTypeCorrect == Spec => []TypeOK
<1>1. TypeInv => TypeOK
  BY DEF TypeInv
<1>2. QED
  BY <1>1, InitType, StepType, PTL DEF Spec

-----------------------------------------------------------------------------
(* Two operations never share an idempotency key, however requests overlap:   *)
(* the unique constraint of putMoneyRailOperation decides, not the lookup.    *)
THEOREM KeysStayUnique == Spec => []KeysUnique
<1> USE DEF KeysUnique
<1>1. Init => KeysUnique
  BY DEF Init, Exists
<1>2. TypeInv /\ KeysUnique /\ [Next]_vars => KeysUnique'
  <2> SUFFICES ASSUME TypeInv, KeysUnique, [Next]_vars PROVE KeysUnique'
    OBVIOUS
  <2>1. CASE operations' = operations
    BY <2>1 DEF Exists
  <2>2. ASSUME NEW c \in Calls, PutOperation(c), operations' # operations
        PROVE  KeysUnique'
    <3>1. /\ calls[c].op \in Operations
          /\ ~KeyConflict(calls[c].op, calls[c].next)
          /\ operations' = [operations EXCEPT ![calls[c].op] = calls[c].next]
          /\ operations \in [Operations -> Rail!Operation \cup {NoOperation}]
      BY <2>2 DEF PutOperation, TypeInv, TypeOK, CallsKnown
    <3>2. QED
      BY <3>1 DEF KeyConflict, Exists
  <2>3. QED
    BY <2>1, <2>2 DEF Next, vars, StartCreate, StartCancel, StartSubmit, StartIngest,
       Transfer, TransferFails, LoadSubmitted, RecordEvent, Crash
<1>3. QED
  BY <1>1, <1>2, InitType, StepType, PTL DEF Spec

-----------------------------------------------------------------------------
(* One request at a time: what it read is still in the store when it writes. *)
Snapshot(c) ==
  LET o == calls[c].op  next == calls[c].next IN
  /\ calls[c].step = "put" =>
       \/ /\ ~Exists(o) /\ calls[c].event = NoEvent
          /\ next.state = "initiated" /\ ~Rail!KeyUsed(operations, next.key)
       \/ /\ Exists(o)
          /\ next = [operations[o] EXCEPT !.state = next.state]
          /\ TransitionAllowed(operations[o].state, next.state)
  /\ calls[c].step = "record" => operations[o] = next

SerialInv ==
  /\ TypeInv
  /\ \A c, d \in Calls : calls[c] # Idle /\ calls[d] # Idle => c = d
  /\ \A c \in Calls : Snapshot(c)
  /\ RecordedEventsApplied

(* The invariant of requests that do not overlap holds at first. *)
LEMMA SerialInit == Init => SerialInv
  BY InitType DEF Init, SerialInv, Snapshot, Idle, RecordedEventsApplied

(* A state that is reached from a reachable one is reachable. *)
LEMMA ReachableStep ==
  ASSUME NEW s \in Rail!EventTypes, NEW t \in Reachable(s), NEW u \in Rail!States,
         TransitionAllowed(t, u)
  PROVE  u \in Reachable(s)
  BY DEF Reachable, TransitionAllowed, Rail!ALLOWED_STATE_TRANSITIONS

(* A write of a request that ran alone is a step of the adapter in memory. *)
LEMMA PutRefines ==
  ASSUME SerialInv, NEW c \in Calls, PutOperation(c)
  PROVE  [Rail!Next]_operations
<1> DEFINE o == calls[c].op
           next == calls[c].next
<1>1. /\ o \in Operations /\ next \in Rail!Operation
      /\ operations \in [Operations -> Rail!Operation \cup {NoOperation}]
      /\ calls[c].step = "put"
  BY DEF PutOperation, SerialInv, TypeInv, TypeOK, CallsKnown
<1>2. CASE operations' = operations
  BY <1>2
<1>3. CASE operations' # operations
  <2>1. operations' = [operations EXCEPT ![o] = next]
    BY <1>3 DEF PutOperation
  <2>2. CASE ~Exists(o)
    <3>1. next.state = "initiated" /\ ~Rail!KeyUsed(operations, next.key)
      BY <1>1, <2>2 DEF SerialInv, Snapshot
    <3>2. next = Rail!buildOperationRecord(next.key, next.amount)
      BY <1>1, <3>1 DEF Rail!buildOperationRecord
    <3>3. Rail!create(o, next.key, next.amount)
      BY <2>1, <2>2, <3>1, <3>2 DEF Rail!create, Exists
    <3>4. QED
      BY <1>1, <3>3 DEF Rail!Next
  <2>3. CASE Exists(o)
    <3>1. /\ next = [operations[o] EXCEPT !.state = next.state]
          /\ TransitionAllowed(operations[o].state, next.state)
      BY <1>1, <2>3 DEF SerialInv, Snapshot
    <3>2. operations[o] \in Rail!Operation
      BY <1>1, <2>3 DEF Exists
    <3>3. operations[o].state # next.state
      BY <1>1, <1>3, <2>1, <3>1, <3>2
    <3>4. next.state \in Rail!ALLOWED_STATE_TRANSITIONS[operations[o].state]
      BY <3>1, <3>3 DEF TransitionAllowed
    <3>5. next.state \in Rail!EventTypes
      BY <3>2, <3>4 DEF Rail!ALLOWED_STATE_TRANSITIONS
    <3>6. Rail!applyStateTransition(o, next.state)
      BY <2>1, <2>3, <3>1, <3>4 DEF Rail!applyStateTransition, Exists
    <3>7. QED
      BY <1>1, <3>5, <3>6 DEF Rail!Next
  <2>4. QED BY <2>2, <2>3
<1>4. QED BY <1>2, <1>3

(* While one request runs no other starts, so the snapshots stay true. *)
LEMMA SerialStep ==
  ASSUME Serial, SerialInv, [Next]_vars
  PROVE  SerialInv'
<1>0. TypeInv'
  BY StepType DEF SerialInv
<1> USE StoreAssumption DEF SerialInv, TypeInv, TypeOK
<1>1. ASSUME NEW c \in Calls, NEW o \in Operations, NEW k \in Keys, NEW a \in Amounts,
             StartCreate(c, o, k, a)
      PROVE  SerialInv'
  <2>1. /\ Rail!buildOperationRecord(k, a).state = "initiated"
        /\ Rail!buildOperationRecord(k, a).key = k
    BY DEF Rail!buildOperationRecord
  <2>2. \A d \in Calls \ {c} : calls'[d] = Idle
    BY <1>1 DEF StartCreate, MayStart, Await
  <2>3. Snapshot(c)'
    BY <1>1, <2>1 DEF StartCreate, Await, Snapshot, Exists, Rail!KeyUsed
  <2>4. \A d \in Calls : Snapshot(d)'
    BY <2>2, <2>3 DEF Snapshot, Idle
  <2>5. RecordedEventsApplied'
    BY <1>1 DEF StartCreate, RecordedEventsApplied, Exists
  <2>6. QED BY <1>0, <2>2, <2>4, <2>5
<1>2. ASSUME NEW c \in Calls, NEW o \in Operations, StartCancel(c, o)
      PROVE  SerialInv'
  <2>1. TransitionAllowed(operations[o].state, "cancelled")
    BY <1>2 DEF StartCancel, Exists, TransitionAllowed, Rail!ALLOWED_STATE_TRANSITIONS
  <2>2. \A d \in Calls \ {c} : calls'[d] = Idle
    BY <1>2 DEF StartCancel, MayStart, Await
  <2>3. [operations[o] EXCEPT !.state = "cancelled"].state = "cancelled"
    BY <1>2 DEF StartCancel, Exists
  <2>4. Snapshot(c)'
    BY <1>2, <2>1, <2>3 DEF StartCancel, Await, Snapshot, Exists
  <2>5. \A d \in Calls : Snapshot(d)'
    BY <2>2, <2>4 DEF Snapshot, Idle
  <2>6. RecordedEventsApplied'
    BY <1>2 DEF StartCancel, RecordedEventsApplied, Exists
  <2>7. QED BY <1>0, <2>2, <2>5, <2>6
<1>3. ASSUME NEW c \in Calls, NEW o \in Operations, StartSubmit(c, o)
      PROVE  SerialInv'
  <2>1. \A d \in Calls \ {c} : calls'[d] = Idle
    BY <1>3 DEF StartSubmit, MayStart, Await
  <2>2. \A d \in Calls : Snapshot(d)'
    BY <1>3, <2>1 DEF StartSubmit, Await, Snapshot, Idle
  <2>3. RecordedEventsApplied'
    BY <1>3 DEF StartSubmit, RecordedEventsApplied, Exists
  <2>4. QED BY <1>0, <2>1, <2>2, <2>3
<1>4. ASSUME NEW c \in Calls, NEW o \in Operations, NEW type \in Rail!EventTypes,
             NEW e \in EventIds, StartIngest(c, o, type, e)
      PROVE  SerialInv'
  <2>1. \A d \in Calls \ {c} : calls'[d] = Idle
    BY <1>4 DEF StartIngest, MayStart, Await
  <2>2. [operations[o] EXCEPT !.state = type].state = type
    BY <1>4 DEF StartIngest, Exists
  <2>3. Snapshot(c)'
    BY <1>4, <2>2 DEF StartIngest, Await, Snapshot, Exists
  <2>4. \A d \in Calls : Snapshot(d)'
    BY <2>1, <2>3 DEF Snapshot, Idle
  <2>5. RecordedEventsApplied'
    BY <1>4 DEF StartIngest, RecordedEventsApplied, Exists
  <2>6. QED BY <1>0, <2>1, <2>4, <2>5
<1>5. ASSUME NEW c \in Calls, Transfer(c) \/ TransferFails(c)
      PROVE  SerialInv'
  <2>1. \A d \in Calls \ {c} : calls'[d] = Idle
    BY <1>5 DEF Transfer, TransferFails, Await, Return, Idle
  <2>2. \A d \in Calls : Snapshot(d)'
    BY <1>5, <2>1 DEF Transfer, TransferFails, Await, Return, Snapshot, Idle
  <2>3. RecordedEventsApplied'
    BY <1>5 DEF Transfer, TransferFails, RecordedEventsApplied, Exists
  <2>4. QED BY <1>0, <2>1, <2>2, <2>3
<1>6. ASSUME NEW c \in Calls, LoadSubmitted(c)
      PROVE  SerialInv'
  <2>1. \A d \in Calls \ {c} : calls'[d] = Idle
    BY <1>6 DEF LoadSubmitted, Await, Return, Idle
  <2>2. /\ calls[c].op \in Operations /\ Exists(calls[c].op)
        /\ operations[calls[c].op] \in Rail!Operation
    BY <1>6 DEF LoadSubmitted, CallsKnown, Exists
  <2>3. [operations[calls[c].op] EXCEPT !.state = "submitted"].state = "submitted"
    BY <2>2
  <2>4. Snapshot(c)'
    BY <1>6, <2>2, <2>3 DEF LoadSubmitted, Await, Return, Snapshot, Exists, Idle
  <2>5. \A d \in Calls : Snapshot(d)'
    BY <2>1, <2>4 DEF Snapshot, Idle
  <2>6. RecordedEventsApplied'
    BY <1>6 DEF LoadSubmitted, RecordedEventsApplied, Exists
  <2>7. QED BY <1>0, <2>1, <2>5, <2>6
<1>7. ASSUME NEW c \in Calls, PutOperation(c)
      PROVE  SerialInv'
  <2>1. \A d \in Calls \ {c} : calls'[d] = Idle
    BY <1>7 DEF PutOperation, Await, Return, Idle
  <2>2. calls[c].op \in Operations /\ calls[c].next \in Rail!Operation
    BY <1>7 DEF PutOperation, CallsKnown
  <2>3. \A d \in Calls : Snapshot(d)'
    BY <1>7, <2>1, <2>2 DEF PutOperation, Await, Return, Snapshot, Idle
  <2>4. RecordedEventsApplied'
    <3>1. CASE operations' = operations
      BY <1>7, <3>1 DEF PutOperation, RecordedEventsApplied, Exists
    <3>2. CASE operations' # operations
      <4>1. operations' = [operations EXCEPT ![calls[c].op] = calls[c].next]
        BY <1>7, <3>2 DEF PutOperation
      <4>2. Exists(calls[c].op) =>
              TransitionAllowed(operations[calls[c].op].state, calls[c].next.state)
        BY <1>7 DEF PutOperation, Snapshot
      <4>3. calls[c].next # NoOperation /\ calls[c].next.state \in Rail!States
        BY <2>2
      <4> SUFFICES ASSUME NEW p \in Operations, NEW type \in Rail!EventTypes,
                          NEW e \in EventIds, <<p, type, e>> \in providerEvents
                   PROVE  /\ operations'[p] # NoOperation
                          /\ operations'[p].state \in Reachable(type)
        BY <1>7 DEF PutOperation, RecordedEventsApplied, Exists, Reachable
      <4>4. Exists(p) /\ operations[p].state \in Reachable(type)
        BY DEF RecordedEventsApplied
      <4>5. QED
        BY <4>1, <4>2, <4>3, <4>4, <2>2, ReachableStep DEF Exists
    <3>3. QED BY <3>1, <3>2
  <2>5. QED BY <1>0, <2>1, <2>3, <2>4
<1>8. ASSUME NEW c \in Calls, RecordEvent(c)
      PROVE  SerialInv'
  <2>1. \A d \in Calls : calls'[d] = Idle
    BY <1>8 DEF RecordEvent, Return, Idle
  <2>2. \A d \in Calls : Snapshot(d)'
    BY <2>1 DEF Snapshot, Idle
  <2>3. /\ calls[c].op \in Operations /\ calls[c].next \in Rail!Operation
        /\ calls[c].next.state \in Rail!EventTypes
        /\ operations[calls[c].op] = calls[c].next
    BY <1>8 DEF RecordEvent, CallsKnown, Snapshot
  <2>4. calls[c].next.state \in Reachable(calls[c].next.state)
    BY DEF Reachable
  <2>5. RecordedEventsApplied'
    BY <1>8, <2>3, <2>4 DEF RecordEvent, RecordedEventsApplied, Exists, Reachable
  <2>6. QED BY <1>0, <2>1, <2>2, <2>5
<1>9. CASE Crash
  BY <1>0, <1>9 DEF Crash, Snapshot, Idle, RecordedEventsApplied, Exists
<1>10. CASE UNCHANGED vars
  BY <1>0, <1>10 DEF vars, Snapshot, RecordedEventsApplied, Exists, Rail!KeyUsed
<1>11. QED
  BY <1>1, <1>2, <1>3, <1>4, <1>5, <1>6, <1>7, <1>8, <1>9, <1>10 DEF Next

(* When requests do not overlap, an event that ingestProviderEvent will ignore *)
(* as recorded has had its effect: crashes between the write of the operation  *)
(* and the record of the event, repeats and reorderings included.              *)
THEOREM EventsApplied == Serial => (Spec => []RecordedEventsApplied)
<1> SUFFICES ASSUME Serial PROVE Spec => []RecordedEventsApplied
  OBVIOUS
<1>1. SerialInv /\ [Next]_vars => SerialInv'
  BY SerialStep
<1>2. SerialInv => RecordedEventsApplied
  BY DEF SerialInv
<1>3. QED
  BY <1>1, <1>2, SerialInit, PTL DEF Spec

(* When requests do not overlap, the adapter over a store behaves like the     *)
(* adapter in memory, whose methods are atomic.                                *)
THEOREM StoreImplementsRail == Serial => (Spec => Implements)
<1> SUFFICES ASSUME Serial PROVE Spec => Implements
  OBVIOUS
<1>1. Init => Rail!Init
  BY DEF Init, Rail!Init
<1>2. SerialInv /\ [Next]_vars => [Rail!Next]_operations
  <2> SUFFICES ASSUME SerialInv, [Next]_vars, operations' # operations
               PROVE  Rail!Next
    OBVIOUS
  <2>1. \E c \in Calls : PutOperation(c)
    BY DEF Next, vars, StartCreate, StartCancel, StartSubmit, StartIngest,
       Transfer, TransferFails, LoadSubmitted, RecordEvent, Crash
  <2>2. QED BY <2>1, PutRefines
<1>3. SerialInv /\ [Next]_vars => SerialInv'
  BY SerialStep
<1>4. QED
  BY <1>1, <1>2, <1>3, SerialInit, PTL DEF Spec, Implements, Rail!Spec

(* When requests do not overlap, an operation changes its state only along   *)
(* the table, as docs/spec/MONEY_RAIL_STATE_MACHINE.md says.                 *)
THEOREM StoreFollowsTable == Serial => (Spec => TransitionsFollowTable)
<1> SUFFICES ASSUME Serial PROVE Spec => TransitionsFollowTable
  OBVIOUS
<1> DEFINE Follows == \A o \in Operations :
                        Exists(o) => TransitionAllowed(operations[o].state, operations'[o].state)
<1>1. SerialInv /\ [Next]_vars => [Follows]_vars
  <2> SUFFICES ASSUME SerialInv, [Next]_vars PROVE Follows
    OBVIOUS
  <2>1. CASE operations' = operations
    BY <2>1 DEF TransitionAllowed
  <2>2. ASSUME NEW c \in Calls, PutOperation(c), operations' # operations PROVE Follows
    <3>1. /\ operations' = [operations EXCEPT ![calls[c].op] = calls[c].next]
          /\ operations \in [Operations -> Rail!Operation \cup {NoOperation}]
          /\ calls[c].step = "put"
      BY <2>2 DEF PutOperation, SerialInv, TypeInv, TypeOK
    <3>2. Exists(calls[c].op) => TransitionAllowed(operations[calls[c].op].state, calls[c].next.state)
      BY <3>1 DEF SerialInv, Snapshot
    <3> QED BY <3>1, <3>2 DEF TransitionAllowed
  <2> QED BY <2>1, <2>2 DEF Next, vars, StartCreate, StartCancel, StartSubmit, StartIngest,
       Transfer, TransferFails, LoadSubmitted, RecordEvent, Crash
<1>2. SerialInv /\ [Next]_vars => SerialInv'
  BY SerialStep
<1> QED BY <1>1, <1>2, SerialInit, PTL DEF Spec, TransitionsFollowTable

(* When requests do not overlap, the request behind an operation is never    *)
(* replaced: no write after a lookup that found another request, or none.    *)
THEOREM RequestsKept == Serial => (Spec => RequestKept)
<1> SUFFICES ASSUME Serial PROVE Spec => RequestKept
  OBVIOUS
<1> DEFINE Kept == \A o \in Operations :
             Exists(o) => /\ operations'[o] # NoOperation
                          /\ operations'[o].key = operations[o].key
                          /\ operations'[o].amount = operations[o].amount
<1>1. SerialInv /\ [Next]_vars => [Kept]_vars
  <2> SUFFICES ASSUME SerialInv, [Next]_vars, NEW o \in Operations, Exists(o)
               PROVE  /\ operations'[o] # NoOperation
                      /\ operations'[o].key = operations[o].key
                      /\ operations'[o].amount = operations[o].amount
    OBVIOUS
  <2>1. CASE operations'[o] = operations[o]
    BY <2>1 DEF Exists
  <2>2. ASSUME NEW c \in Calls, PutOperation(c), operations'[o] # operations[o]
        PROVE  /\ operations'[o] # NoOperation
               /\ operations'[o].key = operations[o].key
               /\ operations'[o].amount = operations[o].amount
    <3>1. /\ operations' = [operations EXCEPT ![calls[c].op] = calls[c].next]
          /\ operations \in [Operations -> Rail!Operation \cup {NoOperation}]
          /\ calls[c].step = "put" /\ calls[c].next \in Rail!Operation
      BY <2>2 DEF PutOperation, SerialInv, TypeInv, TypeOK, CallsKnown
    <3>2. calls[c].op = o /\ operations'[o] = calls[c].next
      BY <2>2, <3>1
    <3>3. \E next \in Rail!Operation : \E s : /\ next = operations'[o]
                                             /\ next = [operations[o] EXCEPT !.state = s]
      BY <3>1, <3>2 DEF SerialInv, Snapshot
    <3> PICK next \in Rail!Operation : \E s : /\ next = operations'[o]
                                             /\ next = [operations[o] EXCEPT !.state = s]
      BY <3>3
    <3>4. operations[o] \in Rail!Operation
      BY <3>1 DEF Exists
    <3>5. next.key = operations[o].key /\ next.amount = operations[o].amount
      BY <3>4
    <3>6. next = operations'[o]
      OBVIOUS
    <3> QED BY <3>5, <3>6, StoreAssumption
  <2> QED BY <2>1, <2>2 DEF Next, vars, StartCreate, StartCancel, StartSubmit, StartIngest,
       Transfer, TransferFails, LoadSubmitted, RecordEvent, Crash
<1>2. SerialInv /\ [Next]_vars => SerialInv'
  BY SerialStep
<1> QED BY <1>1, <1>2, SerialInit, PTL DEF Spec, RequestKept

-----------------------------------------------------------------------------
(* One transfer.  The request to the provider has no idempotency key, so     *)
(* what keeps the money from moving twice is that nothing comes between the  *)
(* transfer and the write that takes the operation out of "initiated".       *)

Submitting(c, o) ==
  /\ calls[c].op = o
  /\ calls[c].step = "load" \/ (calls[c].step = "put" /\ calls[c].next.state = "submitted")

Moved(o) == (Exists(o) /\ operations[o].state # "initiated") \/ \E c \in Calls : Submitting(c, o)

PaidInv ==
  /\ OneTransfer
  /\ \A o \in Operations : transfers[o] = 1 => Moved(o)
  /\ \A c \in Calls : calls[c].step \in {"transfer", "load"} => operations[calls[c].op].state = "initiated"
  /\ \A c \in Calls : calls[c].step = "transfer" => transfers[calls[c].op] = 0

(* A request that runs alone writes what it has read with its new state: the *)
(* store finds no conflict.                                                  *)
LEMMA PutWrites ==
  ASSUME SerialInv, KeysUnique, NEW c \in Calls, PutOperation(c), Exists(calls[c].op)
  PROVE  operations' = [operations EXCEPT ![calls[c].op] = calls[c].next]
<1> DEFINE o == calls[c].op
<1>1. /\ o \in Operations /\ calls[c].next \in Rail!Operation
      /\ operations[o] \in Rail!Operation
  BY DEF PutOperation, SerialInv, TypeInv, TypeOK, CallsKnown, Exists
<1>2. calls[c].next = [operations[o] EXCEPT !.state = calls[c].next.state]
  BY DEF PutOperation, SerialInv, Snapshot
<1>3. calls[c].next.key = operations[o].key /\ calls[c].next.amount = operations[o].amount
  BY <1>1, <1>2
<1>4. ~KeyConflict(o, calls[c].next)
  BY <1>1, <1>3 DEF KeyConflict, KeysUnique
<1> QED BY <1>4 DEF PutOperation

(* A step that starts a request finds no other under way. *)
LEMMA StartPays ==
  ASSUME Serial, SerialInv, PaidInv, NEW c \in Calls, MayStart(c),
         UNCHANGED <<operations, providerEvents, transfers>>,
         \A d \in Calls \ {c} : calls'[d] = calls[d],
         calls'[c].step = "put" \/
           (calls'[c].step = "transfer" /\ calls'[c].op \in Operations
              /\ Exists(calls'[c].op) /\ operations[calls'[c].op].state = "initiated")
  PROVE  PaidInv'
<1>1. \A d \in Calls : calls[d].step = "idle"
  BY DEF MayStart, Idle
<1>2. \A o \in Operations : transfers[o] = 1 => Exists(o) /\ operations[o].state # "initiated"
  BY <1>1 DEF PaidInv, Moved, Submitting
<1>3. \A o \in Operations : transfers[o] \in Nat /\ transfers[o] <= 1
  BY DEF SerialInv, TypeInv, TypeOK, PaidInv, OneTransfer
<1>4. \A o \in Operations : Exists(o) /\ operations[o].state = "initiated" => transfers[o] = 0
  BY <1>2, <1>3
<1>5. OneTransfer' /\ \A o \in Operations : transfers'[o] = 1 => Moved(o)'
  BY <1>2, <1>3 DEF OneTransfer, Moved, Exists
<1> QED BY <1>1, <1>4, <1>5 DEF PaidInv

(* Every step keeps it as long as nothing fails. *)
LEMMA StepPays ==
  ASSUME Serial, ~ServerMayCrash, ~ProviderMayFail, SerialInv, KeysUnique, PaidInv, [Next]_vars
  PROVE  PaidInv'
<1>1. calls \in [Calls -> Call] /\ operations \in [Operations -> Rail!Operation \cup {NoOperation}]
      /\ transfers \in [Operations -> Nat]
  BY DEF SerialInv, TypeInv, TypeOK
<1>2. ASSUME NEW c \in Calls, NEW o \in Operations, NEW k \in Keys, NEW a \in Amounts,
             StartCreate(c, o, k, a)
      PROVE  PaidInv'
  BY <1>1, <1>2, StartPays DEF StartCreate, Await
<1>3. ASSUME NEW c \in Calls, NEW o \in Operations, StartCancel(c, o) PROVE PaidInv'
  BY <1>1, <1>3, StartPays DEF StartCancel, Await
<1>4. ASSUME NEW c \in Calls, NEW o \in Operations, StartSubmit(c, o) PROVE PaidInv'
  BY <1>1, <1>4, StartPays DEF StartSubmit, Await
<1>5. ASSUME NEW c \in Calls, NEW o \in Operations, NEW type \in Rail!EventTypes,
             NEW e \in EventIds, StartIngest(c, o, type, e)
      PROVE  PaidInv'
  BY <1>1, <1>5, StartPays DEF StartIngest, Await
<1>6. ASSUME NEW c \in Calls, Transfer(c) PROVE PaidInv'
  <2>1. PICK o \in Operations : o = calls[c].op
    BY <1>6 DEF Transfer, SerialInv, TypeInv, CallsKnown
  <2>2. /\ calls[c].step = "transfer" /\ transfers[o] = 0
        /\ operations[o].state = "initiated" /\ UNCHANGED operations
        /\ transfers' = [transfers EXCEPT ![o] = @ + 1]
    BY <1>6, <2>1 DEF Transfer, PaidInv
  <2>3. /\ calls'[c].step = "load" /\ calls'[c].op = o
        /\ \A d \in Calls \ {c} : calls'[d] = calls[d]
    BY <1>1, <1>6, <2>1 DEF Transfer, Await
  <2>4. \A d \in Calls \ {c} : calls[d].step = "idle"
    BY <2>2 DEF SerialInv, Idle
  <2>5. transfers'[o] = 1 /\ \A p \in Operations \ {o} : transfers'[p] = transfers[p]
    BY <1>1, <2>2
  <2>6. Submitting(c, o)'
    BY <2>3 DEF Submitting
  <2>7. \A p \in Operations \ {o} : transfers'[p] = 1 => Moved(p)'
    BY <2>2, <2>4, <2>5 DEF PaidInv, Moved, Submitting, Exists
  <2>8. OneTransfer'
    BY <2>5 DEF PaidInv, OneTransfer
  <2>9. \A p \in Operations : transfers'[p] = 1 => Moved(p)'
    BY <2>6, <2>7 DEF Moved
  <2> QED BY <2>2, <2>3, <2>4, <2>8, <2>9 DEF PaidInv
<1>7. ASSUME NEW c \in Calls, LoadSubmitted(c) PROVE PaidInv'
  <2>1. PICK o \in Operations : o = calls[c].op
    BY <1>7 DEF LoadSubmitted, SerialInv, TypeInv, CallsKnown
  <2>2. /\ calls[c].step = "load" /\ operations[o].state = "initiated" /\ Exists(o)
        /\ UNCHANGED <<operations, transfers>>
    BY <1>7, <2>1 DEF LoadSubmitted, PaidInv, SerialInv, TypeInv, CallsKnown
  <2>3. TransitionAllowed(operations[o].state, "submitted")
    BY <2>2 DEF TransitionAllowed, Rail!ALLOWED_STATE_TRANSITIONS
  <2>5. /\ calls'[c].step = "put" /\ calls'[c].op = o /\ calls'[c].next.state = "submitted"
        /\ \A d \in Calls \ {c} : calls'[d] = calls[d]
    <3>1. PICK new \in Rail!Operation : /\ new = [operations[o] EXCEPT !.state = "submitted"]
                                       /\ new.state = "submitted"
      <4>1. operations[o] \in Rail!Operation
        BY <1>1, <2>2 DEF Exists
      <4>2. /\ [operations[o] EXCEPT !.state = "submitted"] \in Rail!Operation
            /\ [operations[o] EXCEPT !.state = "submitted"].state = "submitted"
        BY <4>1
      <4>3. QED BY <4>2
    <3>2. calls' = [calls EXCEPT ![c] =
                      [step |-> "put", op |-> o, next |-> new, event |-> NoEvent]]
      BY <1>7, <2>1, <2>3, <3>1 DEF LoadSubmitted, Await
    <3> QED BY <1>1, <3>1, <3>2
  <2>6. \A p \in Operations, d \in Calls : Submitting(d, p) => Submitting(d, p)'
    BY <2>1, <2>5 DEF Submitting
  <2>7. \A p \in Operations : Moved(p) => Moved(p)'
    BY <2>2, <2>6 DEF Moved, Exists
  <2> QED BY <2>2, <2>5, <2>7 DEF PaidInv, OneTransfer
<1>8. ASSUME NEW c \in Calls, PutOperation(c) PROVE PaidInv'
  <2>1. PICK o \in Operations, next \in Rail!Operation : o = calls[c].op /\ next = calls[c].next
    BY <1>8 DEF PutOperation, SerialInv, TypeInv, CallsKnown
  <2>2. calls[c].step = "put" /\ UNCHANGED transfers
    BY <1>8 DEF PutOperation
  <2>3. \A d \in Calls \ {c} : calls[d].step = "idle"
    BY <2>2 DEF SerialInv, Idle
  <2>4. calls'[c].step \in {"idle", "record"} /\ \A d \in Calls \ {c} : calls'[d] = calls[d]
    BY <1>1, <1>8 DEF PutOperation, Return, Await, Idle
  <2>5. CASE Exists(o)
    <3>1. operations' = [operations EXCEPT ![o] = next]
      BY <1>8, <2>1, <2>5, PutWrites
    <3>2. TransitionAllowed(operations[o].state, next.state)
      BY <2>1, <2>2, <2>5 DEF SerialInv, Snapshot
    <3>3. /\ operations[o].state \in Rail!States
          /\ operations[o].state # "initiated" => next.state # "initiated"
      BY <1>1, <2>5, <3>2 DEF Exists, TransitionAllowed, Rail!ALLOWED_STATE_TRANSITIONS
    <3>4. next # NoOperation
      BY StoreAssumption
    <3>5. Moved(o) => Moved(o)'
      <4>1. Submitting(c, o) => next.state = "submitted"
        BY <2>1, <2>2 DEF Submitting
      <4>2. Moved(o) => next.state # "initiated"
        BY <2>3, <3>3, <4>1 DEF Moved, Submitting
      <4>3. operations'[o] = next
        BY <1>1, <3>1
      <4> QED BY <3>4, <4>2, <4>3 DEF Moved, Exists
    <3>6. \A p \in Operations \ {o} : Moved(p) => Moved(p)'
      BY <1>1, <2>1, <2>3, <3>1 DEF Moved, Submitting, Exists
    <3> QED BY <2>2, <2>3, <2>4, <3>5, <3>6 DEF PaidInv, OneTransfer
  <2>6. CASE ~Exists(o)
    <3>1. next.state = "initiated"
      BY <2>1, <2>2, <2>6 DEF SerialInv, Snapshot
    <3>2. transfers[o] # 1
      <4>1. \A d \in Calls : ~Submitting(d, o)
        BY <2>1, <2>2, <2>3, <3>1 DEF Submitting
      <4> QED BY <2>6, <4>1 DEF PaidInv, Moved
    <3>3. \A p \in Operations \ {o} : operations'[p] = operations[p]
      BY <1>1, <1>8, <2>1 DEF PutOperation
    <3>4. \A p \in Operations \ {o} : Moved(p) => Moved(p)'
      BY <2>1, <2>3, <3>3 DEF Moved, Submitting, Exists
    <3> QED BY <2>2, <2>3, <2>4, <3>2, <3>4 DEF PaidInv, OneTransfer
  <2> QED BY <2>5, <2>6
<1>9. ASSUME NEW c \in Calls, RecordEvent(c) PROVE PaidInv'
  <2>1. /\ calls[c].step = "record" /\ UNCHANGED <<operations, transfers>>
        /\ calls'[c].step = "idle" /\ \A d \in Calls \ {c} : calls'[d] = calls[d]
    BY <1>1, <1>9 DEF RecordEvent, Return, Idle
  <2>2. \A p \in Operations : Moved(p) => Moved(p)'
    BY <2>1 DEF Moved, Submitting, Exists
  <2> QED BY <2>1, <2>2 DEF PaidInv, OneTransfer
<1>10. CASE UNCHANGED vars
  BY <1>10 DEF vars, PaidInv, OneTransfer, Moved, Submitting, Exists
<1>11. ~Crash /\ \A c \in Calls : ~TransferFails(c)
  BY DEF Crash, TransferFails
<1> QED BY <1>2, <1>3, <1>4, <1>5, <1>6, <1>7, <1>8, <1>9, <1>10, <1>11 DEF Next

(* The provider moves the money of an operation at most once, provided that  *)
(* requests do not overlap, the process does not stop between the transfer   *)
(* and the write, and no answer of the provider is lost.                     *)
THEOREM TransfersOnce ==
  ASSUME Serial, ~ServerMayCrash, ~ProviderMayFail PROVE Spec => []OneTransfer
<1>1. Init => PaidInv
  BY DEF Init, PaidInv, OneTransfer, Idle
<1>2. SerialInv /\ KeysUnique /\ PaidInv /\ [Next]_vars => PaidInv'
  BY StepPays
<1>3. SerialInv /\ [Next]_vars => SerialInv'
  BY SerialStep
<1>4. PaidInv => OneTransfer
  BY DEF PaidInv
<1> QED BY <1>1, <1>2, <1>3, <1>4, SerialInit, KeysStayUnique, PTL DEF Spec

=============================================================================
