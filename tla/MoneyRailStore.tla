--------------------------- MODULE MoneyRailStore ---------------------------
(***************************************************************************)
(* createStoreBackedMoneyRailAdapter of src/core/money-rail-adapters.js    *)
(* with the ops endpoints that call it: create, cancel, submit and ingest  *)
(* of provider events.  The adapter awaits the store, so a call is several *)
(* steps: it reads the operation, decides, writes the record it read with  *)
(* the new state, and an ingest then records the event.  Calls of          *)
(* different requests interleave between these steps; Serial is the        *)
(* assumption that they do not.  The provider repeats and reorders events, *)
(* and the process may stop between two steps of a call.                   *)
(***************************************************************************)
EXTENDS Naturals

CONSTANTS Operations, Keys, Amounts, NoOperation,
          Calls,            \* the requests in flight
          EventIds,         \* ids the provider gives its events
          NoEvent,          \* the event of a call that ingests none
          Serial,           \* one request at a time
          ServerMayCrash,   \* the process may stop between two steps
          ProviderMayFail,  \* POST /v1/transfers may throw, before or after the transfer
          MaxTransfers      \* bound: transfers made for one operation

VARIABLES operations,      \* money_rail_operations
          providerEvents,  \* money_rail_provider_events: <<operationId, type, id>>
          calls,           \* where each request is
          transfers        \* external: transfers the provider made for an operation

vars == <<operations, providerEvents, calls, transfers>>

Rail == INSTANCE MoneyRail

ASSUME StoreAssumption ==
  /\ NoOperation \notin Rail!Operation
  /\ NoEvent \notin EventIds
  /\ {Serial, ServerMayCrash, ProviderMayFail} \subseteq BOOLEAN
  /\ MaxTransfers \in Nat

(* The step a request does next. *)
Steps == {"idle", "put", "record", "transfer", "load"}

(* next is the record a call is about to write, event what it then records. *)
Call == [step  : Steps,
         op    : Operations \cup {NoOperation},
         next  : Rail!Operation \cup {NoOperation},
         event : EventIds \cup {NoEvent}]

Idle == [step |-> "idle", op |-> NoOperation, next |-> NoOperation, event |-> NoEvent]

Exists(o) == operations[o] # NoOperation

(* assertStateTransitionAllowed: to the same state is allowed. *)
TransitionAllowed(from, to) == from = to \/ to \in Rail!ALLOWED_STATE_TRANSITIONS[from]

MayStart(c) ==
  /\ calls[c] = Idle
  /\ Serial => \A d \in Calls : calls[d] = Idle

Await(c, step, o, next, event) ==
  calls' = [calls EXCEPT ![c] = [step |-> step, op |-> o, next |-> next, event |-> event]]

Return(c) == calls' = [calls EXCEPT ![c] = Idle]

-----------------------------------------------------------------------------

Init ==
  /\ operations = [o \in Operations |-> NoOperation]
  /\ providerEvents = {}
  /\ calls = [c \in Calls |-> Idle]
  /\ transfers = [o \in Operations |-> 0]

(* Mutant: only the key is looked up, not the operation id. *)
CreateByKeyOnly(c, o, k, a) ==
  /\ MayStart(c)
  /\ ~Rail!KeyUsed(operations, k)
  /\ Await(c, "put", o, Rail!buildOperationRecord(k, a), NoEvent)
  /\ UNCHANGED <<operations, providerEvents, transfers>>

(* POST /ops/payouts/:party/:period/enqueue -> adapter.create: neither the   *)
(* key nor the id is known; if one is, the call returns a replay or throws. *)
StartCreate(c, o, k, a) ==
  /\ MayStart(c)
  /\ ~Exists(o) /\ ~Rail!KeyUsed(operations, k)
  /\ Await(c, "put", o, Rail!buildOperationRecord(k, a), NoEvent)
  /\ UNCHANGED <<operations, providerEvents, transfers>>

(* POST .../operations/:id/cancel *)
StartCancel(c, o) ==
  /\ MayStart(c) /\ Exists(o)
  /\ operations[o].state \notin {"cancelled", "confirmed", "failed", "reversed"}
  /\ Await(c, "put", o, [operations[o] EXCEPT !.state = "cancelled"], NoEvent)
  /\ UNCHANGED <<operations, providerEvents, transfers>>

(* POST .../events/ingest: an event that is recorded is not applied again. *)
StartIngest(c, o, type, e) ==
  /\ MayStart(c) /\ Exists(o)
  /\ <<o, type, e>> \notin providerEvents
  /\ TransitionAllowed(operations[o].state, type)
  /\ Await(c, "put", o, [operations[o] EXCEPT !.state = type], e)
  /\ UNCHANGED <<operations, providerEvents, transfers>>

(* Mutant: submit does not look at the state of the operation. *)
SubmitAlways(c, o) ==
  /\ MayStart(c) /\ Exists(o)
  /\ Await(c, "transfer", o, NoOperation, NoEvent)
  /\ UNCHANGED <<operations, providerEvents, transfers>>

(* POST .../operations/:id/submit *)
StartSubmit(c, o) ==
  /\ MayStart(c) /\ Exists(o)
  /\ operations[o].state = "initiated"
  /\ Await(c, "transfer", o, NoOperation, NoEvent)
  /\ UNCHANGED <<operations, providerEvents, transfers>>

(* The request to the provider carries no idempotency key. *)
Transfer(c) ==
  LET o == calls[c].op IN
  /\ calls[c].step = "transfer"
  /\ transfers[o] < MaxTransfers
  /\ transfers' = [transfers EXCEPT ![o] = @ + 1]
  /\ Await(c, "load", o, NoOperation, NoEvent)
  /\ UNCHANGED <<operations, providerEvents>>

(* The request fails, or its answer is lost. *)
TransferFails(c) ==
  LET o == calls[c].op IN
  /\ ProviderMayFail
  /\ calls[c].step = "transfer"
  /\ \/ UNCHANGED transfers
     \/ transfers[o] < MaxTransfers /\ transfers' = [transfers EXCEPT ![o] = @ + 1]
  /\ Return(c)
  /\ UNCHANGED <<operations, providerEvents>>

(* adapter.transition to submitted reads the operation again. *)
LoadSubmitted(c) ==
  LET o == calls[c].op IN
  /\ calls[c].step = "load"
  /\ IF TransitionAllowed(operations[o].state, "submitted")
       THEN Await(c, "put", o, [operations[o] EXCEPT !.state = "submitted"], NoEvent)
       ELSE Return(c)
  /\ UNCHANGED <<operations, providerEvents, transfers>>

(* Mutant: the check of the key against other operations is dropped. *)
KeyNotChecked(o, op) == FALSE

(* The key belongs to another operation: unique constraint or scan. *)
KeyConflict(o, op) ==
  \E p \in Operations \ {o} : Exists(p) /\ operations[p].key = op.key

(* putMoneyRailOperation of the Postgres store: the insert replaces the whole *)
(* row of the operation, its request and its state, whatever was read before; *)
(* only the unique index on the key refuses it.                               *)
PutOperation(c) ==
  LET o == calls[c].op  op == calls[c].next IN
  /\ calls[c].step = "put"
  /\ IF KeyConflict(o, op)
       THEN Return(c) /\ UNCHANGED operations
       ELSE /\ operations' = [operations EXCEPT ![o] = op]
            /\ IF calls[c].event = NoEvent THEN Return(c)
               ELSE Await(c, "record", o, op, calls[c].event)
  /\ UNCHANGED <<providerEvents, transfers>>

(* Mutant: the event is recorded before the operation is written. *)
RecordFirst(c) ==
  LET o == calls[c].op  op == calls[c].next  e == calls[c].event IN
  /\ calls[c].step \in {"put", "record"} /\ e # NoEvent
  /\ providerEvents' = providerEvents \cup {<<o, op.state, e>>}
  /\ IF calls[c].step = "put" THEN Await(c, "put", o, op, NoEvent) ELSE Return(c)
  /\ UNCHANGED <<operations, transfers>>

RecordEvent(c) ==
  /\ calls[c].step = "record"
  /\ providerEvents' =
       providerEvents \cup {<<calls[c].op, calls[c].next.state, calls[c].event>>}
  /\ Return(c)
  /\ UNCHANGED <<operations, transfers>>

Crash ==
  /\ ServerMayCrash
  /\ \E c \in Calls : calls[c] # Idle
  /\ calls' = [c \in Calls |-> Idle]
  /\ UNCHANGED <<operations, providerEvents, transfers>>

Next ==
  \/ \E c \in Calls :
       \/ \E o \in Operations :
            \/ \E k \in Keys, a \in Amounts : StartCreate(c, o, k, a)
            \/ StartCancel(c, o)
            \/ StartSubmit(c, o)
            \/ \E type \in Rail!EventTypes, e \in EventIds : StartIngest(c, o, type, e)
       \/ Transfer(c)
       \/ TransferFails(c)
       \/ LoadSubmitted(c)
       \/ PutOperation(c)
       \/ RecordEvent(c)
  \/ Crash

Spec == Init /\ [][Next]_vars

-----------------------------------------------------------------------------
(* Types of the records, the events, the requests in flight and the transfers. *)
TypeOK ==
  /\ operations \in [Operations -> Rail!Operation \cup {NoOperation}]
  /\ providerEvents \subseteq Operations \X Rail!EventTypes \X EventIds
  /\ calls \in [Calls -> Call]
  /\ transfers \in [Operations -> Nat]

(* The adapter over a store keeps the promise of the in-memory adapter, as   *)
(* long as requests do not overlap: also when the process stops between the  *)
(* write of the operation and the record of the event.                       *)
Implements == Rail!Spec

(* States an operation can be in once it was in state s. *)
Reachable(s) ==
  LET after(t) == Rail!ALLOWED_STATE_TRANSITIONS[t]
  IN {s} \cup after(s) \cup UNION {after(t) : t \in after(s)}

(* ingestProviderEvent ignores an event it has recorded: then the event must  *)
(* have had its effect.  The operation is in the state the event announced or *)
(* in one that follows it, although a crash can part write and record and the *)
(* provider sends events again and out of order.                              *)
RecordedEventsApplied ==
  \A o \in Operations, type \in Rail!EventTypes, e \in EventIds :
    <<o, type, e>> \in providerEvents =>
      Exists(o) /\ operations[o].state \in Reachable(type)

(* Two operations never share an idempotency key, although create looks the  *)
(* key up and writes the operation in different steps.                       *)
KeysUnique ==
  \A o, p \in Operations :
    Exists(o) /\ Exists(p) /\ operations[o].key = operations[p].key => o = p

(* create refuses an id that is known under another request, and a write     *)
(* after it keeps what was asked for: the key and the amount of an operation *)
(* never change, although the process stops between lookup and write and     *)
(* clients repeat creates with other keys and amounts.  One request at a     *)
(* time: the Postgres write itself replaces the request.                     *)
RequestKept ==
  [][\A o \in Operations :
       Exists(o) => /\ operations'[o] # NoOperation
                    /\ operations'[o].key = operations[o].key
                    /\ operations'[o].amount = operations[o].amount]_vars

(* The provider moves the money of an operation at most once. *)
OneTransfer == \A o \in Operations : transfers[o] <= 1

(* docs/spec/MONEY_RAIL_STATE_MACHINE.md: an operation changes its state only *)
(* along the table, and no rollback to a prior state happens.                 *)
TransitionsFollowTable ==
  [][\A o \in Operations :
       Exists(o) => TransitionAllowed(operations[o].state, operations'[o].state)]_vars

=============================================================================
