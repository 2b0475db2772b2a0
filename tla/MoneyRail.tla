------------------------------ MODULE MoneyRail ------------------------------
(***************************************************************************)
(* What a money rail adapter promises about its operations (payouts and    *)
(* collections), src/core/money-rail-adapters.js: an operation is created  *)
(* once, under an idempotency key of its own, and moves along the table of *)
(* allowed transitions.  The in-memory adapter is this specification: its  *)
(* methods do not await, so that each one is a step.  The adapter over a   *)
(* store is MoneyRailStore.                                                *)
(***************************************************************************)
EXTENDS Naturals

CONSTANTS Operations,   \* operation ids
          Keys,         \* idempotency keys
          Amounts,      \* amountCents, the part of a request that may differ
          NoOperation   \* an id without an operation

States == {"initiated", "submitted", "confirmed", "failed", "cancelled", "reversed"}

EventTypes == States \ {"initiated"}

Operation == [state : States, key : Keys, amount : Amounts]

VARIABLE operations

ALLOWED_STATE_TRANSITIONS ==
  [initiated |-> {"submitted", "failed", "cancelled"},
   submitted |-> {"confirmed", "failed", "cancelled"},
   confirmed |-> {"reversed"},
   failed    |-> {},
   cancelled |-> {},
   reversed  |-> {}]

(* Mutant: a new operation has a state outside of the table. *)
BuildCreated(k, a) == [state |-> "created", key |-> k, amount |-> a]

buildOperationRecord(k, a) == [state |-> "initiated", key |-> k, amount |-> a]

KeyUsed(ops, k) == \E o \in Operations : ops[o] # NoOperation /\ ops[o].key = k

(* A known key or id is a replay or a conflict and changes nothing. *)
create(o, k, a) ==
  /\ operations[o] = NoOperation
  /\ ~KeyUsed(operations, k)
  /\ operations' = [operations EXCEPT ![o] = buildOperationRecord(k, a)]

(* The step shared by cancel, transition and ingestProviderEvent. *)
applyStateTransition(o, s) ==
  /\ operations[o] # NoOperation
  /\ s \in ALLOWED_STATE_TRANSITIONS[operations[o].state]
  /\ operations' = [operations EXCEPT ![o] = [@ EXCEPT !.state = s]]

Init == operations = [o \in Operations |-> NoOperation]

Next ==
  \E o \in Operations :
    \/ \E k \in Keys, a \in Amounts : create(o, k, a)
    \/ \E s \in EventTypes : applyStateTransition(o, s)

Spec == Init /\ [][Next]_operations

=============================================================================
