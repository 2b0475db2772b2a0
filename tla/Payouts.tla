------------------------------- MODULE Payouts -------------------------------
(***************************************************************************)
(* POST /ops/payouts/:party/:period/enqueue of src/api/app.js over the     *)
(* Postgres store: the close of a month has fixed the statement of a party *)
(* and, with it, a payout instruction over the gross amount; enqueue nets  *)
(* the amount against chargebacks, checks the limits of the tenant, stores *)
(* the instruction again under the same id and creates a money rail        *)
(* operation under the same key.  Each awaited step is an action of its    *)
(* own: the check, the instruction, the lookup and the write of the        *)
(* operation.  Cancel, submit and provider events read an operation and    *)
(* write it back in the same way.  Statements are numbered in the order of *)
(* their operation ids; a time is the day it falls on.                     *)
(***************************************************************************)
EXTENDS CentSum, Sequences, FiniteSetsExt, SequencesExt

CONSTANTS NumStatements,
          Party,           \* [Statements -> parties]
          Gross,           \* [Statements -> cents], computePayoutAmountCentsForStatement
          Modes,           \* chargeback policies a tenant sets: "off", "hold", "net"
          MaxOutstanding,  \* chargebackPolicy.maxOutstandingCents
          MaxPayout,       \* maxPayoutAmountCents
          DailyLimit,      \* dailyPayoutLimitCents
          ListLimit,       \* rows listMoneyRailOperations returns
          SuffixedSource,  \* the in-memory month close suffixes sourceEventId, Postgres does not
          MaxDays,         \* bound: days
          Calls, Serial, ServerMayCrash,
          None

Statements == 1 .. NumStatements

VARIABLES instructions,  \* payout instruction artifact of a statement, None before the close
          operations,    \* money rail operation of a statement
          today,
          calls,         \* requests under way
          rejected       \* history: statements whose instruction was refused

vars == <<instructions, operations, today, calls, rejected>>

(* The fields of an instruction that its hash tells apart. *)
Instruction == [amount : Nat, suffixed : BOOLEAN]

(* recovery is metadata.chargebackRecoveryAppliedCents, day that of initiatedAt. *)
Operation == [state : {"initiated", "submitted", "confirmed", "failed", "cancelled", "reversed"},
              amount : Nat, recovery : Nat, day : 1 .. MaxDays]

(* A request carries the operation it is about to write. *)
Idle == [step |-> "idle", statement |-> None, op |-> None]

(* The operations as the money rail knows them: the payout key is the key,   *)
(* and what is paid is the gross amount of a statement.                      *)
Rail == INSTANCE MoneyRail WITH
  Operations  <- Statements,
  Keys        <- Statements,
  Amounts     <- Range(Gross),
  NoOperation <- None,
  operations  <- [s \in Statements |->
                    IF operations[s] = None THEN None
                    ELSE [state |-> operations[s].state, key |-> s,
                          amount |-> operations[s].amount]]

ASSUME PayoutsAssumption ==
  /\ NumStatements \in Nat /\ MaxDays \in Nat \ {0} /\ ListLimit \in Nat \ {0}
  /\ {MaxOutstanding, MaxPayout, DailyLimit} \subseteq Nat
  /\ Gross \in [Statements -> Nat \ {0}]
  /\ DOMAIN Party = Statements
  /\ Modes \subseteq {"off", "hold", "net"}
  /\ IsFiniteSet(Calls) /\ Calls # {}
  /\ {Serial, ServerMayCrash, SuffixedSource} \subseteq BOOLEAN
  /\ None \notin Instruction /\ None \notin Operation /\ None \notin Rail!Operation

Known(s) == operations[s] # None

Exposed(s) == operations[s].state \in {"initiated", "submitted", "confirmed"}

(* adapter.listOperations: sorted by id, cut off at the limit of the store. *)
Listed == {s \in Statements : Known(s) /\ Cardinality({t \in 1 .. s : Known(t)}) <= ListLimit}

DailyExposure(listed) ==
  SumOver([s \in Statements |->
             IF s \in listed /\ Exposed(s) /\ operations[s].day = today
               THEN operations[s].amount ELSE 0],
          Statements)

(* deriveMoneyRailChargebackExposureByParty: reversed amounts less the       *)
(* recoveries of live operations, in the order of initiation, then of ids.   *)
Outstanding(p, listed) ==
  LET before(s, t) == \/ operations[s].day < operations[t].day
                      \/ operations[s].day = operations[t].day /\ s < t
      step(due, s) ==
        IF operations[s].state = "reversed" THEN due + operations[s].amount
        ELSE IF Exposed(s) THEN due - Min({due, operations[s].recovery})
        ELSE due
  IN FoldLeft(step, 0, SetToSortSeq({s \in listed : Party[s] = p}, before))

MayStart(c) ==
  /\ calls[c] = Idle
  /\ Serial => \A d \in Calls : calls[d] = Idle

Return(c) == calls' = [calls EXCEPT ![c] = Idle]

-----------------------------------------------------------------------------

Init ==
  /\ instructions = [s \in Statements |-> None]
  /\ operations = [s \in Statements |-> None]
  /\ today = 1
  /\ calls = [c \in Calls |-> Idle]
  /\ rejected = {}

(* The close of the month stores statement and instruction; both stay.  The  *)
(* Postgres store names the requesting event as source, as enqueue does.     *)
CloseMonth(s) ==
  /\ instructions[s] = None
  /\ instructions' =
       [instructions EXCEPT ![s] = [amount |-> Gross[s], suffixed |-> SuffixedSource]]
  /\ UNCHANGED <<operations, today, calls, rejected>>

(* What is paid and what is kept back for chargebacks. *)
Recovery(s, mode) ==
  IF mode = "net" THEN Min({Outstanding(Party[s], Listed), Gross[s]}) ELSE 0

ChargebackAllows(s, mode) ==
  LET due == Outstanding(Party[s], Listed)
  IN mode # "off" => due <= MaxOutstanding /\ (mode = "hold" => due = 0)

(* Mutant: what is paid today already is not counted. *)
OnlyThisPayout(amount) == amount <= MaxPayout /\ amount <= DailyLimit

WithinLimits(amount) ==
  amount <= MaxPayout /\ DailyExposure(Listed) + amount <= DailyLimit

(* Reads the operations and decides; a refusal and a payout that is offset   *)
(* in full (chargeback_offset_consumed) change nothing.                      *)
EnqueueCheck(c, s, mode) ==
  \E recovery \in 0 .. Gross[s] - 1 :
    LET amount == Gross[s] - recovery IN
    /\ MayStart(c)
    /\ instructions[s] # None
    /\ ChargebackAllows(s, mode)
    /\ recovery = Recovery(s, mode)
    /\ WithinLimits(amount)
    /\ calls' = [calls EXCEPT ![c] =
         [step |-> "instruct", statement |-> s,
          op |-> [state |-> "initiated", amount |-> amount, recovery |-> recovery, day |-> today]]]
    /\ UNCHANGED <<instructions, operations, today, rejected>>

(* Mutant: the instruction is replaced. *)
Overwrite(c) ==
  LET s == calls[c].statement IN
  /\ calls[c].step = "instruct"
  /\ instructions' =
       [instructions EXCEPT ![s] = [amount |-> calls[c].op.amount, suffixed |-> FALSE]]
  /\ calls' = [calls EXCEPT ![c].step = "create"]
  /\ UNCHANGED <<operations, today, rejected>>

(* store.putArtifact: the same hash again is fine, another one throws. *)
PutArtifact(c) ==
  LET s == calls[c].statement IN
  /\ calls[c].step = "instruct"
  /\ IF instructions[s] = [amount |-> calls[c].op.amount, suffixed |-> FALSE]
       THEN calls' = [calls EXCEPT ![c].step = "create"] /\ UNCHANGED rejected
       ELSE Return(c) /\ rejected' = rejected \cup {s}
  /\ UNCHANGED <<instructions, operations, today>>

(* adapter.create: an operation that is known is a replay or a conflict, one  *)
(* that is not is about to be written with the time the call was made.        *)
CreateOperation(c) ==
  /\ calls[c].step = "create"
  /\ IF Known(calls[c].statement) THEN Return(c)
     ELSE calls' = [calls EXCEPT ![c].step = "put", ![c].op.day = today]
  /\ UNCHANGED <<instructions, operations, today, rejected>>

(* cancel, transition and ingestProviderEvent: the operation is read, and its *)
(* state may stay or change along the table.                                  *)
MoveOperation(c, s, state) ==
  /\ MayStart(c) /\ Known(s)
  /\ \/ state = operations[s].state
     \/ state \in Rail!ALLOWED_STATE_TRANSITIONS[operations[s].state]
  /\ calls' = [calls EXCEPT ![c] = [step |-> "put", statement |-> s,
                                    op |-> [operations[s] EXCEPT !.state = state]]]
  /\ UNCHANGED <<instructions, operations, today, rejected>>

(* putMoneyRailOperation replaces the row, whatever was read before.  The key *)
(* of a payout belongs to its statement, so that the unique index agrees.     *)
PutOperation(c) ==
  /\ calls[c].step = "put"
  /\ operations' = [operations EXCEPT ![calls[c].statement] = calls[c].op]
  /\ Return(c)
  /\ UNCHANGED <<instructions, today, rejected>>

NextDay ==
  /\ today < MaxDays
  /\ today' = today + 1
  /\ UNCHANGED <<instructions, operations, calls, rejected>>

Crash ==
  /\ ServerMayCrash
  /\ \E c \in Calls : calls[c] # Idle
  /\ calls' = [c \in Calls |-> Idle]
  /\ UNCHANGED <<instructions, operations, today, rejected>>

Next ==
  \/ \E s \in Statements :
       \/ CloseMonth(s)
       \/ \E c \in Calls, mode \in Modes : EnqueueCheck(c, s, mode)
       \/ \E c \in Calls, state \in Rail!EventTypes : MoveOperation(c, s, state)
  \/ \E c \in Calls : PutArtifact(c) \/ CreateOperation(c) \/ PutOperation(c)
  \/ NextDay
  \/ Crash

Spec == Init /\ [][Next]_vars

-----------------------------------------------------------------------------
(* One request at a time: enqueues that cross midnight, crash or are tried    *)
(* again create an operation once per statement, over its gross amount, and   *)
(* it moves along the table.  Overlapping creates can undo a submit.          *)
Implements == Rail!Spec

(* What the reconciliation report calls an amount mismatch or an operation    *)
(* without instruction never arises: an operation pays what the stored        *)
(* instruction of its statement says, also when enqueues with different net   *)
(* amounts overlap, crash and are tried again.                                *)
OperationsInstructed ==
  \A s \in Statements :
    Known(s) => /\ instructions[s] # None
                /\ instructions[s].amount = operations[s].amount

(* Enqueues of one day that overlap may pass the check together, one that is  *)
(* checked before midnight may count for the next day, and a submit or an     *)
(* overlapping create may write back as live what was cancelled meanwhile and *)
(* made room for others.  Still each request under way can exceed the daily   *)
(* limit by one payout only: however many follow each other, the exposure     *)
(* stays below one limit for each request that may be under way at once.      *)
OverrunBounded ==
  DailyExposure({s \in Statements : Known(s)}) <= DailyLimit * Cardinality(Calls)

(* docs/ops/P0_BACKEND_PROGRESS.md: "Tenant-level daily payout exposure cap". *)
(* Payouts initiated on one day do not exceed the limit.                      *)
DailyLimitRespected ==
  DailyExposure({s \in Statements : Known(s)}) <= DailyLimit

(* An enqueue that passed all checks is not refused by the instruction that   *)
(* the close of the month stored under the same id.                           *)
EnqueueAligned == rejected = {}

=============================================================================
