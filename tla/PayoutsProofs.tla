---------------------------- MODULE PayoutsProofs ----------------------------
(***************************************************************************)
(* For any number of statements and requests: an operation pays what the   *)
(* stored instruction says, however enqueues, submits, cancels and events  *)
(* overlap, crash and are tried again, and the daily limit is exceeded by  *)
(* no more than one limit for each request that may be under way.  Without *)
(* overlap the operations are those of the money rail.                     *)
(***************************************************************************)
EXTENDS Payouts, CentSumProofs

(* A request under way has a statement and an operation it may write. *)
Busy == [step : {"instruct", "create", "put"}, statement : Statements, op : Operation]

TypeInv ==
  /\ instructions \in [Statements -> {None} \cup Instruction]
  /\ operations \in [Statements -> {None} \cup Operation]
  /\ today \in 1 .. MaxDays
  /\ calls \in [Calls -> {Idle} \cup Busy]

(* An instruction is over the gross amount and stays; a request under way    *)
(* has found one, and one that looks up or writes an operation is over the   *)
(* same amount.                                                              *)
Instructed ==
  /\ \A s \in Statements : instructions[s] # None => instructions[s].amount = Gross[s]
  /\ \A c \in Calls : calls[c].step # "idle" => instructions[calls[c].statement] # None
  /\ \A c \in Calls : calls[c].step \in {"create", "put"} =>
                        calls[c].op.amount = Gross[calls[c].statement]
  /\ \A s \in Statements : Known(s) => /\ instructions[s] # None
                                       /\ operations[s].amount = Gross[s]

Inv == TypeInv /\ Instructed

(* What a request that is not idle carries. *)
LEMMA CallType ==
  ASSUME TypeInv, NEW c \in Calls, calls[c].step # "idle"
  PROVE  /\ calls[c] \in Busy
         /\ calls[c].statement \in Statements
         /\ calls[c].op \in Operation
<1>1. calls[c] # Idle
  BY DEF Idle
<1>2. calls[c] \in Busy
  BY <1>1 DEF TypeInv
<1> QED BY <1>2 DEF Busy

(* What a check puts under way is over the gross amount at most. *)
LEMMA CheckedCall ==
  ASSUME TypeInv, NEW c \in Calls, NEW s \in Statements, NEW mode \in Modes, EnqueueCheck(c, s, mode)
  PROVE  \E call \in Busy :
           /\ call.step = "instruct" /\ call.statement = s
           /\ call.op.amount \in Nat /\ WithinLimits(call.op.amount)
           /\ call.op.day = today
           /\ mode # "net" => call.op.amount = Gross[s]
           /\ calls[c] = Idle /\ (Serial => \A d \in Calls : calls[d] = Idle)
           /\ instructions[s] # None
           /\ calls' = [calls EXCEPT ![c] = call]
           /\ UNCHANGED <<instructions, operations, today, rejected>>
<1>1. PICK recovery \in 0 .. Gross[s] - 1 :
        /\ MayStart(c)
        /\ instructions[s] # None
        /\ recovery = Recovery(s, mode)
        /\ WithinLimits(Gross[s] - recovery)
        /\ calls' = [calls EXCEPT ![c] =
             [step |-> "instruct", statement |-> s,
              op |-> [state |-> "initiated", amount |-> Gross[s] - recovery,
                      recovery |-> recovery, day |-> today]]]
        /\ UNCHANGED <<instructions, operations, today, rejected>>
  BY Zenon DEF EnqueueCheck
<1>2. Gross[s] \in Nat \ {0}
  BY PayoutsAssumption
<1>3. Gross[s] - recovery \in Nat /\ recovery \in Nat /\ today \in 1 .. MaxDays
  BY <1>2 DEF TypeInv
<1> DEFINE op == [state |-> "initiated", amount |-> Gross[s] - recovery,
                  recovery |-> recovery, day |-> today]
           call == [step |-> "instruct", statement |-> s, op |-> op]
<1>4. op \in Operation /\ op.amount = Gross[s] - recovery /\ op.day = today
  BY <1>3 DEF Operation
<1>5. mode # "net" => Gross[s] - recovery = Gross[s]
  BY <1>1, <1>2 DEF Recovery
<1>6. calls' = [calls EXCEPT ![c] = call]
  BY <1>1
<1> HIDE DEF op
<1>7. call \in Busy /\ call.step = "instruct" /\ call.statement = s /\ call.op = op
  BY <1>4 DEF Busy
<1> HIDE DEF call
<1>8. call.op.amount = Gross[s] - recovery /\ call.op.day = today
  BY <1>4, <1>7
<1>9. WithinLimits(call.op.amount)
  BY <1>1, <1>8
<1>10. calls[c] = Idle /\ (Serial => \A d \in Calls : calls[d] = Idle)
  BY <1>1 DEF MayStart
<1>11. call.op.amount \in Nat /\ (mode # "net" => call.op.amount = Gross[s])
  BY <1>3, <1>5, <1>8
<1> QED BY <1>1, <1>6, <1>7, <1>8, <1>9, <1>10, <1>11, Zenon

(* What the start of a cancel, a submit or an event puts under way. *)
LEMMA MovedCall ==
  ASSUME TypeInv, NEW c \in Calls, NEW s \in Statements, NEW state \in Rail!EventTypes,
         MoveOperation(c, s, state)
  PROVE  \E call \in Busy :
           /\ call.step = "put" /\ call.statement = s
           /\ call.op.state = state
           /\ call.op.amount = operations[s].amount /\ call.op.day = operations[s].day
           /\ Known(s) /\ operations[s] \in Operation
           /\ \/ state = operations[s].state
              \/ state \in Rail!ALLOWED_STATE_TRANSITIONS[operations[s].state]
           /\ calls[c] = Idle /\ (Serial => \A d \in Calls : calls[d] = Idle)
           /\ calls' = [calls EXCEPT ![c] = call]
           /\ UNCHANGED <<instructions, operations, today, rejected>>
<1> DEFINE op == [operations[s] EXCEPT !.state = state]
           call == [step |-> "put", statement |-> s, op |-> op]
<1>1. /\ MayStart(c) /\ Known(s)
      /\ \/ state = operations[s].state
         \/ state \in Rail!ALLOWED_STATE_TRANSITIONS[operations[s].state]
      /\ calls' = [calls EXCEPT ![c] = call]
      /\ UNCHANGED <<instructions, operations, today, rejected>>
  BY DEF MoveOperation
<1>2. operations[s] \in Operation
  BY <1>1 DEF TypeInv, Known
<1>3. op \in Operation
  BY <1>2 DEF Operation, Rail!EventTypes, Rail!States
<1>4. op.state = state /\ op.amount = operations[s].amount /\ op.day = operations[s].day
  BY <1>2 DEF Operation
<1>5. PICK new \in Operation : new = op
  BY <1>3
<1> HIDE DEF op
<1>6. call \in Busy /\ call.step = "put" /\ call.statement = s /\ call.op = op
  BY <1>3 DEF Busy
<1> HIDE DEF call
<1> QED BY <1>1, <1>2, <1>4, <1>6 DEF MayStart, op

(* A lookup ends the request, or puts what it carries under way to be        *)
(* written, with the time of the call.                                       *)
LEMMA LookedUp ==
  ASSUME TypeInv, NEW c \in Calls, CreateOperation(c)
  PROVE  /\ calls[c].step = "create" /\ UNCHANGED <<instructions, operations, today, rejected>>
         /\ calls[c] \in Busy /\ calls[c].statement \in Statements /\ calls[c].op \in Operation
         /\ \/ calls' = [calls EXCEPT ![c] = Idle]
            \/ \E call \in Busy :
                 /\ ~Known(calls[c].statement)
                 /\ calls' = [calls EXCEPT ![c] = call]
                 /\ call.step = "put" /\ call.statement = calls[c].statement
                 /\ call.op.state = calls[c].op.state
                 /\ call.op.amount = calls[c].op.amount /\ call.op.day = today
<1>1. calls[c].step = "create" /\ UNCHANGED <<instructions, operations, today, rejected>>
  BY DEF CreateOperation
<1>2. calls[c] \in Busy /\ calls[c].statement \in Statements /\ calls[c].op \in Operation
  BY <1>1, CallType
<1>3. CASE Known(calls[c].statement)
  BY <1>1, <1>2, <1>3 DEF CreateOperation, Return
<1>4. CASE ~Known(calls[c].statement)
  <2>1. PICK op \in Operation : op = calls[c].op
    BY <1>2
  <2>2. today \in 1 .. MaxDays
    BY DEF TypeInv
  <2>3. PICK new : new = [op EXCEPT !.day = today]
    OBVIOUS
  <2>4. new \in Operation /\ new.day = today /\ new.amount = op.amount /\ new.state = op.state
    BY <2>2, <2>3 DEF Operation
  <2>5. PICK call : call = [calls[c] EXCEPT !.step = "put", !.op = new]
    OBVIOUS
  <2>6. call \in Busy /\ call.step = "put" /\ call.statement = calls[c].statement /\ call.op = new
    BY <1>2, <2>4, <2>5 DEF Busy
  <2>8. calls' = [calls EXCEPT ![c].step = "put", ![c].op.day = today]
    BY <1>4 DEF CreateOperation
  <2>9. calls' = [calls EXCEPT ![c] = call]
    BY <1>2, <2>1, <2>3, <2>5, <2>8 DEF TypeInv, Busy
  <2> QED BY <1>1, <1>2, <1>4, <2>1, <2>4, <2>6, <2>9
<1> QED BY <1>3, <1>4

(* Nothing is closed and no request is under way at first. *)
LEMMA InitInv == Init => Inv
  BY PayoutsAssumption DEF Init, Inv, TypeInv, Instructed, Known, Idle

(* The close of a month stores an instruction over the gross amount. *)
LEMMA CloseKeeps ==
  ASSUME Inv, NEW s \in Statements, CloseMonth(s) PROVE Inv'
<1> DEFINE new == [amount |-> Gross[s], suffixed |-> SuffixedSource]
<1>1. new \in Instruction /\ new.amount = Gross[s] /\ new # None
  BY PayoutsAssumption DEF Instruction
<1>2. /\ instructions' = [instructions EXCEPT ![s] = new]
      /\ UNCHANGED <<operations, today, calls>>
  BY DEF CloseMonth
<1> HIDE DEF new
<1>3. TypeInv'
  BY <1>1, <1>2 DEF Inv, TypeInv
<1>4. /\ instructions'[s] = new
      /\ \A t \in Statements \ {s} : instructions'[t] = instructions[t]
  BY <1>2 DEF Inv, TypeInv
<1>5. \A t \in Statements : instructions[t] # None => instructions'[t] # None
  BY <1>1, <1>4
<1>6. Instructed'
  <2>1. \A t \in Statements : instructions'[t] # None => instructions'[t].amount = Gross[t]
    BY <1>1, <1>4 DEF Inv, Instructed
  <2>2. \A c \in Calls : calls[c].step # "idle" => instructions'[calls[c].statement] # None
    BY <1>5, CallType DEF Inv, Instructed
  <2> QED BY <1>2, <1>5, <2>1, <2>2 DEF Inv, Instructed, Known
<1> QED BY <1>3, <1>6 DEF Inv

(* Only the requests change, and what the changed one is about was found. *)
LEMMA CallKeeps ==
  ASSUME Inv, NEW c \in Calls, NEW call \in Busy \cup {Idle},
         calls' = [calls EXCEPT ![c] = call],
         UNCHANGED <<instructions, operations, today>>,
         call # Idle => /\ instructions[call.statement] # None
                        /\ call.step \in {"create", "put"} => call.op.amount = Gross[call.statement]
  PROVE  Inv'
<1>1. TypeInv'
  BY DEF Inv, TypeInv
<1>2. calls'[c] = call /\ \A d \in Calls \ {c} : calls'[d] = calls[d]
  BY DEF Inv, TypeInv
<1>3. call = Idle => call.step = "idle"
  BY DEF Idle
<1>4. Instructed'
  BY <1>2, <1>3 DEF Inv, Instructed, Known
<1> QED BY <1>1, <1>4 DEF Inv

(* A request that has been checked has found an instruction. *)
LEMMA CheckKeeps ==
  ASSUME Inv, NEW c \in Calls, NEW s \in Statements, NEW mode \in Modes, EnqueueCheck(c, s, mode)
  PROVE  Inv'
<1>1. PICK call \in Busy :
        /\ call.step = "instruct" /\ call.statement = s
        /\ instructions[s] # None
        /\ calls' = [calls EXCEPT ![c] = call]
        /\ UNCHANGED <<instructions, operations, today, rejected>>
  BY CheckedCall DEF Inv
<1> QED BY <1>1, CallKeeps

(* A request goes on to create an operation only when what it pays is what   *)
(* the instruction says.                                                     *)
LEMMA InstructKeeps == ASSUME Inv, NEW c \in Calls, PutArtifact(c) PROVE Inv'
<1> DEFINE s == calls[c].statement
<1>1. calls[c].step = "instruct" /\ UNCHANGED <<instructions, operations, today>>
  BY DEF PutArtifact
<1>2. /\ calls[c] \in Busy /\ s \in Statements /\ calls[c].op \in Operation
      /\ instructions[s] # None
  BY <1>1, CallType DEF Inv, Instructed
<1>3. CASE instructions[s] = [amount |-> calls[c].op.amount, suffixed |-> FALSE]
  <2>1. calls' = [calls EXCEPT ![c].step = "create"]
    BY <1>3 DEF PutArtifact
  <2>2. PICK call : call = [calls[c] EXCEPT !.step = "create"]
    OBVIOUS
  <2>3. call \in Busy /\ call.step = "create" /\ call.op = calls[c].op /\ call.statement = s
    BY <1>2, <2>2 DEF Busy
  <2>4. calls' = [calls EXCEPT ![c] = call]
    BY <2>1, <2>2 DEF Inv, TypeInv
  <2>5. calls[c].op.amount = Gross[s]
    BY <1>2, <1>3 DEF Inv, Instructed
  <2> HIDE DEF s
  <2> QED BY <1>1, <1>2, <2>3, <2>4, <2>5, CallKeeps
<1>4. CASE instructions[s] # [amount |-> calls[c].op.amount, suffixed |-> FALSE]
  <2>1. calls' = [calls EXCEPT ![c] = Idle]
    BY <1>4 DEF PutArtifact, Return
  <2> QED BY <1>1, <2>1, CallKeeps
<1> QED BY <1>3, <1>4

(* The lookup leaves the amount alone. *)
LEMMA CreateKeeps == ASSUME Inv, NEW c \in Calls, CreateOperation(c) PROVE Inv'
<1>1. /\ calls[c].step = "create" /\ UNCHANGED <<instructions, operations, today, rejected>>
      /\ \/ calls' = [calls EXCEPT ![c] = Idle]
         \/ \E call \in Busy :
              /\ calls' = [calls EXCEPT ![c] = call]
              /\ call.step = "put" /\ call.statement = calls[c].statement
              /\ call.op.amount = calls[c].op.amount
  BY LookedUp DEF Inv
<1>2. /\ instructions[calls[c].statement] # None
      /\ calls[c].op.amount = Gross[calls[c].statement]
  BY <1>1 DEF Inv, Instructed
<1>3. CASE calls' = [calls EXCEPT ![c] = Idle]
  BY <1>1, <1>3, CallKeeps
<1>4. ASSUME NEW call \in Busy, calls' = [calls EXCEPT ![c] = call],
             call.step = "put", call.statement = calls[c].statement,
             call.op.amount = calls[c].op.amount
      PROVE  Inv'
  BY <1>1, <1>2, <1>4, CallKeeps
<1> QED BY <1>1, <1>3, <1>4

(* What is about to move is paid as before. *)
LEMMA MoveKeeps ==
  ASSUME Inv, NEW c \in Calls, NEW s \in Statements, NEW state \in Rail!EventTypes,
         MoveOperation(c, s, state)
  PROVE  Inv'
<1>1. PICK call \in Busy :
        /\ call.step = "put" /\ call.statement = s
        /\ call.op.amount = operations[s].amount
        /\ Known(s)
        /\ calls' = [calls EXCEPT ![c] = call]
        /\ UNCHANGED <<instructions, operations, today, rejected>>
  BY MovedCall DEF Inv
<1>2. instructions[s] # None /\ operations[s].amount = Gross[s]
  BY <1>1 DEF Inv, Instructed
<1> QED BY <1>1, <1>2, CallKeeps

(* What a write changes. *)
LEMMA PutChanges ==
  ASSUME Inv, NEW c \in Calls, PutOperation(c)
  PROVE  \E s \in Statements, new \in Operation :
           /\ s = calls[c].statement /\ new = calls[c].op /\ calls[c].step = "put"
           /\ new # None /\ new.amount = Gross[s] /\ instructions[s] # None
           /\ operations'[s] = new /\ \A t \in Statements \ {s} : operations'[t] = operations[t]
           /\ operations' = [operations EXCEPT ![s] = new]
           /\ calls'[c] = Idle /\ \A d \in Calls \ {c} : calls'[d] = calls[d]
           /\ calls' = [calls EXCEPT ![c] = Idle]
           /\ UNCHANGED <<instructions, today, rejected>>
<1>1. /\ calls[c].step = "put" /\ calls' = [calls EXCEPT ![c] = Idle]
      /\ operations' = [operations EXCEPT ![calls[c].statement] = calls[c].op]
      /\ UNCHANGED <<instructions, today, rejected>>
  BY DEF PutOperation, Return
<1>2. PICK s \in Statements, new \in Operation : s = calls[c].statement /\ new = calls[c].op
  BY <1>1, CallType DEF Inv
<1>3. new # None /\ new.amount = Gross[s] /\ instructions[s] # None
  BY <1>1, <1>2, PayoutsAssumption DEF Inv, Instructed
<1>4. /\ operations'[s] = new /\ \A t \in Statements \ {s} : operations'[t] = operations[t]
      /\ calls'[c] = Idle /\ \A d \in Calls \ {c} : calls'[d] = calls[d]
  BY <1>1, <1>2 DEF Inv, TypeInv
<1> QED BY <1>1, <1>2, <1>3, <1>4

(* An operation is written over what the instruction says. *)
LEMMA PutKeeps == ASSUME Inv, NEW c \in Calls, PutOperation(c) PROVE Inv'
<1>1. PICK s \in Statements, new \in Operation :
        /\ new # None /\ new.amount = Gross[s] /\ instructions[s] # None
        /\ operations'[s] = new /\ \A t \in Statements \ {s} : operations'[t] = operations[t]
        /\ operations' = [operations EXCEPT ![s] = new]
        /\ calls'[c] = Idle /\ \A d \in Calls \ {c} : calls'[d] = calls[d]
        /\ calls' = [calls EXCEPT ![c] = Idle]
        /\ UNCHANGED <<instructions, today, rejected>>
  BY PutChanges
<1>2. TypeInv'
  BY <1>1 DEF Inv, TypeInv
<1>3. Instructed'
  BY <1>1 DEF Inv, Instructed, Known, Idle
<1> QED BY <1>2, <1>3 DEF Inv

(* The next day and a crash leave instructions and operations alone. *)
LEMMA FrameKeeps ==
  ASSUME Inv, NextDay \/ Crash \/ UNCHANGED vars PROVE Inv'
<1>1. CASE NextDay
  <2>1. today' \in 1 .. MaxDays
    BY <1>1, PayoutsAssumption DEF NextDay, Inv, TypeInv
  <2> QED BY <1>1, <2>1 DEF NextDay, Inv, TypeInv, Instructed, Known
<1>2. CASE Crash
  BY <1>2 DEF Crash, Inv, TypeInv, Instructed, Known, Idle
<1>3. CASE UNCHANGED vars
  BY <1>3 DEF vars, Inv, TypeInv, Instructed, Known
<1> QED BY <1>1, <1>2, <1>3

(* Every step keeps types and instructions. *)
LEMMA StepInv == Inv /\ [Next]_vars => Inv'
<1> SUFFICES ASSUME Inv, [Next]_vars PROVE Inv'
  OBVIOUS
<1> QED
  BY CloseKeeps, CheckKeeps, InstructKeeps, CreateKeeps, MoveKeeps, PutKeeps, FrameKeeps DEF Next

(* An operation pays what the stored instruction of its statement says, for  *)
(* any number of enqueues that overlap with different net amounts.           *)
THEOREM PaysInstructed == Spec => []OperationsInstructed
<1>1. Inv => OperationsInstructed
  BY DEF Inv, Instructed, OperationsInstructed
<1> QED BY <1>1, InitInv, StepInv, PTL DEF Spec
-----------------------------------------------------------------------------
(* The daily limit.  A statement counts for today when its operation is live *)
(* today, and when a request is about to write one that is; with it count    *)
(* the enqueues that have passed the check and not yet looked up.            *)

LiveToday(op) == op.state \in {"initiated", "submitted", "confirmed"} /\ op.day = today

Live(s) == Known(s) /\ LiveToday(operations[s])

Writing(c, s) == calls[c].step = "put" /\ calls[c].statement = s /\ LiveToday(calls[c].op)

Counted(s) == Live(s) \/ \E c \in Calls : Writing(c, s)

Exposures == [s \in Statements |-> IF Live(s) THEN Gross[s] ELSE 0]

Counts == [s \in Statements |-> IF Counted(s) THEN Gross[s] ELSE 0]

Carried == [c \in Calls |-> IF calls[c].step = "idle" THEN 0 ELSE calls[c].op.amount]

Enqueued == [c \in Calls |-> IF calls[c].step \in {"instruct", "create"} THEN calls[c].op.amount ELSE 0]

Written == [c \in Calls |-> IF calls[c].step = "put" THEN calls[c].op.amount ELSE 0]

ExposedToday == SumOver(Exposures, Statements)

CountedToday == SumOver(Counts, Statements)

ToCome == SumOver(Enqueued, Calls)

UnderWay == SumOver(Carried, Calls)

Bound == IF Serial THEN DailyLimit ELSE DailyLimit * Cardinality(Calls)

LimitInv ==
  /\ \A s \in Statements : Known(s) => operations[s].day <= today /\ Gross[s] <= DailyLimit
  /\ \A c \in Calls : calls[c].step # "idle" =>
                        calls[c].op.day <= today /\ calls[c].op.amount <= DailyLimit
  /\ Serial => \A c, d \in Calls : calls[c].step # "idle" /\ calls[d].step # "idle" => c = d
  /\ CountedToday + ToCome <= Bound

(* Entries and sums are cents. *)
LEMMA LimitType ==
  ASSUME Inv
  PROVE  /\ IsFiniteSet(Statements) /\ IsFiniteSet(Calls)
         /\ \A s \in Statements : Gross[s] \in Nat
         /\ Exposures \in [Statements -> Nat] /\ ExposedToday \in Nat
         /\ Counts \in [Statements -> Nat] /\ CountedToday \in Nat
         /\ Carried \in [Calls -> Nat] /\ UnderWay \in Nat
         /\ Enqueued \in [Calls -> Nat] /\ ToCome \in Nat
         /\ Written \in [Calls -> Nat]
         /\ DailyLimit \in Nat /\ Cardinality(Calls) \in Nat /\ Bound \in Nat
<1>1. IsFiniteSet(Statements)
  <2>1. 1 \in Int /\ NumStatements \in Int
    BY PayoutsAssumption
  <2> QED BY <2>1, FS_Interval DEF Statements
<1>2. IsFiniteSet(Calls) /\ DailyLimit \in Nat
  BY PayoutsAssumption
<1>3. \A s \in Statements : Gross[s] \in Nat
  BY PayoutsAssumption
<1>4. \A c \in Calls : calls[c].step # "idle" => calls[c].op.amount \in Nat
  BY CallType DEF Inv, Operation
<1>5. Exposures \in [Statements -> Nat] /\ Counts \in [Statements -> Nat]
  BY <1>3 DEF Exposures, Counts
<1>6. Carried \in [Calls -> Nat]
  BY <1>4 DEF Carried
<1>7. Enqueued \in [Calls -> Nat] /\ Written \in [Calls -> Nat]
  BY <1>4 DEF Enqueued, Written
<1>8. ExposedToday \in Nat /\ CountedToday \in Nat
  BY <1>1, <1>5, SumType DEF ExposedToday, CountedToday
<1>9. UnderWay \in Nat /\ ToCome \in Nat
  BY <1>2, <1>6, <1>7, SumType DEF UnderWay, ToCome
<1>10. Cardinality(Calls) \in Nat
  BY <1>2, FS_CardinalityType
<1>11. Bound \in Nat
  BY <1>2, <1>10 DEF Bound
<1> QED BY <1>1, <1>2, <1>3, <1>5, <1>6, <1>7, <1>8, <1>9, <1>10, <1>11

(* The same after a step. *)
LEMMA LimitTypeNext ==
  ASSUME Inv'
  PROVE  /\ Counts' \in [Statements -> Nat] /\ CountedToday' \in Nat
         /\ Enqueued' \in [Calls -> Nat] /\ ToCome' \in Nat
         /\ CountedToday' = SumOver(Counts', Statements) /\ ToCome' = SumOver(Enqueued', Calls)
<1>1. IsFiniteSet(Statements) /\ IsFiniteSet(Calls)
  <2>1. 1 \in Int /\ NumStatements \in Int /\ IsFiniteSet(Calls)
    BY PayoutsAssumption
  <2> QED BY <2>1, FS_Interval DEF Statements
<1>2. \A s \in Statements : Gross[s] \in Nat
  BY PayoutsAssumption
<1>3. \A c \in Calls : calls'[c].step \in {"instruct", "create"} => calls'[c].op.amount \in Nat
  BY DEF Inv, TypeInv, Idle, Busy, Operation
<1>4. Counts' \in [Statements -> Nat]
  BY <1>2 DEF Counts
<1>5. Enqueued' \in [Calls -> Nat]
  BY <1>3 DEF Enqueued
<1>6. CountedToday' = SumOver(Counts', Statements) /\ ToCome' = SumOver(Enqueued', Calls)
  BY DEF CountedToday, ToCome
<1> QED BY <1>1, <1>4, <1>5, <1>6, SumType

(* The limit is checked against all that is exposed when the list is long    *)
(* enough for every operation.                                               *)
LEMMA AllListed ==
  ASSUME Inv, ListLimit >= NumStatements
  PROVE  Listed = {s \in Statements : Known(s)}
<1> SUFFICES ASSUME NEW s \in Statements
             PROVE  Cardinality({t \in 1 .. s : Known(t)}) <= ListLimit
  BY DEF Listed
<1>1. s \in Nat /\ s <= NumStatements /\ s \in Int /\ 1 \in Int /\ 1 <= s
      /\ NumStatements \in Nat /\ ListLimit \in Nat
  BY PayoutsAssumption DEF Statements
<1>2. IsFiniteSet(1 .. s) /\ Cardinality(1 .. s) = s
  BY <1>1, FS_Interval
<1>3. {t \in 1 .. s : Known(t)} \in SUBSET (1 .. s)
  OBVIOUS
<1>4. Cardinality({t \in 1 .. s : Known(t)}) <= Cardinality(1 .. s)
  BY <1>2, <1>3, FS_Subset
<1>5. IsFiniteSet({t \in 1 .. s : Known(t)})
  BY <1>2, <1>3, FS_Subset
<1>6. Cardinality({t \in 1 .. s : Known(t)}) \in Nat
  BY <1>5, FS_CardinalityType
<1> QED BY <1>1, <1>2, <1>4, <1>6

(* What enqueue computes as exposure is the sum of the gross amounts of what *)
(* is live.                                                                  *)
LEMMA ExposureComputed ==
  ASSUME Inv PROVE DailyExposure({s \in Statements : Known(s)}) = ExposedToday
<1> DEFINE f == [s \in Statements |->
                   IF s \in {t \in Statements : Known(t)} /\ Exposed(s) /\ operations[s].day = today
                     THEN operations[s].amount ELSE 0]
<1>1. \A s \in Statements : Known(s) => operations[s].amount = Gross[s]
  BY DEF Inv, Instructed
<1>2. \A s \in Statements : f[s] = Exposures[s]
  BY <1>1 DEF Exposures, Live, LiveToday, Exposed
<1>3. DailyExposure({s \in Statements : Known(s)}) = SumOver(f, Statements)
  BY DEF DailyExposure
<1> HIDE DEF f
<1> QED BY <1>2, <1>3, SumSame DEF ExposedToday

(* What counts beyond what is live is carried by requests under way. *)
LEMMA CountCovered ==
  ASSUME Inv PROVE CountedToday + ToCome <= ExposedToday + UnderWay
<1> DEFINE about == [c \in Calls |-> calls[c].statement]
<1>1. \A s \in Statements : \/ Counts[s] <= Exposures[s]
                            \/ \E c \in Calls : about[c] = s /\ Counts[s] <= Written[c]
  <2> SUFFICES ASSUME NEW s \in Statements
               PROVE  \/ Counts[s] <= Exposures[s]
                      \/ \E c \in Calls : about[c] = s /\ Counts[s] <= Written[c]
    OBVIOUS
  <2>1. Gross[s] \in Nat
    BY LimitType
  <2>2. CASE Live(s) \/ ~Counted(s)
    BY <2>1, <2>2 DEF Counts, Exposures
  <2>3. ASSUME NEW c \in Calls, Writing(c, s)
        PROVE  about[c] = s /\ Counts[s] <= Written[c]
    <3>1. calls[c].step = "put" /\ calls[c].statement = s
      BY <2>3 DEF Writing
    <3>2. calls[c].op.amount = Gross[s]
      BY <3>1 DEF Inv, Instructed
    <3>3. Counts[s] = Gross[s] /\ Written[c] = Gross[s]
      BY <2>3, <3>1, <3>2 DEF Counts, Counted, Written
    <3> QED BY <2>1, <3>1, <3>3
  <2> QED BY <2>2, <2>3 DEF Counted
<1> HIDE DEF about
<1>2. SumOver(Counts, Statements) <= SumOver(Exposures, Statements) + SumOver(Written, Calls)
  BY <1>1, LimitType, SumCovered
<1>3. SumOver(Carried, Calls) = SumOver(Enqueued, Calls) + SumOver(Written, Calls)
  <2>1. \A c \in Calls : \/ Enqueued[c] = 0 /\ Written[c] = Carried[c]
                         \/ Enqueued[c] = Carried[c] /\ Written[c] = 0
    <3>1. \A c \in Calls : calls[c].step \in {"idle", "instruct", "create", "put"}
      BY DEF Inv, TypeInv, Idle, Busy
    <3> QED BY <3>1 DEF Enqueued, Written, Carried
  <2> QED BY <2>1, LimitType, SumParts
<1>4. SumOver(Written, Calls) \in Nat
  BY LimitType, SumType
<1> QED BY <1>2, <1>3, <1>4, LimitType DEF CountedToday, ToCome, ExposedToday, UnderWay

(* While a request is idle, the others leave room for one limit. *)
LEMMA RoomForOne ==
  ASSUME Inv, LimitInv, NEW c \in Calls, calls[c] = Idle,
         Serial => \A d \in Calls : calls[d] = Idle
  PROVE  UnderWay + DailyLimit <= Bound
<1>1. CASE Serial
  <2>1. \A d \in Calls : Carried[d] = 0
    BY <1>1 DEF Idle, Carried
  <2>2. UnderWay = 0
    BY <2>1, SumZero DEF UnderWay
  <2> QED BY <1>1, <2>2, LimitType DEF Bound
<1>2. CASE ~Serial
  <2>1. \A d \in Calls : Carried[d] <= DailyLimit
    BY LimitType DEF LimitInv, Carried
  <2>2. Carried[c] = 0
    BY DEF Idle, Carried
  <2>3. UnderWay + DailyLimit <= DailyLimit * Cardinality(Calls)
    BY <2>1, <2>2, LimitType, SumLeavesRoom DEF UnderWay
  <2> QED BY <1>2, <2>3 DEF Bound
<1> QED BY <1>1, <1>2

(* The bound holds after a step that adds to one statement no more than it   *)
(* takes from one request.                                                   *)
LEMMA ShiftWithin ==
  ASSUME Inv, Inv', LimitInv, NEW s \in Statements, NEW c \in Calls,
         \A t \in Statements \ {s} : Counts[t] = Counts'[t],
         \A d \in Calls \ {c} : Enqueued[d] = Enqueued'[d],
         Counts'[s] + Enqueued'[c] <= Counts[s] + Enqueued[c]
  PROVE  CountedToday' + ToCome' <= Bound
<1>1. /\ Counts[s] \in Nat /\ Counts'[s] \in Nat /\ Enqueued[c] \in Nat /\ Enqueued'[c] \in Nat
  BY LimitType, LimitTypeNext
<1>2. SumOver(Counts', Statements) + Counts[s] = SumOver(Counts, Statements) + Counts'[s]
  BY LimitType, LimitTypeNext, SumChange
<1>3. SumOver(Enqueued', Calls) + Enqueued[c] = SumOver(Enqueued, Calls) + Enqueued'[c]
  BY LimitType, LimitTypeNext, SumChange
<1>4. SumOver(Counts, Statements) = CountedToday /\ SumOver(Enqueued, Calls) = ToCome
  BY DEF CountedToday, ToCome
<1>5. CountedToday' + Counts[s] = CountedToday + Counts'[s]
  BY <1>2, <1>4, LimitTypeNext
<1>6. ToCome' + Enqueued[c] = ToCome + Enqueued'[c]
  BY <1>3, <1>4, LimitTypeNext
<1>7. CountedToday + ToCome <= Bound
  BY DEF LimitInv
<1>8. /\ CountedToday \in Nat /\ CountedToday' \in Nat
      /\ ToCome \in Nat /\ ToCome' \in Nat /\ Bound \in Nat
  BY LimitType, LimitTypeNext
<1> QED BY <1>1, <1>5, <1>6, <1>7, <1>8

(* What counts depends on the operations, the requests that write and the    *)
(* day: a step that changes one request changes what counts for its          *)
(* statement only.                                                           *)
LEMMA CountsKept ==
  ASSUME NEW c \in Calls, \A d \in Calls \ {c} : calls'[d] = calls[d], UNCHANGED today,
         NEW s \in Statements, operations'[s] = operations[s],
         ~Writing(c, s), ~Writing(c, s)'
  PROVE  Counts'[s] = Counts[s]
<1>1. Live(s)' <=> Live(s)
  BY DEF Live, Known, LiveToday
<1>2. \A d \in Calls \ {c} : Writing(d, s)' <=> Writing(d, s)
  BY DEF Writing, LiveToday
<1>3. Counted(s)' <=> Counted(s)
  BY <1>1, <1>2 DEF Counted
<1> QED BY <1>3 DEF Counts

(* Requests that do not change carry what they carried. *)
LEMMA EnqueuedKept ==
  ASSUME NEW c \in Calls, \A d \in Calls \ {c} : calls'[d] = calls[d]
  PROVE  \A d \in Calls \ {c} : Enqueued[d] = Enqueued'[d]
  BY DEF Enqueued

(* Checking a payout: it fits the limit with all that is live, and what the  *)
(* requests under way may add leaves room for it.                            *)
LEMMA CheckWithin ==
  ASSUME Inv, Inv', LimitInv, ListLimit >= NumStatements,
         NEW c \in Calls, NEW s \in Statements, NEW mode \in Modes, EnqueueCheck(c, s, mode)
  PROVE  LimitInv'
<1>1. PICK call \in Busy :
        /\ call.step = "instruct" /\ call.statement = s
        /\ call.op.amount \in Nat /\ WithinLimits(call.op.amount)
        /\ call.op.day = today
        /\ calls[c] = Idle /\ (Serial => \A d \in Calls : calls[d] = Idle)
        /\ calls' = [calls EXCEPT ![c] = call]
        /\ UNCHANGED <<instructions, operations, today, rejected>>
  BY CheckedCall DEF Inv
<1>2. calls'[c] = call /\ \A d \in Calls \ {c} : calls'[d] = calls[d]
  BY <1>1 DEF Inv, TypeInv
<1>3. PICK a \in Nat : a = call.op.amount
  BY <1>1
<1>4. ExposedToday + a <= DailyLimit
  BY <1>1, <1>3, AllListed, ExposureComputed DEF WithinLimits
<1>5. CountedToday' = CountedToday
  <2>1. \A t \in Statements : ~Writing(c, t) /\ ~Writing(c, t)'
    BY <1>1, <1>2 DEF Writing, Idle
  <2>2. \A t \in Statements : Counts'[t] = Counts[t]
    BY <1>1, <1>2, <2>1, CountsKept
  <2>3. SumOver(Counts', Statements) = SumOver(Counts, Statements)
    BY <2>2, SumSame
  <2> QED BY <2>3, LimitTypeNext DEF CountedToday
<1>6. ToCome' = ToCome + a
  <2>1. Enqueued[c] = 0 /\ Enqueued'[c] = a
    BY <1>1, <1>2, <1>3 DEF Enqueued, Idle
  <2>2. \A d \in Calls \ {c} : Enqueued[d] = Enqueued'[d]
    BY <1>2, EnqueuedKept
  <2>3. SumOver(Enqueued', Calls) + Enqueued[c] = SumOver(Enqueued, Calls) + Enqueued'[c]
    BY <2>2, LimitType, LimitTypeNext, SumChange
  <2>4. SumOver(Enqueued', Calls) = ToCome' /\ SumOver(Enqueued, Calls) = ToCome
    BY LimitTypeNext DEF ToCome
  <2> QED BY <2>1, <2>3, <2>4, LimitType, LimitTypeNext
<1>7. UnderWay + DailyLimit <= Bound
  BY <1>1, RoomForOne
<1>8. CountedToday' + ToCome' <= Bound
  BY <1>4, <1>5, <1>6, <1>7, CountCovered, LimitType
<1>9. today \in Int /\ a <= DailyLimit
  BY <1>4, LimitType DEF Inv, TypeInv
<1>10. \A d \in Calls : calls'[d].step # "idle" =>
                          calls'[d].op.day <= today' /\ calls'[d].op.amount <= DailyLimit
  BY <1>1, <1>2, <1>3, <1>9 DEF LimitInv
<1>11. Serial => \A d, e \in Calls : calls'[d].step # "idle" /\ calls'[e].step # "idle" => d = e
  BY <1>1, <1>2 DEF Idle
<1>12. \A t \in Statements : Known(t)' => operations'[t].day <= today' /\ Gross[t] <= DailyLimit
  BY <1>1 DEF LimitInv, Known
<1> QED BY <1>8, <1>10, <1>11, <1>12 DEF LimitInv, Bound

(* Storing the instruction: the request carries on or carries nothing. *)
LEMMA InstructWithin ==
  ASSUME Inv, Inv', LimitInv, NEW c \in Calls, PutArtifact(c) PROVE LimitInv'
<1>1. /\ calls[c].step = "instruct" /\ UNCHANGED <<instructions, operations, today>>
      /\ \/ calls' = [calls EXCEPT ![c].step = "create"]
         \/ calls' = [calls EXCEPT ![c] = Idle]
  BY DEF PutArtifact, Return
<1>2. calls[c] \in Busy /\ calls[c].statement \in Statements /\ calls[c].op.amount \in Nat
  BY <1>1, CallType DEF Inv, Operation
<1>3. /\ \/ calls'[c].step = "create" /\ calls'[c].op = calls[c].op
         \/ calls'[c].step = "idle"
      /\ \A d \in Calls \ {c} : calls'[d] = calls[d]
  BY <1>1, <1>2 DEF Inv, TypeInv, Busy, Idle
<1>4. \A t \in Statements : Counts'[t] = Counts[t]
  <2>1. \A t \in Statements : ~Writing(c, t) /\ ~Writing(c, t)'
    BY <1>1, <1>3 DEF Writing
  <2> QED BY <1>1, <1>3, <2>1, CountsKept
<1>5. Enqueued'[c] <= Enqueued[c]
  BY <1>1, <1>2, <1>3 DEF Enqueued
<1>6. CountedToday' + ToCome' <= Bound
  <2>1. PICK s \in Statements : s = calls[c].statement
    BY <1>2
  <2>2. Counts'[s] + Enqueued'[c] <= Counts[s] + Enqueued[c]
    <3>1. Counts[s] \in Nat /\ Enqueued[c] \in Nat /\ Enqueued'[c] \in Nat
      BY LimitType, LimitTypeNext
    <3> QED BY <1>4, <1>5, <3>1
  <2>3. \A d \in Calls \ {c} : Enqueued[d] = Enqueued'[d]
    BY <1>3, EnqueuedKept
  <2>4. \A t \in Statements \ {s} : Counts[t] = Counts'[t]
    BY <1>4
  <2> QED BY <2>2, <2>3, <2>4, ShiftWithin
<1>7. \A d \in Calls : calls'[d].step # "idle" =>
                         calls'[d].op.day <= today' /\ calls'[d].op.amount <= DailyLimit
  BY <1>1, <1>3 DEF LimitInv
<1>8. Serial => \A d, e \in Calls : calls'[d].step # "idle" /\ calls'[e].step # "idle" => d = e
  BY <1>1, <1>3 DEF LimitInv
<1>9. \A t \in Statements : Known(t)' => operations'[t].day <= today' /\ Gross[t] <= DailyLimit
  BY <1>1 DEF LimitInv, Known
<1> QED BY <1>6, <1>7, <1>8, <1>9 DEF LimitInv, Bound

(* Looking up: what the request carried counts for its statement now, or     *)
(* nothing does when the operation was known.                                *)
LEMMA CreateWithin ==
  ASSUME Inv, Inv', LimitInv, NEW c \in Calls, CreateOperation(c) PROVE LimitInv'
<1>1. /\ calls[c].step = "create" /\ UNCHANGED <<instructions, operations, today, rejected>>
      /\ calls[c] \in Busy /\ calls[c].statement \in Statements /\ calls[c].op \in Operation
      /\ \/ calls' = [calls EXCEPT ![c] = Idle]
         \/ \E call \in Busy :
              /\ calls' = [calls EXCEPT ![c] = call]
              /\ call.step = "put" /\ call.statement = calls[c].statement
              /\ call.op.amount = calls[c].op.amount /\ call.op.day = today
  BY LookedUp DEF Inv
<1>2. PICK s \in Statements : s = calls[c].statement
  BY <1>1
<1>3. /\ \/ calls'[c].step = "idle"
         \/ /\ calls'[c].step = "put" /\ calls'[c].statement = s
            /\ calls'[c].op.amount = calls[c].op.amount /\ calls'[c].op.day = today
      /\ \A d \in Calls \ {c} : calls'[d] = calls[d]
  BY <1>1, <1>2 DEF Inv, TypeInv, Idle
<1>4. calls[c].op.amount = Gross[s] /\ Gross[s] \in Nat
  BY <1>1, <1>2, LimitType DEF Inv, Instructed
<1>5. \A t \in Statements \ {s} : Counts[t] = Counts'[t]
  <2>1. \A t \in Statements \ {s} : ~Writing(c, t) /\ ~Writing(c, t)'
    BY <1>1, <1>3 DEF Writing
  <2> QED BY <1>1, <1>3, <2>1, CountsKept
<1>6. Counts'[s] <= Gross[s] /\ Counts[s] \in Nat /\ Counts'[s] \in Nat
  BY <1>4, LimitType, LimitTypeNext DEF Counts
<1>7. Enqueued[c] = Gross[s] /\ Enqueued'[c] = 0
  BY <1>1, <1>3, <1>4 DEF Enqueued
<1>8. \A d \in Calls \ {c} : Enqueued[d] = Enqueued'[d]
  BY <1>3, EnqueuedKept
<1>9. Counts'[s] + Enqueued'[c] <= Counts[s] + Enqueued[c]
  BY <1>4, <1>6, <1>7
<1>10. CountedToday' + ToCome' <= Bound
  BY <1>5, <1>8, <1>9, ShiftWithin
<1>11. today \in Int
  BY DEF Inv, TypeInv
<1>12. \A d \in Calls : calls'[d].step # "idle" =>
                          calls'[d].op.day <= today' /\ calls'[d].op.amount <= DailyLimit
  BY <1>1, <1>3, <1>11 DEF LimitInv
<1>13. Serial => \A d, e \in Calls : calls'[d].step # "idle" /\ calls'[e].step # "idle" => d = e
  BY <1>1, <1>3 DEF LimitInv
<1>14. \A t \in Statements : Known(t)' => operations'[t].day <= today' /\ Gross[t] <= DailyLimit
  BY <1>1 DEF LimitInv, Known
<1> QED BY <1>10, <1>12, <1>13, <1>14 DEF LimitInv, Bound

(* Reading an operation to move it: what is live after the move was live     *)
(* when it was read.                                                         *)
LEMMA MoveWithin ==
  ASSUME Inv, Inv', LimitInv, NEW c \in Calls, NEW s \in Statements,
         NEW state \in Rail!EventTypes, MoveOperation(c, s, state)
  PROVE  LimitInv'
<1>1. PICK call \in Busy :
        /\ call.step = "put" /\ call.statement = s
        /\ call.op.state = state
        /\ call.op.amount = operations[s].amount /\ call.op.day = operations[s].day
        /\ Known(s) /\ operations[s] \in Operation
        /\ \/ state = operations[s].state
           \/ state \in Rail!ALLOWED_STATE_TRANSITIONS[operations[s].state]
        /\ calls[c] = Idle /\ (Serial => \A d \in Calls : calls[d] = Idle)
        /\ calls' = [calls EXCEPT ![c] = call]
        /\ UNCHANGED <<instructions, operations, today, rejected>>
  BY MovedCall DEF Inv
<1>2. calls'[c] = call /\ \A d \in Calls \ {c} : calls'[d] = calls[d]
  BY <1>1 DEF Inv, TypeInv
<1>3. Writing(c, s)' => Live(s)
  <2>1. operations[s].state \in Rail!States
    BY <1>1 DEF Operation, Rail!States
  <2>2. state \in {"initiated", "submitted", "confirmed"} =>
          operations[s].state \in {"initiated", "submitted", "confirmed"}
    BY <1>1, <2>1 DEF Rail!ALLOWED_STATE_TRANSITIONS, Rail!States
  <2> QED BY <1>1, <1>2, <2>2 DEF Writing, Live, LiveToday
<1>4. \A t \in Statements \ {s} : Counts[t] = Counts'[t]
  <2>1. \A t \in Statements \ {s} : ~Writing(c, t) /\ ~Writing(c, t)'
    BY <1>1, <1>2 DEF Writing, Idle
  <2> QED BY <1>1, <1>2, <2>1, CountsKept
<1>5. Counted(s)' => Counted(s)
  <2>1. Live(s)' => Live(s)
    BY <1>1 DEF Live, Known, LiveToday
  <2>2. \A d \in Calls \ {c} : Writing(d, s)' => Writing(d, s)
    BY <1>1, <1>2 DEF Writing, LiveToday
  <2> QED BY <1>3, <2>1, <2>2 DEF Counted
<1>6. Counts'[s] <= Counts[s]
  BY <1>5, LimitType DEF Counts
<1>7. Enqueued'[c] = 0 /\ Enqueued[c] = 0 /\ \A d \in Calls \ {c} : Enqueued[d] = Enqueued'[d]
  BY <1>1, <1>2, EnqueuedKept DEF Enqueued, Idle
<1>8. CountedToday' + ToCome' <= Bound
  <2>1. Counts[s] \in Nat /\ Counts'[s] \in Nat
    BY LimitType, LimitTypeNext
  <2>2. Counts'[s] + Enqueued'[c] <= Counts[s] + Enqueued[c]
    BY <1>6, <1>7, <2>1
  <2> QED BY <1>4, <1>7, <2>2, ShiftWithin
<1>9. operations[s].day <= today /\ operations[s].amount <= DailyLimit
  BY <1>1 DEF LimitInv, Inv, Instructed
<1>10. \A d \in Calls : calls'[d].step # "idle" =>
                          calls'[d].op.day <= today' /\ calls'[d].op.amount <= DailyLimit
  BY <1>1, <1>2, <1>9 DEF LimitInv
<1>11. Serial => \A d, e \in Calls : calls'[d].step # "idle" /\ calls'[e].step # "idle" => d = e
  BY <1>1, <1>2 DEF Idle
<1>12. \A t \in Statements : Known(t)' => operations'[t].day <= today' /\ Gross[t] <= DailyLimit
  BY <1>1 DEF LimitInv, Known
<1> QED BY <1>8, <1>10, <1>11, <1>12 DEF LimitInv, Bound

(* Writing an operation: what it makes live was counted before. *)
LEMMA PutWithin ==
  ASSUME Inv, Inv', LimitInv, NEW c \in Calls, PutOperation(c) PROVE LimitInv'
<1>1. PICK s \in Statements, new \in Operation :
        /\ s = calls[c].statement /\ new = calls[c].op /\ calls[c].step = "put"
        /\ new # None /\ new.amount = Gross[s] /\ instructions[s] # None
        /\ operations'[s] = new /\ \A t \in Statements \ {s} : operations'[t] = operations[t]
        /\ calls'[c] = Idle /\ \A d \in Calls \ {c} : calls'[d] = calls[d]
        /\ UNCHANGED <<instructions, today, rejected>>
  BY PutChanges
<1>2. \A t \in Statements \ {s} : Counts[t] = Counts'[t]
  <2>1. \A t \in Statements \ {s} : ~Writing(c, t) /\ ~Writing(c, t)'
    BY <1>1 DEF Writing, Idle
  <2> QED BY <1>1, <2>1, CountsKept
<1>3. Counted(s)' => Counted(s)
  <2>1. Live(s)' => Writing(c, s)
    BY <1>1 DEF Live, Known, Writing, LiveToday
  <2>2. \A d \in Calls : Writing(d, s)' => Writing(d, s)
    BY <1>1 DEF Writing, LiveToday, Idle
  <2> QED BY <2>1, <2>2 DEF Counted
<1>4. Counts'[s] <= Counts[s]
  BY <1>3, LimitType DEF Counts
<1>5. Enqueued'[c] = 0 /\ Enqueued[c] = 0 /\ \A d \in Calls \ {c} : Enqueued[d] = Enqueued'[d]
  BY <1>1, EnqueuedKept DEF Enqueued, Idle
<1>6. CountedToday' + ToCome' <= Bound
  <2>1. Counts[s] \in Nat /\ Counts'[s] \in Nat
    BY LimitType, LimitTypeNext
  <2>2. Counts'[s] + Enqueued'[c] <= Counts[s] + Enqueued[c]
    BY <1>4, <1>5, <2>1
  <2> QED BY <1>2, <1>5, <2>2, ShiftWithin
<1>7. new.day <= today /\ Gross[s] <= DailyLimit
  BY <1>1 DEF LimitInv
<1>8. \A d \in Calls : calls'[d].step # "idle" =>
                         calls'[d].op.day <= today' /\ calls'[d].op.amount <= DailyLimit
  BY <1>1 DEF LimitInv, Idle
<1>9. Serial => \A d, e \in Calls : calls'[d].step # "idle" /\ calls'[e].step # "idle" => d = e
  BY <1>1 DEF LimitInv, Idle
<1>10. \A t \in Statements : Known(t)' => operations'[t].day <= today' /\ Gross[t] <= DailyLimit
  BY <1>1, <1>7 DEF LimitInv, Known
<1> QED BY <1>6, <1>8, <1>9, <1>10 DEF LimitInv, Bound

(* A new day starts with nothing live, and nothing about to be written; what *)
(* was checked is within the bound already.                                  *)
LEMMA DayWithin == ASSUME Inv, Inv', LimitInv, NextDay PROVE LimitInv'
<1>1. today' = today + 1 /\ UNCHANGED <<operations, calls>> /\ today \in Nat
  BY DEF NextDay, Inv, TypeInv
<1>2. \A s \in Statements : Known(s) => operations[s].day \in Nat
  BY DEF Inv, TypeInv, Known, Operation
<1>3. \A c \in Calls : calls[c].step # "idle" => calls[c].op.day \in Nat
  BY CallType DEF Inv, Operation
<1>4. \A s \in Statements : ~Live(s)'
  BY <1>1, <1>2 DEF Live, LiveToday, Known, LimitInv
<1>5. \A s \in Statements, c \in Calls : ~Writing(c, s)'
  BY <1>1, <1>3 DEF Writing, LiveToday, LimitInv
<1>6. CountedToday' = 0
  <2>1. \A s \in Statements : Counts'[s] = 0
    BY <1>4, <1>5 DEF Counts, Counted
  <2>2. SumOver(Counts', Statements) = 0
    BY <2>1, SumZero
  <2> QED BY <2>2, LimitTypeNext
<1>7. ToCome' = ToCome
  BY <1>1 DEF ToCome, Enqueued
<1>8. CountedToday' + ToCome' <= Bound
  BY <1>6, <1>7, LimitType DEF LimitInv
<1>9. \A t \in Statements : Known(t)' => operations'[t].day <= today' /\ Gross[t] <= DailyLimit
  BY <1>1, <1>2 DEF LimitInv, Known
<1>10. \A d \in Calls : calls'[d].step # "idle" =>
                          calls'[d].op.day <= today' /\ calls'[d].op.amount <= DailyLimit
  BY <1>1, <1>3 DEF LimitInv
<1> QED BY <1>1, <1>8, <1>9, <1>10 DEF LimitInv, Bound

(* After a crash only what is live counts. *)
LEMMA CrashWithin == ASSUME Inv, Inv', LimitInv, Crash PROVE LimitInv'
<1>1. calls' = [c \in Calls |-> Idle] /\ UNCHANGED <<operations, today>>
  BY DEF Crash
<1>2. \A c \in Calls : calls'[c].step = "idle"
  BY <1>1 DEF Idle
<1>3. ToCome' = 0
  <2>1. \A c \in Calls : Enqueued'[c] = 0
    BY <1>2 DEF Enqueued
  <2>2. SumOver(Enqueued', Calls) = 0
    BY <2>1, SumZero
  <2> QED BY <2>2, LimitTypeNext
<1>4. CountedToday' <= CountedToday
  <2>1. \A s \in Statements : Counted(s)' => Counted(s)
    BY <1>1, <1>2 DEF Counted, Live, Known, LiveToday, Writing
  <2>2. \A s \in Statements : Counts'[s] <= Counts[s]
    BY <2>1, LimitType DEF Counts
  <2>3. SumOver([c \in Calls |-> 0], Calls) = 0
    BY SumZero
  <2>4. PICK none \in [Calls -> Nat] : none = [c \in Calls |-> 0]
    OBVIOUS
  <2>5. SumOver(Counts', Statements) <= SumOver(Counts, Statements) + SumOver(none, Calls)
    BY <2>2, LimitType, LimitTypeNext, SumCovered
  <2> QED BY <2>3, <2>4, <2>5, LimitType, LimitTypeNext DEF CountedToday
<1>5. CountedToday' + ToCome' <= Bound
  BY <1>3, <1>4, LimitType, LimitTypeNext DEF LimitInv
<1>6. \A t \in Statements : Known(t)' => operations'[t].day <= today' /\ Gross[t] <= DailyLimit
  BY <1>1 DEF LimitInv, Known
<1> QED BY <1>2, <1>5, <1>6 DEF LimitInv, Bound

(* Every step stays within the bound. *)
LEMMA StepLimit ==
  ASSUME Inv, LimitInv, [Next]_vars, ListLimit >= NumStatements PROVE LimitInv'
<1>1. Inv'
  BY StepInv
<1>2. ASSUME UNCHANGED <<operations, today, calls>> PROVE LimitInv'
  BY <1>2 DEF LimitInv, CountedToday, Counts, Counted, Live, LiveToday, Writing, Known,
     ToCome, Enqueued, Bound
<1>3. ASSUME NEW s \in Statements, CloseMonth(s) PROVE LimitInv'
  BY <1>2, <1>3 DEF CloseMonth
<1>4. ASSUME UNCHANGED vars PROVE LimitInv'
  BY <1>2, <1>4 DEF vars
<1> QED
  BY <1>1, <1>3, <1>4, CheckWithin, InstructWithin, CreateWithin, MoveWithin, PutWithin,
     DayWithin, CrashWithin DEF Next

(* Nothing is live or under way at first. *)
LEMMA InitLimit == Init => LimitInv
<1> SUFFICES ASSUME Init PROVE LimitInv
  OBVIOUS
<1>1. Inv
  BY InitInv
<1>2. \A s \in Statements : ~Known(s)
  BY DEF Init, Known
<1>3. \A c \in Calls : calls[c].step = "idle"
  BY DEF Init, Idle
<1>4. CountedToday = 0
  <2>1. \A s \in Statements : Counts[s] = 0
    BY <1>2, <1>3 DEF Counts, Counted, Live, Writing
  <2> QED BY <2>1, SumZero DEF CountedToday
<1>5. ToCome = 0
  <2>1. \A c \in Calls : Enqueued[c] = 0
    BY <1>3 DEF Enqueued
  <2> QED BY <2>1, SumZero DEF ToCome
<1>6. DailyLimit \in Nat /\ Bound \in Nat
  BY <1>1, LimitType
<1> QED BY <1>2, <1>3, <1>4, <1>5, <1>6 DEF LimitInv

(* What is exposed counts. *)
LEMMA ExposedCounted == ASSUME Inv, LimitInv PROVE ExposedToday <= Bound
<1>1. \A s \in Statements : Exposures[s] <= Counts[s]
  BY LimitType DEF Exposures, Counts, Counted
<1>2. PICK none \in [Calls -> Nat] : none = [c \in Calls |-> 0]
  OBVIOUS
<1>3. SumOver(none, Calls) = 0
  BY <1>2, SumZero
<1>4. SumOver(Exposures, Statements) <= SumOver(Counts, Statements) + SumOver(none, Calls)
  BY <1>1, LimitType, SumCovered
<1> QED BY <1>3, <1>4, LimitType DEF ExposedToday, CountedToday, LimitInv

(* However many enqueues, submits, cancels and events follow each other,     *)
(* overlap, wait past midnight or are lost in a crash, what is exposed on a  *)
(* day stays below one limit for each request that may be under way, if the  *)
(* list the limit is checked against is not cut off.                         *)
THEOREM OverrunStaysBounded ==
  ASSUME ListLimit >= NumStatements PROVE Spec => []OverrunBounded
<1>1. Inv /\ LimitInv => OverrunBounded
  <2> SUFFICES ASSUME Inv, LimitInv PROVE OverrunBounded
    OBVIOUS
  <2>1. ExposedToday <= Bound
    BY ExposedCounted
  <2>2. PICK l \in Nat, n \in Nat : l = DailyLimit /\ n = Cardinality(Calls)
    BY LimitType
  <2>3. n # 0
    BY <2>2, PayoutsAssumption, FS_EmptySet
  <2>4. l <= l * n
    BY <2>3
  <2>5. l * n \in Nat
    OBVIOUS
  <2>6. ExposedToday <= l * n
    BY <2>1, <2>2, <2>4, <2>5, LimitType DEF Bound
  <2> QED BY <2>2, <2>6, ExposureComputed DEF OverrunBounded
<1>2. Inv /\ LimitInv /\ [Next]_vars => (Inv /\ LimitInv)'
  BY StepInv, StepLimit
<1> QED BY <1>1, <1>2, InitInv, InitLimit, PTL DEF Spec

(* When requests do not overlap, the payouts of a day respect the limit,     *)
(* those that were checked on the day before included.                       *)
THEOREM SerialRespectsLimit ==
  ASSUME Serial, ListLimit >= NumStatements PROVE Spec => []DailyLimitRespected
<1>1. Inv /\ LimitInv => DailyLimitRespected
  <2> SUFFICES ASSUME Inv, LimitInv PROVE DailyLimitRespected
    OBVIOUS
  <2>1. ExposedToday <= DailyLimit
    BY ExposedCounted DEF Bound
  <2> QED BY <2>1, ExposureComputed DEF DailyLimitRespected
<1>2. Inv /\ LimitInv /\ [Next]_vars => (Inv /\ LimitInv)'
  BY StepInv, StepLimit
<1> QED BY <1>1, <1>2, InitInv, InitLimit, PTL DEF Spec

-----------------------------------------------------------------------------
(* The refinement, one request at a time: what a request has read is still   *)
(* in the store when it writes.  InRail is what the money rail knows of a    *)
(* statement.                                                                *)

InRail(s) == IF operations[s] = None THEN None
             ELSE [state |-> operations[s].state, key |-> s, amount |-> operations[s].amount]

RailOperations == [s \in Statements |-> InRail(s)]

Snapshot(c) ==
  LET s == calls[c].statement  op == calls[c].op IN
  /\ calls[c].step \in {"instruct", "create"} => op.state = "initiated"
  /\ calls[c].step = "put" =>
       \/ ~Known(s) /\ op.state = "initiated"
       \/ /\ Known(s) /\ op.state \in Rail!EventTypes
          /\ \/ op.state = operations[s].state
             \/ op.state \in Rail!ALLOWED_STATE_TRANSITIONS[operations[s].state]

SerialInv ==
  /\ \A c, d \in Calls : calls[c].step # "idle" /\ calls[d].step # "idle" => c = d
  /\ \A c \in Calls : Snapshot(c)

(* A check puts a new operation under way. *)
LEMMA CheckedState ==
  ASSUME TypeInv, NEW c \in Calls, NEW s \in Statements, NEW mode \in Modes, EnqueueCheck(c, s, mode)
  PROVE  calls'[c].step = "instruct" /\ calls'[c].op.state = "initiated"
<1>1. PICK recovery \in 0 .. Gross[s] - 1 :
        calls' = [calls EXCEPT ![c] =
             [step |-> "instruct", statement |-> s,
              op |-> [state |-> "initiated", amount |-> Gross[s] - recovery,
                      recovery |-> recovery, day |-> today]]]
  BY Zenon DEF EnqueueCheck
<1>2. calls'[c] = [step |-> "instruct", statement |-> s,
                   op |-> [state |-> "initiated", amount |-> Gross[s] - recovery,
                           recovery |-> recovery, day |-> today]]
  BY <1>1 DEF TypeInv
<1> QED BY <1>2

(* A step of one request while no other is under way. *)
LEMMA AloneSteps ==
  ASSUME SerialInv, NEW c \in Calls, \A d \in Calls \ {c} : calls'[d] = calls[d],
         calls[c].step # "idle" \/ \A d \in Calls : calls[d] = Idle, Snapshot(c)'
  PROVE  SerialInv'
<1>1. \A d \in Calls \ {c} : calls'[d].step = "idle"
  BY DEF SerialInv, Idle
<1>2. \A d \in Calls : Snapshot(d)'
  BY <1>1 DEF Snapshot
<1> QED BY <1>1, <1>2 DEF SerialInv

(* What was read stays, since no other request starts. *)
LEMMA SerialStep ==
  ASSUME Serial, Inv, SerialInv, [Next]_vars PROVE SerialInv'
<1>1. ASSUME UNCHANGED <<operations, calls>> PROVE SerialInv'
  BY <1>1 DEF SerialInv, Snapshot, Known
<1>2. ASSUME NEW s \in Statements, CloseMonth(s) PROVE SerialInv'
  BY <1>1, <1>2 DEF CloseMonth
<1>3. ASSUME NEW c \in Calls, NEW s \in Statements, NEW mode \in Modes, EnqueueCheck(c, s, mode)
      PROVE  SerialInv'
  <2>1. PICK call \in Busy : /\ \A d \in Calls : calls[d] = Idle
                             /\ calls' = [calls EXCEPT ![c] = call]
    BY <1>3, CheckedCall DEF Inv
  <2>2. \A d \in Calls \ {c} : calls'[d] = calls[d]
    BY <2>1 DEF Inv, TypeInv
  <2>3. Snapshot(c)'
    BY <1>3, CheckedState DEF Inv, Snapshot
  <2> QED BY <2>1, <2>2, <2>3, AloneSteps
<1>4. ASSUME NEW c \in Calls, PutArtifact(c) PROVE SerialInv'
  <2>1. /\ calls[c].step = "instruct"
        /\ \/ calls' = [calls EXCEPT ![c].step = "create"]
           \/ calls' = [calls EXCEPT ![c] = Idle]
    BY <1>4 DEF PutArtifact, Return
  <2>2. calls[c] \in Busy
    BY <2>1, CallType DEF Inv
  <2>3. /\ \/ calls'[c].step = "create" /\ calls'[c].op = calls[c].op
           \/ calls'[c].step = "idle"
        /\ \A d \in Calls \ {c} : calls'[d] = calls[d]
    BY <2>1, <2>2 DEF Inv, TypeInv, Busy, Idle
  <2>4. Snapshot(c)'
    BY <2>1, <2>3 DEF SerialInv, Snapshot
  <2> QED BY <2>1, <2>3, <2>4, AloneSteps
<1>5. ASSUME NEW c \in Calls, CreateOperation(c) PROVE SerialInv'
  <2>1. /\ calls[c].step = "create" /\ UNCHANGED operations
        /\ \/ calls' = [calls EXCEPT ![c] = Idle]
           \/ \E call \in Busy :
                /\ ~Known(calls[c].statement)
                /\ calls' = [calls EXCEPT ![c] = call]
                /\ call.step = "put" /\ call.statement = calls[c].statement
                /\ call.op.state = calls[c].op.state
    BY <1>5, LookedUp DEF Inv
  <2>2. calls[c].op.state = "initiated"
    BY <2>1 DEF SerialInv, Snapshot
  <2>3. /\ \/ calls'[c].step = "idle"
           \/ /\ ~Known(calls[c].statement)
              /\ calls'[c].step = "put" /\ calls'[c].statement = calls[c].statement
              /\ calls'[c].op.state = calls[c].op.state
        /\ \A d \in Calls \ {c} : calls'[d] = calls[d]
    BY <2>1 DEF Inv, TypeInv, Idle
  <2>4. Snapshot(c)'
    BY <2>1, <2>2, <2>3 DEF Snapshot, Known
  <2> QED BY <2>1, <2>3, <2>4, AloneSteps
<1>6. ASSUME NEW c \in Calls, NEW s \in Statements, NEW state \in Rail!EventTypes,
             MoveOperation(c, s, state)
      PROVE  SerialInv'
  <2>1. PICK call \in Busy :
          /\ call.step = "put" /\ call.statement = s
          /\ call.op.state = state
          /\ Known(s)
          /\ \/ state = operations[s].state
             \/ state \in Rail!ALLOWED_STATE_TRANSITIONS[operations[s].state]
          /\ \A d \in Calls : calls[d] = Idle
          /\ calls' = [calls EXCEPT ![c] = call]
          /\ UNCHANGED <<instructions, operations, today, rejected>>
    BY <1>6, MovedCall DEF Inv
  <2>2. calls'[c] = call /\ \A d \in Calls \ {c} : calls'[d] = calls[d]
    BY <2>1 DEF Inv, TypeInv
  <2>3. Snapshot(c)'
    BY <2>1, <2>2 DEF Snapshot, Known
  <2> QED BY <2>1, <2>2, <2>3, AloneSteps
<1>7. ASSUME NEW c \in Calls, PutOperation(c) PROVE SerialInv'
  <2>1. /\ calls[c].step = "put" /\ calls'[c] = Idle
        /\ \A d \in Calls \ {c} : calls'[d] = calls[d]
    BY <1>7, PutChanges
  <2>2. Snapshot(c)'
    BY <2>1 DEF Snapshot, Idle
  <2> QED BY <2>1, <2>2, AloneSteps
<1>8. CASE NextDay \/ UNCHANGED vars
  BY <1>1, <1>8 DEF NextDay, vars
<1>9. CASE Crash
  BY <1>9 DEF Crash, SerialInv, Snapshot, Idle
<1> QED BY <1>2, <1>3, <1>4, <1>5, <1>6, <1>7, <1>8, <1>9 DEF Next

(* What the money rail knows of a statement is an operation, or nothing as   *)
(* long as nothing was enqueued.                                             *)
LEMMA InRailKnown ==
  ASSUME Inv, NEW s \in Statements
  PROVE  /\ ~Known(s) => InRail(s) = None
         /\ Known(s) => /\ InRail(s) # None
                        /\ InRail(s).state = operations[s].state
                        /\ InRail(s).key = s
                        /\ InRail(s).amount = operations[s].amount
<1>1. ASSUME Known(s) PROVE InRail(s) \in Rail!Operation
  <2>1. operations[s] \in Operation /\ operations[s].amount = Gross[s]
    BY <1>1 DEF Inv, TypeInv, Instructed, Known
  <2>2. Gross[s] \in Range(Gross)
    BY PayoutsAssumption DEF Range
  <2> QED BY <1>1, <2>1, <2>2 DEF InRail, Known, Operation, Rail!Operation, Rail!States
<1> QED BY <1>1, PayoutsAssumption DEF InRail, Known

(* A write is a creation of the money rail under a key of its own, a step    *)
(* along its table, or leaves what it knows.                                 *)
LEMMA PutImplements ==
  ASSUME Inv, SerialInv, NEW c \in Calls, PutOperation(c)
  PROVE  Rail!Next \/ RailOperations' = RailOperations
<1>1. PICK s \in Statements, new \in Operation :
        /\ s = calls[c].statement /\ new = calls[c].op /\ calls[c].step = "put"
        /\ new # None /\ new.amount = Gross[s]
        /\ operations'[s] = new /\ \A t \in Statements \ {s} : operations'[t] = operations[t]
  BY PutChanges
<1>2. \A t \in Statements \ {s} : InRail(t)' = InRail(t)
  BY <1>1 DEF InRail
<1>3. \/ ~Known(s) /\ new.state = "initiated"
      \/ /\ Known(s) /\ new.state \in Rail!EventTypes
         /\ \/ new.state = operations[s].state
            \/ new.state \in Rail!ALLOWED_STATE_TRANSITIONS[operations[s].state]
  BY <1>1 DEF SerialInv, Snapshot
<1>4. InRail(s)' = [state |-> new.state, key |-> s, amount |-> Gross[s]]
  BY <1>1 DEF InRail
<1>5. CASE ~Known(s) /\ new.state = "initiated"
  <2>1. Gross[s] \in Range(Gross)
    BY PayoutsAssumption DEF Range
  <2>2. InRail(s)' = Rail!buildOperationRecord(s, Gross[s])
    BY <1>4, <1>5 DEF Rail!buildOperationRecord
  <2>3. RailOperations' = [RailOperations EXCEPT ![s] = Rail!buildOperationRecord(s, Gross[s])]
    BY <1>2, <2>2 DEF RailOperations
  <2>4. RailOperations[s] = None
    BY <1>5, InRailKnown DEF RailOperations
  <2>5. ~Rail!KeyUsed(RailOperations, s)
    <3>1. \A t \in Statements \ {s} : RailOperations[t] # None => RailOperations[t].key # s
      BY InRailKnown DEF RailOperations
    <3> QED BY <2>4, <3>1 DEF Rail!KeyUsed
  <2>6. Rail!create(s, s, Gross[s])
    BY <2>3, <2>4, <2>5 DEF Rail!create, RailOperations, InRail
  <2> QED BY <2>1, <2>6 DEF Rail!Next
<1>6. ASSUME Known(s) PROVE InRail(s) = [state |-> operations[s].state, key |-> s, amount |-> Gross[s]]
  BY <1>6 DEF InRail, Known, Inv, Instructed
<1>7. CASE Known(s) /\ new.state = operations[s].state
  <2>1. InRail(s)' = InRail(s)
    BY <1>4, <1>6, <1>7
  <2> QED BY <1>2, <2>1 DEF RailOperations
<1>8. CASE /\ Known(s) /\ new.state \in Rail!EventTypes
           /\ new.state \in Rail!ALLOWED_STATE_TRANSITIONS[operations[s].state]
  <2>1. InRail(s)' = [InRail(s) EXCEPT !.state = new.state]
    BY <1>4, <1>6, <1>8
  <2>2. RailOperations' = [RailOperations EXCEPT ![s] = [@ EXCEPT !.state = new.state]]
    BY <1>2, <2>1 DEF RailOperations
  <2>3. RailOperations[s] # None /\ RailOperations[s].state = operations[s].state
    BY <1>8, InRailKnown DEF RailOperations
  <2>4. Rail!applyStateTransition(s, new.state)
    BY <1>8, <2>2, <2>3 DEF Rail!applyStateTransition, RailOperations, InRail
  <2> QED BY <1>8, <2>4 DEF Rail!Next
<1> QED BY <1>3, <1>5, <1>7, <1>8

(* Every step is a step of the money rail or leaves it alone. *)
LEMMA StepImplements ==
  ASSUME Inv, SerialInv, [Next]_vars PROVE Rail!Next \/ RailOperations' = RailOperations
<1>1. ASSUME UNCHANGED operations PROVE RailOperations' = RailOperations
  BY <1>1 DEF RailOperations, InRail
<1>2. ASSUME NEW s \in Statements, CloseMonth(s) PROVE UNCHANGED operations
  BY <1>2 DEF CloseMonth
<1>3. ASSUME NEW c \in Calls, NEW s \in Statements, NEW mode \in Modes, EnqueueCheck(c, s, mode)
      PROVE  UNCHANGED operations
  BY <1>3 DEF EnqueueCheck
<1>4. ASSUME NEW c \in Calls, PutArtifact(c) \/ CreateOperation(c) PROVE UNCHANGED operations
  BY <1>4 DEF PutArtifact, CreateOperation
<1>5. ASSUME NEW c \in Calls, NEW s \in Statements, NEW state \in Rail!EventTypes,
             MoveOperation(c, s, state)
      PROVE  UNCHANGED operations
  BY <1>5 DEF MoveOperation
<1>6. ASSUME NextDay \/ Crash \/ UNCHANGED vars PROVE UNCHANGED operations
  BY <1>6 DEF NextDay, Crash, vars
<1> QED BY <1>1, <1>2, <1>3, <1>4, <1>5, <1>6, PutImplements DEF Next

(* When requests do not overlap, payouts that are enqueued across midnight,  *)
(* again after a crash or with another net amount are operations of the      *)
(* money rail: created once per statement and moved along its table.         *)
THEOREM PayoutsImplementRail == ASSUME Serial PROVE Spec => Implements
<1>1. Init => Rail!Init
  BY DEF Init, Rail!Init
<1>2. Init => SerialInv
  BY DEF Init, SerialInv, Snapshot, Idle
<1>3. Inv /\ SerialInv /\ [Next]_vars => (Inv /\ SerialInv)'
  BY StepInv, SerialStep
<1>4. Inv /\ SerialInv /\ [Next]_vars => [Rail!Next]_RailOperations
  BY StepImplements
<1> QED BY <1>1, <1>2, <1>3, <1>4, InitInv, PTL
        DEF Spec, Implements, Rail!Spec, RailOperations, InRail

-----------------------------------------------------------------------------
(* When the instruction of an enqueue is the one the close has stored. *)

AlignedInv ==
  /\ EnqueueAligned
  /\ \A s \in Statements :
       instructions[s] # None => instructions[s] = [amount |-> Gross[s], suffixed |-> FALSE]
  /\ \A c \in Calls : calls[c].step = "instruct" => calls[c].op.amount = Gross[calls[c].statement]

(* Every step keeps instructions and requests in line. *)
LEMMA StepAligned ==
  ASSUME Inv, AlignedInv, [Next]_vars, "net" \notin Modes, ~SuffixedSource PROVE AlignedInv'
<1> USE DEF AlignedInv, EnqueueAligned
<1>1. ASSUME UNCHANGED <<instructions, calls, rejected>> PROVE AlignedInv'
  BY <1>1
<1>2. ASSUME NEW c \in Calls, NEW call, calls' = [calls EXCEPT ![c] = call],
             call.step # "instruct", UNCHANGED <<instructions, rejected>>
      PROVE  AlignedInv'
  <2>1. \A d \in Calls : calls'[d] = calls[d] \/ calls'[d] = call
    BY <1>2 DEF Inv, TypeInv
  <2> QED BY <1>2, <2>1
<1>3. ASSUME NEW s \in Statements, CloseMonth(s) PROVE AlignedInv'
  <2>1. /\ instructions' = [instructions EXCEPT ![s] = [amount |-> Gross[s], suffixed |-> SuffixedSource]]
        /\ UNCHANGED <<calls, rejected>> /\ SuffixedSource = FALSE
    BY <1>3, PayoutsAssumption DEF CloseMonth
  <2>2. \A t \in Statements : \/ instructions'[t] = instructions[t]
                              \/ instructions'[t] = [amount |-> Gross[t], suffixed |-> FALSE]
    BY <2>1 DEF Inv, TypeInv
  <2> QED BY <2>1, <2>2
<1>4. ASSUME NEW c \in Calls, NEW s \in Statements, NEW mode \in Modes, EnqueueCheck(c, s, mode)
      PROVE  AlignedInv'
  <2>1. mode # "net"
    OBVIOUS
  <2>2. PICK call \in Busy :
          /\ call.op.amount = Gross[s] /\ call.statement = s
          /\ calls' = [calls EXCEPT ![c] = call]
          /\ UNCHANGED <<instructions, operations, today, rejected>>
    BY <1>4, <2>1, CheckedCall DEF Inv
  <2>3. \A d \in Calls : calls'[d] = calls[d] \/ calls'[d] = call
    BY <2>2 DEF Inv, TypeInv
  <2> QED BY <2>2, <2>3
<1>5. ASSUME NEW c \in Calls, PutArtifact(c) PROVE AlignedInv'
  <2>1. calls[c].step = "instruct" /\ UNCHANGED <<instructions, operations, today>>
    BY <1>5 DEF PutArtifact
  <2>2. /\ calls[c] \in Busy /\ calls[c].statement \in Statements
        /\ instructions[calls[c].statement] # None
    BY <2>1, CallType DEF Inv, Instructed
  <2>3. instructions[calls[c].statement] = [amount |-> calls[c].op.amount, suffixed |-> FALSE]
    BY <2>1, <2>2
  <2>4. calls' = [calls EXCEPT ![c].step = "create"] /\ UNCHANGED rejected
    BY <1>5, <2>3 DEF PutArtifact
  <2>5. calls'[c].step = "create" /\ \A d \in Calls \ {c} : calls'[d] = calls[d]
    BY <2>2, <2>4 DEF Inv, TypeInv, Busy
  <2> QED BY <2>1, <2>4, <2>5
<1>6. ASSUME NEW c \in Calls, CreateOperation(c) PROVE AlignedInv'
  <2>1. /\ UNCHANGED <<instructions, rejected>>
        /\ \/ calls' = [calls EXCEPT ![c] = Idle]
           \/ \E call \in Busy : calls' = [calls EXCEPT ![c] = call] /\ call.step = "put"
    BY <1>6, LookedUp DEF Inv
  <2>2. CASE calls' = [calls EXCEPT ![c] = Idle]
    <3>1. Idle.step # "instruct"
      BY DEF Idle
    <3> QED BY <1>2, <2>1, <2>2, <3>1
  <2>3. ASSUME NEW call \in Busy, calls' = [calls EXCEPT ![c] = call], call.step = "put"
        PROVE  AlignedInv'
    <3>1. call.step # "instruct"
      BY <2>3
    <3> QED BY <1>2, <2>1, <2>3, <3>1
  <2> QED BY <2>1, <2>2, <2>3
<1>7. ASSUME NEW c \in Calls, NEW s \in Statements, NEW state \in Rail!EventTypes,
             MoveOperation(c, s, state)
      PROVE  AlignedInv'
  <2>1. PICK call \in Busy : /\ call.step = "put" /\ calls' = [calls EXCEPT ![c] = call]
                             /\ UNCHANGED <<instructions, operations, today, rejected>>
    BY <1>7, MovedCall DEF Inv
  <2> QED BY <1>2, <2>1
<1>8. ASSUME NEW c \in Calls, PutOperation(c) PROVE AlignedInv'
  BY <1>2, <1>8 DEF PutOperation, Return, Idle
<1>9. CASE NextDay \/ UNCHANGED vars
  BY <1>1, <1>9 DEF NextDay, vars
<1>10. CASE Crash
  BY <1>10 DEF Crash, Idle
<1> QED BY <1>3, <1>4, <1>5, <1>6, <1>7, <1>8, <1>9, <1>10 DEF Next

(* An enqueue that passed all checks is never refused by the stored          *)
(* instruction when nothing is netted and the close names the source event   *)
(* as the enqueue does; each of the two alone leads to refusals.             *)
THEOREM AlignedWithoutNetting ==
  ASSUME "net" \notin Modes, ~SuffixedSource PROVE Spec => []EnqueueAligned
<1>1. Init => AlignedInv
  BY DEF Init, AlignedInv, EnqueueAligned, Idle
<1>2. AlignedInv => EnqueueAligned
  BY DEF AlignedInv
<1>3. Inv /\ AlignedInv /\ [Next]_vars => (Inv /\ AlignedInv)'
  BY StepInv, StepAligned
<1> QED BY <1>1, <1>2, <1>3, InitInv, PTL DEF Spec

=============================================================================
