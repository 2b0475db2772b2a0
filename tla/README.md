# Verification of the settld settlement core

This directory holds TLA+ models of the part of settld (package name
*nooterra*) that moves money and keeps its records: agent wallets, settlements,
the x402 payment gate with the lifecycle of agents and the workers behind it,
the money rails and the payouts that use them, and the log file under the
in-memory store. TLC checks the models on small instances; TLAPS proves the
safety invariants, the action properties and three refinements for every
instance, some under the hypotheses that section 4 names.

Source paths below are relative to the repository root.

## 1. The system and its parts

settld is a control plane for payments between software agents. One Node
process (`src/api/app.js`, `src/api/server.js`) serves an HTTP API and runs
workers on a timer. Records live in an in-memory store with a transaction log
(`src/api/store.js`, `src/api/persistence.js`) or in Postgres
(`src/db/store-pg.js`). A handler reads records, computes, and commits one
transaction of upserts; between reads and commit it may await other services.

| Part | State | Operations | Interacts with |
|---|---|---|---|
| Agent wallets, `src/core/agent-wallets.js` | `availableCents`, `escrowLockedCents` per agent | create, credit, lock, release to payee, refund; transfer of available funds (not modelled) | called by every handler that moves money |
| Settlements, same file | status, parties, amount, released, refunded | create (locked), resolve, refund after release | one per run; the x402 gate has run `x402_<gateId>` and, for a holdback, `x402_<gateId>_holdback` |
| x402 gate, `src/api/app.js` 54362-59100 | gate record: terms, quote, `authorization`, `reversal`, `reversalDispatch`, `holdback` | create, quote, authorize-payment, verify, reversal (void, request refund, resolve refund) | wallets, settlements, lifecycle, reserve adapter, outbox |
| Agent lifecycle, `app.js` 21592-21820, 22441 | status and reason per agent | set status, freeze (wind-down) | checked by create, quote, authorize, verify |
| Freeze unwind, `app.js` 15262-15475 | none | second commit of a freeze: queue a void per hold, cancel quotes, deny escalations | gates, outbox |
| Wind-down worker, `app.js` 76139-76612 | outbox and cursor (memory) or claims and attempts (Postgres) | process a message: void or skip | gates, wallets, reserve adapter |
| Holdback worker, `app.js` 76614-76728 | none | release holdbacks whose window ended | gates, wallets, holdback settlements |
| Insolvency sweep, `src/api/workers/insolvency-sweep.js`, `app.js` 22346 | interval state | freeze agents that ran out of funds or lost their identity | lifecycle |
| Reserve adapter, `src/core/circle-reserve-adapter.js` | external; mode stub, fail, sandbox or production | reserve, void | authorize, reversal, wind-down |
| Transaction log, `src/api/store.js` 585, 5363, `src/api/persistence.js` 128-160, 712 | log file, maps in memory, outbox | append, apply, replay | every commit of the in-memory store |
| Job events, accounting, retention, `app.js` 75410, 6681, 7019 | event stream per job, cursor | post an event, record the cost of a settled job, expire evidence | transaction log, ledger |
| Money rails, `src/core/money-rail-adapters.js`, `app.js` 41929-42400 | operations, provider events | create, cancel, submit, ingest event | payouts, Stripe |
| Payouts, `app.js` 41560-41880 | payout instructions | close of a month, enqueue | money rails, tenant limits, artifacts |
| Escrow ledger, `src/core/escrow-ledger.js` | double-entry balances | hold, release, forfeit | ledger |
| Tool-call holdbacks, arbitration, run settlements and disputes, `app.js` | holds, cases, disputes | lock, open, verdict, release | wallets, settlements |
| Escalations, delegation grants, passports, sessions, marketplace, job state machine, deliveries, proofs, artifacts, federation, agentverse, SDKs | various | various | see `PROJECT.json` |

What is hard here:

* **One pot per wallet.** Holds, holdbacks and refund reserves of all gates of
  an agent share one number, `escrowLockedCents`. A draw succeeds whenever the
  number is large enough; only the records say whose money it is.
* **Several records per gate**, written by five handlers and two workers.
  Authorization, reversal, dispatch, holdback and both settlements must tell
  the same story in every order of calls.
* **Failure halfway.** A reserve that fails rolls back part of an
  authorization; a freeze commits twice; a worker may stop between the effect
  and the mark of a message.
* **Delivery.** The wind-down worker moves its cursor before it processes a
  message, and a restart moves it back to the start: a message that throws is
  lost, a message that was processed comes again.
* **Reads before an await, writes after it.** Upserts replace whole records and
  compare no version. What was committed during the await is undone. Whether
  the x402 handlers await anything depends on the reserve adapter: in stub and
  fail mode it answers at once, in sandbox and production mode over HTTP.
* **Stop and replay.** The line of a commit is in the file before it is applied
  in memory; cursors of workers and the ledger are not in the file.
* **Progress.** Holds of a frozen payer and holdbacks are given back or paid
  only by workers.

The properties that make the parts correct: balances never go negative; money
is conserved; escrow equals what the open records claim; the records of a gate
agree and explain every balance; a settlement resolves once and a holdback is
paid once; what a payee was paid stays with it; a frozen payer is unwound; queued voids, holds of frozen payers and holdbacks get resolved; the
lifecycle and money rail operations follow their tables; an operation pays what
its instruction says, once; what was acknowledged survives a restart and is
recorded once. `PROJECT.json` lists the hazards line by line with
the property that covers each.

## 2. Modules

| Module | Models |
|---|---|
| `CentSum` | sums of cents over a finite set, as the number of individual cents |
| `AgentWallets` | the operators of `agent-wallets.js` on wallets and settlements; `Can...` is the condition under which the code does not throw |
| `AgentLifecycle` | the lifecycle record, its table, the endpoint and the freeze |
| `X402Gate` | composes the two: the gate handlers, the unwind, both workers, the sweep, with the adapter in stub or fail mode and no cryptographic proofs |
| `MCX402Gate` | the symmetry set for TLC; constants are in the `.cfg` files |
| `CentSumProofs`, `AgentWalletsProofs` | lemmas about sums and about each money movement |
| `X402GateProofs` | type correctness and conservation of money |
| `X402RecordsProofs` | agreement of the records, single resolution, balances and escrow explained by the records, nothing stranded, the unwind of a freeze |
| `X402Races` | extends `X402Gate`: a live adapter and proofs, with authorize-payment, void, worker and verify taken apart at their awaits |
| `X402RacesProofs` | what survives that: types, holdbacks paid once, payees keep what they were paid |
| `MoneyRail` | abstract: what a money rail adapter promises; also the in-memory adapter, whose methods are atomic |
| `MoneyRailStore` | the adapter over a store with the endpoints that call it; implements `MoneyRail` |
| `MoneyRailProofs` | that refinement, the transition table, recorded events, one transfer, unique keys, kept requests, types |
| `Payouts`, `MCPayouts` | the enqueue of payouts and what happens to their operations; composes with `MoneyRail` by a refinement mapping |
| `PayoutsProofs` | that refinement, instructed amounts, the daily limit, alignment with the close |
| `JobRecords` | abstract: what a store promises about the event streams of jobs |
| `TxLog` | log file, memory, replay and the three writers of a job; implements `JobRecords` |
| `TxLogProofs` | that refinement, replay, single recording, acknowledged events, the ledger, types |

### X402Gate: state and actions

A gate record is kept in five variables: `gates` (status, terms, quote) and its
parts `authorization`, `reversal`, `dispatch` (the code's `reversalDispatch`)
and `holdback`. `settlements` and `holdbackRuns` are the two settlements of a
gate. `outbox` holds the wind-down messages and `cursor` how far the worker is,
`unwinding` the agents between the two commits of a freeze, `reserveMode` the
mode the adapter was started in; `funded` is a history variable for money from
outside.

The store is the in-memory one, and the system is the one with the reserve
adapter in stub or fail mode and verifications without a cryptographic proof. A
handler then awaits nothing that does I/O, so nothing else runs between its
reads and its commit, and every handler is one action, except the freeze, which
is `FreezeAgent` and `UnwindFrozen` as it commits twice. A handler that returns
an error changes nothing and is no action, except `ReserveFails`, which commits.
The mode changes only when the process starts (`Crash`), so within one life of
the process reserves succeed always or never; a void in fail mode works on a
gate that has no reserve and throws on one that has (`AdapterVoids`).

Parts that follow the code closely:

* `CreateGate` credits `autoFundPayerCents` only where the payer has no wallet;
  its existence checks apply only to requests without an idempotency key, and a
  known key is answered from the store, so a repeat acts only under a new key
  (`RekeyedCreate`).
* `AuthorizePayment` locks the hold again if an earlier reserve failed;
  `ReserveFails` takes it out of escrow and leaves the settlement locked.
* `VerifyGate(g, r)` leaves open which release `r` the policy decides on. The
  holdback is floored out of `r`, refunded with the rest, locked again under
  its own settlement and, without a dispute window, released at once. A holdback
  settlement that exists is taken as it is (`HoldbackRun`). `VerifyEffect` takes
  the records the handler has read as parameters, so that `X402Races` can give
  it stale ones.
* `VoidEffect` is shared by the manual void and the worker; neither looks at
  `walletEscrow.status`.
* `enqueueZkProofAutoVoid` is what a verification does whose wallet policy asks
  for a proof that is missing.
* `ProcessVoid`, `ProcessSkip` and `ProcessThrows` are the worker: each takes
  the next message and moves the cursor past it. A restart sets the cursor to 0,
  as it is not in the log, and delivers every message again.
* `SweepInsolvent` derives from the records what the code reads from the
  lifetime totals of a wallet. The sweep's other reasons are `FreezeAgent`.

Time is left out: a quote expires and a dispute window ends at any moment.
Signatures, receipts, evidence, policies and quotas only decide whether a
request is accepted; the model accepts every request that passes the modelled
guards, so it has more behaviours than the code there, not fewer.

### X402Races

The same system with the adapter in sandbox or production mode and with
cryptographic proofs. Four handlers now await I/O between reads and commit, and
each is a `Start...` that keeps what was read and one or more ends:

| Call | Up to the await | After it |
|---|---|---|
| authorize-payment | `StartAuthorize`: gate, settlement and wallet read, hold locked again in the wallet that was read (`app.js` 56178-56199) | `FinishAuthorize` (56429-56546), `FailAuthorize` (56216-56269) |
| void | `StartVoid`: settlement locked, wallet read and refunded (58406-58430) | `FinishVoid` (58582-58595), `FailVoid` (58436) |
| worker | `StartProcessVoid`: cursor moved, message and records looked at, wallet refunded (76600, 76174-76234) | `FinishVoid` (to 76542), `FailVoid` |
| verify with a proof | `StartVerify`: gate and settlement read (56600-56956) | `FinishVerify` (wallets and holdback settlement are read here, 57243, 57825; commit 58008), `RefuseVerify` (proof invalid, 56969), `RejectVerify` |

Every end upserts whole records: the gate as it was read with the changes of the
handler, the settlement as it was read and resolved, and the payer's wallet as
it was read and changed. All actions of `X402Gate` that call neither the adapter
nor the proof checker (`LocalNext`), and the voids of gates without a reserve,
run in between. `CrashCalls` stops the process with all its calls. The worker is
one call, as its tick does not overlap itself. The handlers await the store as
well; with the in-memory store those awaits do no I/O and let nothing else run.

`RecordsAgree`, `MoneyConserved`, `RecordsExplainBalances`, `EscrowMatchesClaims`
and `SettlesOnce` do not survive in this system; `x402_lost_update` and
`x402_late_void` are the two shortest ways to see it. `X402Races` checks what
does survive.

### MoneyRail, MoneyRailStore and Payouts

An operation is its state, key and amount. A call of the adapter is a read
(`StartCreate`, `StartCancel`, `StartIngest`), a `PutOperation` of the record
it read, and for an event a `RecordEvent`; `StartSubmit`, `Transfer`,
`LoadSubmitted` and `PutOperation` are the submit endpoint. `Serial` says that
requests do not overlap. The store is Postgres, where a call really awaits:
`putMoneyRailOperation` replaces the whole row (`store-pg.js` 7691-7709) and only
the unique index on the idempotency key refuses it (`KeyConflict`). The provider
repeats and reorders events: `StartIngest` takes any type at any time.
`transfers` counts what the provider really did.

`Payouts` numbers statements in the order of their operation ids, as the list of
operations is sorted. Every awaited step is an action: `EnqueueCheck` (statement,
chargebacks, limits), `PutArtifact`, `CreateOperation` (the lookup of
`adapter.create`) and `PutOperation` (its write). Submit, cancel and provider
events are `MoveOperation`, which reads an operation, and the same `PutOperation`,
which replaces the row by what was read: two enqueues of one statement and a
submit between them roll the operation back to initiated, as in the code. The
refinement mapping makes the operation of a statement one of `MoneyRail` whose
key is the statement and whose amount is the gross amount of some statement.
Limits and policies are changed only between calls: the mode is chosen per
enqueue. `CloseMonth` is the close of the Postgres store (`store-pg.js`
10441-10470), which names the requesting event as the source of an instruction,
as enqueue does; with `SuffixedSource` it is the close of the in-memory store
(`app.js` 7886-7938), which adds a suffix to it and is used only in
`PayoutsMemory.cfg`.

### TxLog

The file is `lines` and `tail`, what follows the last newline. An event is its
job and type, its `prevChainHash` the length of the stream it was built on.
`commitTx` appends, then applies; a conflict (`PREV_CHAIN_HASH_MISMATCH`) is
found when the line is in the file. `StopIn...` are stops during an append,
`Crash` is any other one; `Restart`, `ReplayRecord` and `ReplayDone` are the
start of a store, which may stop again. Memory mode handlers are one step, as
nothing they await does I/O, except the retention worker when the evidence store
is on disk or remote (`RetentionAwaits`). Left out of the accounting worker: the
`continue` on an invalid event or ledger error and entries of zero cost.

## 3. Runs

| Run | Instance | Shows |
|---|---|---|
| `x402_settle` | 2 agents paying each other, 2 gates, amount 2, credits of 4 up to 4 per agent, holdback 50 % with and without window, stub or fail adapter, restarts, freezes of one agent | `TypeOK`, `RecordsAgree`, `MoneyConserved`, `RecordsExplainBalances`, `NothingStranded`, `SettlesOnce` |
| `x402_live` | stub adapter, 1 payer, 2 gates, quotes, holdbacks, freezes and thaws, fairness | `FrozenPayerUnwound`, `EscrowMatchesClaims`, `FrozenHoldsResolve`, `QueuedVoidsHappen`, `HoldbacksArePaid` |
| `x402_races` | live adapter and proofs, 2 gates, 1 request and the worker awaiting answers at once, failing reserves and voids, stops, holdbacks, refunds | `RaceTypeOK`, `HoldbackPaidOnce`, `PayeesKeepMoney` |
| `x402_stranded_hold` | violation of `HoldsAreFunded` | in fail mode, a void after a failed reserve draws on another gate's hold |
| `x402_lost_update` | violation of `MoneyConserved` | a failed reserve writes back the wallet read before the await, a credit is lost |
| `x402_late_void` | violation of `SettlesOnce` | a void overwrites a verification that was committed during its await |
| `money_rail_serial` | 2 operations, 2 keys, 2 amounts, crashes, failing transfers, repeated events, one request at a time | `TypeOK`, `RecordedEventsApplied`, `Implements`, `RequestKept` |
| `money_rail_races` | 2 operations, 2 keys, 2 amounts, 2 requests that overlap | `KeysUnique` |
| `money_rail_double_transfer` | violation of `OneTransfer` | a submit repeated after a crash transfers the money again |
| `payouts_overlap` | 3 statements of 2 parties over 2 days, 2 requests that overlap, all chargeback policies, crashes | `OperationsInstructed`, `OverrunBounded` |
| `txlog_crash` | 2 jobs, 2 stops at any moment, clients that repeat requests, both workers, fairness | `TypeOK`, `ReplaySucceeds`, `RecordedOnce`, `LedgerMatchesEvents`, `Implements`, `SettledJobsCosted` |
| `txlog_poison` | violation of `ReplaySucceeds` | a commit refused after it was appended keeps the store from starting again |

Why the bounds are enough: with two gates, one can draw on the other's hold,
which is the way a shared pot goes wrong; a third adds only more of the same.
Releases of 0, 1 and 2 cover zero, partial and full, and the 50 % holdback of
them is 0, rounded down to 0, and exact. A credit of 4 makes two holds of 2 fit
and use it up, so that the sweep finds the payer exhausted. Two messages fill
the outbox with one per gate, and a restart delivers them again. In the races
one call and the worker are two actors that hold stale records of the same gate,
beside the handlers that await nothing; a verification without a proof commits
while another one awaits. Two operations and two keys are enough for a key or an
id to be taken by another operation. Three statements of two parties let an
enqueue follow two overlapping ones and a reversal be recovered from a later
payout of the same party; the daily limit of 2 is met by one payout. Two stops
allow one during the replay after the other; one job with evidence and one
without make every order of the three writers possible. The theorems of section
4 hold for every size.

Bounds are the constants `MaxFunded`, `MaxOutbox`, `MaxTransfers`, `MaxDays` and
`MaxCrashes`, which only disable credits, enqueueing, transfers, the next day
and stops. `CHECK_DEADLOCK FALSE` is set because the bounded systems stop when
everything is resolved. `x402_settle` uses symmetry of the gates; the runs with
liveness properties do not.

Fairness: `UnwindFrozen` is the rest of a running handler; the workers run on
the timer of `src/api/server.js` (`runAutotickOnce`), which starts a new round
after each interval whether or not the last one threw. The fairness condition
asks only that a message that can be processed is processed, never that a call
to the adapter succeeds, and does not cover crashes (a void that throws is lost,
so `QueuedVoidsHappen` is checked with the stub adapter). The sweep, clients
and operators have no fairness. In `TxLog` a supervisor starts the process again
and the replay runs to its end if it is not stopped; the accounting worker is on
the same timer, and the commit of the retention worker is the rest of a running
tick. Stops are bounded, so `SettledJobsCosted` says that the last start catches
up.

### Further configurations

These are kept for the behaviour they show; run them with
`tlc -config <file> <module>`. Most of them drop one hypothesis of a theorem of
section 4 and so show that the theorem needs it: `X402Rekeyed.cfg` for
`ResolvesOnce`, `MoneyRailLostUpdate.cfg` for `StoreFollowsTable`,
`PayoutsDailyRace.cfg` and `PayoutsListLimit.cfg` for `SerialRespectsLimit`,
`PayoutsNet.cfg` and `PayoutsMemory.cfg` for `AlignedWithoutNetting`,
`TxLogTorn.cfg` for `TxLogAckedDurable`. `MoneyRailOneTransfer.cfg` and
`PayoutsSerial.cfg` are small instances of `TransfersOnce`, `SerialRespectsLimit`
and `PayoutsImplementRail`.

| Configuration | Module | Outcome |
|---|---|---|
| `X402Rekeyed.cfg` | `MCX402Gate` | `SettlesOnce` is violated: a create under a new idempotency key replaces a resolved settlement |
| `AgentLifecycle.cfg` | `AgentLifecycle` | `TransitionsFollowTable` is violated: a freeze leaves a terminal status |
| `MoneyRailOneTransfer.cfg` | `MoneyRailStore` | `OneTransfer` holds without crashes, lost answers and overlaps |
| `MoneyRailLostUpdate.cfg` | `MoneyRailStore` | `TransitionsFollowTable` is violated: of a cancel and an event that overlap, the later write undoes the earlier |
| `PayoutsSerial.cfg` | `MCPayouts` | `DailyLimitRespected` and `Implements` hold when requests do not overlap |
| `PayoutsDailyRace.cfg`, `PayoutsListLimit.cfg` | `MCPayouts` | `DailyLimitRespected` is violated by overlapping enqueues, and by one enqueue when there are more operations than the list returns (200 in the code) |
| `PayoutsNet.cfg`, `PayoutsMemory.cfg` | `MCPayouts` | `EnqueueAligned` is violated: the instruction of the enqueue differs from the one the close of the month stored under the same id, in net mode by its amount, with the in-memory store by its source event id |
| `TxLogTorn.cfg` | `TxLog` | `AckedDurable` is violated: after a torn write the next line is glued to the torn one, and a later start drops both and everything behind them (`persistence.js` 133-151) |

## 4. Proofs

Assumptions on the constants, which TLC evaluates in the runs: `GateAssumption`
(agents and gates are finite sets, amounts are positive, the subsets are
subsets), `RaceAssumption`, `StoreAssumption`, `PayoutsAssumption` (limits are
natural numbers, gross amounts are positive, at least one and finitely many
calls), `TxLogAssumption`; the last three also say that markers such as `None`
differ from records. The bounds `MaxFunded`, `MaxOutbox`, `MaxTransfers`,
`MaxDays` and `MaxCrashes` are arbitrary natural numbers (`MaxDays` at least 1).
Any further hypothesis is in the statement of the theorem.

### Sums

Sums are proved about without induction. `CentSum` defines the sum of amounts
as the cardinality of the set of individual cents, so that its laws (a sum
changes by what one summand changes, sums of equal summands are equal, a summand
is at most the sum, a sum leaves room for one more) follow from the library's
facts about finite sets. `AgentWalletsProofs` says for each money movement what
it does to the two balances of each wallet.

### The x402 gate

The first group is about `X402Gate`, that is, about the adapter in stub or fail
mode without cryptographic proofs; it says nothing about a live adapter.

* `TypeCorrect`: `Spec => []TypeOK`. Not inductive alone: a release credits
  `settlements[g].payee`, which the types allow to be `NoAgent`. `TypeInv` adds
  `PartiesKnown`: a settlement that exists has two different agents as parties.
  Each action's guard (`CanLockEscrow`, `CanDrawEscrow`) keeps the balances
  natural; the holdback is a part of the release (`HoldbackPart`).
* `Conservation`: `Spec => []MoneyConserved`. Every action is shown to be
  `Accounted`: it moves money between wallets, or adds to `wallets` and
  `funded` alike.
* `Agreement`: `~RekeyedCreate` implies `Spec => []RecordsAgree`. With
  `TypeInv` the formula is inductive; what makes it so are the parts that
  relate the authorization to everything else: a gate has an authorization
  exactly when it exists, and a holdback settlement exists only once the
  authorization is settled.
* `ResolvesOnce`: `~RekeyedCreate` implies `Spec => SettlesOnce`, from the same
  step lemmas.
* `BalancesExplained`: `~RekeyedCreate` implies
  `Spec => []RecordsExplainBalances`: what an agent owns is what it was given
  plus what the settlements say was paid to it less what they say it paid. Each
  action changes the settlements of at most one gate (`AccountsFor`); for that
  gate the change of both parties' wallets equals the change of its terms in the
  two sums, and the sums change by those terms. `RecordsAgree` is needed for a
  holdback and a refund: they draw on amounts that another record of the same
  gate states. Failing reserves, restarts and repeated deliveries are included.
* `NothingIsStranded`: `~RekeyedCreate` implies `Spec => []NothingStranded`, in
  fail mode as well. For every gate an action touches, the escrow of each agent
  grows by no more than the gate's claim on it (`Covered`). It is the half of
  `EscrowMatchesClaims` that failing reserves leave; `x402_stranded_hold`
  violates the other half.
* `EscrowClaimed`: `~RekeyedCreate` and `"fail" \notin ReserveModes` imply
  `Spec => []EscrowMatchesClaims`. The strengthening is `HoldLocked` for every
  gate: while a settlement is locked, the authorization records its hold as
  locked in the wallet. It says that a void and a verification draw what the
  gate's own records claim, so no gate can draw on another's hold.
* `FreezesUnwind`: `~RekeyedCreate /\ ~ServerMayCrash` implies
  `Spec => []FrozenPayerUnwound`. Not inductive alone: the worker processes the
  message at its cursor, and only `MessagesAddressed` says that the message
  belongs to the gate and the dispatch it is about to settle. A stop between the
  two commits of a freeze leaves the holds without a void, which is why the
  second hypothesis is there.

The second group is about `X402Races`, for any number of requests that await
answers with the worker, failing calls and stops; it needs no hypothesis.

* `RaceTypeCorrect`: `RaceSpec => []RaceTypeOK`. `RaceInv` adds that what a call
  has read was a locked settlement with known parties whose payer opens gates:
  a wallet that is written back was valid when it was read.
* `HoldbacksPaidOnce`: `RaceSpec => HoldbackPaidOnce`. A verification reads the
  holdback settlement after its await and takes one that is resolved as it is;
  voids and authorizations do not write it.
* `PayeesKeep`: `RaceSpec => PayeesKeepMoney`. Stale wallets are those of payers
  of locked settlements (`PaidByPayer`, `KnownRead`); every other movement is
  shown to leave an agent what it owns unless it draws on that agent's escrow,
  and only an accepted refund does so for an agent that opens no gates.

### Money rails and payouts

* `StoreImplementsRail`: `Serial` implies `Spec => Rail!Spec`. The inductive
  invariant `SerialInv` says that at most one request is under way and that
  what it read is still stored; then a `PutOperation` is a create or a
  transition of `MoneyRail`, and every other step a stutter.
* `StoreFollowsTable`: `Serial` implies `Spec => TransitionsFollowTable`, from
  the same invariant.
* `EventsApplied`: `Serial` implies `Spec => []RecordedEventsApplied`, from the
  same invariant with the call between write and record: its operation is in the
  state the event announced or a later one.
* `TransfersOnce`: `Serial /\ ~ServerMayCrash /\ ~ProviderMayFail` implies
  `Spec => []OneTransfer`. `PaidInv` adds that a transferred operation has left
  the state `initiated` or its submit is still on the way to say so, and that a
  submit before its transfer finds none made. `money_rail_double_transfer` is the
  same formula with crashes.
* `RequestsKept`: `Serial` implies `Spec => RequestKept`, from `SerialInv`: what a
  request is about to write has the key and the amount of what is stored. The
  write of the Postgres store replaces both, so overlapping creates of one id
  would break it.
* `KeysStayUnique` and `RailTypeCorrect` hold without `Serial`: the key is checked
  in the write itself, not in the read before it.
* `PaysInstructed`: `Spec => []OperationsInstructed`, whatever overlaps, crashes
  or is netted. The inductive invariant `Instructed` traces the amount: a stored
  instruction is over the gross amount, a call that reached the create carries
  it, an operation pays it. A netted payout is therefore never paid in part: it
  meets the stored instruction and is refused.
* `PayoutsImplementRail`: `Serial` implies `Spec => Implements`. As for the money
  rail, `SerialInv` says that what the one request under way has read is still
  stored. Without `Serial` a create can undo a submit.
* `OverrunStaysBounded`: `ListLimit >= NumStatements` implies
  `Spec => []OverrunBounded`. `OverrunBounded` alone is not inductive: a request
  that has passed the check adds to the exposure later, and one that has read a
  live operation may write it back after it was cancelled and others took its
  room. `LimitInv` counts both in advance. `Counted` statements are those that
  are live today or that some request is about to write as live today, each once
  however many write it; `Enqueued` are the requests between check and lookup.
  Their amounts together are at most one limit per request that may be under
  way, and no request carries more than a limit. The check of an enqueue sees
  only what is live: that and its own amount fit in one limit, and each other
  request accounts for at most one more, by what it carries or by the statement
  it writes (`SumCovered`). No operation is dated after today, so that on a new
  day only what requests under way write counts.
* `SerialRespectsLimit`: with `Serial` besides, `Spec => []DailyLimitRespected`,
  from the same invariant with the bound of a single request.
* `AlignedWithoutNetting`: with `"net" \notin Modes` and `~SuffixedSource`,
  `Spec => []EnqueueAligned`: every stored instruction is then the one an
  enqueue computes (`AlignedInv`).

### Transaction log

* `TxLogImplements`: `~TornWrites /\ ~RetentionAwaits` implies
  `Spec => Records!Spec`, where `durable` is what a load of the file would
  bring back, whether the process is up or not. The inductive invariant: `Chain`
  (each line was built on the events of its job before it), `Once` (no event of
  a job is in the file twice), `Streams` and `Keys` (memory is what the applied
  part of the file says), `Reading` (what retention has read is still the head),
  `Starting` (a start never failed). Without `Chain` a replay could meet a
  conflict; without `Streams` and `Keys` a guard that looks at memory would say
  nothing about the file.
* `TxLogReplaySucceeds`, `TxLogRecordedOnce` follow from the same invariant,
  under the same two assumptions; `txlog_poison` and `TxLogTorn.cfg` show that
  each is needed. `TxLogAckedDurable` (an acknowledged event survives every
  stop) follows from the refinement: it is a consequence of `JobRecords` alone.
* `TxLogTypeCorrect` and `TxLogLedgerMatches` need neither assumption. With torn
  lines `Load` takes the minimum of a set of positions; that it exists is lemma
  `LeastIn`, from the well-foundedness of strict inclusion of finite sets. For
  the ledger, `LedgerMatchesEvents` speaks only of a store that is up, so the
  invariant adds `OutboxMatchesEvents`: at all times the messages in the outbox
  post exactly the settlements and costs of the streams, each under the position
  of its event. A start that fails, a conflict or a torn line then changes
  neither, or both.

`TypeCorrect` and `Conservation` hold under every failure `X402Gate` has,
repeated creates included; the other theorems about `X402Gate` need
`~RekeyedCreate`, as `X402Rekeyed.cfg` shows.

Every invariant and every action property that a passing run checks is a
theorem. Only model-checked are the liveness properties `FrozenHoldsResolve`,
`QueuedVoidsHappen`, `HoldbacksArePaid` and `SettledJobsCosted`: they rest on
fairness, which is out of the prover's reach. Nothing is proved about what
`Recovery` computes, which is a fold over the order of operations: the theorems
about payouts hold for every recovery below the gross amount.

## 5. Not modelled, and the plan

In order:

1. `EscrowLedger`: double-entry postings balance; proof like `Conservation`.
2. `ToolCallHoldback` and `RunSettlement`: holds, arbitration, disputes.
3. `SettlementPolicy`: the decision as an operator against a reference; then
   `VerifyGate` takes its release from it.
4. `Outbox`: claims, attempts and dead letters of the Postgres store for all
   topics, deliveries.
5. Escalations, and the idempotency store in `X402Races`.
6. `transferAgentWalletAvailable` with the handlers that call it: listing fees
   (`app.js` 60997) and the adjustments of a dispute (69407, 69423).

Not planned: signatures, canonical JSON, proof bundles and receipts
(byte-level conversions), schema validation, SDKs and dashboards, which keep no
state of the core. The Postgres store appears through what money rails and payouts
rely on: the upsert of an operation with its unique key, the artifact of an
instruction and the close of a month.

Observations made while reading that no property is about: the number of bytes
`writeSync` wrote is not looked at, so a short write is a torn line without a
stop; records that are written outside of `commitTx` are lost at a restart of
the in-memory store while the event `MONTH_CLOSED` that announces them is kept;
a month that was reopened cannot be closed again; the governance bootstrap of `store.js` 5379-5410 commits
during a start and is not part of `TxLog`.
