------------------------------ MODULE X402Gate ------------------------------
(***************************************************************************)
(* The x402 payment gate of src/api/app.js: hold, reserve, verify, release *)
(* or refund, over the in-memory store.                                    *)
(*                                                                         *)
(* One action per handler.  Next is the system with the reserve adapter in *)
(* stub or fail mode (the first is the default outside production) and     *)
(* verifications without a cryptographic proof: a handler then awaits      *)
(* nothing that does I/O, so that no other handler runs between its reads  *)
(* and its commit.  Only a freeze commits twice.  X402Races takes apart    *)
(* the handlers that await a live adapter or the check of a proof.         *)
(*                                                                         *)
(* Time is left out: a window that has an end (a quote, the dispute window *)
(* of a holdback) ends at any moment.                                      *)
(***************************************************************************)
EXTENDS AgentWallets, AgentLifecycle, CentSum, Sequences

CONSTANTS NoAgent,            \* the party of a record that does not exist
          Gates,              \* the gate ids; run x402_<gateId> belongs to the gate
          Payers,             \* the agents that open gates
          Credited,           \* the agents that get deposits
          Freezable,          \* the agents whose lifecycle changes
          QuotedGates,        \* the gates clients ask a quote for
          Windows,            \* whether a gate has a dispute window: a subset of BOOLEAN
          Amounts,            \* amountCents of a gate
          Funds,              \* amounts credited to wallets
          HoldbackBps,        \* terms.holdbackBps
          ReserveModes,       \* the modes the reserve adapter is started in
          RekeyedCreate,      \* clients repeat a create under a new idempotency key
          ServerMayCrash,     \* the process may stop between two commits and start again
          MaxFunded,          \* bound: what one agent is ever credited
          MaxOutbox           \* bound: messages that are ever queued

(* Basis points; verify clamps terms.holdbackBps to them. *)
Bps == 0 .. 10000

ASSUME GateAssumption ==
  /\ NoAgent \notin Agents
  /\ IsFiniteSet(Agents) /\ IsFiniteSet(Gates)
  /\ Payers \subseteq Agents /\ Credited \subseteq Agents /\ Freezable \subseteq Agents
  /\ QuotedGates \subseteq Gates /\ Windows \subseteq BOOLEAN
  /\ Amounts \subseteq Nat \ {0} /\ Funds \subseteq Nat
  /\ HoldbackBps \subseteq Bps
  /\ ReserveModes \subseteq {"stub", "fail"}
  /\ {RekeyedCreate, ServerMayCrash} \subseteq BOOLEAN
  /\ MaxFunded \in Nat /\ MaxOutbox \in Nat
  /\ "funds_exhausted" \in Reasons

VARIABLES wallets,      \* AGENT_WALLET records
          settlements,  \* the settlement of run x402_<gateId>
          holdbackRuns,    \* the follow-on settlement of run x402_<gateId>_holdback
          gates,        \* X402 gate records; their parts are kept apart:
          authorization, \* gate.authorization
          reversal,     \* gate.reversal, with the reserve a refund takes on the payee
          dispatch,     \* gate.reversalDispatch
          holdback,     \* gate.holdback
          outbox,       \* the wind-down reversal messages, in the order they were queued
          cursor,       \* x402WinddownReversalCursor: how many of them the worker has taken
          unwinding,    \* agents whose freeze is committed and whose unwind is not
          reserveMode,  \* circleReserveAdapter.mode, set when the process starts
          funded        \* history: what each agent was credited from outside

runVars == <<settlements, holdbackRuns>>
gateVars == <<gates, authorization, reversal, dispatch, holdback>>
vars == <<wallets, runVars, gateVars, outbox, cursor, unwinding, funded, lifecycle, reserveMode>>

-----------------------------------------------------------------------------
(* Records. *)

Gate ==
  [status : {"absent", "held", "resolved"},
   bps    : Bps,
   window : BOOLEAN,                            \* a dispute window > 0
   quote  : {"none", "live", "expired"}]

Authorization ==
  [status       : {"none", "pending", "reserved", "failed", "settled", "voided"},
   walletEscrow : {"none", "locked", "unlocked"},
   reserve      : {"none", "reserved", "settled", "voided"}]

Reversal ==
  [status  : {"none", "voided", "refund_pending", "refund_denied", "refunded"},
   reserve : {"none", "held", "released", "consumed"},
   amount  : Nat]

DispatchIds == {"none", "freeze", "zk"}

Dispatch == [id : DispatchIds, status : {"none", "queued", "skipped", "completed"}]

Holdback ==
  [status   : {"none", "held", "released"},
   amount   : Nat,
   eligible : BOOLEAN]                          \* releaseEligibleAt has passed

NoGate == [status |-> "absent", bps |-> 0, window |-> FALSE, quote |-> "none"]
NoAuthorization == [status |-> "none", walletEscrow |-> "none", reserve |-> "none"]
NoReversal == [status |-> "none", reserve |-> "none", amount |-> 0]
NoDispatch == [id |-> "none", status |-> "none"]
NoHoldback == [status |-> "none", amount |-> 0, eligible |-> FALSE]

NoSettlement ==
  [status |-> "none", payer |-> NoAgent, payee |-> NoAgent, amount |-> 0, released |-> 0, refunded |-> 0]

Message == [gate : Gates, agent : Agents, id : DispatchIds]

Init ==
  /\ wallets = [a \in Agents |-> NoWallet]
  /\ settlements = [g \in Gates |-> NoSettlement]
  /\ holdbackRuns = [g \in Gates |-> NoSettlement]
  /\ gates = [g \in Gates |-> NoGate]
  /\ authorization = [g \in Gates |-> NoAuthorization]
  /\ reversal = [g \in Gates |-> NoReversal]
  /\ dispatch = [g \in Gates |-> NoDispatch]
  /\ holdback = [g \in Gates |-> NoHoldback]
  /\ outbox = <<>>
  /\ cursor = 0
  /\ reserveMode \in ReserveModes
  /\ unwinding = {}
  /\ funded = [a \in Agents |-> 0]
  /\ LifecycleInit

-----------------------------------------------------------------------------
(* Funding and creation. *)

(* POST /agents/:id/wallet/credit *)
CreditWallet(a, n) ==
  /\ n > 0
  /\ funded[a] + n <= MaxFunded
  /\ wallets' = creditAgentWallet(ensureAgentWallet(wallets, a), a, n)
  /\ funded' = [funded EXCEPT ![a] = @ + n]
  /\ UNCHANGED <<runVars, gateVars, outbox, cursor, unwinding, lifecycle, reserveMode>>

(* autoFundPayerCents counts only for a payer that has no wallet yet. *)
AutoFund(payer, fund) == IF wallets[payer].exists THEN 0 ELSE fund

GateUnlessExists(g) == gates[g].status = "absent" /\ settlements[g].status = "none"

(* The gate and settlement of a create replace what is there when the
   request carries an idempotency key that was not used before. *)
MayCreate(g) == GateUnlessExists(g) \/ RekeyedCreate

(* POST /x402/gate/create *)
CreateGate(g, payer, payee, n, fund, bps, window) ==
  LET auto == AutoFund(payer, fund)
      opened == ensureAgentWallet(ensureAgentWallet(wallets, payer), payee)
      paid == creditAgentWallet(opened, payer, auto)
  IN  /\ payer # payee
      /\ Active(payer) /\ Active(payee)
      /\ MayCreate(g)
      /\ funded[payer] + auto <= MaxFunded
      /\ CanLockEscrow(paid, payer, n)
      /\ wallets' = lockAgentWalletEscrow(paid, payer, n)
      /\ funded' = [funded EXCEPT ![payer] = @ + auto]
      /\ settlements' = [settlements EXCEPT ![g] = createAgentRunSettlement(payer, payee, n)]
      /\ gates' = [gates EXCEPT ![g] = [status |-> "held", bps |-> bps, window |-> window, quote |-> "none"]]
      /\ authorization' = [authorization EXCEPT ![g] =
           [status |-> "pending", walletEscrow |-> "locked", reserve |-> "none"]]
      /\ reversal' = [reversal EXCEPT ![g] = NoReversal]
      /\ dispatch' = [dispatch EXCEPT ![g] = NoDispatch]
      /\ holdback' = [holdback EXCEPT ![g] = NoHoldback]
      /\ UNCHANGED <<holdbackRuns, outbox, cursor, unwinding, lifecycle, reserveMode>>

PartiesActive(g) == Active(settlements[g].payer) /\ Active(settlements[g].payee)

Held(g) == gates[g].status = "held"

(* POST /x402/gate/quote; a live quote that matches is returned as it is. *)
IssueQuote(g) ==
  /\ Held(g)
  /\ PartiesActive(g)
  /\ gates' = [gates EXCEPT ![g].quote = "live"]
  /\ UNCHANGED <<wallets, runVars, authorization, reversal, dispatch, holdback, outbox, cursor, unwinding, funded, lifecycle, reserveMode>>

QuoteExpires(g) ==
  /\ gates[g].quote = "live"
  /\ gates' = [gates EXCEPT ![g].quote = "expired"]
  /\ UNCHANGED <<wallets, runVars, authorization, reversal, dispatch, holdback, outbox, cursor, unwinding, funded, lifecycle, reserveMode>>

-----------------------------------------------------------------------------
(* POST /x402/gate/authorize-payment.  A gate that is already reserved gets
   its token back or minted anew and is otherwise unchanged. *)

MayAuthorize(g) ==
  /\ Held(g)
  /\ settlements[g].status = "locked"
  /\ PartiesActive(g)
  /\ authorization[g].status # "reserved"

(* The wallets once the hold is (again) in escrow. *)
Relocked(g) ==
  IF authorization[g].walletEscrow = "locked" THEN wallets
  ELSE lockAgentWalletEscrow(wallets, settlements[g].payer, settlements[g].amount)

CanRelock(g) ==
  \/ authorization[g].walletEscrow = "locked"
  \/ CanLockEscrow(wallets, settlements[g].payer, settlements[g].amount)

AuthorizePayment(g) ==
  /\ reserveMode = "stub"
  /\ MayAuthorize(g)
  /\ CanRelock(g)
  /\ wallets' = Relocked(g)
  /\ authorization' = [authorization EXCEPT ![g] =
       [status |-> "reserved", walletEscrow |-> "locked", reserve |-> "reserved"]]
  /\ UNCHANGED <<runVars, gates, reversal, dispatch, holdback, outbox, cursor, unwinding, funded, lifecycle, reserveMode>>

(* The reserve adapter throws: the hold is taken out of escrow again, unless
   the escrow does not cover it any more, and the gate is left unauthorized. *)
ReserveFails(g) ==
  LET payer == settlements[g].payer
      n == settlements[g].amount
      covered == CanDrawEscrow(Relocked(g), payer, n)
  IN  /\ reserveMode = "fail"
      /\ MayAuthorize(g)
      /\ CanRelock(g)
      /\ wallets' = IF covered THEN refundAgentWalletEscrow(Relocked(g), payer, n) ELSE Relocked(g)
      /\ authorization' = [authorization EXCEPT ![g] =
           [status |-> "failed", walletEscrow |-> IF covered THEN "unlocked" ELSE "locked", reserve |-> "none"]]
      /\ UNCHANGED <<runVars, gates, reversal, dispatch, holdback, outbox, cursor, unwinding, funded, lifecycle, reserveMode>>

-----------------------------------------------------------------------------
(* POST /x402/gate/verify *)

MayVerify(g) ==
  /\ settlements[g].status = "locked"
  /\ PartiesActive(g)
  /\ authorization[g].status = "reserved"
  /\ authorization[g].reserve = "reserved"

HoldbackOf(release, bps) == (release * bps) \div 10000

(* The wallets after the primary settlement s: what is released now goes to
   the payee, the rest with the holdback goes back to the payer. *)
PrimarySettled(s, now) ==
  refundAgentWalletEscrow(
    releaseAgentWalletEscrowToPayee(wallets, s.payer, s.payee, now), s.payer, s.amount - now)

(* Mutant: a holdback is funded whether or not it has a settlement. *)
HoldbackAnew(existing, s, hb) == IF hb > 0 THEN createAgentRunSettlement(s.payer, s.payee, hb) ELSE existing

(* The settlement of the holdback; one that is there is taken as it is. *)
HoldbackRun(existing, s, hb) ==
  IF hb > 0 /\ existing.status = "none" THEN createAgentRunSettlement(s.payer, s.payee, hb) ELSE existing

(* The policy decides on a release of r; the holdback is cut out of it, put
   back into escrow under a settlement of its own and, without a dispute
   window, released at once.  A holdback settlement that is already there and
   locked is not funded again; if it is resolved, nothing is held.  Settlement,
   gate and authorization are those the handler has read. *)
VerifyEffect(g, s, gate, au, r) ==
  LET hb == HoldbackOf(r, gate.bps)
      now == r - hb
      settled == PrimarySettled(s, now)
      existing == holdbackRuns[g]
      h == HoldbackRun(existing, s, hb)
      open == hb > 0 /\ h.status = "locked"
      atOnce == open /\ ~gate.window
      relocked == IF h # existing THEN lockAgentWalletEscrow(settled, s.payer, hb) ELSE settled
  IN  /\ r \in 0 .. s.amount
      /\ CanDrawEscrow(wallets, s.payer, s.amount)
      /\ atOnce => CanDrawEscrow(relocked, s.payer, hb) /\ CanResolveSettlement(h, hb, 0)
      /\ wallets' = IF atOnce THEN releaseAgentWalletEscrowToPayee(relocked, s.payer, s.payee, hb) ELSE relocked
      /\ settlements' = [settlements EXCEPT ![g] =
           resolveAgentRunSettlement(s, IF r > 0 THEN "released" ELSE "refunded", now, s.amount - now)]
      /\ holdbackRuns' = [holdbackRuns EXCEPT ![g] = IF atOnce THEN resolveAgentRunSettlement(h, "released", hb, 0) ELSE h]
      /\ gates' = [gates EXCEPT ![g] = [gate EXCEPT !.status = "resolved"]]
      /\ authorization' = [authorization EXCEPT ![g] =
           [status |-> "settled", walletEscrow |-> au.walletEscrow,
            reserve |-> IF r > 0 THEN "settled" ELSE "voided"]]
      /\ holdback' = [holdback EXCEPT ![g] =
           [status |-> IF hb = 0 THEN "none" ELSE IF open /\ ~atOnce THEN "held" ELSE "released",
            amount |-> hb, eligible |-> FALSE]]

VerifyGate(g, r) ==
  /\ MayVerify(g)
  /\ VerifyEffect(g, settlements[g], gates[g], authorization[g], r)
  /\ UNCHANGED <<reversal, dispatch, outbox, cursor, unwinding, funded, lifecycle, reserveMode>>

TerminalReversal(g) == reversal[g].status = "voided" \/ authorization[g].status = "voided"

Dispatched(g) == dispatch[g].status \in {"queued", "completed"}

WinddownMessage(g, id) == [gate |-> g, agent |-> settlements[g].payer, id |-> id]

(* A verification that fails on the proof the wallet policy demands leaves
   the gate as it is and queues a void of its authorization. *)
enqueueZkProofAutoVoid(g) ==
  /\ MayVerify(g)
  /\ ~TerminalReversal(g)
  /\ ~Dispatched(g)
  /\ Len(outbox) < MaxOutbox
  /\ dispatch' = [dispatch EXCEPT ![g] = [id |-> "zk", status |-> "queued"]]
  /\ outbox' = Append(outbox, WinddownMessage(g, "zk"))
  /\ UNCHANGED <<wallets, runVars, gates, authorization, reversal, holdback, cursor, unwinding, funded, lifecycle, reserveMode>>

-----------------------------------------------------------------------------
(* POST /x402/gate/reversal *)

(* The authorization after a void: a reserve that was made is voided with it. *)
Voided(au) ==
  [status |-> "voided", walletEscrow |-> "unlocked",
   reserve |-> IF au.reserve = "none" THEN "none" ELSE "voided"]

(* The effect both voids share: the full amount leaves escrow and the gate is
   resolved as refunded.  walletEscrow.status is not asked. *)
VoidEffect(g) ==
  LET s == settlements[g]
  IN  /\ CanDrawEscrow(wallets, s.payer, s.amount)
      /\ wallets' = refundAgentWalletEscrow(wallets, s.payer, s.amount)
      /\ settlements' = [settlements EXCEPT ![g] = resolveAgentRunSettlement(s, "refunded", 0, s.amount)]
      /\ gates' = [gates EXCEPT ![g].status = "resolved"]
      /\ authorization' = [authorization EXCEPT ![g] = Voided(@)]
      /\ reversal' = [reversal EXCEPT ![g].status = "voided"]

(* The adapter is asked only about a reserve that was made. *)
HasReserve(g) == authorization[g].reserve \in {"reserved", "settled"}

AdapterVoids(g) == HasReserve(g) => reserveMode = "stub"

(* Mutant: the void does not ask whether the settlement is still locked. *)
VoidResolved(g) ==
  /\ authorization[g].status # "none"
  /\ VoidEffect(g)
  /\ UNCHANGED <<holdbackRuns, dispatch, holdback, outbox, cursor, unwinding, funded, lifecycle, reserveMode>>

VoidAuthorization(g) ==
  /\ settlements[g].status = "locked"
  /\ authorization[g].status # "none"
  /\ AdapterVoids(g)
  /\ VoidEffect(g)
  /\ UNCHANGED <<holdbackRuns, dispatch, holdback, outbox, cursor, unwinding, funded, lifecycle, reserveMode>>

RequestRefund(g) ==
  LET s == settlements[g]
  IN  /\ s.status = "released"
      /\ reversal[g].status \notin {"refund_pending", "refunded"}
      /\ s.released > 0
      /\ CanLockEscrow(wallets, s.payee, s.released)
      /\ wallets' = lockAgentWalletEscrow(wallets, s.payee, s.released)
      /\ reversal' = [reversal EXCEPT ![g] = [status |-> "refund_pending", reserve |-> "held", amount |-> s.released]]
      /\ UNCHANGED <<runVars, gates, authorization, dispatch, holdback, outbox, cursor, unwinding, funded, lifecycle, reserveMode>>

MayResolveRefund(g) ==
  /\ reversal[g].status = "refund_pending"
  /\ reversal[g].reserve = "held"
  /\ settlements[g].released > 0
  /\ reversal[g].amount = settlements[g].released
  /\ CanDrawEscrow(wallets, settlements[g].payee, reversal[g].amount)

(* Mutant: a denied refund is recorded and the payee's reserve stays in escrow. *)
DenyKeepsReserve(g) ==
  /\ MayResolveRefund(g)
  /\ reversal' = [reversal EXCEPT ![g] = [status |-> "refund_denied", reserve |-> "released", amount |-> @.amount]]
  /\ UNCHANGED <<wallets, runVars, gates, authorization, dispatch, holdback, outbox, cursor, unwinding, funded, lifecycle, reserveMode>>

(* Mutant: a denied refund is paid to the payer. *)
DenyPaysPayer(g) ==
  /\ MayResolveRefund(g)
  /\ wallets' = releaseAgentWalletEscrowToPayee(wallets, settlements[g].payee, settlements[g].payer, reversal[g].amount)
  /\ reversal' = [reversal EXCEPT ![g] = [status |-> "refund_denied", reserve |-> "released", amount |-> @.amount]]
  /\ UNCHANGED <<runVars, gates, authorization, dispatch, holdback, outbox, cursor, unwinding, funded, lifecycle, reserveMode>>

DenyRefund(g) ==
  /\ MayResolveRefund(g)
  /\ wallets' = refundAgentWalletEscrow(wallets, settlements[g].payee, reversal[g].amount)
  /\ reversal' = [reversal EXCEPT ![g] = [status |-> "refund_denied", reserve |-> "released", amount |-> @.amount]]
  /\ UNCHANGED <<runVars, gates, authorization, dispatch, holdback, outbox, cursor, unwinding, funded, lifecycle, reserveMode>>

(* Mutant: an accepted refund moves the money and leaves the settlement released. *)
AcceptKeepsSettlement(g) ==
  /\ MayResolveRefund(g)
  /\ wallets' = releaseAgentWalletEscrowToPayee(wallets, settlements[g].payee, settlements[g].payer, reversal[g].amount)
  /\ reversal' = [reversal EXCEPT ![g] = [status |-> "refunded", reserve |-> "consumed", amount |-> @.amount]]
  /\ UNCHANGED <<runVars, gates, authorization, dispatch, holdback, outbox, cursor, unwinding, funded, lifecycle, reserveMode>>

AcceptRefund(g) ==
  LET s == settlements[g]
  IN  /\ MayResolveRefund(g)
      /\ CanRefundReleased(s)
      /\ wallets' = releaseAgentWalletEscrowToPayee(wallets, s.payee, s.payer, reversal[g].amount)
      /\ settlements' = [settlements EXCEPT ![g] = refundReleasedAgentRunSettlement(s)]
      /\ reversal' = [reversal EXCEPT ![g] = [status |-> "refunded", reserve |-> "consumed", amount |-> @.amount]]
      /\ UNCHANGED <<holdbackRuns, gates, authorization, dispatch, holdback, outbox, cursor, unwinding, funded, lifecycle, reserveMode>>

-----------------------------------------------------------------------------
(* Freeze and unwind. *)

SetLifecycle(a) ==
  /\ \E status \in LifecycleStatuses, reason \in Reasons : upsertX402AgentLifecycleStatus(a, status, reason)
  /\ UNCHANGED <<wallets, runVars, gateVars, outbox, cursor, unwinding, funded, reserveMode>>

(* The lifecycle and wind-down endpoints. *)
FreezeAgent(a, reason) ==
  /\ freezeX402AgentLifecycle(a, reason)
  /\ unwinding' = unwinding \cup {a}
  /\ UNCHANGED <<wallets, runVars, gateVars, outbox, cursor, funded, reserveMode>>

(* The wallet was credited, by a deposit or as a payee, or pays for a gate. *)
HasPriorSpendActivity(a) ==
  \/ funded[a] > 0
  \/ \E g \in Gates :
       \/ settlements[g].payer = a
       \/ /\ settlements[g].payee = a
          /\ settlements[g].released + holdbackRuns[g].released > 0 \/ reversal[g].status = "refunded"

(* The insolvency sweep freezes an agent whose available balance is used up;
   the other reasons it knows are not about money and are those of
   FreezeAgent. *)
SweepInsolvent(a) ==
  /\ wallets[a].exists
  /\ wallets[a].available = 0
  /\ HasPriorSpendActivity(a)
  /\ FreezeAgent(a, "funds_exhausted")

PayerGates(a) == {g \in Gates : gates[g].status = "held" /\ settlements[g].payer = a}

(* Mutant: the unwind passes over holds that were never authorized. *)
ReverseReserved(a) ==
  {g \in PayerGates(a) : authorization[g].status = "reserved" /\ ~Dispatched(g)}

(* The held gates of the payer that get a void queued. *)
ToReverse(a) ==
  {g \in PayerGates(a) :
     /\ settlements[g].status = "locked"
     /\ ~TerminalReversal(g)
     /\ authorization[g].status \notin {"none", "voided", "settled"}
     /\ ~Dispatched(g)}

(* Mutant: a gate whose authorization is pending keeps its quote. *)
CancelWithoutAuthorization(a) == {g \in PayerGates(a) : authorization[g].status = "none" /\ gates[g].quote = "live"}

QuoteToCancel(a) == {g \in PayerGates(a) : authorization[g].status \in {"none", "pending"} /\ gates[g].quote = "live"}

(* unwindX402AgentLocalStateAfterFreeze, the second commit of a freeze: a
   message per gate to reverse, in some order, and the quotes cancelled. *)
UnwindFrozen(a) ==
  LET S == ToReverse(a)
      n == Cardinality(S)
  IN  /\ a \in unwinding
      /\ Len(outbox) + n <= MaxOutbox
      /\ \E order \in [1 .. n -> S] :
           /\ \A i, j \in 1 .. n : i # j => order[i] # order[j]
           /\ outbox' = outbox \o [i \in 1 .. n |-> WinddownMessage(order[i], "freeze")]
      /\ dispatch' = [g \in Gates |-> IF g \in S THEN [id |-> "freeze", status |-> "queued"] ELSE dispatch[g]]
      /\ gates' = [g \in Gates |-> [gates[g] EXCEPT !.quote = IF g \in QuoteToCancel(a) THEN "expired" ELSE @]]
      /\ unwinding' = unwinding \ {a}
      /\ UNCHANGED <<wallets, runVars, authorization, reversal, holdback, cursor, funded, lifecycle, reserveMode>>

(* The process stops and starts again: an unwind that is not committed is not
   taken up, and the cursor of the worker, which is not in the log, starts
   over, so that every message is delivered again.  The adapter may be
   configured anew. *)
Crash ==
  /\ ServerMayCrash
  /\ unwinding' = {}
  /\ cursor' = 0
  /\ reserveMode' \in ReserveModes
  /\ UNCHANGED <<wallets, runVars, gateVars, outbox, funded, lifecycle>>

-----------------------------------------------------------------------------
(* The wind-down worker, tickX402WinddownReversals: it moves its cursor past
   a message and then looks at it. *)

Waiting == cursor < Len(outbox)

NextMessage == outbox[cursor + 1]

TakeMessage ==
  /\ Waiting
  /\ cursor' = cursor + 1
  /\ UNCHANGED outbox

(* The message is about the dispatch the gate records, or about none. *)
SameDispatch(m) == dispatch[m.gate].id \in {"none", m.id}

(* Mutant: the worker trusts the message and does not look at the records again. *)
MessageTrusted(m) == SameDispatch(m) /\ settlements[m.gate].payer = m.agent

(* Mutant: the worker passes over a hold that has no reserve yet. *)
MessageVoidsReserved(m) ==
  SameDispatch(m) /\ Held(m.gate) /\ authorization[m.gate].status = "reserved"

(* No early return of processX402WinddownReversalMessage applies. *)
MessageVoids(m) ==
  LET g == m.gate
  IN  /\ SameDispatch(m)
      /\ dispatch[g].status # "completed"
      /\ settlements[g].payer = m.agent
      /\ Held(g)
      /\ settlements[g].status = "locked"
      /\ authorization[g].status \notin {"none", "voided"}

ProcessVoid ==
  LET m == NextMessage
      g == m.gate
  IN  /\ TakeMessage
      /\ MessageVoids(m)
      /\ AdapterVoids(g)
      /\ VoidEffect(g)
      /\ dispatch' = [dispatch EXCEPT ![g] = [id |-> m.id, status |-> "completed"]]
      /\ UNCHANGED <<holdbackRuns, holdback, unwinding, funded, lifecycle, reserveMode>>

ProcessSkip ==
  LET m == NextMessage
      g == m.gate
  IN  /\ TakeMessage
      /\ ~MessageVoids(m)
      /\ dispatch' = IF SameDispatch(m)
                     THEN [dispatch EXCEPT ![g] =
                             [id |-> m.id, status |-> IF @.status = "completed" THEN "completed" ELSE "skipped"]]
                     ELSE dispatch
      /\ UNCHANGED <<wallets, runVars, gates, authorization, reversal, holdback, unwinding, funded, lifecycle, reserveMode>>

(* The escrow does not cover the refund or the adapter throws: nothing is
   committed, and the cursor is past the message. *)
ProcessThrows ==
  LET g == NextMessage.gate
      s == settlements[g]
  IN  /\ TakeMessage
      /\ MessageVoids(NextMessage)
      /\ ~CanDrawEscrow(wallets, s.payer, s.amount) \/ (HasReserve(g) /\ reserveMode = "fail")
      /\ UNCHANGED <<wallets, runVars, gateVars, unwinding, funded, lifecycle, reserveMode>>

-----------------------------------------------------------------------------
(* The holdback worker, tickX402Holdbacks. *)

HoldbackWindowEnds(g) ==
  /\ holdback[g].status = "held"
  /\ ~holdback[g].eligible
  /\ holdback' = [holdback EXCEPT ![g].eligible = TRUE]
  /\ UNCHANGED <<wallets, runVars, gates, authorization, reversal, dispatch, outbox, cursor, unwinding, funded, lifecycle, reserveMode>>

(* Mutant: the worker only looks at gates that are still open. *)
DueOnOpenGates(g) == holdback[g].status = "held" /\ holdback[g].eligible /\ Held(g)

HoldbackDue(g) == holdback[g].status = "held" /\ holdback[g].eligible

(* A holdback settlement that something else resolved is only noted. *)
ReleaseHoldback(g) ==
  LET h == holdbackRuns[g]
      n == holdback[g].amount
      open == h.status = "locked"
  IN  /\ HoldbackDue(g)
      /\ h.status # "none"
      /\ open => CanDrawEscrow(wallets, h.payer, n) /\ CanResolveSettlement(h, n, 0)
      /\ wallets' = IF open THEN releaseAgentWalletEscrowToPayee(wallets, h.payer, h.payee, n) ELSE wallets
      /\ holdbackRuns' = IF open THEN [holdbackRuns EXCEPT ![g] = resolveAgentRunSettlement(h, "released", n, 0)]
                      ELSE holdbackRuns
      /\ holdback' = [holdback EXCEPT ![g].status = "released"]
      /\ UNCHANGED <<settlements, gates, authorization, reversal, dispatch, outbox, cursor, unwinding, funded, lifecycle, reserveMode>>

-----------------------------------------------------------------------------

(* The handlers and workers that call neither the reserve adapter nor the
   proof checker. *)
LocalNext ==
  \/ \E a \in Credited, n \in Funds : CreditWallet(a, n)
  \/ \E a \in Freezable :
       \/ SetLifecycle(a)
       \/ \E reason \in Reasons : FreezeAgent(a, reason)
       \/ SweepInsolvent(a)
       \/ UnwindFrozen(a)
  \/ \E g \in Gates :
       \/ \E payer \in Payers, payee \in Agents, n \in Amounts, fund \in Funds \cup {0},
             bps \in HoldbackBps, window \in Windows :
            CreateGate(g, payer, payee, n, fund, bps, window)
       \/ g \in QuotedGates /\ IssueQuote(g)
       \/ QuoteExpires(g)
       \/ \E r \in 0 .. settlements[g].amount : VerifyGate(g, r)
       \/ enqueueZkProofAutoVoid(g)
       \/ RequestRefund(g)
       \/ DenyRefund(g)
       \/ AcceptRefund(g)
       \/ HoldbackWindowEnds(g)
       \/ ReleaseHoldback(g)

Next ==
  \/ LocalNext
  \/ \E g \in Gates : AuthorizePayment(g) \/ ReserveFails(g) \/ VoidAuthorization(g)
  \/ ProcessVoid \/ ProcessSkip \/ ProcessThrows
  \/ Crash

(* The freeze handler goes on after its first commit, and the autotick runs
   both workers periodically (src/api/server.js). *)
Fairness ==
  /\ \A a \in Agents : WF_vars(UnwindFrozen(a))
  /\ WF_vars(ProcessVoid \/ ProcessSkip \/ ProcessThrows)
  /\ \A g \in Gates : WF_vars(HoldbackWindowEnds(g)) /\ WF_vars(ReleaseHoldback(g))

Spec == Init /\ [][Next]_vars

FairSpec == Spec /\ Fairness

-----------------------------------------------------------------------------
(* Properties. *)

TypeOK ==
  /\ wallets \in [Agents -> Wallet]
  /\ settlements \in [Gates -> Settlement(Agents \cup {NoAgent})]
  /\ holdbackRuns \in [Gates -> Settlement(Agents \cup {NoAgent})]
  /\ gates \in [Gates -> Gate]
  /\ authorization \in [Gates -> Authorization]
  /\ reversal \in [Gates -> Reversal]
  /\ dispatch \in [Gates -> Dispatch]
  /\ holdback \in [Gates -> Holdback]
  /\ outbox \in Seq(Message)
  /\ cursor \in 0 .. Len(outbox)
  /\ reserveMode \in ReserveModes
  /\ unwinding \subseteq Agents
  /\ funded \in [Agents -> Nat]
  /\ lifecycle \in [Agents -> [status : AllStatuses, reason : Reasons \cup {NoReason}]]

(* What a gate holds in the escrow of agent a: its hold, its holdback, and
   the refund reserve it keeps on the payee. *)
HoldOn(g, a) ==
  IF settlements[g].status = "locked" /\ authorization[g].walletEscrow = "locked" /\ settlements[g].payer = a
  THEN settlements[g].amount ELSE 0

HoldbackOn(g, a) == IF holdbackRuns[g].status = "locked" /\ holdbackRuns[g].payer = a THEN holdbackRuns[g].amount ELSE 0

RefundOn(g, a) ==
  IF reversal[g].reserve = "held" /\ settlements[g].payee = a THEN reversal[g].amount ELSE 0

Claims(a) == [g \in Gates |-> HoldOn(g, a) + HoldbackOn(g, a) + RefundOn(g, a)]

(* The escrow of every agent is exactly what the gate records claim of it:
   no handler or worker draws on the hold of another gate, and none strands
   money in escrow. *)
EscrowMatchesClaims == \A a \in Agents : wallets[a].escrow = SumOver(Claims(a), Gates)

(* Nothing in escrow is without a claim on it.  This holds after a reserve
   failed as well: its roll-back may leave a claim that nothing covers, but
   strands no funds. *)
NothingStranded == \A a \in Agents : wallets[a].escrow <= SumOver(Claims(a), Gates)

Balances == [a \in Agents |-> wallets[a].available + wallets[a].escrow]

(* Money only enters through credits: the balances of all wallets add up to
   what was credited from outside, whatever the handlers did in between. *)
MoneyConserved == SumOver(Balances, Agents) = SumOver(funded, Agents)

PaidOut(g) == settlements[g].released + holdbackRuns[g].released

PaidBy(a) == [g \in Gates |-> IF settlements[g].payer = a THEN PaidOut(g) ELSE 0]
PaidTo(a) == [g \in Gates |-> IF settlements[g].payee = a THEN PaidOut(g) ELSE 0]

(* The settlement records explain every balance: an agent owns what it was
   credited, less what the records of its gates say it paid, plus what they
   say it was paid. *)
RecordsExplainBalances ==
  \A a \in Agents :
    wallets[a].available + wallets[a].escrow + SumOver(PaidBy(a), Gates)
      = funded[a] + SumOver(PaidTo(a), Gates)

(* Every locked claim of a gate is covered by the escrow of its payer. *)
HoldsAreFunded == \A a \in Agents : SumOver(Claims(a), Gates) <= wallets[a].escrow

(* The gate, its settlement and its holdback settlement tell one story. *)
HoldAgrees(g) ==
  /\ gates[g].status = "absent" <=> settlements[g].status = "none"
  /\ gates[g].status = "held" <=> settlements[g].status = "locked"
  /\ settlements[g].status \in {"released", "refunded"} =>
       settlements[g].released + settlements[g].refunded = settlements[g].amount
  /\ settlements[g].status \in {"none", "locked", "refunded"} => settlements[g].released = 0

AuthorizationAgrees(g) ==
  /\ authorization[g].status = "none" <=> gates[g].status = "absent"
  /\ authorization[g].status \in {"pending", "reserved", "failed"} <=> gates[g].status = "held"
  /\ authorization[g].status = "reserved" <=> authorization[g].reserve = "reserved"
  /\ authorization[g].status = "reserved" => authorization[g].walletEscrow = "locked"
  /\ settlements[g].released > 0 => authorization[g].status = "settled" /\ authorization[g].reserve = "settled"

ReversalAgrees(g) ==
  /\ authorization[g].status = "voided" <=> reversal[g].status = "voided"
  /\ reversal[g].status = "voided" => settlements[g].status = "refunded"
  /\ reversal[g].status = "refund_pending" <=> reversal[g].reserve = "held"
  /\ reversal[g].reserve = "held" =>
       settlements[g].status = "released" /\ reversal[g].amount = settlements[g].released
  /\ reversal[g].status = "refunded" => settlements[g].status = "refunded"

HoldbackAgrees(g) ==
  /\ holdback[g].status = "held" <=> holdbackRuns[g].status = "locked"
  /\ holdback[g].status = "held" => holdbackRuns[g].amount = holdback[g].amount
  /\ holdbackRuns[g].status # "none" =>
       /\ authorization[g].status = "settled"
       /\ holdbackRuns[g].payer = settlements[g].payer
       /\ holdbackRuns[g].payee = settlements[g].payee
  /\ holdbackRuns[g].status # "released" => holdbackRuns[g].released = 0

(* Money is paid out only against an external reserve, a void pays nothing
   out, a refund is pending exactly while the payee's reserve for it is held,
   and a holdback is held exactly while its own settlement is locked. *)
RecordsAgree ==
  \A g \in Gates : HoldAgrees(g) /\ AuthorizationAgrees(g) /\ ReversalAgrees(g) /\ HoldbackAgrees(g)

(* A settlement that is resolved stays resolved as it is; only a refund that
   the payee accepted turns a release into a refund. *)
SettlesOnce ==
  [][\A g \in Gates :
       settlements[g].status \in {"released", "refunded"} =>
         \/ settlements'[g] = settlements[g]
         \/ /\ settlements[g].status = "released" /\ settlements'[g].status = "refunded"
            /\ reversal[g].status = "refund_pending" /\ reversal'[g].status = "refunded"]_vars

(* Once the unwind of a freeze is through, every hold of the frozen payer is
   queued for reversal and no quote on a pending gate is live. *)
FrozenPayerUnwound ==
  \A a \in Agents :
    lifecycle[a].status = "frozen" /\ a \notin unwinding =>
      \A g \in PayerGates(a) : Dispatched(g) /\ ~(authorization[g].status = "pending" /\ gates[g].quote = "live")

(* Freezing a payer eventually gives back every hold it has, unless the
   freeze is lifted before. *)
FrozenHoldsResolve ==
  \A g \in Gates :
    LET frozen == lifecycle[settlements[g].payer].status = "frozen"
    IN  (Held(g) /\ frozen) ~> (~Held(g) \/ ~frozen)

(* A void that was queued is not forgotten: its gate is eventually resolved. *)
QueuedVoidsHappen == \A g \in Gates : dispatch[g].status = "queued" ~> ~Held(g)

(* A holdback is eventually paid to the payee. *)
HoldbacksArePaid == \A g \in Gates : holdback[g].status = "held" ~> holdback[g].status = "released"

=============================================================================
