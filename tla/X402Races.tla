----------------------------- MODULE X402Races -----------------------------
(***************************************************************************)
(* The x402 gate over the in-memory store with a live reserve adapter      *)
(* (sandbox or production mode) and cryptographic execution proofs.  A     *)
(* handler that calls the adapter or the proof checker awaits the answer   *)
(* between its reads and its commit: other handlers and the worker run in  *)
(* between, and the commit replaces whole records, by what was read, with  *)
(* no version compared.  The handlers that await neither are the actions   *)
(* of X402Gate; the reserveMode of X402Gate plays no part here.            *)
(***************************************************************************)
EXTENDS X402Gate

CONSTANTS Calls,           \* the requests that may await an answer at once
          Worker,          \* the wind-down worker; one tick runs at a time
          Idle,            \* no call
          ReserveMayFail,  \* circleReserveAdapter.reserve may throw
          VoidMayFail      \* circleReserveAdapter.void may throw

ASSUME RaceAssumption ==
  /\ Worker \notin Calls
  /\ {ReserveMayFail, VoidMayFail} \subseteq BOOLEAN

VARIABLE calls    \* what each call has read and computed before its await

raceVars == <<vars, calls>>

(* The records as read; wallet is the payer's, as it will be written. *)
Read ==
  [kind : {"authorize", "void", "verify"}, id : Gates, settlement : Settlement(Agents \cup {NoAgent}),
   gate : Gate, authorization : Authorization, reversal : Reversal, dispatch : Dispatch, holdback : Holdback,
   wallet : Wallet, message : DispatchIds]

(* w are the wallets the handler goes on with. *)
Reads(kind, g, w, id) ==
  [kind |-> kind, id |-> g, settlement |-> settlements[g],
   gate |-> gates[g], authorization |-> authorization[g], reversal |-> reversal[g],
   dispatch |-> dispatch[g], holdback |-> holdback[g],
   wallet |-> w[settlements[g].payer], message |-> id]

Start(c, read) ==
  /\ calls[c] = Idle
  /\ calls' = [calls EXCEPT ![c] = read]

Returns(c, kind) ==
  /\ calls[c] # Idle
  /\ calls[c].kind = kind
  /\ calls' = [calls EXCEPT ![c] = Idle]

(* X402_GATE_UPSERT: the gate that was read, with the changes of the handler. *)
UpsertGate(read) ==
  LET g == read.id
  IN  /\ gates' = [gates EXCEPT ![g] = read.gate]
      /\ authorization' = [authorization EXCEPT ![g] = read.authorization]
      /\ reversal' = [reversal EXCEPT ![g] = read.reversal]
      /\ dispatch' = [dispatch EXCEPT ![g] = read.dispatch]
      /\ holdback' = [holdback EXCEPT ![g] = read.holdback]

(* AGENT_WALLET_UPSERT: the wallet that was read replaces what is stored. *)
UpsertWallet(read) == [wallets EXCEPT ![read.settlement.payer] = read.wallet]

-----------------------------------------------------------------------------
(* authorize-payment *)

StartAuthorize(c, g) ==
  /\ MayAuthorize(g)
  /\ CanRelock(g)
  /\ Start(c, Reads("authorize", g, Relocked(g), "none"))
  /\ UNCHANGED vars

(* payerWalletChanged *)
Changed(read) == read.authorization.walletEscrow # "locked"

(* The reserve is made: the wallet is written if the hold was locked again. *)
FinishAuthorize(c) ==
  LET read == calls[c]
  IN  /\ Returns(c, "authorize")
      /\ wallets' = IF Changed(read) THEN UpsertWallet(read) ELSE wallets
      /\ UpsertGate([read EXCEPT !.authorization =
           [status |-> "reserved", walletEscrow |-> "locked", reserve |-> "reserved"]])
      /\ UNCHANGED <<runVars, outbox, cursor, unwinding, funded, lifecycle, reserveMode>>

(* Mutant: the roll-back of a failed reserve does not ask what is in escrow. *)
FailUnchecked(c) ==
  LET read == calls[c]
  IN  /\ ReserveMayFail
      /\ Returns(c, "authorize")
      /\ wallets' = refundAgentWalletEscrow(wallets, read.settlement.payer, read.settlement.amount)
      /\ UpsertGate([read EXCEPT !.authorization =
           [status |-> "failed", walletEscrow |-> "unlocked", reserve |-> "none"]])
      /\ UNCHANGED <<runVars, outbox, cursor, unwinding, funded, lifecycle, reserveMode>>

(* The reserve fails: the hold is taken out of the wallet that was read,
   unless its escrow does not cover it, and the gate is left unauthorized. *)
FailAuthorize(c) ==
  LET read    == calls[c]
      payer   == read.settlement.payer
      covered == CanDrawEscrow(UpsertWallet(read), payer, read.settlement.amount)
  IN  /\ ReserveMayFail
      /\ Returns(c, "authorize")
      /\ wallets' = IF covered THEN refundAgentWalletEscrow(UpsertWallet(read), payer, read.settlement.amount)
                    ELSE IF Changed(read) THEN UpsertWallet(read) ELSE wallets
      /\ UpsertGate([read EXCEPT !.authorization =
           [status |-> "failed", walletEscrow |-> IF covered THEN "unlocked" ELSE "locked", reserve |-> "none"]])
      /\ UNCHANGED <<runVars, outbox, cursor, unwinding, funded, lifecycle, reserveMode>>

-----------------------------------------------------------------------------
(* Voids, by the reversal endpoint and by the worker, of a gate that has a
   reserve. *)

CanRefundHold(g) == CanDrawEscrow(wallets, settlements[g].payer, settlements[g].amount)

RefundedHold(g) == refundAgentWalletEscrow(wallets, settlements[g].payer, settlements[g].amount)

StartVoid(c, g) ==
  /\ settlements[g].status = "locked"
  /\ authorization[g].status # "none"
  /\ HasReserve(g)
  /\ CanRefundHold(g)
  /\ Start(c, Reads("void", g, RefundedHold(g), "none"))
  /\ UNCHANGED vars

(* The cursor is past the message before the adapter is called. *)
StartProcessVoid ==
  LET m == NextMessage
  IN  /\ TakeMessage
      /\ MessageVoids(m)
      /\ HasReserve(m.gate)
      /\ CanRefundHold(m.gate)
      /\ Start(Worker, Reads("void", m.gate, RefundedHold(m.gate), m.id))
      /\ UNCHANGED <<wallets, runVars, gateVars, unwinding, funded, lifecycle, reserveMode>>

(* Wallet, settlement and gate are written as read, refunded and resolved;
   the worker marks its dispatch completed in the gate it has read. *)
FinishVoid(c) ==
  LET read == calls[c]
      s    == read.settlement
  IN  /\ Returns(c, "void")
      /\ wallets' = UpsertWallet(read)
      /\ settlements' = [settlements EXCEPT ![read.id] = resolveAgentRunSettlement(s, "refunded", 0, s.amount)]
      /\ UpsertGate([read EXCEPT
           !.gate.status = "resolved", !.authorization = Voided(@), !.reversal.status = "voided",
           !.dispatch = IF c = Worker THEN [id |-> read.message, status |-> "completed"] ELSE @])
      /\ UNCHANGED <<holdbackRuns, outbox, cursor, unwinding, funded, lifecycle, reserveMode>>

(* The adapter throws and nothing is committed. *)
FailVoid(c) ==
  /\ VoidMayFail
  /\ Returns(c, "void")
  /\ UNCHANGED vars

-----------------------------------------------------------------------------
(* Verifications with a cryptographic proof.  Gate and settlement are read
   before the proof is checked, the wallets and the settlement of the
   holdback after it. *)

StartVerify(c, g) ==
  /\ MayVerify(g)
  /\ Start(c, Reads("verify", g, wallets, "none"))
  /\ UNCHANGED vars

FinishVerify(c) ==
  LET read == calls[c]
      g    == read.id
  IN  /\ Returns(c, "verify")
      /\ \E r \in 0 .. read.settlement.amount :
           VerifyEffect(g, read.settlement, read.gate, read.authorization, r)
      /\ reversal' = [reversal EXCEPT ![g] = read.reversal]
      /\ dispatch' = [dispatch EXCEPT ![g] = read.dispatch]
      /\ UNCHANGED <<outbox, cursor, unwinding, funded, lifecycle, reserveMode>>

(* The proof is invalid: enqueueZkProofAutoVoid queues a void, unless the gate
   that was read has one, and the verification is refused. *)
RefuseVerify(c) ==
  LET read == calls[c]
      ends == \/ read.reversal.status = "voided" \/ read.authorization.status = "voided"
              \/ read.dispatch.status \in {"queued", "completed"}
  IN  /\ Returns(c, "verify")
      /\ \/ ends /\ UNCHANGED vars
         \/ /\ ~ends
            /\ Len(outbox) < MaxOutbox
            /\ UpsertGate([read EXCEPT !.dispatch = [id |-> "zk", status |-> "queued"]])
            /\ outbox' = Append(outbox, [gate |-> read.id, agent |-> read.settlement.payer, id |-> "zk"])
            /\ UNCHANGED <<wallets, runVars, cursor, unwinding, funded, lifecycle, reserveMode>>

(* It is refused on other grounds, as when the escrow does not cover it. *)
RejectVerify(c) ==
  /\ Returns(c, "verify")
  /\ UNCHANGED vars

-----------------------------------------------------------------------------

RaceInit == Init /\ calls = [c \in Calls \cup {Worker} |-> Idle]

(* The voids that need no adapter, and the worker between two adapter calls. *)
UnreservedNext ==
  \/ \E g \in Gates : ~HasReserve(g) /\ VoidAuthorization(g)
  \/ /\ calls[Worker] = Idle
     /\ \/ Waiting /\ ~HasReserve(NextMessage.gate) /\ ProcessVoid
        \/ ProcessSkip
        \/ Waiting /\ ~CanRefundHold(NextMessage.gate) /\ ProcessThrows

(* A call that is under way when the process stops has committed nothing. *)
CrashCalls == Crash /\ calls' = [c \in Calls \cup {Worker} |-> Idle]

RaceNext ==
  \/ (LocalNext \/ UnreservedNext) /\ UNCHANGED calls
  \/ \E c \in Calls :
       \/ \E g \in Gates : StartAuthorize(c, g) \/ StartVoid(c, g) \/ StartVerify(c, g)
       \/ FinishAuthorize(c)
       \/ FailAuthorize(c)
       \/ FinishVerify(c)
       \/ RefuseVerify(c)
       \/ RejectVerify(c)
  \/ StartProcessVoid
  \/ \E c \in Calls \cup {Worker} : FinishVoid(c) \/ FailVoid(c)
  \/ CrashCalls

RaceSpec == RaceInit /\ [][RaceNext]_raceVars

-----------------------------------------------------------------------------
(* Properties. *)

(* The records keep their types, and no balance goes below zero, although a
   call puts back a wallet that was read before other handlers moved money. *)
RaceTypeOK ==
  /\ TypeOK
  /\ calls \in [Calls \cup {Worker} -> Read \cup {Idle}]

(* A holdback is paid once.  Verifications of one gate that overlap each write
   the primary settlement, but the settlement of the holdback is read after
   the await and, once resolved, is never written again. *)
HoldbackPaidOnce ==
  [][\A g \in Gates : holdbackRuns[g].status = "released" => holdbackRuns'[g] = holdbackRuns[g]]_raceVars

(* What an agent was paid stays with it.  Stale writes replace the wallets of
   payers only: an agent that opens no gates loses money in no step but the
   one in which it accepts a refund, and then exactly the refund. *)
PayeesKeepMoney ==
  [][\A a \in Agents \ Payers :
       \/ Balances'[a] >= Balances[a]
       \/ \E g \in Gates :
            /\ settlements[g].payee = a
            /\ reversal[g].status = "refund_pending" /\ reversal'[g].status = "refunded"
            /\ Balances'[a] + reversal[g].amount = Balances[a]]_raceVars

=============================================================================
