---------------------------- MODULE AgentWallets ----------------------------
(***************************************************************************)
(* The money movements of src/core/agent-wallets.js: wallets with an       *)
(* available and an escrow-locked balance, and the settlement record that  *)
(* says what a locked amount becomes.  Every operator takes the wallets of *)
(* all agents, a function from agents to wallets, and returns the next     *)
(* ones; the Can... operators are the conditions under which the code does *)
(* not throw.  The revision of a wallet, which no guard reads, and its     *)
(* lifetime totals, which only the insolvency sweep reads, are left out.   *)
(***************************************************************************)
EXTENDS Integers

Wallet == [exists : BOOLEAN, available : Nat, escrow : Nat]

NoWallet == [exists |-> FALSE, available |-> 0, escrow |-> 0]

(* A missing wallet is created empty, an existing one is left as it is. *)
ensureAgentWallet(w, a) == [w EXCEPT ![a].exists = TRUE]

creditAgentWallet(w, a, n) == [w EXCEPT ![a].available = @ + n]

(* Mutant: the balance check is dropped. *)
LockUnchecked(w, a, n) == TRUE

CanLockEscrow(w, a, n) == w[a].available >= n

lockAgentWalletEscrow(w, a, n) ==
  [w EXCEPT ![a].available = @ - n, ![a].escrow = @ + n]

CanDrawEscrow(w, a, n) == w[a].escrow >= n

(* Mutant: the payee is credited and the payer's escrow is not debited. *)
ReleaseWithoutDebit(w, payer, payee, n) == [w EXCEPT ![payee].available = @ + n]

releaseAgentWalletEscrowToPayee(w, payer, payee, n) ==
  [w EXCEPT ![payer].escrow = @ - n, ![payee].available = @ + n]

refundAgentWalletEscrow(w, a, n) ==
  [w EXCEPT ![a].escrow = @ - n, ![a].available = @ + n]

-----------------------------------------------------------------------------

SettlementStatus == {"none", "locked", "released", "refunded"}

(* payer is settlement.payerAgentId, payee is settlement.agentId. *)
Settlement(Parties) ==
  [status : SettlementStatus, payer : Parties, payee : Parties,
   amount : Nat, released : Nat, refunded : Nat]

createAgentRunSettlement(payer, payee, n) ==
  [status |-> "locked", payer |-> payer, payee |-> payee,
   amount |-> n, released |-> 0, refunded |-> 0]

CanResolveSettlement(s, released, refunded) ==
  s.status = "locked" /\ released + refunded = s.amount

resolveAgentRunSettlement(s, status, released, refunded) ==
  [s EXCEPT !.status = status, !.released = released, !.refunded = refunded]

CanRefundReleased(s) == s.status = "released"

(* Mutant: the released amount is left on the refunded settlement. *)
RefundKeepsReleased(s) == [s EXCEPT !.status = "refunded", !.refunded = s.amount]

refundReleasedAgentRunSettlement(s) ==
  [s EXCEPT !.status = "refunded", !.released = 0, !.refunded = s.amount]

=============================================================================
