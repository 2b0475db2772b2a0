------------------------- MODULE AgentWalletsProofs -------------------------
(***************************************************************************)
(* What the movements of src/core/agent-wallets.js keep: wallets stay      *)
(* wallets with natural balances, and only a credit changes the money that *)
(* all wallets hold together.                                              *)
(***************************************************************************)
EXTENDS AgentWallets, CentSumProofs

(* What a set S of agents holds together. *)
BalanceOf(w, S) == [a \in S |-> w[a].available + w[a].escrow]

Total(w, S) == SumOver(BalanceOf(w, S), S)

(* Balances are natural numbers. *)
LEMMA BalanceType ==
  ASSUME NEW S, NEW w \in [S -> Wallet]
  PROVE  BalanceOf(w, S) \in [S -> Nat]
BY DEF BalanceOf, Wallet

(* Creating a wallet keeps wallets. *)
LEMMA EnsureTyped ==
  ASSUME NEW S, NEW w \in [S -> Wallet], NEW a \in S
  PROVE  ensureAgentWallet(w, a) \in [S -> Wallet]
<1>1. [w[a] EXCEPT !.exists = TRUE] \in Wallet
  BY DEF Wallet
<1> QED BY <1>1 DEF ensureAgentWallet

(* Crediting a wallet keeps wallets. *)
LEMMA CreditTyped ==
  ASSUME NEW S, NEW w \in [S -> Wallet], NEW a \in S, NEW n \in Nat
  PROVE  creditAgentWallet(w, a, n) \in [S -> Wallet]
<1>1. [w[a] EXCEPT !.available = @ + n] \in Wallet
  BY DEF Wallet
<1> QED BY <1>1 DEF creditAgentWallet

(* A lock that the balance covers keeps balances natural. *)
LEMMA LockTyped ==
  ASSUME NEW S, NEW w \in [S -> Wallet], NEW a \in S, NEW n \in Nat, CanLockEscrow(w, a, n)
  PROVE  lockAgentWalletEscrow(w, a, n) \in [S -> Wallet]
<1> DEFINE x == [w[a] EXCEPT !.available = @ - n]
           y == [x EXCEPT !.escrow = @ + n]
<1>1. x \in Wallet
  BY DEF Wallet, CanLockEscrow
<1>2. lockAgentWalletEscrow(w, a, n) = [w EXCEPT ![a] = y]
  BY DEF lockAgentWalletEscrow
<1> HIDE DEF x
<1>3. y \in Wallet
  BY <1>1 DEF Wallet
<1> QED BY <1>2, <1>3

(* A refund that the escrow covers keeps balances natural. *)
LEMMA RefundTyped ==
  ASSUME NEW S, NEW w \in [S -> Wallet], NEW a \in S, NEW n \in Nat, CanDrawEscrow(w, a, n)
  PROVE  refundAgentWalletEscrow(w, a, n) \in [S -> Wallet]
<1> DEFINE x == [w[a] EXCEPT !.escrow = @ - n]
           y == [x EXCEPT !.available = @ + n]
<1>1. x \in Wallet
  BY DEF Wallet, CanDrawEscrow
<1>2. refundAgentWalletEscrow(w, a, n) = [w EXCEPT ![a] = y]
  BY DEF refundAgentWalletEscrow
<1> HIDE DEF x
<1>3. y \in Wallet
  BY <1>1 DEF Wallet
<1> QED BY <1>2, <1>3

(* A release that the escrow covers keeps balances natural. *)
LEMMA ReleaseTyped ==
  ASSUME NEW S, NEW w \in [S -> Wallet], NEW p \in S, NEW q \in S, NEW n \in Nat, CanDrawEscrow(w, p, n)
  PROVE  releaseAgentWalletEscrowToPayee(w, p, q, n) \in [S -> Wallet]
BY DEF releaseAgentWalletEscrowToPayee, CanDrawEscrow, Wallet

(* Creating a wallet creates no money. *)
LEMMA EnsureTotal ==
  ASSUME NEW S, NEW w \in [S -> Wallet], NEW a \in S
  PROVE  Total(ensureAgentWallet(w, a), S) = Total(w, S)
<1>1. \A y \in S : BalanceOf(ensureAgentWallet(w, a), S)[y] = BalanceOf(w, S)[y]
  BY DEF BalanceOf, ensureAgentWallet, Wallet
<1> QED BY <1>1, SumSame DEF Total

(* Locking moves money within a wallet. *)
LEMMA LockTotal ==
  ASSUME NEW S, NEW w \in [S -> Wallet], NEW a \in S, NEW n \in Nat
  PROVE  Total(lockAgentWalletEscrow(w, a, n), S) = Total(w, S)
<1>1. \A y \in S : BalanceOf(lockAgentWalletEscrow(w, a, n), S)[y] = BalanceOf(w, S)[y]
  BY DEF BalanceOf, lockAgentWalletEscrow, Wallet
<1> QED BY <1>1, SumSame DEF Total

(* A refund moves money within a wallet. *)
LEMMA RefundTotal ==
  ASSUME NEW S, NEW w \in [S -> Wallet], NEW a \in S, NEW n \in Nat
  PROVE  Total(refundAgentWalletEscrow(w, a, n), S) = Total(w, S)
<1>1. \A y \in S : BalanceOf(refundAgentWalletEscrow(w, a, n), S)[y] = BalanceOf(w, S)[y]
  BY DEF BalanceOf, refundAgentWalletEscrow, Wallet
<1> QED BY <1>1, SumSame DEF Total

(* A credit adds what it credits. *)
LEMMA CreditTotal ==
  ASSUME NEW S, IsFiniteSet(S), NEW w \in [S -> Wallet], NEW a \in S, NEW n \in Nat
  PROVE  Total(creditAgentWallet(w, a, n), S) = Total(w, S) + n
<1> DEFINE f == BalanceOf(w, S)
           h == BalanceOf(creditAgentWallet(w, a, n), S)
<1>1. f \in [S -> Nat] /\ h \in [S -> Nat]
  BY BalanceType, CreditTyped
<1>2. h[a] = f[a] + n /\ \A y \in S \ {a} : f[y] = h[y]
  BY DEF BalanceOf, creditAgentWallet, Wallet
<1> HIDE DEF f, h
<1>3. SumOver(h, S) + f[a] = SumOver(f, S) + h[a]
  BY <1>1, <1>2, SumChange
<1>4. SumOver(f, S) \in Nat /\ SumOver(h, S) \in Nat /\ f[a] \in Nat
  BY <1>1, SumType
<1>5. SumOver(h, S) = SumOver(f, S) + n
  BY <1>2, <1>3, <1>4
<1> QED BY <1>5 DEF Total, f, h

(* A release moves money between two wallets. *)
LEMMA ReleaseTotal ==
  ASSUME NEW S, IsFiniteSet(S), NEW w \in [S -> Wallet], NEW p \in S, NEW q \in S, p # q,
         NEW n \in Nat, CanDrawEscrow(w, p, n)
  PROVE  Total(releaseAgentWalletEscrowToPayee(w, p, q, n), S) = Total(w, S)
<1> DEFINE debited == [w EXCEPT ![p].escrow = @ - n]
<1>1. debited \in [S -> Wallet]
  BY DEF CanDrawEscrow, Wallet
<1>2. releaseAgentWalletEscrowToPayee(w, p, q, n) = creditAgentWallet(debited, q, n)
  BY DEF releaseAgentWalletEscrowToPayee, creditAgentWallet, Wallet
<1> DEFINE f == BalanceOf(w, S)
           h == BalanceOf(debited, S)
<1>4. f \in [S -> Nat] /\ h \in [S -> Nat]
  BY <1>1, BalanceType
<1>5. f[p] = h[p] + n /\ \A y \in S \ {p} : f[y] = h[y]
  BY DEF BalanceOf, Wallet, CanDrawEscrow
<1>6. Total(creditAgentWallet(debited, q, n), S) = Total(debited, S) + n
  BY <1>1, CreditTotal
<1> HIDE DEF f, h
<1>7. SumOver(h, S) + f[p] = SumOver(f, S) + h[p]
  BY <1>4, <1>5, SumChange
<1>8. SumOver(f, S) \in Nat /\ SumOver(h, S) \in Nat /\ h[p] \in Nat
  BY <1>4, SumType
<1>9. SumOver(f, S) = SumOver(h, S) + n
  BY <1>5, <1>7, <1>8
<1>10. Total(w, S) = SumOver(f, S) /\ Total(debited, S) = SumOver(h, S)
  BY DEF f, h, Total
<1> QED BY <1>2, <1>6, <1>9, <1>10

-----------------------------------------------------------------------------
(* The movements, agent by agent. *)

(* What one agent owns. *)
Owned(w, b) == w[b].available + w[b].escrow

(* The balances of one agent after each movement: what it owns and what of
   that is in escrow. *)
Moves(w, v, b, owned, escrow) ==
  Owned(v, b) = Owned(w, b) + owned /\ v[b].escrow = w[b].escrow + escrow

When(P, n) == IF P THEN n ELSE 0

(* Creating a wallet moves nothing. *)
LEMMA EnsureAt ==
  ASSUME NEW S, NEW w \in [S -> Wallet], NEW a \in S, NEW b \in S
  PROVE  Moves(w, ensureAgentWallet(w, a), b, 0, 0)
BY DEF ensureAgentWallet, Moves, Owned, Wallet

(* A credit is owned and not in escrow. *)
LEMMA CreditAt ==
  ASSUME NEW S, NEW w \in [S -> Wallet], NEW a \in S, NEW b \in S, NEW n \in Nat
  PROVE  Moves(w, creditAgentWallet(w, a, n), b, When(b = a, n), 0)
BY DEF creditAgentWallet, Moves, Owned, Wallet, When

(* A lock moves an amount into escrow. *)
LEMMA LockAt ==
  ASSUME NEW S, NEW w \in [S -> Wallet], NEW a \in S, NEW b \in S, NEW n \in Nat
  PROVE  Moves(w, lockAgentWalletEscrow(w, a, n), b, 0, When(b = a, n))
BY DEF lockAgentWalletEscrow, Moves, Owned, Wallet, When

(* A refund moves it back. *)
LEMMA RefundAt ==
  ASSUME NEW S, NEW w \in [S -> Wallet], NEW a \in S, NEW b \in S, NEW n \in Nat
  PROVE  Moves(w, refundAgentWalletEscrow(w, a, n), b, 0, -When(b = a, n))
BY DEF refundAgentWalletEscrow, Moves, Owned, Wallet, When

(* A release moves an amount from the escrow of one agent to another. *)
LEMMA ReleaseAt ==
  ASSUME NEW S, NEW w \in [S -> Wallet], NEW p \in S, NEW q \in S, p # q, NEW b \in S, NEW n \in Nat
  PROVE  Moves(w, releaseAgentWalletEscrowToPayee(w, p, q, n), b, When(b = q, n) - When(b = p, n), -When(b = p, n))
BY DEF releaseAgentWalletEscrowToPayee, Moves, Owned, Wallet, When

=============================================================================
