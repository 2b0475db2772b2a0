--------------------------- MODULE X402GateProofs ---------------------------
(***************************************************************************)
(* Proofs about X402Gate, for every set of agents and gates, with the      *)
(* reserve adapter in stub or fail mode and a process that may stop at any *)
(* time.                                                                   *)
(***************************************************************************)
EXTENDS X402Gate, AgentWalletsProofs

Parties == Agents \cup {NoAgent}

(* The parties of a settlement that exists are two agents; where there is
   none, nothing was paid. *)
PartiesKnown(s) ==
  IF s.status = "none" THEN s.released = 0
  ELSE s.payer \in Agents /\ s.payee \in Agents /\ s.payer # s.payee

(* The types with what their preservation rests on: wallets are only
   touched for the parties of settlements that exist. *)
TypeInv ==
  /\ TypeOK
  /\ \A g \in Gates : PartiesKnown(settlements[g]) /\ PartiesKnown(holdbackRuns[g])

(* There are finitely many agents in a tenant. *)
LEMMA FiniteAgents == IsFiniteSet(Agents)
BY GateAssumption

(* The inputs of the actions are of the types the records have. *)
LEMMA ConstantTypes ==
  /\ Payers \subseteq Agents /\ Credited \subseteq Agents /\ Freezable \subseteq Agents
  /\ Funds \cup {0} \subseteq Nat
  /\ Amounts \subseteq Nat /\ HoldbackBps \subseteq Bps /\ Windows \subseteq BOOLEAN
  /\ Funds \subseteq Nat
<1>1. Payers \subseteq Agents /\ Credited \subseteq Agents /\ Freezable \subseteq Agents /\ Windows \subseteq BOOLEAN
  BY GateAssumption
<1>2. Funds \subseteq Nat
  BY GateAssumption
<1>3. Funds \cup {0} \subseteq Nat
  BY <1>2
<1>4. Amounts \subseteq Nat \ {0}
  BY GateAssumption
<1>5. Amounts \subseteq Nat
  BY <1>4
<1>6. HoldbackBps \subseteq Bps
  BY GateAssumption
<1> QED BY <1>1, <1>2, <1>3, <1>5, <1>6

-----------------------------------------------------------------------------
(* The records. *)

(* A settlement that is created, resolved, or refunded after its release by
   agent-wallets.js is a settlement. *)
LEMMA SettlementTyped ==
  /\ \A p, q \in Parties, n \in Nat : createAgentRunSettlement(p, q, n) \in Settlement(Parties)
  /\ \A s \in Settlement(Parties), st \in SettlementStatus, m, n \in Nat :
       resolveAgentRunSettlement(s, st, m, n) \in Settlement(Parties)
  /\ \A s \in Settlement(Parties) : refundReleasedAgentRunSettlement(s) \in Settlement(Parties)
<1>1. \A p, q \in Parties, n \in Nat : createAgentRunSettlement(p, q, n) \in Settlement(Parties)
  BY DEF createAgentRunSettlement, Settlement, SettlementStatus
<1>2. ASSUME NEW s \in Settlement(Parties), NEW st \in SettlementStatus, NEW m \in Nat, NEW n \in Nat
      PROVE  resolveAgentRunSettlement(s, st, m, n) \in Settlement(Parties)
  <2> DEFINE s1 == [s EXCEPT !.status = st]
             s2 == [s1 EXCEPT !.released = m]
             s3 == [s2 EXCEPT !.refunded = n]
  <2>1. s3 = resolveAgentRunSettlement(s, st, m, n)
    BY DEF resolveAgentRunSettlement
  <2>2. s1 \in Settlement(Parties)
    BY DEF Settlement
  <2> HIDE DEF s1
  <2>3. s2 \in Settlement(Parties)
    BY <2>2 DEF Settlement
  <2> HIDE DEF s2
  <2>4. s3 \in Settlement(Parties)
    BY <2>3 DEF Settlement
  <2> QED BY <2>1, <2>4
<1>3. ASSUME NEW s \in Settlement(Parties)
      PROVE  refundReleasedAgentRunSettlement(s) \in Settlement(Parties)
  <2>1. s.amount \in Nat /\ "refunded" \in SettlementStatus
    BY DEF Settlement, SettlementStatus
  <2>2. refundReleasedAgentRunSettlement(s) = resolveAgentRunSettlement(s, "refunded", 0, s.amount)
    BY DEF refundReleasedAgentRunSettlement, resolveAgentRunSettlement
  <2> QED BY <1>2, <2>1, <2>2
<1> QED BY <1>1, <1>2, <1>3

(* Resolving a settlement and refunding its release leave its parties. *)
LEMMA PartiesKept ==
  ASSUME NEW s \in Settlement(Parties), PartiesKnown(s), s.status # "none"
  PROVE  /\ \A st \in SettlementStatus \ {"none"} : \A m, n : PartiesKnown(resolveAgentRunSettlement(s, st, m, n))
         /\ PartiesKnown(refundReleasedAgentRunSettlement(s))
BY DEF PartiesKnown, resolveAgentRunSettlement, refundReleasedAgentRunSettlement, Settlement

(* The holdback is a part of the release it is cut out of. *)
LEMMA HoldbackPart ==
  ASSUME NEW r \in Nat, NEW bps \in Bps
  PROVE  HoldbackOf(r, bps) \in Nat /\ HoldbackOf(r, bps) <= r
<1> DEFINE p == r * bps
<1>1. p \in Nat /\ p <= r * 10000
  <2>1. bps \in Nat /\ 10000 - bps >= 0 /\ r >= 0
    BY DEF Bps
  <2>2. r * (10000 - bps) >= 0
    BY <2>1
  <2> QED BY <2>1, <2>2
<1> HIDE DEF p
<1>2. (p \div 10000) \in Nat /\ (p \div 10000) <= r
  BY <1>1
<1> QED BY <1>2 DEF HoldbackOf, p

-----------------------------------------------------------------------------
(* The wallets: every movement of the handlers keeps their types and the
   money they hold together. *)

(* The movements of a create: what is credited is added, the rest moves
   within the payer's wallet. *)
LEMMA CreateMoves ==
  ASSUME IsFiniteSet(Agents), NEW w \in [Agents -> Wallet], NEW p \in Agents, NEW q \in Agents,
         NEW auto \in Nat, NEW n \in Nat,
         CanLockEscrow(creditAgentWallet(ensureAgentWallet(ensureAgentWallet(w, p), q), p, auto), p, n)
  PROVE  LET paid == creditAgentWallet(ensureAgentWallet(ensureAgentWallet(w, p), q), p, auto)
         IN  /\ lockAgentWalletEscrow(paid, p, n) \in [Agents -> Wallet]
             /\ Total(lockAgentWalletEscrow(paid, p, n), Agents) = Total(w, Agents) + auto
<1> DEFINE w1 == ensureAgentWallet(w, p)
           w2 == ensureAgentWallet(w1, q)
           w3 == creditAgentWallet(w2, p, auto)
           w4 == lockAgentWalletEscrow(w3, p, n)
<1>1. w1 \in [Agents -> Wallet] /\ Total(w1, Agents) = Total(w, Agents)
  BY EnsureTyped, EnsureTotal
<1> HIDE DEF w1
<1>2. w2 \in [Agents -> Wallet] /\ Total(w2, Agents) = Total(w1, Agents)
  BY <1>1, EnsureTyped, EnsureTotal
<1> HIDE DEF w2
<1>3. w3 \in [Agents -> Wallet] /\ Total(w3, Agents) = Total(w2, Agents) + auto
  BY <1>2, CreditTyped, CreditTotal
<1>4. CanLockEscrow(w3, p, n)
  BY DEF w1, w2
<1> HIDE DEF w3
<1>5. w4 \in [Agents -> Wallet] /\ Total(w4, Agents) = Total(w3, Agents)
  BY <1>3, <1>4, LockTyped, LockTotal
<1>6. w4 \in [Agents -> Wallet] /\ Total(w4, Agents) = Total(w, Agents) + auto
  BY <1>1, <1>2, <1>3, <1>5
<1> QED BY <1>6 DEF w1, w2, w3

(* Taking an amount out of escrow. *)
LEMMA RefundMoves ==
  ASSUME NEW w \in [Agents -> Wallet], NEW a \in Agents, NEW n \in Nat, CanDrawEscrow(w, a, n)
  PROVE  /\ refundAgentWalletEscrow(w, a, n) \in [Agents -> Wallet]
         /\ Total(refundAgentWalletEscrow(w, a, n), Agents) = Total(w, Agents)
BY RefundTyped, RefundTotal

(* Putting an amount into escrow. *)
LEMMA LockMoves ==
  ASSUME NEW w \in [Agents -> Wallet], NEW a \in Agents, NEW n \in Nat, CanLockEscrow(w, a, n)
  PROVE  /\ lockAgentWalletEscrow(w, a, n) \in [Agents -> Wallet]
         /\ Total(lockAgentWalletEscrow(w, a, n), Agents) = Total(w, Agents)
BY LockTyped, LockTotal

(* Paying an amount out of escrow. *)
LEMMA ReleaseMoves ==
  ASSUME IsFiniteSet(Agents), NEW w \in [Agents -> Wallet], NEW p \in Agents, NEW q \in Agents, p # q,
         NEW n \in Nat, CanDrawEscrow(w, p, n)
  PROVE  /\ releaseAgentWalletEscrowToPayee(w, p, q, n) \in [Agents -> Wallet]
         /\ Total(releaseAgentWalletEscrowToPayee(w, p, q, n), Agents) = Total(w, Agents)
BY ReleaseTyped, ReleaseTotal

-----------------------------------------------------------------------------
(* What a handler does to the wallets, the records of its gate being known. *)

(* A settlement that is there has two agents as its parties and a natural
   amount. *)
LEMMA KnownSettlement ==
  ASSUME TypeInv, NEW g \in Gates, settlements[g].status # "none"
  PROVE  /\ settlements[g].payer \in Agents /\ settlements[g].payee \in Agents
         /\ settlements[g].payer # settlements[g].payee
         /\ settlements[g].amount \in Nat /\ settlements[g].released \in Nat
         /\ wallets \in [Agents -> Wallet]
         /\ reversal[g].amount \in Nat
BY DEF TypeInv, TypeOK, PartiesKnown, Settlement, Reversal

(* Relocking a hold. *)
LEMMA RelockMoves ==
  ASSUME TypeInv, NEW g \in Gates, MayAuthorize(g), CanRelock(g)
  PROVE  Relocked(g) \in [Agents -> Wallet] /\ Total(Relocked(g), Agents) = Total(wallets, Agents)
<1>1. settlements[g].status # "none"
  BY DEF MayAuthorize
<1>2. settlements[g].payer \in Agents /\ settlements[g].amount \in Nat /\ wallets \in [Agents -> Wallet]
  BY <1>1, KnownSettlement
<1>3. CASE authorization[g].walletEscrow = "locked"
  BY <1>2, <1>3 DEF Relocked
<1>4. CASE authorization[g].walletEscrow # "locked"
  <2>1. CanLockEscrow(wallets, settlements[g].payer, settlements[g].amount)
    BY <1>4 DEF CanRelock
  <2> QED BY <1>2, <1>4, <2>1, LockMoves DEF Relocked
<1> QED BY <1>3, <1>4

(* The movements of a verification: the release and the refund of the rest,
   which leave the payer enough for the holdback. *)
LEMMA VerifyMoves ==
  ASSUME IsFiniteSet(Agents), NEW w \in [Agents -> Wallet], NEW p \in Agents, NEW q \in Agents, p # q,
         NEW n \in Nat, NEW now \in Nat, NEW hb \in Nat, now + hb <= n, CanDrawEscrow(w, p, n),
         NEW settled,
         settled = refundAgentWalletEscrow(releaseAgentWalletEscrowToPayee(w, p, q, now), p, n - now)
  PROVE  /\ settled \in [Agents -> Wallet] /\ Total(settled, Agents) = Total(w, Agents)
         /\ CanLockEscrow(settled, p, hb)
<1> DEFINE w1 == releaseAgentWalletEscrowToPayee(w, p, q, now)
           w2 == refundAgentWalletEscrow(w1, p, n - now)
<1>1. now \in Nat /\ hb \in Nat /\ n - now \in Nat /\ hb <= n - now /\ now <= n
  OBVIOUS
<1>2. CanDrawEscrow(w, p, now)
  BY <1>1 DEF CanDrawEscrow, Wallet
<1>3. w1 \in [Agents -> Wallet] /\ Total(w1, Agents) = Total(w, Agents)
  BY <1>1, <1>2, ReleaseMoves
<1>4. CanDrawEscrow(w1, p, n - now)
  BY <1>1 DEF CanDrawEscrow, releaseAgentWalletEscrowToPayee, Wallet
<1> HIDE DEF w1
<1>5. w2 \in [Agents -> Wallet] /\ Total(w2, Agents) = Total(w1, Agents)
  BY <1>1, <1>3, <1>4, RefundMoves
<1>6. CanLockEscrow(w2, p, hb)
  <2>1. w2[p].available = w1[p].available + (n - now)
    BY <1>3 DEF refundAgentWalletEscrow, Wallet
  <2>2. w1[p].available \in Nat
    BY <1>3 DEF Wallet
  <2> HIDE DEF w2
  <2> QED BY <1>1, <2>1, <2>2 DEF CanLockEscrow
<1>7. settled = w2
  BY DEF w1
<1> HIDE DEF w2
<1> QED BY <1>3, <1>5, <1>6, <1>7

-----------------------------------------------------------------------------
(* The step of every action on the wallets. *)

(* Money moves between wallets, and none enters from outside. *)
Moved ==
  /\ wallets' \in [Agents -> Wallet]
  /\ Total(wallets', Agents) = Total(wallets, Agents)
  /\ funded' = funded

(* An authorization moves money, whether the reserve succeeds or fails. *)
LEMMA AuthorizeMoved ==
  ASSUME TypeInv, NEW g \in Gates, AuthorizePayment(g) \/ ReserveFails(g)
  PROVE  Moved
<1>1. MayAuthorize(g) /\ CanRelock(g) /\ funded' = funded
  BY DEF AuthorizePayment, ReserveFails
<1>2. Relocked(g) \in [Agents -> Wallet] /\ Total(Relocked(g), Agents) = Total(wallets, Agents)
  BY <1>1, RelockMoves
<1>3. settlements[g].payer \in Agents /\ settlements[g].amount \in Nat
  BY <1>1, KnownSettlement DEF MayAuthorize
<1>4. CASE wallets' = Relocked(g)
  BY <1>1, <1>2, <1>4 DEF Moved
<1>5. CASE /\ CanDrawEscrow(Relocked(g), settlements[g].payer, settlements[g].amount)
           /\ wallets' = refundAgentWalletEscrow(Relocked(g), settlements[g].payer, settlements[g].amount)
  <2>1. wallets' \in [Agents -> Wallet] /\ Total(wallets', Agents) = Total(Relocked(g), Agents)
    BY <1>2, <1>3, <1>5, RefundMoves
  <2> QED BY <1>1, <1>2, <2>1 DEF Moved
<1> QED BY <1>4, <1>5 DEF AuthorizePayment, ReserveFails

(* What is released now and the holdback are within the amount. *)
LEMMA ReleaseSplits ==
  ASSUME NEW n \in Nat, NEW r \in Nat, r <= n, NEW bps \in Bps, NEW hb, hb = HoldbackOf(r, bps)
  PROVE  hb \in Nat /\ r - hb \in Nat /\ (r - hb) + hb <= n
<1>1. hb \in Nat /\ hb <= r
  BY HoldbackPart
<1> QED BY <1>1

(* The wallets after the primary settlement. *)
LEMMA PrimaryMoves ==
  ASSUME wallets \in [Agents -> Wallet],
         NEW s \in Settlement(Parties), PartiesKnown(s), s.status # "none",
         CanDrawEscrow(wallets, s.payer, s.amount),
         NEW now \in Nat, NEW hb \in Nat, now + hb <= s.amount
  PROVE  /\ PrimarySettled(s, now) \in [Agents -> Wallet]
         /\ Total(PrimarySettled(s, now), Agents) = Total(wallets, Agents)
         /\ CanLockEscrow(PrimarySettled(s, now), s.payer, hb)
<1> DEFINE p == s.payer
           q == s.payee
           n == s.amount
           settled == PrimarySettled(s, now)
<1>1. p \in Agents /\ q \in Agents /\ p # q /\ n \in Nat
  BY DEF PartiesKnown, Settlement
<1>2. IsFiniteSet(Agents) /\ CanDrawEscrow(wallets, p, n) /\ now + hb <= n
  BY FiniteAgents
<1>3. settled = refundAgentWalletEscrow(releaseAgentWalletEscrowToPayee(wallets, p, q, now), p, n - now)
  BY DEF PrimarySettled
<1>4. settled \in [Agents -> Wallet] /\ Total(settled, Agents) = Total(wallets, Agents) /\ CanLockEscrow(settled, p, hb)
  <2> HIDE DEF p, q, n, settled
  <2> QED BY <1>1, <1>2, <1>3, VerifyMoves
<1> QED BY <1>4

(* VerifyEffect with the cases of the holdback written out. *)
VerifyCases(g, s, gate, au, r) ==
  LET hb == HoldbackOf(r, gate.bps)
      now == r - hb
      settled == PrimarySettled(s, now)
      existing == holdbackRuns[g]
      fresh == hb > 0 /\ existing.status = "none"
      open == hb > 0 /\ existing.status \in {"none", "locked"}
      atOnce == open /\ ~gate.window
      h == IF fresh THEN createAgentRunSettlement(s.payer, s.payee, hb) ELSE existing
      relocked == IF fresh THEN lockAgentWalletEscrow(settled, s.payer, hb) ELSE settled
  IN  /\ r \in 0 .. s.amount
      /\ CanDrawEscrow(wallets, s.payer, s.amount)
      /\ atOnce => CanDrawEscrow(relocked, s.payer, hb) /\ CanResolveSettlement(h, hb, 0)
      /\ wallets' = IF atOnce THEN releaseAgentWalletEscrowToPayee(relocked, s.payer, s.payee, hb) ELSE relocked
      /\ settlements' = [settlements EXCEPT ![g] =
           resolveAgentRunSettlement(s, IF r > 0 THEN "released" ELSE "refunded", now, s.amount - now)]
      /\ holdbackRuns' = [holdbackRuns EXCEPT ![g] = IF atOnce THEN resolveAgentRunSettlement(h, "released", hb, 0) ELSE h]
      /\ gates' = [gates EXCEPT ![g] = [gate EXCEPT !.status = "resolved"]]
      /\ authorization' = [authorization EXCEPT ![g] =
           [status |-> "settled", walletEscrow |-> au.walletEscrow,
            reserve |-> IF r > 0 THEN "settled" ELSE "voided"]]
      /\ holdback' = [holdback EXCEPT ![g] =
           [status |-> IF hb = 0 THEN "none" ELSE IF open /\ ~atOnce THEN "held" ELSE "released",
            amount |-> hb, eligible |-> FALSE]]

(* A holdback is funded exactly when it has no settlement yet, and it is open
   when its settlement is new or locked. *)
LEMMA VerifyUnfolds ==
  ASSUME NEW g, NEW s, NEW gate, NEW au, NEW r, VerifyEffect(g, s, gate, au, r)
  PROVE  VerifyCases(g, s, gate, au, r)
<1> DEFINE hb == HoldbackOf(r, gate.bps)
           existing == holdbackRuns[g]
           fresh == hb > 0 /\ existing.status = "none"
           made == createAgentRunSettlement(s.payer, s.payee, hb)
           h == HoldbackRun(existing, s, hb)
<1>1. h = IF fresh THEN made ELSE existing
  BY DEF HoldbackRun
<1>2. made.status = "locked"
  BY DEF createAgentRunSettlement
<1>3. h # existing <=> fresh
  <2> HIDE DEF made, h
  <2> QED BY <1>1, <1>2
<1>4. (hb > 0 /\ h.status = "locked") <=> (hb > 0 /\ existing.status \in {"none", "locked"})
  <2> HIDE DEF made, h
  <2> QED BY <1>1, <1>2
<1>5. CASE fresh
  BY <1>1, <1>3, <1>4, <1>5 DEF VerifyEffect, VerifyCases
<1>6. CASE ~fresh
  BY <1>1, <1>3, <1>4, <1>6 DEF VerifyEffect, VerifyCases
<1> QED BY <1>5, <1>6

(* The verification of a gate as it is stored. *)
LEMMA VerifyGateCases ==
  ASSUME NEW g, NEW r, VerifyGate(g, r)
  PROVE  VerifyCases(g, settlements[g], gates[g], authorization[g], r)
BY VerifyUnfolds DEF VerifyGate

(* A verification leaves the records of other gates. *)
LEMMA VerifyElsewhere ==
  ASSUME TypeInv, NEW g \in Gates, NEW r, VerifyGate(g, r), NEW h \in Gates \ {g}
  PROVE  /\ settlements'[h] = settlements[h] /\ holdbackRuns'[h] = holdbackRuns[h] /\ gates'[h] = gates[h]
         /\ authorization'[h] = authorization[h] /\ holdback'[h] = holdback[h]
         /\ reversal'[h] = reversal[h] /\ dispatch'[h] = dispatch[h]
<1>1. /\ \E x : settlements' = [settlements EXCEPT ![g] = x]
      /\ \E x : holdbackRuns' = [holdbackRuns EXCEPT ![g] = x]
      /\ \E x : gates' = [gates EXCEPT ![g] = x]
      /\ \E x : authorization' = [authorization EXCEPT ![g] = x]
      /\ \E x : holdback' = [holdback EXCEPT ![g] = x]
  BY VerifyGateCases DEF VerifyCases
<1>2. reversal' = reversal /\ dispatch' = dispatch
  BY DEF VerifyGate
<1> QED BY <1>1, <1>2 DEF TypeInv, TypeOK

(* A verification moves money, whenever its records were read. *)
LEMMA VerifyMoved ==
  ASSUME wallets \in [Agents -> Wallet], NEW g \in Gates,
         NEW s \in Settlement(Parties), PartiesKnown(s), s.status # "none",
         NEW gate \in Gate, NEW au, NEW r, VerifyEffect(g, s, gate, au, r), funded' = funded
  PROVE  Moved
<1> DEFINE p == s.payer
           q == s.payee
           n == s.amount
           hb == HoldbackOf(r, gate.bps)
           now == r - hb
           settled == PrimarySettled(s, now)
           locked == lockAgentWalletEscrow(settled, p, hb)
           fresh == hb > 0 /\ holdbackRuns[g].status = "none"
           atOnce == (hb > 0 /\ holdbackRuns[g].status \in {"none", "locked"}) /\ ~gate.window
           relocked == IF fresh THEN locked ELSE settled
<1>0. VerifyCases(g, s, gate, au, r)
  BY VerifyUnfolds
<1>1. r \in 0 .. n /\ CanDrawEscrow(wallets, p, n)
  BY <1>0 DEF VerifyCases
<1>2. p \in Agents /\ q \in Agents /\ p # q /\ n \in Nat
  BY DEF PartiesKnown, Settlement
<1>3. gate.bps \in Bps
  BY DEF Gate
<1>4. wallets' = IF atOnce THEN releaseAgentWalletEscrowToPayee(relocked, p, q, hb) ELSE relocked
  BY <1>0 DEF VerifyCases
<1>5. atOnce => CanDrawEscrow(relocked, p, hb)
  BY <1>0 DEF VerifyCases
<1>7. r \in Nat /\ r <= n
  <2> HIDE DEF n
  <2> QED BY <1>1, <1>2
<1>8. hb \in Nat /\ now \in Nat /\ now + hb <= n
  <2>1. n \in Nat
    BY <1>2
  <2>2. hb = HoldbackOf(r, gate.bps)
    OBVIOUS
  <2> HIDE DEF hb, n
  <2> QED BY <2>1, <2>2, <1>3, <1>7, ReleaseSplits
<1>9. IsFiniteSet(Agents)
  BY FiniteAgents
<1> HIDE DEF hb, now, fresh, atOnce
<1>10. relocked \in [Agents -> Wallet] /\ Total(relocked, Agents) = Total(wallets, Agents)
  <2>2. /\ settled \in [Agents -> Wallet] /\ Total(settled, Agents) = Total(wallets, Agents)
        /\ CanLockEscrow(settled, p, hb)
    BY <1>1, <1>8, PrimaryMoves
  <2> HIDE DEF settled
  <2>3. locked \in [Agents -> Wallet] /\ Total(locked, Agents) = Total(settled, Agents)
    BY <2>2, <1>2, <1>8, LockMoves
  <2> QED BY <2>2, <2>3
<1> HIDE DEF relocked
<1>11. CASE atOnce
  <2>1. /\ releaseAgentWalletEscrowToPayee(relocked, p, q, hb) \in [Agents -> Wallet]
        /\ Total(releaseAgentWalletEscrowToPayee(relocked, p, q, hb), Agents) = Total(relocked, Agents)
    BY <1>2, <1>5, <1>8, <1>9, <1>10, <1>11, ReleaseMoves
  <2> QED BY <1>4, <1>10, <1>11, <2>1 DEF Moved
<1>12. CASE ~atOnce
  BY <1>4, <1>10, <1>12 DEF Moved
<1> QED BY <1>11, <1>12

(* A void moves money, whoever carries it out. *)
LEMMA VoidMoved ==
  ASSUME TypeInv, NEW g \in Gates, settlements[g].status = "locked", VoidEffect(g), funded' = funded
  PROVE  Moved
<1>1. settlements[g].payer \in Agents /\ settlements[g].amount \in Nat /\ wallets \in [Agents -> Wallet]
  BY KnownSettlement
<1> QED BY <1>1, RefundMoves DEF VoidEffect, Moved

(* A step of the refund exchange moves money. *)
LEMMA RefundMoved ==
  ASSUME TypeInv, NEW g \in Gates, RequestRefund(g) \/ DenyRefund(g) \/ AcceptRefund(g)
  PROVE  Moved
<1> DEFINE p == settlements[g].payer
           q == settlements[g].payee
           n == settlements[g].released
           m == reversal[g].amount
<1>1. settlements[g].status # "none"
  <2>1. settlements[g].status = "none" => n = 0
    BY DEF TypeInv, PartiesKnown
  <2>2. n > 0
    BY DEF RequestRefund, DenyRefund, AcceptRefund, MayResolveRefund
  <2> HIDE DEF n
  <2> QED BY <2>1, <2>2
<1>2. /\ p \in Agents /\ q \in Agents /\ p # q
      /\ n \in Nat /\ m \in Nat /\ wallets \in [Agents -> Wallet]
  BY <1>1, KnownSettlement
<1>3. IsFiniteSet(Agents)
  BY FiniteAgents
<1>4. funded' = funded
  BY DEF RequestRefund, DenyRefund, AcceptRefund
<1>5. CASE RequestRefund(g)
  <2>1. CanLockEscrow(wallets, q, n) /\ wallets' = lockAgentWalletEscrow(wallets, q, n)
    BY <1>5 DEF RequestRefund
  <2> HIDE DEF p, q, n, m
  <2> QED BY <1>2, <1>4, <2>1, LockMoves DEF Moved
<1>6. CASE DenyRefund(g)
  <2>1. CanDrawEscrow(wallets, q, m) /\ wallets' = refundAgentWalletEscrow(wallets, q, m)
    BY <1>6 DEF DenyRefund, MayResolveRefund
  <2> HIDE DEF p, q, n, m
  <2> QED BY <1>2, <1>4, <2>1, RefundMoves DEF Moved
<1>7. CASE AcceptRefund(g)
  <2>1. CanDrawEscrow(wallets, q, m) /\ wallets' = releaseAgentWalletEscrowToPayee(wallets, q, p, m)
    BY <1>7 DEF AcceptRefund, MayResolveRefund
  <2> HIDE DEF p, q, n, m
  <2> QED BY <1>2, <1>3, <1>4, <2>1, ReleaseMoves DEF Moved
<1> QED BY <1>5, <1>6, <1>7

(* The release of a holdback moves money. *)
LEMMA HoldbackMoved ==
  ASSUME TypeInv, NEW g \in Gates, ReleaseHoldback(g)
  PROVE  Moved
<1>1. /\ wallets \in [Agents -> Wallet] /\ holdback[g].amount \in Nat /\ funded' = funded
      /\ holdbackRuns[g].payer \in Agents /\ holdbackRuns[g].payee \in Agents
      /\ holdbackRuns[g].payer # holdbackRuns[g].payee
  BY DEF ReleaseHoldback, TypeInv, TypeOK, PartiesKnown, Holdback
<1>2. CASE holdbackRuns[g].status = "locked"
  BY <1>1, <1>2, FiniteAgents, ReleaseMoves DEF ReleaseHoldback, Moved
<1>3. CASE holdbackRuns[g].status # "locked"
  BY <1>1, <1>3 DEF ReleaseHoldback, Moved
<1> QED BY <1>2, <1>3

(* What enters the wallets is what enters the history of credits. *)
Accounted ==
  /\ wallets' \in [Agents -> Wallet]
  /\ funded' \in [Agents -> Nat]
  /\ Total(wallets', Agents) + SumOver(funded, Agents) = Total(wallets, Agents) + SumOver(funded', Agents)

(* Moving money is accounted for. *)
LEMMA MovedAccounted ==
  ASSUME TypeInv, Moved
  PROVE  Accounted
<1>1. funded' \in [Agents -> Nat]
  BY DEF TypeInv, TypeOK, Moved
<1> QED BY <1>1 DEF Moved, Accounted

(* So is leaving it where it is. *)
LEMMA UnmovedAccounted ==
  ASSUME TypeInv, wallets' = wallets, funded' = funded
  PROVE  Accounted
<1>1. Moved
  BY DEF TypeInv, TypeOK, Moved
<1> QED BY <1>1, MovedAccounted

(* A credit adds to the history what it adds to the wallet. *)
LEMMA FundedGrows ==
  ASSUME NEW f \in [Agents -> Nat], NEW a \in Agents, NEW n \in Nat
  PROVE  /\ [f EXCEPT ![a] = @ + n] \in [Agents -> Nat]
         /\ SumOver([f EXCEPT ![a] = @ + n], Agents) = SumOver(f, Agents) + n
<1> DEFINE h == [f EXCEPT ![a] = @ + n]
<1>1. h \in [Agents -> Nat] /\ h[a] = f[a] + n /\ \A y \in Agents \ {a} : f[y] = h[y]
  OBVIOUS
<1> HIDE DEF h
<1>2. SumOver(h, Agents) + f[a] = SumOver(f, Agents) + h[a]
  BY <1>1, FiniteAgents, SumChange
<1>3. SumOver(h, Agents) \in Nat /\ SumOver(f, Agents) \in Nat /\ f[a] \in Nat
  BY <1>1, FiniteAgents, SumType
<1>4. SumOver(h, Agents) = SumOver(f, Agents) + n
  BY <1>1, <1>2, <1>3
<1> QED BY <1>1, <1>4 DEF h

(* The wallet credit endpoint is accounted for. *)
LEMMA CreditAccounted ==
  ASSUME TypeInv, NEW a \in Agents, NEW n \in Nat, CreditWallet(a, n)
  PROVE  Accounted
<1>1. wallets \in [Agents -> Wallet] /\ funded \in [Agents -> Nat]
  BY DEF TypeInv, TypeOK
<1> DEFINE w == ensureAgentWallet(wallets, a)
<1>2. w \in [Agents -> Wallet] /\ Total(w, Agents) = Total(wallets, Agents)
  BY <1>1, EnsureTyped, EnsureTotal
<1>3. wallets' = creditAgentWallet(w, a, n) /\ funded' = [funded EXCEPT ![a] = @ + n]
  BY DEF CreditWallet
<1> HIDE DEF w
<1>4. wallets' \in [Agents -> Wallet] /\ Total(wallets', Agents) = Total(w, Agents) + n
  BY <1>2, <1>3, FiniteAgents, CreditTyped, CreditTotal
<1>5. funded' \in [Agents -> Nat] /\ SumOver(funded', Agents) = SumOver(funded, Agents) + n
  BY <1>1, <1>3, FundedGrows
<1>6. Total(wallets, Agents) \in Nat /\ SumOver(funded, Agents) \in Nat
  BY <1>1, FiniteAgents, BalanceType, SumType DEF Total
<1> QED BY <1>2, <1>4, <1>5, <1>6 DEF Accounted

(* So is the create of a gate, which may credit the payer first. *)
LEMMA CreateAccounted ==
  ASSUME TypeInv, NEW g \in Gates, NEW payer \in Agents, NEW payee \in Agents, NEW n \in Nat,
         NEW fund \in Nat, NEW bps, NEW window, CreateGate(g, payer, payee, n, fund, bps, window)
  PROVE  Accounted
<1> DEFINE auto == AutoFund(payer, fund)
           paid == creditAgentWallet(ensureAgentWallet(ensureAgentWallet(wallets, payer), payee), payer, auto)
<1>1. wallets \in [Agents -> Wallet] /\ funded \in [Agents -> Nat]
  BY DEF TypeInv, TypeOK
<1>2. auto \in Nat
  BY DEF AutoFund
<1>3. /\ CanLockEscrow(paid, payer, n) /\ wallets' = lockAgentWalletEscrow(paid, payer, n)
      /\ funded' = [funded EXCEPT ![payer] = @ + auto]
  BY DEF CreateGate
<1> HIDE DEF auto
<1>4. wallets' \in [Agents -> Wallet] /\ Total(wallets', Agents) = Total(wallets, Agents) + auto
  BY <1>1, <1>2, <1>3, FiniteAgents, CreateMoves
<1> HIDE DEF paid
<1>5. funded' \in [Agents -> Nat] /\ SumOver(funded', Agents) = SumOver(funded, Agents) + auto
  BY <1>1, <1>2, <1>3, FundedGrows
<1>6. Total(wallets, Agents) \in Nat /\ SumOver(funded, Agents) \in Nat
  BY <1>1, FiniteAgents, BalanceType, SumType DEF Total
<1> QED BY <1>2, <1>4, <1>5, <1>6 DEF Accounted

-----------------------------------------------------------------------------
(* The step of every action on the records. *)

RunsTyped ==
  /\ settlements \in [Gates -> Settlement(Parties)] /\ holdbackRuns \in [Gates -> Settlement(Parties)]
  /\ \A g \in Gates : PartiesKnown(settlements[g]) /\ PartiesKnown(holdbackRuns[g])

GatesTyped ==
  /\ gates \in [Gates -> Gate] /\ authorization \in [Gates -> Authorization]
  /\ reversal \in [Gates -> Reversal] /\ dispatch \in [Gates -> Dispatch] /\ holdback \in [Gates -> Holdback]

RestTyped ==
  /\ outbox \in Seq(Message) /\ cursor \in 0 .. Len(outbox)
  /\ reserveMode \in ReserveModes
  /\ unwinding \subseteq Agents
  /\ lifecycle \in [Agents -> [status : AllStatuses, reason : Reasons \cup {NoReason}]]

(* The type invariant is the conjunction of its parts. *)
LEMMA TypeInvParts ==
  TypeInv <=> /\ wallets \in [Agents -> Wallet] /\ funded \in [Agents -> Nat]
              /\ RunsTyped /\ GatesTyped /\ RestTyped
BY DEF TypeInv, TypeOK, RunsTyped, GatesTyped, RestTyped, Parties

(* As above, after a step. *)
LEMMA TypeInvPartsNext ==
  ASSUME wallets' \in [Agents -> Wallet], funded' \in [Agents -> Nat], RunsTyped', GatesTyped', RestTyped'
  PROVE  TypeInv'
BY DEF TypeInv, TypeOK, RunsTyped, GatesTyped, RestTyped, Parties

(* Variables that stay keep their types. *)
LEMMA RunsKept ==
  ASSUME RunsTyped, UNCHANGED runVars
  PROVE  RunsTyped'
BY DEF RunsTyped, runVars

(* As above, for the parts of a gate. *)
LEMMA GatesKept ==
  ASSUME GatesTyped, UNCHANGED gateVars
  PROVE  GatesTyped'
BY DEF GatesTyped, gateVars

(* As above, for the outbox, the adapter, the unwinds and the lifecycle. *)
LEMMA RestKept ==
  ASSUME RestTyped, UNCHANGED <<outbox, cursor, unwinding, lifecycle, reserveMode>>
  PROVE  RestTyped'
BY DEF RestTyped

(* A settlement of a known kind may be put in the place of another one. *)
LEMMA RunWritten ==
  ASSUME RunsTyped, NEW g \in Gates, NEW s \in Settlement(Parties), PartiesKnown(s),
         \/ settlements' = [settlements EXCEPT ![g] = s] /\ holdbackRuns' = holdbackRuns
         \/ holdbackRuns' = [holdbackRuns EXCEPT ![g] = s] /\ settlements' = settlements
  PROVE  RunsTyped'
BY DEF RunsTyped

(* The create of a gate. *)
LEMMA CreateTyped ==
  ASSUME RunsTyped, GatesTyped, RestTyped, NEW g \in Gates, NEW payer \in Agents, NEW payee \in Agents,
         NEW n \in Nat, NEW fund, NEW bps \in Bps, NEW window \in BOOLEAN,
         CreateGate(g, payer, payee, n, fund, bps, window)
  PROVE  RunsTyped' /\ GatesTyped' /\ RestTyped'
<1> DEFINE s == createAgentRunSettlement(payer, payee, n)
<1>1. payer # payee /\ settlements' = [settlements EXCEPT ![g] = s] /\ holdbackRuns' = holdbackRuns
  BY DEF CreateGate
<1>2. s \in Settlement(Parties)
  BY SettlementTyped DEF Parties
<1>3. PartiesKnown(s)
  BY <1>1 DEF PartiesKnown, createAgentRunSettlement
<1>4. RunsTyped'
  <2> HIDE DEF s
  <2> QED BY <1>1, <1>2, <1>3, RunWritten
<1>5. /\ [status |-> "held", bps |-> bps, window |-> window, quote |-> "none"] \in Gate
      /\ [status |-> "pending", walletEscrow |-> "locked", reserve |-> "none"] \in Authorization
      /\ NoReversal \in Reversal /\ NoDispatch \in Dispatch /\ NoHoldback \in Holdback
  BY DEF Gate, Authorization, NoReversal, Reversal, NoDispatch, Dispatch, DispatchIds, NoHoldback, Holdback
<1>6. GatesTyped'
  BY <1>5 DEF CreateGate, GatesTyped
<1>7. RestTyped'
  BY RestKept DEF CreateGate
<1> QED BY <1>4, <1>6, <1>7

(* Quotes. *)
LEMMA QuoteTyped ==
  ASSUME RunsTyped, GatesTyped, RestTyped, NEW g \in Gates, IssueQuote(g) \/ QuoteExpires(g)
  PROVE  RunsTyped' /\ GatesTyped' /\ RestTyped'
<1>1. \A q \in {"live", "expired"} : [gates[g] EXCEPT !.quote = q] \in Gate
  BY DEF GatesTyped, Gate
<1>2. GatesTyped'
  BY <1>1 DEF IssueQuote, QuoteExpires, GatesTyped
<1>3. RunsTyped' /\ RestTyped'
  BY RunsKept, RestKept DEF IssueQuote, QuoteExpires
<1> QED BY <1>2, <1>3

(* Authorizations. *)
LEMMA AuthorizeTyped ==
  ASSUME RunsTyped, GatesTyped, RestTyped, NEW g \in Gates, AuthorizePayment(g) \/ ReserveFails(g)
  PROVE  RunsTyped' /\ GatesTyped' /\ RestTyped'
<1>1. \E au \in Authorization : authorization' = [authorization EXCEPT ![g] = au]
  <2>1. \A st \in {"reserved", "failed"}, es \in {"locked", "unlocked"}, re \in {"none", "reserved"} :
          [status |-> st, walletEscrow |-> es, reserve |-> re] \in Authorization
    BY DEF Authorization
  <2> QED BY <2>1 DEF AuthorizePayment, ReserveFails
<1>2. GatesTyped'
  BY <1>1 DEF AuthorizePayment, ReserveFails, GatesTyped
<1>3. RunsTyped' /\ RestTyped'
  BY RunsKept, RestKept DEF AuthorizePayment, ReserveFails
<1> QED BY <1>2, <1>3

(* The refund exchange. *)
LEMMA RefundExchangeTyped ==
  ASSUME TypeInv, RunsTyped, GatesTyped, RestTyped, NEW g \in Gates,
         RequestRefund(g) \/ DenyRefund(g) \/ AcceptRefund(g)
  PROVE  RunsTyped' /\ GatesTyped' /\ RestTyped'
<1>1. settlements[g].released \in Nat /\ reversal[g].amount \in Nat /\ settlements[g] \in Settlement(Parties)
  BY DEF RunsTyped, GatesTyped, Settlement, Reversal
<1>2. \A st \in {"refund_pending", "refund_denied", "refunded"}, re \in {"held", "released", "consumed"}, n \in Nat :
        [status |-> st, reserve |-> re, amount |-> n] \in Reversal
  BY DEF Reversal
<1>3. \E rv \in Reversal : reversal' = [reversal EXCEPT ![g] = rv]
  BY <1>1, <1>2 DEF RequestRefund, DenyRefund, AcceptRefund
<1>4. GatesTyped' /\ RestTyped'
  BY <1>3, RestKept DEF RequestRefund, DenyRefund, AcceptRefund, GatesTyped
<1>5. CASE RequestRefund(g) \/ DenyRefund(g)
  BY <1>4, <1>5, RunsKept DEF RequestRefund, DenyRefund
<1>6. CASE AcceptRefund(g)
  <2> DEFINE s == refundReleasedAgentRunSettlement(settlements[g])
  <2>1. settlements' = [settlements EXCEPT ![g] = s] /\ holdbackRuns' = holdbackRuns
        /\ settlements[g].status = "released"
    BY <1>6 DEF AcceptRefund, CanRefundReleased
  <2>2. s \in Settlement(Parties) /\ PartiesKnown(s)
    BY <1>1, <2>1, SettlementTyped, PartiesKept DEF RunsTyped
  <2> HIDE DEF s
  <2>3. RunsTyped'
    BY <2>1, <2>2, RunWritten
  <2> QED BY <1>4, <2>3
<1> QED BY <1>5, <1>6

(* A void. *)
LEMMA VoidTyped ==
  ASSUME RunsTyped, GatesTyped, NEW g \in Gates, settlements[g].status = "locked", VoidEffect(g),
         holdbackRuns' = holdbackRuns, holdback' = holdback, dispatch' \in [Gates -> Dispatch]
  PROVE  RunsTyped' /\ GatesTyped'
<1> DEFINE s == resolveAgentRunSettlement(settlements[g], "refunded", 0, settlements[g].amount)
<1>1. settlements[g] \in Settlement(Parties) /\ settlements[g].amount \in Nat /\ PartiesKnown(settlements[g])
  BY DEF RunsTyped, Settlement
<1>2. s \in Settlement(Parties) /\ PartiesKnown(s)
  BY <1>1, SettlementTyped, PartiesKept DEF SettlementStatus
<1>3. settlements' = [settlements EXCEPT ![g] = s]
  BY DEF VoidEffect
<1>4. RunsTyped'
  <2> HIDE DEF s
  <2> QED BY <1>2, <1>3, RunWritten
<1>5. Voided(authorization[g]) \in Authorization
  BY DEF Voided, Authorization
<1>6. [gates[g] EXCEPT !.status = "resolved"] \in Gate
  BY DEF GatesTyped, Gate
<1>7. [reversal[g] EXCEPT !.status = "voided"] \in Reversal
  BY DEF GatesTyped, Reversal
<1>8. GatesTyped'
  BY <1>5, <1>6, <1>7 DEF GatesTyped, VoidEffect
<1> QED BY <1>4, <1>8

(* A verification, whenever its records were read. *)
LEMMA VerifyTyped ==
  ASSUME RunsTyped, GatesTyped, NEW g \in Gates,
         NEW s \in Settlement(Parties), PartiesKnown(s), s.status # "none",
         NEW gate \in Gate, NEW au \in Authorization, NEW r, VerifyEffect(g, s, gate, au, r),
         reversal' \in [Gates -> Reversal], dispatch' \in [Gates -> Dispatch]
  PROVE  RunsTyped' /\ GatesTyped'
<1> DEFINE n == s.amount
           hb == HoldbackOf(r, gate.bps)
           now == r - hb
           existing == holdbackRuns[g]
           fresh == hb > 0 /\ existing.status = "none"
           open == hb > 0 /\ existing.status \in {"none", "locked"}
           atOnce == open /\ ~gate.window
           h == IF fresh THEN createAgentRunSettlement(s.payer, s.payee, hb) ELSE existing
           s1 == resolveAgentRunSettlement(s, IF r > 0 THEN "released" ELSE "refunded", now, n - now)
           h1 == IF atOnce THEN resolveAgentRunSettlement(h, "released", hb, 0) ELSE h
<1>0. VerifyCases(g, s, gate, au, r)
  BY VerifyUnfolds
<1>1. existing \in Settlement(Parties) /\ PartiesKnown(existing)
  BY DEF RunsTyped
<1>2. n \in Nat /\ s.payer \in Agents /\ s.payee \in Agents /\ s.payer # s.payee
  BY DEF PartiesKnown, Settlement
<1>3. r \in Nat /\ r <= n
  <2>1. r \in 0 .. n
    BY <1>0 DEF VerifyCases
  <2> HIDE DEF n
  <2> QED BY <1>2, <2>1
<1>4. hb \in Nat /\ now \in Nat /\ n - now \in Nat
  <2>1. gate.bps \in Bps
    BY DEF Gate
  <2>2. hb = HoldbackOf(r, gate.bps)
    OBVIOUS
  <2>3. n \in Nat
    BY <1>2
  <2> HIDE DEF hb, n
  <2>4. hb \in Nat /\ r - hb \in Nat /\ (r - hb) + hb <= n
    BY <1>3, <2>1, <2>2, <2>3, ReleaseSplits
  <2> QED BY <1>3, <2>3, <2>4
<1>5. settlements' = [settlements EXCEPT ![g] = s1] /\ holdbackRuns' = [holdbackRuns EXCEPT ![g] = h1]
  BY <1>0 DEF VerifyCases
<1>6. atOnce => h.status = "locked"
  BY <1>0 DEF VerifyCases, CanResolveSettlement
<1>7. /\ \E re \in {"settled", "voided"} :
           authorization' = [authorization EXCEPT ![g] =
             [status |-> "settled", walletEscrow |-> au.walletEscrow, reserve |-> re]]
      /\ \E st \in {"none", "held", "released"} :
           holdback' = [holdback EXCEPT ![g] = [status |-> st, amount |-> hb, eligible |-> FALSE]]
      /\ gates' = [gates EXCEPT ![g] = [gate EXCEPT !.status = "resolved"]]
  BY <1>0 DEF VerifyCases
<1>8. s1 \in Settlement(Parties) /\ PartiesKnown(s1)
  <2> HIDE DEF now, n
  <2>1. (IF r > 0 THEN "released" ELSE "refunded") \in SettlementStatus \ {"none"}
    BY DEF SettlementStatus
  <2> QED BY <2>1, <1>4, SettlementTyped, PartiesKept
<1> HIDE DEF hb
<1>9. h \in Settlement(Parties) /\ PartiesKnown(h)
  <2> DEFINE c == createAgentRunSettlement(s.payer, s.payee, hb)
  <2>1. c \in Settlement(Parties)
    BY <1>2, <1>4, SettlementTyped DEF Parties
  <2>2. PartiesKnown(c)
    BY <1>2 DEF PartiesKnown, createAgentRunSettlement
  <2> HIDE DEF c, fresh
  <2> QED BY <1>1, <2>1, <2>2 DEF c
<1>10. h1 \in Settlement(Parties) /\ PartiesKnown(h1)
  <2> HIDE DEF h, atOnce
  <2>1. "released" \in SettlementStatus \ {"none"}
    BY DEF SettlementStatus
  <2> QED BY <1>4, <1>6, <1>9, <2>1, SettlementTyped, PartiesKept
<1> HIDE DEF s1, h1
<1>11. RunsTyped'
  BY <1>5, <1>8, <1>10 DEF RunsTyped
<1>12. GatesTyped'
  <2>1. \A re \in {"settled", "voided"} :
          [status |-> "settled", walletEscrow |-> au.walletEscrow, reserve |-> re] \in Authorization
    BY DEF Authorization
  <2>2. \A st \in {"none", "held", "released"} : [status |-> st, amount |-> hb, eligible |-> FALSE] \in Holdback
    BY <1>4 DEF Holdback
  <2>3. [gate EXCEPT !.status = "resolved"] \in Gate
    BY DEF Gate
  <2> QED BY <1>7, <2>1, <2>2, <2>3 DEF GatesTyped
<1> QED BY <1>11, <1>12

(* A message is queued at the end of the outbox. *)
LEMMA MessageQueued ==
  ASSUME RestTyped, NEW m \in Message, outbox' = Append(outbox, m),
         UNCHANGED <<cursor, unwinding, lifecycle, reserveMode>>
  PROVE  RestTyped'
<1>1. outbox \in Seq(Message) /\ cursor \in 0 .. Len(outbox)
  BY DEF RestTyped
<1>2. outbox' \in Seq(Message) /\ Len(outbox') = Len(outbox) + 1
  BY <1>1
<1>3. cursor' \in 0 .. Len(outbox')
  BY <1>1, <1>2
<1> QED BY <1>2, <1>3 DEF RestTyped

(* The void that a failed proof queues. *)
LEMMA AutoVoidTyped ==
  ASSUME RunsTyped, GatesTyped, RestTyped, NEW g \in Gates, enqueueZkProofAutoVoid(g)
  PROVE  RunsTyped' /\ GatesTyped' /\ RestTyped'
<1>1. settlements[g].payer \in Agents
  BY DEF RunsTyped, PartiesKnown, enqueueZkProofAutoVoid, MayVerify
<1>2. WinddownMessage(g, "zk") \in Message
  BY <1>1 DEF WinddownMessage, Message, DispatchIds
<1>3. RestTyped'
  <2>1. outbox' = Append(outbox, WinddownMessage(g, "zk")) /\ UNCHANGED <<cursor, unwinding, lifecycle, reserveMode>>
    BY DEF enqueueZkProofAutoVoid
  <2> QED BY <1>2, <2>1, MessageQueued
<1>4. [id |-> "zk", status |-> "queued"] \in Dispatch
  BY DEF Dispatch, DispatchIds
<1>5. GatesTyped' /\ RunsTyped'
  BY <1>4, RunsKept DEF enqueueZkProofAutoVoid, GatesTyped
<1> QED BY <1>3, <1>5

(* The lifecycle endpoints and the sweep. *)
LEMMA LifecycleTyped ==
  ASSUME RestTyped, NEW a \in Agents,
         \/ SetLifecycle(a)
         \/ \E reason \in Reasons : FreezeAgent(a, reason)
         \/ SweepInsolvent(a)
  PROVE  RestTyped'
<1>1. \A st \in AllStatuses, re \in Reasons :
        [status |-> st, reason |-> re] \in [status : AllStatuses, reason : Reasons \cup {NoReason}]
  OBVIOUS
<1>2. LifecycleStatuses \subseteq AllStatuses /\ "frozen" \in AllStatuses
  BY LifecycleAssumption DEF AllStatuses
<1>3. "funds_exhausted" \in Reasons
  BY GateAssumption
<1>4. \E st \in AllStatuses, re \in Reasons :
        lifecycle' = [lifecycle EXCEPT ![a] = [status |-> st, reason |-> re]]
  BY <1>2, <1>3 DEF SetLifecycle, upsertX402AgentLifecycleStatus, SweepInsolvent, FreezeAgent, freezeX402AgentLifecycle
<1>5. /\ outbox' = outbox /\ cursor' = cursor /\ reserveMode' = reserveMode
      /\ unwinding' \in {unwinding, unwinding \cup {a}}
  BY DEF SetLifecycle, SweepInsolvent, FreezeAgent
<1> QED BY <1>1, <1>4, <1>5 DEF RestTyped

(* The unwind of a freeze. *)
LEMMA UnwindTyped ==
  ASSUME RunsTyped, GatesTyped, RestTyped, NEW a \in Agents, UnwindFrozen(a)
  PROVE  RunsTyped' /\ GatesTyped' /\ RestTyped'
<1> DEFINE S == ToReverse(a)
           n == Cardinality(S)
<1>1. \A g \in S : WinddownMessage(g, "freeze") \in Message
  BY DEF ToReverse, PayerGates, WinddownMessage, Message, DispatchIds
<1>2. PICK order \in [1 .. n -> S] : outbox' = outbox \o [i \in 1 .. n |-> WinddownMessage(order[i], "freeze")]
  BY DEF UnwindFrozen
<1>3. n \in Nat
  <2>1. IsFiniteSet(Gates) /\ S \subseteq Gates
    BY GateAssumption DEF ToReverse, PayerGates
  <2>2. IsFiniteSet(S)
    BY <2>1, FS_Subset
  <2> QED BY <2>2, FS_CardinalityType
<1> HIDE DEF S, n
<1>4. [i \in 1 .. n |-> WinddownMessage(order[i], "freeze")] \in Seq(Message)
  BY <1>1, <1>2, <1>3
<1>5. RestTyped'
  <2> DEFINE ms == [i \in 1 .. n |-> WinddownMessage(order[i], "freeze")]
  <2>1. ms \in Seq(Message) /\ outbox' = outbox \o ms
    BY <1>2, <1>4
  <2>2. outbox \in Seq(Message) /\ cursor \in 0 .. Len(outbox)
    BY DEF RestTyped
  <2>3. unwinding' = unwinding \ {a} /\ UNCHANGED <<cursor, lifecycle, reserveMode>>
    BY DEF UnwindFrozen
  <2> HIDE DEF ms
  <2>4. outbox' \in Seq(Message) /\ Len(outbox') = Len(outbox) + Len(ms) /\ Len(ms) \in Nat
    BY <2>1, <2>2
  <2>5. cursor' \in 0 .. Len(outbox')
    BY <2>2, <2>3, <2>4
  <2> QED BY <2>3, <2>4, <2>5 DEF RestTyped
<1>6. [id |-> "freeze", status |-> "queued"] \in Dispatch
  BY DEF Dispatch, DispatchIds
<1>7. dispatch' \in [Gates -> Dispatch]
  BY <1>6 DEF GatesTyped, UnwindFrozen
<1>8. gates' \in [Gates -> Gate]
  BY DEF GatesTyped, Gate, UnwindFrozen
<1>9. RunsTyped' /\ GatesTyped'
  BY <1>7, <1>8, RunsKept DEF GatesTyped, UnwindFrozen
<1> QED BY <1>5, <1>9

(* Taking a message. *)
LEMMA MessageTaken ==
  ASSUME RestTyped, TakeMessage
  PROVE  /\ NextMessage \in Message
         /\ outbox' = outbox /\ cursor' \in 0 .. Len(outbox')
<1>1. outbox \in Seq(Message) /\ cursor \in 0 .. Len(outbox) /\ cursor < Len(outbox)
  BY DEF RestTyped, TakeMessage, Waiting
<1>2. cursor + 1 \in 1 .. Len(outbox)
  BY <1>1
<1>3. outbox[cursor + 1] \in Message
  BY <1>1, <1>2
<1>4. cursor + 1 \in 0 .. Len(outbox)
  BY <1>2
<1> QED BY <1>3, <1>4 DEF NextMessage, TakeMessage

(* The wind-down worker. *)
LEMMA WorkerTyped ==
  ASSUME RunsTyped, GatesTyped, RestTyped, ProcessVoid \/ ProcessSkip \/ ProcessThrows
  PROVE  RunsTyped' /\ GatesTyped' /\ RestTyped'
<1> DEFINE m == NextMessage
           g == m.gate
<1>1. TakeMessage /\ UNCHANGED <<unwinding, lifecycle, reserveMode>>
  BY DEF ProcessVoid, ProcessSkip, ProcessThrows
<1>2. m \in Message /\ outbox' = outbox /\ cursor' \in 0 .. Len(outbox')
  BY <1>1, MessageTaken
<1>3. RestTyped'
  BY <1>1, <1>2 DEF RestTyped
<1> HIDE DEF m
<1>4. g \in Gates /\ \A st \in {"skipped", "completed"} : [id |-> m.id, status |-> st] \in Dispatch
  BY <1>2 DEF Message, Dispatch
<1>5. CASE ProcessVoid
  <2>1. /\ settlements[g].status = "locked" /\ VoidEffect(g)
        /\ holdbackRuns' = holdbackRuns /\ holdback' = holdback
        /\ dispatch' = [dispatch EXCEPT ![g] = [id |-> m.id, status |-> "completed"]]
    BY <1>5 DEF ProcessVoid, MessageVoids, m
  <2>2. dispatch' \in [Gates -> Dispatch]
    BY <1>4, <2>1 DEF GatesTyped
  <2> HIDE DEF g
  <2> QED BY <1>3, <1>4, <2>1, <2>2, VoidTyped
<1>6. CASE ProcessSkip
  <2>1. \/ dispatch' = dispatch
        \/ \E st \in {"skipped", "completed"} : dispatch' = [dispatch EXCEPT ![g] = [id |-> m.id, status |-> st]]
    BY <1>6 DEF ProcessSkip, m
  <2>2. dispatch' \in [Gates -> Dispatch]
    BY <1>4, <2>1 DEF GatesTyped
  <2> QED BY <1>3, <1>6, <2>2, RunsKept DEF ProcessSkip, GatesTyped
<1>7. CASE ProcessThrows
  BY <1>3, <1>7, RunsKept, GatesKept DEF ProcessThrows
<1> QED BY <1>5, <1>6, <1>7

(* The holdback worker. *)
LEMMA HoldbackTyped ==
  ASSUME RunsTyped, GatesTyped, RestTyped, NEW g \in Gates, HoldbackWindowEnds(g) \/ ReleaseHoldback(g)
  PROVE  RunsTyped' /\ GatesTyped' /\ RestTyped'
<1>1. /\ [holdback[g] EXCEPT !.eligible = TRUE] \in Holdback
      /\ [holdback[g] EXCEPT !.status = "released"] \in Holdback
  BY DEF GatesTyped, Holdback
<1>2. GatesTyped'
  BY <1>1 DEF GatesTyped, HoldbackWindowEnds, ReleaseHoldback
<1>3. RestTyped'
  BY RestKept DEF HoldbackWindowEnds, ReleaseHoldback
<1>4. CASE HoldbackWindowEnds(g) \/ holdbackRuns' = holdbackRuns
  BY <1>2, <1>3, <1>4, RunsKept DEF HoldbackWindowEnds, ReleaseHoldback, runVars
<1>5. CASE ReleaseHoldback(g) /\ holdbackRuns' # holdbackRuns
  <2> DEFINE h == holdbackRuns[g]
             n == holdback[g].amount
             h1 == resolveAgentRunSettlement(h, "released", n, 0)
  <2>1. h \in Settlement(Parties) /\ PartiesKnown(h) /\ n \in Nat
    BY DEF RunsTyped, GatesTyped, Holdback
  <2>2. h.status = "locked" /\ holdbackRuns' = [holdbackRuns EXCEPT ![g] = h1] /\ settlements' = settlements
    BY <1>5 DEF ReleaseHoldback
  <2>3. "released" \in SettlementStatus \ {"none"}
    BY DEF SettlementStatus
  <2> HIDE DEF h, n
  <2>4. h1 \in Settlement(Parties) /\ PartiesKnown(h1)
    BY <2>1, <2>2, <2>3, SettlementTyped, PartiesKept
  <2> HIDE DEF h1
  <2>5. RunsTyped'
    BY <2>2, <2>4, RunWritten
  <2> QED BY <1>2, <1>3, <2>5
<1> QED BY <1>4, <1>5

-----------------------------------------------------------------------------
(* Type correctness and the conservation of money. *)

(* A step that keeps every type and accounts for the money. *)
Sound == Accounted /\ RunsTyped' /\ GatesTyped' /\ RestTyped'

(* Credits, quotes, and what only concerns agents and the outbox. *)
SimpleStep ==
  \/ \E a \in Agents, n \in Nat : CreditWallet(a, n)
  \/ \E g \in Gates : IssueQuote(g) \/ QuoteExpires(g) \/ enqueueZkProofAutoVoid(g) \/ HoldbackWindowEnds(g)
  \/ \E a \in Agents :
       \/ SetLifecycle(a)
       \/ \E reason \in Reasons : FreezeAgent(a, reason)
       \/ SweepInsolvent(a)
       \/ UnwindFrozen(a)
  \/ Crash

(* What moves money. *)
MovingStep ==
  \/ \E g \in Gates :
       \/ AuthorizePayment(g) \/ ReserveFails(g)
       \/ \E r \in 0 .. settlements[g].amount : VerifyGate(g, r)
       \/ VoidAuthorization(g)
       \/ RequestRefund(g) \/ DenyRefund(g) \/ AcceptRefund(g)
       \/ ReleaseHoldback(g)
  \/ ProcessVoid \/ ProcessSkip \/ ProcessThrows

(* The steps that leave the money where it is, and credits. *)
LEMMA SimpleStepsSound ==
  ASSUME TypeInv, RunsTyped, GatesTyped, RestTyped, SimpleStep
  PROVE  Sound
<1>1. ASSUME NEW a \in Agents, NEW n \in Nat, CreditWallet(a, n)
      PROVE  Sound
  <2>1. RunsTyped' /\ GatesTyped' /\ RestTyped'
    BY <1>1, RunsKept, GatesKept, RestKept DEF CreditWallet
  <2> QED BY <1>1, <2>1, CreditAccounted DEF Sound
<1>2. ASSUME NEW g \in Gates, IssueQuote(g) \/ QuoteExpires(g)
      PROVE  Sound
  <2>1. wallets' = wallets /\ funded' = funded
    BY <1>2 DEF IssueQuote, QuoteExpires
  <2> QED BY <1>2, <2>1, QuoteTyped, UnmovedAccounted DEF Sound
<1>3. ASSUME NEW g \in Gates, enqueueZkProofAutoVoid(g)
      PROVE  Sound
  <2>1. wallets' = wallets /\ funded' = funded
    BY <1>3 DEF enqueueZkProofAutoVoid
  <2> QED BY <1>3, <2>1, AutoVoidTyped, UnmovedAccounted DEF Sound
<1>4. ASSUME NEW g \in Gates, HoldbackWindowEnds(g)
      PROVE  Sound
  <2>1. wallets' = wallets /\ funded' = funded
    BY <1>4 DEF HoldbackWindowEnds
  <2> QED BY <1>4, <2>1, HoldbackTyped, UnmovedAccounted DEF Sound
<1>5. ASSUME NEW a \in Agents,
             SetLifecycle(a) \/ (\E reason \in Reasons : FreezeAgent(a, reason)) \/ SweepInsolvent(a)
      PROVE  Sound
  <2>1. wallets' = wallets /\ funded' = funded /\ UNCHANGED runVars /\ UNCHANGED gateVars
    BY <1>5 DEF SetLifecycle, FreezeAgent, SweepInsolvent
  <2>2. RestTyped'
    BY <1>5, LifecycleTyped
  <2> QED BY <2>1, <2>2, RunsKept, GatesKept, UnmovedAccounted DEF Sound
<1>6. ASSUME NEW a \in Agents, UnwindFrozen(a)
      PROVE  Sound
  <2>1. wallets' = wallets /\ funded' = funded
    BY <1>6 DEF UnwindFrozen
  <2> QED BY <1>6, <2>1, UnwindTyped, UnmovedAccounted DEF Sound
<1>7. ASSUME Crash
      PROVE  Sound
  <2>1. wallets' = wallets /\ funded' = funded /\ UNCHANGED runVars /\ UNCHANGED gateVars
    BY <1>7 DEF Crash
  <2>2. RestTyped'
    <3>1. outbox \in Seq(Message) /\ 0 \in 0 .. Len(outbox)
      BY DEF RestTyped
    <3> QED BY <1>7, <3>1 DEF Crash, RestTyped
  <2> QED BY <2>1, <2>2, RunsKept, GatesKept, UnmovedAccounted DEF Sound
<1> QED BY <1>1, <1>2, <1>3, <1>4, <1>5, <1>6, <1>7 DEF SimpleStep

(* The steps that move money. *)
LEMMA MovingStepsSound ==
  ASSUME TypeInv, RunsTyped, GatesTyped, RestTyped, MovingStep
  PROVE  Sound
<1>1. ASSUME NEW g \in Gates, AuthorizePayment(g) \/ ReserveFails(g)
      PROVE  Sound
  BY <1>1, AuthorizeTyped, AuthorizeMoved, MovedAccounted DEF Sound
<1>2. ASSUME NEW g \in Gates, NEW r \in 0 .. settlements[g].amount, VerifyGate(g, r)
      PROVE  Sound
  <2>1. /\ settlements[g] \in Settlement(Parties) /\ PartiesKnown(settlements[g]) /\ settlements[g].status # "none"
        /\ gates[g] \in Gate /\ authorization[g] \in Authorization /\ wallets \in [Agents -> Wallet]
        /\ reversal \in [Gates -> Reversal] /\ dispatch \in [Gates -> Dispatch]
    BY <1>2 DEF VerifyGate, MayVerify, RunsTyped, GatesTyped, TypeInv, TypeOK
  <2>2. /\ VerifyEffect(g, settlements[g], gates[g], authorization[g], r)
        /\ UNCHANGED <<reversal, dispatch, outbox, cursor, unwinding, funded, lifecycle, reserveMode>>
    BY <1>2 DEF VerifyGate
  <2>3. Moved
    BY <2>1, <2>2, VerifyMoved
  <2>4. RunsTyped' /\ GatesTyped'
    BY <2>1, <2>2, VerifyTyped
  <2>5. RestTyped'
    BY <2>2, RestKept
  <2> QED BY <2>3, <2>4, <2>5, MovedAccounted DEF Sound
<1>3. ASSUME NEW g \in Gates, VoidAuthorization(g)
      PROVE  Sound
  <2>1. /\ settlements[g].status = "locked" /\ VoidEffect(g) /\ funded' = funded
        /\ holdbackRuns' = holdbackRuns /\ holdback' = holdback /\ dispatch' = dispatch
        /\ UNCHANGED <<outbox, cursor, unwinding, lifecycle, reserveMode>>
    BY <1>3 DEF VoidAuthorization
  <2>2. dispatch' \in [Gates -> Dispatch]
    BY <2>1 DEF GatesTyped
  <2> QED BY <2>1, <2>2, VoidTyped, VoidMoved, RestKept, MovedAccounted DEF Sound
<1>4. ASSUME NEW g \in Gates, RequestRefund(g) \/ DenyRefund(g) \/ AcceptRefund(g)
      PROVE  Sound
  BY <1>4, RefundExchangeTyped, RefundMoved, MovedAccounted DEF Sound
<1>5. ASSUME NEW g \in Gates, ReleaseHoldback(g)
      PROVE  Sound
  BY <1>5, HoldbackTyped, HoldbackMoved, MovedAccounted DEF Sound
<1>6. ASSUME ProcessVoid \/ ProcessSkip \/ ProcessThrows
      PROVE  Sound
  <2>1. RunsTyped' /\ GatesTyped' /\ RestTyped'
    BY <1>6, WorkerTyped
  <2>2. CASE ProcessVoid
    <3>1. NextMessage \in Message
      BY <2>2, MessageTaken DEF ProcessVoid
    <3>2. NextMessage.gate \in Gates
      BY <3>1 DEF Message
    <3>3. /\ settlements[NextMessage.gate].status = "locked" /\ VoidEffect(NextMessage.gate)
          /\ funded' = funded
      BY <2>2 DEF ProcessVoid, MessageVoids
    <3>4. Moved
      BY <3>2, <3>3, VoidMoved
    <3> QED BY <2>1, <3>4, MovedAccounted DEF Sound
  <2>3. CASE ProcessSkip \/ ProcessThrows
    <3>1. wallets' = wallets /\ funded' = funded
      BY <2>3 DEF ProcessSkip, ProcessThrows
    <3> QED BY <2>1, <3>1, UnmovedAccounted DEF Sound
  <2> QED BY <1>6, <2>2, <2>3
<1> QED BY <1>1, <1>2, <1>3, <1>4, <1>5, <1>6 DEF MovingStep

(* Every step keeps the types and accounts for the money. *)
LEMMA StepSound ==
  ASSUME TypeInv, Next
  PROVE  TypeInv' /\ Accounted
<1> SUFFICES Sound
  BY TypeInvPartsNext DEF Sound, Accounted
<1>1. RunsTyped /\ GatesTyped /\ RestTyped
  BY TypeInvParts
<1>2. /\ Payers \subseteq Agents /\ Credited \subseteq Agents /\ Freezable \subseteq Agents
      /\ Funds \cup {0} \subseteq Nat
      /\ Amounts \subseteq Nat /\ HoldbackBps \subseteq Bps /\ Windows \subseteq BOOLEAN
      /\ Funds \subseteq Nat
  BY ConstantTypes
<1>3. ASSUME NEW g \in Gates, NEW payer \in Agents, NEW payee \in Agents, NEW n \in Nat,
             NEW fund \in Nat, NEW bps \in Bps, NEW window \in BOOLEAN,
             CreateGate(g, payer, payee, n, fund, bps, window)
      PROVE  Sound
  BY <1>1, <1>3, CreateTyped, CreateAccounted DEF Sound
<1>4. CASE \E g \in Gates, payer \in Payers, payee \in Agents, n \in Amounts, fund \in Funds \cup {0},
                 bps \in HoldbackBps, window \in Windows : CreateGate(g, payer, payee, n, fund, bps, window)
  BY <1>2, <1>3, <1>4
<1>5. CASE SimpleStep
  BY <1>1, <1>5, SimpleStepsSound
<1>6. CASE MovingStep
  BY <1>1, <1>6, MovingStepsSound
<1> QED BY <1>2, <1>4, <1>5, <1>6 DEF Next, LocalNext, SimpleStep, MovingStep

(* The initial state has the types. *)
LEMMA InitTyped ==
  ASSUME Init
  PROVE  TypeInv
<1>1. NoWallet \in Wallet /\ NoSettlement \in Settlement(Parties) /\ PartiesKnown(NoSettlement)
  BY DEF NoWallet, Wallet, NoSettlement, Settlement, SettlementStatus, Parties, PartiesKnown
<1>2. /\ NoGate \in Gate /\ NoAuthorization \in Authorization /\ NoReversal \in Reversal
      /\ NoDispatch \in Dispatch /\ NoHoldback \in Holdback
  BY DEF NoGate, Gate, Bps, NoAuthorization, Authorization, NoReversal, Reversal, NoDispatch, Dispatch,
         DispatchIds, NoHoldback, Holdback
<1>3. RunsTyped
  BY <1>1 DEF Init, RunsTyped
<1>4. GatesTyped
  BY <1>2 DEF Init, GatesTyped
<1>5. RestTyped
  BY DEF Init, LifecycleInit, RestTyped, AllStatuses
<1>6. wallets \in [Agents -> Wallet] /\ funded \in [Agents -> Nat]
  BY <1>1 DEF Init
<1> QED BY <1>3, <1>4, <1>5, <1>6, TypeInvParts

(* Type correctness, with the parties of settlements, for every instance. *)
LEMMA TypeInvariance == Spec => []TypeInv
<1>1. Init => TypeInv
  BY InitTyped
<1>2. TypeInv /\ [Next]_vars => TypeInv'
  <2>1. ASSUME TypeInv, UNCHANGED vars
        PROVE  TypeInv'
    BY <2>1 DEF TypeInv, TypeOK, vars, runVars, gateVars
  <2> QED BY <2>1, StepSound
<1> QED BY <1>1, <1>2, PTL DEF Spec

(* Wallet balances never go below zero and every record the handlers and
   workers write is well formed, for every set of agents and gates, with the
   adapter in stub or fail mode. *)
THEOREM TypeCorrect == Spec => []TypeOK
<1>1. TypeInv => TypeOK
  BY DEF TypeInv
<1> QED BY <1>1, TypeInvariance, PTL

(* Money is conserved as long as no handler awaits I/O, that is with the
   adapter in stub or fail mode: whatever holds, roll-backs, releases,
   refunds, voids, redelivered messages and restarts come in between, the
   wallets of a tenant together hold exactly what was credited from outside. *)
THEOREM Conservation == Spec => []MoneyConserved
<1>1. Init => MoneyConserved
  <2>1. ASSUME Init
        PROVE  MoneyConserved
    <3>1. \A a \in Agents : Balances[a] = 0 /\ funded[a] = 0
      BY <2>1 DEF Init, Balances, NoWallet
    <3>2. SumOver(Balances, Agents) = 0 /\ SumOver(funded, Agents) = 0
      BY <3>1, SumZero
    <3> QED BY <3>2 DEF MoneyConserved
  <2> QED BY <2>1
<1>2. TypeInv /\ MoneyConserved /\ [Next]_vars => MoneyConserved'
  <2>1. Total(wallets, Agents) = SumOver(Balances, Agents)
    BY DEF Total, BalanceOf, Balances
  <2>2. Total(wallets', Agents) = SumOver(Balances', Agents)
    BY DEF Total, BalanceOf, Balances
  <2>3. ASSUME TypeInv, MoneyConserved, Next
        PROVE  MoneyConserved'
    <3>1. Accounted
      BY <2>3, StepSound
    <3>2. Total(wallets, Agents) = SumOver(funded, Agents)
      BY <2>1, <2>3 DEF MoneyConserved
    <3>3. wallets \in [Agents -> Wallet] /\ funded \in [Agents -> Nat]
      BY <2>3 DEF TypeInv, TypeOK
    <3>4. Total(wallets', Agents) \in Nat /\ SumOver(funded, Agents) \in Nat /\ SumOver(funded', Agents) \in Nat
      BY <3>1, <3>3, FiniteAgents, BalanceType, SumType DEF Total, Accounted
    <3>5. Total(wallets', Agents) = SumOver(funded', Agents)
      BY <3>1, <3>2, <3>4 DEF Accounted
    <3> QED BY <2>2, <3>5 DEF MoneyConserved
  <2>4. ASSUME MoneyConserved, UNCHANGED vars
        PROVE  MoneyConserved'
    BY <2>4 DEF MoneyConserved, Balances, vars
  <2> QED BY <2>3, <2>4
<1> QED BY <1>1, <1>2, TypeInvariance, PTL DEF Spec

=============================================================================
