------------------------- MODULE X402RecordsProofs --------------------------
(***************************************************************************)
(* Proofs about X402Gate where a gate id is not created again under a new  *)
(* idempotency key: the records of a gate agree, a settlement resolves     *)
(* once, a freeze that is through leaves no hold without its void, and the *)
(* records explain what every agent owns and what of it is in escrow.      *)
(* The adapter is in stub or fail mode and no handler awaits I/O.  What    *)
(* else the constants leave open stays open unless a theorem says so: the  *)
(* mode of the adapter, restarts, redelivered messages.                    *)
(***************************************************************************)
EXTENDS X402GateProofs

(* What RecordsAgree says of one gate. *)
Agrees(g) == HoldAgrees(g) /\ AuthorizationAgrees(g) /\ ReversalAgrees(g) /\ HoldbackAgrees(g)

(* A step leaves what RecordsAgree reads of a gate. *)
Same(g) ==
  /\ settlements'[g] = settlements[g] /\ holdbackRuns'[g] = holdbackRuns[g]
  /\ gates'[g].status = gates[g].status /\ authorization'[g] = authorization[g]
  /\ reversal'[g] = reversal[g]
  /\ holdback'[g].status = holdback[g].status /\ holdback'[g].amount = holdback[g].amount

(* What SettlesOnce says of one gate. *)
OnceAt(g) ==
  settlements[g].status \in {"released", "refunded"} =>
    \/ settlements'[g] = settlements[g]
    \/ /\ settlements[g].status = "released" /\ settlements'[g].status = "refunded"
       /\ reversal[g].status = "refund_pending" /\ reversal'[g].status = "refunded"

(* Records that a step leaves go on agreeing. *)
LEMMA SameAgrees ==
  ASSUME NEW g \in Gates, Agrees(g), Same(g)
  PROVE  Agrees(g)' /\ OnceAt(g)
<1>1. HoldAgrees(g)'
  BY DEF Agrees, Same, HoldAgrees
<1>2. AuthorizationAgrees(g)'
  BY DEF Agrees, Same, AuthorizationAgrees
<1>3. ReversalAgrees(g)'
  BY DEF Agrees, Same, ReversalAgrees
<1>4. HoldbackAgrees(g)'
  BY DEF Agrees, Same, HoldbackAgrees
<1> QED BY <1>1, <1>2, <1>3, <1>4 DEF Agrees, Same, OnceAt

(* The types of the records of one gate. *)
LEMMA RecordTypes ==
  ASSUME TypeInv, NEW g \in Gates
  PROVE  /\ settlements[g] \in Settlement(Parties) /\ holdbackRuns[g] \in Settlement(Parties)
         /\ PartiesKnown(settlements[g]) /\ PartiesKnown(holdbackRuns[g])
         /\ gates[g] \in Gate /\ authorization[g] \in Authorization /\ reversal[g] \in Reversal
         /\ holdback[g] \in Holdback
BY DEF TypeInv, TypeOK, Parties

(* A create finds nothing of the gate and leaves a hold. *)
LEMMA CreateAgrees ==
  ASSUME TypeInv, ~RekeyedCreate, NEW g \in Gates, Agrees(g),
         NEW payer \in Agents, NEW payee \in Agents, NEW n \in Nat, NEW fund \in Nat,
         NEW bps \in Bps, NEW window \in BOOLEAN,
         CreateGate(g, payer, payee, n, fund, bps, window)
  PROVE  /\ Agrees(g)' /\ OnceAt(g)
         /\ \A h \in Gates \ {g} : Same(h)
<1>1. GateUnlessExists(g)
  BY DEF CreateGate, MayCreate
<1>2. holdbackRuns[g].status = "none" /\ holdbackRuns[g].released = 0
  BY <1>1, RecordTypes DEF GateUnlessExists, Agrees, AuthorizationAgrees, HoldbackAgrees, PartiesKnown
<1>3. /\ settlements'[g] = createAgentRunSettlement(payer, payee, n)
      /\ gates'[g].status = "held"
      /\ authorization'[g] = [status |-> "pending", walletEscrow |-> "locked", reserve |-> "none"]
      /\ reversal'[g] = NoReversal /\ holdback'[g] = NoHoldback /\ holdbackRuns' = holdbackRuns
  BY DEF CreateGate, TypeInv, TypeOK
<1>4. /\ settlements'[g].status = "locked" /\ settlements'[g].released = 0
      /\ authorization'[g].status = "pending" /\ authorization'[g].reserve = "none"
      /\ reversal'[g].status = "none" /\ reversal'[g].reserve = "none" /\ holdback'[g].status = "none"
  BY <1>3 DEF createAgentRunSettlement, NoReversal, NoHoldback
<1>5. HoldAgrees(g)' /\ AuthorizationAgrees(g)' /\ ReversalAgrees(g)'
  BY <1>3, <1>4 DEF HoldAgrees, AuthorizationAgrees, ReversalAgrees
<1>6. HoldbackAgrees(g)'
  BY <1>2, <1>3, <1>4 DEF HoldbackAgrees
<1>7. OnceAt(g)
  BY <1>1 DEF GateUnlessExists, OnceAt
<1>8. \A h \in Gates \ {g} : Same(h)
  BY DEF CreateGate, TypeInv, TypeOK, Same
<1> QED BY <1>5, <1>6, <1>7, <1>8 DEF Agrees

(* An authorization that succeeds holds the reserve; one whose reserve fails
   holds none. *)
LEMMA AuthorizeAgrees ==
  ASSUME TypeInv, NEW g \in Gates, Agrees(g), AuthorizePayment(g) \/ ReserveFails(g)
  PROVE  /\ Agrees(g)' /\ OnceAt(g)
         /\ \A h \in Gates \ {g} : Same(h)
<1>1. /\ settlements' = settlements /\ holdbackRuns' = holdbackRuns /\ gates' = gates
      /\ reversal' = reversal /\ holdback' = holdback
      /\ Held(g) /\ settlements[g].status = "locked"
  BY DEF AuthorizePayment, ReserveFails, MayAuthorize, runVars
<1>2. \/ /\ authorization'[g].status = "reserved" /\ authorization'[g].reserve = "reserved"
         /\ authorization'[g].walletEscrow = "locked"
      \/ authorization'[g].status = "failed" /\ authorization'[g].reserve = "none"
  BY DEF AuthorizePayment, ReserveFails, TypeInv, TypeOK
<1>3. authorization[g].status \notin {"none", "voided", "settled"}
  BY <1>1 DEF Agrees, AuthorizationAgrees, Held
<1>4. HoldAgrees(g)'
  BY <1>1 DEF Agrees, HoldAgrees
<1>5. AuthorizationAgrees(g)'
  BY <1>1, <1>2 DEF Agrees, AuthorizationAgrees, HoldAgrees, Held
<1>6. ReversalAgrees(g)'
  BY <1>1, <1>2, <1>3 DEF Agrees, ReversalAgrees
<1>7. HoldbackAgrees(g)'
  BY <1>1, <1>3 DEF Agrees, HoldbackAgrees
<1>8. \A h \in Gates \ {g} : Same(h)
  BY <1>1 DEF AuthorizePayment, ReserveFails, TypeInv, TypeOK, Same
<1> QED BY <1>1, <1>4, <1>5, <1>6, <1>7, <1>8 DEF Agrees, OnceAt

(* A void turns a hold into a refund and pays nothing out. *)
LEMMA VoidAgrees ==
  ASSUME TypeInv, NEW g \in Gates, Agrees(g), settlements[g].status = "locked", VoidEffect(g),
         holdbackRuns' = holdbackRuns, holdback' = holdback
  PROVE  /\ Agrees(g)' /\ OnceAt(g)
         /\ \A h \in Gates \ {g} : Same(h)
<1>1. /\ settlements'[g] = resolveAgentRunSettlement(settlements[g], "refunded", 0, settlements[g].amount)
      /\ gates'[g].status = "resolved" /\ authorization'[g] = Voided(authorization[g])
      /\ reversal'[g] = [reversal[g] EXCEPT !.status = "voided"]
  BY DEF VoidEffect, TypeInv, TypeOK, Gate
<1>2. /\ settlements'[g].status = "refunded" /\ settlements'[g].released = 0
      /\ settlements'[g].refunded = settlements[g].amount /\ settlements'[g].amount = settlements[g].amount
      /\ settlements[g].amount \in Nat
  BY <1>1, RecordTypes DEF resolveAgentRunSettlement, Settlement
<1>3. /\ authorization'[g].status = "voided" /\ authorization'[g].reserve \in {"none", "voided"}
      /\ reversal'[g].status = "voided" /\ reversal'[g].reserve = reversal[g].reserve
  BY <1>1, RecordTypes DEF Voided, Reversal
<1>4. /\ gates[g].status = "held" /\ authorization[g].status \in {"pending", "reserved", "failed"}
      /\ reversal[g].reserve # "held" /\ holdbackRuns[g].status = "none"
  BY DEF Agrees, HoldAgrees, AuthorizationAgrees, ReversalAgrees, HoldbackAgrees
<1>5. HoldAgrees(g)'
  BY <1>1, <1>2 DEF HoldAgrees
<1>6. AuthorizationAgrees(g)'
  BY <1>1, <1>2, <1>3 DEF AuthorizationAgrees
<1>7. ReversalAgrees(g)'
  BY <1>2, <1>3, <1>4 DEF ReversalAgrees
<1>8. HoldbackAgrees(g)'
  BY <1>4 DEF Agrees, HoldbackAgrees
<1>9. \A h \in Gates \ {g} : Same(h)
  BY DEF VoidEffect, TypeInv, TypeOK, Same
<1> QED BY <1>5, <1>6, <1>7, <1>8, <1>9 DEF Agrees, OnceAt

(* A refund is asked for against the release it would undo. *)
LEMMA RequestAgrees ==
  ASSUME TypeInv, NEW g \in Gates, Agrees(g), RequestRefund(g)
  PROVE  /\ Agrees(g)' /\ OnceAt(g)
         /\ \A h \in Gates \ {g} : Same(h)
<1>1. /\ settlements' = settlements /\ holdbackRuns' = holdbackRuns /\ gates' = gates
      /\ authorization' = authorization /\ holdback' = holdback
      /\ settlements[g].status = "released"
  BY DEF RequestRefund, runVars
<1>2. /\ reversal'[g].status = "refund_pending" /\ reversal'[g].reserve = "held"
      /\ reversal'[g].amount = settlements[g].released
  BY DEF RequestRefund, TypeInv, TypeOK
<1>3. authorization[g].status # "voided"
  BY <1>1 DEF Agrees, ReversalAgrees
<1>4. HoldAgrees(g)' /\ AuthorizationAgrees(g)' /\ HoldbackAgrees(g)'
  BY <1>1 DEF Agrees, HoldAgrees, AuthorizationAgrees, HoldbackAgrees
<1>5. ReversalAgrees(g)'
  BY <1>1, <1>2, <1>3 DEF ReversalAgrees
<1>6. \A h \in Gates \ {g} : Same(h)
  BY <1>1 DEF RequestRefund, TypeInv, TypeOK, Same
<1> QED BY <1>1, <1>4, <1>5, <1>6 DEF Agrees, OnceAt

(* A denied refund leaves the release as it was. *)
LEMMA DenyAgrees ==
  ASSUME TypeInv, NEW g \in Gates, Agrees(g), DenyRefund(g)
  PROVE  /\ Agrees(g)' /\ OnceAt(g)
         /\ \A h \in Gates \ {g} : Same(h)
<1>1. /\ settlements' = settlements /\ holdbackRuns' = holdbackRuns /\ gates' = gates
      /\ authorization' = authorization /\ holdback' = holdback
      /\ reversal[g].status = "refund_pending"
  BY DEF DenyRefund, MayResolveRefund, runVars
<1>2. reversal'[g].status = "refund_denied" /\ reversal'[g].reserve = "released"
  BY DEF DenyRefund, TypeInv, TypeOK
<1>3. authorization[g].status # "voided"
  BY <1>1 DEF Agrees, ReversalAgrees
<1>4. HoldAgrees(g)' /\ AuthorizationAgrees(g)' /\ HoldbackAgrees(g)'
  BY <1>1 DEF Agrees, HoldAgrees, AuthorizationAgrees, HoldbackAgrees
<1>5. ReversalAgrees(g)'
  BY <1>1, <1>2, <1>3 DEF ReversalAgrees
<1>6. \A h \in Gates \ {g} : Same(h)
  BY <1>1 DEF DenyRefund, TypeInv, TypeOK, Same
<1> QED BY <1>1, <1>4, <1>5, <1>6 DEF Agrees, OnceAt

(* An accepted refund is the one way a release is undone. *)
LEMMA AcceptAgrees ==
  ASSUME TypeInv, NEW g \in Gates, Agrees(g), AcceptRefund(g)
  PROVE  /\ Agrees(g)' /\ OnceAt(g)
         /\ \A h \in Gates \ {g} : Same(h)
<1>1. /\ holdbackRuns' = holdbackRuns /\ gates' = gates
      /\ authorization' = authorization /\ holdback' = holdback
      /\ settlements[g].status = "released" /\ reversal[g].status = "refund_pending"
  BY DEF AcceptRefund, MayResolveRefund, CanRefundReleased
<1>2. settlements'[g] = refundReleasedAgentRunSettlement(settlements[g])
  BY DEF AcceptRefund, TypeInv, TypeOK
<1>3. /\ settlements'[g].status = "refunded" /\ settlements'[g].released = 0
      /\ settlements'[g].refunded = settlements[g].amount /\ settlements'[g].amount = settlements[g].amount
      /\ settlements'[g].payer = settlements[g].payer /\ settlements'[g].payee = settlements[g].payee
      /\ settlements[g].amount \in Nat
  BY <1>2, RecordTypes DEF refundReleasedAgentRunSettlement, Settlement
<1>4. reversal'[g].status = "refunded" /\ reversal'[g].reserve = "consumed"
  BY DEF AcceptRefund, TypeInv, TypeOK
<1>5. authorization[g].status # "voided"
  BY <1>1 DEF Agrees, ReversalAgrees
<1>6. HoldAgrees(g)'
  BY <1>1, <1>3 DEF Agrees, HoldAgrees
<1>7. AuthorizationAgrees(g)'
  BY <1>1, <1>3 DEF Agrees, AuthorizationAgrees
<1>8. ReversalAgrees(g)'
  BY <1>1, <1>3, <1>4, <1>5 DEF ReversalAgrees
<1>9. HoldbackAgrees(g)'
  BY <1>1, <1>3 DEF Agrees, HoldbackAgrees
<1>10. OnceAt(g)
  BY <1>1, <1>3, <1>4 DEF OnceAt
<1>11. \A h \in Gates \ {g} : Same(h)
  BY <1>1 DEF AcceptRefund, TypeInv, TypeOK, Same
<1> QED BY <1>6, <1>7, <1>8, <1>9, <1>10, <1>11 DEF Agrees

(* A holdback that is released resolves the settlement it is held under. *)
LEMMA ReleaseHoldbackAgrees ==
  ASSUME TypeInv, NEW g \in Gates, Agrees(g), ReleaseHoldback(g)
  PROVE  /\ Agrees(g)' /\ OnceAt(g)
         /\ \A h \in Gates \ {g} : Same(h)
<1>1. /\ settlements' = settlements /\ gates' = gates /\ authorization' = authorization
      /\ reversal' = reversal /\ holdback[g].status = "held"
  BY DEF ReleaseHoldback, HoldbackDue
<1>2. holdbackRuns[g].status = "locked"
  BY <1>1 DEF Agrees, HoldbackAgrees
<1>3. /\ holdbackRuns'[g] = resolveAgentRunSettlement(holdbackRuns[g], "released", holdback[g].amount, 0)
      /\ holdback'[g].status = "released"
  BY <1>2 DEF ReleaseHoldback, TypeInv, TypeOK, Holdback
<1>4. /\ holdbackRuns'[g].status = "released"
      /\ holdbackRuns'[g].payer = holdbackRuns[g].payer /\ holdbackRuns'[g].payee = holdbackRuns[g].payee
  BY <1>3, RecordTypes DEF resolveAgentRunSettlement, Settlement
<1>5. HoldAgrees(g)' /\ AuthorizationAgrees(g)' /\ ReversalAgrees(g)'
  BY <1>1 DEF Agrees, HoldAgrees, AuthorizationAgrees, ReversalAgrees
<1>6. HoldbackAgrees(g)'
  BY <1>1, <1>2, <1>3, <1>4 DEF Agrees, HoldbackAgrees
<1>7. \A h \in Gates \ {g} : Same(h)
  BY <1>1 DEF ReleaseHoldback, TypeInv, TypeOK, Same
<1> QED BY <1>1, <1>5, <1>6, <1>7 DEF Agrees, OnceAt


(* The result of a verification: the settlement and the gate are resolved
   together, and what is held back has a settlement of its own. *)
LEMMA VerifyAgrees ==
  ASSUME TypeInv, NEW g \in Gates, Agrees(g), NEW r \in Nat, VerifyGate(g, r)
  PROVE  /\ Agrees(g)' /\ OnceAt(g)
         /\ \A h \in Gates \ {g} : Same(h)
<1> DEFINE s == settlements[g]
           hb == HoldbackOf(r, gates[g].bps)
           now == r - hb
<1>0. VerifyCases(g, settlements[g], gates[g], authorization[g], r)
  BY VerifyGateCases
<1>1. /\ s.status = "locked" /\ authorization[g].status = "reserved"
      /\ reversal' = reversal /\ r <= s.amount /\ s.amount \in Nat /\ s.released = 0
      /\ s \in Settlement(Parties)
  <2>1. s \in Settlement(Parties)
    BY RecordTypes
  <2>2. s.amount \in Nat
    BY <2>1 DEF Settlement
  <2>3. s.status = "locked" /\ authorization[g].status = "reserved" /\ reversal' = reversal /\ r \in 0 .. s.amount
    BY <1>0 DEF VerifyGate, MayVerify, VerifyCases
  <2>4. s.released = 0
    BY <2>3 DEF Agrees, HoldAgrees
  <2> QED BY <2>1, <2>2, <2>3, <2>4
<1>2. /\ holdbackRuns[g].status = "none" /\ holdbackRuns[g].released = 0
      /\ reversal[g].status # "voided" /\ reversal[g].reserve # "held" /\ reversal[g].status # "refunded"
      /\ reversal[g].status # "refund_pending" /\ gates[g].status = "held"
  BY <1>1, RecordTypes DEF Agrees, HoldAgrees, ReversalAgrees, HoldbackAgrees, PartiesKnown
<1>3. hb \in Nat /\ hb <= r /\ now \in Nat /\ now <= r /\ (r = 0 => now = 0 /\ hb = 0)
  <2>1. gates[g].bps \in Bps
    BY RecordTypes DEF Gate
  <2>2. hb \in Nat /\ hb <= r
    BY <2>1, HoldbackPart
  <2> QED BY <2>2
<1>4. /\ settlements'[g] = resolveAgentRunSettlement(s, IF r > 0 THEN "released" ELSE "refunded", now, s.amount - now)
      /\ gates'[g].status = "resolved"
      /\ authorization'[g].status = "settled"
      /\ authorization'[g].reserve = IF r > 0 THEN "settled" ELSE "voided"
  BY <1>0 DEF VerifyCases, TypeInv, TypeOK, Gate
<1> HIDE DEF now, hb
<1>5. /\ settlements'[g].status = IF r > 0 THEN "released" ELSE "refunded"
      /\ settlements'[g].released = now /\ settlements'[g].refunded = s.amount - now
      /\ settlements'[g].amount = s.amount
      /\ settlements'[g].payer = s.payer /\ settlements'[g].payee = s.payee
  BY <1>1, <1>4 DEF resolveAgentRunSettlement, Settlement
<1> HIDE DEF s
<1>6. HoldAgrees(g)'
  BY <1>1, <1>3, <1>4, <1>5 DEF HoldAgrees
<1>7. AuthorizationAgrees(g)'
  BY <1>3, <1>4, <1>5 DEF AuthorizationAgrees
<1>8. ReversalAgrees(g)'
  BY <1>1, <1>2, <1>4, <1>5 DEF ReversalAgrees
<1>9. HoldbackAgrees(g)'
  <2>1. /\ holdback'[g].status = IF hb = 0 THEN "none" ELSE IF gates[g].window THEN "held" ELSE "released"
        /\ holdback'[g].amount = hb
    BY <1>0, <1>2, <1>3 DEF VerifyCases, TypeInv, TypeOK, hb
  <2>2. CASE hb = 0
    <3>1. holdbackRuns'[g] = holdbackRuns[g]
      BY <1>0, <1>2, <2>2 DEF VerifyCases, TypeInv, TypeOK, hb
    <3> QED BY <1>2, <2>1, <2>2, <3>1 DEF HoldbackAgrees
  <2>3. CASE hb > 0
    <3> DEFINE h == createAgentRunSettlement(s.payer, s.payee, hb)
    <3>1. holdbackRuns'[g] = IF gates[g].window THEN h ELSE resolveAgentRunSettlement(h, "released", hb, 0)
      BY <1>0, <1>2, <2>3 DEF VerifyCases, TypeInv, TypeOK, hb, s
    <3>2. /\ holdbackRuns'[g].status = IF gates[g].window THEN "locked" ELSE "released"
          /\ holdbackRuns'[g].payer = s.payer /\ holdbackRuns'[g].payee = s.payee
          /\ holdbackRuns'[g].amount = hb
          /\ gates[g].window => holdbackRuns'[g].released = 0
      BY <3>1 DEF createAgentRunSettlement, resolveAgentRunSettlement
    <3> QED BY <1>4, <1>5, <2>1, <2>3, <3>2 DEF HoldbackAgrees
  <2> QED BY <1>3, <2>2, <2>3
<1>10. OnceAt(g)
  BY <1>1 DEF OnceAt, s
<1>11. \A h \in Gates \ {g} : Same(h)
  BY VerifyElsewhere DEF Same
<1> QED BY <1>6, <1>7, <1>8, <1>9, <1>10, <1>11 DEF Agrees

(* The steps that leave what the agreement is about: credits, quotes, the
   freeze and its unwind, the queueing of voids and their failures, and the
   end of a dispute window. *)
OtherStep ==
  \/ \E a \in Credited, n \in Funds : CreditWallet(a, n)
  \/ \E a \in Freezable :
       \/ SetLifecycle(a)
       \/ \E reason \in Reasons : FreezeAgent(a, reason)
       \/ SweepInsolvent(a)
       \/ UnwindFrozen(a)
  \/ \E g \in Gates : IssueQuote(g) \/ QuoteExpires(g) \/ enqueueZkProofAutoVoid(g) \/ HoldbackWindowEnds(g)
  \/ ProcessSkip \/ ProcessThrows \/ Crash

(* They leave it for every gate. *)
LEMMA OthersKeep ==
  ASSUME TypeInv, OtherStep
  PROVE  \A h \in Gates : Same(h)
<1>1. CASE UNCHANGED <<runVars, gateVars>>
  BY <1>1 DEF Same, runVars, gateVars
<1>2. ASSUME NEW a \in Freezable, UnwindFrozen(a)
      PROVE  \A h \in Gates : Same(h)
  BY <1>2 DEF UnwindFrozen, Same, runVars, TypeInv, TypeOK, Gate
<1>3. ASSUME NEW g \in Gates, IssueQuote(g) \/ QuoteExpires(g)
      PROVE  \A h \in Gates : Same(h)
  <2>1. \E q \in {"live", "expired"} : gates' = [gates EXCEPT ![g].quote = q]
    BY <1>3 DEF IssueQuote, QuoteExpires
  <2>2. gates \in [Gates -> Gate]
    BY DEF TypeInv, TypeOK
  <2>3. \A h \in Gates : gates'[h].status = gates[h].status
    BY <2>1, <2>2 DEF Gate
  <2>4. UNCHANGED <<runVars, authorization, reversal, holdback>>
    BY <1>3 DEF IssueQuote, QuoteExpires
  <2> QED BY <2>3, <2>4 DEF Same, runVars
<1>4. ASSUME NEW g \in Gates, enqueueZkProofAutoVoid(g)
      PROVE  \A h \in Gates : Same(h)
  BY <1>4 DEF enqueueZkProofAutoVoid, Same, runVars
<1>5. ASSUME NEW g \in Gates, HoldbackWindowEnds(g)
      PROVE  \A h \in Gates : Same(h)
  BY <1>5 DEF HoldbackWindowEnds, Same, runVars, TypeInv, TypeOK, Holdback
<1>6. ASSUME ProcessSkip
      PROVE  \A h \in Gates : Same(h)
  BY <1>6 DEF ProcessSkip, Same, runVars
<1>7. ASSUME \/ \E a \in Credited, n \in Funds : CreditWallet(a, n)
             \/ \E a \in Freezable : SetLifecycle(a) \/ (\E reason \in Reasons : FreezeAgent(a, reason)) \/ SweepInsolvent(a)
             \/ ProcessThrows \/ Crash
      PROVE  UNCHANGED <<runVars, gateVars>>
  BY <1>7 DEF CreditWallet, SetLifecycle, FreezeAgent, SweepInsolvent, ProcessThrows, Crash
<1> QED BY <1>1, <1>2, <1>3, <1>4, <1>5, <1>6, <1>7 DEF OtherStep

(* One step keeps the agreement and resolves no settlement twice. *)
LEMMA StepAgrees ==
  ASSUME TypeInv, RecordsAgree, ~RekeyedCreate, Next
  PROVE  RecordsAgree' /\ \A g \in Gates : OnceAt(g)
<1> DEFINE Kept(g) == Agrees(g)' /\ OnceAt(g) /\ \A h \in Gates \ {g} : Same(h)
<1>1. \A g \in Gates : Agrees(g)
  BY DEF RecordsAgree, Agrees
<1>2. SUFFICES \A h \in Gates : Agrees(h)' /\ OnceAt(h)
  BY DEF RecordsAgree, Agrees
<1>3. ASSUME NEW g \in Gates, Kept(g)
      PROVE  \A h \in Gates : Agrees(h)' /\ OnceAt(h)
  BY <1>1, <1>3, SameAgrees
<1>4. CASE OtherStep
  BY <1>1, <1>4, OthersKeep, SameAgrees
<1> HIDE DEF Kept
<1>5. /\ Payers \subseteq Agents /\ Funds \cup {0} \subseteq Nat /\ Amounts \subseteq Nat
      /\ HoldbackBps \subseteq Bps /\ Windows \subseteq BOOLEAN
  BY ConstantTypes
<1>6. ASSUME NEW g \in Gates, NEW payer \in Agents, NEW payee \in Agents, NEW n \in Nat,
             NEW fund \in Nat, NEW bps \in Bps, NEW window \in BOOLEAN,
             CreateGate(g, payer, payee, n, fund, bps, window)
      PROVE  Kept(g)
  BY <1>1, <1>6, CreateAgrees DEF Kept
<1>7. CASE \E g \in Gates, payer \in Payers, payee \in Agents, n \in Amounts, fund \in Funds \cup {0},
                 bps \in HoldbackBps, window \in Windows : CreateGate(g, payer, payee, n, fund, bps, window)
  BY <1>3, <1>5, <1>6, <1>7
<1>8. ASSUME NEW g \in Gates, AuthorizePayment(g) \/ ReserveFails(g)
      PROVE  Kept(g)
  BY <1>1, <1>8, AuthorizeAgrees DEF Kept
<1>9. ASSUME NEW g \in Gates, NEW r \in 0 .. settlements[g].amount, VerifyGate(g, r)
      PROVE  Kept(g)
  BY <1>1, <1>9, VerifyAgrees DEF Kept
<1>10. ASSUME NEW g \in Gates, VoidAuthorization(g)
       PROVE  Kept(g)
  BY <1>1, <1>10, VoidAgrees DEF Kept, VoidAuthorization
<1>11. ASSUME NEW g \in Gates, RequestRefund(g) \/ DenyRefund(g) \/ AcceptRefund(g) \/ ReleaseHoldback(g)
       PROVE  Kept(g)
  BY <1>1, <1>11, RequestAgrees, DenyAgrees, AcceptAgrees, ReleaseHoldbackAgrees DEF Kept
<1>12. ASSUME ProcessVoid
       PROVE  \E g \in Gates : Kept(g)
  <2>1. NextMessage \in Message
    BY <1>12, MessageTaken, TypeInvParts DEF ProcessVoid
  <2>4. PICK g \in Gates : g = NextMessage.gate
    BY <2>1 DEF Message
  <2>5. settlements[g].status = "locked" /\ VoidEffect(g) /\ holdbackRuns' = holdbackRuns /\ holdback' = holdback
    BY <1>12, <2>4 DEF ProcessVoid, MessageVoids
  <2>6. Agrees(g)
    BY <1>1
  <2>7. Kept(g)
    BY <2>5, <2>6, VoidAgrees DEF Kept
  <2> QED BY <2>7
<1>13. CASE ProcessVoid
  BY <1>3, <1>12, <1>13
<1>14. ASSUME NEW g \in Gates,
              \/ AuthorizePayment(g) \/ ReserveFails(g) \/ VoidAuthorization(g)
              \/ \E r \in 0 .. settlements[g].amount : VerifyGate(g, r)
              \/ RequestRefund(g) \/ DenyRefund(g) \/ AcceptRefund(g) \/ ReleaseHoldback(g)
       PROVE  Kept(g)
  BY <1>8, <1>9, <1>10, <1>11, <1>14
<1>15. CASE \E g \in Gates :
              \/ AuthorizePayment(g) \/ ReserveFails(g) \/ VoidAuthorization(g)
              \/ \E r \in 0 .. settlements[g].amount : VerifyGate(g, r)
              \/ RequestRefund(g) \/ DenyRefund(g) \/ AcceptRefund(g) \/ ReleaseHoldback(g)
  BY <1>3, <1>14, <1>15
<1> QED BY <1>4, <1>7, <1>13, <1>15 DEF Next, LocalNext, OtherStep

-----------------------------------------------------------------------------

(* The records of every gate agree while no handler awaits I/O (the adapter
   is in stub or fail mode): whichever of the two the process is started in,
   wherever it stops and whatever is delivered again, as long as no gate id
   is created twice. *)
THEOREM Agreement ==
  ASSUME ~RekeyedCreate
  PROVE  Spec => []RecordsAgree
<1>1. Init => RecordsAgree
  BY DEF Init, RecordsAgree, HoldAgrees, AuthorizationAgrees, ReversalAgrees, HoldbackAgrees,
         NoSettlement, NoGate, NoAuthorization, NoReversal, NoHoldback
<1>2. TypeInv /\ RecordsAgree /\ [Next]_vars => RecordsAgree'
  <2>1. ASSUME RecordsAgree, UNCHANGED vars
        PROVE  RecordsAgree'
    BY <2>1 DEF RecordsAgree, HoldAgrees, AuthorizationAgrees, ReversalAgrees, HoldbackAgrees, vars, runVars, gateVars
  <2> QED BY <2>1, StepAgrees
<1> QED BY <1>1, <1>2, TypeInvariance, PTL DEF Spec

(* A settlement resolves exactly once, but for a refund the payee accepted,
   while no handler awaits I/O (the adapter is in stub or fail mode) and no
   gate id is created twice. *)
THEOREM ResolvesOnce ==
  ASSUME ~RekeyedCreate
  PROVE  Spec => SettlesOnce
<1> DEFINE Once == \A g \in Gates : OnceAt(g)
<1>1. TypeInv /\ RecordsAgree /\ [Next]_vars => [Once]_vars
  BY StepAgrees
<1> QED BY <1>1, TypeInvariance, Agreement, PTL DEF Spec, SettlesOnce, OnceAt

-----------------------------------------------------------------------------
(* Freezes: the unwind. *)

(* A queued void names a gate that is there and the payer of it. *)
Addressed(m) == settlements[m.gate].status # "none" /\ m.agent = settlements[m.gate].payer

MessagesAddressed == \A i \in 1 .. Len(outbox) : Addressed(outbox[i])

(* What FrozenPayerUnwound says of one gate. *)
Unwound(g) == Dispatched(g) /\ ~(authorization[g].status = "pending" /\ gates[g].quote = "live")

UnwindInv == MessagesAddressed /\ FrozenPayerUnwound

(* A step leaves a gate unwound, if it was, or the gate is no hold of an
   agent that is frozen. *)
StaysUnwound(g) ==
  Held(g)' => \/ Active(settlements[g].payer)'
              \/ Held(g) /\ settlements'[g].payer = settlements[g].payer /\ (Unwound(g) => Unwound(g)')

(* A step that freezes no agent, finishes no unwind, and leaves every gate
   unwound that was. *)
LEMMA UnwoundKept ==
  ASSUME FrozenPayerUnwound,
         \A a \in Agents : lifecycle'[a].status = "frozen" /\ a \notin unwinding' =>
                             lifecycle[a].status = "frozen" /\ a \notin unwinding,
         \A g \in Gates : StaysUnwound(g)
  PROVE  FrozenPayerUnwound'
BY DEF FrozenPayerUnwound, PayerGates, StaysUnwound, Held, Unwound, Active

(* The parts of a gate that an unwind is about are as they were. *)
Untouched(g) ==
  /\ settlements'[g] = settlements[g] /\ gates'[g] = gates[g]
  /\ authorization'[g] = authorization[g] /\ dispatch'[g] = dispatch[g]

(* Such a gate stays unwound. *)
LEMMA UntouchedUnwound ==
  ASSUME NEW g \in Gates, Untouched(g)
  PROVE  StaysUnwound(g)
BY DEF Untouched, StaysUnwound, Held, Unwound, Dispatched

(* A step that keeps the parties of the gates that are there and queues
   nothing keeps the messages addressed. *)
LEMMA AddressedKept ==
  ASSUME TypeInv, MessagesAddressed, outbox' = outbox,
         \A g \in Gates : settlements[g].status # "none" =>
           settlements'[g].status # "none" /\ settlements'[g].payer = settlements[g].payer
  PROVE  MessagesAddressed'
<1>1. outbox \in Seq(Message)
  BY DEF TypeInv, TypeOK
<1>2. ASSUME NEW i \in 1 .. Len(outbox)
      PROVE  settlements'[outbox[i].gate].status # "none" /\ outbox[i].agent = settlements'[outbox[i].gate].payer
  <2>1. outbox[i] \in Message
    BY <1>1
  <2>2. outbox[i].gate \in Gates /\ Addressed(outbox[i])
    BY <2>1 DEF Message, MessagesAddressed
  <2> QED BY <2>2 DEF Addressed
<1> QED BY <1>2 DEF MessagesAddressed, Addressed

(* Messages that are queued for gates that are there are addressed. *)
LEMMA AddressedQueued ==
  ASSUME TypeInv, MessagesAddressed, settlements' = settlements,
         NEW ms \in Seq(Message), \A i \in 1 .. Len(ms) : Addressed(ms[i]),
         outbox' = outbox \o ms
  PROVE  MessagesAddressed'
<1>1. outbox \in Seq(Message)
  BY DEF TypeInv, TypeOK
<1>2. ASSUME NEW i \in 1 .. Len(outbox')
      PROVE  \/ \E j \in 1 .. Len(outbox) : outbox'[i] = outbox[j]
             \/ \E j \in 1 .. Len(ms) : outbox'[i] = ms[j]
  <2>1. Len(outbox') = Len(outbox) + Len(ms) /\ Len(outbox) \in Nat /\ Len(ms) \in Nat
    BY <1>1
  <2>2. CASE i <= Len(outbox)
    BY <1>1, <2>1, <2>2
  <2>3. CASE i > Len(outbox)
    <3>1. outbox'[i] = ms[i - Len(outbox)] /\ i - Len(outbox) \in 1 .. Len(ms)
      BY <1>1, <2>1, <2>3
    <3> QED BY <3>1
  <2>4. i <= Len(outbox) \/ i > Len(outbox)
    BY <2>1
  <2> QED BY <2>2, <2>3, <2>4
<1>3. \A i \in 1 .. Len(outbox') : Addressed(outbox'[i])
  BY <1>2 DEF MessagesAddressed
<1> QED BY <1>3 DEF MessagesAddressed, Addressed

(* A step that an unwind survives. *)
UnwindKept == MessagesAddressed' /\ FrozenPayerUnwound'

(* No party of a gate that is there changes. *)
PayersStay ==
  \A g \in Gates : settlements[g].status # "none" =>
    settlements'[g].status # "none" /\ settlements'[g].payer = settlements[g].payer

(* A handler of gate g: nothing of the agents changes, no message is queued
   or taken, and the other gates are left alone. *)
LEMMA HandlerUnwinds ==
  ASSUME TypeInv, UnwindInv, NEW g \in Gates, StaysUnwound(g),
         UNCHANGED <<outbox, unwinding, lifecycle>>,
         settlements[g].status # "none" =>
           settlements'[g].status # "none" /\ settlements'[g].payer = settlements[g].payer,
         \A h \in Gates \ {g} : Untouched(h)
  PROVE  UnwindKept
<1>1. PayersStay
  BY DEF PayersStay, Untouched
<1>2. MessagesAddressed'
  BY <1>1, AddressedKept DEF UnwindInv, PayersStay
<1>3. \A h \in Gates : StaysUnwound(h)
  BY UntouchedUnwound
<1> QED BY <1>2, <1>3, UnwoundKept DEF UnwindInv, UnwindKept

(* A gate is opened by an active payer. *)
LEMMA CreateUnwinds ==
  ASSUME TypeInv, UnwindInv, ~RekeyedCreate, NEW g \in Gates,
         NEW payer \in Agents, NEW payee \in Agents, NEW n \in Nat, NEW fund \in Nat,
         NEW bps \in Bps, NEW window \in BOOLEAN,
         CreateGate(g, payer, payee, n, fund, bps, window)
  PROVE  UnwindKept
<1>1. settlements[g].status = "none" /\ Active(payer)
  BY DEF CreateGate, MayCreate, GateUnlessExists
<1>2. settlements'[g].payer = payer /\ UNCHANGED <<outbox, unwinding, lifecycle>>
  BY DEF CreateGate, createAgentRunSettlement, TypeInv, TypeOK
<1>3. StaysUnwound(g)
  BY <1>1, <1>2 DEF StaysUnwound, Active
<1>4. \A h \in Gates \ {g} : Untouched(h)
  BY DEF CreateGate, TypeInv, TypeOK, Untouched
<1> QED BY <1>1, <1>2, <1>3, <1>4, HandlerUnwinds

(* Quotes, authorizations and verifications are for active payers; a quote
   that expires is not live. *)
LEMMA ActiveUnwinds ==
  ASSUME TypeInv, UnwindInv, NEW g \in Gates,
         \/ IssueQuote(g) \/ QuoteExpires(g) \/ AuthorizePayment(g) \/ ReserveFails(g)
         \/ \E r \in Nat : VerifyGate(g, r)
  PROVE  UnwindKept
<1>1. UNCHANGED <<outbox, unwinding, lifecycle>>
  BY DEF IssueQuote, QuoteExpires, AuthorizePayment, ReserveFails, VerifyGate
<1>2. /\ settlements'[g].payer = settlements[g].payer
      /\ settlements[g].status # "none" => settlements'[g].status # "none"
  <2>1. CASE settlements' = settlements
    BY <2>1
  <2>2. ASSUME NEW r \in Nat, VerifyGate(g, r)
        PROVE  settlements'[g].payer = settlements[g].payer /\ settlements'[g].status # "none"
    <3>1. \E m, k : settlements'[g] = resolveAgentRunSettlement(settlements[g], IF r > 0 THEN "released" ELSE "refunded", m, k)
      BY <2>2, VerifyGateCases DEF VerifyCases, TypeInv, TypeOK
    <3>2. settlements[g] \in Settlement(Parties)
      BY RecordTypes
    <3> QED BY <3>1, <3>2 DEF resolveAgentRunSettlement, Settlement
  <2> QED BY <2>1, <2>2 DEF IssueQuote, QuoteExpires, AuthorizePayment, ReserveFails, runVars
<1>3. ASSUME QuoteExpires(g)
      PROVE  StaysUnwound(g)
  <2>1. /\ UNCHANGED <<settlements, authorization, dispatch>>
        /\ gates'[g] = [gates[g] EXCEPT !.quote = "expired"] /\ gates[g] \in Gate
    BY <1>3 DEF QuoteExpires, TypeInv, TypeOK, runVars
  <2>2. gates'[g].status = gates[g].status /\ gates'[g].quote = "expired"
    BY <2>1 DEF Gate
  <2> QED BY <2>1, <2>2 DEF StaysUnwound, Held, Unwound, Dispatched
<1>4. ASSUME ~QuoteExpires(g)
      PROVE  StaysUnwound(g)
  <2>1. PartiesActive(g)
    BY <1>4 DEF IssueQuote, AuthorizePayment, ReserveFails, VerifyGate, MayAuthorize, MayVerify
  <2> QED BY <1>1, <1>2, <2>1 DEF StaysUnwound, PartiesActive, Active
<1>5. \A h \in Gates \ {g} : Untouched(h)
  <2>1. CASE IssueQuote(g) \/ QuoteExpires(g)
    BY <2>1 DEF IssueQuote, QuoteExpires, TypeInv, TypeOK, Untouched, runVars
  <2>2. CASE AuthorizePayment(g) \/ ReserveFails(g)
    BY <2>2 DEF AuthorizePayment, ReserveFails, TypeInv, TypeOK, Untouched, runVars
  <2>3. ASSUME NEW r \in Nat, VerifyGate(g, r)
        PROVE  \A h \in Gates \ {g} : Untouched(h)
    BY <2>3, VerifyElsewhere DEF Untouched
  <2> QED BY <2>1, <2>2, <2>3
<1>6. StaysUnwound(g)
  BY <1>3, <1>4
<1> QED BY <1>1, <1>2, <1>5, <1>6, HandlerUnwinds

(* A void and an accepted refund leave no hold; the other steps of a refund
   and the release of a holdback leave the gate as it is. *)
LEMMA ResolvingUnwinds ==
  ASSUME TypeInv, UnwindInv, RecordsAgree, NEW g \in Gates,
         \/ VoidAuthorization(g) \/ RequestRefund(g) \/ DenyRefund(g) \/ AcceptRefund(g)
         \/ HoldbackWindowEnds(g) \/ ReleaseHoldback(g)
  PROVE  UnwindKept
<1>1. UNCHANGED <<outbox, unwinding, lifecycle, dispatch>>
  BY DEF VoidAuthorization, RequestRefund, DenyRefund, AcceptRefund, HoldbackWindowEnds, ReleaseHoldback
<1>2. /\ settlements'[g].payer = settlements[g].payer
      /\ settlements[g].status # "none" => settlements'[g].status # "none"
  <2>1. settlements[g] \in Settlement(Parties)
    BY RecordTypes
  <2>2. CASE settlements' = settlements
    BY <2>2
  <2>3. CASE VoidAuthorization(g)
    <3>1. settlements'[g] = resolveAgentRunSettlement(settlements[g], "refunded", 0, settlements[g].amount)
      BY <2>3 DEF VoidAuthorization, VoidEffect, TypeInv, TypeOK
    <3> QED BY <2>1, <3>1 DEF resolveAgentRunSettlement, Settlement
  <2>4. CASE AcceptRefund(g)
    <3>1. settlements'[g] = refundReleasedAgentRunSettlement(settlements[g])
      BY <2>4 DEF AcceptRefund, TypeInv, TypeOK
    <3> QED BY <2>1, <3>1 DEF refundReleasedAgentRunSettlement, Settlement
  <2> QED BY <2>2, <2>3, <2>4 DEF RequestRefund, DenyRefund, HoldbackWindowEnds, ReleaseHoldback, runVars
<1>3. StaysUnwound(g)
  <2>1. CASE VoidAuthorization(g)
    <3>1. gates'[g] = [gates[g] EXCEPT !.status = "resolved"] /\ gates[g] \in Gate
      BY <2>1 DEF VoidAuthorization, VoidEffect, TypeInv, TypeOK
    <3>2. gates'[g].status = "resolved"
      BY <3>1 DEF Gate
    <3> QED BY <3>2 DEF StaysUnwound, Held
  <2>2. CASE gates' = gates /\ authorization' = authorization
    BY <1>1, <1>2, <2>2 DEF StaysUnwound, Held, Unwound, Dispatched
  <2> QED BY <2>1, <2>2 DEF RequestRefund, DenyRefund, AcceptRefund, HoldbackWindowEnds, ReleaseHoldback
<1>4. \A h \in Gates \ {g} : Untouched(h)
  <2>1. CASE VoidAuthorization(g)
    BY <2>1 DEF VoidAuthorization, VoidEffect, TypeInv, TypeOK, Untouched
  <2>2. CASE AcceptRefund(g)
    BY <2>2 DEF AcceptRefund, TypeInv, TypeOK, Untouched
  <2> QED BY <2>1, <2>2 DEF RequestRefund, DenyRefund, HoldbackWindowEnds, ReleaseHoldback, runVars, Untouched
<1> QED BY <1>1, <1>2, <1>3, <1>4, HandlerUnwinds

(* A void that a failed proof queues is for an active payer. *)
LEMMA AutoVoidUnwinds ==
  ASSUME TypeInv, UnwindInv, NEW g \in Gates, enqueueZkProofAutoVoid(g)
  PROVE  UnwindKept
<1>1. /\ UNCHANGED <<settlements, gates, authorization, unwinding, lifecycle>>
      /\ settlements[g].status = "locked" /\ PartiesActive(g)
      /\ outbox' = Append(outbox, WinddownMessage(g, "zk"))
  BY DEF enqueueZkProofAutoVoid, MayVerify, runVars
<1>2. MessagesAddressed'
  <2> DEFINE m == WinddownMessage(g, "zk")
             ms == <<m>>
  <2>1. settlements[g].payer \in Agents
    BY <1>1, KnownSettlement
  <2>2. m \in Message /\ Addressed(m)
    BY <1>1, <2>1 DEF WinddownMessage, Message, DispatchIds, Addressed
  <2>3. outbox \in Seq(Message)
    BY DEF TypeInv, TypeOK
  <2> HIDE DEF m
  <2>4. ms \in Seq(Message) /\ outbox' = outbox \o ms /\ \A i \in 1 .. Len(ms) : ms[i] = m
    BY <1>1, <2>2, <2>3 DEF m
  <2> HIDE DEF ms
  <2>5. \A i \in 1 .. Len(ms) : Addressed(ms[i])
    BY <2>2, <2>4
  <2> QED BY <1>1, <2>4, <2>5, AddressedQueued DEF UnwindInv
<1>3. \A h \in Gates : StaysUnwound(h)
  <2>1. \A h \in Gates \ {g} : Untouched(h)
    BY <1>1 DEF enqueueZkProofAutoVoid, TypeInv, TypeOK, Untouched
  <2>2. StaysUnwound(g)
    BY <1>1 DEF StaysUnwound, PartiesActive, Active
  <2> QED BY <2>1, <2>2, UntouchedUnwound
<1> QED BY <1>1, <1>2, <1>3, UnwoundKept DEF UnwindInv, UnwindKept

(* Credits, lifecycle changes and freezes: an agent that becomes frozen has
   its unwind before it. *)
LEMMA AgentUnwinds ==
  ASSUME TypeInv, UnwindInv, NEW a \in Agents,
         \/ \E n \in Funds : CreditWallet(a, n)
         \/ SetLifecycle(a)
         \/ \E reason \in Reasons : FreezeAgent(a, reason)
         \/ SweepInsolvent(a)
  PROVE  UnwindKept
<1>1. UNCHANGED <<settlements, gates, authorization, dispatch, outbox>>
  BY DEF CreditWallet, SetLifecycle, FreezeAgent, SweepInsolvent, runVars, gateVars
<1>2. MessagesAddressed'
  BY <1>1 DEF UnwindInv, MessagesAddressed, Addressed
<1>3. \A h \in Gates : StaysUnwound(h)
  BY <1>1, UntouchedUnwound DEF Untouched
<1>4. \A b \in Agents : lifecycle'[b].status = "frozen" /\ b \notin unwinding' =>
                          lifecycle[b].status = "frozen" /\ b \notin unwinding
  <2>1. CASE \E n \in Funds : CreditWallet(a, n)
    BY <2>1 DEF CreditWallet
  <2>2. CASE SetLifecycle(a)
    BY <2>2 DEF SetLifecycle, upsertX402AgentLifecycleStatus, TypeInv, TypeOK
  <2>3. ASSUME NEW reason \in Reasons, FreezeAgent(a, reason)
        PROVE  \A b \in Agents : lifecycle'[b].status = "frozen" /\ b \notin unwinding' =>
                          lifecycle[b].status = "frozen" /\ b \notin unwinding
    BY <2>3 DEF FreezeAgent, freezeX402AgentLifecycle, TypeInv, TypeOK
  <2>4. SweepInsolvent(a) => FreezeAgent(a, "funds_exhausted") /\ "funds_exhausted" \in Reasons
    BY GateAssumption DEF SweepInsolvent
  <2> QED BY <2>1, <2>2, <2>3, <2>4
<1> QED BY <1>2, <1>3, <1>4, UnwoundKept DEF UnwindInv, UnwindKept

(* The unwind itself: a hold of the payer that has no void queued gets one,
   since its authorization is pending, reserved or failed, and the quote on
   a pending gate is cancelled. *)
LEMMA UnwindUnwinds ==
  ASSUME TypeInv, UnwindInv, RecordsAgree, NEW a \in Agents, UnwindFrozen(a)
  PROVE  UnwindKept
<1> DEFINE S == ToReverse(a)
           n == Cardinality(S)
<1>1. /\ UNCHANGED <<settlements, authorization, lifecycle>>
      /\ unwinding' = unwinding \ {a}
      /\ dispatch' = [g \in Gates |-> IF g \in S THEN [id |-> "freeze", status |-> "queued"] ELSE dispatch[g]]
      /\ gates' = [g \in Gates |-> [gates[g] EXCEPT !.quote = IF g \in QuoteToCancel(a) THEN "expired" ELSE @]]
  BY DEF UnwindFrozen, runVars
<1>2. \A g \in Gates : /\ gates'[g].status = gates[g].status
                       /\ gates'[g].quote = IF g \in QuoteToCancel(a) THEN "expired" ELSE gates[g].quote
  BY <1>1 DEF TypeInv, TypeOK, Gate
<1>3. PICK order \in [1 .. n -> S] : outbox' = outbox \o [i \in 1 .. n |-> WinddownMessage(order[i], "freeze")]
  BY DEF UnwindFrozen
<1>4. n \in Nat
  <2>1. S \subseteq Gates /\ IsFiniteSet(Gates)
    BY GateAssumption DEF ToReverse, PayerGates
  <2>2. IsFiniteSet(S)
    BY <2>1, FS_Subset
  <2> QED BY <2>2, FS_CardinalityType
<1>5. \A g \in S : WinddownMessage(g, "freeze") \in Message /\ Addressed(WinddownMessage(g, "freeze"))
  <2>1. ASSUME NEW g \in S
        PROVE  g \in Gates /\ settlements[g].status = "locked"
    BY DEF ToReverse, PayerGates
  <2>2. ASSUME NEW g \in S
        PROVE  settlements[g].payer \in Agents
    BY <2>1, <2>2, KnownSettlement
  <2> HIDE DEF S
  <2> QED BY <2>1, <2>2 DEF WinddownMessage, Message, DispatchIds, Addressed
<1>6. MessagesAddressed'
  <2> DEFINE ms == [i \in 1 .. n |-> WinddownMessage(order[i], "freeze")]
  <2> HIDE DEF S, n
  <2>1. ms \in Seq(Message) /\ Len(ms) = n
    BY <1>3, <1>4, <1>5
  <2>2. \A i \in 1 .. Len(ms) : Addressed(ms[i])
    BY <1>3, <1>5, <2>1
  <2>3. outbox' = outbox \o ms
    BY <1>3
  <2> HIDE DEF ms
  <2> QED BY <1>1, <2>1, <2>2, <2>3, AddressedQueued DEF UnwindInv
<1>7. ASSUME NEW b \in Agents, lifecycle[b].status = "frozen", b \notin unwinding \ {a},
             NEW g \in Gates, gates[g].status = "held", settlements[g].payer = b
      PROVE  Unwound(g)'
  <2>1. CASE b = a
    <3>1. /\ settlements[g].status = "locked"
          /\ authorization[g].status \in {"pending", "reserved", "failed"}
          /\ reversal[g].status # "voided"
      BY <1>7 DEF RecordsAgree, HoldAgrees, AuthorizationAgrees, ReversalAgrees
    <3>2. g \in PayerGates(a)
      BY <1>7, <2>1 DEF PayerGates
    <3>3. g \in S \/ Dispatched(g)
      BY <3>1, <3>2 DEF ToReverse, TerminalReversal
    <3>4. dispatch'[g].status \in {"queued", "completed"}
      BY <1>1, <3>3 DEF Dispatched
    <3>5. ~(authorization'[g].status = "pending" /\ gates'[g].quote = "live")
      BY <1>1, <1>2, <3>2 DEF QuoteToCancel
    <3> QED BY <3>4, <3>5 DEF Unwound, Dispatched
  <2>2. CASE b # a
    <3>1. Unwound(g)
      BY <1>7, <2>2 DEF UnwindInv, FrozenPayerUnwound, PayerGates, Unwound
    <3>2. dispatch'[g] = dispatch[g] /\ gates'[g].quote = gates[g].quote
      BY <1>1, <1>2, <1>7, <2>2 DEF ToReverse, QuoteToCancel, PayerGates
    <3> QED BY <1>1, <3>1, <3>2 DEF Unwound, Dispatched
  <2> QED BY <2>1, <2>2
<1>8. FrozenPayerUnwound'
  BY <1>1, <1>2, <1>7 DEF FrozenPayerUnwound, PayerGates, Unwound
<1> QED BY <1>6, <1>8 DEF UnwindKept

(* The worker: the void of a hold resolves it, and a message is skipped only
   when its gate is no hold any more or another dispatch is recorded, since
   a hold is locked, is authorized and has the payer the message names. *)
LEMMA WorkerUnwinds ==
  ASSUME TypeInv, UnwindInv, RecordsAgree,
         ProcessVoid \/ ProcessSkip \/ ProcessThrows
  PROVE  UnwindKept
<1>1. TakeMessage /\ UNCHANGED <<outbox, unwinding, lifecycle>>
  BY DEF ProcessVoid, ProcessSkip, ProcessThrows, TakeMessage
<1>2. PICK m \in Message : m = NextMessage
  BY <1>1, MessageTaken, TypeInvParts
<1>3. \E i \in 1 .. Len(outbox) : m = outbox[i]
  <2>1. outbox \in Seq(Message) /\ cursor \in 0 .. Len(outbox) /\ cursor < Len(outbox)
    BY <1>1 DEF TypeInv, TypeOK, TakeMessage, Waiting
  <2>2. cursor + 1 \in 1 .. Len(outbox)
    BY <2>1
  <2> QED BY <1>2, <2>2 DEF NextMessage
<1>4. PICK g \in Gates : g = m.gate
  BY DEF Message
<1>5. m.agent = settlements[g].payer
  BY <1>3, <1>4 DEF UnwindInv, MessagesAddressed, Addressed
<1>6. PayersStay /\ \A h \in Gates : StaysUnwound(h)
  <2>1. ASSUME ProcessVoid
        PROVE  PayersStay /\ \A h \in Gates : StaysUnwound(h)
    <3>1. VoidEffect(g) /\ dispatch' = [dispatch EXCEPT ![g] = [id |-> m.id, status |-> "completed"]]
      BY <2>1, <1>2, <1>4 DEF ProcessVoid
    <3>2. /\ settlements'[g] = resolveAgentRunSettlement(settlements[g], "refunded", 0, settlements[g].amount)
          /\ gates'[g] = [gates[g] EXCEPT !.status = "resolved"] /\ gates[g] \in Gate
          /\ settlements[g] \in Settlement(Parties)
          /\ \A h \in Gates \ {g} : Untouched(h)
      BY <3>1, RecordTypes DEF VoidEffect, TypeInv, TypeOK, Untouched
    <3>3. gates'[g].status = "resolved"
      BY <3>2 DEF Gate
    <3>4. settlements'[g].payer = settlements[g].payer /\ settlements'[g].status # "none"
      BY <3>2 DEF resolveAgentRunSettlement, Settlement
    <3>5. StaysUnwound(g)
      BY <3>3 DEF StaysUnwound, Held
    <3> QED BY <3>2, <3>4, <3>5, UntouchedUnwound DEF PayersStay, Untouched
  <2>2. ASSUME ProcessSkip
        PROVE  PayersStay /\ \A h \in Gates : StaysUnwound(h)
    <3>1. /\ UNCHANGED <<settlements, gates, authorization>> /\ ~MessageVoids(m)
          /\ dispatch' = IF SameDispatch(m)
                         THEN [dispatch EXCEPT ![g] =
                                 [id |-> m.id, status |-> IF @.status = "completed" THEN "completed" ELSE "skipped"]]
                         ELSE dispatch
      BY <2>2, <1>2, <1>4 DEF ProcessSkip, runVars
    <3>2. \A h \in Gates \ {g} : Untouched(h)
      BY <3>1 DEF Untouched, TypeInv, TypeOK
    <3>3. ASSUME Held(g), SameDispatch(m)
          PROVE  dispatch[g].status = "completed"
      BY <1>4, <1>5, <3>1, <3>3 DEF MessageVoids, Held, RecordsAgree, HoldAgrees, AuthorizationAgrees
    <3>4. ASSUME Held(g)
          PROVE  dispatch'[g].status = dispatch[g].status
      BY <3>1, <3>3, <3>4 DEF TypeInv, TypeOK
    <3>5. StaysUnwound(g)
      BY <3>1, <3>4 DEF StaysUnwound, Held, Unwound, Dispatched
    <3> QED BY <3>1, <3>2, <3>5, UntouchedUnwound DEF PayersStay
  <2>3. ASSUME ProcessThrows
        PROVE  PayersStay /\ \A h \in Gates : StaysUnwound(h)
    <3>1. UNCHANGED <<settlements, gates, authorization, dispatch>>
      BY <2>3 DEF ProcessThrows, runVars, gateVars
    <3> QED BY <3>1, UntouchedUnwound DEF PayersStay, Untouched
  <2> QED BY <2>1, <2>2, <2>3
<1>7. MessagesAddressed'
  BY <1>1, <1>6, AddressedKept DEF UnwindInv, PayersStay
<1> QED BY <1>1, <1>6, <1>7, UnwoundKept DEF UnwindInv, UnwindKept

(* Once the unwind of a freeze is through, every hold of the payer has its
   void queued or done, whatever voids throw or come in between, while no
   handler awaits I/O (the adapter is in stub or fail mode: an authorization
   that is under way cannot write back a gate without its void), the process
   does not stop between the two commits of a freeze and no gate id is
   created twice. *)
THEOREM FreezesUnwind ==
  ASSUME ~RekeyedCreate, ~ServerMayCrash
  PROVE  Spec => []FrozenPayerUnwound
<1>1. Init => UnwindInv
  BY DEF Init, LifecycleInit, UnwindInv, MessagesAddressed, FrozenPayerUnwound, PayerGates, NoGate
<1>2. ASSUME TypeInv, RecordsAgree, UnwindInv, Next
      PROVE  UnwindInv'
  <2> SUFFICES UnwindKept
    BY DEF UnwindKept, UnwindInv
  <2>1. /\ Payers \subseteq Agents /\ Credited \subseteq Agents /\ Freezable \subseteq Agents /\ Funds \cup {0} \subseteq Nat
        /\ Amounts \subseteq Nat /\ HoldbackBps \subseteq Bps /\ Windows \subseteq BOOLEAN
    BY ConstantTypes
  <2>2. ASSUME NEW g \in Gates, NEW payer \in Agents, NEW payee \in Agents, NEW n \in Nat, NEW fund \in Nat,
               NEW bps \in Bps, NEW window \in BOOLEAN, CreateGate(g, payer, payee, n, fund, bps, window)
        PROVE  UnwindKept
    BY <1>2, <2>2, CreateUnwinds
  <2>3. CASE \E g \in Gates, payer \in Payers, payee \in Agents, n \in Amounts, fund \in Funds \cup {0},
                  bps \in HoldbackBps, window \in Windows : CreateGate(g, payer, payee, n, fund, bps, window)
    BY <2>1, <2>2, <2>3
  <2>4. ASSUME NEW a \in Agents,
               \/ \E n \in Funds : CreditWallet(a, n)
               \/ SetLifecycle(a)
               \/ \E reason \in Reasons : FreezeAgent(a, reason)
               \/ SweepInsolvent(a)
        PROVE  UnwindKept
    BY <1>2, <2>4, AgentUnwinds
  <2>5. ASSUME NEW a \in Agents, UnwindFrozen(a)
        PROVE  UnwindKept
    BY <1>2, <2>5, UnwindUnwinds
  <2>6. ASSUME NEW g \in Gates,
               IssueQuote(g) \/ QuoteExpires(g) \/ AuthorizePayment(g) \/ ReserveFails(g)
        PROVE  UnwindKept
    BY <1>2, <2>6, ActiveUnwinds
  <2>7. ASSUME NEW g \in Gates, NEW r \in 0 .. settlements[g].amount, VerifyGate(g, r)
        PROVE  UnwindKept
    <3>1. r \in Nat
      OBVIOUS
    <3> QED BY <1>2, <2>7, <3>1, ActiveUnwinds
  <2>8. ASSUME NEW g \in Gates, enqueueZkProofAutoVoid(g)
        PROVE  UnwindKept
    BY <1>2, <2>8, AutoVoidUnwinds
  <2>9. ASSUME NEW g \in Gates,
               \/ VoidAuthorization(g) \/ RequestRefund(g) \/ DenyRefund(g) \/ AcceptRefund(g)
               \/ HoldbackWindowEnds(g) \/ ReleaseHoldback(g)
        PROVE  UnwindKept
    BY <1>2, <2>9, ResolvingUnwinds
  <2>10. CASE ProcessVoid \/ ProcessSkip \/ ProcessThrows
    BY <1>2, <2>10, WorkerUnwinds
  <2>11. ~Crash
    BY DEF Crash
  <2> HIDE DEF UnwindKept
  <2> QED BY <1>2, <2>1, <2>3, <2>4, <2>5, <2>6, <2>7, <2>8, <2>9, <2>10, <2>11 DEF Next, LocalNext
<1>3. ASSUME UnwindInv, UNCHANGED vars
      PROVE  UnwindInv'
  BY <1>3 DEF UnwindInv, MessagesAddressed, Addressed, FrozenPayerUnwound, PayerGates, Dispatched, vars, runVars, gateVars
<1>4. UnwindInv => FrozenPayerUnwound
  BY DEF UnwindInv
<1> QED BY <1>1, <1>2, <1>3, <1>4, TypeInvariance, Agreement, PTL DEF Spec

-----------------------------------------------------------------------------
(* The money of every agent, gate by gate. *)

(* The step of one gate explains what every agent owns by what the records
   of the gate say is paid. *)
Explains(g) ==
  \A b \in Agents :
    Owned(wallets', b) + PaidBy(b)'[g] + PaidTo(b)[g] + funded[b]
      = Owned(wallets, b) + PaidBy(b)[g] + PaidTo(b)'[g] + funded'[b]

(* The step of one gate moves into and out of escrow what the records of the
   gate claim. *)
Claimed(g) == \A b \in Agents : wallets'[b].escrow + Claims(b)[g] = wallets[b].escrow + Claims(b)'[g]

(* What is owned, paid and claimed are natural numbers. *)
SumsTyped ==
  \A b \in Agents :
    /\ PaidBy(b) \in [Gates -> Nat] /\ PaidTo(b) \in [Gates -> Nat] /\ Claims(b) \in [Gates -> Nat]
    /\ wallets[b].available \in Nat /\ wallets[b].escrow \in Nat /\ funded[b] \in Nat

(* They follow from the types of the records. *)
LEMMA SumTypes == TypeInv => SumsTyped
<1> SUFFICES ASSUME TypeInv, NEW b \in Agents
             PROVE  /\ PaidBy(b) \in [Gates -> Nat] /\ PaidTo(b) \in [Gates -> Nat] /\ Claims(b) \in [Gates -> Nat]
                    /\ wallets[b].available \in Nat /\ wallets[b].escrow \in Nat /\ funded[b] \in Nat
  BY DEF SumsTyped
<1>1. ASSUME NEW g \in Gates
      PROVE  /\ settlements[g].released \in Nat /\ holdbackRuns[g].released \in Nat
             /\ settlements[g].amount \in Nat /\ holdbackRuns[g].amount \in Nat /\ reversal[g].amount \in Nat
  BY RecordTypes DEF Settlement, Reversal
<1>2. \A g \in Gates : PaidOut(g) \in Nat /\ HoldOn(g, b) \in Nat /\ HoldbackOn(g, b) \in Nat /\ RefundOn(g, b) \in Nat
  BY <1>1 DEF PaidOut, HoldOn, HoldbackOn, RefundOn
<1>3. wallets[b].available \in Nat /\ wallets[b].escrow \in Nat /\ funded[b] \in Nat
  BY DEF TypeInv, TypeOK, Wallet
<1> QED BY <1>2, <1>3 DEF PaidBy, PaidTo, Claims

(* And so after a step. *)
LEMMA SumTypesNext == TypeInv' => SumsTyped'
BY SumTypes, PTL

(* There are finitely many gates in a tenant. *)
LEMMA FiniteGates == IsFiniteSet(Gates)
BY GateAssumption

(* A step of one gate that explains itself keeps all balances explained. *)
LEMMA ExplainsAll ==
  ASSUME TypeInv, TypeInv', RecordsExplainBalances, NEW g \in Gates, Explains(g),
         \A h \in Gates \ {g} : settlements'[h] = settlements[h] /\ holdbackRuns'[h] = holdbackRuns[h]
  PROVE  RecordsExplainBalances'
<1> SUFFICES ASSUME NEW b \in Agents
             PROVE  wallets'[b].available + wallets'[b].escrow + SumOver(PaidBy(b)', Gates)
                      = funded'[b] + SumOver(PaidTo(b)', Gates)
  BY DEF RecordsExplainBalances
<1>1. /\ PaidBy(b) \in [Gates -> Nat] /\ PaidTo(b) \in [Gates -> Nat] /\ IsFiniteSet(Gates)
      /\ wallets[b].available \in Nat /\ wallets[b].escrow \in Nat /\ funded[b] \in Nat
  BY SumTypes, FiniteGates DEF SumsTyped
<1>2. /\ PaidBy(b)' \in [Gates -> Nat] /\ PaidTo(b)' \in [Gates -> Nat]
      /\ wallets'[b].available \in Nat /\ wallets'[b].escrow \in Nat /\ funded'[b] \in Nat
  BY SumTypesNext DEF SumsTyped
<1>3. \A h \in Gates \ {g} : PaidBy(b)[h] = PaidBy(b)'[h] /\ PaidTo(b)[h] = PaidTo(b)'[h]
  BY DEF PaidBy, PaidTo, PaidOut
<1>4. PICK f1 \in [Gates -> Nat], f2 \in [Gates -> Nat], h1 \in [Gates -> Nat], h2 \in [Gates -> Nat] :
        f1 = PaidBy(b) /\ f2 = PaidBy(b)' /\ h1 = PaidTo(b) /\ h2 = PaidTo(b)'
  BY <1>1, <1>2
<1>5. /\ SumOver(f2, Gates) + f1[g] = SumOver(f1, Gates) + f2[g]
      /\ SumOver(h2, Gates) + h1[g] = SumOver(h1, Gates) + h2[g]
  BY <1>1, <1>3, <1>4, SumChange
<1>6. /\ SumOver(f1, Gates) \in Nat /\ SumOver(f2, Gates) \in Nat
      /\ SumOver(h1, Gates) \in Nat /\ SumOver(h2, Gates) \in Nat
      /\ f1[g] \in Nat /\ f2[g] \in Nat /\ h1[g] \in Nat /\ h2[g] \in Nat
  BY <1>1, SumType
<1>7. wallets[b].available + wallets[b].escrow + SumOver(f1, Gates) = funded[b] + SumOver(h1, Gates)
  BY <1>4 DEF RecordsExplainBalances
<1>8. (wallets'[b].available + wallets'[b].escrow) + f2[g] + h1[g] + funded[b]
        = (wallets[b].available + wallets[b].escrow) + f1[g] + h2[g] + funded'[b]
  BY <1>4 DEF Explains, Owned
<1>9. wallets'[b].available + wallets'[b].escrow + SumOver(f2, Gates) = funded'[b] + SumOver(h2, Gates)
  BY <1>1, <1>2, <1>5, <1>6, <1>7, <1>8
<1> QED BY <1>4, <1>9

(* A step of one gate that claims what it moves keeps all escrow claimed. *)
LEMMA ClaimedAll ==
  ASSUME TypeInv, TypeInv', EscrowMatchesClaims, NEW g \in Gates, Claimed(g), \A h \in Gates \ {g} : Same(h)
  PROVE  EscrowMatchesClaims'
<1> SUFFICES ASSUME NEW b \in Agents
             PROVE  wallets'[b].escrow = SumOver(Claims(b)', Gates)
  BY DEF EscrowMatchesClaims
<1>1. Claims(b) \in [Gates -> Nat] /\ IsFiniteSet(Gates) /\ wallets[b].escrow \in Nat
  BY SumTypes, FiniteGates DEF SumsTyped
<1>2. Claims(b)' \in [Gates -> Nat] /\ wallets'[b].escrow \in Nat
  BY SumTypesNext DEF SumsTyped
<1>3. \A h \in Gates \ {g} : Claims(b)[h] = Claims(b)'[h]
  BY DEF Claims, HoldOn, HoldbackOn, RefundOn, Same
<1>4. PICK f1 \in [Gates -> Nat], f2 \in [Gates -> Nat] : f1 = Claims(b) /\ f2 = Claims(b)'
  BY <1>1, <1>2
<1>5. SumOver(f2, Gates) + f1[g] = SumOver(f1, Gates) + f2[g]
  BY <1>1, <1>3, <1>4, SumChange
<1>6. SumOver(f1, Gates) \in Nat /\ SumOver(f2, Gates) \in Nat /\ f1[g] \in Nat /\ f2[g] \in Nat
  BY <1>1, SumType
<1>7. wallets[b].escrow = SumOver(f1, Gates)
  BY <1>4 DEF EscrowMatchesClaims
<1>8. wallets'[b].escrow + f1[g] = wallets[b].escrow + f2[g]
  BY <1>4 DEF Claimed
<1>9. wallets'[b].escrow = SumOver(f2, Gates)
  BY <1>1, <1>2, <1>5, <1>6, <1>7, <1>8
<1> QED BY <1>4, <1>9

(* A step that pays d out of a gate, or takes it back where d is negative,
   and records it. *)
LEMMA PaymentExplains ==
  ASSUME TypeInv, NEW g \in Gates, NEW p, NEW q, NEW d \in Int,
         settlements[g].payer = p /\ settlements[g].payee = q,
         settlements'[g].payer = p /\ settlements'[g].payee = q,
         PaidOut(g)' = PaidOut(g) + d, funded' = funded,
         \A b \in Agents : Owned(wallets', b) = Owned(wallets, b) + (When(b = q, d) - When(b = p, d))
  PROVE  Explains(g)
<1> SUFFICES ASSUME NEW b \in Agents
             PROVE  Owned(wallets', b) + PaidBy(b)'[g] + PaidTo(b)[g] + funded[b]
                      = Owned(wallets, b) + PaidBy(b)[g] + PaidTo(b)'[g] + funded'[b]
  BY DEF Explains
<1>1. /\ PaidBy(b)[g] = When(b = p, PaidOut(g)) /\ PaidTo(b)[g] = When(b = q, PaidOut(g))
      /\ PaidBy(b)'[g] = When(b = p, PaidOut(g)') /\ PaidTo(b)'[g] = When(b = q, PaidOut(g)')
  BY DEF PaidBy, PaidTo, When
<1>2. PaidOut(g) \in Nat
  BY RecordTypes DEF PaidOut, Settlement
<1>3. Owned(wallets, b) \in Nat /\ funded[b] \in Nat
  BY SumTypes DEF SumsTyped, Owned
<1>4. PICK x \in Nat, y \in Int : x = PaidOut(g) /\ y = PaidOut(g)' /\ y = x + d
  BY <1>2
<1>5. Owned(wallets', b) = Owned(wallets, b) + (When(b = q, d) - When(b = p, d)) /\ funded'[b] = funded[b]
  OBVIOUS
<1>6. PICK o \in Nat, k \in Nat : o = Owned(wallets, b) /\ k = funded[b]
  BY <1>3
<1>7. /\ PaidBy(b)[g] = When(b = p, x) /\ PaidTo(b)[g] = When(b = q, x)
      /\ PaidBy(b)'[g] = When(b = p, x + d) /\ PaidTo(b)'[g] = When(b = q, x + d)
  BY <1>1, <1>4
<1>8. (o + (When(b = q, d) - When(b = p, d))) + When(b = p, x + d) + When(b = q, x) + k
        = o + When(b = p, x) + When(b = q, x + d) + k
  BY DEF When
<1> QED BY <1>5, <1>6, <1>7, <1>8

(* A step that moves money within wallets only. *)
LEMMA MoveExplains ==
  ASSUME TypeInv, NEW g \in Gates,
         settlements'[g].payer = settlements[g].payer, settlements'[g].payee = settlements[g].payee,
         PaidOut(g)' = PaidOut(g), funded' = funded,
         \A b \in Agents : Owned(wallets', b) = Owned(wallets, b)
  PROVE  Explains(g)
<1>1. \A b \in Agents : Owned(wallets', b) =
        Owned(wallets, b) + (When(b = settlements[g].payee, 0) - When(b = settlements[g].payer, 0))
  BY SumTypes DEF SumsTyped, Owned, When
<1>2. PaidOut(g)' = PaidOut(g) + 0
  BY RecordTypes DEF PaidOut, Settlement
<1> QED BY <1>1, <1>2, PaymentExplains

(* The hold of a gate that is open is in escrow: no reserve failed on it. *)
HoldLocked(g) == settlements[g].status = "locked" => authorization[g].walletEscrow = "locked"

(* What a handler does for the money of its gate. *)
Accounts(g) == Explains(g) /\ (HoldLocked(g) => Claimed(g) /\ HoldLocked(g)')

(* A create takes its credit in and locks the hold. *)
LEMMA CreateAccounts ==
  ASSUME TypeInv, ~RekeyedCreate, NEW g \in Gates, Agrees(g),
         NEW payer \in Agents, NEW payee \in Agents, NEW n \in Nat, NEW fund \in Nat,
         NEW bps \in Bps, NEW window \in BOOLEAN,
         CreateGate(g, payer, payee, n, fund, bps, window)
  PROVE  Accounts(g)
<1> DEFINE auto == AutoFund(payer, fund)
           w1 == ensureAgentWallet(wallets, payer)
           w2 == ensureAgentWallet(w1, payee)
           w3 == creditAgentWallet(w2, payer, auto)
           w4 == lockAgentWalletEscrow(w3, payer, n)
<1>1. auto \in Nat /\ wallets \in [Agents -> Wallet] /\ funded \in [Agents -> Nat]
  BY DEF AutoFund, TypeInv, TypeOK
<1>2. /\ wallets' = w4 /\ funded' = [funded EXCEPT ![payer] = @ + auto]
      /\ settlements'[g] = createAgentRunSettlement(payer, payee, n)
      /\ authorization'[g].walletEscrow = "locked" /\ reversal'[g] = NoReversal /\ holdbackRuns' = holdbackRuns
  BY DEF CreateGate, TypeInv, TypeOK
<1>3. /\ settlements[g].status = "none" /\ settlements[g].released = 0
      /\ holdbackRuns[g].status = "none" /\ holdbackRuns[g].released = 0 /\ reversal[g].reserve # "held"
  <2>1. GateUnlessExists(g)
    BY DEF CreateGate, MayCreate
  <2> QED BY <2>1, RecordTypes DEF GateUnlessExists, Agrees, HoldAgrees, AuthorizationAgrees, ReversalAgrees,
          HoldbackAgrees, PartiesKnown
<1> HIDE DEF auto
<1>4. ASSUME NEW b \in Agents
      PROVE  Moves(wallets, wallets', b, When(b = payer, auto), When(b = payer, n))
  <2>1. w1 \in [Agents -> Wallet] /\ Moves(wallets, w1, b, 0, 0)
    BY <1>1, EnsureTyped, EnsureAt
  <2> HIDE DEF w1
  <2>2. w2 \in [Agents -> Wallet] /\ Moves(w1, w2, b, 0, 0)
    BY <2>1, EnsureTyped, EnsureAt
  <2> HIDE DEF w2
  <2>3. w3 \in [Agents -> Wallet] /\ Moves(w2, w3, b, When(b = payer, auto), 0)
    BY <1>1, <2>2, CreditTyped, CreditAt
  <2> HIDE DEF w3
  <2>4. Moves(w3, w4, b, 0, When(b = payer, n))
    BY <2>3, LockAt
  <2> HIDE DEF w4
  <2>5. /\ wallets[b].escrow \in Nat /\ w1[b].escrow \in Nat /\ w2[b].escrow \in Nat /\ w3[b].escrow \in Nat
        /\ Owned(wallets, b) \in Nat /\ Owned(w1, b) \in Nat /\ Owned(w2, b) \in Nat /\ Owned(w3, b) \in Nat
        /\ When(b = payer, auto) \in Nat /\ When(b = payer, n) \in Nat
    BY <1>1, <2>1, <2>2, <2>3 DEF Wallet, Owned, When
  <2>6. Moves(wallets, w4, b, When(b = payer, auto), When(b = payer, n))
    BY <2>1, <2>2, <2>3, <2>4, <2>5 DEF Moves
  <2> QED BY <1>2, <2>6
<1>5. /\ settlements'[g].status = "locked" /\ settlements'[g].payer = payer /\ settlements'[g].released = 0
      /\ settlements'[g].amount = n /\ reversal'[g].reserve = "none"
  BY <1>2 DEF createAgentRunSettlement, NoReversal
<1>6. Explains(g)
  <2> SUFFICES ASSUME NEW b \in Agents
               PROVE  Owned(wallets', b) + PaidBy(b)'[g] + PaidTo(b)[g] + funded[b]
                        = Owned(wallets, b) + PaidBy(b)[g] + PaidTo(b)'[g] + funded'[b]
    BY DEF Explains
  <2>1. PaidBy(b)[g] = 0 /\ PaidTo(b)[g] = 0 /\ PaidBy(b)'[g] = 0 /\ PaidTo(b)'[g] = 0
    BY <1>2, <1>3, <1>5 DEF PaidBy, PaidTo, PaidOut
  <2>2. funded'[b] = funded[b] + When(b = payer, auto) /\ funded[b] \in Nat
    BY <1>1, <1>2 DEF When
  <2>3. Owned(wallets, b) \in Nat /\ When(b = payer, auto) \in Nat
    BY <1>1 DEF Wallet, Owned, When
  <2>4. Owned(wallets', b) = Owned(wallets, b) + When(b = payer, auto)
    BY <1>4 DEF Moves
  <2> QED BY <2>1, <2>2, <2>3, <2>4
<1>7. Claimed(g)
  <2> SUFFICES ASSUME NEW b \in Agents
               PROVE  wallets'[b].escrow + Claims(b)[g] = wallets[b].escrow + Claims(b)'[g]
    BY DEF Claimed
  <2>1. Claims(b)[g] = 0 /\ Claims(b)'[g] = When(b = payer, n)
    <3>1. HoldOn(g, b) = 0 /\ HoldbackOn(g, b) = 0 /\ RefundOn(g, b) = 0
      BY <1>3 DEF HoldOn, HoldbackOn, RefundOn
    <3>2. HoldOn(g, b)' = When(b = payer, n) /\ HoldbackOn(g, b)' = 0 /\ RefundOn(g, b)' = 0
      BY <1>2, <1>3, <1>5 DEF HoldOn, HoldbackOn, RefundOn, When
    <3>3. When(b = payer, n) \in Nat
      BY DEF When
    <3> QED BY <3>1, <3>2, <3>3 DEF Claims
  <2>2. wallets[b].escrow \in Nat /\ When(b = payer, n) \in Nat
    BY <1>1 DEF Wallet, When
  <2>3. wallets'[b].escrow = wallets[b].escrow + When(b = payer, n)
    BY <1>4 DEF Moves
  <2> QED BY <2>1, <2>2, <2>3
<1> QED BY <1>2, <1>6, <1>7 DEF Accounts, HoldLocked

(* Putting a hold back into escrow moves money within the payer's wallet. *)
LEMMA RelockAt ==
  ASSUME TypeInv, NEW g \in Gates, MayAuthorize(g), CanRelock(g), NEW b \in Agents
  PROVE  Owned(Relocked(g), b) = Owned(wallets, b)
<1>1. settlements[g].payer \in Agents /\ settlements[g].amount \in Nat /\ wallets \in [Agents -> Wallet]
  BY KnownSettlement DEF MayAuthorize
<1>2. Owned(wallets, b) \in Nat
  BY <1>1 DEF Wallet, Owned
<1>3. Moves(wallets, lockAgentWalletEscrow(wallets, settlements[g].payer, settlements[g].amount), b, 0,
            When(b = settlements[g].payer, settlements[g].amount))
  BY <1>1, LockAt
<1> QED BY <1>2, <1>3 DEF Relocked, Moves

(* An authorization moves money within the payer's wallet, and none at all
   when the hold is in escrow already. *)
LEMMA AuthorizeAccounts ==
  ASSUME TypeInv, NEW g \in Gates, Agrees(g), AuthorizePayment(g)
  PROVE  Accounts(g)
<1>1. /\ settlements' = settlements /\ holdbackRuns' = holdbackRuns /\ reversal' = reversal /\ funded' = funded
      /\ MayAuthorize(g) /\ CanRelock(g) /\ wallets' = Relocked(g) /\ settlements[g].status = "locked"
      /\ authorization'[g].walletEscrow = "locked"
  BY DEF AuthorizePayment, MayAuthorize, runVars, TypeInv, TypeOK
<1>2. Explains(g)
  BY <1>1, RelockAt, MoveExplains DEF PaidOut
<1>3. ASSUME HoldLocked(g)
      PROVE  Claimed(g) /\ HoldLocked(g)'
  <2>1. wallets' = wallets /\ authorization[g].walletEscrow = "locked"
    BY <1>1, <1>3 DEF HoldLocked, Relocked
  <2>2. \A b \in Agents : Claims(b)'[g] = Claims(b)[g]
    BY <1>1, <2>1 DEF Claims, HoldOn, HoldbackOn, RefundOn
  <2> QED BY <1>1, <2>1, <2>2 DEF Claimed, HoldLocked
<1> QED BY <1>2, <1>3 DEF Accounts

(* So does one whose reserve fails. *)
LEMMA FailureExplains ==
  ASSUME TypeInv, NEW g \in Gates, ReserveFails(g)
  PROVE  Explains(g)
<1>1. /\ settlements' = settlements /\ holdbackRuns' = holdbackRuns /\ funded' = funded
      /\ MayAuthorize(g) /\ CanRelock(g)
      /\ \/ wallets' = Relocked(g)
         \/ wallets' = refundAgentWalletEscrow(Relocked(g), settlements[g].payer, settlements[g].amount)
  BY DEF ReserveFails, runVars
<1>2. Relocked(g) \in [Agents -> Wallet] /\ settlements[g].payer \in Agents /\ settlements[g].amount \in Nat
  BY <1>1, RelockMoves, KnownSettlement DEF MayAuthorize
<1>3. ASSUME NEW b \in Agents
      PROVE  Owned(wallets', b) = Owned(wallets, b)
  <2>1. Owned(Relocked(g), b) = Owned(wallets, b) /\ Owned(Relocked(g), b) \in Nat
    BY <1>1, <1>2, RelockAt DEF Owned, Wallet
  <2>2. Owned(refundAgentWalletEscrow(Relocked(g), settlements[g].payer, settlements[g].amount), b) = Owned(Relocked(g), b) + 0
    BY <1>2, RefundAt DEF Moves
  <2> QED BY <1>1, <2>1, <2>2
<1> QED BY <1>1, <1>3, MoveExplains DEF PaidOut

(* A void takes the hold out of escrow. *)
LEMMA VoidAccounts ==
  ASSUME TypeInv, NEW g \in Gates, Agrees(g), settlements[g].status = "locked", VoidEffect(g),
         holdbackRuns' = holdbackRuns, funded' = funded
  PROVE  Accounts(g)
<1> DEFINE p == settlements[g].payer
           n == settlements[g].amount
<1>1. p \in Agents /\ n \in Nat /\ wallets \in [Agents -> Wallet] /\ settlements[g] \in Settlement(Parties)
  BY KnownSettlement, RecordTypes
<1>2. /\ wallets' = refundAgentWalletEscrow(wallets, p, n)
      /\ settlements'[g] = resolveAgentRunSettlement(settlements[g], "refunded", 0, n)
      /\ reversal'[g] = [reversal[g] EXCEPT !.status = "voided"] /\ reversal[g] \in Reversal
  BY RecordTypes DEF VoidEffect, TypeInv, TypeOK
<1>3. /\ settlements'[g].status = "refunded" /\ settlements'[g].released = 0
      /\ settlements'[g].payer = p /\ settlements'[g].payee = settlements[g].payee
      /\ reversal'[g].reserve = reversal[g].reserve /\ reversal'[g].amount = reversal[g].amount
  BY <1>1, <1>2 DEF resolveAgentRunSettlement, Settlement, Reversal
<1>4. settlements[g].released = 0 /\ reversal[g].reserve # "held" /\ holdbackRuns[g].status = "none"
  BY DEF Agrees, HoldAgrees, AuthorizationAgrees, ReversalAgrees, HoldbackAgrees
<1>5. \A b \in Agents : Moves(wallets, wallets', b, 0, -When(b = p, n))
  BY <1>1, <1>2, RefundAt
<1>6. \A b \in Agents : wallets[b].escrow \in Nat /\ Owned(wallets, b) \in Nat /\ When(b = p, n) \in Nat
  BY <1>1 DEF Wallet, Owned, When
<1> HIDE DEF p, n
<1>7. Explains(g)
  <2>1. \A b \in Agents : Owned(wallets', b) = Owned(wallets, b)
    BY <1>5, <1>6 DEF Moves
  <2>2. PaidOut(g)' = PaidOut(g)
    BY <1>3, <1>4 DEF PaidOut
  <2> QED BY <1>3, <2>1, <2>2, MoveExplains DEF p
<1>8. ASSUME HoldLocked(g)
      PROVE  Claimed(g) /\ HoldLocked(g)'
  <2> SUFFICES ASSUME NEW b \in Agents
               PROVE  wallets'[b].escrow + Claims(b)[g] = wallets[b].escrow + Claims(b)'[g]
    BY <1>3 DEF Claimed, HoldLocked
  <2>1. HoldOn(g, b) = When(b = p, n) /\ HoldbackOn(g, b) = 0 /\ RefundOn(g, b) = 0
    BY <1>4, <1>8 DEF HoldOn, HoldbackOn, RefundOn, HoldLocked, When, p, n
  <2>2. HoldOn(g, b)' = 0 /\ HoldbackOn(g, b)' = 0 /\ RefundOn(g, b)' = 0
    BY <1>3, <1>4 DEF HoldOn, HoldbackOn, RefundOn
  <2>3. Claims(b)[g] = When(b = p, n) /\ Claims(b)'[g] = 0
    BY <1>6, <2>1, <2>2 DEF Claims
  <2>4. wallets'[b].escrow = wallets[b].escrow + (-When(b = p, n))
    BY <1>5 DEF Moves
  <2> QED BY <1>6, <2>3, <2>4
<1> QED BY <1>7, <1>8 DEF Accounts

(* The step of one gate leaves nothing in escrow that its records do not
   claim. *)
Covered(g) == \A b \in Agents : wallets'[b].escrow + Claims(b)[g] <= wallets[b].escrow + Claims(b)'[g]

(* A step that accounts for a hold that is in escrow strands nothing. *)
LEMMA AccountsCovered ==
  ASSUME TypeInv, TypeInv', NEW g \in Gates, Accounts(g), HoldLocked(g)
  PROVE  Covered(g)
<1> SUFFICES ASSUME NEW b \in Agents
             PROVE  wallets'[b].escrow + Claims(b)[g] <= wallets[b].escrow + Claims(b)'[g]
  BY DEF Covered
<1>1. Claims(b)[g] \in Nat /\ wallets[b].escrow \in Nat
  BY SumTypes DEF SumsTyped
<1>2. Claims(b)'[g] \in Nat /\ wallets'[b].escrow \in Nat
  BY SumTypesNext DEF SumsTyped
<1>3. wallets'[b].escrow + Claims(b)[g] = wallets[b].escrow + Claims(b)'[g]
  BY DEF Accounts, Claimed
<1> QED BY <1>1, <1>2, <1>3

(* An authorization puts a hold into escrow together with the claim on it, or
   takes both out again; where the roll-back is not covered, both stay. *)
LEMMA AuthorizeCovered ==
  ASSUME TypeInv, NEW g \in Gates, AuthorizePayment(g) \/ ReserveFails(g)
  PROVE  Covered(g)
<1> DEFINE p == settlements[g].payer
           n == settlements[g].amount
           other(b) == HoldbackOn(g, b) + RefundOn(g, b)
<1>1. /\ settlements' = settlements /\ holdbackRuns' = holdbackRuns /\ reversal' = reversal
      /\ MayAuthorize(g) /\ CanRelock(g) /\ settlements[g].status = "locked"
  BY DEF AuthorizePayment, ReserveFails, MayAuthorize, runVars
<1>2. p \in Agents /\ n \in Nat /\ wallets \in [Agents -> Wallet] /\ Relocked(g) \in [Agents -> Wallet]
  BY <1>1, KnownSettlement, RelockMoves
<1> SUFFICES ASSUME NEW b \in Agents
             PROVE  wallets'[b].escrow + Claims(b)[g] <= wallets[b].escrow + Claims(b)'[g]
  BY DEF Covered
<1>3. When(b = p, n) \in Nat /\ wallets[b].escrow \in Nat /\ Relocked(g)[b].escrow \in Nat
  BY <1>2 DEF When, Wallet
<1>4. HoldbackOn(g, b) \in Nat /\ RefundOn(g, b) \in Nat
  BY RecordTypes DEF HoldbackOn, RefundOn, Settlement, Reversal
<1>5. HoldbackOn(g, b)' = HoldbackOn(g, b) /\ RefundOn(g, b)' = RefundOn(g, b)
  BY <1>1 DEF HoldbackOn, RefundOn
<1>6. /\ HoldOn(g, b) = IF authorization[g].walletEscrow = "locked" THEN When(b = p, n) ELSE 0
      /\ HoldOn(g, b)' = IF authorization'[g].walletEscrow = "locked" THEN When(b = p, n) ELSE 0
  BY <1>1 DEF HoldOn, When
<1>7. Claims(b)[g] = HoldOn(g, b) + other(b) /\ Claims(b)'[g] = HoldOn(g, b)' + other(b)
  BY <1>3, <1>4, <1>5, <1>6 DEF Claims
<1>8. Relocked(g)[b].escrow = wallets[b].escrow + (When(b = p, n) - HoldOn(g, b))
  <2>1. CASE authorization[g].walletEscrow = "locked"
    BY <1>3, <1>6, <2>1 DEF Relocked
  <2>2. CASE authorization[g].walletEscrow # "locked"
    <3>1. Moves(wallets, lockAgentWalletEscrow(wallets, p, n), b, 0, When(b = p, n))
      BY <1>2, LockAt
    <3> QED BY <1>3, <1>6, <2>2, <3>1 DEF Relocked, Moves
  <2> QED BY <2>1, <2>2
<1>9. CASE wallets' = Relocked(g) /\ authorization'[g].walletEscrow = "locked"
  <2> HIDE DEF p, n
  <2> QED BY <1>3, <1>4, <1>6, <1>7, <1>8, <1>9
<1>10. CASE wallets' = refundAgentWalletEscrow(Relocked(g), p, n) /\ authorization'[g].walletEscrow = "unlocked"
  <2>1. Moves(Relocked(g), wallets', b, 0, -When(b = p, n))
    BY <1>2, <1>10, RefundAt
  <2>2. wallets'[b].escrow = Relocked(g)[b].escrow + (-When(b = p, n))
    BY <2>1 DEF Moves
  <2> HIDE DEF p, n
  <2> QED BY <1>3, <1>4, <1>6, <1>7, <1>8, <1>10, <2>2
<1> QED BY <1>9, <1>10 DEF AuthorizePayment, ReserveFails, TypeInv, TypeOK

(* A void takes out of escrow at least what it leaves unclaimed. *)
LEMMA VoidCovered ==
  ASSUME TypeInv, TypeInv', NEW g \in Gates, Agrees(g), settlements[g].status = "locked", VoidEffect(g),
         holdbackRuns' = holdbackRuns, funded' = funded
  PROVE  Covered(g)
<1>1. CASE HoldLocked(g)
  BY <1>1, VoidAccounts, AccountsCovered
<1>2. CASE ~HoldLocked(g)
  <2> DEFINE p == settlements[g].payer
             n == settlements[g].amount
  <2> SUFFICES ASSUME NEW b \in Agents
               PROVE  wallets'[b].escrow + Claims(b)[g] <= wallets[b].escrow + Claims(b)'[g]
    BY DEF Covered
  <2>1. p \in Agents /\ n \in Nat /\ wallets \in [Agents -> Wallet] /\ wallets' = refundAgentWalletEscrow(wallets, p, n)
    BY KnownSettlement DEF VoidEffect
  <2>2. Moves(wallets, wallets', b, 0, -When(b = p, n)) /\ When(b = p, n) \in Nat /\ wallets[b].escrow \in Nat
    BY <2>1, RefundAt DEF When, Wallet
  <2>3. wallets'[b].escrow <= wallets[b].escrow
    BY <2>2 DEF Moves
  <2>4. reversal[g].reserve # "held" /\ holdbackRuns[g].status = "none"
    BY DEF Agrees, HoldAgrees, AuthorizationAgrees, ReversalAgrees, HoldbackAgrees
  <2>5. Claims(b)[g] = 0
    BY <1>2, <2>4 DEF Claims, HoldOn, HoldbackOn, RefundOn, HoldLocked
  <2>6. Claims(b)'[g] \in Nat /\ wallets'[b].escrow \in Nat
    BY SumTypesNext DEF SumsTyped
  <2> QED BY <2>2, <2>3, <2>5, <2>6
<1> QED BY <1>1, <1>2

(* A refund that is asked for puts the release into the payee's escrow. *)
LEMMA RequestAccounts ==
  ASSUME TypeInv, NEW g \in Gates, Agrees(g), RequestRefund(g)
  PROVE  Accounts(g)
<1> DEFINE q == settlements[g].payee
           n == settlements[g].released
<1>1. /\ settlements' = settlements /\ holdbackRuns' = holdbackRuns /\ authorization' = authorization /\ funded' = funded
      /\ settlements[g].status = "released" /\ reversal[g].status # "refund_pending"
      /\ wallets' = lockAgentWalletEscrow(wallets, q, n)
      /\ reversal'[g].reserve = "held" /\ reversal'[g].amount = n
  BY DEF RequestRefund, runVars, TypeInv, TypeOK
<1>2. q \in Agents /\ n \in Nat /\ wallets \in [Agents -> Wallet] /\ reversal[g].reserve # "held"
  BY <1>1, KnownSettlement DEF Agrees, ReversalAgrees
<1>3. \A b \in Agents : Moves(wallets, wallets', b, 0, When(b = q, n))
  BY <1>1, <1>2, LockAt
<1>4. \A b \in Agents : wallets[b].escrow \in Nat /\ Owned(wallets, b) \in Nat /\ When(b = q, n) \in Nat
                        /\ HoldbackOn(g, b) \in Nat
  BY <1>2, RecordTypes DEF Wallet, Owned, When, HoldbackOn, Settlement
<1> HIDE DEF q, n
<1>5. Explains(g)
  <2>1. \A b \in Agents : Owned(wallets', b) = Owned(wallets, b)
    BY <1>3, <1>4 DEF Moves
  <2> QED BY <1>1, <2>1, MoveExplains DEF PaidOut
<1>6. Claimed(g)
  <2> SUFFICES ASSUME NEW b \in Agents
               PROVE  wallets'[b].escrow + Claims(b)[g] = wallets[b].escrow + Claims(b)'[g]
    BY DEF Claimed
  <2>1. HoldOn(g, b) = 0 /\ RefundOn(g, b) = 0
    BY <1>1, <1>2 DEF HoldOn, RefundOn
  <2>2. HoldOn(g, b)' = 0 /\ HoldbackOn(g, b)' = HoldbackOn(g, b) /\ RefundOn(g, b)' = When(b = q, n)
    BY <1>1 DEF HoldOn, HoldbackOn, RefundOn, When, q
  <2>3. Claims(b)[g] = HoldbackOn(g, b) /\ Claims(b)'[g] = HoldbackOn(g, b) + When(b = q, n)
    BY <1>4, <2>1, <2>2 DEF Claims
  <2>4. wallets'[b].escrow = wallets[b].escrow + When(b = q, n)
    BY <1>3 DEF Moves
  <2> QED BY <1>4, <2>3, <2>4
<1> QED BY <1>1, <1>5, <1>6 DEF Accounts, HoldLocked

(* The answer to a refund takes it out again: back to the payee or over to
   the payer. *)
LEMMA AnswerAccounts ==
  ASSUME TypeInv, NEW g \in Gates, Agrees(g), DenyRefund(g) \/ AcceptRefund(g)
  PROVE  Accounts(g)
<1> DEFINE p == settlements[g].payer
           q == settlements[g].payee
           n == settlements[g].released
<1>1. /\ holdbackRuns' = holdbackRuns /\ authorization' = authorization /\ funded' = funded
      /\ reversal[g].reserve = "held" /\ reversal[g].amount = n
      /\ reversal'[g].reserve # "held"
  BY DEF DenyRefund, AcceptRefund, MayResolveRefund, runVars, TypeInv, TypeOK
<1>2. settlements[g].status = "released"
  BY <1>1 DEF Agrees, ReversalAgrees
<1>3. p \in Agents /\ q \in Agents /\ p # q /\ n \in Nat /\ wallets \in [Agents -> Wallet]
  BY <1>2, KnownSettlement
<1>4. /\ settlements'[g].status # "locked" /\ settlements'[g].payer = p /\ settlements'[g].payee = q
      /\ settlements'[g].released = IF DenyRefund(g) THEN n ELSE 0
  <2>1. CASE DenyRefund(g)
    BY <1>2, <2>1 DEF DenyRefund, runVars
  <2>2. CASE AcceptRefund(g) /\ ~DenyRefund(g)
    <3>1. settlements'[g] = refundReleasedAgentRunSettlement(settlements[g]) /\ settlements[g] \in Settlement(Parties)
      BY <2>2, RecordTypes DEF AcceptRefund, TypeInv, TypeOK
    <3> QED BY <2>2, <3>1 DEF refundReleasedAgentRunSettlement, Settlement
  <2> QED BY <2>1, <2>2
<1>5. PICK d \in Nat : d = IF DenyRefund(g) THEN 0 ELSE n
  BY <1>3
<1>6. \A b \in Agents : Moves(wallets, wallets', b, When(b = p, d) - When(b = q, d), -When(b = q, n))
  <2>1. CASE DenyRefund(g)
    <3>1. wallets' = refundAgentWalletEscrow(wallets, q, n)
      BY <1>1, <2>1 DEF DenyRefund
    <3>2. \A b \in Agents : Moves(wallets, wallets', b, 0, -When(b = q, n))
      BY <1>3, <3>1, RefundAt
    <3>3. \A b \in Agents : When(b = p, d) - When(b = q, d) = 0
      BY <1>5, <2>1 DEF When
    <3> QED BY <3>2, <3>3
  <2>2. CASE AcceptRefund(g) /\ ~DenyRefund(g)
    <3>1. wallets' = releaseAgentWalletEscrowToPayee(wallets, q, p, n) /\ d = n
      BY <1>1, <1>5, <2>2 DEF AcceptRefund
    <3> QED BY <1>3, <3>1, ReleaseAt
  <2> QED BY <2>1, <2>2
<1>7. \A b \in Agents : wallets[b].escrow \in Nat /\ Owned(wallets, b) \in Nat /\ When(b = q, n) \in Nat
                        /\ HoldbackOn(g, b) \in Nat
  BY <1>3, RecordTypes DEF Wallet, Owned, When, HoldbackOn, Settlement
<1>8. Explains(g)
  <2>1. holdbackRuns[g].released \in Nat
    BY RecordTypes DEF Settlement
  <2>2. PaidOut(g)' = PaidOut(g) + (-d)
    BY <1>1, <1>3, <1>4, <1>5, <2>1 DEF PaidOut
  <2>3. \A b \in Agents : Owned(wallets', b) = Owned(wallets, b) + (When(b = q, -d) - When(b = p, -d))
    BY <1>3, <1>6, <1>7 DEF Moves, When
  <2> HIDE DEF p, q, n
  <2>4. settlements[g].payer = p /\ settlements[g].payee = q
    BY DEF p, q
  <2>5. -d \in Int
    OBVIOUS
  <2> QED BY <1>1, <1>4, <2>2, <2>3, <2>4, <2>5, PaymentExplains
<1>9. Claimed(g)
  <2> SUFFICES ASSUME NEW b \in Agents
               PROVE  wallets'[b].escrow + Claims(b)[g] = wallets[b].escrow + Claims(b)'[g]
    BY DEF Claimed
  <2>1. HoldOn(g, b) = 0 /\ RefundOn(g, b) = When(b = q, n)
    BY <1>1, <1>2 DEF HoldOn, RefundOn, When
  <2>2. HoldOn(g, b)' = 0 /\ HoldbackOn(g, b)' = HoldbackOn(g, b) /\ RefundOn(g, b)' = 0
    BY <1>1, <1>4 DEF HoldOn, HoldbackOn, RefundOn
  <2> HIDE DEF q, n
  <2>3. Claims(b)[g] = HoldbackOn(g, b) + When(b = q, n) /\ Claims(b)'[g] = HoldbackOn(g, b)
    BY <1>7, <2>1, <2>2 DEF Claims
  <2>4. wallets'[b].escrow = wallets[b].escrow + (-When(b = q, n))
    BY <1>6 DEF Moves
  <2> QED BY <1>7, <2>3, <2>4
<1> QED BY <1>4, <1>8, <1>9 DEF Accounts, HoldLocked

(* The release of a holdback pays it to the payee. *)
LEMMA ReleaseHoldbackAccounts ==
  ASSUME TypeInv, NEW g \in Gates, Agrees(g), ReleaseHoldback(g)
  PROVE  Accounts(g)
<1> DEFINE p == settlements[g].payer
           q == settlements[g].payee
           n == holdback[g].amount
           h == holdbackRuns[g]
<1>1. /\ settlements' = settlements /\ authorization' = authorization /\ reversal' = reversal /\ funded' = funded
      /\ holdback[g].status = "held" /\ h \in Settlement(Parties) /\ PartiesKnown(h)
  BY RecordTypes DEF ReleaseHoldback, HoldbackDue
<1>2. h.status = "locked" /\ h.amount = n /\ h.payer = p /\ h.payee = q /\ h.released = 0
  BY <1>1 DEF Agrees, HoldbackAgrees
<1>3. /\ wallets' = releaseAgentWalletEscrowToPayee(wallets, p, q, n)
      /\ holdbackRuns'[g] = resolveAgentRunSettlement(h, "released", n, 0)
  BY <1>2 DEF ReleaseHoldback, TypeInv, TypeOK
<1>4. p \in Agents /\ q \in Agents /\ p # q /\ n \in Nat /\ wallets \in [Agents -> Wallet]
  BY <1>1, <1>2, RecordTypes DEF PartiesKnown, Holdback, TypeInv, TypeOK
<1>5. holdbackRuns'[g].status = "released" /\ holdbackRuns'[g].released = n
  BY <1>1, <1>3 DEF resolveAgentRunSettlement, Settlement
<1>6. \A b \in Agents : Moves(wallets, wallets', b, When(b = q, n) - When(b = p, n), -When(b = p, n))
  BY <1>3, <1>4, ReleaseAt
<1>7. /\ \A b \in Agents : /\ wallets[b].escrow \in Nat /\ Owned(wallets, b) \in Nat /\ When(b = p, n) \in Nat
                           /\ HoldOn(g, b) \in Nat /\ RefundOn(g, b) \in Nat
      /\ settlements[g].released \in Nat
  BY <1>4, RecordTypes DEF Wallet, Owned, When, HoldOn, RefundOn, Settlement, Reversal
<1>8. Explains(g)
  <2>1. PaidOut(g)' = PaidOut(g) + n
    BY <1>1, <1>2, <1>4, <1>5, <1>7 DEF PaidOut
  <2>2. \A b \in Agents : Owned(wallets', b) = Owned(wallets, b) + (When(b = q, n) - When(b = p, n))
    BY <1>6 DEF Moves
  <2>3. n \in Int
    BY <1>4
  <2> HIDE DEF n
  <2> QED BY <1>1, <2>1, <2>2, <2>3, PaymentExplains
<1>9. Claimed(g)
  <2> SUFFICES ASSUME NEW b \in Agents
               PROVE  wallets'[b].escrow + Claims(b)[g] = wallets[b].escrow + Claims(b)'[g]
    BY DEF Claimed
  <2>1. HoldbackOn(g, b) = When(b = p, n) /\ HoldbackOn(g, b)' = 0
    BY <1>2, <1>5 DEF HoldbackOn, When
  <2>2. HoldOn(g, b)' = HoldOn(g, b) /\ RefundOn(g, b)' = RefundOn(g, b)
    BY <1>1 DEF HoldOn, RefundOn
  <2> HIDE DEF p, n
  <2>3. Claims(b)[g] = HoldOn(g, b) + When(b = p, n) + RefundOn(g, b) /\ Claims(b)'[g] = HoldOn(g, b) + 0 + RefundOn(g, b)
    BY <2>1, <2>2 DEF Claims
  <2>4. wallets'[b].escrow = wallets[b].escrow + (-When(b = p, n))
    BY <1>6 DEF Moves
  <2> QED BY <1>7, <2>3, <2>4
<1> QED BY <1>1, <1>8, <1>9 DEF Accounts, HoldLocked

(* What a verification pays, and what it keeps in escrow. *)
PaidNow(now, hb, window) == now + (IF window THEN 0 ELSE hb)
HeldBack(hb, window) == IF window THEN hb ELSE 0

(* The wallets after a verification that finds no holdback settlement. *)
Verified(w, p, q, n, now, hb, window) ==
  LET settled == refundAgentWalletEscrow(releaseAgentWalletEscrowToPayee(w, p, q, now), p, n - now)
      relocked == IF hb > 0 THEN lockAgentWalletEscrow(settled, p, hb) ELSE settled
  IN  IF hb > 0 /\ ~window THEN releaseAgentWalletEscrowToPayee(relocked, p, q, hb) ELSE relocked

(* They hold what is paid at the payee and what is kept in the escrow of the
   payer. *)
LEMMA VerifyAt ==
  ASSUME NEW w \in [Agents -> Wallet], NEW p \in Agents, NEW q \in Agents, p # q, NEW b \in Agents,
         NEW n \in Nat, NEW now \in Nat, NEW hb \in Nat, now + hb <= n, CanDrawEscrow(w, p, n),
         NEW window \in BOOLEAN
  PROVE  Moves(w, Verified(w, p, q, n, now, hb, window), b,
               When(b = q, PaidNow(now, hb, window)) - When(b = p, PaidNow(now, hb, window)),
               When(b = p, HeldBack(hb, window)) - When(b = p, n))
<1> DEFINE settled == refundAgentWalletEscrow(releaseAgentWalletEscrowToPayee(w, p, q, now), p, n - now)
           relocked == IF hb > 0 THEN lockAgentWalletEscrow(settled, p, hb) ELSE settled
           v == IF hb > 0 /\ ~window THEN releaseAgentWalletEscrowToPayee(relocked, p, q, hb) ELSE relocked
           out == PaidNow(now, hb, window)
           kept == HeldBack(hb, window)
<1>0. v = Verified(w, p, q, n, now, hb, window)
  BY DEF Verified
<1> DEFINE w1 == releaseAgentWalletEscrowToPayee(w, p, q, now)
<1>1. n - now \in Nat /\ IsFiniteSet(Agents)
  BY FiniteAgents
<1>2. CanDrawEscrow(w, p, now)
  BY DEF CanDrawEscrow, Wallet
<1>3. w1 \in [Agents -> Wallet] /\ Moves(w, w1, b, When(b = q, now) - When(b = p, now), -When(b = p, now))
  BY <1>1, <1>2, ReleaseTyped, ReleaseAt
<1> HIDE DEF w1
<1>4. settled = refundAgentWalletEscrow(w1, p, n - now)
  BY DEF w1
<1>5. settled \in [Agents -> Wallet] /\ CanLockEscrow(settled, p, hb)
  BY <1>1, VerifyMoves
<1> HIDE DEF settled
<1>6. Moves(w1, settled, b, 0, -When(b = p, n - now))
  BY <1>1, <1>3, <1>4, RefundAt
<1>7. relocked \in [Agents -> Wallet] /\ Moves(settled, relocked, b, 0, When(b = p, hb))
  <2>1. CASE hb > 0
    BY <1>5, <2>1, LockTyped, LockAt
  <2>2. CASE ~(hb > 0)
    <3>1. hb = 0 /\ relocked = settled
      BY <2>2
    <3> QED BY <1>5, <3>1 DEF Moves, Owned, When, Wallet
  <2> QED BY <2>1, <2>2
<1> HIDE DEF relocked
<1>8. Moves(relocked, v, b, When(~window, When(b = q, hb) - When(b = p, hb)), When(~window, -When(b = p, hb)))
  <2>1. CASE hb > 0 /\ ~window
    <3>1. v = releaseAgentWalletEscrowToPayee(relocked, p, q, hb)
      BY <2>1
    <3>2. Moves(relocked, v, b, When(b = q, hb) - When(b = p, hb), -When(b = p, hb))
      BY <1>7, <3>1, ReleaseAt
    <3> QED BY <2>1, <3>2 DEF When
  <2>2. CASE ~(hb > 0 /\ ~window)
    <3>1. v = relocked /\ (hb = 0 \/ window)
      BY <2>2
    <3> QED BY <1>7, <3>1 DEF Moves, Owned, When, Wallet
  <2> QED BY <2>1, <2>2
<1> HIDE DEF v
<1>9. /\ Owned(w, b) \in Nat /\ Owned(w1, b) \in Nat /\ Owned(settled, b) \in Nat /\ Owned(relocked, b) \in Nat
      /\ w[b].escrow \in Nat /\ w1[b].escrow \in Nat /\ settled[b].escrow \in Nat /\ relocked[b].escrow \in Nat
  BY <1>3, <1>5, <1>7 DEF Owned, Wallet
<1>10. Owned(v, b) = Owned(w, b) + (When(b = q, now) - When(b = p, now)) + When(~window, When(b = q, hb) - When(b = p, hb))
  BY <1>3, <1>6, <1>7, <1>8, <1>9 DEF Moves, When
<1>11. v[b].escrow = w[b].escrow + (-When(b = p, now)) + (-When(b = p, n - now)) + When(b = p, hb) + When(~window, -When(b = p, hb))
  BY <1>3, <1>6, <1>7, <1>8, <1>9 DEF Moves, When
<1>12. Owned(v, b) = Owned(w, b) + (When(b = q, out) - When(b = p, out))
  BY <1>9, <1>10 DEF When, PaidNow
<1>13. v[b].escrow = w[b].escrow + (When(b = p, kept) - When(b = p, n))
  BY <1>9, <1>11 DEF When, HeldBack
<1> QED BY <1>0, <1>12, <1>13 DEF Moves

(* A verification pays what it releases now, and the holdback with it where
   there is no dispute window. *)
LEMMA VerifyAccounts ==
  ASSUME TypeInv, NEW g \in Gates, Agrees(g), NEW r \in Nat, VerifyGate(g, r)
  PROVE  Accounts(g)
<1> DEFINE p == settlements[g].payer
           q == settlements[g].payee
           n == settlements[g].amount
           hb == HoldbackOf(r, gates[g].bps)
           now == r - hb
           window == gates[g].window
           out == PaidNow(now, hb, window)
           kept == HeldBack(hb, window)
<1>0. VerifyCases(g, settlements[g], gates[g], authorization[g], r)
  BY VerifyGateCases
<1>1. /\ settlements[g].status = "locked" /\ authorization[g].status = "reserved" /\ settlements[g] \in Settlement(Parties)
      /\ reversal' = reversal /\ funded' = funded /\ r \in 0 .. n /\ CanDrawEscrow(wallets, p, n)
  BY <1>0, RecordTypes DEF VerifyGate, MayVerify, VerifyCases
<1>2. /\ p \in Agents /\ q \in Agents /\ p # q /\ n \in Nat /\ wallets \in [Agents -> Wallet]
      /\ window \in BOOLEAN /\ gates[g].bps \in Bps
  BY <1>1, KnownSettlement, RecordTypes DEF Gate
<1>3. hb \in Nat /\ now \in Nat /\ now + hb <= n /\ hb <= r
  <2>1. r <= n
    BY <1>1, <1>2
  <2>2. hb \in Nat /\ hb <= r
    BY <1>2, HoldbackPart
  <2> HIDE DEF hb, n
  <2> QED BY <1>2, <2>1, <2>2
<1>4. /\ settlements[g].released = 0 /\ holdbackRuns[g].status = "none" /\ holdbackRuns[g].released = 0
      /\ reversal[g].reserve # "held" /\ authorization[g].walletEscrow = "locked"
  BY <1>1, RecordTypes DEF Agrees, HoldAgrees, AuthorizationAgrees, ReversalAgrees, HoldbackAgrees, PartiesKnown
<1>5. wallets' = Verified(wallets, p, q, n, now, hb, window)
  BY <1>0, <1>4 DEF VerifyCases, PrimarySettled, Verified
<1>7. /\ settlements'[g] = resolveAgentRunSettlement(settlements[g], IF r > 0 THEN "released" ELSE "refunded", now, n - now)
      /\ hb = 0 => holdbackRuns'[g] = holdbackRuns[g]
      /\ hb > 0 => holdbackRuns'[g] =
           IF window THEN createAgentRunSettlement(p, q, hb)
           ELSE resolveAgentRunSettlement(createAgentRunSettlement(p, q, hb), "released", hb, 0)
  BY <1>0, <1>3, <1>4 DEF VerifyCases, TypeInv, TypeOK
<1> HIDE DEF hb, now, window
<1>8. /\ settlements'[g].status # "locked" /\ settlements'[g].released = now
      /\ settlements'[g].payer = p /\ settlements'[g].payee = q
  BY <1>1, <1>7 DEF resolveAgentRunSettlement, Settlement
<1>9. /\ holdbackRuns'[g].released = IF window THEN 0 ELSE hb
      /\ \A b \in Agents : HoldbackOn(g, b)' = When(b = p, kept)
  <2>1. CASE hb = 0
    BY <1>4, <1>7, <2>1 DEF HoldbackOn, When, HeldBack
  <2>2. CASE hb > 0 /\ window
    <3>1. /\ holdbackRuns'[g].released = 0 /\ holdbackRuns'[g].status = "locked"
          /\ holdbackRuns'[g].payer = p /\ holdbackRuns'[g].amount = hb
      BY <1>7, <2>2 DEF createAgentRunSettlement
    <3> QED BY <2>2, <3>1 DEF HoldbackOn, When, HeldBack
  <2>3. CASE hb > 0 /\ ~window
    <3>1. holdbackRuns'[g].released = hb /\ holdbackRuns'[g].status = "released"
      BY <1>7, <2>3 DEF createAgentRunSettlement, resolveAgentRunSettlement
    <3> QED BY <2>3, <3>1 DEF HoldbackOn, When, HeldBack
  <2> QED BY <1>2, <1>3, <2>1, <2>2, <2>3
<1> HIDE DEF p, q, n
<1>10. PICK o \in Nat, k \in Nat : o = out /\ k = kept
  <2>1. CASE window
    BY <1>3, <2>1 DEF PaidNow, HeldBack
  <2>2. CASE ~window
    BY <1>3, <2>2 DEF PaidNow, HeldBack
  <2> QED BY <2>1, <2>2
<1>11. ASSUME NEW b \in Agents
       PROVE  Moves(wallets, wallets', b, When(b = q, o) - When(b = p, o), When(b = p, k) - When(b = p, n))
  <2>1. CanDrawEscrow(wallets, p, n)
    BY <1>1
  <2> QED BY <1>2, <1>3, <1>5, <1>10, <2>1, VerifyAt
<1> HIDE DEF out, kept
<1>12. \A b \in Agents : wallets[b].escrow \in Nat /\ When(b = p, n) \in Nat /\ When(b = p, k) \in Nat
  BY <1>2 DEF Wallet, When
<1>13. Explains(g)
  <2>1. PaidOut(g)' = PaidOut(g) + o
    BY <1>2, <1>3, <1>4, <1>8, <1>9, <1>10 DEF PaidOut, out, PaidNow
  <2>2. \A b \in Agents : Owned(wallets', b) = Owned(wallets, b) + (When(b = q, o) - When(b = p, o))
    BY <1>11 DEF Moves
  <2>3. settlements[g].payer = p /\ settlements[g].payee = q
    BY DEF p, q
  <2>4. o \in Int
    OBVIOUS
  <2> QED BY <1>1, <1>8, <2>1, <2>2, <2>3, <2>4, PaymentExplains
<1>14. Claimed(g)
  <2> SUFFICES ASSUME NEW b \in Agents
               PROVE  wallets'[b].escrow + Claims(b)[g] = wallets[b].escrow + Claims(b)'[g]
    BY DEF Claimed
  <2>1. HoldOn(g, b) = When(b = p, n) /\ HoldbackOn(g, b) = 0 /\ RefundOn(g, b) = 0
    BY <1>1, <1>4 DEF HoldOn, HoldbackOn, RefundOn, When, p, n
  <2>2. HoldOn(g, b)' = 0 /\ HoldbackOn(g, b)' = When(b = p, k) /\ RefundOn(g, b)' = 0
    BY <1>1, <1>4, <1>8, <1>9, <1>10 DEF HoldOn, RefundOn
  <2>3. Claims(b)[g] = When(b = p, n) /\ Claims(b)'[g] = When(b = p, k)
    BY <1>12, <2>1, <2>2 DEF Claims
  <2>4. wallets'[b].escrow = wallets[b].escrow + (When(b = p, k) - When(b = p, n))
    BY <1>11 DEF Moves
  <2> QED BY <1>12, <2>3, <2>4
<1> QED BY <1>8, <1>13, <1>14 DEF Accounts, HoldLocked

(* A step that is about no gate: credits, and what moves no money. *)
AccountsNone ==
  /\ \A h \in Gates : Same(h)
  /\ \A b \in Agents : /\ Owned(wallets', b) + funded[b] = Owned(wallets, b) + funded'[b]
                       /\ wallets'[b].escrow = wallets[b].escrow

(* A step that is about one gate. *)
AccountsFor(g) ==
  /\ \A h \in Gates \ {g} : Same(h)
  /\ Explains(g)
  /\ Covered(g)
  /\ "fail" \notin ReserveModes => Accounts(g)

(* Credits and the steps that move no money. *)
LEMMA OthersAccount ==
  ASSUME TypeInv, OtherStep
  PROVE  AccountsNone
<1>1. \A h \in Gates : Same(h)
  BY OthersKeep
<1>2. CASE wallets' = wallets /\ funded' = funded
  BY <1>1, <1>2 DEF AccountsNone
<1>3. ASSUME NEW a \in Agents, NEW n \in Nat, CreditWallet(a, n)
      PROVE  AccountsNone
  <2> DEFINE w1 == ensureAgentWallet(wallets, a)
             w2 == creditAgentWallet(w1, a, n)
  <2>1. wallets \in [Agents -> Wallet] /\ funded \in [Agents -> Nat]
    BY DEF TypeInv, TypeOK
  <2>2. wallets' = w2 /\ funded' = [funded EXCEPT ![a] = @ + n]
    BY <1>3 DEF CreditWallet
  <2>3. ASSUME NEW b \in Agents
        PROVE  /\ Owned(wallets', b) + funded[b] = Owned(wallets, b) + funded'[b]
               /\ wallets'[b].escrow = wallets[b].escrow
    <3>1. w1 \in [Agents -> Wallet] /\ Moves(wallets, w1, b, 0, 0)
      BY <2>1, EnsureTyped, EnsureAt
    <3> HIDE DEF w1
    <3>2. Moves(w1, w2, b, When(b = a, n), 0)
      BY <3>1, CreditAt
    <3> HIDE DEF w2
    <3>3. Owned(wallets, b) \in Nat /\ wallets[b].escrow \in Nat /\ funded[b] \in Nat /\ When(b = a, n) \in Nat
      BY <2>1 DEF Owned, Wallet, When
    <3>4. funded'[b] = funded[b] + When(b = a, n)
      BY <2>1, <2>2 DEF When
    <3> QED BY <2>2, <3>1, <3>2, <3>3, <3>4 DEF Moves
  <2> QED BY <1>1, <2>3 DEF AccountsNone
<1>4. CASE \E a \in Credited, n \in Funds : CreditWallet(a, n)
  BY <1>3, <1>4, ConstantTypes
<1>5. (\E a \in Credited, n \in Funds : CreditWallet(a, n)) \/ (wallets' = wallets /\ funded' = funded)
  BY DEF OtherStep, SetLifecycle, FreezeAgent, SweepInsolvent, UnwindFrozen, IssueQuote, QuoteExpires,
         enqueueZkProofAutoVoid, HoldbackWindowEnds, ProcessSkip, ProcessThrows, Crash
<1> QED BY <1>2, <1>4, <1>5

(* Every step accounts for the money of the gate it is about. *)
LEMMA StepAccounts ==
  ASSUME TypeInv, RecordsAgree, ~RekeyedCreate, Next
  PROVE  AccountsNone \/ \E g \in Gates : AccountsFor(g)
<1>0. TypeInv'
  BY StepSound
<1>1. \A g \in Gates : Agrees(g)
  BY DEF RecordsAgree, Agrees
<1>2. CASE OtherStep
  BY <1>2, OthersAccount
<1>3. ASSUME NEW g \in Gates, Accounts(g), Covered(g), \A h \in Gates \ {g} : Same(h)
      PROVE  AccountsFor(g)
  BY <1>3 DEF AccountsFor, Accounts
<1>4. /\ Payers \subseteq Agents /\ Funds \cup {0} \subseteq Nat /\ Amounts \subseteq Nat
      /\ HoldbackBps \subseteq Bps /\ Windows \subseteq BOOLEAN
  BY ConstantTypes
<1>5. ASSUME NEW g \in Gates, NEW payer \in Agents, NEW payee \in Agents, NEW n \in Nat,
             NEW fund \in Nat, NEW bps \in Bps, NEW window \in BOOLEAN,
             CreateGate(g, payer, payee, n, fund, bps, window)
      PROVE  AccountsFor(g)
  <2>1. Accounts(g)
    BY <1>1, <1>5, CreateAccounts
  <2>2. \A h \in Gates \ {g} : Same(h)
    BY <1>1, <1>5, CreateAgrees
  <2>3. HoldLocked(g)
    BY <1>5 DEF CreateGate, MayCreate, GateUnlessExists, HoldLocked
  <2> QED BY <1>0, <1>3, <2>1, <2>2, <2>3, AccountsCovered
<1>6. CASE \E g \in Gates, payer \in Payers, payee \in Agents, n \in Amounts, fund \in Funds \cup {0},
                 bps \in HoldbackBps, window \in Windows : CreateGate(g, payer, payee, n, fund, bps, window)
  BY <1>4, <1>5, <1>6
<1>7. ASSUME NEW g \in Gates, AuthorizePayment(g)
      PROVE  AccountsFor(g)
  BY <1>1, <1>3, <1>7, AuthorizeAccounts, AuthorizeAgrees, AuthorizeCovered
<1>8. ASSUME NEW g \in Gates, ReserveFails(g)
      PROVE  AccountsFor(g)
  <2>1. "fail" \in ReserveModes
    BY <1>8 DEF ReserveFails, TypeInv, TypeOK
  <2>2. Explains(g)
    BY <1>8, FailureExplains
  <2>3. \A h \in Gates \ {g} : Same(h)
    BY <1>1, <1>8, AuthorizeAgrees
  <2>4. Covered(g)
    BY <1>8, AuthorizeCovered
  <2> QED BY <2>1, <2>2, <2>3, <2>4 DEF AccountsFor
<1>9. ASSUME NEW g \in Gates, NEW r \in 0 .. settlements[g].amount, VerifyGate(g, r)
      PROVE  AccountsFor(g)
  <2>1. r \in Nat
    OBVIOUS
  <2>2. Accounts(g) /\ \A h \in Gates \ {g} : Same(h)
    BY <1>1, <1>9, <2>1, VerifyAccounts, VerifyAgrees
  <2>3. HoldLocked(g)
    BY <1>1, <1>9 DEF VerifyGate, MayVerify, HoldLocked, Agrees, AuthorizationAgrees
  <2> QED BY <1>0, <1>3, <2>2, <2>3, AccountsCovered
<1>10. ASSUME NEW g \in Gates, settlements[g].status = "locked", VoidEffect(g),
              holdbackRuns' = holdbackRuns, holdback' = holdback, funded' = funded
       PROVE  AccountsFor(g)
  BY <1>0, <1>1, <1>3, <1>10, VoidAccounts, VoidAgrees, VoidCovered
<1>11. ASSUME NEW g \in Gates, VoidAuthorization(g)
       PROVE  AccountsFor(g)
  BY <1>10, <1>11 DEF VoidAuthorization
<1>12. ASSUME ProcessVoid
       PROVE  \E g \in Gates : AccountsFor(g)
  <2>1. NextMessage \in Message
    BY <1>12, MessageTaken, TypeInvParts DEF ProcessVoid
  <2>3. PICK g \in Gates : g = NextMessage.gate
    BY <2>1 DEF Message
  <2>4. /\ settlements[g].status = "locked" /\ VoidEffect(g)
        /\ holdbackRuns' = holdbackRuns /\ holdback' = holdback /\ funded' = funded
    BY <1>12, <2>3 DEF ProcessVoid, MessageVoids
  <2> QED BY <1>10, <2>4
<1>13. ASSUME NEW g \in Gates, RequestRefund(g) \/ DenyRefund(g) \/ AcceptRefund(g) \/ ReleaseHoldback(g)
       PROVE  AccountsFor(g)
  <2>1. Accounts(g)
    BY <1>1, <1>13, RequestAccounts, AnswerAccounts, ReleaseHoldbackAccounts
  <2>2. \A h \in Gates \ {g} : Same(h)
    BY <1>1, <1>13, RequestAgrees, DenyAgrees, AcceptAgrees, ReleaseHoldbackAgrees
  <2>3. HoldLocked(g)
    <3>1. settlements[g].status # "locked"
      BY <1>1, <1>13 DEF RequestRefund, DenyRefund, AcceptRefund, MayResolveRefund, ReleaseHoldback, HoldbackDue,
                         Agrees, HoldAgrees, AuthorizationAgrees, ReversalAgrees, HoldbackAgrees
    <3> QED BY <3>1 DEF HoldLocked
  <2> QED BY <1>0, <1>3, <2>1, <2>2, <2>3, AccountsCovered
<1>14. ASSUME NEW g \in Gates,
              \/ AuthorizePayment(g) \/ ReserveFails(g) \/ VoidAuthorization(g)
              \/ \E r \in 0 .. settlements[g].amount : VerifyGate(g, r)
              \/ RequestRefund(g) \/ DenyRefund(g) \/ AcceptRefund(g) \/ ReleaseHoldback(g)
       PROVE  AccountsFor(g)
  BY <1>7, <1>8, <1>9, <1>11, <1>13, <1>14
<1>15. CASE \E g \in Gates :
              \/ AuthorizePayment(g) \/ ReserveFails(g) \/ VoidAuthorization(g)
              \/ \E r \in 0 .. settlements[g].amount : VerifyGate(g, r)
              \/ RequestRefund(g) \/ DenyRefund(g) \/ AcceptRefund(g) \/ ReleaseHoldback(g)
  BY <1>14, <1>15
<1>16. CASE ProcessVoid
  BY <1>12, <1>16
<1> QED BY <1>2, <1>6, <1>15, <1>16 DEF Next, LocalNext, OtherStep

(* The settlement records explain every balance while no handler awaits I/O
   (the adapter is in stub or fail mode), wherever the process stops and
   whatever is delivered again, as long as no gate id is created twice. *)
THEOREM BalancesExplained ==
  ASSUME ~RekeyedCreate
  PROVE  Spec => []RecordsExplainBalances
<1>1. ASSUME Init
      PROVE  RecordsExplainBalances
  <2> SUFFICES ASSUME NEW b \in Agents
               PROVE  wallets[b].available + wallets[b].escrow + SumOver(PaidBy(b), Gates)
                        = funded[b] + SumOver(PaidTo(b), Gates)
    BY DEF RecordsExplainBalances
  <2>1. wallets[b].available = 0 /\ wallets[b].escrow = 0 /\ funded[b] = 0
    BY <1>1 DEF Init, NoWallet
  <2>2. \A g \in Gates : PaidBy(b)[g] = 0 /\ PaidTo(b)[g] = 0
    BY <1>1 DEF Init, NoSettlement, PaidBy, PaidTo, PaidOut
  <2>3. SumOver(PaidBy(b), Gates) = 0 /\ SumOver(PaidTo(b), Gates) = 0
    BY <2>2, SumZero
  <2> QED BY <2>1, <2>3
<1>2. ASSUME TypeInv, TypeInv', RecordsAgree, RecordsExplainBalances, Next
      PROVE  RecordsExplainBalances'
  <2>1. ASSUME NEW g \in Gates, AccountsFor(g)
        PROVE  RecordsExplainBalances'
    BY <1>2, <2>1, ExplainsAll DEF AccountsFor, Same
  <2>2. ASSUME AccountsNone
        PROVE  RecordsExplainBalances'
    <3> SUFFICES ASSUME NEW b \in Agents
                 PROVE  wallets'[b].available + wallets'[b].escrow + SumOver(PaidBy(b)', Gates)
                          = funded'[b] + SumOver(PaidTo(b)', Gates)
      BY DEF RecordsExplainBalances
    <3>1. \A g \in Gates : PaidBy(b)'[g] = PaidBy(b)[g] /\ PaidTo(b)'[g] = PaidTo(b)[g]
      BY <2>2 DEF AccountsNone, Same, PaidBy, PaidTo, PaidOut
    <3>2. SumOver(PaidBy(b)', Gates) = SumOver(PaidBy(b), Gates) /\ SumOver(PaidTo(b)', Gates) = SumOver(PaidTo(b), Gates)
      BY <3>1, SumSame
    <3>3. SumOver(PaidBy(b), Gates) \in Nat /\ SumOver(PaidTo(b), Gates) \in Nat
      BY <1>2, SumTypes, FiniteGates, SumType DEF SumsTyped
    <3>4. /\ wallets[b].available \in Nat /\ wallets[b].escrow \in Nat /\ funded[b] \in Nat
          /\ wallets'[b].available \in Nat /\ wallets'[b].escrow \in Nat /\ funded'[b] \in Nat
      BY <1>2, SumTypes, SumTypesNext DEF SumsTyped
    <3>5. (wallets'[b].available + wallets'[b].escrow) + funded[b] = (wallets[b].available + wallets[b].escrow) + funded'[b]
      BY <2>2 DEF AccountsNone, Owned
    <3>6. wallets[b].available + wallets[b].escrow + SumOver(PaidBy(b), Gates) = funded[b] + SumOver(PaidTo(b), Gates)
      BY <1>2 DEF RecordsExplainBalances
    <3> QED BY <3>2, <3>3, <3>4, <3>5, <3>6
  <2> QED BY <1>2, <2>1, <2>2, StepAccounts
<1>3. ASSUME RecordsExplainBalances, UNCHANGED vars
      PROVE  RecordsExplainBalances'
  BY <1>3 DEF RecordsExplainBalances, PaidBy, PaidTo, PaidOut, vars, runVars
<1> QED BY <1>1, <1>2, <1>3, TypeInvariance, Agreement, PTL DEF Spec

(* Nothing in escrow is without a claim on it while no handler awaits I/O,
   also with the adapter in fail mode, where the roll-back of a failed reserve
   takes the hold out of escrow and a later void of the same gate may draw on
   the hold of another: a claim may lose its cover, but no money is stranded,
   as long as no gate id is created twice. *)
THEOREM NothingIsStranded ==
  ASSUME ~RekeyedCreate
  PROVE  Spec => []NothingStranded
<1>1. ASSUME Init, NEW b \in Agents
      PROVE  wallets[b].escrow <= SumOver(Claims(b), Gates)
  <2>1. wallets[b].escrow = 0
    BY <1>1 DEF Init, NoWallet
  <2>2. \A g \in Gates : HoldOn(g, b) = 0 /\ HoldbackOn(g, b) = 0 /\ RefundOn(g, b) = 0
    BY <1>1 DEF Init, NoSettlement, NoReversal, HoldOn, HoldbackOn, RefundOn
  <2>3. \A g \in Gates : Claims(b)[g] = 0
    BY <2>2 DEF Claims
  <2>4. SumOver(Claims(b), Gates) = 0
    BY <2>3, SumZero
  <2> QED BY <2>1, <2>4
<1>2. ASSUME TypeInv, TypeInv', RecordsAgree, NothingStranded, Next, NEW b \in Agents
      PROVE  wallets'[b].escrow <= SumOver(Claims(b)', Gates)
  <2>1. Claims(b) \in [Gates -> Nat] /\ IsFiniteSet(Gates) /\ wallets[b].escrow \in Nat
    BY <1>2, SumTypes, FiniteGates DEF SumsTyped
  <2>2. Claims(b)' \in [Gates -> Nat] /\ wallets'[b].escrow \in Nat
    BY <1>2, SumTypesNext DEF SumsTyped
  <2>3. PICK f1 \in [Gates -> Nat], f2 \in [Gates -> Nat] : f1 = Claims(b) /\ f2 = Claims(b)'
    BY <2>1, <2>2
  <2>4. wallets[b].escrow <= SumOver(f1, Gates)
    BY <1>2, <2>3 DEF NothingStranded
  <2>5. ASSUME NEW g \in Gates, AccountsFor(g)
        PROVE  wallets'[b].escrow <= SumOver(f2, Gates)
    <3>1. \A h \in Gates \ {g} : f1[h] = f2[h]
      BY <2>3, <2>5 DEF AccountsFor, Claims, HoldOn, HoldbackOn, RefundOn, Same
    <3>2. SumOver(f2, Gates) + f1[g] = SumOver(f1, Gates) + f2[g]
      BY <2>1, <3>1, SumChange
    <3>3. SumOver(f1, Gates) \in Nat /\ SumOver(f2, Gates) \in Nat /\ f1[g] \in Nat /\ f2[g] \in Nat
      BY <2>1, SumType
    <3>4. wallets'[b].escrow + f1[g] <= wallets[b].escrow + f2[g]
      BY <2>3, <2>5 DEF AccountsFor, Covered
    <3> QED BY <2>1, <2>2, <2>4, <3>2, <3>3, <3>4
  <2>6. ASSUME AccountsNone
        PROVE  wallets'[b].escrow <= SumOver(f2, Gates)
    <3>1. \A h \in Gates : Claims(b)'[h] = Claims(b)[h]
      BY <2>6 DEF AccountsNone, Same, Claims, HoldOn, HoldbackOn, RefundOn
    <3>2. SumOver(Claims(b)', Gates) = SumOver(Claims(b), Gates)
      BY <3>1, SumSame
    <3> QED BY <2>3, <2>4, <2>6, <3>2 DEF AccountsNone
  <2> QED BY <1>2, <2>3, <2>5, <2>6, StepAccounts
<1>3. ASSUME NothingStranded, UNCHANGED vars
      PROVE  NothingStranded'
  BY <1>3 DEF NothingStranded, Claims, HoldOn, HoldbackOn, RefundOn, vars, runVars, gateVars
<1>4. Init => NothingStranded
  BY <1>1 DEF NothingStranded
<1>5. TypeInv /\ TypeInv' /\ RecordsAgree /\ NothingStranded /\ Next => NothingStranded'
  BY <1>2 DEF NothingStranded
<1> QED BY <1>3, <1>4, <1>5, TypeInvariance, Agreement, PTL DEF Spec

(* The escrow of every agent is exactly what the records of the gates claim
   of it, with the adapter in stub mode and as long as no gate id is created
   twice: whatever is voided, verified, held back, refunded, delivered again
   or cut off by a restart. *)
THEOREM EscrowClaimed ==
  ASSUME ~RekeyedCreate, "fail" \notin ReserveModes
  PROVE  Spec => []EscrowMatchesClaims
<1> DEFINE Locked == \A g \in Gates : HoldLocked(g)
<1>1. ASSUME Init
      PROVE  Locked /\ EscrowMatchesClaims
  <2>1. Locked
    BY <1>1 DEF Init, NoSettlement, HoldLocked
  <2>2. ASSUME NEW b \in Agents
        PROVE  wallets[b].escrow = SumOver(Claims(b), Gates)
    <3>1. wallets[b].escrow = 0
      BY <1>1 DEF Init, NoWallet
    <3>2. \A g \in Gates : HoldOn(g, b) = 0 /\ HoldbackOn(g, b) = 0 /\ RefundOn(g, b) = 0
      BY <1>1 DEF Init, NoSettlement, NoReversal, HoldOn, HoldbackOn, RefundOn
    <3>3. \A g \in Gates : Claims(b)[g] = 0
      BY <3>2 DEF Claims
    <3> QED BY <3>1, <3>3, SumZero
  <2> QED BY <2>1, <2>2 DEF EscrowMatchesClaims
<1>2. ASSUME TypeInv, TypeInv', RecordsAgree, Locked, EscrowMatchesClaims, Next
      PROVE  Locked' /\ EscrowMatchesClaims'
  <2>1. ASSUME NEW g \in Gates, AccountsFor(g)
        PROVE  Locked' /\ EscrowMatchesClaims'
    <3>1. Claimed(g) /\ HoldLocked(g)' /\ \A h \in Gates \ {g} : Same(h)
      BY <1>2, <2>1 DEF AccountsFor, Accounts
    <3>2. Locked'
      BY <1>2, <3>1 DEF HoldLocked, Same
    <3> QED BY <1>2, <3>1, <3>2, ClaimedAll
  <2>2. ASSUME AccountsNone
        PROVE  Locked' /\ EscrowMatchesClaims'
    <3>1. Locked'
      BY <1>2, <2>2 DEF HoldLocked, AccountsNone, Same
    <3>2. ASSUME NEW b \in Agents
          PROVE  wallets'[b].escrow = SumOver(Claims(b)', Gates)
      <4>1. \A g \in Gates : Claims(b)'[g] = Claims(b)[g]
        BY <2>2 DEF AccountsNone, Same, Claims, HoldOn, HoldbackOn, RefundOn
      <4>2. SumOver(Claims(b)', Gates) = SumOver(Claims(b), Gates)
        BY <4>1, SumSame
      <4> QED BY <1>2, <2>2, <4>2 DEF AccountsNone, EscrowMatchesClaims
    <3> QED BY <3>1, <3>2 DEF EscrowMatchesClaims
  <2> HIDE DEF Locked
  <2> QED BY <1>2, <2>1, <2>2, StepAccounts
<1>3. ASSUME Locked, EscrowMatchesClaims, UNCHANGED vars
      PROVE  Locked' /\ EscrowMatchesClaims'
  <2>1. Locked'
    BY <1>3 DEF HoldLocked, vars, runVars, gateVars
  <2>2. EscrowMatchesClaims'
    BY <1>3 DEF EscrowMatchesClaims, Claims, HoldOn, HoldbackOn, RefundOn, vars, runVars, gateVars
  <2> QED BY <2>1, <2>2
<1> QED BY <1>1, <1>2, <1>3, TypeInvariance, Agreement, PTL DEF Spec

=============================================================================
