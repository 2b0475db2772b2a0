-------------------------- MODULE X402RacesProofs --------------------------
(***************************************************************************)
(* What is left when handlers and the worker write back what they read     *)
(* before they awaited the adapter or the check of a proof, for every      *)
(* number of calls under way and a process that may stop at any time.      *)
(***************************************************************************)
EXTENDS X402Races, X402GateProofs

(* A call was let in on a settlement that was locked and whose payer opens
   gates. *)
KnownRead ==
  {read \in Read : /\ read.settlement.status = "locked"
                   /\ PartiesKnown(read.settlement)
                   /\ read.settlement.payer \in Payers}

PaidByPayer(s) == s.status # "none" => s.payer \in Payers

(* The types, with the parties of settlements and what calls have read. *)
RaceInv ==
  /\ TypeInv
  /\ \A g \in Gates : PaidByPayer(settlements[g]) /\ PaidByPayer(holdbackRuns[g])
  /\ calls \in [Calls \cup {Worker} -> KnownRead \cup {Idle}]

(* What a call reads of a gate whose settlement is locked. *)
LEMMA ReadKnown ==
  ASSUME RaceInv, NEW g \in Gates, settlements[g].status = "locked",
         NEW kind \in {"authorize", "void", "verify"}, NEW w \in [Agents -> Wallet], NEW id \in DispatchIds
  PROVE  Reads(kind, g, w, id) \in KnownRead
<1> DEFINE s == settlements[g]
           read == Reads(kind, g, w, id)
<1>1. s \in Settlement(Parties) /\ s.payer \in Agents /\ s.payer \in Payers /\ PartiesKnown(s)
  BY KnownSettlement DEF RaceInv, TypeInv, TypeOK, Parties, PaidByPayer
<1>2. /\ gates[g] \in Gate /\ authorization[g] \in Authorization /\ reversal[g] \in Reversal
      /\ dispatch[g] \in Dispatch /\ holdback[g] \in Holdback /\ w[s.payer] \in Wallet
  BY <1>1 DEF RaceInv, TypeInv, TypeOK
<1>3. read \in Read
  BY <1>1, <1>2 DEF Reads, Read, Parties
<1>4. read.settlement = s
  BY DEF Reads
<1> HIDE DEF read
<1>5. read \in KnownRead
  BY <1>1, <1>3, <1>4 DEF KnownRead
<1> QED BY <1>5 DEF read

(* The fields of what was read. *)
LEMMA ReadFields ==
  ASSUME NEW read \in KnownRead
  PROVE  /\ read.id \in Gates /\ read.gate \in Gate /\ read.authorization \in Authorization
         /\ read.reversal \in Reversal /\ read.dispatch \in Dispatch /\ read.holdback \in Holdback
         /\ read.wallet \in Wallet /\ read.message \in DispatchIds
         /\ read.settlement \in Settlement(Parties) /\ PartiesKnown(read.settlement)
         /\ read.settlement.status = "locked"
         /\ read.settlement.payer \in Payers /\ read.settlement.payer \in Agents
         /\ read.settlement.amount \in Nat
BY DEF KnownRead, Read, Parties, PartiesKnown, Settlement

(* Writing back a gate keeps the types of the gate records. *)
LEMMA UpsertTyped ==
  ASSUME GatesTyped, NEW x, UpsertGate(x), x.id \in Gates, x.gate \in Gate, x.authorization \in Authorization,
         x.reversal \in Reversal, x.dispatch \in Dispatch, x.holdback \in Holdback
  PROVE  GatesTyped'
BY DEF UpsertGate, GatesTyped

(* Writing back a wallet that was read, with or without the hold in escrow,
   leaves no balance below zero. *)
LEMMA WalletWritten ==
  ASSUME wallets \in [Agents -> Wallet], NEW read \in KnownRead
  PROVE  LET s == read.settlement
         IN  /\ UpsertWallet(read) \in [Agents -> Wallet]
             /\ CanDrawEscrow(UpsertWallet(read), s.payer, s.amount) =>
                  refundAgentWalletEscrow(UpsertWallet(read), s.payer, s.amount) \in [Agents -> Wallet]
<1>1. read.settlement.payer \in Agents /\ read.settlement.amount \in Nat /\ read.wallet \in Wallet
  BY ReadFields
<1>2. UpsertWallet(read) \in [Agents -> Wallet]
  BY <1>1 DEF UpsertWallet
<1> QED BY <1>1, <1>2, RefundMoves

-----------------------------------------------------------------------------
(* The steps of the calls. *)

(* A step that keeps the records. *)
Kept ==
  /\ TypeInv'
  /\ \A g \in Gates : PaidByPayer(settlements'[g]) /\ PaidByPayer(holdbackRuns'[g])

(* Nothing that is typed changes with a step that changes nothing. *)
LEMMA RecordsStay ==
  ASSUME RaceInv, UNCHANGED vars
  PROVE  Kept
BY DEF RaceInv, Kept, TypeInv, TypeOK, vars, runVars, gateVars

(* The end of an authorize-payment, whether the reserve was made or not. *)
LEMMA AuthorizeEnds ==
  ASSUME RaceInv, NEW c \in Calls, FinishAuthorize(c) \/ FailAuthorize(c), calls[c] \in KnownRead
  PROVE  Kept
<1> DEFINE read == calls[c]
<1>1. TypeInv /\ GatesTyped /\ RunsTyped /\ RestTyped /\ wallets \in [Agents -> Wallet]
  BY TypeInvParts DEF RaceInv
<1>2. wallets' \in [Agents -> Wallet]
  BY <1>1, WalletWritten DEF FinishAuthorize, FailAuthorize
<1>3. \A st \in {"reserved", "failed"}, es \in {"locked", "unlocked"}, re \in {"none", "reserved"} :
        [status |-> st, walletEscrow |-> es, reserve |-> re] \in Authorization
  BY DEF Authorization
<1>4. PICK au \in Authorization : UpsertGate([read EXCEPT !.authorization = au])
  BY <1>3 DEF FinishAuthorize, FailAuthorize
<1> DEFINE x == [read EXCEPT !.authorization = au]
<1>5. /\ x.id = read.id /\ x.gate = read.gate /\ x.authorization = au /\ x.reversal = read.reversal
      /\ x.dispatch = read.dispatch /\ x.holdback = read.holdback
  BY DEF KnownRead, Read
<1>6. UpsertGate(x)
  BY <1>4
<1> HIDE DEF x
<1>7. GatesTyped'
  BY <1>1, <1>5, <1>6, ReadFields, UpsertTyped
<1>8. UNCHANGED <<runVars, outbox, cursor, unwinding, funded, lifecycle, reserveMode>>
  BY DEF FinishAuthorize, FailAuthorize
<1>9. RunsTyped' /\ RestTyped' /\ funded' \in [Agents -> Nat]
  BY <1>1, <1>8, RunsKept, RestKept DEF TypeInv, TypeOK
<1>10. TypeInv'
  BY <1>2, <1>7, <1>9, TypeInvPartsNext
<1> QED BY <1>8, <1>10 DEF Kept, RaceInv, runVars

(* The end of a void, by the endpoint or by the worker. *)
LEMMA VoidEnds ==
  ASSUME RaceInv, NEW c, FinishVoid(c), calls[c] \in KnownRead
  PROVE  Kept
<1> DEFINE read == calls[c]
           s == read.settlement
           resolved == resolveAgentRunSettlement(s, "refunded", 0, s.amount)
<1>1. TypeInv /\ GatesTyped /\ RunsTyped /\ RestTyped /\ wallets \in [Agents -> Wallet]
  BY TypeInvParts DEF RaceInv
<1>2. wallets' \in [Agents -> Wallet]
  BY <1>1, WalletWritten DEF FinishVoid
<1>3. PICK d \in Dispatch :
        UpsertGate([read EXCEPT !.gate.status = "resolved", !.authorization = Voided(@),
                                !.reversal.status = "voided", !.dispatch = d])
  <2>1. read.dispatch \in Dispatch /\ [id |-> read.message, status |-> "completed"] \in Dispatch
    BY ReadFields DEF Dispatch
  <2>2. CASE c = Worker
    <3>1. UpsertGate([read EXCEPT !.gate.status = "resolved", !.authorization = Voided(@),
                     !.reversal.status = "voided", !.dispatch = [id |-> read.message, status |-> "completed"]])
      BY <2>2 DEF FinishVoid
    <3> QED BY <2>1, <3>1
  <2>3. CASE c # Worker
    <3>1. UpsertGate([read EXCEPT !.gate.status = "resolved", !.authorization = Voided(@),
                     !.reversal.status = "voided", !.dispatch = read.dispatch])
      BY <2>3 DEF FinishVoid
    <3> QED BY <2>1, <3>1
  <2> QED BY <2>2, <2>3
<1> DEFINE x == [read EXCEPT !.gate.status = "resolved", !.authorization = Voided(@),
                             !.reversal.status = "voided", !.dispatch = d]
<1>4. UpsertGate(x)
  BY <1>3
<1>5. /\ x.id = read.id /\ x.gate = [read.gate EXCEPT !.status = "resolved"]
      /\ x.authorization = Voided(read.authorization)
      /\ x.reversal = [read.reversal EXCEPT !.status = "voided"]
      /\ x.dispatch = d /\ x.holdback = read.holdback
  BY DEF KnownRead, Read
<1> HIDE DEF x
<1>6. /\ [read.gate EXCEPT !.status = "resolved"] \in Gate /\ Voided(read.authorization) \in Authorization
      /\ [read.reversal EXCEPT !.status = "voided"] \in Reversal
  BY ReadFields DEF Gate, Voided, Authorization, Reversal
<1>7. GatesTyped'
  BY <1>1, <1>3, <1>4, <1>5, <1>6, ReadFields, UpsertTyped
<1>8. resolved \in Settlement(Parties) /\ PartiesKnown(resolved) /\ resolved.payer = s.payer
  <2>1. s \in Settlement(Parties) /\ PartiesKnown(s) /\ s.status = "locked" /\ s.amount \in Nat
    BY ReadFields
  <2>2. "refunded" \in SettlementStatus \ {"none"}
    BY DEF SettlementStatus
  <2> HIDE DEF s
  <2>3. resolved \in Settlement(Parties) /\ PartiesKnown(resolved)
    BY <2>1, <2>2, SettlementTyped, PartiesKept
  <2>4. resolved.payer = s.payer
    BY <2>1 DEF resolveAgentRunSettlement, Settlement
  <2> QED BY <2>3, <2>4
<1>9. /\ settlements' = [settlements EXCEPT ![read.id] = resolved]
      /\ UNCHANGED <<holdbackRuns, outbox, cursor, unwinding, funded, lifecycle, reserveMode>>
  BY DEF FinishVoid
<1>10. s.payer \in Payers /\ read.id \in Gates
  BY ReadFields
<1> HIDE DEF resolved, s
<1>11. RunsTyped'
  BY <1>1, <1>8, <1>9, <1>10, RunWritten
<1>12. RestTyped' /\ funded' \in [Agents -> Nat]
  BY <1>1, <1>9, RestKept DEF TypeInv, TypeOK
<1>13. TypeInv'
  BY <1>2, <1>7, <1>11, <1>12, TypeInvPartsNext
<1> QED BY <1>1, <1>8, <1>9, <1>10, <1>13 DEF Kept, RaceInv, PaidByPayer, RunsTyped

(* The settlements after a verification are those of the payer it read. *)
LEMMA VerifyPayers ==
  ASSUME RaceInv, NEW g \in Gates, NEW s \in Settlement(Parties), s.payer \in Payers,
         NEW gate, NEW au, NEW r, VerifyEffect(g, s, gate, au, r)
  PROVE  \A h \in Gates : PaidByPayer(settlements'[h]) /\ PaidByPayer(holdbackRuns'[h])
<1> DEFINE hb == HoldbackOf(r, gate.bps)
           existing == holdbackRuns[g]
           fresh == hb > 0 /\ existing.status = "none"
           made == createAgentRunSettlement(s.payer, s.payee, hb)
           h0 == IF fresh THEN made ELSE existing
           h1 == resolveAgentRunSettlement(h0, "released", hb, 0)
<1>1. /\ \E st, m, n : settlements' = [settlements EXCEPT ![g] = resolveAgentRunSettlement(s, st, m, n)]
      /\ \/ holdbackRuns' = [holdbackRuns EXCEPT ![g] = h0]
         \/ holdbackRuns' = [holdbackRuns EXCEPT ![g] = h1] /\ CanResolveSettlement(h0, hb, 0)
  BY VerifyUnfolds DEF VerifyCases
<1>2. settlements \in [Gates -> Settlement(Parties)] /\ holdbackRuns \in [Gates -> Settlement(Parties)]
  BY DEF RaceInv, TypeInv, TypeOK, Parties
<1>3. \A st, m, n : resolveAgentRunSettlement(s, st, m, n).payer = s.payer
  BY DEF resolveAgentRunSettlement, Settlement
<1>4. made.payer = s.payer
  BY DEF createAgentRunSettlement
<1> HIDE DEF made, fresh, hb
<1>5. PaidByPayer(h0)
  BY <1>4 DEF PaidByPayer, RaceInv
<1>6. CanResolveSettlement(h0, hb, 0) => h1.payer = h0.payer /\ h0.status # "none"
  <2>1. made \in [status : {"locked"}, payer : {s.payer}, payee : {s.payee}, amount : {hb}, released : {0}, refunded : {0}]
    BY DEF made, createAgentRunSettlement
  <2>2. existing \in Settlement(Parties)
    BY <1>2
  <2> QED BY <2>1, <2>2 DEF resolveAgentRunSettlement, CanResolveSettlement, Settlement
<1> HIDE DEF h0, h1
<1> QED BY <1>1, <1>2, <1>3, <1>5, <1>6 DEF PaidByPayer, RaceInv

(* The end of a verification whose proof is valid. *)
LEMMA VerifyEnds ==
  ASSUME RaceInv, NEW c \in Calls, FinishVerify(c), calls[c] \in KnownRead
  PROVE  Kept
<1> DEFINE read == calls[c]
           s == read.settlement
           g == read.id
<1>1. TypeInv /\ GatesTyped /\ RunsTyped /\ RestTyped /\ wallets \in [Agents -> Wallet]
  BY TypeInvParts DEF RaceInv
<1>2. PICK r : VerifyEffect(g, s, read.gate, read.authorization, r)
  BY DEF FinishVerify
<1>3. /\ reversal' = [reversal EXCEPT ![g] = read.reversal]
      /\ dispatch' = [dispatch EXCEPT ![g] = read.dispatch]
      /\ UNCHANGED <<outbox, cursor, unwinding, funded, lifecycle, reserveMode>>
  BY DEF FinishVerify
<1>4. reversal' \in [Gates -> Reversal] /\ dispatch' \in [Gates -> Dispatch] /\ RestTyped'
  BY <1>1, <1>3, ReadFields, RestKept DEF GatesTyped
<1>5. /\ g \in Gates /\ s \in Settlement(Parties) /\ PartiesKnown(s) /\ s.status # "none" /\ s.payer \in Payers
      /\ read.gate \in Gate /\ read.authorization \in Authorization
  BY ReadFields
<1>6. Moved
  BY <1>1, <1>2, <1>3, <1>5, VerifyMoved
<1>7. RunsTyped' /\ GatesTyped'
  BY <1>1, <1>2, <1>4, <1>5, VerifyTyped
<1>8. TypeInv'
  BY <1>1, <1>4, <1>6, <1>7, TypeInvPartsNext DEF Moved, TypeInv, TypeOK
<1> QED BY <1>2, <1>5, <1>8, VerifyPayers DEF Kept

(* The end of one whose proof is invalid. *)
LEMMA RefusalEnds ==
  ASSUME RaceInv, NEW c \in Calls, RefuseVerify(c), calls[c] \in KnownRead
  PROVE  Kept
<1> DEFINE read == calls[c]
           m == [gate |-> read.id, agent |-> read.settlement.payer, id |-> "zk"]
           queued == [id |-> "zk", status |-> "queued"]
           x == [read EXCEPT !.dispatch = queued]
<1>1. CASE UNCHANGED vars
  BY <1>1, RecordsStay
<1>2. CASE /\ UpsertGate(x) /\ outbox' = Append(outbox, m)
           /\ UNCHANGED <<wallets, runVars, cursor, unwinding, funded, lifecycle, reserveMode>>
  <2>1. /\ TypeInv /\ GatesTyped /\ RunsTyped /\ RestTyped
        /\ wallets \in [Agents -> Wallet] /\ funded \in [Agents -> Nat]
    BY TypeInvParts DEF RaceInv
  <2>2. m \in Message /\ queued \in Dispatch
    BY ReadFields DEF Message, DispatchIds, Dispatch
  <2>3. RestTyped'
    BY <1>2, <2>1, <2>2, MessageQueued
  <2>4. /\ x.id = read.id /\ x.gate = read.gate /\ x.authorization = read.authorization
        /\ x.reversal = read.reversal /\ x.dispatch = queued /\ x.holdback = read.holdback
    BY DEF KnownRead, Read
  <2> HIDE DEF x
  <2>5. GatesTyped'
    BY <1>2, <2>1, <2>2, <2>4, ReadFields, UpsertTyped
  <2>6. TypeInv'
    BY <1>2, <2>1, <2>3, <2>5, RunsKept, TypeInvPartsNext
  <2> QED BY <1>2, <2>6 DEF Kept, RaceInv, runVars
<1> QED BY <1>1, <1>2 DEF RefuseVerify

(* The handlers that await nothing. *)
LEMMA NextKept ==
  ASSUME RaceInv, Next
  PROVE  Kept
<1>1. TypeInv /\ TypeInv'
  BY StepSound DEF RaceInv
<1>2. settlements \in [Gates -> Settlement(Parties)] /\ holdbackRuns \in [Gates -> Settlement(Parties)]
  BY <1>1 DEF TypeInv, TypeOK, Parties
<1>3. CASE UNCHANGED runVars
  BY <1>1, <1>3 DEF Kept, RaceInv, runVars
<1>4. ASSUME NEW g \in Gates, NEW s, settlements' = [settlements EXCEPT ![g] = s], PaidByPayer(s),
             holdbackRuns' = holdbackRuns
      PROVE  Kept
  BY <1>1, <1>2, <1>4 DEF Kept, RaceInv
<1>5. ASSUME NEW g \in Gates, NEW payer \in Payers, NEW payee, NEW n, NEW fund, NEW bps, NEW window,
             CreateGate(g, payer, payee, n, fund, bps, window)
      PROVE  Kept
  <2>1. PaidByPayer(createAgentRunSettlement(payer, payee, n))
    BY DEF PaidByPayer, createAgentRunSettlement
  <2> QED BY <1>4, <1>5, <2>1 DEF CreateGate
<1>6. ASSUME NEW g \in Gates, NEW r, VerifyGate(g, r)
      PROVE  Kept
  <2>1. settlements[g] \in Settlement(Parties) /\ settlements[g].payer \in Payers
    BY <1>2, <1>6 DEF RaceInv, PaidByPayer, VerifyGate, MayVerify
  <2> QED BY <1>1, <1>6, <2>1, VerifyPayers DEF VerifyGate, Kept
<1>7. ASSUME NEW g \in Gates, settlements[g].status = "locked", VoidEffect(g), holdbackRuns' = holdbackRuns
      PROVE  Kept
  <2>1. PaidByPayer(resolveAgentRunSettlement(settlements[g], "refunded", 0, settlements[g].amount))
    BY <1>2, <1>7 DEF RaceInv, PaidByPayer, resolveAgentRunSettlement, Settlement
  <2> QED BY <1>4, <1>7, <2>1 DEF VoidEffect
<1>8. ASSUME NEW g \in Gates, AcceptRefund(g)
      PROVE  Kept
  <2>1. PaidByPayer(refundReleasedAgentRunSettlement(settlements[g]))
    BY <1>2, <1>8 DEF RaceInv, PaidByPayer, refundReleasedAgentRunSettlement, Settlement, AcceptRefund, CanRefundReleased
  <2> QED BY <1>4, <1>8, <2>1 DEF AcceptRefund
<1>9. ASSUME NEW g \in Gates, ReleaseHoldback(g)
      PROVE  Kept
  <2>1. CASE holdbackRuns' = holdbackRuns
    BY <1>3, <1>9, <2>1 DEF ReleaseHoldback, runVars
  <2>2. CASE holdbackRuns' # holdbackRuns
    <3> DEFINE h == resolveAgentRunSettlement(holdbackRuns[g], "released", holdback[g].amount, 0)
    <3>1. PaidByPayer(h)
      BY <1>2, <1>9, <2>2 DEF RaceInv, PaidByPayer, resolveAgentRunSettlement, Settlement, ReleaseHoldback
    <3>2. holdbackRuns' = [holdbackRuns EXCEPT ![g] = h] /\ settlements' = settlements
      BY <1>9, <2>2 DEF ReleaseHoldback
    <3> HIDE DEF h
    <3> QED BY <1>1, <1>2, <3>1, <3>2 DEF Kept, RaceInv
  <2> QED BY <2>1, <2>2
<1>10. ASSUME NEW g \in Gates, VoidAuthorization(g)
       PROVE  Kept
  BY <1>7, <1>10 DEF VoidAuthorization
<1>11. ASSUME ProcessVoid
       PROVE  Kept
  <2>1. NextMessage \in Message
    BY <1>1, <1>11, TypeInvParts, MessageTaken DEF ProcessVoid
  <2>2. NextMessage.gate \in Gates
    BY <2>1 DEF Message
  <2> QED BY <1>7, <1>11, <2>2 DEF ProcessVoid, MessageVoids
<1> QED BY <1>3, <1>5, <1>6, <1>8, <1>9, <1>10, <1>11 DEF Next, LocalNext, CreditWallet, SetLifecycle, FreezeAgent,
     SweepInsolvent, UnwindFrozen, IssueQuote, QuoteExpires, AuthorizePayment, ReserveFails,
     enqueueZkProofAutoVoid, RequestRefund, DenyRefund, HoldbackWindowEnds, ProcessSkip, ProcessThrows, Crash

(* The steps of RaceNext, by what they do to the records. *)
LEMMA RaceCases ==
  ASSUME RaceInv, RaceNext
  PROVE  \/ Next
         \/ \E c \in Calls : calls[c] \in KnownRead /\ (FinishAuthorize(c) \/ FailAuthorize(c))
         \/ \E c \in Calls : calls[c] \in KnownRead /\ (FinishVerify(c) \/ RefuseVerify(c))
         \/ \E c \in Calls \cup {Worker} : calls[c] \in KnownRead /\ FinishVoid(c)
         \/ StartProcessVoid
         \/ UNCHANGED vars
<1>1. \A c \in Calls \cup {Worker} : calls[c] # Idle => calls[c] \in KnownRead
  BY DEF RaceInv
<1>2. ASSUME LocalNext \/ UnreservedNext
      PROVE  Next
  BY <1>2 DEF Next, UnreservedNext
<1>3. ASSUME NEW c \in Calls, NEW g \in Gates, StartAuthorize(c, g) \/ StartVoid(c, g) \/ StartVerify(c, g)
      PROVE  UNCHANGED vars
  BY <1>3 DEF StartAuthorize, StartVoid, StartVerify
<1>4. ASSUME NEW c \in Calls, FinishAuthorize(c) \/ FailAuthorize(c) \/ FinishVerify(c) \/ RefuseVerify(c)
      PROVE  calls[c] \in KnownRead
  BY <1>1, <1>4 DEF FinishAuthorize, FailAuthorize, FinishVerify, RefuseVerify, Returns
<1>5. ASSUME NEW c \in Calls \cup {Worker}, FinishVoid(c)
      PROVE  calls[c] \in KnownRead
  BY <1>1, <1>5 DEF FinishVoid, Returns
<1>6. ASSUME NEW c, RejectVerify(c) \/ FailVoid(c)
      PROVE  UNCHANGED vars
  BY <1>6 DEF RejectVerify, FailVoid
<1>7. CrashCalls => Next
  BY DEF CrashCalls, Next
<1> QED BY <1>2, <1>3, <1>4, <1>5, <1>6, <1>7 DEF RaceNext

(* The worker takes a message. *)
LEMMA ProcessStarts ==
  ASSUME RaceInv, StartProcessVoid
  PROVE  /\ Kept
         /\ calls' \in [Calls \cup {Worker} -> KnownRead \cup {Idle}]
<1>1. TypeInv /\ RunsTyped /\ GatesTyped /\ RestTyped /\ wallets \in [Agents -> Wallet] /\ funded \in [Agents -> Nat]
  BY TypeInvParts DEF RaceInv
<1> DEFINE m == NextMessage
           w == RefundedHold(m.gate)
<1>2. /\ TakeMessage /\ MessageVoids(m) /\ CanRefundHold(m.gate)
      /\ Start(Worker, Reads("void", m.gate, w, m.id))
      /\ UNCHANGED <<wallets, runVars, gateVars, unwinding, funded, lifecycle, reserveMode>>
  BY DEF StartProcessVoid
<1>3. m \in Message /\ outbox' = outbox /\ cursor' \in 0 .. Len(outbox')
  BY <1>1, <1>2, MessageTaken
<1> HIDE DEF m
<1>4. m.gate \in Gates /\ m.id \in DispatchIds
  BY <1>3 DEF Message
<1>5. RestTyped'
  BY <1>1, <1>2, <1>3 DEF RestTyped
<1>6. TypeInv'
  BY <1>1, <1>2, <1>5, RunsKept, GatesKept, TypeInvPartsNext
<1>7. settlements[m.gate].status = "locked"
  BY <1>2 DEF MessageVoids
<1>8. w \in [Agents -> Wallet]
  BY <1>1, <1>2, <1>4, <1>7, KnownSettlement, RefundMoves DEF CanRefundHold, RefundedHold
<1> HIDE DEF w
<1>9. Reads("void", m.gate, w, m.id) \in KnownRead
  BY <1>4, <1>7, <1>8, ReadKnown
<1>10. calls' \in [Calls \cup {Worker} -> KnownRead \cup {Idle}]
  BY <1>2, <1>9 DEF Start, RaceInv
<1> QED BY <1>2, <1>6, <1>10 DEF Kept, RaceInv, runVars

(* A call that starts has read records of its types. *)
LEMMA CallStarts ==
  ASSUME RaceInv, NEW c \in Calls, NEW g \in Gates, StartAuthorize(c, g) \/ StartVoid(c, g) \/ StartVerify(c, g)
  PROVE  calls' \in [Calls \cup {Worker} -> KnownRead \cup {Idle}]
<1>1. TypeInv /\ wallets \in [Agents -> Wallet]
  BY TypeInvParts DEF RaceInv
<1>2. settlements[g].status = "locked"
  BY DEF StartAuthorize, StartVoid, StartVerify, MayAuthorize, MayVerify
<1>3. ASSUME NEW kind \in {"authorize", "void", "verify"}, NEW w \in [Agents -> Wallet],
             Start(c, Reads(kind, g, w, "none"))
      PROVE  calls' \in [Calls \cup {Worker} -> KnownRead \cup {Idle}]
  <2>1. Reads(kind, g, w, "none") \in KnownRead
    BY <1>2, <1>3, ReadKnown DEF DispatchIds
  <2> QED BY <1>3, <2>1 DEF Start, RaceInv
<1>4. CASE StartAuthorize(c, g)
  <2>1. Relocked(g) \in [Agents -> Wallet]
    BY <1>1, <1>4, RelockMoves DEF StartAuthorize
  <2> QED BY <1>3, <1>4, <2>1 DEF StartAuthorize
<1>5. CASE StartVoid(c, g)
  <2>1. RefundedHold(g) \in [Agents -> Wallet]
    BY <1>1, <1>2, <1>5, KnownSettlement, RefundMoves DEF StartVoid, CanRefundHold, RefundedHold
  <2> QED BY <1>3, <1>5, <2>1 DEF StartVoid
<1>6. CASE StartVerify(c, g)
  BY <1>1, <1>3, <1>6 DEF StartVerify
<1> QED BY <1>4, <1>5, <1>6

(* The calls keep to what they have read until they end. *)
LEMMA CallsKept ==
  ASSUME RaceInv, RaceNext
  PROVE  calls' \in [Calls \cup {Worker} -> KnownRead \cup {Idle}]
<1>1. calls \in [Calls \cup {Worker} -> KnownRead \cup {Idle}]
  BY DEF RaceInv
<1>2. ASSUME NEW c \in Calls \cup {Worker}, NEW kind, Returns(c, kind)
      PROVE  calls' \in [Calls \cup {Worker} -> KnownRead \cup {Idle}]
  BY <1>1, <1>2 DEF Returns
<1>3. CASE UNCHANGED calls
  BY <1>1, <1>3
<1>4. CASE CrashCalls
  BY <1>4 DEF CrashCalls
<1> QED BY <1>2, <1>3, <1>4, CallStarts, ProcessStarts DEF RaceNext, FinishAuthorize, FailAuthorize, FinishVerify,
     RefuseVerify, RejectVerify, FinishVoid, FailVoid

(* The types are an invariant of the races. *)
LEMMA RaceInvariance == RaceSpec => []RaceInv
<1>1. RaceInit => RaceInv
  <2>1. ASSUME RaceInit
        PROVE  RaceInv
    <3>1. TypeInv
      BY <2>1, InitTyped DEF RaceInit
    <3>2. \A g \in Gates : PaidByPayer(settlements[g]) /\ PaidByPayer(holdbackRuns[g])
      BY <2>1 DEF RaceInit, Init, NoSettlement, PaidByPayer
    <3> QED BY <2>1, <3>1, <3>2 DEF RaceInit, RaceInv
  <2> QED BY <2>1
<1>2. RaceInv /\ [RaceNext]_raceVars => RaceInv'
  <2>1. ASSUME RaceInv, RaceNext
        PROVE  RaceInv'
    <3>1. Kept
      BY <2>1, RaceCases, NextKept, AuthorizeEnds, VoidEnds, VerifyEnds, RefusalEnds, ProcessStarts, RecordsStay
    <3> QED BY <2>1, <3>1, CallsKept DEF Kept, RaceInv
  <2>2. ASSUME RaceInv, UNCHANGED raceVars
        PROVE  RaceInv'
    <3>1. Kept
      BY <2>2, RecordsStay DEF raceVars
    <3> QED BY <2>2, <3>1 DEF Kept, RaceInv, raceVars
  <2> QED BY <2>1, <2>2
<1> QED BY <1>1, <1>2, PTL DEF RaceSpec

(* Whatever calls write back late, every record stays well formed and no
   balance goes below zero, for every number of calls under way. *)
THEOREM RaceTypeCorrect == RaceSpec => []RaceTypeOK
<1>1. RaceInv => RaceTypeOK
  <2>1. ASSUME RaceInv
        PROVE  RaceTypeOK
    <3>1. KnownRead \subseteq Read
      BY DEF KnownRead
    <3> QED BY <2>1, <3>1 DEF RaceInv, TypeInv, RaceTypeOK
  <2> QED BY <2>1
<1> QED BY <1>1, RaceInvariance, PTL

-----------------------------------------------------------------------------
(* Holdbacks. *)

PaidStays(g) == holdbackRuns[g].status = "released" => holdbackRuns'[g] = holdbackRuns[g]

(* A verification finds the holdback settlement as it is, whenever the other
   records were read, and takes one that is resolved as it is. *)
LEMMA VerifyPaysOnce ==
  ASSUME RaceInv, NEW g \in Gates, NEW s, NEW gate, NEW au, NEW r, VerifyEffect(g, s, gate, au, r),
         NEW h \in Gates
  PROVE  PaidStays(h)
<1>1. holdbackRuns \in [Gates -> Settlement(Parties)]
  BY DEF RaceInv, TypeInv, TypeOK, Parties
<1>2. /\ \E x : holdbackRuns' = [holdbackRuns EXCEPT ![g] = x]
      /\ holdbackRuns[g].status = "released" => holdbackRuns' = [holdbackRuns EXCEPT ![g] = holdbackRuns[g]]
  BY VerifyUnfolds DEF VerifyCases
<1> QED BY <1>1, <1>2 DEF PaidStays

(* So do all other steps. *)
LEMMA StepPaysOnce ==
  ASSUME RaceInv, RaceNext, NEW h \in Gates
  PROVE  PaidStays(h)
<1>1. holdbackRuns \in [Gates -> Settlement(Parties)]
  BY DEF RaceInv, TypeInv, TypeOK, Parties
<1>2. CASE holdbackRuns' = holdbackRuns
  BY <1>2 DEF PaidStays
<1>3. ASSUME Next
      PROVE  PaidStays(h)
  <2>1. ASSUME NEW g \in Gates, NEW r, VerifyGate(g, r)
        PROVE  PaidStays(h)
    BY <2>1, VerifyPaysOnce DEF VerifyGate
  <2>2. ASSUME NEW g \in Gates, ReleaseHoldback(g)
        PROVE  PaidStays(h)
    BY <1>1, <2>2 DEF ReleaseHoldback, PaidStays
  <2> QED BY <1>2, <1>3, <2>1, <2>2 DEF Next, LocalNext, runVars, CreditWallet, SetLifecycle, FreezeAgent,
       SweepInsolvent, UnwindFrozen, CreateGate, IssueQuote, QuoteExpires, AuthorizePayment, ReserveFails,
       VoidAuthorization, enqueueZkProofAutoVoid, RequestRefund, DenyRefund, AcceptRefund, HoldbackWindowEnds,
       ProcessVoid, ProcessSkip, ProcessThrows, Crash
<1>4. ASSUME NEW c \in Calls, FinishVerify(c), calls[c] \in KnownRead
      PROVE  PaidStays(h)
  <2>1. calls[c].id \in Gates
    BY <1>4, ReadFields
  <2> QED BY <1>4, <2>1, VerifyPaysOnce DEF FinishVerify
<1>5. ASSUME NEW c, FinishAuthorize(c) \/ FailAuthorize(c) \/ RefuseVerify(c) \/ FinishVoid(c)
      PROVE  PaidStays(h)
  BY <1>2, <1>5 DEF FinishAuthorize, FailAuthorize, RefuseVerify, FinishVoid, runVars, vars
<1>6. CASE StartProcessVoid \/ UNCHANGED vars
  BY <1>2, <1>6 DEF StartProcessVoid, vars, runVars
<1> QED BY <1>3, <1>4, <1>5, <1>6, RaceCases

(* A holdback is paid once, however many verifications of its gate overlap,
   whatever they have read and whenever the process stops. *)
THEOREM HoldbacksPaidOnce == RaceSpec => HoldbackPaidOnce
<1>1. RaceInv /\ [RaceNext]_raceVars => [\A g \in Gates : PaidStays(g)]_raceVars
  BY StepPaysOnce
<1> QED BY <1>1, RaceInvariance, PTL DEF RaceSpec, HoldbackPaidOnce, PaidStays

-----------------------------------------------------------------------------
(* What payees own. *)

Purse == [exists : BOOLEAN, available : Int, escrow : Int]

Own(w, a) == w[a].available + w[a].escrow

(* The wallets w2 leave agent a what it owns in w, or more. *)
Leaves(w, w2, a) == w2 \in [Agents -> Purse] /\ Own(w2, a) >= Own(w, a)

(* Writing a wallet that holds no less. *)
LEMMA PurseWritten ==
  ASSUME NEW w \in [Agents -> Purse], NEW b \in Agents, NEW x \in Purse, NEW a \in Agents,
         x.available + x.escrow >= w[b].available + w[b].escrow,
         NEW v, v = [w EXCEPT ![b] = x]
  PROVE  Leaves(w, v, a)
BY DEF Leaves, Own, Purse

(* Only what is paid out of the escrow of an agent makes it poorer. *)
LEMMA MovesLeave ==
  ASSUME NEW w \in [Agents -> Purse], NEW b \in Agents, NEW n \in Nat, NEW a \in Agents
  PROVE  /\ Leaves(w, ensureAgentWallet(w, b), a)
         /\ Leaves(w, creditAgentWallet(w, b, n), a)
         /\ Leaves(w, lockAgentWalletEscrow(w, b, n), a)
         /\ Leaves(w, refundAgentWalletEscrow(w, b, n), a)
         /\ \A q \in Agents : a # b => Leaves(w, releaseAgentWalletEscrowToPayee(w, b, q, n), a)
<1>1. Leaves(w, ensureAgentWallet(w, b), a)
  <2> DEFINE x == [w[b] EXCEPT !.exists = TRUE]
  <2>1. x \in Purse /\ x.available = w[b].available /\ x.escrow = w[b].escrow
    BY DEF Purse
  <2>2. ensureAgentWallet(w, b) = [w EXCEPT ![b] = x]
    BY DEF ensureAgentWallet
  <2> HIDE DEF x
  <2>3. w[b].available \in Int /\ w[b].escrow \in Int
    BY DEF Purse
  <2>4. x \in Purse /\ x.available + x.escrow >= w[b].available + w[b].escrow
    BY <2>1, <2>3
  <2> QED BY <2>2, <2>4, PurseWritten
<1>2. Leaves(w, creditAgentWallet(w, b, n), a)
  <2> DEFINE x == [w[b] EXCEPT !.available = @ + n]
  <2>1. x \in Purse /\ x.available = w[b].available + n /\ x.escrow = w[b].escrow
    BY DEF Purse
  <2>2. creditAgentWallet(w, b, n) = [w EXCEPT ![b] = x]
    BY DEF creditAgentWallet
  <2> HIDE DEF x
  <2>3. w[b].available \in Int /\ w[b].escrow \in Int
    BY DEF Purse
  <2>4. x \in Purse /\ x.available + x.escrow >= w[b].available + w[b].escrow
    BY <2>1, <2>3
  <2> QED BY <2>2, <2>4, PurseWritten
<1>3. Leaves(w, lockAgentWalletEscrow(w, b, n), a)
  <2> DEFINE y == [w[b] EXCEPT !.available = @ - n]
             x == [y EXCEPT !.escrow = @ + n]
  <2>1. lockAgentWalletEscrow(w, b, n) = [w EXCEPT ![b] = x]
    BY DEF lockAgentWalletEscrow
  <2>2. y \in Purse /\ y.available = w[b].available - n /\ y.escrow = w[b].escrow
    BY DEF Purse
  <2> HIDE DEF y
  <2>3. x \in Purse /\ x.available = y.available /\ x.escrow = y.escrow + n
    BY <2>2 DEF Purse
  <2> HIDE DEF x
  <2>4. w[b].available \in Int /\ w[b].escrow \in Int
    BY DEF Purse
  <2>5. x \in Purse /\ x.available + x.escrow >= w[b].available + w[b].escrow
    BY <2>2, <2>3, <2>4
  <2> QED BY <2>1, <2>5, PurseWritten
<1>4. Leaves(w, refundAgentWalletEscrow(w, b, n), a)
  <2> DEFINE y == [w[b] EXCEPT !.escrow = @ - n]
             x == [y EXCEPT !.available = @ + n]
  <2>1. refundAgentWalletEscrow(w, b, n) = [w EXCEPT ![b] = x]
    BY DEF refundAgentWalletEscrow
  <2>2. y \in Purse /\ y.escrow = w[b].escrow - n /\ y.available = w[b].available
    BY DEF Purse
  <2> HIDE DEF y
  <2>3. x \in Purse /\ x.escrow = y.escrow /\ x.available = y.available + n
    BY <2>2 DEF Purse
  <2> HIDE DEF x
  <2>4. w[b].available \in Int /\ w[b].escrow \in Int
    BY DEF Purse
  <2>5. x \in Purse /\ x.available + x.escrow >= w[b].available + w[b].escrow
    BY <2>2, <2>3, <2>4
  <2> QED BY <2>1, <2>5, PurseWritten
<1>5. ASSUME NEW q \in Agents, a # b
      PROVE  Leaves(w, releaseAgentWalletEscrowToPayee(w, b, q, n), a)
  BY <1>5 DEF Leaves, Own, Purse, releaseAgentWalletEscrowToPayee
<1> QED BY <1>1, <1>2, <1>3, <1>4, <1>5

(* A chain of movements. *)
LEMMA LeavesChain ==
  ASSUME NEW w \in [Agents -> Purse], NEW v \in [Agents -> Purse], NEW u, NEW a \in Agents,
         Leaves(w, v, a), Leaves(v, u, a)
  PROVE  Leaves(w, u, a)
BY DEF Leaves, Own, Purse

(* Wallets are purses that are not in debt. *)
LEMMA WalletsArePurses == [Agents -> Wallet] \subseteq [Agents -> Purse]
BY DEF Wallet, Purse

(* A verification takes money from the payer it has read, and from no one
   else. *)
LEMMA VerifyLeaves ==
  ASSUME wallets \in [Agents -> Wallet], NEW g \in Gates,
         NEW s \in Settlement(Parties), PartiesKnown(s), s.status # "none",
         NEW gate \in Gate, NEW au, NEW r, VerifyEffect(g, s, gate, au, r),
         NEW a \in Agents, a # s.payer
  PROVE  Leaves(wallets, wallets', a)
<1> DEFINE p == s.payer
           q == s.payee
           n == s.amount
           hb == HoldbackOf(r, gate.bps)
           now == r - hb
           w1 == releaseAgentWalletEscrowToPayee(wallets, p, q, now)
           w2 == refundAgentWalletEscrow(w1, p, n - now)
           w3 == lockAgentWalletEscrow(w2, p, hb)
<1>1. \E w \in {w2, w3} : wallets' = w \/ wallets' = releaseAgentWalletEscrowToPayee(w, p, q, hb)
  BY VerifyUnfolds DEF VerifyCases, PrimarySettled
<1>2. p \in Agents /\ q \in Agents /\ n \in Nat /\ a # p
  BY DEF PartiesKnown, Settlement
<1>3. r \in Nat /\ r <= n
  <2>1. r \in 0 .. n
    BY VerifyUnfolds DEF VerifyCases
  <2> HIDE DEF n
  <2> QED BY <1>2, <2>1
<1>4. hb \in Nat /\ now \in Nat /\ n - now \in Nat
  <2>1. gate.bps \in Bps /\ hb = HoldbackOf(r, gate.bps) /\ n \in Nat
    BY <1>2 DEF Gate
  <2> HIDE DEF hb, n
  <2>2. hb \in Nat /\ r - hb \in Nat /\ (r - hb) + hb <= n
    BY <1>3, <2>1, ReleaseSplits
  <2> QED BY <1>3, <2>1, <2>2
<1>5. wallets \in [Agents -> Purse]
  BY WalletsArePurses
<1> HIDE DEF p, q, n, hb, now
<1>6. Leaves(wallets, w1, a) /\ w1 \in [Agents -> Purse]
  BY <1>2, <1>4, <1>5, MovesLeave DEF Leaves
<1> HIDE DEF w1
<1>7. Leaves(w1, w2, a) /\ w2 \in [Agents -> Purse]
  BY <1>2, <1>4, <1>6, MovesLeave DEF Leaves
<1> HIDE DEF w2
<1>8. Leaves(w2, w3, a) /\ w3 \in [Agents -> Purse]
  BY <1>2, <1>4, <1>7, MovesLeave DEF Leaves
<1> HIDE DEF w3
<1>9. \A w \in {w2, w3} : w \in [Agents -> Purse] /\ Leaves(wallets, w, a)
  BY <1>5, <1>6, <1>7, <1>8, LeavesChain
<1>10. ASSUME NEW w \in {w2, w3}
       PROVE  Leaves(wallets, releaseAgentWalletEscrowToPayee(w, p, q, hb), a)
  <2>1. Leaves(w, releaseAgentWalletEscrowToPayee(w, p, q, hb), a)
    BY <1>2, <1>4, <1>9, MovesLeave
  <2> QED BY <1>5, <1>9, <2>1, LeavesChain
<1> QED BY <1>1, <1>9, <1>10

(* Agent a loses nothing but a refund it accepts. *)
KeepsMoney(a) ==
  \/ Balances'[a] >= Balances[a]
  \/ \E g \in Gates :
       /\ settlements[g].payee = a
       /\ reversal[g].status = "refund_pending" /\ reversal'[g].status = "refunded"
       /\ Balances'[a] + reversal[g].amount = Balances[a]

(* Wallets that leave an agent its money. *)
LEMMA LeavesKeeps ==
  ASSUME NEW a \in Agents, Leaves(wallets, wallets', a)
  PROVE  KeepsMoney(a)
BY DEF Leaves, Own, KeepsMoney, Balances

(* An accepted refund takes from the payee exactly the refund. *)
LEMMA AcceptKeeps ==
  ASSUME TypeInv, NEW g \in Gates, AcceptRefund(g), NEW a \in Agents
  PROVE  KeepsMoney(a)
<1> DEFINE p == settlements[g].payer
           q == settlements[g].payee
           m == reversal[g].amount
<1>1. settlements[g].status # "none"
  BY DEF AcceptRefund, CanRefundReleased
<1>2. p \in Agents /\ q \in Agents /\ p # q /\ m \in Nat /\ wallets \in [Agents -> Wallet]
  BY <1>1, KnownSettlement
<1>3. wallets' = releaseAgentWalletEscrowToPayee(wallets, q, p, m)
  BY DEF AcceptRefund
<1>4. CASE a # q
  <2> HIDE DEF p, q, m
  <2>1. wallets \in [Agents -> Purse]
    BY <1>2, WalletsArePurses
  <2> QED BY <1>2, <1>3, <1>4, <2>1, MovesLeave, LeavesKeeps
<1>5. CASE a = q
  <2>1. reversal[g].status = "refund_pending" /\ reversal'[g].status = "refunded"
    BY DEF AcceptRefund, MayResolveRefund, TypeInv, TypeOK
  <2>2. Balances'[a] + m = Balances[a]
    <3> HIDE DEF p, q, m
    <3>1. wallets'[a].escrow = wallets[a].escrow - m /\ wallets'[a].available = wallets[a].available
      BY <1>2, <1>3, <1>5 DEF releaseAgentWalletEscrowToPayee, Wallet
    <3>2. wallets[a].escrow \in Nat /\ wallets[a].available \in Nat
      BY <1>2 DEF Wallet
    <3> QED BY <1>2, <3>1, <3>2 DEF Balances
  <2> QED BY <1>5, <2>1, <2>2 DEF KeepsMoney
<1> QED BY <1>4, <1>5

(* The handlers that await nothing. *)
LEMMA NextKeepsMoney ==
  ASSUME RaceInv, Next, NEW a \in Agents \ Payers
  PROVE  KeepsMoney(a)
<1>1. TypeInv /\ wallets \in [Agents -> Wallet] /\ wallets \in [Agents -> Purse] /\ RestTyped
  BY WalletsArePurses, TypeInvParts DEF RaceInv
<1>2. CASE wallets' = wallets
  <2>1. Leaves(wallets, wallets', a)
    BY <1>1, <1>2 DEF Leaves, Own, Purse
  <2> QED BY <2>1, LeavesKeeps
<1>3. ASSUME NEW b \in Agents, NEW n \in Nat,
             \/ wallets' = lockAgentWalletEscrow(wallets, b, n)
             \/ wallets' = refundAgentWalletEscrow(wallets, b, n)
      PROVE  KeepsMoney(a)
  BY <1>1, <1>3, MovesLeave, LeavesKeeps
<1>4. ASSUME NEW g \in Gates, settlements[g].status # "none"
      PROVE  /\ settlements[g].payer \in Agents /\ settlements[g].payee \in Agents /\ settlements[g].payer # a
             /\ settlements[g].amount \in Nat /\ settlements[g].released \in Nat /\ reversal[g].amount \in Nat
  BY <1>1, <1>4, KnownSettlement DEF RaceInv, PaidByPayer
<1>5. ASSUME NEW b \in Agents, NEW n \in Nat, CreditWallet(b, n)
      PROVE  KeepsMoney(a)
  <2> DEFINE w == ensureAgentWallet(wallets, b)
  <2>1. Leaves(wallets, w, a) /\ w \in [Agents -> Purse] /\ wallets' = creditAgentWallet(w, b, n)
    BY <1>1, <1>5, MovesLeave DEF Leaves, CreditWallet
  <2> HIDE DEF w
  <2>2. Leaves(w, wallets', a)
    BY <1>5, <2>1, MovesLeave
  <2> QED BY <1>1, <2>1, <2>2, LeavesChain, LeavesKeeps
<1>6. ASSUME NEW g \in Gates, NEW payer \in Agents, NEW payee \in Agents, NEW n \in Nat, NEW fund \in Nat,
             NEW bps, NEW window, CreateGate(g, payer, payee, n, fund, bps, window)
      PROVE  KeepsMoney(a)
  <2> DEFINE auto == AutoFund(payer, fund)
             w1 == ensureAgentWallet(wallets, payer)
             w2 == ensureAgentWallet(w1, payee)
             w3 == creditAgentWallet(w2, payer, auto)
             w4 == lockAgentWalletEscrow(w3, payer, n)
  <2>1. wallets' = w4 /\ auto \in Nat
    BY <1>6 DEF CreateGate, AutoFund
  <2> HIDE DEF auto
  <2>2. Leaves(wallets, w1, a) /\ w1 \in [Agents -> Purse]
    BY <1>1, MovesLeave DEF Leaves
  <2> HIDE DEF w1
  <2>3. Leaves(w1, w2, a) /\ w2 \in [Agents -> Purse]
    BY <2>2, MovesLeave DEF Leaves
  <2> HIDE DEF w2
  <2>4. Leaves(w2, w3, a) /\ w3 \in [Agents -> Purse]
    BY <2>1, <2>3, MovesLeave DEF Leaves
  <2> HIDE DEF w3
  <2>5. Leaves(w3, w4, a)
    BY <2>4, MovesLeave
  <2> HIDE DEF w4
  <2> QED BY <1>1, <2>1, <2>2, <2>3, <2>4, <2>5, LeavesChain, LeavesKeeps
<1>7. ASSUME NEW g \in Gates, AuthorizePayment(g) \/ ReserveFails(g)
      PROVE  KeepsMoney(a)
  <2> DEFINE p == settlements[g].payer
             n == settlements[g].amount
             w == Relocked(g)
  <2>1. p \in Agents /\ n \in Nat
    BY <1>4, <1>7 DEF AuthorizePayment, ReserveFails, MayAuthorize
  <2>2. w = wallets \/ w = lockAgentWalletEscrow(wallets, p, n)
    BY DEF Relocked
  <2>3. wallets' = w \/ wallets' = refundAgentWalletEscrow(w, p, n)
    BY <1>7 DEF AuthorizePayment, ReserveFails
  <2> HIDE DEF w, p, n
  <2>4. Leaves(wallets, w, a) /\ w \in [Agents -> Purse]
    BY <1>1, <2>1, <2>2, MovesLeave DEF Leaves, Own, Purse
  <2>5. Leaves(w, refundAgentWalletEscrow(w, p, n), a)
    BY <2>1, <2>4, MovesLeave
  <2> QED BY <1>1, <2>3, <2>4, <2>5, LeavesChain, LeavesKeeps
<1>8. ASSUME NEW g \in Gates, NEW r, VerifyGate(g, r)
      PROVE  KeepsMoney(a)
  <2>1. settlements[g].status # "none" /\ VerifyEffect(g, settlements[g], gates[g], authorization[g], r)
    BY <1>8 DEF VerifyGate, MayVerify
  <2>2. /\ settlements[g] \in Settlement(Parties) /\ PartiesKnown(settlements[g]) /\ gates[g] \in Gate
        /\ a # settlements[g].payer
    BY <1>1, <1>4, <2>1 DEF TypeInv, TypeOK, Parties
  <2> QED BY <1>1, <2>1, <2>2, VerifyLeaves, LeavesKeeps
<1>9. ASSUME NEW g \in Gates, settlements[g].status = "locked", VoidEffect(g)
      PROVE  KeepsMoney(a)
  BY <1>3, <1>4, <1>9 DEF VoidEffect
<1>10. ASSUME NEW g \in Gates, VoidAuthorization(g)
       PROVE  KeepsMoney(a)
  BY <1>9, <1>10 DEF VoidAuthorization
<1>11. ASSUME ProcessVoid
       PROVE  KeepsMoney(a)
  <2>1. NextMessage \in Message
    BY <1>1, <1>11, MessageTaken DEF ProcessVoid
  <2>2. NextMessage.gate \in Gates
    BY <2>1 DEF Message
  <2> QED BY <1>9, <1>11, <2>2 DEF ProcessVoid, MessageVoids
<1>12. ASSUME NEW g \in Gates, RequestRefund(g) \/ DenyRefund(g)
       PROVE  KeepsMoney(a)
  <2>1. settlements[g].status # "none"
    <3>1. settlements[g].status = "none" => settlements[g].released = 0
      BY <1>1 DEF TypeInv, PartiesKnown
    <3>2. settlements[g].released > 0
      BY <1>12 DEF RequestRefund, DenyRefund, MayResolveRefund
    <3> QED BY <3>1, <3>2
  <2> QED BY <1>3, <1>4, <1>12, <2>1 DEF RequestRefund, DenyRefund
<1>13. ASSUME NEW g \in Gates, ReleaseHoldback(g)
       PROVE  KeepsMoney(a)
  <2> DEFINE h == holdbackRuns[g]
             n == holdback[g].amount
  <2>1. h.payer \in Agents /\ h.payee \in Agents /\ a # h.payer /\ n \in Nat
    BY <1>1, <1>13 DEF ReleaseHoldback, RaceInv, PaidByPayer, TypeInv, TypeOK, PartiesKnown, Holdback
  <2>2. wallets' = wallets \/ wallets' = releaseAgentWalletEscrowToPayee(wallets, h.payer, h.payee, n)
    BY <1>13 DEF ReleaseHoldback
  <2> HIDE DEF h, n
  <2> QED BY <1>1, <1>2, <2>1, <2>2, MovesLeave, LeavesKeeps
<1>14. /\ Payers \subseteq Agents /\ Credited \subseteq Agents /\ Funds \cup {0} \subseteq Nat
       /\ Amounts \subseteq Nat /\ Funds \subseteq Nat
  BY ConstantTypes
<1>15. ASSUME NEW b \in Credited, NEW n \in Funds, CreditWallet(b, n)
       PROVE  KeepsMoney(a)
  BY <1>5, <1>14, <1>15
<1>16. ASSUME NEW g \in Gates, NEW payer \in Payers, NEW payee \in Agents, NEW n \in Amounts, NEW fund \in Funds \cup {0},
              NEW bps, NEW window, CreateGate(g, payer, payee, n, fund, bps, window)
       PROVE  KeepsMoney(a)
  BY <1>6, <1>14, <1>16
<1> QED BY <1>1, <1>2, <1>7, <1>8, <1>10, <1>11, <1>12, <1>13, <1>15, <1>16, AcceptKeeps DEF Next, LocalNext,
     SetLifecycle, FreezeAgent, SweepInsolvent, UnwindFrozen, IssueQuote, QuoteExpires, enqueueZkProofAutoVoid,
     HoldbackWindowEnds, ProcessSkip, ProcessThrows, Crash

(* A call that ends writes the wallet of the payer it has read. *)
LEMMA EndKeepsMoney ==
  ASSUME RaceInv, NEW c, calls[c] \in KnownRead, FinishAuthorize(c) \/ FailAuthorize(c) \/ FinishVoid(c),
         NEW a \in Agents \ Payers
  PROVE  KeepsMoney(a)
<1> DEFINE read == calls[c]
           p == read.settlement.payer
           w == UpsertWallet(read)
<1>1. wallets \in [Agents -> Wallet] /\ wallets \in [Agents -> Purse]
  BY WalletsArePurses DEF RaceInv, TypeInv, TypeOK
<1>2. /\ p \in Agents /\ a # p /\ read.settlement.amount \in Nat
      /\ w \in [Agents -> Wallet] /\ w[a] = wallets[a]
  BY <1>1, ReadFields DEF UpsertWallet
<1>3. wallets' \in {wallets, w, refundAgentWalletEscrow(w, p, read.settlement.amount)}
  BY DEF FinishAuthorize, FailAuthorize, FinishVoid
<1> HIDE DEF w, p
<1>4. w \in [Agents -> Purse]
  BY <1>2, WalletsArePurses
<1>5. Leaves(wallets, w, a) /\ Leaves(wallets, wallets, a)
  BY <1>1, <1>2, <1>4 DEF Leaves, Own, Purse
<1>6. Leaves(w, refundAgentWalletEscrow(w, p, read.settlement.amount), a)
  BY <1>2, <1>4, MovesLeave
<1> QED BY <1>1, <1>3, <1>4, <1>5, <1>6, LeavesChain, LeavesKeeps

(* Whatever is written back late, it is the wallet of a payer: an agent that
   opens no gates loses money only to a refund it accepts, and no more than
   that refund, for every number of calls under way. *)
THEOREM PayeesKeep == RaceSpec => PayeesKeepMoney
<1>1. ASSUME RaceInv, RaceNext, NEW a \in Agents \ Payers
      PROVE  KeepsMoney(a)
  <2>1. wallets \in [Agents -> Wallet] /\ wallets \in [Agents -> Purse]
    BY <1>1, WalletsArePurses DEF RaceInv, TypeInv, TypeOK
  <2>2. CASE wallets' = wallets
    <3>1. Leaves(wallets, wallets', a)
      BY <2>1, <2>2 DEF Leaves, Own, Purse
    <3> QED BY <3>1, LeavesKeeps
  <2>3. ASSUME NEW c \in Calls, FinishVerify(c), calls[c] \in KnownRead
        PROVE  KeepsMoney(a)
    <3>1. PICK r : VerifyEffect(calls[c].id, calls[c].settlement, calls[c].gate, calls[c].authorization, r)
      BY <2>3 DEF FinishVerify
    <3>2. /\ calls[c].id \in Gates /\ calls[c].gate \in Gate /\ calls[c].settlement \in Settlement(Parties)
          /\ PartiesKnown(calls[c].settlement) /\ calls[c].settlement.status # "none"
          /\ a # calls[c].settlement.payer
      BY <2>3, ReadFields
    <3> QED BY <2>1, <3>1, <3>2, VerifyLeaves, LeavesKeeps
  <2>4. CASE StartProcessVoid \/ UNCHANGED vars
    BY <2>2, <2>4 DEF StartProcessVoid, vars
  <2>5. ASSUME NEW c, RefuseVerify(c)
        PROVE  KeepsMoney(a)
    BY <2>2, <2>5 DEF RefuseVerify, vars
  <2> QED BY <1>1, <2>3, <2>4, <2>5, RaceCases, NextKeepsMoney, EndKeepsMoney
<1>2. RaceInv /\ [RaceNext]_raceVars => [\A a \in Agents \ Payers : KeepsMoney(a)]_raceVars
  BY <1>1
<1> QED BY <1>2, RaceInvariance, PTL DEF RaceSpec, PayeesKeepMoney, KeepsMoney

=============================================================================
