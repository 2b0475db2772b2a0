------------------------------- MODULE TxLog -------------------------------
(***************************************************************************)
(* The in-memory store with PROXY_DATA_DIR: src/api/store.js commits a     *)
(* transaction by appending one line to a file (src/api/persistence.js),   *)
(* applying it to the maps in memory and processing the outbox, without    *)
(* awaiting anything; a start replays the file.  On top of it, the event   *)
(* stream of jobs with three writers of src/api/app.js: the events         *)
(* endpoint, the job accounting worker, which is driven by the outbox, and *)
(* the evidence retention worker, which awaits the evidence store between  *)
(* its read of a stream and its commit.                                    *)
(***************************************************************************)
EXTENDS Naturals, Sequences, FiniteSetsExt, SequencesExt

CONSTANTS Jobs,
          EvidenceJobs,     \* the jobs evidence is captured of
          RetentionAwaits,  \* deleteEvidence does I/O: evidence store fs or s3
          TornWrites,       \* a stop while a line is written leaves a part of it
          MaxCrashes,       \* bound: how often the process stops
          Garbage,          \* text that JSON.parse rejects
          Nothing,          \* the file ends with a newline
          None              \* no retention in progress

VARIABLES lines,             \* the file: its complete lines
          tail,              \* and what follows the last newline
          status,            \* of the process
          replayed,          \* lines applied by the replay
          events,            \* store.jobEvents: the types of the events of a job
          idempotency,       \* store.idempotency: the requests answered, <<job, type>>
          outbox,            \* store.outbox
          ledger,            \* ledger.entryIds: entry jnl_<event> is <<job, position>>
          accountingCursor,  \* store.jobAccountingCursor
          retention,         \* the stream the retention worker has read
          acked,             \* history: the requests answered with 201
          crashes            \* history

disk == <<lines, tail>>
memory == <<events, idempotency, outbox, ledger, accountingCursor>>
vars == <<disk, status, replayed, memory, retention, acked, crashes>>

(* The promise: what a load of the file brings back is durable. *)
Durable(records) == {<<r.job, r.type>> : r \in records}

ClientTypes == {"EVIDENCE_CAPTURED", "SETTLED"}

EventTypes == ClientTypes \cup {"EVIDENCE_EXPIRED", "OPERATOR_COST_RECORDED"}

(* A line: prev stands for the prevChainHash of the event, the head of the   *)
(* stream it was built on, which its length identifies.                      *)
Record == [job : Jobs, type : EventTypes, prev : Nat]

ASSUME TxLogAssumption ==
  /\ {RetentionAwaits, TornWrites} \subseteq BOOLEAN
  /\ MaxCrashes \in Nat
  /\ EvidenceJobs \subseteq Jobs
  /\ Garbage # Nothing /\ {Garbage, Nothing} \cap Record = {}
  /\ None \notin [job : Jobs, head : Nat]

Message == [type : {"LEDGER_ENTRY_APPLY", "JOB_SETTLED"}, job : Jobs, event : Nat \ {0}]

-----------------------------------------------------------------------------
(* createFileTxLog *)

(* Mutant: the last line is dropped as if it were torn. *)
LoadDropsLast == SubSeq(lines, 1, IF lines = <<>> THEN 0 ELSE Len(lines) - 1)

(* load: every line up to the first that does not parse. *)
Load ==
  LET bad == {i \in DOMAIN lines : lines[i] = Garbage}
  IN IF bad # {} THEN SubSeq(lines, 1, Min(bad) - 1)
     ELSE IF tail \notin {Garbage, Nothing} THEN Append(lines, tail) ELSE lines

(* append: a line that follows a torn one is glued to it. *)
AppendLine(r) ==
  /\ lines' = Append(lines, IF tail = Nothing THEN r ELSE Garbage)
  /\ tail' = Nothing

(* The process stops while append runs: the line is in the file, or a part   *)
(* of it, which may lack no more than the newline.                           *)
StopInAppend(r) ==
  \E torn \in BOOLEAN :
    /\ torn => TornWrites
    /\ IF torn THEN /\ tail' \in IF tail = Nothing THEN {Garbage, r} ELSE {Garbage}
                    /\ UNCHANGED lines
       ELSE AppendLine(r)

-----------------------------------------------------------------------------
(* applyTxRecord and processOutbox *)

Has(j, type) == \E n \in DOMAIN events[j] : events[j][n] = type

(* PREV_CHAIN_HASH_MISMATCH *)
Conflicts(r) == r.prev # Len(events[r.job])

(* Mutant: the entry is numbered by the event before. *)
EntryOfPrev(r) == [type |-> "LEDGER_ENTRY_APPLY", job |-> r.job, event |-> r.prev]

Entry(r) == [type |-> "LEDGER_ENTRY_APPLY", job |-> r.job, event |-> r.prev + 1]

(* What the writer of an event enqueues with it. *)
Messages(r) ==
  IF r.type = "SETTLED"
    THEN <<Entry(r), [type |-> "JOB_SETTLED", job |-> r.job, event |-> r.prev + 1]>>
  ELSE IF r.type = "OPERATOR_COST_RECORDED" THEN <<Entry(r)>>
  ELSE <<>>

applyTxRecord(r) ==
  /\ events' = [events EXCEPT ![r.job] = Append(@, r.type)]
  /\ idempotency' =
       IF r.type \in ClientTypes THEN idempotency \cup {<<r.job, r.type>>} ELSE idempotency
  /\ outbox' = outbox \o Messages(r)

(* applyJournalEntry ignores an entry id it knows. *)
Posted(messages) ==
  {<<m.job, m.event>> : m \in {x \in Range(messages) : x.type = "LEDGER_ENTRY_APPLY"}}

(* commitTx: append, apply, process the outbox to its end.  A conflict is    *)
(* found when the line is in the file already.                               *)
commitTx(r) ==
  /\ AppendLine(r)
  /\ IF Conflicts(r) THEN UNCHANGED <<events, idempotency, outbox, ledger>>
     ELSE applyTxRecord(r) /\ ledger' = ledger \cup Posted(Messages(r))

EmptyMemory ==
  /\ events' = [j \in Jobs |-> <<>>]
  /\ idempotency' = {}
  /\ outbox' = <<>>
  /\ ledger' = {}
  /\ accountingCursor' = 0

Stop ==
  /\ crashes < MaxCrashes
  /\ crashes' = crashes + 1
  /\ status' = "down"
  /\ replayed' = 0
  /\ retention' = None
  /\ EmptyMemory

Init ==
  /\ lines = <<>> /\ tail = Nothing
  /\ status = "up" /\ replayed = 0
  /\ events = [j \in Jobs |-> <<>>]
  /\ idempotency = {}
  /\ outbox = <<>> /\ ledger = {} /\ accountingCursor = 0
  /\ retention = None
  /\ acked = {}
  /\ crashes = 0

-----------------------------------------------------------------------------
(* The writers.  Between two awaits that do I/O nothing else runs. *)

(* Mutant: other requests run between the read and the commit of retention. *)
RunningAlways == status = "up"

Running == status = "up" /\ (RetentionAwaits \/ retention = None)

(* The next event of job j, built on the head the writer has read. *)
Chained(j, type, head) == [job |-> j, type |-> type, prev |-> head]

(* validateDomainEvent: evidence is captured and a job settled once. *)
MayPost(j, type) ==
  /\ Running
  /\ <<j, type>> \notin idempotency
  /\ ~Has(j, type)
  /\ type = "EVIDENCE_CAPTURED" => j \in EvidenceJobs

(* POST /jobs/:jobId/events *)
PostEvent(j, type) ==
  /\ MayPost(j, type)
  /\ commitTx(Chained(j, type, Len(events[j])))
  /\ acked' = acked \cup {<<j, type>>}
  /\ UNCHANGED <<status, replayed, accountingCursor, retention, crashes>>

(* The same request under the same idempotency key. *)
RepeatPost(j, type) ==
  /\ Running
  /\ <<j, type>> \in idempotency \ acked
  /\ acked' = acked \cup {<<j, type>>}
  /\ UNCHANGED <<disk, status, replayed, memory, retention, crashes>>

StopInPost(j, type) ==
  /\ MayPost(j, type)
  /\ StopInAppend(Chained(j, type, Len(events[j])))
  /\ Stop
  /\ UNCHANGED acked

(* Mutant: the worker trusts the message. *)
CostAlways(m) == m.type = "JOB_SETTLED" /\ Has(m.job, "SETTLED")

(* alreadyCost: the cursor starts at zero again after a restart. *)
CostDue(m) ==
  /\ m.type = "JOB_SETTLED"
  /\ Has(m.job, "SETTLED")
  /\ ~Has(m.job, "OPERATOR_COST_RECORDED")

Unread == Running /\ accountingCursor < Len(outbox)

CostRecord(m) == Chained(m.job, "OPERATOR_COST_RECORDED", Len(events[m.job]))

(* tickJobAccounting, one message. *)
AccountMessage ==
  LET m == outbox[accountingCursor + 1] IN
  /\ Unread
  /\ accountingCursor' = accountingCursor + 1
  /\ IF CostDue(m) THEN commitTx(CostRecord(m))
     ELSE UNCHANGED <<disk, events, idempotency, outbox, ledger>>
  /\ UNCHANGED <<status, replayed, retention, acked, crashes>>

StopInAccounting ==
  LET m == outbox[accountingCursor + 1] IN
  /\ Unread /\ CostDue(m)
  /\ StopInAppend(CostRecord(m))
  /\ Stop
  /\ UNCHANGED acked

(* tickEvidenceRetention reads the stream and deletes the evidence ... *)
RetentionRead(j) ==
  /\ status = "up" /\ retention = None
  /\ Has(j, "EVIDENCE_CAPTURED") /\ ~Has(j, "EVIDENCE_EXPIRED")
  /\ retention' = [job |-> j, head |-> Len(events[j])]
  /\ UNCHANGED <<disk, status, replayed, memory, acked, crashes>>

RetentionRecord == Chained(retention.job, "EVIDENCE_EXPIRED", retention.head)

(* ... and appends to what it has read; it ignores a conflict. *)
RetentionCommit ==
  /\ status = "up" /\ retention # None
  /\ commitTx(RetentionRecord)
  /\ retention' = None
  /\ UNCHANGED <<status, replayed, accountingCursor, acked, crashes>>

StopInRetention ==
  /\ status = "up" /\ retention # None
  /\ StopInAppend(RetentionRecord)
  /\ Stop
  /\ UNCHANGED acked

-----------------------------------------------------------------------------
(* Stops and starts. *)

Crash ==
  /\ status \in {"up", "replaying"}
  /\ Stop
  /\ UNCHANGED <<disk, acked>>

Restart ==
  /\ status = "down"
  /\ status' = "replaying"
  /\ UNCHANGED <<disk, replayed, memory, retention, acked, crashes>>

(* A record that conflicts keeps the store from starting. *)
ReplayRecord ==
  LET r == Load[replayed + 1] IN
  /\ status = "replaying" /\ replayed < Len(Load)
  /\ IF Conflicts(r)
       THEN status' = "failed" /\ UNCHANGED <<replayed, memory>>
       ELSE /\ applyTxRecord(r)
            /\ replayed' = replayed + 1
            /\ UNCHANGED <<status, ledger, accountingCursor>>
  /\ UNCHANGED <<disk, retention, acked, crashes>>

(* Mutant: the outbox is not processed after the replay. *)
NoCatchUp ==
  /\ status = "replaying" /\ replayed = Len(Load)
  /\ status' = "up"
  /\ UNCHANGED <<disk, replayed, memory, retention, acked, crashes>>

(* Mutant: the worker starts behind the messages of the replay. *)
SkipReplayed ==
  /\ status = "replaying" /\ replayed = Len(Load)
  /\ status' = "up"
  /\ ledger' = Posted(outbox)
  /\ accountingCursor' = Len(outbox)
  /\ UNCHANGED <<disk, replayed, events, idempotency, outbox, retention, acked, crashes>>

ReplayDone ==
  /\ status = "replaying" /\ replayed = Len(Load)
  /\ status' = "up"
  /\ ledger' = Posted(outbox)
  /\ UNCHANGED <<disk, replayed, events, idempotency, outbox, accountingCursor, retention,
                 acked, crashes>>

Next ==
  \/ \E j \in Jobs, type \in ClientTypes :
       PostEvent(j, type) \/ RepeatPost(j, type) \/ StopInPost(j, type)
  \/ AccountMessage
  \/ StopInAccounting
  \/ \E j \in Jobs : RetentionRead(j)
  \/ RetentionCommit
  \/ StopInRetention
  \/ Crash
  \/ Restart
  \/ ReplayRecord
  \/ ReplayDone

(* The process is started again, and src/api/server.js ticks the worker. *)
Fairness == WF_vars(AccountMessage) /\ WF_vars(RetentionCommit)
              /\ WF_vars(Restart) /\ WF_vars(ReplayRecord) /\ WF_vars(ReplayDone)

Spec == Init /\ [][Next]_vars

FairSpec == Spec /\ Fairness

-----------------------------------------------------------------------------

(* Types of the file, the maps in memory and the history. *)
TypeOK ==
  /\ lines \in Seq(Record \cup {Garbage})
  /\ tail \in Record \cup {Garbage, Nothing}
  /\ status \in {"up", "down", "replaying", "failed"}
  /\ replayed \in Nat
  /\ events \in [Jobs -> Seq(EventTypes)]
  /\ idempotency \subseteq Jobs \X ClientTypes
  /\ outbox \in Seq(Message)
  /\ ledger \subseteq Jobs \X Nat
  /\ accountingCursor \in Nat
  /\ retention \in {None} \cup [job : Jobs, head : Nat]
  /\ acked \subseteq Jobs \X ClientTypes
  /\ crashes \in Nat

Records == INSTANCE JobRecords WITH durable <- Durable(Range(Load))

(* The log file with a replay keeps the promise of JobRecords: whatever the   *)
(* moment the process stops, an event that was acknowledged comes back, one   *)
(* that comes back follows its cause, and nothing disappears.                 *)
Implements == Records!Spec

(* A start never fails on the file that the process has written itself, and  *)
(* a 409 that a client or a worker got leaves nothing behind in it.          *)
ReplaySucceeds == status # "failed"

(* The workers derive an event once, although their cursors and what they    *)
(* have read are gone after a restart, and a request that was recorded but   *)
(* not answered is not recorded again when it is repeated.                   *)
RecordedOnce ==
  \A i, k \in DOMAIN Load :
    Load[i].job = Load[k].job /\ Load[i].type = Load[k].type => i = k

(* The events that post an entry: a settlement and the cost of a job. *)
PostingEvents ==
  UNION {{j} \X {n \in DOMAIN events[j] :
                   events[j][n] \in {"SETTLED", "OPERATOR_COST_RECORDED"}} : j \in Jobs}

(* Once the store is up, the ledger has exactly one entry for every event    *)
(* that posts one, although the ledger itself is not in the file.            *)
LedgerMatchesEvents == status = "up" => ledger = PostingEvents

(* docs/CONFIG.md: PROXY_DATA_DIR gives "memory mode durability via file     *)
(* tx-log".  What was acknowledged is what a restart would bring back.       *)
AckedDurable == acked \subseteq Durable(Range(Load))

(* A settlement that was acknowledged is followed by the cost of the job,    *)
(* also when the process stops before or while the worker records it.        *)
SettledJobsCosted ==
  \A j \in Jobs : <<j, "SETTLED">> \in acked ~> status = "up" /\ Has(j, "OPERATOR_COST_RECORDED")

=============================================================================
