----------------------------- MODULE TxLogProofs -----------------------------
(***************************************************************************)
(* The log file with a replay implements JobRecords, a start never fails   *)
(* and nothing is recorded twice, as long as a line is written whole and   *)
(* the retention worker does no I/O between its read and its commit.       *)
(***************************************************************************)
EXTENDS TxLog, FiniteSetTheorems, TLAPS

(* Every line is whole. *)
FileWhole == lines \in Seq(Record) /\ tail = Nothing

TypeInv == TypeOK /\ FileWhole

(* A file of whole lines is loaded as it is. *)
LEMMA LoadWhole == ASSUME FileWhole PROVE Load = lines
<1>1. {i \in DOMAIN lines : lines[i] = Garbage} = {}
  BY TxLogAssumption DEF FileWhole
<1>2. QED
  BY <1>1 DEF Load, FileWhole

(* A set of natural numbers that is not empty has a least element.  The       *)
(* initial segments below its elements are ordered by inclusion, which is     *)
(* well-founded on finite sets.                                               *)
LEMMA LeastIn ==
  ASSUME NEW S \in SUBSET Nat, S # {}
  PROVE  Min(S) \in S /\ \A y \in S : Min(S) <= y
<1> DEFINE R == StrictSubsetOrdering(Nat)
           Initial == {1 .. n : n \in S}
<1>1. Initial \in SUBSET FiniteSubsetsOf(Nat)
  <2>1. ASSUME NEW n \in S PROVE 1 .. n \in FiniteSubsetsOf(Nat)
    <3>1. n \in Int /\ 1 \in Int
      OBVIOUS
    <3>2. IsFiniteSet(1 .. n)
      BY <3>1, FS_Interval
    <3>3. 1 .. n \in SUBSET Nat
      OBVIOUS
    <3> QED BY <3>2, <3>3 DEF FiniteSubsetsOf
  <2> QED BY <2>1
<1>2. Initial # {}
  OBVIOUS
<1>3. IsWellFoundedOn(R, FiniteSubsetsOf(Nat))
  BY FS_StrictSubsetOrderingWellFounded
<1>4. PICK I \in Initial : \A J \in Initial : ~(<<J, I>> \in R)
  <2> HIDE DEF Initial, R
  <2> QED BY <1>1, <1>2, <1>3, WFMin
<1>5. PICK x \in S : I = 1 .. x
  BY <1>4
<1>6. ASSUME NEW y \in S PROVE x <= y
  <2> SUFFICES ASSUME ~(x <= y) PROVE FALSE
    OBVIOUS
  <2>1. x \in Nat /\ y \in Nat /\ y < x
    OBVIOUS
  <2>2. 1 .. y \in SUBSET Nat /\ 1 .. x \in SUBSET Nat
    OBVIOUS
  <2>3. 1 .. y \subseteq 1 .. x /\ x \in 1 .. x /\ x \notin 1 .. y
    BY <2>1
  <2>4. <<1 .. y, 1 .. x>> \in R
    BY <2>2, <2>3 DEF StrictSubsetOrdering
  <2>5. 1 .. y \in Initial
    OBVIOUS
  <2> HIDE DEF R, Initial
  <2> QED BY <1>4, <1>5, <2>4, <2>5
<1>7. Min(S) = CHOOSE z \in S : \A y \in S : z <= y
  BY DEF Min
<1> QED BY <1>6, <1>7

(* What is loaded are records, whatever the file holds behind them. *)
LEMMA LoadType == ASSUME TypeOK PROVE Load \in Seq(Record)
<1> DEFINE bad == {i \in DOMAIN lines : lines[i] = Garbage}
<1>1. lines \in Seq(Record \cup {Garbage}) /\ bad \in SUBSET Nat
  BY DEF TypeOK
<1>2. CASE bad # {}
  <2>1. Min(bad) \in bad /\ \A y \in bad : Min(bad) <= y
    BY <1>1, <1>2, LeastIn
  <2>2. PICK m \in DOMAIN lines : m = Min(bad)
    BY <2>1
  <2>3. \A i \in 1 .. m - 1 : i \in DOMAIN lines /\ lines[i] # Garbage
    <3>1. \A i \in DOMAIN lines : lines[i] = Garbage => m <= i
      BY <2>1, <2>2
    <3>2. DOMAIN lines = 1 .. Len(lines) /\ Len(lines) \in Nat /\ m \in 1 .. Len(lines)
      BY <1>1
    <3> QED BY <3>1, <3>2
  <2>4. \A i \in 1 .. m - 1 : lines[i] \in Record
    BY <1>1, <2>3
  <2>5. SubSeq(lines, 1, m - 1) \in Seq(Record)
    BY <1>1, <2>2, <2>4
  <2> HIDE DEF bad
  <2>6. Load = SubSeq(lines, 1, m - 1)
    BY <1>2, <2>2 DEF Load, bad
  <2> QED BY <2>5, <2>6
<1>3. CASE bad = {}
  <2>1. \A i \in 1 .. Len(lines) : lines[i] \in Record
    BY <1>1, <1>3
  <2>2. lines \in Seq(Record)
    BY <1>1, <2>1
  <2>3. tail \notin {Garbage, Nothing} => tail \in Record
    BY DEF TypeOK
  <2> QED BY <1>3, <2>2, <2>3 DEF Load
<1> QED BY <1>2, <1>3

(* An event built on a head of a stream is a record with these fields. *)
LEMMA ChainedType ==
  ASSUME NEW j \in Jobs, NEW type \in EventTypes, NEW head \in Nat
  PROVE  /\ Chained(j, type, head) \in Record
         /\ Chained(j, type, head).job = j
         /\ Chained(j, type, head).type = type
         /\ Chained(j, type, head).prev = head
  BY DEF Chained, Record

(* A record enqueues messages. *)
LEMMA MessagesType == ASSUME NEW r \in Record PROVE Messages(r) \in Seq(Message)
<1>1. Entry(r) \in Message /\ [type |-> "JOB_SETTLED", job |-> r.job, event |-> r.prev + 1] \in Message
  BY DEF Entry, Message, Record
<1>2. QED
  BY <1>1 DEF Messages

(* The entries posted for messages are named by a job and a position. *)
LEMMA PostedType == ASSUME NEW messages \in Seq(Message) PROVE Posted(messages) \subseteq Jobs \X Nat
<1>1. Range(messages) \subseteq Message
  BY DEF Range
<1>2. \A m \in Message : m.job \in Jobs /\ m.event \in Nat
  BY DEF Message
<1>3. ASSUME NEW e \in Posted(messages) PROVE e \in Jobs \X Nat
  <2>1. PICK m \in Range(messages) : e = <<m.job, m.event>>
    BY <1>3, Zenon DEF Posted
  <2>2. QED BY <1>1, <1>2, <2>1
<1>4. QED BY <1>3

(* A line that is appended or left behind is whole. *)
LEMMA AppendType ==
  ASSUME TypeInv, ~TornWrites, NEW r \in Record, AppendLine(r) \/ StopInAppend(r)
  PROVE  FileWhole' /\ lines' = Append(lines, r)
  BY DEF TypeInv, FileWhole, AppendLine, StopInAppend

(* Applying a record keeps the types of the maps it changes. *)
LEMMA ApplyType ==
  ASSUME TypeOK, NEW r \in Record, applyTxRecord(r)
  PROVE  /\ events' \in [Jobs -> Seq(EventTypes)]
         /\ idempotency' \subseteq Jobs \X ClientTypes
         /\ outbox' \in Seq(Message)
<1>1. events' \in [Jobs -> Seq(EventTypes)]
  BY DEF applyTxRecord, TypeOK, Record
<1>2. idempotency' \subseteq Jobs \X ClientTypes
  BY DEF applyTxRecord, TypeOK, Record
<1>3. outbox' \in Seq(Message)
  BY MessagesType DEF applyTxRecord, TypeOK
<1>4. QED BY <1>1, <1>2, <1>3

(* What an append leaves in the file, whole, glued or torn, has its type. *)
LEMMA StoredType ==
  ASSUME TypeOK, NEW r \in Record, AppendLine(r) \/ StopInAppend(r)
  PROVE  lines' \in Seq(Record \cup {Garbage}) /\ tail' \in Record \cup {Garbage, Nothing}
<1>1. lines \in Seq(Record \cup {Garbage}) /\ tail \in Record \cup {Garbage, Nothing}
  BY DEF TypeOK
<1>2. ASSUME AppendLine(r) PROVE lines' \in Seq(Record \cup {Garbage}) /\ tail' = Nothing
  <2>1. PICK x \in Record \cup {Garbage} : lines' = Append(lines, x)
    BY <1>2 DEF AppendLine
  <2> QED BY <1>1, <1>2, <2>1 DEF AppendLine
<1>3. ASSUME StopInAppend(r)
      PROVE  AppendLine(r) \/ (lines' = lines /\ tail' \in {Garbage, r})
  BY <1>3 DEF StopInAppend
<1>4. CASE lines' = lines /\ tail' \in {Garbage, r}
  BY <1>1, <1>4
<1> QED BY <1>2, <1>3, <1>4

(* A commit keeps the types, also when the record conflicts. *)
LEMMA CommitType ==
  ASSUME TypeOK, NEW r \in Record, commitTx(r)
  PROVE  /\ lines' \in Seq(Record \cup {Garbage}) /\ tail' \in Record \cup {Garbage, Nothing}
         /\ events' \in [Jobs -> Seq(EventTypes)]
         /\ idempotency' \subseteq Jobs \X ClientTypes
         /\ outbox' \in Seq(Message)
         /\ ledger' \subseteq Jobs \X Nat
<1>1. lines' \in Seq(Record \cup {Garbage}) /\ tail' \in Record \cup {Garbage, Nothing}
  BY StoredType DEF commitTx
<1>2. CASE Conflicts(r)
  BY <1>1, <1>2 DEF commitTx, TypeOK
<1>3. CASE ~Conflicts(r)
  <2>1. applyTxRecord(r) /\ ledger' = ledger \cup Posted(Messages(r))
    BY <1>3 DEF commitTx
  <2>2. ledger' \subseteq Jobs \X Nat
    BY <2>1, MessagesType, PostedType DEF TypeOK
  <2>3. QED BY <1>1, <2>1, <2>2, ApplyType
<1>4. QED BY <1>2, <1>3

(* A commit appends a whole line when lines are written whole. *)
LEMMA CommitAppends ==
  ASSUME TypeInv, ~TornWrites, NEW r \in Record, commitTx(r)
  PROVE  FileWhole' /\ lines' = Append(lines, r)
  BY AppendType DEF commitTx

(* A stop keeps the types. *)
LEMMA StopType ==
  ASSUME TypeOK, Stop, lines' \in Seq(Record \cup {Garbage}), tail' \in Record \cup {Garbage, Nothing},
         acked' \subseteq Jobs \X ClientTypes
  PROVE  TypeOK'
<1>1. /\ events' \in [Jobs -> Seq(EventTypes)]
      /\ outbox' \in Seq(Message)
  BY DEF Stop, EmptyMemory
<1>2. QED
  BY <1>1 DEF Stop, EmptyMemory, TypeOK

(* The types hold at first. *)
LEMMA InitType == Init => TypeInv
<1> SUFFICES ASSUME Init PROVE TypeInv
  OBVIOUS
<1>1. lines \in Seq(Record) /\ outbox \in Seq(Message) /\ events \in [Jobs -> Seq(EventTypes)]
  BY DEF Init
<1>2. QED
  BY <1>1 DEF Init, TypeInv, TypeOK, FileWhole

-----------------------------------------------------------------------------
(* The inductive invariant.  Applied is the part of the file that memory     *)
(* reflects: all of it while the store is up, what is replayed otherwise.    *)

Applied == IF status = "up" THEN Len(lines) ELSE replayed

(* The lines of a job are chained: each is built on all those before it. *)
Chain ==
  \A i \in 1 .. Len(lines) :
    /\ \A k \in 1 .. i - 1 : lines[k].job = lines[i].job => lines[k].prev < lines[i].prev
    /\ \A n \in 0 .. lines[i].prev - 1 :
         \E k \in 1 .. i - 1 : lines[k].job = lines[i].job /\ lines[k].prev = n

Once ==
  \A i, k \in 1 .. Len(lines) :
    lines[i].job = lines[k].job /\ lines[i].type = lines[k].type => i = k

(* The streams in memory are those of the applied lines. *)
Streams ==
  /\ \A i \in 1 .. Applied :
       /\ lines[i].prev + 1 \in 1 .. Len(events[lines[i].job])
       /\ events[lines[i].job][lines[i].prev + 1] = lines[i].type
  /\ \A j \in Jobs : \A n \in 1 .. Len(events[j]) :
       \E i \in 1 .. Applied : lines[i].job = j /\ lines[i].prev + 1 = n

Logged(j, type, n) == \E i \in 1 .. n : lines[i].job = j /\ lines[i].type = type

Keys ==
  /\ \A j \in Jobs, type \in ClientTypes : <<j, type>> \in idempotency => Logged(j, type, Applied)
  /\ \A j \in Jobs, type \in ClientTypes : <<j, type>> \in acked => Logged(j, type, Len(lines))

(* What the retention worker has read is still so. *)
Reading ==
  retention # None =>
    /\ status = "up"
    /\ retention.head = Len(events[retention.job])
    /\ Has(retention.job, "EVIDENCE_CAPTURED")
    /\ ~Has(retention.job, "EVIDENCE_EXPIRED")

Starting ==
  /\ status # "failed"
  /\ status = "down" => replayed = 0
  /\ status = "replaying" => replayed <= Len(lines)

Inv == TypeInv /\ Chain /\ Once /\ Streams /\ Keys /\ Reading /\ Starting

(* The cost of a settled job is a record. *)
LEMMA CostType == ASSUME TypeOK, NEW m \in Message PROVE CostRecord(m) \in Record
<1>1. m.job \in Jobs
  BY DEF Message
<1>2. Len(events[m.job]) \in Nat /\ "OPERATOR_COST_RECORDED" \in EventTypes
  BY <1>1 DEF TypeOK, EventTypes
<1>3. QED
  BY <1>1, <1>2, ChainedType DEF CostRecord

(* What no step disturbs, a torn write included. *)
LEMMA StepTypeOK == ASSUME TypeOK, [Next]_vars PROVE TypeOK'
<1>1. ASSUME NEW j \in Jobs, NEW type \in ClientTypes, PostEvent(j, type) PROVE TypeOK'
  <2>1. Chained(j, type, Len(events[j])) \in Record
    BY ChainedType DEF EventTypes, TypeOK
  <2>2. acked' \subseteq Jobs \X ClientTypes
    BY <1>1 DEF PostEvent, TypeOK
  <2>3. QED
    BY <1>1, <2>1, <2>2, CommitType DEF PostEvent, TypeOK
<1>2. ASSUME NEW j \in Jobs, NEW type \in ClientTypes, RepeatPost(j, type) PROVE TypeOK'
  BY <1>2 DEF RepeatPost, disk, memory, TypeOK
<1>3. ASSUME NEW j \in Jobs, NEW type \in ClientTypes, StopInPost(j, type) PROVE TypeOK'
  <2>1. Chained(j, type, Len(events[j])) \in Record
    BY ChainedType DEF EventTypes, TypeOK
  <2>2. /\ lines' \in Seq(Record \cup {Garbage}) /\ tail' \in Record \cup {Garbage, Nothing}
        /\ Stop /\ acked' \subseteq Jobs \X ClientTypes
    BY <1>3, <2>1, StoredType DEF StopInPost, TypeOK
  <2>3. QED BY <2>2, StopType
<1>4. CASE AccountMessage
  <2> DEFINE m == outbox[accountingCursor + 1]
  <2>1. m \in Message
    BY <1>4 DEF AccountMessage, Unread, TypeOK
  <2>2. CostRecord(m) \in Record
    BY <2>1, CostType
  <2>3. CASE CostDue(m)
    <3>1. commitTx(CostRecord(m))
      BY <1>4, <2>3 DEF AccountMessage
    <3>2. QED
      BY <1>4, <2>2, <3>1, CommitType DEF AccountMessage, TypeOK
  <2>4. CASE ~CostDue(m)
    BY <1>4, <2>4 DEF AccountMessage, disk, TypeOK
  <2>5. QED BY <2>3, <2>4
<1>5. CASE StopInAccounting
  <2> DEFINE m == outbox[accountingCursor + 1]
  <2>1. m \in Message
    BY <1>5 DEF StopInAccounting, Unread, TypeOK
  <2>2. CostRecord(m) \in Record
    BY <2>1, CostType
  <2>3. /\ lines' \in Seq(Record \cup {Garbage}) /\ tail' \in Record \cup {Garbage, Nothing}
        /\ Stop /\ acked' \subseteq Jobs \X ClientTypes
    BY <1>5, <2>2, StoredType DEF StopInAccounting, TypeOK
  <2>4. QED BY <2>3, StopType
<1>6. ASSUME NEW j \in Jobs, RetentionRead(j) PROVE TypeOK'
  BY <1>6 DEF RetentionRead, disk, memory, TypeOK
<1>7. CASE RetentionCommit
  <2>1. RetentionRecord \in Record
    BY <1>7, ChainedType DEF RetentionCommit, RetentionRecord, EventTypes, TypeOK
  <2>2. QED
    BY <1>7, <2>1, CommitType DEF RetentionCommit, TypeOK
<1>8. CASE StopInRetention
  <2>1. RetentionRecord \in Record
    BY <1>8, ChainedType DEF StopInRetention, RetentionRecord, EventTypes, TypeOK
  <2>2. /\ lines' \in Seq(Record \cup {Garbage}) /\ tail' \in Record \cup {Garbage, Nothing}
        /\ Stop /\ acked' \subseteq Jobs \X ClientTypes
    BY <1>8, <2>1, StoredType DEF StopInRetention, TypeOK
  <2>3. QED BY <2>2, StopType
<1>9. CASE Crash
  <2>1. /\ lines' \in Seq(Record \cup {Garbage}) /\ tail' \in Record \cup {Garbage, Nothing}
        /\ Stop /\ acked' \subseteq Jobs \X ClientTypes
    BY <1>9 DEF Crash, disk, TypeOK
  <2>2. QED BY <2>1, StopType
<1>10. CASE Restart
  BY <1>10 DEF Restart, disk, memory, TypeOK
<1>11. CASE ReplayRecord
  <2> DEFINE r == Load[replayed + 1]
  <2>1. r \in Record
    BY <1>11, LoadType DEF ReplayRecord, TypeOK
  <2>2. CASE Conflicts(r)
    BY <1>11, <2>2 DEF ReplayRecord, disk, memory, TypeOK
  <2>3. CASE ~Conflicts(r)
    <3>1. applyTxRecord(r)
      BY <1>11, <2>3 DEF ReplayRecord
    <3>2. QED
      BY <1>11, <2>1, <2>3, <3>1, ApplyType DEF ReplayRecord, disk, TypeOK
  <2>4. QED BY <2>2, <2>3
<1>12. CASE ReplayDone
  <2>1. ledger' \subseteq Jobs \X Nat
    BY <1>12, PostedType DEF ReplayDone, TypeOK
  <2>2. QED
    BY <1>12, <2>1 DEF ReplayDone, disk, TypeOK
<1>13. CASE UNCHANGED vars
  BY <1>13 DEF vars, disk, memory, TypeOK
<1>14. QED
  BY <1>1, <1>2, <1>3, <1>4, <1>5, <1>6, <1>7, <1>8, <1>9, <1>10, <1>11, <1>12, <1>13 DEF Next

(* Lines stay whole when they are written whole. *)
LEMMA StepType == ASSUME TypeInv, ~TornWrites, [Next]_vars PROVE TypeInv'
<1>1. TypeOK'
  BY StepTypeOK DEF TypeInv
<1> SUFFICES FileWhole'
  BY <1>1 DEF TypeInv
<1>2. ASSUME UNCHANGED disk PROVE FileWhole'
  BY <1>2 DEF disk, TypeInv, FileWhole
<1>3. ASSUME NEW r \in Record, AppendLine(r) \/ StopInAppend(r) PROVE FileWhole'
  BY <1>3, AppendType
<1>4. ASSUME NEW j \in Jobs, NEW type \in ClientTypes, PostEvent(j, type) \/ StopInPost(j, type)
      PROVE  FileWhole'
  <2>1. Chained(j, type, Len(events[j])) \in Record
    BY ChainedType DEF EventTypes, TypeInv, TypeOK
  <2> QED BY <1>3, <1>4, <2>1 DEF PostEvent, StopInPost, commitTx
<1>5. CASE AccountMessage \/ StopInAccounting
  <2> DEFINE m == outbox[accountingCursor + 1]
  <2>1. m \in Message
    BY <1>5 DEF AccountMessage, StopInAccounting, Unread, TypeInv, TypeOK
  <2>2. CostRecord(m) \in Record
    BY <2>1, CostType DEF TypeInv
  <2> QED BY <1>2, <1>3, <1>5, <2>2 DEF AccountMessage, StopInAccounting, commitTx
<1>6. CASE RetentionCommit \/ StopInRetention
  <2>1. RetentionRecord \in Record
    BY <1>6, ChainedType DEF RetentionCommit, StopInRetention, RetentionRecord, EventTypes, TypeInv, TypeOK
  <2> QED BY <1>3, <1>6, <2>1 DEF RetentionCommit, StopInRetention, commitTx
<1>7. CASE Crash \/ Restart \/ ReplayRecord \/ ReplayDone \/ UNCHANGED vars
  BY <1>2, <1>7 DEF Crash, Restart, ReplayRecord, ReplayDone, vars
<1>8. ASSUME NEW j \in Jobs, RetentionRead(j) PROVE FileWhole'
  BY <1>2, <1>8 DEF RetentionRead
<1>9. ASSUME NEW j \in Jobs, NEW type \in ClientTypes, RepeatPost(j, type) PROVE FileWhole'
  BY <1>2, <1>9 DEF RepeatPost
<1> QED BY <1>4, <1>5, <1>6, <1>7, <1>8, <1>9 DEF Next

(* The store keeps its types through every stop, torn write and replay. *)
THEOREM TxLogTypeCorrect == Spec => []TypeOK
<1>1. Init => TypeOK
  BY InitType DEF TypeInv
<1>2. TypeOK /\ [Next]_vars => TypeOK'
  BY StepTypeOK
<1>3. QED
  BY <1>1, <1>2, PTL DEF Spec

-----------------------------------------------------------------------------
(* A line that may follow those in the file: the events it is built on, and  *)
(* no others, are there, and its own event is not.                           *)
MayFollow(r) ==
  /\ \A i \in 1 .. Len(lines) :
       lines[i].job = r.job => lines[i].prev < r.prev /\ lines[i].type # r.type
  /\ \A n \in 0 .. r.prev - 1 :
       \E k \in 1 .. Len(lines) : lines[k].job = r.job /\ lines[k].prev = n

(* The file of before is the first part of the file of after. *)
Extended == Len(lines) <= Len(lines)' /\ \A i \in 1 .. Len(lines) : lines'[i] = lines[i]

(* The fields of a line. *)
LEMMA LineType ==
  ASSUME FileWhole, NEW i \in 1 .. Len(lines)
  PROVE  /\ lines[i] \in Record
         /\ lines[i].job \in Jobs /\ lines[i].type \in EventTypes /\ lines[i].prev \in Nat
<1>1. lines[i] \in Record
  BY DEF FileWhole
<1>2. QED BY <1>1 DEF Record

(* What appending a line does to the file. *)
LEMMA Appended ==
  ASSUME FileWhole, NEW r \in Record, lines' = Append(lines, r)
  PROVE  /\ Len(lines) \in Nat /\ Len(lines)' = Len(lines) + 1
         /\ lines'[Len(lines) + 1] = r
         /\ Extended
  BY DEF FileWhole, Extended

(* What is applied is a part of the file. *)
LEMMA AppliedType == ASSUME Inv PROVE Applied \in 0 .. Len(lines)
  BY DEF Inv, TypeInv, TypeOK, FileWhole, Applied, Starting

(* The stream of a job is a sequence of event types. *)
LEMMA StreamType ==
  ASSUME TypeInv, NEW j \in Jobs
  PROVE  events[j] \in Seq(EventTypes) /\ Len(events[j]) \in Nat
  BY DEF TypeInv, TypeOK

(* While the store is up, the stream of a job is the one in the file. *)
LEMMA HasLogged ==
  ASSUME Inv, NEW j \in Jobs, NEW type
  PROVE  Has(j, type) <=> Logged(j, type, Applied)
<1>1. ASSUME Has(j, type) PROVE Logged(j, type, Applied)
  <2>1. PICK n \in 1 .. Len(events[j]) : events[j][n] = type
    BY <1>1, StreamType DEF Has, Inv
  <2>2. PICK i \in 1 .. Applied : lines[i].job = j /\ lines[i].prev + 1 = n
    BY <2>1 DEF Inv, Streams
  <2>3. events[j][n] = lines[i].type
    BY <2>2 DEF Inv, Streams
  <2>4. QED BY <2>1, <2>2, <2>3 DEF Logged
<1>2. ASSUME Logged(j, type, Applied) PROVE Has(j, type)
  <2>1. PICK i \in 1 .. Applied : lines[i].job = j /\ lines[i].type = type
    BY <1>2 DEF Logged
  <2>2. lines[i].prev + 1 \in 1 .. Len(events[j]) /\ events[j][lines[i].prev + 1] = type
    BY <2>1 DEF Inv, Streams
  <2>3. QED BY <2>2, StreamType DEF Has, Inv
<1>3. QED BY <1>1, <1>2

(* The next event of a stream in memory may follow the lines of the file. *)
LEMMA HeadFollows ==
  ASSUME Inv, status = "up", NEW r \in Record,
         r.prev = Len(events[r.job]), ~Has(r.job, r.type)
  PROVE  MayFollow(r)
<1>1. Applied = Len(lines)
  BY DEF Applied
<1>2. r.job \in Jobs /\ r.prev \in Nat
  BY DEF Record
<1>3. ASSUME NEW i \in 1 .. Len(lines), lines[i].job = r.job
      PROVE  lines[i].prev < r.prev /\ lines[i].type # r.type
  <2>1. lines[i].prev + 1 \in 1 .. Len(events[r.job])
    BY <1>1, <1>3 DEF Inv, Streams
  <2>2. ~Logged(r.job, r.type, Len(lines))
    BY <1>1, <1>2, HasLogged
  <2>3. lines[i].prev \in Nat
    BY LineType DEF Inv, TypeInv
  <2>4. QED BY <1>2, <1>3, <2>1, <2>2, <2>3 DEF Logged
<1>4. ASSUME NEW n \in 0 .. r.prev - 1
      PROVE  \E k \in 1 .. Len(lines) : lines[k].job = r.job /\ lines[k].prev = n
  <2>1. n \in Nat /\ n + 1 \in 1 .. Len(events[r.job])
    BY <1>2
  <2>2. PICK k \in 1 .. Len(lines) : lines[k].job = r.job /\ lines[k].prev + 1 = n + 1
    BY <1>1, <1>2, <2>1 DEF Inv, Streams
  <2>3. lines[k].prev \in Nat
    BY LineType DEF Inv, TypeInv
  <2>4. QED BY <2>1, <2>2, <2>3
<1>5. QED BY <1>3, <1>4 DEF MayFollow

(* A line that may follow keeps the file chained and free of duplicates. *)
LEMMA AppendKeepsFile ==
  ASSUME FileWhole, Chain, Once, NEW r \in Record, MayFollow(r), lines' = Append(lines, r)
  PROVE  Chain' /\ Once'
<1> DEFINE L == Len(lines)
<1>1. /\ L \in Nat /\ Len(lines') = L + 1 /\ lines'[L + 1] = r
      /\ \A i \in 1 .. L : lines'[i] = lines[i]
  BY Appended DEF Extended
<1>2. \A i \in 1 .. L : lines[i].prev \in Nat
  BY LineType
<1>3. r.prev \in Nat
  BY DEF Record
<1> HIDE DEF L
<1>4. Chain'
  <2> SUFFICES ASSUME NEW i \in 1 .. L + 1
               PROVE  /\ \A k \in 1 .. i - 1 : lines'[k].job = lines'[i].job => lines'[k].prev < lines'[i].prev
                      /\ \A n \in 0 .. lines'[i].prev - 1 :
                           \E k \in 1 .. i - 1 : lines'[k].job = lines'[i].job /\ lines'[k].prev = n
    BY <1>1 DEF Chain
  <2>1. CASE i = L + 1
    BY <1>1, <2>1 DEF MayFollow, L
  <2>2. CASE i # L + 1
    <3>1. i \in 1 .. L /\ \A k \in 1 .. i - 1 : k \in 1 .. L
      BY <1>1, <2>2
    <3>2. QED BY <1>1, <3>1 DEF Chain, L
  <2>3. QED BY <2>1, <2>2
<1>5. Once'
  <2> SUFFICES ASSUME NEW i \in 1 .. L + 1, NEW k \in 1 .. L + 1,
                      lines'[i].job = lines'[k].job, lines'[i].type = lines'[k].type
               PROVE  i = k
    BY <1>1 DEF Once
  <2>1. CASE i = L + 1 /\ k \in 1 .. L
    BY <1>1, <2>1 DEF MayFollow, L
  <2>2. CASE k = L + 1 /\ i \in 1 .. L
    BY <1>1, <2>2 DEF MayFollow, L
  <2>3. CASE i \in 1 .. L /\ k \in 1 .. L
    BY <1>1, <2>3 DEF Once, L
  <2>4. QED BY <1>1, <2>1, <2>2, <2>3
<1>6. QED BY <1>4, <1>5

(* One more line is applied, by a commit or by the replay. *)
LEMMA ApplyKeepsStreams ==
  ASSUME Inv, NEW r \in Record, r.prev = Len(events[r.job]),
         events' = [events EXCEPT ![r.job] = Append(@, r.type)],
         Applied' = Applied + 1, lines'[Applied + 1] = r,
         \A i \in 1 .. Applied : lines'[i] = lines[i]
  PROVE  Streams'
<1> DEFINE A == Applied
           j0 == r.job
<1>1. A \in Nat
  BY AppliedType
<1>2. j0 \in Jobs /\ r.type \in EventTypes /\ r.prev \in Nat
  BY DEF Record
<1>3. \A j \in Jobs : events[j] \in Seq(EventTypes) /\ Len(events[j]) \in Nat
  BY StreamType DEF Inv
<1>4. /\ Len(events'[j0]) = r.prev + 1 /\ events'[j0][r.prev + 1] = r.type
      /\ \A n \in 1 .. r.prev : events'[j0][n] = events[j0][n]
  <2>1. events'[j0] = Append(events[j0], r.type)
    BY <1>2 DEF Inv, TypeInv, TypeOK
  <2>2. QED BY <1>2, <1>3, <2>1
<1>5. \A j \in Jobs : j # j0 => events'[j] = events[j]
  BY DEF Inv, TypeInv, TypeOK
<1>6. \A i \in 1 .. A : lines[i].job \in Jobs /\ lines[i].prev \in Nat
  <2> TAKE i \in 1 .. A
  <2>1. i \in 1 .. Len(lines)
    BY AppliedType, <1>1
  <2>2. QED BY <2>1, LineType DEF Inv, TypeInv
<1>7. ASSUME NEW i \in 1 .. A + 1
      PROVE  /\ lines'[i].prev + 1 \in 1 .. Len(events'[lines'[i].job])
             /\ events'[lines'[i].job][lines'[i].prev + 1] = lines'[i].type
  <2>1. CASE i = A + 1
    BY <1>2, <1>4, <2>1
  <2>2. CASE i \in 1 .. A
    <3>1. lines'[i] = lines[i]
      BY <2>2
    <3>2. /\ lines[i].prev + 1 \in 1 .. Len(events[lines[i].job])
          /\ events[lines[i].job][lines[i].prev + 1] = lines[i].type
      BY <2>2 DEF Inv, Streams
    <3>3. CASE lines[i].job = j0
      <4>1. lines[i].prev + 1 \in 1 .. r.prev
        BY <3>2, <3>3
      <4>2. lines[i].prev + 1 \in 1 .. r.prev + 1
        BY <4>1, <1>2
      <4>3. QED BY <1>4, <3>1, <3>2, <3>3, <4>1, <4>2
    <3>4. CASE lines[i].job # j0
      BY <1>5, <1>6, <2>2, <3>1, <3>2, <3>4
    <3>5. QED BY <3>3, <3>4
  <2>3. QED BY <1>1, <2>1, <2>2
<1>8. ASSUME NEW j \in Jobs, NEW n \in 1 .. Len(events'[j])
      PROVE  \E i \in 1 .. A + 1 : lines'[i].job = j /\ lines'[i].prev + 1 = n
  <2>1. CASE j = j0 /\ n = r.prev + 1
    BY <1>1, <2>1
  <2>2. CASE ~(j = j0 /\ n = r.prev + 1)
    <3>1. n \in 1 .. Len(events[j])
      BY <1>2, <1>4, <1>5, <1>8, <2>2
    <3>2. PICK i \in 1 .. A : lines[i].job = j /\ lines[i].prev + 1 = n
      BY <3>1 DEF Inv, Streams
    <3>3. i \in 1 .. A + 1
      BY <1>1
    <3>4. QED BY <3>2, <3>3
  <2>3. QED BY <2>1, <2>2
<1>9. QED BY <1>7, <1>8 DEF Streams

(* What is in the file stays in it when it grows. *)
LEMMA LoggedExtended ==
  ASSUME Extended, Len(lines) \in Nat, Len(lines)' \in Nat, NEW j, NEW type,
         Logged(j, type, Len(lines))
  PROVE  Logged(j, type, Len(lines))'
  BY DEF Logged, Extended

(* A commit of the next event of a stream. *)
LEMMA CommitKeeps ==
  ASSUME Inv, ~TornWrites, status = "up", status' = "up", retention' = None,
         NEW r \in Record, r.prev = Len(events[r.job]), ~Has(r.job, r.type),
         commitTx(r), acked' \subseteq acked \cup {<<r.job, r.type>>}
  PROVE  Chain' /\ Once' /\ Streams' /\ Keys' /\ Reading' /\ Starting'
<1>1. lines' = Append(lines, r)
  BY CommitAppends DEF Inv
<1>2. /\ Len(lines) \in Nat /\ Len(lines') = Len(lines) + 1 /\ lines'[Len(lines) + 1] = r
      /\ Extended
  BY <1>1, Appended DEF Inv, TypeInv
<1>3. Applied = Len(lines) /\ Applied' = Len(lines') /\ Applied' = Len(lines) + 1
  BY <1>2 DEF Applied
<1>4. Chain' /\ Once'
  BY <1>1, HeadFollows, AppendKeepsFile DEF Inv, TypeInv
<1>5. applyTxRecord(r)
  BY DEF commitTx, Conflicts
<1>6. Streams'
  BY <1>2, <1>3, <1>5, ApplyKeepsStreams DEF applyTxRecord, Extended
<1>7. Logged(r.job, r.type, Len(lines))'
  BY <1>2 DEF Logged
<1>8. \A j \in Jobs, type \in ClientTypes :
        Logged(j, type, Len(lines)) => Logged(j, type, Len(lines))'
  BY <1>2, LoggedExtended
<1>9. Keys'
  <2>1. idempotency' \subseteq idempotency \cup {<<r.job, r.type>>}
    BY <1>5 DEF applyTxRecord
  <2>2. ASSUME NEW j \in Jobs, NEW type \in ClientTypes, <<j, type>> \in idempotency' \cup acked'
        PROVE  Logged(j, type, Len(lines))'
    <3>1. CASE <<j, type>> = <<r.job, r.type>>
      BY <1>7, <3>1
    <3>2. CASE <<j, type>> \in idempotency \cup acked
      BY <1>3, <1>8, <3>2 DEF Inv, Keys
    <3>3. QED BY <2>1, <2>2, <3>1, <3>2
  <2>3. QED BY <1>2, <1>3, <2>2 DEF Keys
<1>10. QED BY <1>4, <1>6, <1>9 DEF Reading, Starting

(* A stop keeps the file, to which a line may have been added. *)
LEMMA StopKeeps ==
  ASSUME Inv, Stop, FileWhole', Extended, acked' = acked
  PROVE  Streams' /\ Keys' /\ Reading' /\ Starting'
<1>1. status' = "down" /\ Applied' = 0
  BY DEF Stop, Applied
<1>2. Streams'
  BY <1>1 DEF Stop, EmptyMemory, Streams
<1>3. Keys'
  <2>1. idempotency' = {}
    BY DEF Stop, EmptyMemory
  <2>2. ASSUME NEW j \in Jobs, NEW type \in ClientTypes, <<j, type>> \in acked
        PROVE  Logged(j, type, Len(lines))'
    <3>1. Logged(j, type, Len(lines))
      BY <2>2 DEF Inv, Keys
    <3>2. Len(lines) \in Nat /\ Len(lines)' \in Nat
      BY DEF FileWhole, Inv, TypeInv
    <3>3. QED BY <3>1, <3>2, LoggedExtended
  <2>3. QED BY <2>1, <2>2 DEF Keys
<1>4. QED BY <1>1, <1>2, <1>3 DEF Stop, Reading, Starting

(* A stop in the append of the next event of a stream. *)
LEMMA StopInAppendKeeps ==
  ASSUME Inv, ~TornWrites, status = "up", Stop, acked' = acked,
         NEW r \in Record, r.prev = Len(events[r.job]), ~Has(r.job, r.type), StopInAppend(r)
  PROVE  Chain' /\ Once' /\ Streams' /\ Keys' /\ Reading' /\ Starting'
<1>1. FileWhole' /\ lines' = Append(lines, r)
  BY AppendType DEF Inv
<1>2. Extended
  BY <1>1, Appended DEF Inv, TypeInv
<1>3. Chain' /\ Once'
  BY <1>1, HeadFollows, AppendKeepsFile DEF Inv, TypeInv
<1>4. QED BY <1>1, <1>2, <1>3, StopKeeps

(* The record the replay comes to is built on what it has applied, so it     *)
(* does not conflict.                                                        *)
LEMMA ReplayHead ==
  ASSUME Inv, status = "replaying", replayed < Len(lines)
  PROVE  lines[replayed + 1] \in Record /\ ~Conflicts(lines[replayed + 1])
<1> DEFINE r == lines[replayed + 1]
           len == Len(events[r.job])
<1>1. replayed + 1 \in 1 .. Len(lines) /\ replayed \in Nat /\ Applied = replayed
  BY DEF Inv, TypeInv, TypeOK, FileWhole, Applied
<1>2. r \in Record /\ r.job \in Jobs /\ r.prev \in Nat
  BY <1>1, LineType DEF Inv, TypeInv
<1>3. len \in Nat
  BY <1>2, StreamType DEF Inv
<1>4. ~(r.prev < len)
  <2> SUFFICES ASSUME r.prev < len PROVE FALSE
    OBVIOUS
  <2>1. PICK i \in 1 .. replayed : lines[i].job = r.job /\ lines[i].prev + 1 = r.prev + 1
    <3>1. r.prev + 1 \in 1 .. len
      BY <1>2, <1>3
    <3>2. QED BY <1>1, <1>2, <3>1 DEF Inv, Streams
  <2>2. lines[i].prev < r.prev
    BY <1>1, <2>1 DEF Inv, Chain
  <2>3. lines[i].prev \in Nat
    BY <1>1, LineType DEF Inv, TypeInv
  <2>4. QED BY <1>2, <2>1, <2>2, <2>3
<1>5. ~(r.prev > len)
  <2> SUFFICES ASSUME r.prev > len PROVE FALSE
    OBVIOUS
  <2>1. PICK k \in 1 .. replayed : lines[k].job = r.job /\ lines[k].prev = len
    <3>1. len \in 0 .. r.prev - 1
      BY <1>2, <1>3
    <3>2. QED BY <1>1, <3>1 DEF Inv, Chain
  <2>2. len + 1 \in 1 .. len
    BY <1>1, <2>1 DEF Inv, Streams
  <2>3. QED BY <1>3, <2>2
<1>6. QED BY <1>2, <1>3, <1>4, <1>5 DEF Conflicts

-----------------------------------------------------------------------------
(* Lines are written whole, and retention does no I/O: memory evidence store. *)
Serial == ~TornWrites /\ ~RetentionAwaits

(* What each writer commits is the next event of its stream. *)
Succeeds(r) ==
  /\ r \in Record
  /\ r.prev = Len(events[r.job])
  /\ ~Has(r.job, r.type)
  /\ r.type \notin ClientTypes => Has(r.job, Records!Cause[r.type])

(* An event a client may post may follow in the file and does not conflict. *)
LEMMA PostSucceeds ==
  ASSUME Inv, NEW j \in Jobs, NEW type \in ClientTypes, MayPost(j, type)
  PROVE  Succeeds(Chained(j, type, Len(events[j])))
<1>1. type \in EventTypes /\ Len(events[j]) \in Nat
  BY StreamType DEF Inv, EventTypes
<1>2. QED
  BY <1>1, ChainedType DEF Succeeds, MayPost

(* So may the cost of a settled job that has none. *)
LEMMA CostSucceeds ==
  ASSUME Inv, NEW m \in Message, CostDue(m)
  PROVE  Succeeds(CostRecord(m)) /\ CostRecord(m).type \notin ClientTypes
<1>1. m.job \in Jobs
  BY DEF Message
<1>2. "OPERATOR_COST_RECORDED" \in EventTypes /\ Len(events[m.job]) \in Nat
  BY <1>1, StreamType DEF Inv, EventTypes
<1>3. /\ CostRecord(m) \in Record /\ CostRecord(m).job = m.job
      /\ CostRecord(m).type = "OPERATOR_COST_RECORDED"
      /\ CostRecord(m).prev = Len(events[m.job])
  BY <1>1, <1>2, ChainedType DEF CostRecord
<1>4. Records!Cause["OPERATOR_COST_RECORDED"] = "SETTLED"
  BY DEF Records!Cause
<1>5. "OPERATOR_COST_RECORDED" \notin ClientTypes
  BY DEF ClientTypes
<1>6. QED
  BY <1>3, <1>4, <1>5 DEF Succeeds, CostDue

(* So may the expiry of evidence, when nothing ran since the read. *)
LEMMA RetentionSucceeds ==
  ASSUME Inv, retention # None
  PROVE  Succeeds(RetentionRecord) /\ RetentionRecord.type \notin ClientTypes
<1>1. retention.job \in Jobs /\ retention.head \in Nat /\ "EVIDENCE_EXPIRED" \in EventTypes
  BY DEF Inv, TypeInv, TypeOK, EventTypes
<1>2. /\ RetentionRecord \in Record /\ RetentionRecord.job = retention.job
      /\ RetentionRecord.type = "EVIDENCE_EXPIRED" /\ RetentionRecord.prev = retention.head
  BY <1>1, ChainedType DEF RetentionRecord
<1>3. Records!Cause["EVIDENCE_EXPIRED"] = "EVIDENCE_CAPTURED"
  BY DEF Records!Cause
<1>4. "EVIDENCE_EXPIRED" \notin ClientTypes
  BY DEF ClientTypes
<1>5. QED
  BY <1>2, <1>3, <1>4 DEF Succeeds, Inv, Reading

(* What follows the cursor in the outbox is a message. *)
LEMMA UnreadMessage ==
  ASSUME TypeInv, Unread PROVE outbox[accountingCursor + 1] \in Message
  BY DEF Unread, TypeInv, TypeOK

(* A step that leaves the file, the streams and the process alone. *)
LEMMA FrameKeeps ==
  ASSUME Inv, UNCHANGED <<lines, status, replayed, events, idempotency>>,
         acked' \subseteq acked \cup idempotency, acked' \subseteq Jobs \X ClientTypes
  PROVE  Chain' /\ Once' /\ Streams' /\ Keys' /\ Starting'
<1>1. Applied' = Applied /\ Applied \in 0 .. Len(lines) /\ Len(lines) \in Nat
  BY AppliedType DEF Applied, Inv, TypeInv, FileWhole
<1>2. Chain' /\ Once' /\ Starting'
  BY DEF Inv, Chain, Once, Starting
<1>3. Streams'
  <2>1. Streams /\ lines' = lines /\ events' = events
    BY DEF Inv
  <2>2. Applied' = Applied
    BY <1>1
  <2>3. QED BY <2>1, <2>2 DEF Streams
<1>4. \A j \in Jobs, type \in ClientTypes : Logged(j, type, Applied) => Logged(j, type, Len(lines))
  BY <1>1 DEF Logged
<1>5. Keys'
  BY <1>1, <1>4 DEF Inv, Keys, Logged
<1>6. QED BY <1>2, <1>3, <1>5

(* Every step keeps the invariant. *)
LEMMA StepKeeps == ASSUME Serial, Inv, [Next]_vars PROVE Inv'
<1> USE DEF Serial
<1>0. TypeInv'
  BY StepType DEF Inv
<1>1. ASSUME NEW j \in Jobs, NEW type \in ClientTypes, PostEvent(j, type) PROVE Inv'
  <2> DEFINE r == Chained(j, type, Len(events[j]))
  <2>1. Succeeds(r) /\ r.job = j /\ r.type = type
    BY <1>1, PostSucceeds DEF PostEvent, Chained
  <2>2. status = "up" /\ status' = "up" /\ retention' = None /\ commitTx(r)
        /\ acked' = acked \cup {<<j, type>>}
    BY <1>1 DEF PostEvent, MayPost, Running
  <2> HIDE DEF r
  <2>3. QED BY <1>0, <2>1, <2>2, CommitKeeps DEF Succeeds, Inv
<1>2. ASSUME NEW j \in Jobs, NEW type \in ClientTypes, RepeatPost(j, type) PROVE Inv'
  <2>1. Reading'
    BY <1>2 DEF RepeatPost, Running, Reading
  <2>2. acked' \subseteq acked \cup idempotency
    BY <1>2 DEF RepeatPost
  <2>3. QED
    BY <1>0, <1>2, <2>1, <2>2, FrameKeeps DEF RepeatPost, disk, memory, Inv, TypeInv, TypeOK
<1>3. ASSUME NEW j \in Jobs, NEW type \in ClientTypes, StopInPost(j, type) PROVE Inv'
  <2>1. Succeeds(Chained(j, type, Len(events[j])))
    BY <1>3, PostSucceeds DEF StopInPost
  <2>2. QED
    BY <1>0, <1>3, <2>1, StopInAppendKeeps DEF StopInPost, MayPost, Running, Succeeds, Inv
<1>4. CASE AccountMessage
  <2> DEFINE m == outbox[accountingCursor + 1]
  <2>1. m \in Message /\ status = "up" /\ retention = None
    BY <1>4, UnreadMessage DEF AccountMessage, Unread, Running, Inv
  <2>2. UNCHANGED <<status, replayed, retention, acked>>
    BY <1>4 DEF AccountMessage
  <2>3. CASE CostDue(m)
    <3>1. commitTx(CostRecord(m))
      BY <1>4, <2>3 DEF AccountMessage
    <3>2. Succeeds(CostRecord(m))
      BY <2>1, <2>3, CostSucceeds
    <3> HIDE DEF m
    <3>3. QED BY <1>0, <2>1, <2>2, <3>1, <3>2, CommitKeeps DEF Succeeds, Inv
  <2>4. CASE ~CostDue(m)
    <3>1. UNCHANGED <<lines, events, idempotency>>
      BY <1>4, <2>4 DEF AccountMessage, disk
    <3>2. acked' \subseteq Jobs \X ClientTypes
      BY <2>2 DEF Inv, TypeInv, TypeOK
    <3>3. QED BY <1>0, <2>1, <2>2, <3>1, <3>2, FrameKeeps DEF Inv, Reading
  <2>5. QED BY <2>3, <2>4
<1>5. CASE StopInAccounting
  <2> DEFINE m == outbox[accountingCursor + 1]
  <2>1. m \in Message /\ status = "up" /\ CostDue(m) /\ StopInAppend(CostRecord(m)) /\ Stop
        /\ acked' = acked
    BY <1>5, UnreadMessage DEF StopInAccounting, Unread, Running, Inv
  <2> HIDE DEF m
  <2>2. Succeeds(CostRecord(m))
    BY <2>1, CostSucceeds
  <2>3. QED BY <1>0, <2>1, <2>2, StopInAppendKeeps DEF Succeeds, Inv
<1>6. ASSUME NEW j \in Jobs, RetentionRead(j) PROVE Inv'
  <2>1. UNCHANGED <<lines, status, replayed, events, idempotency, acked>>
    BY <1>6 DEF RetentionRead, disk, memory
  <2>2. Reading'
    BY <1>6, <2>1 DEF RetentionRead, Reading, Has
  <2>3. QED
    BY <1>0, <2>1, <2>2, FrameKeeps DEF Inv, TypeInv, TypeOK
<1>7. CASE RetentionCommit
  <2>1. Succeeds(RetentionRecord)
    BY <1>7, RetentionSucceeds DEF RetentionCommit
  <2>2. QED
    BY <1>0, <1>7, <2>1, CommitKeeps DEF RetentionCommit, Succeeds, Inv
<1>8. CASE StopInRetention
  <2>1. Succeeds(RetentionRecord)
    BY <1>8, RetentionSucceeds DEF StopInRetention
  <2>2. QED
    BY <1>0, <1>8, <2>1, StopInAppendKeeps DEF StopInRetention, Succeeds, Inv
<1>9. CASE Crash
  <2>1. lines' = lines /\ acked' = acked /\ Stop
    BY <1>9 DEF Crash, disk
  <2>2. Extended /\ FileWhole' /\ Chain' /\ Once'
    BY <1>0, <2>1 DEF Extended, Inv, TypeInv, FileWhole, Chain, Once
  <2>3. QED BY <1>0, <2>1, <2>2, StopKeeps DEF Inv
<1>10. CASE Restart
  <2>1. /\ UNCHANGED <<lines, replayed, events, idempotency, retention, acked>>
        /\ status = "down" /\ status' = "replaying"
    BY <1>10 DEF Restart, disk, memory
  <2>2. Applied' = Applied /\ retention = None /\ replayed = 0
    BY <2>1 DEF Applied, Inv, Reading, Starting
  <2>3. Chain' /\ Once' /\ Streams' /\ Keys'
    BY <2>1, <2>2 DEF Inv, Chain, Once, Streams, Keys, Logged
  <2>4. Reading' /\ Starting'
    BY <2>1, <2>2 DEF Reading, Starting, Inv, TypeInv, FileWhole
  <2>5. QED BY <1>0, <2>3, <2>4 DEF Inv
<1>11. CASE ReplayRecord
  <2> DEFINE r == lines[replayed + 1]
  <2>1. /\ Load = lines /\ status = "replaying" /\ replayed < Len(lines)
        /\ Len(lines) \in Nat /\ replayed \in Nat
    BY <1>11, LoadWhole DEF ReplayRecord, Inv, TypeInv, TypeOK, FileWhole
  <2>2. r \in Record /\ ~Conflicts(r)
    BY <2>1, ReplayHead
  <2>3. /\ applyTxRecord(r) /\ replayed' = replayed + 1
        /\ UNCHANGED <<lines, status, retention, acked>>
    BY <1>11, <2>1, <2>2 DEF ReplayRecord, disk
  <2>4. Applied = replayed /\ Applied' = replayed + 1 /\ retention = None
    BY <2>1, <2>3 DEF Applied, Inv, Reading
  <2>5. Streams'
    BY <2>1, <2>2, <2>3, <2>4, ApplyKeepsStreams DEF applyTxRecord, Conflicts
  <2>6. Keys'
    <3>1. idempotency' \subseteq idempotency \cup {<<r.job, r.type>>}
      BY <2>3 DEF applyTxRecord
    <3>2. ASSUME NEW j \in Jobs, NEW type \in ClientTypes, <<j, type>> = <<r.job, r.type>>
          PROVE  Logged(j, type, Applied)'
      <4>1. lines'[replayed + 1].job = j /\ lines'[replayed + 1].type = type
        BY <2>3, <3>2
      <4>2. replayed + 1 \in 1 .. Applied'
        BY <2>1, <2>4
      <4>3. QED BY <4>1, <4>2 DEF Logged
    <3>3. \A j \in Jobs, type \in ClientTypes : Logged(j, type, Applied) => Logged(j, type, Applied)'
      BY <2>1, <2>3, <2>4 DEF Logged
    <3>4. \A j \in Jobs, type \in ClientTypes : <<j, type>> \in acked' => Logged(j, type, Len(lines))'
      BY <2>3 DEF Inv, Keys, Logged
    <3> HIDE DEF r
    <3>5. ASSUME NEW j \in Jobs, NEW type \in ClientTypes, <<j, type>> \in idempotency'
          PROVE  Logged(j, type, Applied)'
      <4>1. CASE <<j, type>> = <<r.job, r.type>>
        BY <3>2, <4>1
      <4>2. CASE <<j, type>> \in idempotency
        BY <3>3, <4>2 DEF Inv, Keys
      <4>3. QED BY <3>1, <3>5, <4>1, <4>2
    <3>6. QED BY <3>4, <3>5 DEF Keys
  <2>7. Chain' /\ Once' /\ Reading' /\ Starting'
    BY <2>1, <2>3, <2>4 DEF Inv, Chain, Once, Reading, Starting
  <2>8. QED BY <1>0, <2>5, <2>6, <2>7 DEF Inv
<1>12. CASE ReplayDone
  <2>1. /\ Load = lines /\ status = "replaying" /\ status' = "up" /\ replayed = Len(lines)
        /\ UNCHANGED <<lines, replayed, events, idempotency, retention, acked>>
    BY <1>12, LoadWhole DEF ReplayDone, disk, Inv, TypeInv
  <2>2. Applied' = Applied /\ retention = None
    BY <2>1 DEF Applied, Inv, Reading
  <2>3. Chain' /\ Once' /\ Streams' /\ Keys'
    BY <2>1, <2>2 DEF Inv, Chain, Once, Streams, Keys, Logged
  <2>4. QED BY <1>0, <2>1, <2>2, <2>3 DEF Inv, Reading, Starting
<1>13. CASE UNCHANGED vars
  <2>1. Reading'
    BY <1>13 DEF vars, memory, Inv, Reading, Has
  <2>2. QED
    BY <1>0, <1>13, <2>1, FrameKeeps DEF vars, disk, memory, Inv, TypeInv, TypeOK
<1>14. QED
  BY <1>1, <1>2, <1>3, <1>4, <1>5, <1>6, <1>7, <1>8, <1>9, <1>10, <1>11, <1>12, <1>13 DEF Next

(* The invariant holds at first. *)
LEMMA InitKeeps == Init => Inv
<1> SUFFICES ASSUME Init PROVE Inv
  OBVIOUS
<1>1. TypeInv
  BY InitType
<1>2. Len(lines) = 0 /\ Applied = 0
  BY DEF Init, Applied
<1>3. \A j \in Jobs : Len(events[j]) = 0
  BY DEF Init
<1>4. QED
  BY <1>1, <1>2, <1>3 DEF Init, Inv, Chain, Once, Streams, Keys, Reading, Starting

(* A restart never finds a record of its own file that it cannot apply,      *)
(* whatever the moment the process stopped.                                  *)
THEOREM TxLogReplaySucceeds == ASSUME Serial PROVE Spec => []ReplaySucceeds
<1>1. Inv => ReplaySucceeds
  BY DEF Inv, Starting, ReplaySucceeds
<1>2. Inv /\ [Next]_vars => Inv'
  BY StepKeeps
<1>3. QED
  BY <1>1, <1>2, InitKeeps, PTL DEF Spec

(* No event of a job is in the file twice: the workers, whose cursors are    *)
(* lost at a restart, derive each event once, and a repeated request is not  *)
(* recorded again.                                                           *)
THEOREM TxLogRecordedOnce == ASSUME Serial PROVE Spec => []RecordedOnce
<1>1. Inv => RecordedOnce
  <2> SUFFICES ASSUME Inv PROVE RecordedOnce
    OBVIOUS
  <2>1. Load = lines /\ DOMAIN Load = 1 .. Len(lines)
    BY LoadWhole DEF Inv, TypeInv, FileWhole
  <2>2. QED BY <2>1 DEF Inv, Once, RecordedOnce
<1>2. Inv /\ [Next]_vars => Inv'
  BY StepKeeps
<1>3. QED
  BY <1>1, <1>2, InitKeeps, PTL DEF Spec

-----------------------------------------------------------------------------
(* The refinement: durable is what a load of the file brings back. *)

D == Durable(Range(Load))

(* What is durable is what the lines of the file say. *)
LEMMA DurableLogged ==
  ASSUME FileWhole, NEW j, NEW type
  PROVE  <<j, type>> \in D <=> Logged(j, type, Len(lines))
<1>1. Range(Load) = {lines[i] : i \in 1 .. Len(lines)}
  BY LoadWhole DEF FileWhole, Range
<1>2. D = {<<lines[i].job, lines[i].type>> : i \in 1 .. Len(lines)}
  BY <1>1, Zenon DEF D, Durable
<1>3. QED
  BY <1>2 DEF Logged

(* What is durable changes only with the file. *)
LEMMA DurableUnchanged == ASSUME UNCHANGED disk PROVE D' = D
  BY DEF disk, D, Load

(* An appended line makes its event durable and no other. *)
LEMMA DurableAppended ==
  ASSUME TypeInv, FileWhole', NEW r \in Record, lines' = Append(lines, r)
  PROVE  D' = D \cup {<<r.job, r.type>>}
<1>1. Load = lines /\ Load' = lines'
  <2>1. Load = lines
    BY LoadWhole DEF TypeInv
  <2>2. {i \in DOMAIN lines' : lines'[i] = Garbage} = {}
    BY TxLogAssumption DEF FileWhole
  <2>3. Load' = lines'
    BY <2>2 DEF Load, FileWhole
  <2>4. QED BY <2>1, <2>3
<1>2. Range(lines') = Range(lines) \cup {r}
  <2>1. /\ Len(lines) \in Nat /\ DOMAIN lines = 1 .. Len(lines) /\ DOMAIN lines' = 1 .. Len(lines) + 1
        /\ \A i \in 1 .. Len(lines) : lines'[i] = lines[i]
        /\ lines'[Len(lines) + 1] = r
    BY DEF TypeInv, FileWhole
  <2>2. QED BY <2>1 DEF Range
<1>3. D = Durable(Range(lines)) /\ D' = Durable(Range(lines'))
  BY <1>1 DEF D
<1>4. QED BY <1>2, <1>3 DEF Durable

(* A line that is added is an event the promise allows. *)
LEMMA AppendAllowed ==
  ASSUME Inv, status = "up", NEW r \in Record, Succeeds(r)
  PROVE  Records!Allowed(D, r.job, r.type)
<1>1. Applied = Len(lines) /\ r.job \in Jobs
  BY DEF Applied, Record
<1>2. <<r.job, r.type>> \notin D
  BY <1>1, HasLogged, DurableLogged DEF Succeeds, Inv, TypeInv
<1>3. r.type \notin ClientTypes => <<r.job, Records!Cause[r.type]>> \in D
  BY <1>1, HasLogged, DurableLogged DEF Succeeds, Inv, TypeInv
<1>4. QED
  BY <1>2, <1>3 DEF Records!Allowed, Records!ClientTypes, ClientTypes

(* A line that is added is a step of the promise, answered or not. *)
LEMMA AppendImplements ==
  ASSUME Inv, FileWhole', status = "up", NEW r \in Record, Succeeds(r), lines' = Append(lines, r),
         acked' = acked \/ (r.type \in ClientTypes /\ acked' = acked \cup {<<r.job, r.type>>})
  PROVE  Records!Next
<1>1. Records!Record(r.job, r.type)
  BY AppendAllowed, DurableAppended DEF Records!Record, D, Inv
<1>2. r.job \in Jobs /\ r.type \in EventTypes
  BY DEF Record
<1>3. CASE acked' = acked
  <2>1. Records!RecordSilently(r.job, r.type)
    BY <1>1, <1>3 DEF Records!RecordSilently
  <2>2. r.type \in Records!EventTypes
    BY <1>2 DEF EventTypes, ClientTypes, Records!EventTypes, Records!ClientTypes
  <2>3. QED BY <1>2, <2>1, <2>2 DEF Records!Next
<1>4. CASE r.type \in ClientTypes /\ acked' = acked \cup {<<r.job, r.type>>}
  <2>1. Records!Post(r.job, r.type)
    BY <1>1, <1>4 DEF Records!Post
  <2>2. r.type \in Records!ClientTypes
    BY <1>4 DEF ClientTypes, Records!ClientTypes
  <2>3. QED BY <1>2, <2>1, <2>2 DEF Records!Next
<1>5. QED BY <1>3, <1>4

(* Every step is a step of JobRecords or a stutter. *)
LEMMA StepImplements == ASSUME Serial, Inv, [Next]_vars PROVE [Records!Next]_(Records!vars)
<1> USE DEF Serial
<1>0. ASSUME UNCHANGED disk, acked' = acked PROVE [Records!Next]_(Records!vars)
  BY <1>0, DurableUnchanged DEF Records!vars, D
<1>1. ASSUME NEW j \in Jobs, NEW type \in ClientTypes, PostEvent(j, type) PROVE Records!Next
  <2> DEFINE r == Chained(j, type, Len(events[j]))
  <2>1. Succeeds(r) /\ r.job = j /\ r.type = type
    BY <1>1, PostSucceeds DEF PostEvent, Chained
  <2>2. status = "up" /\ commitTx(r) /\ acked' = acked \cup {<<j, type>>}
    BY <1>1 DEF PostEvent, MayPost, Running
  <2> HIDE DEF r
  <2>3. FileWhole' /\ lines' = Append(lines, r)
    BY <2>1, <2>2, CommitAppends DEF Inv, Succeeds
  <2>4. QED BY <2>1, <2>2, <2>3, AppendImplements DEF Succeeds
<1>2. ASSUME NEW j \in Jobs, NEW type \in ClientTypes, RepeatPost(j, type) PROVE Records!Next
  <2>1. <<j, type>> \in idempotency /\ acked' = acked \cup {<<j, type>>} /\ UNCHANGED disk
    BY <1>2 DEF RepeatPost
  <2>2. Applied = Len(lines)
    BY <1>2 DEF RepeatPost, Running, Applied
  <2>3. <<j, type>> \in D
    BY <2>1, <2>2, DurableLogged DEF Inv, TypeInv, Keys
  <2>4. Records!Acknowledge(j, type)
    BY <2>1, <2>3, DurableUnchanged DEF Records!Acknowledge, D
  <2>5. type \in Records!ClientTypes
    BY DEF ClientTypes, Records!ClientTypes
  <2>6. QED BY <2>4, <2>5 DEF Records!Next
<1>3. ASSUME NEW j \in Jobs, NEW type \in ClientTypes, StopInPost(j, type) PROVE Records!Next
  <2> DEFINE r == Chained(j, type, Len(events[j]))
  <2>1. Succeeds(r) /\ StopInAppend(r) /\ status = "up" /\ acked' = acked
    BY <1>3, PostSucceeds DEF StopInPost, MayPost, Running
  <2> HIDE DEF r
  <2>2. FileWhole' /\ lines' = Append(lines, r)
    BY <2>1, AppendType DEF Inv, Succeeds
  <2>3. QED BY <2>1, <2>2, AppendImplements DEF Succeeds
<1>4. CASE AccountMessage
  <2> DEFINE m == outbox[accountingCursor + 1]
  <2>1. m \in Message /\ status = "up" /\ acked' = acked
    BY <1>4, UnreadMessage DEF AccountMessage, Unread, Running, Inv
  <2>2. CASE CostDue(m)
    <3>1. commitTx(CostRecord(m))
      BY <1>4, <2>2 DEF AccountMessage
    <3> HIDE DEF m
    <3>2. Succeeds(CostRecord(m))
      BY <2>1, <2>2, CostSucceeds
    <3>3. FileWhole' /\ lines' = Append(lines, CostRecord(m))
      BY <3>1, <3>2, CommitAppends DEF Inv, Succeeds
    <3>4. QED BY <2>1, <3>2, <3>3, AppendImplements DEF Succeeds
  <2>3. CASE ~CostDue(m)
    BY <1>0, <1>4, <2>1, <2>3 DEF AccountMessage
  <2>4. QED BY <2>2, <2>3
<1>5. CASE StopInAccounting
  <2> DEFINE m == outbox[accountingCursor + 1]
  <2>1. m \in Message /\ status = "up" /\ CostDue(m) /\ StopInAppend(CostRecord(m)) /\ acked' = acked
    BY <1>5, UnreadMessage DEF StopInAccounting, Unread, Running, Inv
  <2> HIDE DEF m
  <2>2. Succeeds(CostRecord(m))
    BY <2>1, CostSucceeds
  <2>3. FileWhole' /\ lines' = Append(lines, CostRecord(m))
    BY <2>1, <2>2, AppendType DEF Inv, Succeeds
  <2>4. QED BY <2>1, <2>2, <2>3, AppendImplements DEF Succeeds
<1>6. CASE RetentionCommit
  <2>1. Succeeds(RetentionRecord) /\ status = "up" /\ commitTx(RetentionRecord) /\ acked' = acked
    BY <1>6, RetentionSucceeds DEF RetentionCommit
  <2>2. FileWhole' /\ lines' = Append(lines, RetentionRecord)
    BY <2>1, CommitAppends DEF Inv, Succeeds
  <2>3. QED BY <2>1, <2>2, AppendImplements DEF Succeeds
<1>7. CASE StopInRetention
  <2>1. Succeeds(RetentionRecord) /\ status = "up" /\ StopInAppend(RetentionRecord) /\ acked' = acked
    BY <1>7, RetentionSucceeds DEF StopInRetention
  <2>2. FileWhole' /\ lines' = Append(lines, RetentionRecord)
    BY <2>1, AppendType DEF Inv, Succeeds
  <2>3. QED BY <2>1, <2>2, AppendImplements DEF Succeeds
<1>8. ASSUME NEW j \in Jobs, RetentionRead(j) PROVE [Records!Next]_(Records!vars)
  BY <1>0, <1>8 DEF RetentionRead
<1>9. CASE Crash \/ Restart \/ ReplayRecord \/ ReplayDone
  BY <1>0, <1>9 DEF Crash, Restart, ReplayRecord, ReplayDone
<1>10. CASE UNCHANGED vars
  BY <1>0, <1>10 DEF vars
<1>11. QED
  BY <1>1, <1>2, <1>3, <1>4, <1>5, <1>6, <1>7, <1>8, <1>9, <1>10 DEF Next

(* The log file with a replay implements the promise of JobRecords, for any  *)
(* number of jobs and of stops.                                              *)
THEOREM TxLogImplements == ASSUME Serial PROVE Spec => Implements
<1>1. Init => Records!Init
  <2> SUFFICES ASSUME Init PROVE Records!Init
    OBVIOUS
  <2>1. lines = <<>> /\ acked = {} /\ Load = lines
    BY InitType, LoadWhole DEF Init, TypeInv
  <2>2. Range(Load) = {}
    BY <2>1 DEF Range
  <2>3. QED BY <2>1, <2>2 DEF Records!Init, Durable
<1>2. Inv /\ [Next]_vars => Inv'
  BY StepKeeps
<1>3. Inv /\ [Next]_vars => [Records!Next]_(Records!vars)
  BY StepImplements
<1>4. QED
  BY <1>1, <1>2, <1>3, InitKeeps, PTL DEF Spec, Implements, Records!Spec

(* What the refinement is worth to a client: an event that was acknowledged  *)
(* is among those that a restart brings back, at every moment.  It follows   *)
(* from JobRecords alone.                                                    *)
THEOREM TxLogAckedDurable == ASSUME Serial PROVE Spec => []AckedDurable
<1>1. Records!Init => AckedDurable
  BY DEF Records!Init, AckedDurable
<1>2. AckedDurable /\ [Records!Next]_(Records!vars) => AckedDurable'
  <2> SUFFICES ASSUME AckedDurable, [Records!Next]_(Records!vars) PROVE AckedDurable'
    OBVIOUS
  <2> QED BY DEF AckedDurable, Records!Next, Records!vars, Records!Post, Records!Record,
                 Records!RecordSilently, Records!Acknowledge
<1> QED BY <1>1, <1>2, TxLogImplements, PTL DEF Implements, Records!Spec

-----------------------------------------------------------------------------
(* The ledger.  It is not in the file: while records are replayed, what      *)
(* holds is that the messages of the outbox stand for the events that post   *)
(* an entry, each under the position of its event.                           *)

OutboxMatchesEvents == Posted(outbox) = PostingEvents

LedgerInv == TypeOK /\ OutboxMatchesEvents /\ LedgerMatchesEvents

(* What is posted for two sequences of messages is what is posted for each. *)
LEMMA PostedConcat ==
  ASSUME NEW s \in Seq(Message), NEW t \in Seq(Message)
  PROVE  Posted(s \o t) = Posted(s) \cup Posted(t)
<1>1. Range(s \o t) = Range(s) \cup Range(t)
  <2>1. ASSUME NEW x \in Range(s \o t) PROVE x \in Range(s) \cup Range(t)
    <3>1. PICK i \in DOMAIN (s \o t) : x = (s \o t)[i]
      BY DEF Range
    <3>2. CASE i <= Len(s)
      <4>1. i \in DOMAIN s /\ x = s[i]
        BY <3>1, <3>2
      <4> QED BY <4>1 DEF Range
    <3>3. CASE ~(i <= Len(s))
      <4>1. i - Len(s) \in DOMAIN t /\ x = t[i - Len(s)]
        BY <3>1, <3>3
      <4> QED BY <4>1 DEF Range
    <3> QED BY <3>2, <3>3
  <2>2. ASSUME NEW x \in Range(s) PROVE x \in Range(s \o t)
    <3>1. PICK i \in DOMAIN s : x = s[i]
      BY DEF Range
    <3>2. i \in DOMAIN (s \o t) /\ x = (s \o t)[i]
      BY <3>1
    <3> QED BY <3>2 DEF Range
  <2>3. ASSUME NEW x \in Range(t) PROVE x \in Range(s \o t)
    <3>1. PICK i \in DOMAIN t : x = t[i]
      BY DEF Range
    <3>2. i + Len(s) \in DOMAIN (s \o t) /\ x = (s \o t)[i + Len(s)]
      BY <3>1
    <3> QED BY <3>2 DEF Range
  <2> QED BY <2>1, <2>2, <2>3
<1> QED BY <1>1, Zenon DEF Posted

(* A record posts an entry for its own event, if its event posts one. *)
LEMMA PostedOfRecord ==
  ASSUME NEW r \in Record
  PROVE  Posted(Messages(r)) =
           IF r.type \in {"SETTLED", "OPERATOR_COST_RECORDED"} THEN {<<r.job, r.prev + 1>>} ELSE {}
<1> DEFINE settled == [type |-> "JOB_SETTLED", job |-> r.job, event |-> r.prev + 1]
<1>1. /\ Entry(r).type = "LEDGER_ENTRY_APPLY"
      /\ Entry(r).job = r.job /\ Entry(r).event = r.prev + 1
      /\ settled.type = "JOB_SETTLED"
  BY DEF Entry
<1> HIDE DEF settled
<1>2. CASE r.type = "SETTLED"
  <2>1. Messages(r) = <<Entry(r), settled>>
    BY <1>2 DEF Messages, settled
  <2>2. Range(<<Entry(r), settled>>) = {Entry(r), settled}
    BY DEF Range
  <2>3. {x \in {Entry(r), settled} : x.type = "LEDGER_ENTRY_APPLY"} = {Entry(r)}
    BY <1>1
  <2>4. Posted(Messages(r)) = {<<m.job, m.event>> : m \in {Entry(r)}}
    BY <2>1, <2>2, <2>3 DEF Posted
  <2> QED BY <1>1, <1>2, <2>4
<1>3. CASE r.type = "OPERATOR_COST_RECORDED"
  <2>1. Messages(r) = <<Entry(r)>>
    BY <1>3 DEF Messages
  <2>2. Range(<<Entry(r)>>) = {Entry(r)}
    BY DEF Range
  <2>3. {x \in {Entry(r)} : x.type = "LEDGER_ENTRY_APPLY"} = {Entry(r)}
    BY <1>1
  <2>4. Posted(Messages(r)) = {<<m.job, m.event>> : m \in {Entry(r)}}
    BY <2>1, <2>2, <2>3 DEF Posted
  <2> QED BY <1>1, <1>3, <2>4
<1>4. CASE r.type \notin {"SETTLED", "OPERATOR_COST_RECORDED"}
  <2>1. Messages(r) = <<>>
    BY <1>4 DEF Messages
  <2>2. Range(<<>>) = {}
    BY DEF Range
  <2> QED BY <1>4, <2>1, <2>2 DEF Posted
<1> QED BY <1>2, <1>3, <1>4

(* A record that fits the stream adds its own event to those that post. *)
LEMMA ApplyPosting ==
  ASSUME TypeOK, NEW r \in Record, ~Conflicts(r), applyTxRecord(r)
  PROVE  PostingEvents' = PostingEvents \cup Posted(Messages(r))
<1> DEFINE P == {"SETTLED", "OPERATOR_COST_RECORDED"}
<1>1. /\ r.job \in Jobs /\ r.type \in EventTypes /\ r.prev = Len(events[r.job])
      /\ events \in [Jobs -> Seq(EventTypes)]
  BY DEF Record, Conflicts, TypeOK
<1>2. /\ events' \in [Jobs -> Seq(EventTypes)]
      /\ events'[r.job] = Append(events[r.job], r.type)
      /\ \A j \in Jobs \ {r.job} : events'[j] = events[j]
  BY <1>1 DEF applyTxRecord
<1>3. Posted(Messages(r)) = IF r.type \in P THEN {<<r.job, r.prev + 1>>} ELSE {}
  BY PostedOfRecord
<1> DEFINE at(j) == {n \in DOMAIN events[j] : events[j][n] \in P}
           after(j) == {n \in DOMAIN events'[j] : events'[j][n] \in P}
<1>4. \A j \in Jobs \ {r.job} : after(j) = at(j)
  BY <1>2
<1>5. after(r.job) = at(r.job) \cup (IF r.type \in P THEN {r.prev + 1} ELSE {})
  <2> DEFINE s == events[r.job]
  <2>1. s \in Seq(EventTypes) /\ r.prev = Len(s) /\ events'[r.job] = Append(s, r.type)
    BY <1>1, <1>2
  <2> HIDE DEF s
  <2>2. /\ DOMAIN Append(s, r.type) = DOMAIN s \cup {r.prev + 1}
        /\ Append(s, r.type)[r.prev + 1] = r.type
        /\ r.prev + 1 \notin DOMAIN s
        /\ \A n \in DOMAIN s : Append(s, r.type)[n] = s[n]
    BY <1>1, <2>1
  <2>3. {n \in DOMAIN Append(s, r.type) : Append(s, r.type)[n] \in P}
          = {n \in DOMAIN s : s[n] \in P} \cup (IF r.type \in P THEN {r.prev + 1} ELSE {})
    BY <2>2
  <2> QED BY <2>1, <2>3 DEF s
<1>6. PostingEvents = UNION {{j} \X at(j) : j \in Jobs} /\ PostingEvents' = UNION {{j} \X after(j) : j \in Jobs}
  BY DEF PostingEvents
<1> DEFINE own == IF r.type \in P THEN {r.prev + 1} ELSE {}
           before == UNION {{j} \X at(j) : j \in Jobs}
           then == UNION {{j} \X after(j) : j \in Jobs}
<1> HIDE DEF P, at, after, own
<1>7. after(r.job) = at(r.job) \cup own
  BY <1>5 DEF own
<1>8. then = before \cup ({r.job} \X own)
  <2>1. ASSUME NEW e \in then PROVE e \in before \cup ({r.job} \X own)
    <3>1. PICK j \in Jobs : e \in {j} \X after(j)
      BY <2>1
    <3>2. CASE j = r.job
      <4>1. e \in {j} \X at(j) \/ e \in {r.job} \X own
        BY <1>7, <3>1, <3>2
      <4> QED BY <4>1
    <3>3. CASE j # r.job
      <4>1. e \in {j} \X at(j)
        BY <1>4, <3>1, <3>3
      <4> QED BY <4>1
    <3> QED BY <3>2, <3>3
  <2>2. ASSUME NEW e \in before PROVE e \in then
    <3>1. PICK j \in Jobs : e \in {j} \X at(j)
      BY <2>2
    <3>2. e \in {j} \X after(j)
      BY <1>4, <1>7, <3>1
    <3> QED BY <3>2
  <2>3. ASSUME NEW e \in {r.job} \X own PROVE e \in then
    <3>1. e \in {r.job} \X after(r.job)
      BY <1>7, <2>3
    <3> QED BY <1>1, <3>1
  <2> HIDE DEF then, before
  <2> QED BY <2>1, <2>2, <2>3
<1>9. {r.job} \X own = IF r.type \in P THEN {<<r.job, r.prev + 1>>} ELSE {}
  BY DEF own
<1> QED BY <1>3, <1>6, <1>8, <1>9

(* Committing a record keeps outbox and ledger in line with the events, a    *)
(* conflict, which changes none of the three, included.                      *)
LEMMA CommitPosts ==
  ASSUME LedgerInv, NEW r \in Record, status = "up", commitTx(r)
  PROVE  OutboxMatchesEvents' /\ LedgerMatchesEvents'
<1>1. CASE Conflicts(r)
  BY <1>1 DEF commitTx, LedgerInv, OutboxMatchesEvents, LedgerMatchesEvents, PostingEvents, Posted
<1>2. CASE ~Conflicts(r)
  <2>1. applyTxRecord(r) /\ ledger' = ledger \cup Posted(Messages(r))
    BY <1>2 DEF commitTx
  <2>2. PostingEvents' = PostingEvents \cup Posted(Messages(r))
    BY <1>2, <2>1, ApplyPosting DEF LedgerInv
  <2>3. Posted(outbox)' = Posted(outbox) \cup Posted(Messages(r))
    <3>1. outbox' = outbox \o Messages(r) /\ outbox \in Seq(Message)
      BY <2>1 DEF applyTxRecord, LedgerInv, TypeOK
    <3>2. Posted(outbox)' = Posted(outbox \o Messages(r))
      BY <3>1 DEF Posted
    <3> QED BY <3>1, <3>2, MessagesType, PostedConcat
  <2> QED BY <2>1, <2>2, <2>3 DEF LedgerInv, OutboxMatchesEvents, LedgerMatchesEvents
<1> QED BY <1>1, <1>2

(* A stop empties the outbox and the streams together. *)
LEMMA StopPosts == ASSUME Stop PROVE OutboxMatchesEvents' /\ LedgerMatchesEvents'
<1>1. status' = "down" /\ outbox' = <<>> /\ events' = [j \in Jobs |-> <<>>]
  BY DEF Stop, EmptyMemory
<1>2. PostingEvents' = {}
  BY <1>1 DEF PostingEvents
<1>3. Posted(outbox)' = {}
  <2>1. Range(<<>>) = {}
    BY DEF Range
  <2> QED BY <1>1, <2>1 DEF Posted
<1> QED BY <1>1, <1>2, <1>3 DEF OutboxMatchesEvents, LedgerMatchesEvents

(* Every step keeps outbox and ledger in line with the events. *)
LEMMA StepPosts == ASSUME LedgerInv, [Next]_vars PROVE LedgerInv'
<1>1. TypeOK'
  BY StepTypeOK DEF LedgerInv
<1> SUFFICES OutboxMatchesEvents' /\ LedgerMatchesEvents'
  BY <1>1 DEF LedgerInv
<1> USE DEF LedgerInv
<1>2. ASSUME UNCHANGED <<events, outbox, ledger>>, status' = status \/ status' # "up"
      PROVE  OutboxMatchesEvents' /\ LedgerMatchesEvents'
  BY <1>2 DEF OutboxMatchesEvents, LedgerMatchesEvents, PostingEvents, Posted
<1>3. ASSUME NEW j \in Jobs, NEW type \in ClientTypes, PostEvent(j, type)
      PROVE  OutboxMatchesEvents' /\ LedgerMatchesEvents'
  <2>1. Chained(j, type, Len(events[j])) \in Record
    BY ChainedType DEF EventTypes, TypeOK
  <2> QED BY <1>3, <2>1, CommitPosts DEF PostEvent, MayPost, Running
<1>4. ASSUME NEW j \in Jobs, NEW type \in ClientTypes, RepeatPost(j, type)
      PROVE  OutboxMatchesEvents' /\ LedgerMatchesEvents'
  BY <1>2, <1>4 DEF RepeatPost, memory
<1>5. ASSUME NEW j \in Jobs, NEW type \in ClientTypes, StopInPost(j, type)
      PROVE  OutboxMatchesEvents' /\ LedgerMatchesEvents'
  BY <1>5, StopPosts DEF StopInPost
<1>6. CASE AccountMessage
  <2> DEFINE m == outbox[accountingCursor + 1]
  <2>1. m \in Message
    BY <1>6 DEF AccountMessage, Unread, TypeOK
  <2>2. CostRecord(m) \in Record
    BY <2>1, CostType
  <2>3. CASE CostDue(m)
    BY <1>6, <2>2, <2>3, CommitPosts DEF AccountMessage, Unread, Running
  <2>4. CASE ~CostDue(m)
    BY <1>2, <1>6, <2>4 DEF AccountMessage
  <2> QED BY <2>3, <2>4
<1>7. CASE StopInAccounting \/ StopInRetention \/ Crash
  BY <1>7, StopPosts DEF StopInAccounting, StopInRetention, Crash
<1>8. ASSUME NEW j \in Jobs, RetentionRead(j)
      PROVE  OutboxMatchesEvents' /\ LedgerMatchesEvents'
  BY <1>2, <1>8 DEF RetentionRead, memory
<1>9. CASE RetentionCommit
  <2>1. RetentionRecord \in Record
    BY <1>9, ChainedType DEF RetentionCommit, RetentionRecord, EventTypes, TypeOK
  <2> QED BY <1>9, <2>1, CommitPosts DEF RetentionCommit
<1>10. CASE Restart
  BY <1>2, <1>10 DEF Restart, memory
<1>11. CASE ReplayRecord
  <2> DEFINE r == Load[replayed + 1]
  <2>1. r \in Record
    BY <1>11, LoadType DEF ReplayRecord, TypeOK
  <2>2. CASE Conflicts(r)
    BY <1>2, <1>11, <2>2 DEF ReplayRecord, memory
  <2>3. CASE ~Conflicts(r)
    <3>1. applyTxRecord(r) /\ status' = "replaying"
      BY <1>11, <2>3 DEF ReplayRecord
    <3>2. PostingEvents' = PostingEvents \cup Posted(Messages(r))
      BY <2>1, <2>3, <3>1, ApplyPosting
    <3>3. outbox' = outbox \o Messages(r) /\ outbox \in Seq(Message)
      BY <3>1 DEF applyTxRecord, TypeOK
    <3>4. Posted(outbox)' = Posted(outbox \o Messages(r))
      BY <3>3 DEF Posted
    <3>5. Posted(outbox)' = Posted(outbox) \cup Posted(Messages(r))
      BY <2>1, <3>3, <3>4, MessagesType, PostedConcat
    <3> QED BY <3>1, <3>2, <3>5 DEF OutboxMatchesEvents, LedgerMatchesEvents
  <2> QED BY <2>2, <2>3
<1>12. CASE ReplayDone
  BY <1>12 DEF ReplayDone, OutboxMatchesEvents, LedgerMatchesEvents, PostingEvents, Posted
<1>13. CASE UNCHANGED vars
  BY <1>2, <1>13 DEF vars, memory
<1> QED
  BY <1>3, <1>4, <1>5, <1>6, <1>7, <1>8, <1>9, <1>10, <1>11, <1>12, <1>13 DEF Next

(* The ledger is empty at first, and so are the streams. *)
LEMMA InitPosts == Init => LedgerInv
<1> SUFFICES ASSUME Init PROVE LedgerInv
  OBVIOUS
<1>1. outbox = <<>> /\ ledger = {} /\ events = [j \in Jobs |-> <<>>]
  BY DEF Init
<1>2. PostingEvents = {}
  BY <1>1 DEF PostingEvents
<1>3. Range(<<>>) = {}
  BY DEF Range
<1>4. Posted(outbox) = {}
  BY <1>1, <1>3 DEF Posted
<1> QED BY <1>1, <1>2, <1>4, InitType DEF TypeInv, LedgerInv, OutboxMatchesEvents, LedgerMatchesEvents

(* The ledger, which is rebuilt from the outbox at every start, has exactly  *)
(* one entry for every settlement and every cost of the streams, under the   *)
(* position of its event.  This needs neither whole lines nor an atomic      *)
(* retention: a conflict touches neither streams nor ledger, and what a torn *)
(* write loses is lost to both.                                              *)
THEOREM TxLogLedgerMatches == Spec => []LedgerMatchesEvents
<1>1. LedgerInv => LedgerMatchesEvents
  BY DEF LedgerInv
<1>2. LedgerInv /\ [Next]_vars => LedgerInv'
  BY StepPosts
<1> QED BY <1>1, <1>2, InitPosts, PTL DEF Spec

=============================================================================
