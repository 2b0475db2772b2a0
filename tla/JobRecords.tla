----------------------------- MODULE JobRecords -----------------------------
(***************************************************************************)
(* What a store promises about the event streams of jobs: an event is      *)
(* recorded once, in an order the job allows, and never lost again, and    *)
(* only what is recorded is ever acknowledged to a client.  TxLog          *)
(* implements this with a log file, a process that stops at any moment and *)
(* a replay of the file.                                                   *)
(***************************************************************************)

CONSTANTS Jobs

VARIABLES durable,  \* the events a restart brings back: <<job, type>>
          acked     \* the events a client was told are recorded

vars == <<durable, acked>>

(* The events of a job that matter here: a client posts the first two, the   *)
(* workers derive the others from them.                                      *)
ClientTypes == {"EVIDENCE_CAPTURED", "SETTLED"}

EventTypes == ClientTypes \cup {"EVIDENCE_EXPIRED", "OPERATOR_COST_RECORDED"}

(* The event that an event of the given type follows. *)
Cause == [EVIDENCE_EXPIRED |-> "EVIDENCE_CAPTURED", OPERATOR_COST_RECORDED |-> "SETTLED"]

Allowed(recorded, j, type) ==
  /\ <<j, type>> \notin recorded
  /\ type \notin ClientTypes => <<j, Cause[type]>> \in recorded

Init == durable = {} /\ acked = {}

Record(j, type) ==
  /\ Allowed(durable, j, type)
  /\ durable' = durable \cup {<<j, type>>}

(* The event of a client is recorded and acknowledged, or only recorded      *)
(* because the process stops before it answers.                              *)
Post(j, type) == Record(j, type) /\ acked' = acked \cup {<<j, type>>}

RecordSilently(j, type) == Record(j, type) /\ UNCHANGED acked

(* The client repeats a request and gets the answer of the first. *)
Acknowledge(j, type) ==
  /\ <<j, type>> \in durable
  /\ acked' = acked \cup {<<j, type>>}
  /\ UNCHANGED durable

Next ==
  \E j \in Jobs :
    \/ \E type \in ClientTypes : Post(j, type) \/ Acknowledge(j, type)
    \/ \E type \in EventTypes : RecordSilently(j, type)

Spec == Init /\ [][Next]_vars

=============================================================================
