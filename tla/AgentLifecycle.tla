--------------------------- MODULE AgentLifecycle ---------------------------
(***************************************************************************)
(* The x402 lifecycle record of an agent (src/api/app.js): its status, the *)
(* reason recorded with it, the table of allowed transitions, the endpoint *)
(* that sets a status and the freeze that winds an agent down.             *)
(***************************************************************************)
EXTENDS Naturals

CONSTANTS Agents,             \* the agents of one tenant
          LifecycleStatuses,  \* the statuses requests ask for, a subset of AllStatuses
          Reasons             \* the reason codes requests give

VARIABLE lifecycle

AllStatuses == {"provisioned", "active", "throttled", "suspended",
                "quarantined", "frozen", "decommissioned", "archived"}

ASSUME LifecycleAssumption == LifecycleStatuses \subseteq AllStatuses

NoReason == "none"

(* X402_AGENT_LIFECYCLE_ALLOWED_TRANSITIONS *)
AllowedTransitions ==
  [provisioned    |-> {"provisioned", "active", "decommissioned", "archived"},
   active         |-> AllStatuses,
   throttled      |-> AllStatuses \ {"provisioned"},
   suspended      |-> AllStatuses \ {"provisioned", "throttled"},
   quarantined    |-> {"quarantined", "suspended", "frozen", "decommissioned", "archived"},
   frozen         |-> {"frozen", "active", "suspended", "decommissioned", "archived"},
   decommissioned |-> {"decommissioned", "archived"},
   archived       |-> {"archived"}]

(* An agent without a record is active. *)
LifecycleInit == lifecycle = [a \in Agents |-> [status |-> "active", reason |-> NoReason]]

(* Only active agents pass blockIfX402AgentLifecycleInactive. *)
Active(a) == lifecycle[a].status = "active"

(* The lifecycle endpoint for every status but frozen; a request that
   repeats the record changes nothing. *)
upsertX402AgentLifecycleStatus(a, status, reason) ==
  /\ status # "frozen"
  /\ status \in AllowedTransitions[lifecycle[a].status]
  /\ lifecycle[a] # [status |-> status, reason |-> reason]
  /\ lifecycle' = [lifecycle EXCEPT ![a] = [status |-> status, reason |-> reason]]

(* The first commit of freezeX402AgentLifecycle.  The table is not asked,
   and a freeze that repeats the record returns before the unwind. *)
freezeX402AgentLifecycle(a, reason) ==
  /\ lifecycle[a] # [status |-> "frozen", reason |-> reason]
  /\ lifecycle' = [lifecycle EXCEPT ![a] = [status |-> "frozen", reason |-> reason]]

LifecycleNext ==
  \E a \in Agents, reason \in Reasons :
    \/ \E status \in LifecycleStatuses : upsertX402AgentLifecycleStatus(a, status, reason)
    \/ freezeX402AgentLifecycle(a, reason)

LifecycleSpec == LifecycleInit /\ [][LifecycleNext]_lifecycle

(* Every change of a status is one the transition table allows, whichever
   of the two operations makes it: what the assertion of the lifecycle
   endpoint, assertX402AgentLifecycleTransitionAllowed, says of a change. *)
TransitionsFollowTable ==
  [][\A a \in Agents : lifecycle'[a].status \in AllowedTransitions[lifecycle[a].status]]_lifecycle

=============================================================================
