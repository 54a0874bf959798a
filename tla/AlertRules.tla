----------------------------- MODULE AlertRules -----------------------------
(***************************************************************************)
(* Who is alerted about what, and how soon: the strategies of backend/src/ *)
(* domain/alerting, one per component type, the reconciliation of a        *)
(* strategy's floor with the reported severity, and the escalation policy. *)
(***************************************************************************)
EXTENDS Naturals

CONSTANTS
  Within,       (* [Severity -> Nat], acknowledgeWithinMs of each policy      *)
  Configured    (* the channels that have a webhook URL                       *)

Severity == {"P0", "P1", "P2", "P3"}

Channel == {"pagerduty", "slack", "email"}

ASSUME RulesAssumption ==
  /\ Within \in [Severity -> Nat]
  /\ Within["P0"] <= Within["P1"] /\ Within["P1"] <= Within["P2"]
  /\ Within["P2"] <= Within["P3"]
  /\ Configured \subseteq Channel

Urgency == [P0 |-> 0, P1 |-> 1, P2 |-> 2, P3 |-> 3]

(* The strategies: a floor, and the channels of a first alert. *)
RdbmsStrategy   == [floor |-> "P0", channels |-> {"pagerduty", "slack"}]
ApiStrategy     == [floor |-> "P1", channels |-> {"pagerduty", "slack"}]
NosqlStrategy   == [floor |-> "P1", channels |-> {"pagerduty", "slack"}]
McpHostStrategy == [floor |-> "P1", channels |-> {"slack", "email"}]
QueueStrategy   == [floor |-> "P1", channels |-> {"slack"}]
CacheStrategy   == [floor |-> "P2", channels |-> {"slack"}]
DefaultStrategy == [floor |-> "P2", channels |-> {"email"}]

(* createDefaultAlertStrategyRegistry. *)
Registered ==
  [RDBMS |-> RdbmsStrategy, NOSQL |-> NosqlStrategy, CACHE |-> CacheStrategy,
   API |-> ApiStrategy, MCP_HOST |-> McpHostStrategy, QUEUE |-> QueueStrategy]

(* resolve: the fallback for a type that nobody registered. *)
StrategyOf(type) ==
  IF type \in DOMAIN Registered THEN Registered[type] ELSE DefaultStrategy

EscalateTo == [P0 |-> "pagerduty", P1 |-> "slack", P2 |-> "email", P3 |-> "email"]

(* Definitions named Faulty... are seeded faults: each replaces the        *)
(* definition after it in a run that must then find a property violated.   *)

(* Fault: the floor caps what is reported. *)
FaultyReconcile(floor, reported) ==
  IF Urgency[reported] < Urgency[floor] THEN floor ELSE reported

(* The more urgent of the two. *)
Reconcile(floor, reported) ==
  IF Urgency[reported] < Urgency[floor] THEN reported ELSE floor

(* The console, which is no channel of the registry, and those channels    *)
(* that are configured.                                                    *)
Targets(channels) == {"console"} \cup (channels \cap Configured)

=============================================================================
