---------------------------- MODULE ActionPolicy ----------------------------
(***************************************************************************)
(* The data of Action Mode and the pure functions on it: what a           *)
(* SentinellaHubActionPolicy declares, when its status is stale, the       *)
(* status the operator computes for it (operator.rs) and the decision the  *)
(* executor takes from it (executor.rs).  No state: the processes that    *)
(* use these operators are in ActionOperator and ActionGate.               *)
(*                                                                         *)
(* Abstractions.  A namespace is a model value; the exclusion patterns of  *)
(* the operator are the set of namespaces they match.  A resource quantity *)
(* is the number the parser makes of it.  Condition reasons and messages   *)
(* are wording and are left out; of the nine conditions of a status only   *)
(* Ready is ever read back (condition_true in executor.rs).                *)
(***************************************************************************)
EXTENDS Integers

CONSTANTS Namespace,        \* the namespaces of the cluster
          AgentNamespace,   \* "sentinella", where the agent itself runs
          Excluded,         \* namespaces matched by the exclude list
          StaleAfter        \* 3 * ACTION_OPERATOR_POLL_INTERVAL_SECS

\* SYSTEM_EXCLUDED_NAMESPACES always contains "sentinella".
ASSUME PolicyAssumption ==
    /\ Excluded \subseteq Namespace
    /\ AgentNamespace \in Excluded
    /\ StaleAfter \in Nat

NoTime == -1         \* last_reconciled_at_ms is None
NoQuantity == -2     \* a cpu or memory field that is not given
BadQuantity == -1    \* a quantity that does not parse (i128::MIN in the code)

Dimension == {"cpu", "memory"}
Quantity == Nat \cup {NoQuantity, BadQuantity}

SupportedActions ==
    {"diagnose_postgresql", "get_resource_yaml", "drain_node",
     "preview_workload_resources", "apply_workload_resources",
     "rollout_restart", "scale", "self_update", "update_agent"}

WorkloadActions ==
    {"preview_workload_resources", "apply_workload_resources",
     "rollout_restart", "scale"}

SupportedResources == {"Deployment", "StatefulSet", "DaemonSet"}

\* Names a policy may declare; "other" stands for every unsupported one.
ActionName == SupportedActions \cup {"other"}
ResourceName == SupportedResources \cup {"other"}

PolicySpec == [selector  : SUBSET Namespace,
               actions   : SUBSET ActionName,
               resources : SUBSET ResourceName,
               limits    : [Dimension -> Quantity]]

PolicyStatus == [effective : SUBSET Namespace,
                 ready     : BOOLEAN,
                 last      : Nat \cup {NoTime}]

\* A policy without a status, and one whose status has no freshness
\* timestamp, are refused alike: both are last = NoTime here.
NoStatus == [effective |-> {}, ready |-> FALSE, last |-> NoTime]

-----------------------------------------------------------------------------
(* Freshness (model.rs) *)

SaturatingSub(a, b) == IF a >= b THEN a - b ELSE 0

\* Mutant of policy_status_is_stale: a status never grows old.
policy_status_never_stale(last, now) == last = NoTime

policy_status_is_stale(last, now) ==
    \/ last = NoTime
    \/ SaturatingSub(now, last) > StaleAfter

-----------------------------------------------------------------------------
(* What the operator writes (operator.rs) *)

policy_limits_are_valid(limits) ==
    \A d \in Dimension : limits[d] # BadQuantity

\* Every declared action is supported and at least one is declared.
ActionsDeclared(spec) ==
    spec.actions # {} /\ spec.actions \subseteq SupportedActions

ResourcesDeclared(spec) ==
    spec.resources # {} /\ spec.resources \subseteq SupportedResources

\* optedIn are the namespaces labelled sentinella.io/action-mode=true.
effective_namespaces(optedIn) == optedIn \ Excluded

\* Ready is decided with the freshness of the PREVIOUS status (lastSeen):
\* a policy is Ready from its second reconcile on.  spec.selector plays no
\* part (policy_matched is the constant true).
build_policy_status(spec, lastSeen, optedIn, granted, now) ==
    LET effective == effective_namespaces(optedIn)
    IN  [effective |-> effective,
         ready     |-> /\ effective # {}
                       /\ granted
                       /\ ActionsDeclared(spec)
                       /\ \/ spec.actions \cap WorkloadActions = {}
                          \/ ResourcesDeclared(spec)
                       /\ policy_limits_are_valid(spec.limits)
                       /\ ~policy_status_is_stale(lastSeen, now),
         last      |-> now]

-----------------------------------------------------------------------------
(* What the executor decides (executor.rs) *)

Command == [kind     : ActionName,
            ns       : Namespace,
            target   : ResourceName,
            preview  : BOOLEAN,
            requests : [Dimension -> Quantity],
            limits   : [Dimension -> Quantity]]

namespace_is_effective_for_command(cmd, effective) ==
    \/ cmd.ns \in effective
    \/ cmd.kind = "update_agent" /\ cmd.ns = AgentNamespace

\* TRUE when the quantity cannot be accepted under the policy limit.
quantity_exceeds_limit(quantity, limit) ==
    \/ quantity = BadQuantity
    \/ limit = BadQuantity
    \/ quantity > limit

policy_limits_violation(limits, cmd) ==
    \E d \in Dimension, asked \in {cmd.requests, cmd.limits} :
        /\ limits[d] # NoQuantity
        /\ asked[d] # NoQuantity
        /\ quantity_exceeds_limit(asked[d], limits[d])

policy_allows_command(spec, cmd) ==
    /\ ActionsDeclared(spec)
    /\ cmd.kind \in spec.actions
    /\ cmd.kind \in WorkloadActions =>
           ResourcesDeclared(spec) /\ cmd.target \in spec.resources
    /\ cmd.kind \in {"preview_workload_resources", "apply_workload_resources"} =>
           ~policy_limits_violation(spec.limits, cmd)

\* One policy as ensure_effective_policy_allows looks at it; drain_node goes
\* through ensure_cluster_action_allowed, which has no namespace test.
policy_admits(policy, cmd, now) ==
    /\ policy.exists
    /\ ~policy_status_is_stale(policy.status.last, now)
    /\ policy.status.ready
    /\ \/ cmd.kind = "drain_node"
       \/ namespace_is_effective_for_command(cmd, policy.status.effective)
    /\ policy_allows_command(policy.spec, cmd)
=============================================================================
