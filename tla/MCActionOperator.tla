-------------------------- MODULE MCActionOperator --------------------------
(* Instances of ActionOperator for TLC: one namespace that users label and *)
(* unlabel, and one that the exclude list protects.                        *)
EXTENDS ActionOperator

CONSTANTS app, sys

MCNamespace == {app, sys}
MCExcluded == {sys}
MCRelabelled == {app}

NoLimits == [d \in Dimension |-> NoQuantity]

\* The default policy of the lifecycle manager in small.
DefaultSpec == [selector  |-> MCNamespace,
                actions   |-> {"apply_workload_resources", "rollout_restart", "self_update",
                               "drain_node"},
                resources |-> {"Deployment"},
                limits    |-> NoLimits]

\* An edit that withdraws kinds and bounds cpu.
BoundedSpec == [DefaultSpec EXCEPT !.actions = {"apply_workload_resources", "update_agent"},
                                   !.limits = [NoLimits EXCEPT !["cpu"] = 1]]

\* The default policy with a namespaceSelector that leaves app out.
SelectiveSpec == [DefaultSpec EXCEPT !.selector = {sys}]

\* A policy without actions is never Ready but has its status like any other;
\* it spares the states that differ in Ready only.
NeverReadySpec == [DefaultSpec EXCEPT !.actions = {}]

MCOneSpec == {DefaultSpec}
MCNeverReady == {NeverReadySpec}
MCTwoSpecs == {DefaultSpec, BoundedSpec}
MCSelectiveSpecs == {SelectiveSpec}
=============================================================================
