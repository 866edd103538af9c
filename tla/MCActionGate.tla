---------------------------- MODULE MCActionGate ----------------------------
(* Instances of ActionGate for TLC. *)
EXTENDS ActionGate, MCActionOperator

Cmd(kind, ns) == [kind |-> kind, ns |-> ns, target |-> "Deployment", preview |-> FALSE,
                  requests |-> NoLimits, limits |-> NoLimits]

\* The same command on an eligible and on an excluded namespace.
GateCommands == {Cmd("apply_workload_resources", app), Cmd("apply_workload_resources", sys)}

\* One command for every path through the executor: a restart and its
\* preview, a scale of the wrong kind, resources above the policy limit, the
\* agent's own update, the cluster action and the two read-only kinds.
PathCommands ==
    {Cmd("rollout_restart", app),
     [Cmd("rollout_restart", app) EXCEPT !.preview = TRUE],
     [Cmd("scale", app) EXCEPT !.target = "StatefulSet"],
     [Cmd("apply_workload_resources", app) EXCEPT !.requests = [NoLimits EXCEPT !["cpu"] = 2]],
     Cmd("update_agent", sys),
     Cmd("drain_node", app),
     Cmd("get_resource_yaml", sys),
     Cmd("diagnose_postgresql", app),
     Cmd("other", app)}

SelfUpdateCommands == {Cmd("self_update", sys)}
=============================================================================
