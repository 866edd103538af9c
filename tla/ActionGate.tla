----------------------------- MODULE ActionGate -----------------------------
(***************************************************************************)
(* Action Mode end to end: the operator of ActionOperator and the executor *)
(* of each agent pod (executor.rs), which meet only in the API server.     *)
(* The executor lists the policies, decides by its own clock, and then     *)
(* runs the handler of the command: validation and reads, the dry-run      *)
(* patch, the live patch, the verification.  Each API call is a step.      *)
(*                                                                         *)
(* The inner steps of drain_node are in DrainNode; how commands arrive and *)
(* are acknowledged is in CommandLoop.                                     *)
(***************************************************************************)
EXTENDS ActionOperator

CONSTANTS Agent,            \* agent pods, each running one command at a time
          Commands,         \* the commands the hub may send
          ActionsEnabled,   \* cfg.actions_enabled (ACTION_OPERATOR_ENABLED)
          ReadonlyEnabled   \* cfg.readonly_commands_enabled

ASSUME GateAssumption ==
    /\ Commands \subseteq Command
    /\ Commands # {}
    /\ \A c \in Commands : c.kind \in {"self_update", "update_agent"} =>
                               c.ns = AgentNamespace
    /\ ActionsEnabled \in BOOLEAN
    /\ ReadonlyEnabled \in BOOLEAN

VARIABLE exec    \* agent -> the command it is executing

vars == <<time, optedIn, lastOptIn, policy, roleBinding, op, exec>>

\* at is the true time of the admission, NoTime for a command not admitted;
\* applied says that a live patch of this command reached the cluster.
Execution == [pc      : {"idle", "list", "decide", "dryRun", "live", "verify", "done"},
              cmd     : Commands,
              seen    : [Policy -> PolicyObject],
              at      : Nat \cup {NoTime},
              applied : BOOLEAN,
              status  : {"none", "ok", "error", "skipped", "unknown"}]

TypeOK ==
    /\ OperatorTypeOK
    /\ exec \in [Agent -> Execution]

Begin(pc, c) == [pc      |-> pc,
                 cmd     |-> c,
                 seen    |-> [p \in Policy |-> NoPolicy],
                 at      |-> NoTime,
                 applied |-> FALSE,
                 status  |-> "none"]

Free == Begin("idle", CHOOSE c \in Commands : TRUE)

Init ==
    /\ OperatorInit
    /\ exec = [a \in Agent |-> Free]

-----------------------------------------------------------------------------
(* The executor *)

Finish(a, status) ==
    exec' = [exec EXCEPT ![a] = [@ EXCEPT !.pc = "done", !.status = status,
                                          !.seen = [p \in Policy |-> NoPolicy]]]

Enabled(c) ==
    CASE c.kind \in {"get_resource_yaml", "other"} -> TRUE
      [] c.kind = "diagnose_postgresql"            -> ReadonlyEnabled
      [] OTHER                                     -> ActionsEnabled

\* execute_inner: a disabled kind is skipped before its spec is parsed, an
\* unknown kind is answered as such, and get_resource_yaml is the one kind
\* that no policy gates.
Dispatch(c) ==
    CASE ~Enabled(c)                  -> [Begin("done", c) EXCEPT !.status = "skipped"]
      [] c.kind = "other"             -> [Begin("done", c) EXCEPT !.status = "unknown"]
      [] c.kind = "get_resource_yaml" -> Begin("verify", c)
      [] OTHER                        -> Begin("list", c)

Receive(a, c) ==
    /\ exec[a].pc = "idle"
    /\ exec' = [exec EXCEPT ![a] = Dispatch(c)]
    /\ UNCHANGED operatorVars

\* parse_spec fails.
InvalidSpec(a, c) ==
    /\ exec[a].pc = "idle"
    /\ Enabled(c) /\ c.kind # "other"
    /\ exec' = [exec EXCEPT ![a] = [Begin("done", c) EXCEPT !.status = "error"]]
    /\ UNCHANGED operatorVars

\* list_action_policies
GateList(a) ==
    /\ exec[a].pc = "list"
    /\ exec' = [exec EXCEPT ![a] = [@ EXCEPT !.pc = "decide", !.seen = policy]]
    /\ UNCHANGED operatorVars

GateListFails(a) ==
    /\ exec[a].pc = "list"
    /\ Finish(a, "error")
    /\ UNCHANGED operatorVars

Admitted(a, now) ==
    \E p \in Policy : policy_admits(exec[a].seen[p], exec[a].cmd, now)

\* The first step of the handler behind the gate.
FirstStep(c) ==
    CASE c.kind \in {"preview_workload_resources", "rollout_restart",
                     "scale", "update_agent"}      -> "dryRun"
      [] c.kind = "apply_workload_resources"       -> "live"
      [] OTHER                                     -> "verify"

\* now_ms() is read after the list has been answered.
GateDecide(a) ==
    /\ exec[a].pc = "decide"
    /\ \E now \in Reading(time) :
           IF Admitted(a, now)
           THEN exec' = [exec EXCEPT ![a] =
                            [@ EXCEPT !.pc = FirstStep(exec[a].cmd),
                                      !.at = time,
                                      !.seen = [p \in Policy |-> NoPolicy]]]
           ELSE Finish(a, "error")
    /\ UNCHANGED operatorVars

\* Validation, the read of the target or a patch is refused: nothing changed.
HandlerRefuses(a) ==
    /\ exec[a].pc \in {"dryRun", "live"}
    /\ Finish(a, "error")
    /\ UNCHANGED operatorVars

\* Patching needs the RoleBinding of the namespace; what lets update_agent
\* patch the agent's own DaemonSet is not part of this system.
Authorized(c) == c.ns \in roleBinding \/ c.kind = "update_agent"

\* scale serves Deployments only.
TargetServed(c) == c.kind = "scale" => c.target = "Deployment"

IsPreview(c) ==
    \/ c.kind = "preview_workload_resources"
    \/ c.kind \in {"rollout_restart", "scale"} /\ c.preview

\* Mutant of DryRun: the return for previews is missing.
DryRunThenLive(a) ==
    /\ exec[a].pc = "dryRun"
    /\ Authorized(exec[a].cmd) /\ TargetServed(exec[a].cmd)
    /\ exec' = [exec EXCEPT ![a].pc = "live"]
    /\ UNCHANGED operatorVars

\* The dry-run patch succeeds; a preview ends here.
DryRun(a) ==
    LET c == exec[a].cmd IN
    /\ exec[a].pc = "dryRun"
    /\ Authorized(c) /\ TargetServed(c)
    /\ IF IsPreview(c)
       THEN Finish(a, "ok")
       ELSE exec' = [exec EXCEPT ![a].pc = "live"]
    /\ UNCHANGED operatorVars

AfterPatch(c) == IF c.kind = "rollout_restart" THEN "verify" ELSE "done"

\* The live patch is carried out and answered.
LivePatch(a) ==
    LET c == exec[a].cmd IN
    /\ exec[a].pc = "live"
    /\ Authorized(c)
    /\ exec' = [exec EXCEPT ![a] =
                    [@ EXCEPT !.pc = AfterPatch(c),
                              !.applied = TRUE,
                              !.status = IF AfterPatch(c) = "done" THEN "ok" ELSE exec[a].status]]
    /\ UNCHANGED operatorVars

\* The live patch is carried out but its answer is lost, or the container
\* cannot be found in the answer: the handler reports an error.
LivePatchUnconfirmed(a) ==
    /\ exec[a].pc = "live"
    /\ Authorized(exec[a].cmd)
    /\ exec' = [exec EXCEPT ![a] =
                    [@ EXCEPT !.pc = "done", !.applied = TRUE, !.status = "error"]]
    /\ UNCHANGED operatorVars

\* wait_for_rollout_completion, or the read-only work of the kinds that
\* patch nothing.
Verify(a) ==
    /\ exec[a].pc = "verify"
    /\ \E status \in {"ok", "error"} :
           /\ exec[a].cmd.kind \in {"self_update", "diagnose_postgresql"} => status = "ok"
           /\ Finish(a, status)
    /\ UNCHANGED operatorVars

\* The result goes back to the command loop; a crash forgets the command.
Return(a) ==
    /\ exec[a].pc = "done"
    /\ exec' = [exec EXCEPT ![a] = Free]
    /\ UNCHANGED operatorVars

AgentCrash(a) ==
    /\ exec[a].pc \notin {"idle", "done"}
    /\ exec' = [exec EXCEPT ![a] = Free]
    /\ UNCHANGED operatorVars

ExecutorStep(a) ==
    \/ \E c \in Commands : Receive(a, c) \/ InvalidSpec(a, c)
    \/ GateList(a) \/ GateListFails(a) \/ GateDecide(a)
    \/ HandlerRefuses(a) \/ DryRun(a)
    \/ LivePatch(a) \/ LivePatchUnconfirmed(a)
    \/ Verify(a) \/ Return(a) \/ AgentCrash(a)

-----------------------------------------------------------------------------
ClusterStep == OperatorNext /\ UNCHANGED exec

Next == ClusterStep \/ \E a \in Agent : ExecutorStep(a)

Spec == Init /\ [][Next]_vars

-----------------------------------------------------------------------------
(* Properties *)

\* Kinds the gate ties to the namespace of the command.  drain_node has none
\* and update_agent is let through in the agent's own namespace.
Namespaced(c) == c.kind \notin {"drain_node", "update_agent", "get_resource_yaml"}

\* Opting out binds within a fixed time: a command the executor admits on a
\* namespace (ensure_effective_policy_allows) finds that namespace outside
\* the exclude list and opted in at some moment of the last StaleAfter, give
\* or take the skew of two clocks.  It holds however long a reconcile pass
\* takes, with several operators, and when no operator runs any more.
OptOutBound ==
    \A a \in Agent :
        exec[a].at # NoTime /\ Namespaced(exec[a].cmd) =>
            /\ exec[a].cmd.ns \notin Excluded
            /\ exec[a].at - lastOptIn[exec[a].cmd.ns] <= StaleAfter + 2 * MaxSkew

\* What makes OptOutBound inductive.  The history is exact; a pass that has
\* its list found every namespace on it opted in when it started or later; a
\* status and an executor's copy of one inherit that from the pass.
HistoryExact ==
    \A n \in Namespace : /\ lastOptIn[n] <= time
                         /\ n \in optedIn => lastOptIn[n] = time

PassSince ==
    \A o \in Operator :
        /\ op[o].pc \in {"idle", "listNamespaces", "down"} => op[o].listed = {}
        /\ op[o].pc = "listNamespaces" => op[o].now <= time + MaxSkew
        /\ \A n \in op[o].listed : /\ lastOptIn[n] >= 0
                                    /\ lastOptIn[n] + MaxSkew >= op[o].now

SeenSince ==
    \A a \in Agent, p \in Policy : \A n \in exec[a].seen[p].status.effective :
        /\ n \notin Excluded
        /\ lastOptIn[n] + MaxSkew >= exec[a].seen[p].status.last

\* The inductive invariant: together with TypeOK it implies OptOutBound.
GateInv ==
    /\ HistoryExact
    /\ PassSince
    /\ EffectiveSince
    /\ SeenSince
    /\ BindingsWithinOptIn
    /\ OptOutBound

\* The result tells the truth about the cluster: what is reported as a dry
\* run never reached it, and an "ok" of a mutating handler that is no dry
\* run did (rollout_restart, scale_workload, update_agent and
\* execute_workload_resources_inner).
ResultHonest ==
    \A a \in Agent : exec[a].pc = "done" =>
        /\ IsPreview(exec[a].cmd) => ~exec[a].applied
        /\ /\ exec[a].status = "ok"
           /\ exec[a].cmd.kind \in WorkloadActions \cup {"update_agent"}
           /\ ~IsPreview(exec[a].cmd)
           => exec[a].applied

\* What makes it inductive: nothing is applied before the live patch, only
\* what is no dry run gets that far, and of the mutating handlers only one
\* that has patched goes on to verify.
HonestSoFar ==
    \A a \in Agent :
        /\ exec[a].pc \notin {"verify", "done"} => ~exec[a].applied
        /\ IsPreview(exec[a].cmd) => exec[a].pc # "live" /\ ~exec[a].applied
        /\ /\ exec[a].pc = "verify"
           /\ exec[a].cmd.kind \in WorkloadActions \cup {"update_agent"}
           => exec[a].applied

HonestInv == HonestSoFar /\ ResultHonest

Admits(a) == exec[a].at = NoTime /\ exec'[a].at # NoTime

\* Nothing in the cluster, in a reconcile pass or in an executor's list
\* speaks for namespace n any more.
Forgotten(n) ==
    /\ n \notin optedIn \cup roleBinding
    /\ \A o \in Operator : n \notin op[o].listed
    /\ \A p \in Policy : n \notin policy[p].status.effective
    /\ \A a \in Agent, p \in Policy : n \notin exec[a].seen[p].status.effective

\* Only the label brings a forgotten namespace back.  As long as nobody sets
\* it, no pass of any operator grants the RoleBinding or names the namespace
\* in a status, although passes still hold the statuses they read, policies
\* are deleted and created under the same name, and the status is patched by
\* name (reconcile_action_role_bindings_with, patch_policy_status), and no
\* executor admits a command on it (ensure_effective_policy_allows).
StaysForgotten ==
    [][\A n \in Namespace : Forgotten(n) /\ n \notin optedIn' =>
           /\ Forgotten(n)'
           /\ \A a \in Agent : Admits(a) /\ Namespaced(exec[a].cmd) =>
                  exec[a].cmd.ns # n]_vars

\* What the docs say and the code does not do.

\* README.md:165: "the executor still requires sentinella.io/action-mode=true
\* on the target namespace".
LabelRequired ==
    [][\A a \in Agent : Admits(a) /\ Namespaced(exec[a].cmd) =>
           exec[a].cmd.ns \in optedIn]_vars

\* SPEC.md:720: "SentinellaHubActionPolicy enforces namespaceSelector, ...".
SelectorEnforced ==
    [][\A a \in Agent : Admits(a) /\ Namespaced(exec[a].cmd) =>
           \E p \in Policy : /\ exec[a].seen[p].exists
                             /\ exec[a].cmd.ns \in exec[a].seen[p].spec.selector]_vars

\* SPEC.md:733: self_update returns status "ok" -- read as: it does so where
\* a Ready and fresh policy allows it, as drain_node does.
SelfUpdateServed ==
    [][\A a \in Agent :
           /\ exec[a].pc = "decide"
           /\ exec'[a].pc = "done"
           /\ exec[a].cmd.kind = "self_update"
           => \A p \in Policy : LET q == exec[a].seen[p] IN
                  ~ /\ q.exists
                    /\ q.status.ready
                    /\ "self_update" \in q.spec.actions
                    /\ q.status.last >= time]_vars
=============================================================================
