--------------------------- MODULE ActionOperator ---------------------------
(***************************************************************************)
(* The Action Mode operator (operator.rs, --mode operator): each tick it   *)
(* lists the namespaces, then the policies, then creates or removes one    *)
(* RoleBinding per namespace and finally patches the status of each       *)
(* policy.  Every API call is a step of its own, so labels and policies   *)
(* may change, calls may fail or lose their answer, and the pod may die,   *)
(* between any two of them.  Operator is a set because a rolling update    *)
(* of the Deployment overlaps the old pod with the new one.                *)
(*                                                                         *)
(* The environment is here too: users label namespaces and create, edit    *)
(* and delete policies, and time passes.                                   *)
(***************************************************************************)
EXTENDS ActionPolicy

CONSTANTS Operator,      \* operator pods
          Policy,        \* names of SentinellaHubActionPolicy objects
          PolicySpecs,   \* the specs users may give a policy
          Relabelled,    \* the namespaces whose label changes over time
          MaxSkew,       \* how far a node's clock may be from true time
          MaxTime        \* bound: when the model's clock stops

ASSUME OperatorAssumption ==
    /\ PolicySpecs \subseteq PolicySpec
    /\ PolicySpecs # {}
    /\ Relabelled \subseteq Namespace
    /\ MaxSkew \in Nat
    /\ MaxTime \in Nat

VARIABLES
    time,          \* true time
    optedIn,       \* namespaces labelled sentinella.io/action-mode=true
    lastOptIn,     \* history: when a namespace last carried that label
    policy,        \* policy -> [exists, spec, status]
    roleBinding,   \* namespaces that hold the managed RoleBinding
    op             \* operator -> its reconcile pass

envVars == <<time, optedIn, lastOptIn, policy>>
operatorVars == <<time, optedIn, lastOptIn, policy, roleBinding, op>>

\* Older than any bound the properties state, at time 0 already.
Never == -(StaleAfter + 2 * MaxSkew + 1)

PolicyObject == [exists : BOOLEAN, spec : PolicySpecs, status : PolicyStatus]

\* pc is the API call the pass makes next; "down" is a pod that is not running.
Pass == [pc     : {"idle", "listNamespaces", "listPolicies", "bind", "status", "down"},
         now    : Nat,
         listed : SUBSET Namespace,
         seen   : [Policy -> PolicyObject],
         todo   : SUBSET Namespace,
         errors : BOOLEAN,
         left   : SUBSET Policy]

\* The wall clocks that a node may show at true time t.
Reading(t) == {c \in 0 .. (t + MaxSkew) : c >= t - MaxSkew}

OptInNow(S, t) ==
    [n \in Namespace |-> IF n \in S THEN t ELSE lastOptIn[n]]

OperatorTypeOK ==
    /\ time \in Nat
    /\ optedIn \in SUBSET Namespace
    /\ lastOptIn \in [Namespace -> Int]
    /\ policy \in [Policy -> PolicyObject]
    /\ roleBinding \in SUBSET Namespace
    /\ op \in [Operator -> Pass]

\* A policy that does not exist; its spec is never read.
NoPolicy == [exists |-> FALSE,
             spec   |-> CHOOSE s \in PolicySpecs : TRUE,
             status |-> NoStatus]

\* Between passes the operator holds nothing: the lists of a pass are locals.
Resting(pc) == [pc     |-> pc,
                now    |-> 0,
                listed |-> {},
                seen   |-> [p \in Policy |-> NoPolicy],
                todo   |-> {},
                errors |-> FALSE,
                left   |-> {}]

OperatorInit ==
    /\ time = 0
    /\ optedIn \in SUBSET Namespace
    /\ lastOptIn = [n \in Namespace |-> IF n \in optedIn THEN 0 ELSE Never]
    /\ policy = [p \in Policy |-> NoPolicy]
    /\ roleBinding = {}
    /\ op = [o \in Operator |-> Resting("idle")]

-----------------------------------------------------------------------------
(* The operator's reconcile pass *)

\* ticker.tick(), then now_ms() before anything is read.
StartPass(o) ==
    /\ op[o].pc = "idle"
    /\ \E now \in Reading(time) :
           op' = [op EXCEPT ![o] = [@ EXCEPT !.pc = "listNamespaces", !.now = now]]
    /\ UNCHANGED <<envVars, roleBinding>>

ListNamespaces(o) ==
    /\ op[o].pc = "listNamespaces"
    /\ op' = [op EXCEPT ![o] = [@ EXCEPT !.pc = "listPolicies", !.listed = optedIn]]
    /\ UNCHANGED <<envVars, roleBinding>>

ListPolicies(o) ==
    /\ op[o].pc = "listPolicies"
    /\ op' = [op EXCEPT ![o] =
                  [@ EXCEPT !.pc = "bind",
                            !.seen = policy,
                            !.todo = Namespace,
                            !.errors = FALSE,
                            !.left = {p \in Policy : policy[p].exists}]]
    /\ UNCHANGED <<envVars, roleBinding>>

\* Either list fails: the pass ends with an error and nothing is written.
ListFails(o) ==
    /\ op[o].pc \in {"listNamespaces", "listPolicies"}
    /\ op' = [op EXCEPT ![o] = Resting("idle")]
    /\ UNCHANGED <<envVars, roleBinding>>

\* Mutant of SetBinding: a RoleBinding is never taken away again.
SetBindingNeverRemoves(o, n) ==
    roleBinding' = IF n \in effective_namespaces(op[o].listed)
                   THEN roleBinding \cup {n} ELSE roleBinding

\* ensure_action_role_binding on an eligible namespace of the list,
\* remove_action_role_binding on every other.
SetBinding(o, n) ==
    roleBinding' = IF n \in effective_namespaces(op[o].listed)
                   THEN roleBinding \cup {n} ELSE roleBinding \ {n}

BindNamespace(o, n) ==
    /\ op[o].pc = "bind"
    /\ n \in op[o].todo
    /\ op' = [op EXCEPT ![o].todo = @ \ {n}]
    /\ SetBinding(o, n)
    /\ UNCHANGED envVars

\* The same call with an error, which is collected; the API server may have
\* carried the request out all the same.
BindNamespaceFails(o, n) ==
    /\ op[o].pc = "bind"
    /\ n \in op[o].todo
    /\ op' = [op EXCEPT ![o] = [@ EXCEPT !.todo = op[o].todo \ {n}, !.errors = TRUE]]
    /\ \/ UNCHANGED roleBinding
       \/ SetBinding(o, n)
    /\ UNCHANGED envVars

BindingsDone(o) ==
    /\ op[o].pc = "bind"
    /\ op[o].todo = {}
    /\ op' = [op EXCEPT ![o].pc = "status"]
    /\ UNCHANGED <<envVars, roleBinding>>

\* Mutant of StatusOf: the freshness timestamp is read when the status is
\* written instead of when the pass starts.
StatusStampedAtWrite(o, p) ==
    build_policy_status(op[o].seen[p].spec, op[o].seen[p].status.last,
                        op[o].listed, ~op[o].errors, time)

\* Mutant of StatusOf: the status is merged with the one the pass has read.
StatusMerged(o, p) ==
    build_policy_status(op[o].seen[p].spec, op[o].seen[p].status.last,
                        op[o].listed \cup op[o].seen[p].status.effective,
                        ~op[o].errors, op[o].now)

\* The status comes from what the pass listed, not from the policy as it is
\* now, and carries the time the pass started.
StatusOf(o, p) ==
    build_policy_status(op[o].seen[p].spec, op[o].seen[p].status.last,
                        op[o].listed, ~op[o].errors, op[o].now)

\* patch_policy_status; a policy deleted meanwhile answers 404.
PatchStatus(o, p) ==
    /\ op[o].pc = "status"
    /\ p \in op[o].left
    /\ op' = [op EXCEPT ![o].left = @ \ {p}]
    /\ policy' = IF policy[p].exists
                 THEN [policy EXCEPT ![p].status = StatusOf(o, p)]
                 ELSE policy
    /\ UNCHANGED <<time, optedIn, lastOptIn, roleBinding>>

\* A failed patch is logged and the loop goes on to the next policy.
PatchStatusFails(o, p) ==
    /\ op[o].pc = "status"
    /\ p \in op[o].left
    /\ op' = [op EXCEPT ![o].left = @ \ {p}]
    /\ UNCHANGED <<envVars, roleBinding>>

EndPass(o) ==
    /\ op[o].pc = "status"
    /\ op[o].left = {}
    /\ op' = [op EXCEPT ![o] = Resting("idle")]
    /\ UNCHANGED <<envVars, roleBinding>>

\* The pod dies or the lifecycle manager deletes the Deployment; a new pod
\* starts with nothing but what the API server holds.
OperatorStops(o) ==
    /\ op[o].pc # "down"
    /\ op' = [op EXCEPT ![o] = Resting("down")]
    /\ UNCHANGED <<envVars, roleBinding>>

OperatorStarts(o) ==
    /\ op[o].pc = "down"
    /\ op' = [op EXCEPT ![o] = Resting("idle")]
    /\ UNCHANGED <<envVars, roleBinding>>

\* The steps of a pass that meets no error.
PassStep(o) ==
    \/ StartPass(o)
    \/ ListNamespaces(o)
    \/ ListPolicies(o)
    \/ \E n \in Namespace : BindNamespace(o, n)
    \/ BindingsDone(o)
    \/ \E p \in Policy : PatchStatus(o, p)
    \/ EndPass(o)

PassFault(o) ==
    \/ ListFails(o)
    \/ \E n \in Namespace : BindNamespaceFails(o, n)
    \/ \E p \in Policy : PatchStatusFails(o, p)
    \/ OperatorStops(o)

-----------------------------------------------------------------------------
(* The environment *)

Tick ==
    /\ time < MaxTime
    /\ time' = time + 1
    /\ lastOptIn' = OptInNow(optedIn, time + 1)
    /\ UNCHANGED <<optedIn, policy, roleBinding, op>>

SetLabel(n) ==
    /\ n \notin optedIn
    /\ optedIn' = optedIn \cup {n}
    /\ lastOptIn' = OptInNow(optedIn', time)
    /\ UNCHANGED <<time, policy, roleBinding, op>>

ClearLabel(n) ==
    /\ n \in optedIn
    /\ optedIn' = optedIn \ {n}
    /\ UNCHANGED <<time, lastOptIn, policy, roleBinding, op>>

CreatePolicy(p, s) ==
    /\ ~policy[p].exists
    /\ policy' = [policy EXCEPT ![p] = [exists |-> TRUE, spec |-> s, status |-> NoStatus]]
    /\ UNCHANGED <<time, optedIn, lastOptIn, roleBinding, op>>

\* An edit of the spec, or the same one applied again, leaves the status
\* subresource as it is.
EditPolicy(p, s) ==
    /\ policy[p].exists
    /\ policy' = [policy EXCEPT ![p].spec = s]
    /\ UNCHANGED <<time, optedIn, lastOptIn, roleBinding, op>>

DeletePolicy(p) ==
    /\ policy[p].exists
    /\ policy' = [policy EXCEPT ![p] = NoPolicy]
    /\ UNCHANGED <<time, optedIn, lastOptIn, roleBinding, op>>

UserStep ==
    \/ \E n \in Relabelled : SetLabel(n) \/ ClearLabel(n)
    \/ \E p \in Policy, s \in PolicySpecs : CreatePolicy(p, s) \/ EditPolicy(p, s)
    \/ \E p \in Policy : DeletePolicy(p)

-----------------------------------------------------------------------------
OperatorNext ==
    \/ \E o \in Operator : PassStep(o) \/ PassFault(o) \/ OperatorStarts(o)
    \/ UserStep
    \/ Tick

OperatorSpec == OperatorInit /\ [][OperatorNext]_operatorVars

\* Faults come to an end (with the model's clock), the kubelet restarts the
\* pods and the ticker keeps firing: what the Deployment and the loop of
\* run_action_operator provide once the API server answers.
CalmNext ==
    \/ \E o \in Operator : \/ PassStep(o) \/ OperatorStarts(o)
                           \/ time < MaxTime /\ PassFault(o)
    \/ UserStep
    \/ Tick

CalmSpec ==
    /\ OperatorInit /\ [][CalmNext]_operatorVars
    /\ \A o \in Operator : /\ WF_operatorVars(PassStep(o))
                           /\ WF_operatorVars(OperatorStarts(o))
    /\ WF_operatorVars(Tick)

-----------------------------------------------------------------------------
(* Properties *)

\* The operator grants the RoleBinding only where someone has opted in,
\* never in an excluded namespace, whatever labels that namespace carries
\* (reconcile_action_role_bindings_with).
BindingsWithinOptIn ==
    \A n \in roleBinding : n \notin Excluded /\ lastOptIn[n] >= 0

\* A status never claims more than was true when its pass started: each
\* namespace it calls effective was opted in at that time or later.
\* Timestamps and lists may come from different passes of overlapping
\* operators (build_policy_status, patch_policy_status).
EffectiveSince ==
    \A p \in Policy : \A n \in policy[p].status.effective :
        /\ n \notin Excluded
        /\ lastOptIn[n] + MaxSkew >= policy[p].status.last

\* A namespace whose label is gone for good loses its RoleBinding for good
\* and disappears from every status, although overlapping operators with
\* older lists may grant it once more on the way.
OptOutConverges ==
    \A n \in Namespace :
        <>[](n \notin optedIn) =>
            <>[](/\ n \notin roleBinding
                 /\ \A p \in Policy : n \notin policy[p].status.effective)
=============================================================================
