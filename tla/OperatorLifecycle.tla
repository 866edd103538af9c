-------------------------- MODULE OperatorLifecycle --------------------------
(***************************************************************************)
(* The operator lifecycle manager that runs in every agent pod             *)
(* (operator_lifecycle.rs): it watches the agent's ConfigMap and, while    *)
(* its pod is the leader, creates or removes the operator's ServiceAccount *)
(* and Deployment, the default policy and the action-mode labels.          *)
(*                                                                         *)
(* Each API call is a step.  Leadership is non-fencing (LeaderElection):   *)
(* any number of pods may believe that they lead, and leadership is looked *)
(* at only when a reconcile starts.  A get_opt and the create, patch or    *)
(* delete that follows it are one step; losing a race between them is a    *)
(* call that fails.  After Calm no call fails, no pod restarts and neither *)
(* the ConfigMap nor leadership changes; streams still time out.           *)
(***************************************************************************)
EXTENDS Naturals, Sequences

CONSTANTS Agent,       \* agent pods
          Namespace,   \* namespaces
          Configs,     \* values of the ConfigMap: [enabled, excluded]
          MaxEvents,   \* bound: changes of the ConfigMap
          MayDelete,   \* the ConfigMap may be deleted
          MayExpire    \* a disconnected watch may outlive its resource version

ASSUME LifecycleAssumption ==
    /\ Configs \subseteq [enabled : BOOLEAN, excluded : SUBSET Namespace]
    /\ MaxEvents \in Nat
    /\ MayDelete \in BOOLEAN
    /\ MayExpire \in BOOLEAN

VARIABLES log,         \* events of the ConfigMap; its last one is its state
          leader,      \* pods whose is_leader is true
          account,     \* the operator's ServiceAccount exists
          deployment,  \* the operator's Deployment exists
          policy,      \* the default action policy exists
          label,       \* namespace -> value of sentinella.io/action-mode
          agent,       \* pod -> its lifecycle task
          calm

world == <<account, deployment, policy, label>>
lifecycleVars == <<log, leader, account, deployment, policy, label, agent, calm>>

\* A deleted ConfigMap reads as disabled, with nothing excluded.
Deleted == [enabled |-> FALSE, excluded |-> {}, exists |-> FALSE]
Stored(c) == [enabled |-> c.enabled, excluded |-> c.excluded, exists |-> TRUE]
Event == {Stored(c) : c \in Configs} \cup {Deleted}
Current == log[Len(log)]

LabelValue == {"absent", "true", "false", "other"}

Enabling == {"account", "deployment", "policy", "namespaces", "labels"}
Disabling == {"dropDeployment", "dropAccount"}

\* rv is resource_version ("0" until an event is seen), pos how far the open
\* stream has come in the log, gone that rv is too old to watch from; known
\* is false while last_enabled is None, and resume is where the task goes on
\* after a reconcile.
Task == [pc       : {"boot", "connect", "watch"} \cup Enabling \cup Disabling,
         resume   : {"connect", "watch"},
         rv       : Nat,
         pos      : Nat,
         gone     : BOOLEAN,
         known    : BOOLEAN,
         enabled  : BOOLEAN,
         excluded : SUBSET Namespace,
         listed   : [Namespace -> LabelValue],
         todo     : SUBSET Namespace]

LifecycleTypeOK ==
    /\ log \in Seq(Event)
    /\ leader \in SUBSET Agent
    /\ {account, deployment, policy, calm} \subseteq BOOLEAN
    /\ label \in [Namespace -> LabelValue]
    /\ agent \in [Agent -> Task]
    /\ \A p \in Agent : agent[p].rv <= agent[p].pos /\ agent[p].pos <= Len(log)

NoLabels == [n \in Namespace |-> "absent"]

Started == [pc |-> "boot", resume |-> "connect", rv |-> 0, pos |-> 0, gone |-> FALSE,
            known |-> FALSE, enabled |-> FALSE, excluded |-> {},
            listed |-> NoLabels, todo |-> {}]

LifecycleInit ==
    /\ log \in {<<Stored(c)>> : c \in Configs}
    /\ leader = {}
    /\ account = FALSE /\ deployment = FALSE /\ policy = FALSE
    /\ label \in [Namespace -> LabelValue]
    /\ agent = [p \in Agent |-> Started]
    /\ calm = FALSE

-----------------------------------------------------------------------------
(* run_operator_lifecycle *)

\* Take over a value of the ConfigMap and, as the leader, reconcile with it.
Learn(p, task, event, resume) ==
    agent' = [agent EXCEPT ![p] =
        [task EXCEPT !.known = TRUE,
                     !.enabled = event.enabled,
                     !.excluded = event.excluded,
                     !.resume = resume,
                     !.pc = IF p \notin leader THEN resume
                            ELSE IF event.enabled THEN "account" ELSE "dropDeployment"]]

\* The first GET; an error, a missing ConfigMap too, is only logged.
Boot(p) ==
    /\ agent[p].pc = "boot"
    /\ Current.exists
    /\ Learn(p, agent[p], Current, "connect")
    /\ UNCHANGED <<log, leader, world, calm>>

BootFails(p) ==
    /\ agent[p].pc = "boot"
    /\ ~Current.exists \/ ~calm
    /\ agent' = [agent EXCEPT ![p].pc = "connect"]
    /\ UNCHANGED <<log, leader, world, calm>>

\* From version 0 the stream begins with the ConfigMap as it is; from a
\* later one it continues behind it.
WatchFrom(p) ==
    IF agent[p].rv # 0 THEN agent[p].rv
    ELSE IF Current.exists THEN Len(log) - 1 ELSE Len(log)

\* A watch that cannot be started is retried and leaves no trace here.
Connect(p) ==
    /\ agent[p].pc = "connect"
    /\ agent' = [agent EXCEPT ![p] = [@ EXCEPT !.pc = "watch", !.pos = WatchFrom(p)]]
    /\ UNCHANGED <<log, leader, world, calm>>

\* Added and Modified carry a new version; Deleted does not store one.
WatchEvent(p) ==
    LET next == agent[p].pos + 1
        task == [agent[p] EXCEPT !.pos = next]
    IN  /\ agent[p].pc = "watch"
        /\ agent[p].pos < Len(log)
        /\ ~agent[p].gone
        /\ Learn(p,
                 IF log[next].exists THEN [task EXCEPT !.rv = next] ELSE task,
                 log[next], "watch")
        /\ UNCHANGED <<log, leader, world, calm>>

\* Mutant of Bookmark: the version runs ahead of what was delivered.
BookmarkAhead(p) ==
    /\ agent[p].pc = "watch"
    /\ ~agent[p].gone
    /\ agent[p].rv # Len(log)
    /\ agent' = [agent EXCEPT ![p].rv = Len(log)]
    /\ UNCHANGED <<log, leader, world, calm>>

\* A bookmark brings the version up to what the stream has delivered.
Bookmark(p) ==
    /\ agent[p].pc = "watch"
    /\ ~agent[p].gone
    /\ agent[p].rv # 0 \/ agent[p].pos = Len(log)
    /\ agent[p].rv # agent[p].pos
    /\ agent' = [agent EXCEPT ![p].rv = agent[p].pos]
    /\ UNCHANGED <<log, leader, world, calm>>

\* The stream ends, after an error or the timeout of 290 seconds; when all is
\* calm only the timeout is left, which what is to deliver precedes.  A stream
\* from an expired version ends with the error 410; the version is kept, so
\* the next one ends in the same way.
StreamEnds(p) ==
    /\ agent[p].pc = "watch"
    /\ ~calm \/ agent[p].gone \/ agent[p].pos = Len(log)
    /\ agent' = [agent EXCEPT ![p] = [@ EXCEPT !.pc = "connect", !.pos = agent[p].rv]]
    /\ UNCHANGED <<log, leader, world, calm>>

\* Mutant of PeriodicTick: a value that is not known yet counts as disabled.
PeriodicTickUnknown(p) ==
    /\ agent[p].pc = "watch"
    /\ agent' = IF p \in leader
                THEN [agent EXCEPT ![p] =
                         [@ EXCEPT !.resume = "watch",
                                   !.pc = IF agent[p].enabled THEN "account"
                                                              ELSE "dropDeployment"]]
                ELSE agent
    /\ UNCHANGED <<log, leader, world, calm>>

\* The periodic reconcile; nothing is reconciled before a value is known.
PeriodicTick(p) ==
    /\ agent[p].pc = "watch"
    /\ agent' = IF agent[p].known /\ p \in leader
                THEN [agent EXCEPT ![p] =
                         [@ EXCEPT !.resume = "watch",
                                   !.pc = IF agent[p].enabled THEN "account"
                                                              ELSE "dropDeployment"]]
                ELSE agent
    /\ UNCHANGED <<log, leader, world, calm>>

-----------------------------------------------------------------------------
(* reconcile_operator_workload *)

Goto(p, pc) == agent' = [agent EXCEPT ![p].pc = pc]

\* ensure_operator_resources: image and ServiceAccount, then Deployment.
EnsureAccount(p) ==
    /\ agent[p].pc = "account"
    /\ account' = TRUE
    /\ Goto(p, "deployment")
    /\ UNCHANGED <<log, leader, deployment, policy, label, calm>>

EnsureDeployment(p) ==
    /\ agent[p].pc = "deployment"
    /\ deployment' = TRUE
    /\ Goto(p, "policy")
    /\ UNCHANGED <<log, leader, account, policy, label, calm>>

EnsurePolicy(p) ==
    /\ agent[p].pc = "policy"
    /\ policy' = TRUE
    /\ Goto(p, "namespaces")
    /\ UNCHANGED <<log, leader, account, deployment, label, calm>>

ListNamespaces(p) ==
    /\ agent[p].pc = "namespaces"
    /\ agent' = [agent EXCEPT ![p] =
                     [@ EXCEPT !.pc = "labels", !.listed = label, !.todo = Namespace]]
    /\ UNCHANGED <<log, leader, world, calm>>

\* Mutant of Relabel: "false" is a value like any other.
RelabelOptedOutToo(p, n) ==
    CASE n \in agent[p].excluded /\ agent[p].listed[n] # "absent" -> "absent"
      [] n \notin agent[p].excluded /\ agent[p].listed[n] # "true" -> "true"
      [] OTHER -> label[n]

\* The patch of one namespace follows from its label in the list, and
\* replaces the label it has by now.
Relabel(p, n) ==
    CASE n \in agent[p].excluded /\ agent[p].listed[n] \notin {"absent", "false"} -> "absent"
      [] n \notin agent[p].excluded /\ agent[p].listed[n] \notin {"true", "false"} -> "true"
      [] OTHER -> label[n]

ReconcileNamespace(p, n) ==
    /\ agent[p].pc = "labels"
    /\ n \in agent[p].todo
    /\ label' = [label EXCEPT ![n] = Relabel(p, n)]
    /\ agent' = [agent EXCEPT ![p].todo = @ \ {n}]
    /\ UNCHANGED <<log, leader, account, deployment, policy, calm>>

\* Mutant of DropDeployment: only the ServiceAccount is removed.
DropDeploymentSkipped(p) ==
    /\ agent[p].pc = "dropDeployment"
    /\ Goto(p, "dropAccount")
    /\ UNCHANGED <<log, leader, world, calm>>

\* remove_operator_resources
DropDeployment(p) ==
    /\ agent[p].pc = "dropDeployment"
    /\ deployment' = FALSE
    /\ Goto(p, "dropAccount")
    /\ UNCHANGED <<log, leader, account, policy, label, calm>>

DropAccount(p) ==
    /\ agent[p].pc = "dropAccount"
    /\ account' = FALSE
    /\ agent' = [agent EXCEPT ![p].pc = agent[p].resume]
    /\ UNCHANGED <<log, leader, deployment, policy, label, calm>>

ReconcileDone(p) ==
    /\ agent[p].pc = "labels"
    /\ agent[p].todo = {}
    /\ agent' = [agent EXCEPT ![p] = [@ EXCEPT !.pc = agent[p].resume, !.listed = NoLabels]]
    /\ UNCHANGED <<log, leader, world, calm>>

\* Any call fails: the rest of the reconcile is skipped.
ReconcileFails(p) ==
    /\ agent[p].pc \in Enabling \cup Disabling
    /\ ~calm
    /\ agent' = [agent EXCEPT ![p] = [@ EXCEPT !.pc = agent[p].resume, !.todo = {},
                                               !.listed = NoLabels]]
    /\ UNCHANGED <<log, leader, world, calm>>

-----------------------------------------------------------------------------
(* The environment *)

ChangeConfig(e) ==
    /\ ~calm
    /\ Len(log) <= MaxEvents
    /\ e # Current
    /\ e.exists \/ MayDelete
    /\ log' = Append(log, e)
    /\ UNCHANGED <<leader, world, agent, calm>>

ChangeLeader(p) ==
    /\ ~calm
    /\ leader' = IF p \in leader THEN leader \ {p} ELSE leader \cup {p}
    /\ UNCHANGED <<log, world, agent, calm>>

\* A user opts a namespace out for good.
OptOut(n) ==
    /\ ~calm
    /\ label[n] # "false"
    /\ label' = [label EXCEPT ![n] = "false"]
    /\ UNCHANGED <<log, leader, account, deployment, policy, agent, calm>>

AgentRestarts(p) ==
    /\ ~calm
    /\ agent' = [agent EXCEPT ![p] = Started]
    /\ leader' = leader \ {p}
    /\ UNCHANGED <<log, world, calm>>

\* The API server forgets the version while the pod is not watching.
Expire(p) ==
    /\ ~calm
    /\ MayExpire
    /\ agent[p].pc = "connect"
    /\ agent[p].rv # 0
    /\ agent' = [agent EXCEPT ![p].gone = TRUE]
    /\ UNCHANGED <<log, leader, world, calm>>

Calm ==
    /\ ~calm
    /\ calm' = TRUE
    /\ UNCHANGED <<log, leader, world, agent>>

-----------------------------------------------------------------------------
ReconcileStep(p) ==
    \/ EnsureAccount(p) \/ EnsureDeployment(p) \/ EnsurePolicy(p)
    \/ ListNamespaces(p) \/ ReconcileDone(p)
    \/ \E n \in Namespace : ReconcileNamespace(p, n)
    \/ DropDeployment(p) \/ DropAccount(p) \/ ReconcileFails(p)

TaskStep(p) ==
    \/ Boot(p) \/ BootFails(p) \/ Connect(p) \/ Bookmark(p) \/ StreamEnds(p)
    \/ ReconcileStep(p)

EnvironmentStep ==
    \/ \E e \in Event : ChangeConfig(e)
    \/ \E p \in Agent : ChangeLeader(p) \/ AgentRestarts(p) \/ Expire(p)
    \/ \E n \in Namespace : OptOut(n)
    \/ Calm

LifecycleNext ==
    \/ \E p \in Agent : TaskStep(p) \/ WatchEvent(p) \/ PeriodicTick(p)
    \/ EnvironmentStep

LifecycleSpec == LifecycleInit /\ [][LifecycleNext]_lifecycleVars

\* The task runs; in its select! neither the stream nor the ticker starves.
LifecycleFairSpec ==
    /\ LifecycleSpec
    /\ \A p \in Agent : /\ WF_lifecycleVars(TaskStep(p))
                        /\ SF_lifecycleVars(WatchEvent(p))
                        /\ SF_lifecycleVars(PeriodicTick(p))

-----------------------------------------------------------------------------
(* Properties *)

\* What the ConfigMap asks for: the operator's workload exists exactly while
\* it is enabled, with the default policy and with labels on the namespaces
\* that are neither excluded nor opted out.
InPlace ==
    /\ deployment = Current.enabled
    /\ account = Current.enabled
    /\ Current.enabled =>
           /\ policy
           /\ \A n \in Namespace :
                  label[n] \in {"false", IF n \in Current.excluded THEN "absent" ELSE "true"}

\* The leaders can still follow the ConfigMap: their version has not expired,
\* and a deletion is known to them or lies behind the version they have.
HeardOfDeletion(p) ==
    \/ Current.exists
    \/ agent[p].known /\ ~agent[p].enabled
    \/ agent[p].rv # 0 /\ log[agent[p].rv].exists

CanFollow == \A p \in leader : ~agent[p].gone /\ HeardOfDeletion(p)

\* Once the cluster is calm and some pod leads, the cluster comes to what
\* the ConfigMap asks for and stays there, whatever half-done reconciles,
\* restarts, missed streams and changes of leadership came before -- unless
\* a leader has lost its place in the watch (see RemovedWhenDisabled).
Converges == <>[](calm /\ leader # {} /\ CanFollow) => <>[]InPlace

\* The stream of a pod is open, during a reconcile too, and has delivered
\* every event.
Reconciling(p) == agent[p].pc \in Enabling \cup Disabling
Streaming(p) == agent[p].pc = "watch" \/ (Reconciling(p) /\ agent[p].resume = "watch")
CaughtUp(p) == Streaming(p) /\ agent[p].pos = Len(log)

\* Two values that ask for the same, and a pod that knows what is asked for.
SameWish(a, b) == a.enabled = b.enabled /\ (a.enabled => a.excluded = b.excluded)
Knows(p) == agent[p].known /\ SameWish(agent[p], Current)

\* No event is skipped: a pod whose stream has delivered everything knows
\* what the ConfigMap asks for, whatever streams ended before and wherever
\* bookmarks and errors left its version -- but for a deletion that no stream
\* of it could show (run_operator_lifecycle).
CaughtUpAgrees ==
    \A p \in Agent :
        CaughtUp(p) /\ HeardOfDeletion(p) => Knows(p)

\* What makes it inductive: a version is taken over with its value, and a
\* reconcile works on what its pod knows.
VersionIsKnown ==
    \A p \in Agent : agent[p].rv = Len(log) /\ Current.exists => Knows(p)

ReconcilesTheKnown ==
    \A p \in Agent :
        /\ agent[p].pc \in Enabling => agent[p].known /\ agent[p].enabled
        /\ agent[p].pc \in Disabling => agent[p].known /\ ~agent[p].enabled

\* What a stream has shown behind the version, and the next one shows again,
\* is deletions that the pod knows of.
ReplaysDeletions ==
    \A p \in Agent :
        Streaming(p) /\ agent[p].rv # 0 /\ agent[p].rv < agent[p].pos =>
            /\ agent[p].known /\ ~agent[p].enabled
            /\ \A k \in (agent[p].rv + 1) .. agent[p].pos : ~log[k].enabled

LifecycleInv ==
    /\ Len(log) # 0
    /\ ReconcilesTheKnown /\ VersionIsKnown /\ CaughtUpAgrees /\ ReplaysDeletions

\* A pod is harmless when neither the reconcile it is in, nor what it knows,
\* nor an event that its stream has yet to deliver (or deliver again) asks
\* for anything else than the ConfigMap does.
NextFrom(p) == IF Streaming(p) THEN agent[p].pos ELSE WatchFrom(p)

Harmless(p) ==
    /\ agent[p].pc \in Enabling => Current.enabled /\ agent[p].excluded = Current.excluded
    /\ agent[p].pc \in Disabling => ~Current.enabled
    /\ agent[p].known => SameWish(agent[p], Current)
    /\ \/ agent[p].gone
       \/ \A k \in (NextFrom(p) + 1) .. Len(log) : SameWish(log[k], Current)

AtRest == InPlace /\ \A p \in Agent : Harmless(p)

\* Only a change of the ConfigMap takes a cluster out of place that has come
\* to rest: not a tick, a stream that ends and is replayed, a reconcile that
\* fails half-way, a pod that restarts, a change of leaders, several pods
\* that lead at once or a namespace that opts out (run_operator_lifecycle,
\* reconcile_operator_workload).
StaysInPlace == [][AtRest /\ UNCHANGED log => AtRest']_lifecycleVars

\* Where the cluster is in place and every pod has caught up, it is at rest.
CaughtUpIsAtRest ==
    InPlace /\ (\A p \in Agent : CaughtUp(p) /\ HeardOfDeletion(p)) => AtRest

\* A namespace has opted out and no pass is under way whose list is older.
OptOutSeen(n) ==
    /\ label[n] = "false"
    /\ \A p \in Agent :
           agent[p].pc = "labels" /\ n \in agent[p].todo => agent[p].listed[n] = "false"

\* From then on the opt-out is safe: no later pass, restart or change of
\* leaders overwrites it (reconcile_action_mode_namespaces).
OptOutHolds == [][\A n \in Namespace : OptOutSeen(n) => OptOutSeen(n)']_lifecycleVars

\* operator_lifecycle.rs:7: "When the flag is `false` (or the ConfigMap is
\* deleted), the leader removes only the operator workload".
RemovedWhenDisabled ==
    [](calm /\ leader # {} /\ ~Current.enabled => <>(~deployment))

\* README.md:165: "respects user opt-outs via sentinella.io/action-mode=false".
OptOutRespected ==
    [][\A n \in Namespace : label[n] = "false" => label'[n] = "false"]_lifecycleVars
=============================================================================
