------------------------------ MODULE DrainNode ------------------------------
(***************************************************************************)
(* The handler of drain_node (executor.rs) behind the policy gate: read    *)
(* the node, list its pods, refuse when unmanaged pods are there without   *)
(* force, cordon, evict the listed pods one by one, then poll the node     *)
(* until it is empty or the timeout has passed.  Each API call is a step.  *)
(*                                                                         *)
(* Several drains of one node may run, as every agent pod polls for        *)
(* commands.  Meanwhile pods end, and their controllers and users create   *)
(* them again, here or on another node, possibly under the same name (a    *)
(* StatefulSet).  Nobody uncordons the node.                               *)
(***************************************************************************)
EXTENDS Naturals

CONSTANTS Drain,     \* executions of drain_node on the node
          Forced,    \* the drains whose spec says force
          Name,      \* pod names
          Managed,   \* names of pods owned by something that is no DaemonSet
          Unmanaged, \* names of pods without an owner
          Timeout    \* timeoutSeconds, in polls

\* The other names are DaemonSet and mirror pods.
ASSUME DrainAssumption ==
    /\ Forced \subseteq Drain
    /\ Managed \subseteq Name
    /\ Unmanaged \subseteq Name \ Managed
    /\ Timeout \in Nat \ {0}

VARIABLES cordoned,  \* spec.unschedulable of the node
          pod,       \* name -> the pod of that name
          drain      \* drain -> its progress

vars == <<cordoned, pod, drain>>

\* "refused" and "timedOut" are errors that the properties tell apart.
Status == {"none", "ok", "error", "refused", "timedOut"}

Progress == [pc        : {"idle", "get", "list", "cordon", "evict", "poll", "sleep", "done"},
             todo      : SUBSET Name,   \* drainable_pods still to evict
             evicted   : SUBSET Name,   \* evicted_pods
             remaining : SUBSET Name,   \* remaining_pods
             waited    : 0 .. Timeout,
             status    : Status,
             touched   : BOOLEAN]       \* history: it changed the cluster

TypeOK ==
    /\ cordoned \in BOOLEAN
    /\ pod \in [Name -> [at : {"here", "elsewhere", "none"}, dying : BOOLEAN]]
    /\ drain \in [Drain -> Progress]

NoPod == [at |-> "none", dying |-> FALSE]

Fresh(pc) == [pc |-> pc, todo |-> {}, evicted |-> {}, remaining |-> {},
              waited |-> 0, status |-> "none", touched |-> FALSE]

Init ==
    /\ cordoned \in BOOLEAN
    /\ pod \in [Name -> {NoPod, [NoPod EXCEPT !.at = "here"]}]
    /\ drain = [d \in Drain |-> Fresh("idle")]

-----------------------------------------------------------------------------
(* classify_pods_on_node *)

Here == {n \in Name : pod[n].at = "here"}

unmanaged_pods == Here \cap Unmanaged

drainable_pods(d) ==
    Here \cap (Managed \cup (IF d \in Forced THEN Unmanaged ELSE {}))

-----------------------------------------------------------------------------
(* The handler *)

Step(d, pc) == drain' = [drain EXCEPT ![d].pc = pc]

Return(d, status) ==
    drain' = [drain EXCEPT ![d] = [@ EXCEPT !.pc = "done", !.status = status]]

\* The name, the gate and the options of the command are accepted.
Begin(d) ==
    /\ drain[d].pc = "idle"
    /\ Step(d, "get")
    /\ UNCHANGED <<cordoned, pod>>

GetNode(d) ==
    /\ drain[d].pc = "get"
    /\ Step(d, "list")
    /\ UNCHANGED <<cordoned, pod>>

\* Reading the node, listing its pods, or polling them fails.
ReadFails(d) ==
    /\ drain[d].pc \in {"get", "list", "poll"}
    /\ Return(d, "error")
    /\ UNCHANGED <<cordoned, pod>>

\* Mutant of ListPods: the node is cordoned before its pods are looked at.
CordonThenListPods(d) ==
    /\ drain[d].pc = "list"
    /\ cordoned' = TRUE
    /\ drain' = [drain EXCEPT ![d] =
           IF d \notin Forced /\ unmanaged_pods # {}
           THEN [@ EXCEPT !.pc = "done", !.status = "refused", !.touched = TRUE]
           ELSE [@ EXCEPT !.pc = "cordon", !.todo = drainable_pods(d), !.touched = TRUE]]
    /\ UNCHANGED pod

\* The pods are listed before the node is cordoned.
ListPods(d) ==
    /\ drain[d].pc = "list"
    /\ IF d \notin Forced /\ unmanaged_pods # {}
       THEN Return(d, "refused")
       ELSE drain' = [drain EXCEPT ![d] =
                          [@ EXCEPT !.pc = "cordon", !.todo = drainable_pods(d)]]
    /\ UNCHANGED <<cordoned, pod>>

Cordon(d) ==
    /\ drain[d].pc = "cordon"
    /\ cordoned' = TRUE
    /\ drain' = [drain EXCEPT ![d] = [@ EXCEPT !.pc = "evict", !.touched = TRUE]]
    /\ UNCHANGED pod

\* The patch fails, or is carried out and its answer lost.
CordonFails(d) ==
    /\ drain[d].pc = "cordon"
    /\ cordoned' \in {cordoned, TRUE}
    /\ drain' = [drain EXCEPT ![d] = [@ EXCEPT !.pc = "done", !.status = "error",
                                               !.touched = TRUE]]
    /\ UNCHANGED pod

\* The Eviction names the pod and carries no uid: it meets the pod that has
\* this name now.
Evicted(n) == pod' = [pod EXCEPT ![n].dying = TRUE]

EvictPod(d, n) ==
    /\ drain[d].pc = "evict"
    /\ n \in drain[d].todo
    /\ pod[n].at # "none"
    /\ Evicted(n)
    /\ drain' = [drain EXCEPT ![d] = [@ EXCEPT !.todo = drain[d].todo \ {n},
                                               !.evicted = drain[d].evicted \cup {n}]]
    /\ UNCHANGED cordoned

\* The pod is gone, a disruption budget forbids the eviction, or the answer
\* is lost: the drain ends and leaves the node cordoned.
EvictFails(d, n) ==
    /\ drain[d].pc = "evict"
    /\ n \in drain[d].todo
    /\ \/ UNCHANGED pod
       \/ pod[n].at # "none" /\ Evicted(n)
    /\ Return(d, "error")
    /\ UNCHANGED cordoned

\* deadline = now + timeout, remaining_pods is empty.
EvictionsSent(d) ==
    /\ drain[d].pc = "evict"
    /\ drain[d].todo = {}
    /\ Step(d, "poll")
    /\ UNCHANGED <<cordoned, pod>>

\* Mutant of PollPods: the loop waits for the pods it evicted only.
PollEvictedPods(d) ==
    /\ drain[d].pc = "poll"
    /\ IF Here \cap drain[d].evicted = {} THEN Return(d, "ok")
       ELSE IF drain[d].waited >= Timeout THEN Return(d, "timedOut")
       ELSE Step(d, "sleep")
    /\ UNCHANGED <<cordoned, pod>>

\* One round of the loop, from the list to its decision.
PollPods(d) ==
    /\ drain[d].pc = "poll"
    /\ IF d \notin Forced /\ unmanaged_pods # {}
       THEN Return(d, "error")
       ELSE IF drainable_pods(d) = {}
       THEN Return(d, "ok")
       ELSE drain' = [drain EXCEPT ![d] =
                          [@ EXCEPT !.remaining = drainable_pods(d),
                                    !.pc = IF drain[d].waited >= Timeout
                                           THEN "done" ELSE "sleep",
                                    !.status = IF drain[d].waited >= Timeout
                                               THEN "timedOut" ELSE "none"]]
    /\ UNCHANGED <<cordoned, pod>>

\* Mutant of Sleep: the deadline is computed in every round.
SleepResetsDeadline(d) ==
    /\ drain[d].pc = "sleep"
    /\ Step(d, "poll")
    /\ UNCHANGED <<cordoned, pod>>

Sleep(d) ==
    /\ drain[d].pc = "sleep"
    /\ drain' = [drain EXCEPT ![d] = [@ EXCEPT !.pc = "poll", !.waited = drain[d].waited + 1]]
    /\ UNCHANGED <<cordoned, pod>>

\* The agent dies; the command may be delivered again.
AgentCrash(d) ==
    /\ drain[d].pc \notin {"idle", "done"}
    /\ drain' = [drain EXCEPT ![d] = Fresh("idle")]
    /\ UNCHANGED <<cordoned, pod>>

-----------------------------------------------------------------------------
(* The cluster *)

\* Schedulers respect the cordon; DaemonSet pods tolerate it, and users may
\* bind a pod to the node themselves.
CreateHere(n) ==
    /\ pod[n].at = "none"
    /\ ~cordoned \/ n \notin Managed
    /\ pod' = [pod EXCEPT ![n] = [at |-> "here", dying |-> FALSE]]
    /\ UNCHANGED <<cordoned, drain>>

CreateElsewhere(n) ==
    /\ pod[n].at = "none"
    /\ pod' = [pod EXCEPT ![n] = [at |-> "elsewhere", dying |-> FALSE]]
    /\ UNCHANGED <<cordoned, drain>>

\* The pod has terminated, after an eviction or on its own.
PodEnds(n) ==
    /\ pod[n].at # "none"
    /\ pod' = [pod EXCEPT ![n] = NoPod]
    /\ UNCHANGED <<cordoned, drain>>

HandlerStep(d) ==
    \/ GetNode(d) \/ ReadFails(d) \/ ListPods(d)
    \/ Cordon(d) \/ CordonFails(d)
    \/ \E n \in Name : EvictPod(d, n) \/ EvictFails(d, n)
    \/ EvictionsSent(d) \/ PollPods(d) \/ Sleep(d)

Next ==
    \/ \E d \in Drain : Begin(d) \/ HandlerStep(d) \/ AgentCrash(d)
    \/ \E n \in Name : CreateHere(n) \/ CreateElsewhere(n) \/ PodEnds(n)

Spec == Init /\ [][Next]_vars

\* Calls are answered in the end and timers fire.
FairSpec == Spec /\ \A d \in Drain : WF_vars(HandlerStep(d))

-----------------------------------------------------------------------------
(* Properties *)

\* A drain that reports "ok" leaves a node that is cordoned and stays free
\* of managed pods, those that arrived between the list and the cordon and
\* were never evicted included.
OkMeansDrained ==
    \A d \in Drain : drain[d].status = "ok" => cordoned /\ Here \cap Managed = {}

\* A drain refused because of unmanaged pods has changed nothing: neither
\* the node nor any pod.
RefusalTouchesNothing ==
    \A d \in Drain : drain[d].status = "refused" => ~drain[d].touched

\* What makes them inductive: a drain has a status when it is done, has
\* touched nothing before it cordons, evicts and polls a cordoned node only,
\* and sleeps while its deadline is ahead.
InOrder ==
    \A d \in Drain :
        /\ drain[d].status # "none" => drain[d].pc = "done"
        /\ drain[d].touched => drain[d].pc \notin {"idle", "get", "list", "cordon"}
        /\ drain[d].pc \in {"evict", "poll", "sleep"} => cordoned
        /\ drain[d].pc = "sleep" => drain[d].waited < Timeout

DrainInv == InOrder /\ OkMeansDrained /\ RefusalTouchesNothing

\* A drain comes to an end within its timeout, whatever happens to the pods
\* and to the other drains, unless its process dies.
DrainEnds ==
    \A d \in Drain : drain[d].pc = "get" ~> drain[d].pc \in {"done", "idle"}

\* SPEC.md:796: "identify pods scheduled there, ... evict the eligible pods":
\* what is evicted is a pod of the node being drained.
EvictsOnlyHere ==
    [][\A n \in Name : pod'[n].dying /\ ~pod[n].dying => pod[n].at = "here"]_vars

\* SPEC.md:795: "cordon the node, then evict eligible pods on the node": the
\* pods a drain gives up waiting for have at least been evicted.
RemainingWereEvicted ==
    \A d \in Drain : drain[d].status = "timedOut" => drain[d].remaining \subseteq drain[d].evicted
=============================================================================
