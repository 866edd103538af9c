--------------------------- MODULE DrainNodeProofs ---------------------------
(***************************************************************************)
(* For every set of drains, pods and timeouts: "ok" means a node that is   *)
(* drained and stays so, and a refused drain has touched nothing, whatever *)
(* the other drains, the controllers and the users do meanwhile.           *)
(***************************************************************************)
EXTENDS DrainNode, TLAPS

Pod == [at : {"here", "elsewhere", "none"}, dying : BOOLEAN]

\* DrainInv, said of a drain whose progress is p.
Fits(p) ==
    /\ p \in Progress
    /\ p.status # "none" => p.pc = "done"
    /\ p.touched => p.pc \notin {"idle", "get", "list", "cordon"}
    /\ p.pc \in {"evict", "poll", "sleep"} => cordoned
    /\ p.pc = "sleep" => p.waited < Timeout
    /\ p.status = "ok" => cordoned /\ Here \cap Managed = {}
    /\ p.status = "refused" => ~p.touched

LEMMA FitsAll ==
    ASSUME TypeOK, DrainInv
    PROVE  /\ cordoned \in BOOLEAN /\ pod \in [Name -> Pod]
           /\ drain \in [Drain -> Progress]
           /\ \A d \in Drain : Fits(drain[d])
BY DEF TypeOK, DrainInv, InOrder, OkMeansDrained, RefusalTouchesNothing, Fits, Pod

LEMMA FreshFits == \A pc \in {"idle", "get"} : Fits(Fresh(pc))
<1>1. 0 \in 0 .. Timeout
  BY DrainAssumption
<1> QED
  BY <1>1 DEF Fits, Fresh, Progress, Status

LEMMA InitInv == Init => TypeOK /\ DrainInv
<1> SUFFICES ASSUME Init PROVE TypeOK /\ DrainInv
  OBVIOUS
<1>1. pod \in [Name -> Pod]
  <2>1. NoPod \in Pod /\ [NoPod EXCEPT !.at = "here"] \in Pod
    BY DEF NoPod, Pod
  <2> QED
    BY <2>1 DEF Init
<1>2. drain \in [Drain -> Progress] /\ \A d \in Drain : Fits(drain[d])
  BY FreshFits DEF Init, Fits
<1> QED
  BY <1>1, <1>2 DEF Init, TypeOK, DrainInv, InOrder, OkMeansDrained,
                    RefusalTouchesNothing, Fits, Pod

\* One drain goes on to p; the node may be cordoned by it and pods marked,
\* but none arrives or leaves.
LEMMA OneDrain ==
    ASSUME TypeOK, DrainInv, NEW d \in Drain, NEW p,
           drain' = [drain EXCEPT ![d] = p],
           cordoned' \in {cordoned, TRUE}, pod' \in [Name -> Pod], Here' = Here,
           p \in Progress,
           p.status # "none" => p.pc = "done",
           p.touched => p.pc \notin {"idle", "get", "list", "cordon"},
           p.pc \in {"evict", "poll", "sleep"} => cordoned',
           p.pc = "sleep" => p.waited < Timeout,
           p.status = "ok" => cordoned' /\ Here \cap Managed = {},
           p.status = "refused" => ~p.touched
    PROVE  TypeOK' /\ DrainInv'
<1>1. drain \in [Drain -> Progress] /\ cordoned \in BOOLEAN
  BY FitsAll
<1>2. drain' \in [Drain -> Progress] /\ cordoned' \in BOOLEAN /\ drain'[d] = p
  BY <1>1
<1>3. ASSUME NEW e \in Drain PROVE Fits(drain[e])'
  <2>1. CASE e = d
    BY <1>2, <2>1 DEF Fits
  <2>2. CASE e # d
    <3>1. drain'[e] = drain[e] /\ Fits(drain[e])
      BY <1>1, <2>2, FitsAll
    <3> QED
      BY <1>1, <3>1 DEF Fits
  <2> QED
    BY <2>1, <2>2
<1>4. InOrder' /\ OkMeansDrained' /\ RefusalTouchesNothing'
  BY <1>3 DEF InOrder, OkMeansDrained, RefusalTouchesNothing, Fits
<1> QED
  BY <1>2, <1>4 DEF TypeOK, DrainInv, Pod

\* An eviction marks a pod and moves none.
LEMMA EvictedStays ==
    ASSUME pod \in [Name -> Pod], NEW n \in Name, Evicted(n)
    PROVE  pod' \in [Name -> Pod] /\ Here' = Here
<1>1. pod' \in [Name -> Pod]
  BY DEF Evicted, Pod
<1>2. \A m \in Name : pod'[m].at = pod[m].at
  BY DEF Evicted, Pod
<1> QED
  BY <1>1, <1>2 DEF Here

LEMMA HandlerKeeps ==
    ASSUME TypeOK, DrainInv, NEW d \in Drain, Begin(d) \/ HandlerStep(d) \/ AgentCrash(d)
    PROVE  TypeOK' /\ DrainInv'
<1> DEFINE q == drain[d]
<1>0. /\ q \in Progress /\ Fits(q) /\ drain \in [Drain -> Progress]
      /\ cordoned \in BOOLEAN /\ pod \in [Name -> Pod]
  BY FitsAll
<1>1. pod' = pod => pod' \in [Name -> Pod] /\ Here' = Here
  BY <1>0 DEF Here
<1>2. CASE Begin(d) \/ GetNode(d) \/ EvictionsSent(d)
  <2> DEFINE p == [q EXCEPT !.pc = CASE q.pc = "idle" -> "get" [] q.pc = "get" -> "list"
                                     [] q.pc = "evict" -> "poll"]
  <2>1. q.pc \in {"idle", "get", "evict"}
    BY <1>2 DEF Begin, GetNode, EvictionsSent
  <2>2. /\ drain' = [drain EXCEPT ![d] = p]
        /\ cordoned' = cordoned /\ pod' = pod
    BY <1>0, <1>2 DEF Begin, GetNode, EvictionsSent, Step
  <2>3. /\ p \in Progress /\ p.status = q.status /\ p.touched = q.touched
        /\ p.pc = CASE q.pc = "idle" -> "get" [] q.pc = "get" -> "list"
                    [] q.pc = "evict" -> "poll"
    BY <1>0, <2>1 DEF Progress
  <2> HIDE DEF p
  <2> QED
    BY <1>0, <1>1, <2>1, <2>2, <2>3, OneDrain DEF Fits
<1>3. CASE ReadFails(d)
  <2> DEFINE p == [q EXCEPT !.pc = "done", !.status = "error"]
  <2>1. /\ drain' = [drain EXCEPT ![d] = p]
        /\ cordoned' = cordoned /\ pod' = pod
    BY <1>0, <1>3 DEF ReadFails, Return
  <2>2. p \in Progress /\ p.pc = "done" /\ p.status = "error"
    BY <1>0 DEF Progress, Status
  <2> HIDE DEF p
  <2> QED
    BY <1>0, <1>1, <2>1, <2>2, OneDrain
<1>4. CASE ListPods(d) /\ d \notin Forced /\ unmanaged_pods # {}
  <2> DEFINE p == [q EXCEPT !.pc = "done", !.status = "refused"]
  <2>1. /\ drain' = [drain EXCEPT ![d] = p]
        /\ cordoned' = cordoned /\ pod' = pod /\ q.pc = "list"
    <3>1. Return(d, "refused") /\ UNCHANGED <<cordoned, pod>> /\ q.pc = "list"
      BY <1>4 DEF ListPods
    <3> QED
      BY <1>0, <3>1 DEF Return
  <2>2. p \in Progress /\ p.pc = "done" /\ p.status = "refused" /\ p.touched = q.touched
    BY <1>0 DEF Progress, Status
  <2>3. ~q.touched
    BY <1>0, <2>1 DEF Fits
  <2> HIDE DEF p
  <2> QED
    BY <1>0, <1>1, <2>1, <2>2, <2>3, OneDrain
<1>5. CASE ListPods(d) /\ ~(d \notin Forced /\ unmanaged_pods # {})
  <2> DEFINE p == [q EXCEPT !.pc = "cordon", !.todo = drainable_pods(d)]
  <2>1. /\ drain' = [drain EXCEPT ![d] = p]
        /\ cordoned' = cordoned /\ pod' = pod /\ q.pc = "list"
    BY <1>5 DEF ListPods
  <2>2. drainable_pods(d) \in SUBSET Name
    BY DEF drainable_pods, Here
  <2>3. p \in Progress /\ p.pc = "cordon" /\ p.status = q.status /\ p.touched = q.touched
    BY <1>0, <2>2 DEF Progress
  <2>4. ~q.touched /\ q.status = "none"
    BY <1>0, <2>1 DEF Fits
  <2> HIDE DEF p
  <2> QED
    BY <1>0, <1>1, <2>1, <2>3, <2>4, OneDrain
<1>6. CASE Cordon(d)
  <2> DEFINE p == [q EXCEPT !.pc = "evict", !.touched = TRUE]
  <2>1. /\ drain' = [drain EXCEPT ![d] = p]
        /\ cordoned' = TRUE /\ pod' = pod /\ q.pc = "cordon"
    BY <1>0, <1>6 DEF Cordon
  <2>2. p \in Progress /\ p.pc = "evict" /\ p.status = q.status
    BY <1>0 DEF Progress
  <2>3. q.status = "none"
    BY <1>0, <2>1 DEF Fits
  <2> HIDE DEF p
  <2> QED
    BY <1>0, <1>1, <2>1, <2>2, <2>3, OneDrain
<1>7. CASE CordonFails(d)
  <2> DEFINE p == [q EXCEPT !.pc = "done", !.status = "error", !.touched = TRUE]
  <2>1. /\ drain' = [drain EXCEPT ![d] = p]
        /\ cordoned' \in {cordoned, TRUE} /\ pod' = pod
    BY <1>0, <1>7 DEF CordonFails
  <2>2. p \in Progress /\ p.pc = "done" /\ p.status = "error"
    BY <1>0 DEF Progress, Status
  <2> HIDE DEF p
  <2> QED
    BY <1>0, <1>1, <2>1, <2>2, OneDrain
<1>8. ASSUME NEW n \in Name, EvictPod(d, n) PROVE TypeOK' /\ DrainInv'
  <2> DEFINE p == [q EXCEPT !.todo = q.todo \ {n}, !.evicted = q.evicted \cup {n}]
  <2>1. /\ drain' = [drain EXCEPT ![d] = p]
        /\ cordoned' = cordoned /\ Evicted(n) /\ q.pc = "evict"
    BY <1>0, <1>8 DEF EvictPod
  <2>2. /\ p \in Progress /\ p.pc = q.pc /\ p.status = q.status
        /\ p.touched = q.touched
    BY <1>0 DEF Progress
  <2>3. pod' \in [Name -> Pod] /\ Here' = Here
    BY <1>0, <2>1, EvictedStays
  <2>4. q.status = "none" /\ cordoned
    BY <1>0, <2>1 DEF Fits
  <2> HIDE DEF p
  <2> QED
    BY <1>0, <2>1, <2>2, <2>3, <2>4, OneDrain
<1>9. ASSUME NEW n \in Name, EvictFails(d, n) PROVE TypeOK' /\ DrainInv'
  <2> DEFINE p == [q EXCEPT !.pc = "done", !.status = "error"]
  <2>1. /\ drain' = [drain EXCEPT ![d] = p]
        /\ cordoned' = cordoned /\ (pod' = pod \/ Evicted(n))
    BY <1>0, <1>9 DEF EvictFails, Return
  <2>2. p \in Progress /\ p.pc = "done" /\ p.status = "error"
    BY <1>0 DEF Progress, Status
  <2>3. pod' \in [Name -> Pod] /\ Here' = Here
    BY <1>0, <1>1, <2>1, EvictedStays
  <2> HIDE DEF p
  <2> QED
    BY <1>0, <2>1, <2>2, <2>3, OneDrain
<1>10. CASE PollPods(d) /\ d \notin Forced /\ unmanaged_pods # {}
  <2> DEFINE p == [q EXCEPT !.pc = "done", !.status = "error"]
  <2>1. /\ drain' = [drain EXCEPT ![d] = p]
        /\ cordoned' = cordoned /\ pod' = pod
    <3>1. Return(d, "error") /\ UNCHANGED <<cordoned, pod>>
      BY <1>10 DEF PollPods
    <3> QED
      BY <1>0, <3>1 DEF Return
  <2>2. p \in Progress /\ p.pc = "done" /\ p.status = "error"
    BY <1>0 DEF Progress, Status
  <2> HIDE DEF p
  <2> QED
    BY <1>0, <1>1, <2>1, <2>2, OneDrain
<1>11. CASE /\ PollPods(d) /\ ~(d \notin Forced /\ unmanaged_pods # {})
            /\ drainable_pods(d) = {}
  <2> DEFINE p == [q EXCEPT !.pc = "done", !.status = "ok"]
  <2>1. /\ drain' = [drain EXCEPT ![d] = p]
        /\ cordoned' = cordoned /\ pod' = pod /\ q.pc = "poll"
    <3>1. Return(d, "ok") /\ UNCHANGED <<cordoned, pod>> /\ q.pc = "poll"
      BY <1>11 DEF PollPods
    <3> QED
      BY <1>0, <3>1 DEF Return
  <2>2. p \in Progress /\ p.pc = "done" /\ p.status = "ok"
    BY <1>0 DEF Progress, Status
  <2>3. cordoned
    BY <1>0, <2>1 DEF Fits
  <2>4. Here \cap Managed = {}
    BY <1>11 DEF drainable_pods
  <2> HIDE DEF p
  <2> QED
    BY <1>0, <1>1, <2>1, <2>2, <2>3, <2>4, OneDrain
<1>12. CASE /\ PollPods(d) /\ ~(d \notin Forced /\ unmanaged_pods # {})
            /\ drainable_pods(d) # {}
  <2> DEFINE p == [q EXCEPT !.remaining = drainable_pods(d),
                            !.pc = IF q.waited >= Timeout THEN "done" ELSE "sleep",
                            !.status = IF q.waited >= Timeout THEN "timedOut" ELSE "none"]
  <2>1. /\ drain' = [drain EXCEPT ![d] = p]
        /\ cordoned' = cordoned /\ pod' = pod /\ q.pc = "poll"
    BY <1>12 DEF PollPods
  <2>2. drainable_pods(d) \in SUBSET Name
    BY DEF drainable_pods, Here
  <2>3. /\ p \in Progress /\ p.waited = q.waited /\ p.waited \in 0 .. Timeout
        /\ p.pc = IF q.waited >= Timeout THEN "done" ELSE "sleep"
        /\ p.status = IF q.waited >= Timeout THEN "timedOut" ELSE "none"
    BY <1>0, <2>2 DEF Progress, Status
  <2>4. cordoned
    BY <1>0, <2>1 DEF Fits
  <2>5. /\ p.pc = "sleep" => p.waited < Timeout
        /\ p.status # "none" => p.pc = "done"
        /\ p.pc \in {"done", "sleep"} /\ p.status \in {"timedOut", "none"}
    BY <2>3, DrainAssumption
  <2> HIDE DEF p
  <2> QED
    BY <1>0, <1>1, <2>1, <2>3, <2>4, <2>5, OneDrain
<1>13. CASE Sleep(d)
  <2> DEFINE p == [q EXCEPT !.pc = "poll", !.waited = q.waited + 1]
  <2>1. /\ drain' = [drain EXCEPT ![d] = p]
        /\ cordoned' = cordoned /\ pod' = pod /\ q.pc = "sleep"
    BY <1>0, <1>13 DEF Sleep
  <2>2. q.waited < Timeout /\ q.status = "none" /\ cordoned
    BY <1>0, <2>1 DEF Fits
  <2>3. q.waited + 1 \in 0 .. Timeout
    BY <1>0, <2>2, DrainAssumption DEF Progress
  <2>4. p \in Progress /\ p.pc = "poll" /\ p.status = q.status /\ p.touched = q.touched
    BY <1>0, <2>3 DEF Progress
  <2> HIDE DEF p
  <2> QED
    BY <1>0, <1>1, <2>1, <2>2, <2>4, OneDrain
<1>14. CASE AgentCrash(d)
  <2>1. /\ drain' = [drain EXCEPT ![d] = Fresh("idle")]
        /\ cordoned' = cordoned /\ pod' = pod
    BY <1>0, <1>14 DEF AgentCrash
  <2> QED
    BY <1>0, <1>1, <2>1, FreshFits, OneDrain DEF Fits
<1> QED
  BY <1>2, <1>3, <1>4, <1>5, <1>6, <1>7, <1>8, <1>9, <1>10, <1>11, <1>12, <1>13, <1>14
     DEF HandlerStep

\* The cluster goes on: a managed pod arrives on a node that is not
\* cordoned only.
LEMMA ClusterKeeps ==
    ASSUME TypeOK, DrainInv, NEW n \in Name,
           CreateHere(n) \/ CreateElsewhere(n) \/ PodEnds(n)
    PROVE  TypeOK' /\ DrainInv'
<1>0. cordoned \in BOOLEAN /\ pod \in [Name -> Pod] /\ \A d \in Drain : Fits(drain[d])
  BY FitsAll
<1>1. cordoned' = cordoned /\ drain' = drain
  BY DEF CreateHere, CreateElsewhere, PodEnds
<1>2. PICK p \in Pod : /\ pod' = [pod EXCEPT ![n] = p]
                       /\ cordoned /\ n \in Managed => p.at # "here"
  <2> DEFINE Live(at) == [at |-> at, dying |-> FALSE]
  <2>0. \A at \in {"here", "elsewhere", "none"} : Live(at) \in Pod /\ Live(at).at = at
    BY DEF Pod
  <2>1. CASE CreateHere(n)
    <3>1. pod' = [pod EXCEPT ![n] = Live("here")] /\ (cordoned => n \notin Managed)
      BY <2>1 DEF CreateHere
    <3> QED
      BY <2>0, <3>1
  <2>2. CASE CreateElsewhere(n)
    <3>1. pod' = [pod EXCEPT ![n] = Live("elsewhere")]
      BY <2>2 DEF CreateElsewhere
    <3> HIDE DEF Live
    <3> QED
      BY <2>0, <3>1
  <2>3. CASE PodEnds(n)
    <3>1. pod' = [pod EXCEPT ![n] = Live("none")]
      BY <2>3 DEF PodEnds, NoPod
    <3> HIDE DEF Live
    <3> QED
      BY <2>0, <3>1
  <2> QED
    BY <2>1, <2>2, <2>3
<1>3. /\ pod' \in [Name -> Pod] /\ pod'[n] = p
      /\ \A m \in Name \ {n} : pod'[m] = pod[m]
  BY <1>0, <1>2
<1>4. cordoned /\ Here \cap Managed = {} => Here' \cap Managed = {}
  BY <1>2, <1>3 DEF Here
<1>5. InOrder'
  BY <1>1 DEF DrainInv, InOrder
<1>6. OkMeansDrained'
  BY <1>1, <1>4 DEF DrainInv, OkMeansDrained
<1>7. RefusalTouchesNothing'
  BY <1>1 DEF DrainInv, RefusalTouchesNothing
<1> QED
  BY <1>0, <1>1, <1>3, <1>5, <1>6, <1>7, FitsAll DEF TypeOK, DrainInv, Pod

LEMMA NextInv == TypeOK /\ DrainInv /\ [Next]_vars => TypeOK' /\ DrainInv'
<1> SUFFICES ASSUME TypeOK, DrainInv, [Next]_vars PROVE TypeOK' /\ DrainInv'
  OBVIOUS
<1>1. CASE UNCHANGED vars
  BY <1>1 DEF vars, TypeOK, DrainInv, InOrder, OkMeansDrained, RefusalTouchesNothing, Here
<1> QED
  BY <1>1, HandlerKeeps, ClusterKeeps DEF Next

\* Types and DrainInv, which the two below follow from, are inductive.
THEOREM DrainInvariant == Spec => [](TypeOK /\ DrainInv)
BY InitInv, NextInv, PTL DEF Spec

\* A drain_node that answered "ok" has left the node cordoned, and no
\* managed pod is on it from then on.
THEOREM OkIsDrained == Spec => []OkMeansDrained
<1>1. DrainInv => OkMeansDrained
  BY DEF DrainInv
<1> QED
  BY <1>1, DrainInvariant, PTL

\* A drain_node that was refused because of unmanaged pods has neither
\* cordoned the node nor evicted a pod.
THEOREM RefusedIsUntouched == Spec => []RefusalTouchesNothing
<1>1. DrainInv => RefusalTouchesNothing
  BY DEF DrainInv
<1> QED
  BY <1>1, DrainInvariant, PTL
=============================================================================
