-------------------------- MODULE ActionGateProofs --------------------------
(***************************************************************************)
(* For every number of namespaces, policies, operators and agents, every   *)
(* staleness window and every clock skew: types are kept, statuses and     *)
(* bindings stay within what was opted in, opting out binds within the     *)
(* bound that OptOutBound names, results are honest, and what everybody    *)
(* has forgotten only the label brings back.                               *)
(***************************************************************************)
EXTENDS ActionGate, TLAPS

\* A choice from the non-empty constant sets is one of their members.
LEMMA DefaultsInType ==
    /\ NoPolicy \in PolicyObject
    /\ Free \in Execution
    /\ \A c \in Commands, pc \in {"idle", "list", "verify", "done"} : Begin(pc, c) \in Execution
    /\ \A pc \in {"idle", "down"} : Resting(pc) \in Pass
<1>1. NoStatus \in PolicyStatus
  BY DEF NoStatus, PolicyStatus, NoTime
<1>2. PICK someSpec \in PolicySpecs : TRUE
  BY OperatorAssumption
<1>3. (CHOOSE s \in PolicySpecs : TRUE) \in PolicySpecs
  BY <1>2
<1>4. NoPolicy \in PolicyObject
  BY <1>1, <1>3 DEF NoPolicy, PolicyObject
<1>5. PICK someCmd \in Commands : TRUE
  BY GateAssumption
<1>6. (CHOOSE c \in Commands : TRUE) \in Commands
  BY <1>5
<1>7. \A c \in Commands, pc \in {"idle", "list", "verify", "done"} : Begin(pc, c) \in Execution
  BY <1>4 DEF Begin, Execution, NoTime
<1>8. \A pc \in {"idle", "down"} : Resting(pc) \in Pass
  BY <1>4 DEF Resting, Pass
<1>9. Free \in Execution
  BY <1>6, <1>7 DEF Free
<1> QED
  BY <1>4, <1>7, <1>8, <1>9

\* The status the operator computes is a status.
LEMMA StatusInType ==
    ASSUME NEW s \in PolicySpec, NEW lastSeen, NEW S \in SUBSET Namespace,
           NEW granted \in BOOLEAN, NEW now \in Nat
    PROVE  /\ build_policy_status(s, lastSeen, S, granted, now) \in PolicyStatus
           /\ build_policy_status(s, lastSeen, S, granted, now).effective = S \ Excluded
           /\ build_policy_status(s, lastSeen, S, granted, now).last = now
  BY DEF build_policy_status, PolicyStatus, effective_namespaces

\* Clock readings are natural numbers within the skew.
LEMMA ReadingInNat ==
    ASSUME NEW t \in Nat, NEW c \in Reading(t)
    PROVE  c \in Nat /\ c <= t + MaxSkew /\ c >= t - MaxSkew
  BY OperatorAssumption DEF Reading

-----------------------------------------------------------------------------
(* Type correctness *)

LEMMA InitTypeOK == Init => TypeOK
<1> SUFFICES ASSUME Init PROVE TypeOK
  OBVIOUS
<1> USE DEF Init, OperatorInit
<1>1. time \in Nat /\ optedIn \in SUBSET Namespace /\ roleBinding \in SUBSET Namespace
  OBVIOUS
<1>2. lastOptIn \in [Namespace -> Int]
  BY PolicyAssumption, OperatorAssumption DEF Never
<1>3. policy \in [Policy -> PolicyObject]
  BY DefaultsInType
<1>4. op \in [Operator -> Pass]
  BY DefaultsInType
<1>5. exec \in [Agent -> Execution]
  BY DefaultsInType
<1> QED
  BY <1>1, <1>2, <1>3, <1>4, <1>5 DEF TypeOK, OperatorTypeOK

\* A pass that stays a Pass keeps the type of op.
LEMMA PassReplaced ==
    ASSUME op \in [Operator -> Pass], NEW o \in Operator, NEW new \in Pass,
           op' = [op EXCEPT ![o] = new]
    PROVE  op' \in [Operator -> Pass]
  OBVIOUS

\* A step of a pass keeps the types of what it writes.
LEMMA PassTypeOK ==
    ASSUME OperatorTypeOK, NEW o \in Operator,
           PassStep(o) \/ PassFault(o) \/ OperatorStarts(o)
    PROVE  OperatorTypeOK'
<1> USE DEF OperatorTypeOK, envVars
<1>1. CASE StartPass(o)
  <2>1. PICK now \in Reading(time) :
            op' = [op EXCEPT ![o] = [@ EXCEPT !.pc = "listNamespaces", !.now = now]]
    BY <1>1 DEF StartPass
  <2>2. now \in Nat
    BY ReadingInNat
  <2> DEFINE new == [op[o] EXCEPT !.pc = "listNamespaces", !.now = now]
  <2>a. new \in Pass
    BY <2>2 DEF Pass
  <2>b. op' = [op EXCEPT ![o] = new]
    BY <2>1
  <2>3. op' \in [Operator -> Pass]
    BY <2>a, <2>b, PassReplaced
  <2> QED
    BY <1>1, <2>3 DEF StartPass
<1>2. CASE ListNamespaces(o)
  <2> DEFINE new == [op[o] EXCEPT !.pc = "listPolicies", !.listed = optedIn]
  <2>a. new \in Pass
    BY DEF Pass
  <2>b. op' = [op EXCEPT ![o] = new]
    BY <1>2 DEF ListNamespaces
  <2>1. op' \in [Operator -> Pass]
    BY <2>a, <2>b, PassReplaced
  <2> QED
    BY <1>2, <2>1 DEF ListNamespaces
<1>3. CASE ListPolicies(o)
  <2> DEFINE here == {p \in Policy : policy[p].exists}
             new == [op[o] EXCEPT !.pc = "bind", !.seen = policy, !.todo = Namespace,
                                  !.errors = FALSE, !.left = here]
  <2>1. here \in SUBSET Policy
    OBVIOUS
  <2> HIDE DEF here
  <2>2. op' \in [Operator -> Pass]
    <3>1. new \in Pass
      BY <2>1 DEF Pass
    <3>2. op' = [op EXCEPT ![o] = new]
      BY <1>3 DEF ListPolicies, here
    <3> HIDE DEF new
    <3> QED
      BY <3>1, <3>2
  <2> QED
    BY <1>3, <2>2 DEF ListPolicies
<1>4. ASSUME NEW n \in Namespace, BindNamespace(o, n) \/ BindNamespaceFails(o, n)
      PROVE  OperatorTypeOK'
  <2>1. op' \in [Operator -> Pass]
    <3>1. CASE BindNamespace(o, n)
      <4> DEFINE new == [op[o] EXCEPT !.todo = op[o].todo \ {n}]
      <4>1. new \in Pass
        BY DEF Pass
      <4>2. op' = [op EXCEPT ![o] = new]
        BY <3>1 DEF BindNamespace
      <4> QED
        BY <4>1, <4>2, PassReplaced
    <3>2. CASE BindNamespaceFails(o, n)
      <4> DEFINE rest == op[o].todo \ {n}
                 new == [op[o] EXCEPT !.todo = rest, !.errors = TRUE]
      <4>1. rest \in SUBSET Namespace
        BY DEF Pass
      <4>2. op' = [op EXCEPT ![o] = new]
        BY <3>2 DEF BindNamespaceFails
      <4> HIDE DEF rest
      <4>3. new \in Pass
        BY <4>1 DEF Pass
      <4> HIDE DEF new
      <4> QED
        BY <4>2, <4>3
    <3> QED
      BY <1>4, <3>1, <3>2
  <2>2. roleBinding' \in SUBSET Namespace
    BY <1>4 DEF BindNamespace, BindNamespaceFails, SetBinding
  <2> QED
    BY <1>4, <2>1, <2>2 DEF BindNamespace, BindNamespaceFails
<1>5. CASE BindingsDone(o)
  <2> DEFINE new == [op[o] EXCEPT !.pc = "status"]
  <2>a. new \in Pass
    BY DEF Pass
  <2>b. op' = [op EXCEPT ![o] = new]
    BY <1>5 DEF BindingsDone
  <2>1. op' \in [Operator -> Pass]
    BY <2>a, <2>b, PassReplaced
  <2> QED
    BY <1>5, <2>1 DEF BindingsDone
<1>6. ASSUME NEW p \in Policy, PatchStatus(o, p)
      PROVE  OperatorTypeOK'
  <2> DEFINE new == [op[o] EXCEPT !.left = op[o].left \ {p}]
  <2>a. new \in Pass
    BY DEF Pass
  <2>b. op' = [op EXCEPT ![o] = new]
    BY <1>6 DEF PatchStatus
  <2>1. op' \in [Operator -> Pass]
    BY <2>a, <2>b, PassReplaced
  <2>2. op[o] \in Pass
    OBVIOUS
  <2>3. /\ op[o].seen[p].spec \in PolicySpec
        /\ op[o].listed \in SUBSET Namespace
        /\ op[o].errors \in BOOLEAN
        /\ op[o].now \in Nat
    BY <2>2, OperatorAssumption DEF Pass, PolicyObject
  <2>4. StatusOf(o, p) \in PolicyStatus
    BY <2>3, StatusInType DEF StatusOf
  <2>5. policy' \in [Policy -> PolicyObject]
    BY <1>6, <2>4 DEF PatchStatus, PolicyObject
  <2> QED
    BY <1>6, <2>1, <2>5 DEF PatchStatus
<1>7. ASSUME NEW p \in Policy, PatchStatusFails(o, p)
      PROVE  OperatorTypeOK'
  <2> DEFINE new == [op[o] EXCEPT !.left = op[o].left \ {p}]
  <2>a. new \in Pass
    BY DEF Pass
  <2>b. op' = [op EXCEPT ![o] = new]
    BY <1>7 DEF PatchStatusFails
  <2>1. op' \in [Operator -> Pass]
    BY <2>a, <2>b, PassReplaced
  <2> QED
    BY <1>7, <2>1 DEF PatchStatusFails
<1>8. CASE EndPass(o) \/ ListFails(o) \/ OperatorStops(o) \/ OperatorStarts(o)
  <2>1. op' \in [Operator -> Pass]
    BY <1>8, DefaultsInType DEF EndPass, ListFails, OperatorStops, OperatorStarts
  <2> QED
    BY <1>8, <2>1 DEF EndPass, ListFails, OperatorStops, OperatorStarts
<1> QED
  BY <1>1, <1>2, <1>3, <1>4, <1>5, <1>6, <1>7, <1>8 DEF PassStep, PassFault

\* So does a user or the clock.
LEMMA EnvTypeOK ==
    ASSUME OperatorTypeOK, UserStep \/ Tick
    PROVE  OperatorTypeOK'
<1> USE DEF OperatorTypeOK
<1>1. CASE Tick
  BY <1>1 DEF Tick, OptInNow
<1>2. ASSUME NEW n \in Relabelled, SetLabel(n) \/ ClearLabel(n)
      PROVE  OperatorTypeOK'
  BY <1>2, OperatorAssumption DEF SetLabel, ClearLabel, OptInNow
<1>3. ASSUME NEW p \in Policy, NEW s \in PolicySpecs, CreatePolicy(p, s)
      PROVE  OperatorTypeOK'
  <2>1. [exists |-> TRUE, spec |-> s, status |-> NoStatus] \in PolicyObject
    BY DEF PolicyObject, NoStatus, PolicyStatus, NoTime
  <2> QED
    BY <1>3, <2>1 DEF CreatePolicy
<1>4. ASSUME NEW p \in Policy, NEW s \in PolicySpecs, EditPolicy(p, s)
      PROVE  OperatorTypeOK'
  <2>1. policy' \in [Policy -> PolicyObject]
    BY <1>4 DEF EditPolicy, PolicyObject
  <2> QED
    BY <1>4, <2>1 DEF EditPolicy
<1>5. ASSUME NEW p \in Policy, DeletePolicy(p)
      PROVE  OperatorTypeOK'
  BY <1>5, DefaultsInType DEF DeletePolicy
<1> QED
  BY <1>1, <1>2, <1>3, <1>4, <1>5 DEF UserStep

\* The executor writes only its own record, and keeps its type.
LEMMA ExecutorTypeOK ==
    ASSUME TypeOK, NEW a \in Agent, ExecutorStep(a)
    PROVE  TypeOK'
<1> USE DEF TypeOK
<1>1. UNCHANGED operatorVars
  BY DEF ExecutorStep, Receive, InvalidSpec, GateList, GateListFails, GateDecide,
         HandlerRefuses, DryRun, LivePatch, LivePatchUnconfirmed, Verify, Return, AgentCrash
<1>2. OperatorTypeOK'
  BY <1>1 DEF operatorVars, OperatorTypeOK
<1>3. SUFFICES exec' \in [Agent -> Execution]
  BY <1>2
<1>4. [p \in Policy |-> NoPolicy] \in [Policy -> PolicyObject]
  BY DefaultsInType
<1>5. ASSUME NEW st \in {"ok", "error"}, Finish(a, st)
      PROVE  exec' \in [Agent -> Execution]
  <2> DEFINE none == [p \in Policy |-> NoPolicy]
             new == [exec[a] EXCEPT !.pc = "done", !.status = st, !.seen = none]
  <2>1. exec' = [exec EXCEPT ![a] = new]
    BY <1>5 DEF Finish
  <2>2. none \in [Policy -> PolicyObject]
    BY <1>4
  <2> HIDE DEF none
  <2>3. new \in Execution
    BY <2>2 DEF Execution
  <2> HIDE DEF new
  <2> QED
    BY <2>1, <2>3
<1>6. ASSUME NEW c \in Commands, Receive(a, c) \/ InvalidSpec(a, c)
      PROVE  exec' \in [Agent -> Execution]
  <2>1. /\ Begin("done", c) \in Execution
        /\ Begin("verify", c) \in Execution
        /\ Begin("list", c) \in Execution
    BY DefaultsInType
  <2>2. \A st \in {"error", "skipped", "unknown"} :
            [Begin("done", c) EXCEPT !.status = st] \in Execution
    BY <2>1 DEF Execution
  <2>3. Dispatch(c) \in Execution
    BY <2>1, <2>2 DEF Dispatch
  <2> QED
    BY <1>6, <2>2, <2>3 DEF Receive, InvalidSpec
<1>7. CASE GateList(a)
  <2>1. policy \in [Policy -> PolicyObject]
    BY DEF OperatorTypeOK
  <2> QED
    BY <1>7, <2>1 DEF GateList, Execution
<1>8. CASE GateListFails(a) \/ HandlerRefuses(a) \/ Verify(a)
  BY <1>5, <1>8 DEF GateListFails, HandlerRefuses, Verify
<1>9. CASE GateDecide(a)
  <2> DEFINE first == FirstStep(exec[a].cmd)
             none == [p \in Policy |-> NoPolicy]
             new == [exec[a] EXCEPT !.pc = first, !.at = time, !.seen = none]
  <2>1. first \in {"dryRun", "live", "verify"}
    BY DEF FirstStep
  <2>2. exec' = [exec EXCEPT ![a] = new] \/ Finish(a, "error")
    BY <1>9 DEF GateDecide
  <2>3. none \in [Policy -> PolicyObject] /\ time \in Nat
    BY <1>4 DEF OperatorTypeOK
  <2> HIDE DEF first, none
  <2>4. new \in Execution
    BY <2>1, <2>3 DEF Execution
  <2> HIDE DEF new
  <2> QED
    BY <1>5, <2>2, <2>4
<1>10. CASE DryRun(a)
  <2>1. Finish(a, "ok") \/ exec' = [exec EXCEPT ![a].pc = "live"]
    BY <1>10 DEF DryRun
  <2>2. CASE exec' = [exec EXCEPT ![a].pc = "live"]
    BY <2>2 DEF Execution
  <2> QED
    BY <1>5, <2>1, <2>2
<1>11. CASE LivePatch(a) \/ LivePatchUnconfirmed(a)
  <2>1. PICK pc \in {"verify", "done"}, st \in {"none", "ok", "error", "skipped", "unknown"} :
            exec' = [exec EXCEPT ![a] = [exec[a] EXCEPT !.pc = pc, !.applied = TRUE, !.status = st]]
    <3>1. exec[a].status \in {"none", "ok", "error", "skipped", "unknown"}
      BY DEF Execution
    <3> QED
      BY <1>11, <3>1 DEF LivePatch, LivePatchUnconfirmed, AfterPatch
  <2>2. [exec[a] EXCEPT !.pc = pc, !.applied = TRUE, !.status = st] \in Execution
    BY DEF Execution
  <2> QED
    BY <2>1, <2>2
<1>12. CASE Return(a) \/ AgentCrash(a)
  BY <1>12, DefaultsInType DEF Return, AgentCrash
<1> QED
  BY <1>6, <1>7, <1>8, <1>9, <1>10, <1>11, <1>12 DEF ExecutorStep

LEMMA StepTypeOK == TypeOK /\ [Next]_vars => TypeOK'
<1> SUFFICES ASSUME TypeOK, [Next]_vars PROVE TypeOK'
  OBVIOUS
<1>1. CASE ClusterStep
  BY <1>1, PassTypeOK, EnvTypeOK DEF ClusterStep, OperatorNext, TypeOK
<1>2. CASE \E a \in Agent : ExecutorStep(a)
  BY <1>2, ExecutorTypeOK
<1>3. CASE UNCHANGED vars
  BY <1>3 DEF vars, TypeOK, OperatorTypeOK
<1> QED
  BY <1>1, <1>2, <1>3 DEF Next

\* Every behaviour of the operator, the executors and their environment
\* keeps the types: no clock is read below zero, no result leaves the
\* vocabulary of CommandResult, no pass remembers a policy that is not one.
THEOREM TypeCorrect == Spec => []TypeOK
<1> QED
  BY InitTypeOK, StepTypeOK, PTL DEF Spec

-----------------------------------------------------------------------------
(* The bound on opting out *)

\* Time and the opt-in history only move forward, and stay exact.
LEMMA HistoryStep ==
    ASSUME TypeOK, HistoryExact, [Next]_vars
    PROVE  /\ HistoryExact'
           /\ time' >= time
           /\ \A n \in Namespace : lastOptIn'[n] >= lastOptIn[n]
<1> USE DEF HistoryExact, TypeOK, OperatorTypeOK
<1>1. CASE Tick
  BY <1>1 DEF Tick, OptInNow
<1>2. ASSUME NEW n \in Relabelled, SetLabel(n)
      PROVE  /\ HistoryExact'
             /\ time' >= time
             /\ \A m \in Namespace : lastOptIn'[m] >= lastOptIn[m]
  BY <1>2, OperatorAssumption DEF SetLabel, OptInNow
<1>3. ASSUME NEW n \in Relabelled, ClearLabel(n)
      PROVE  /\ HistoryExact'
             /\ time' >= time
             /\ \A m \in Namespace : lastOptIn'[m] >= lastOptIn[m]
  BY <1>3 DEF ClearLabel
<1>4. ASSUME UNCHANGED <<time, optedIn, lastOptIn>>
      PROVE  /\ HistoryExact'
             /\ time' >= time
             /\ \A n \in Namespace : lastOptIn'[n] >= lastOptIn[n]
  BY <1>4
<1>5. ASSUME NEW o \in Operator, PassStep(o) \/ PassFault(o) \/ OperatorStarts(o)
      PROVE  UNCHANGED <<time, optedIn, lastOptIn>>
  BY <1>5 DEF PassStep, PassFault, StartPass, ListNamespaces, ListPolicies, ListFails,
              BindNamespace, BindNamespaceFails, BindingsDone, PatchStatus, PatchStatusFails,
              EndPass, OperatorStops, OperatorStarts, envVars
<1>6. ASSUME NEW a \in Agent, ExecutorStep(a)
      PROVE  UNCHANGED <<time, optedIn, lastOptIn>>
  BY <1>6 DEF ExecutorStep, Receive, InvalidSpec, GateList, GateListFails, GateDecide,
         HandlerRefuses, DryRun, LivePatch, LivePatchUnconfirmed, Verify, Return, AgentCrash,
         operatorVars
<1>7. ASSUME NEW p \in Policy,
             DeletePolicy(p) \/ \E s \in PolicySpecs : CreatePolicy(p, s) \/ EditPolicy(p, s)
      PROVE  UNCHANGED <<time, optedIn, lastOptIn>>
  BY <1>7 DEF DeletePolicy, CreatePolicy, EditPolicy
<1>8. CASE UNCHANGED vars
  BY <1>4, <1>8 DEF vars
<1> QED
  BY <1>1, <1>2, <1>3, <1>4, <1>5, <1>6, <1>7, <1>8
     DEF Next, ClusterStep, OperatorNext, UserStep

\* A list stays at least as recent as the start of the pass that made it.
LEMMA PassSinceStep ==
    ASSUME TypeOK, HistoryExact, PassSince, [Next]_vars
    PROVE  PassSince'
<1> DEFINE Good(q) ==
        /\ q.pc \in {"idle", "listNamespaces", "down"} => q.listed = {}
        /\ q.pc = "listNamespaces" => q.now <= time' + MaxSkew
        /\ \A n \in q.listed : /\ lastOptIn'[n] >= 0
                               /\ lastOptIn'[n] + MaxSkew >= q.now
<1>1. time' >= time /\ \A n \in Namespace : lastOptIn'[n] >= lastOptIn[n]
  BY HistoryStep
<1>2. TypeOK'
  BY StepTypeOK
<1>3. \A o \in Operator : Good(op[o])
  <2> SUFFICES ASSUME NEW o \in Operator PROVE Good(op[o])
    OBVIOUS
  <2>1. op[o] \in Pass /\ lastOptIn \in [Namespace -> Int] /\ lastOptIn' \in [Namespace -> Int]
        /\ time \in Nat /\ time' \in Nat /\ MaxSkew \in Nat
    BY <1>2, OperatorAssumption DEF TypeOK, OperatorTypeOK
  <2>2. op[o].now \in Nat /\ op[o].listed \in SUBSET Namespace
    BY <2>1 DEF Pass
  <2> QED
    BY <1>1, <2>1, <2>2 DEF PassSince
<1>4. SUFFICES \A o \in Operator : Good(op'[o])
  BY DEF PassSince
<1>5. ASSUME UNCHANGED op PROVE \A o \in Operator : Good(op'[o])
  BY <1>3, <1>5
<1>6. ASSUME NEW o \in Operator, PassStep(o) \/ PassFault(o) \/ OperatorStarts(o)
      PROVE  \A q \in Operator : Good(op'[q])
  <2>1. op \in [Operator -> Pass] /\ op[o] \in Pass
    BY DEF TypeOK, OperatorTypeOK
  <2>2. SUFFICES Good(op'[o]) /\ \A q \in Operator \ {o} : op'[q] = op[q]
    BY <1>3
  <2>3. \A q \in Operator \ {o} : op'[q] = op[q]
    BY <1>6, <2>1 DEF PassStep, PassFault, StartPass, ListNamespaces, ListPolicies, ListFails,
              BindNamespace, BindNamespaceFails, BindingsDone, PatchStatus, PatchStatusFails,
              EndPass, OperatorStops, OperatorStarts
  <2>4. CASE StartPass(o)
    <3>1. PICK now \in Reading(time) :
              op' = [op EXCEPT ![o] = [@ EXCEPT !.pc = "listNamespaces", !.now = now]]
      BY <2>4 DEF StartPass
    <3>2. time' = time /\ time \in Nat
      BY <2>4 DEF StartPass, envVars, TypeOK, OperatorTypeOK
    <3>3. now <= time' + MaxSkew
      BY <3>2, ReadingInNat
    <3>4. op[o].listed = {}
      BY <2>4 DEF StartPass, PassSince
    <3>5. op'[o].pc = "listNamespaces" /\ op'[o].now = now /\ op'[o].listed = {}
      BY <2>1, <3>1, <3>4 DEF Pass
    <3> QED
      BY <2>3, <3>3, <3>5
  <2>5. CASE ListNamespaces(o)
    <3>1. /\ op'[o].pc = "listPolicies"
          /\ op'[o].now = op[o].now
          /\ op'[o].listed = optedIn
      BY <2>1, <2>5 DEF ListNamespaces, Pass
    <3>2. time \in Nat /\ optedIn \in SUBSET Namespace /\ op[o].now \in Nat
      BY <2>1 DEF TypeOK, OperatorTypeOK, Pass
    <3>3. op[o].now <= time + MaxSkew
      BY <2>5 DEF ListNamespaces, PassSince
    <3>4. lastOptIn' = lastOptIn
      BY <2>5 DEF ListNamespaces, envVars
    <3> QED
      BY <2>3, <3>1, <3>2, <3>3, <3>4, OperatorAssumption DEF HistoryExact
  <2>6. CASE \/ ListPolicies(o) \/ BindingsDone(o)
             \/ \E n \in Namespace : BindNamespace(o, n) \/ BindNamespaceFails(o, n)
             \/ \E p \in Policy : PatchStatus(o, p) \/ PatchStatusFails(o, p)
    <3>1. /\ op'[o].pc \in {"bind", "status"}
          /\ op'[o].now = op[o].now
          /\ op'[o].listed = op[o].listed
      <4>1. CASE ListPolicies(o)
        BY <2>1, <4>1 DEF ListPolicies, Pass
      <4>2. CASE BindingsDone(o)
        BY <2>1, <4>2 DEF BindingsDone, Pass
      <4>3. ASSUME NEW n \in Namespace, BindNamespace(o, n)
            PROVE  /\ op'[o].pc \in {"bind", "status"}
                   /\ op'[o].now = op[o].now
                   /\ op'[o].listed = op[o].listed
        BY <2>1, <4>3 DEF BindNamespace, Pass
      <4>4. ASSUME NEW n \in Namespace, BindNamespaceFails(o, n)
            PROVE  /\ op'[o].pc \in {"bind", "status"}
                   /\ op'[o].now = op[o].now
                   /\ op'[o].listed = op[o].listed
        BY <2>1, <4>4 DEF BindNamespaceFails, Pass
      <4>5. ASSUME NEW p \in Policy, PatchStatus(o, p) \/ PatchStatusFails(o, p)
            PROVE  /\ op'[o].pc \in {"bind", "status"}
                   /\ op'[o].now = op[o].now
                   /\ op'[o].listed = op[o].listed
        BY <2>1, <4>5 DEF PatchStatus, PatchStatusFails, Pass
      <4> QED
        BY <2>6, <4>1, <4>2, <4>3, <4>4, <4>5
    <3> QED
      BY <1>3, <2>3, <3>1
  <2>7. CASE EndPass(o) \/ ListFails(o) \/ OperatorStops(o) \/ OperatorStarts(o)
    <3>1. op'[o].pc \in {"idle", "down"} /\ op'[o].listed = {}
      BY <2>1, <2>7 DEF EndPass, ListFails, OperatorStops, OperatorStarts, Resting
    <3> QED
      BY <2>3, <3>1
  <2> QED
    BY <1>6, <2>4, <2>5, <2>6, <2>7 DEF PassStep, PassFault
<1>7. CASE UserStep \/ Tick
  BY <1>5, <1>7 DEF UserStep, Tick, SetLabel, ClearLabel, CreatePolicy, EditPolicy, DeletePolicy
<1>8. ASSUME NEW a \in Agent, ExecutorStep(a)
      PROVE  UNCHANGED op
  BY <1>8 DEF ExecutorStep, Receive, InvalidSpec, GateList, GateListFails, GateDecide,
         HandlerRefuses, DryRun, LivePatch, LivePatchUnconfirmed, Verify, Return, AgentCrash,
         operatorVars
<1>9. CASE UNCHANGED vars
  BY <1>5, <1>9 DEF vars
<1> HIDE DEF Good
<1> QED
  BY <1>5, <1>6, <1>7, <1>8, <1>9 DEF Next, ClusterStep, OperatorNext

\* A status says no more than its pass found.
LEMMA EffectiveSinceStep ==
    ASSUME TypeOK, HistoryExact, PassSince, EffectiveSince, [Next]_vars
    PROVE  EffectiveSince'
<1> DEFINE Good(st) == \A n \in st.effective : /\ n \notin Excluded
                                                /\ lastOptIn'[n] + MaxSkew >= st.last
<1>1. time' >= time /\ \A n \in Namespace : lastOptIn'[n] >= lastOptIn[n]
  BY HistoryStep
<1>2. TypeOK'
  BY StepTypeOK
<1>3. lastOptIn \in [Namespace -> Int] /\ lastOptIn' \in [Namespace -> Int] /\ MaxSkew \in Nat
  BY <1>2, OperatorAssumption DEF TypeOK, OperatorTypeOK
<1>4. \A p \in Policy : Good(policy[p].status)
  <2> SUFFICES ASSUME NEW p \in Policy, NEW n \in policy[p].status.effective
               PROVE  n \notin Excluded /\ lastOptIn'[n] + MaxSkew >= policy[p].status.last
    OBVIOUS
  <2>1. policy[p].status \in PolicyStatus
    BY DEF TypeOK, OperatorTypeOK, PolicyObject
  <2>2. policy[p].status.last \in Int /\ n \in Namespace
    BY <2>1 DEF PolicyStatus, NoTime
  <2> QED
    BY <1>1, <1>3, <2>2 DEF EffectiveSince
<1>5. SUFFICES \A p \in Policy : Good(policy'[p].status)
  BY DEF EffectiveSince
<1>6. ASSUME UNCHANGED policy PROVE \A p \in Policy : Good(policy'[p].status)
  BY <1>4, <1>6
<1>7. Good(NoStatus)
  BY DEF NoStatus
<1>8. ASSUME NEW o \in Operator, NEW p \in Policy, PatchStatus(o, p)
      PROVE  \A q \in Policy : Good(policy'[q].status)
  <2>1. op[o] \in Pass /\ policy \in [Policy -> PolicyObject]
    BY DEF TypeOK, OperatorTypeOK
  <2>2. /\ op[o].seen[p].spec \in PolicySpec
        /\ op[o].listed \in SUBSET Namespace
        /\ op[o].errors \in BOOLEAN
        /\ op[o].now \in Nat
    BY <2>1, OperatorAssumption DEF Pass, PolicyObject
  <2>3. StatusOf(o, p).effective = op[o].listed \ Excluded /\ StatusOf(o, p).last = op[o].now
    BY DEF StatusOf, build_policy_status, effective_namespaces
  <2>4. Good(StatusOf(o, p))
    BY <1>1, <1>3, <2>2, <2>3 DEF PassSince
  <2>5. CASE policy' = [policy EXCEPT ![p].status = StatusOf(o, p)]
    <3>1. policy'[p].status = StatusOf(o, p) /\ \A q \in Policy \ {p} : policy'[q] = policy[q]
      BY <2>1, <2>5 DEF PolicyObject
    <3> HIDE DEF Good
    <3> QED
      BY <1>4, <2>4, <3>1
  <2> QED
    BY <1>6, <1>8, <2>5 DEF PatchStatus
<1>9. ASSUME NEW p \in Policy,
             DeletePolicy(p) \/ \E s \in PolicySpecs : CreatePolicy(p, s) \/ EditPolicy(p, s)
      PROVE  \A q \in Policy : Good(policy'[q].status)
  <2>1. policy \in [Policy -> PolicyObject]
    BY DEF TypeOK, OperatorTypeOK
  <2>2. /\ policy'[p].status \in {NoStatus, policy[p].status}
        /\ \A q \in Policy \ {p} : policy'[q] = policy[q]
    <3>1. CASE DeletePolicy(p)
      BY <2>1, <3>1 DEF DeletePolicy, NoPolicy
    <3>2. ASSUME NEW s \in PolicySpecs, CreatePolicy(p, s)
          PROVE  /\ policy'[p].status \in {NoStatus, policy[p].status}
                 /\ \A q \in Policy \ {p} : policy'[q] = policy[q]
      BY <2>1, <3>2 DEF CreatePolicy
    <3>3. ASSUME NEW s \in PolicySpecs, EditPolicy(p, s)
          PROVE  /\ policy'[p].status \in {NoStatus, policy[p].status}
                 /\ \A q \in Policy \ {p} : policy'[q] = policy[q]
      BY <2>1, <3>3 DEF EditPolicy, PolicyObject
    <3> QED
      BY <1>9, <3>1, <3>2, <3>3
  <2> HIDE DEF Good
  <2> QED
    BY <1>4, <1>7, <2>2
<1>10. ASSUME NEW n \in Relabelled, SetLabel(n) \/ ClearLabel(n)
       PROVE  UNCHANGED policy
  BY <1>10 DEF SetLabel, ClearLabel
<1>11. ASSUME NEW o \in Operator, PassStep(o) \/ PassFault(o) \/ OperatorStarts(o)
       PROVE  UNCHANGED policy \/ \E p \in Policy : PatchStatus(o, p)
  BY <1>11 DEF PassStep, PassFault, StartPass, ListNamespaces, ListPolicies, ListFails,
              BindNamespace, BindNamespaceFails, BindingsDone, PatchStatusFails,
              EndPass, OperatorStops, OperatorStarts, envVars
<1>12. ASSUME NEW a \in Agent, ExecutorStep(a)
       PROVE  UNCHANGED policy
  BY <1>12 DEF ExecutorStep, Receive, InvalidSpec, GateList, GateListFails, GateDecide,
         HandlerRefuses, DryRun, LivePatch, LivePatchUnconfirmed, Verify, Return, AgentCrash,
         operatorVars
<1>13. CASE Tick \/ UNCHANGED vars
  BY <1>6, <1>13 DEF Tick, vars
<1> HIDE DEF Good
<1> QED
  BY <1>6, <1>8, <1>9, <1>10, <1>11, <1>12, <1>13 DEF Next, ClusterStep, OperatorNext, UserStep

\* Role bindings are granted from such lists only.
LEMMA BindingsStep ==
    ASSUME TypeOK, HistoryExact, PassSince, BindingsWithinOptIn, [Next]_vars
    PROVE  BindingsWithinOptIn'
<1>1. \A n \in Namespace : lastOptIn'[n] >= lastOptIn[n]
  BY HistoryStep
<1>2. TypeOK'
  BY StepTypeOK
<1>3. /\ lastOptIn \in [Namespace -> Int] /\ lastOptIn' \in [Namespace -> Int]
      /\ roleBinding \in SUBSET Namespace
  BY <1>2 DEF TypeOK, OperatorTypeOK
<1>4. ASSUME UNCHANGED roleBinding PROVE BindingsWithinOptIn'
  BY <1>1, <1>3, <1>4 DEF BindingsWithinOptIn
<1>5. ASSUME NEW o \in Operator, NEW n \in Namespace, SetBinding(o, n)
      PROVE  BindingsWithinOptIn'
  <2>1. op[o].listed \in SUBSET Namespace
    BY DEF TypeOK, OperatorTypeOK, Pass
  <2>2. n \in effective_namespaces(op[o].listed) => n \notin Excluded /\ lastOptIn[n] >= 0
    BY <2>1 DEF effective_namespaces, PassSince
  <2> QED
    BY <1>1, <1>3, <1>5, <2>2 DEF SetBinding, BindingsWithinOptIn
<1>6. ASSUME NEW o \in Operator, PassStep(o) \/ PassFault(o) \/ OperatorStarts(o)
      PROVE  UNCHANGED roleBinding \/ \E n \in Namespace : SetBinding(o, n)
  BY <1>6 DEF PassStep, PassFault, StartPass, ListNamespaces, ListPolicies, ListFails,
              BindNamespace, BindNamespaceFails, BindingsDone, PatchStatus, PatchStatusFails,
              EndPass, OperatorStops, OperatorStarts
<1>7. CASE UserStep \/ Tick \/ UNCHANGED vars
  BY <1>4, <1>7 DEF UserStep, SetLabel, ClearLabel, CreatePolicy, EditPolicy, DeletePolicy,
                    Tick, vars
<1>8. ASSUME NEW a \in Agent, ExecutorStep(a)
      PROVE  UNCHANGED roleBinding
  BY <1>8 DEF ExecutorStep, Receive, InvalidSpec, GateList, GateListFails, GateDecide,
         HandlerRefuses, DryRun, LivePatch, LivePatchUnconfirmed, Verify, Return, AgentCrash,
         operatorVars
<1> QED
  BY <1>4, <1>5, <1>6, <1>7, <1>8 DEF Next, ClusterStep, OperatorNext

\* What a step of the executor can do to the record of its command: take a
\* copy of the policies, forget it, and admit the command by that copy.
LEMMA ExecutorEffect ==
    ASSUME TypeOK, NEW a \in Agent, ExecutorStep(a)
    PROVE  /\ UNCHANGED operatorVars
           /\ \A b \in Agent \ {a} : exec'[b] = exec[b]
           /\ exec'[a].seen \in {exec[a].seen, policy, [p \in Policy |-> NoPolicy]}
           /\ \/ exec'[a].at = NoTime
              \/ exec'[a].at = exec[a].at /\ exec'[a].cmd = exec[a].cmd
              \/ /\ exec'[a].at = time
                 /\ exec'[a].cmd = exec[a].cmd
                 /\ \E now \in Reading(time) : Admitted(a, now)
<1> DEFINE none == [p \in Policy |-> NoPolicy]
           Eff == /\ \A b \in Agent \ {a} : exec'[b] = exec[b]
                  /\ exec'[a].seen \in {exec[a].seen, policy, none}
                  /\ \/ exec'[a].at = NoTime
                     \/ exec'[a].at = exec[a].at /\ exec'[a].cmd = exec[a].cmd
                     \/ /\ exec'[a].at = time
                        /\ exec'[a].cmd = exec[a].cmd
                        /\ \E now \in Reading(time) : Admitted(a, now)
<1>1. exec \in [Agent -> Execution] /\ exec[a] \in Execution
  BY DEF TypeOK
<1>2. UNCHANGED operatorVars
  BY DEF ExecutorStep, Receive, InvalidSpec, GateList, GateListFails, GateDecide,
         HandlerRefuses, DryRun, LivePatch, LivePatchUnconfirmed, Verify, Return, AgentCrash,
         operatorVars
<1>0. SUFFICES Eff
  BY <1>2
<1>3. ASSUME NEW pc, NEW c PROVE Begin(pc, c).seen = none /\ Begin(pc, c).at = NoTime
  BY DEF Begin
<1>4. ASSUME NEW pc, NEW c, NEW st
      PROVE  /\ [Begin(pc, c) EXCEPT !.status = st].seen = none
             /\ [Begin(pc, c) EXCEPT !.status = st].at = NoTime
  BY DEF Begin
<1>5. ASSUME NEW c \in Commands, Receive(a, c) \/ InvalidSpec(a, c)
      PROVE  Eff
  <2>1. PICK new : exec' = [exec EXCEPT ![a] = new] /\ new.seen = none /\ new.at = NoTime
    <3>1. Dispatch(c).seen = none /\ Dispatch(c).at = NoTime
      BY <1>3, <1>4 DEF Dispatch
    <3>2. CASE Receive(a, c)
      BY <3>1, <3>2 DEF Receive
    <3>3. CASE InvalidSpec(a, c)
      <4> DEFINE bad == [Begin("done", c) EXCEPT !.status = "error"]
      <4>1. exec' = [exec EXCEPT ![a] = bad]
        BY <3>3 DEF InvalidSpec
      <4>2. bad.seen = none /\ bad.at = NoTime
        BY <1>4
      <4> HIDE DEF bad
      <4> QED
        BY <4>1, <4>2
    <3> QED
      BY <1>5, <3>2, <3>3
  <2> HIDE DEF none
  <2> QED
    BY <1>1, <2>1
<1>6. CASE Return(a) \/ AgentCrash(a)
  <2>1. exec' = [exec EXCEPT ![a] = Free] /\ Free.seen = none /\ Free.at = NoTime
    BY <1>3, <1>6 DEF Return, AgentCrash, Free
  <2> HIDE DEF none
  <2> QED
    BY <1>1, <2>1
<1>7. ASSUME NEW st, Finish(a, st) PROVE Eff
  <2>1. /\ exec'[a].seen = none
        /\ exec'[a].at = exec[a].at
        /\ exec'[a].cmd = exec[a].cmd
        /\ \A b \in Agent \ {a} : exec'[b] = exec[b]
    <3>1. exec' = [exec EXCEPT ![a] = [@ EXCEPT !.pc = "done", !.status = st, !.seen = none]]
      BY <1>7 DEF Finish
    <3> HIDE DEF none
    <3> QED
      BY <1>1, <3>1 DEF Execution
  <2> HIDE DEF none
  <2> QED
    BY <2>1
<1>8. CASE GateList(a)
  BY <1>1, <1>8 DEF GateList, Execution
<1>9. CASE GateListFails(a) \/ HandlerRefuses(a) \/ Verify(a)
  BY <1>7, <1>9 DEF GateListFails, HandlerRefuses, Verify
<1>10. CASE GateDecide(a)
  <2>1. PICK now \in Reading(time) :
            \/ /\ Admitted(a, now)
               /\ exec' = [exec EXCEPT ![a] =
                             [@ EXCEPT !.pc = FirstStep(exec[a].cmd), !.at = time, !.seen = none]]
            \/ Finish(a, "error")
    BY <1>10 DEF GateDecide
  <2>2. ASSUME Admitted(a, now),
               exec' = [exec EXCEPT ![a] =
                          [@ EXCEPT !.pc = FirstStep(exec[a].cmd), !.at = time, !.seen = none]]
        PROVE  Eff
    <3> HIDE DEF none
    <3>1. /\ exec'[a].seen = none
          /\ exec'[a].at = time
          /\ exec'[a].cmd = exec[a].cmd
          /\ \A b \in Agent \ {a} : exec'[b] = exec[b]
      BY <1>1, <2>2 DEF Execution
    <3> QED
      BY <2>2, <3>1
  <2> HIDE DEF Eff
  <2> QED
    BY <1>7, <2>1, <2>2
<1>11. CASE DryRun(a)
  <2>1. CASE exec' = [exec EXCEPT ![a].pc = "live"]
    BY <1>1, <2>1 DEF Execution
  <2> QED
    BY <1>7, <1>11, <2>1 DEF DryRun
<1>12. CASE LivePatch(a)
  BY <1>1, <1>12 DEF LivePatch, Execution
<1>13. CASE LivePatchUnconfirmed(a)
  BY <1>1, <1>13 DEF LivePatchUnconfirmed, Execution
<1> HIDE DEF Eff
<1> QED
  BY <1>5, <1>6, <1>8, <1>9, <1>10, <1>11, <1>12, <1>13 DEF ExecutorStep

\* The executor's copy of a status inherits its bound.
LEMMA SeenSinceStep ==
    ASSUME TypeOK, HistoryExact, EffectiveSince, SeenSince, [Next]_vars
    PROVE  SeenSince'
<1> DEFINE Good(st) == \A n \in st.effective : /\ n \notin Excluded
                                                /\ lastOptIn'[n] + MaxSkew >= st.last
<1>1. \A n \in Namespace : lastOptIn'[n] >= lastOptIn[n]
  BY HistoryStep
<1>2. TypeOK'
  BY StepTypeOK
<1>3. lastOptIn \in [Namespace -> Int] /\ lastOptIn' \in [Namespace -> Int] /\ MaxSkew \in Nat
  BY <1>2, OperatorAssumption DEF TypeOK, OperatorTypeOK
<1>4. \A b \in Agent, p \in Policy : Good(exec[b].seen[p].status)
  <2> SUFFICES ASSUME NEW b \in Agent, NEW p \in Policy, NEW n \in exec[b].seen[p].status.effective
               PROVE  n \notin Excluded /\ lastOptIn'[n] + MaxSkew >= exec[b].seen[p].status.last
    OBVIOUS
  <2>1. exec[b].seen[p] \in PolicyObject
    BY DEF TypeOK, Execution
  <2>2. exec[b].seen[p].status.last \in Int /\ n \in Namespace
    BY <2>1 DEF PolicyObject, PolicyStatus, NoTime
  <2> QED
    BY <1>1, <1>3, <2>2 DEF SeenSince
<1>5. \A p \in Policy : Good(policy[p].status)
  <2> SUFFICES ASSUME NEW p \in Policy, NEW n \in policy[p].status.effective
               PROVE  n \notin Excluded /\ lastOptIn'[n] + MaxSkew >= policy[p].status.last
    OBVIOUS
  <2>1. policy[p] \in PolicyObject
    BY DEF TypeOK, OperatorTypeOK
  <2>2. policy[p].status.last \in Int /\ n \in Namespace
    BY <2>1 DEF PolicyObject, PolicyStatus, NoTime
  <2> QED
    BY <1>1, <1>3, <2>2 DEF EffectiveSince
<1>6. Good(NoPolicy.status)
  BY DEF NoPolicy, NoStatus
<1>7. SUFFICES \A b \in Agent, p \in Policy : Good(exec'[b].seen[p].status)
  BY DEF SeenSince
<1>8. CASE UNCHANGED exec
  BY <1>4, <1>8
<1>9. ASSUME NEW a \in Agent, ExecutorStep(a)
      PROVE  \A b \in Agent, p \in Policy : Good(exec'[b].seen[p].status)
  <2>1. /\ \A b \in Agent \ {a} : exec'[b] = exec[b]
        /\ exec'[a].seen \in {exec[a].seen, policy, [p \in Policy |-> NoPolicy]}
    BY <1>9, ExecutorEffect
  <2> HIDE DEF Good
  <2>2. \A p \in Policy : Good(exec'[a].seen[p].status)
    BY <1>4, <1>5, <1>6, <2>1
  <2> QED
    BY <1>4, <2>1, <2>2
<1> HIDE DEF Good
<1> QED
  BY <1>8, <1>9 DEF Next, ClusterStep, vars

\* The decision: a status that is fresh by the executor's clock is at most
\* StaleAfter and one skew old, and it was true up to one more skew before.
LEMMA AdmittedRecently ==
    ASSUME TypeOK, SeenSince, NEW a \in Agent, NEW now \in Reading(time),
           Admitted(a, now), Namespaced(exec[a].cmd)
    PROVE  /\ exec[a].cmd.ns \notin Excluded
           /\ time - lastOptIn[exec[a].cmd.ns] <= StaleAfter + 2 * MaxSkew
<1>1. PICK p \in Policy : policy_admits(exec[a].seen[p], exec[a].cmd, now)
  BY DEF Admitted
<1> DEFINE st == exec[a].seen[p].status
           ns == exec[a].cmd.ns
<1>2. st \in PolicyStatus /\ exec[a].cmd \in Command
  BY GateAssumption DEF TypeOK, Execution, PolicyObject
<1>3. ns \in Namespace /\ st.last \in Int
  BY <1>2 DEF Command, PolicyStatus, NoTime
<1>4. ns \in st.effective
  BY <1>1 DEF policy_admits, namespace_is_effective_for_command, Namespaced
<1>5. ~policy_status_is_stale(st.last, now)
  BY <1>1 DEF policy_admits
<1>6. ns \notin Excluded /\ lastOptIn[ns] + MaxSkew >= st.last
  BY <1>4 DEF SeenSince
<1>7. time \in Nat /\ lastOptIn[ns] \in Int /\ StaleAfter \in Nat /\ MaxSkew \in Nat
  BY <1>3, PolicyAssumption, OperatorAssumption DEF TypeOK, OperatorTypeOK
<1>8. now \in Nat /\ now >= time - MaxSkew
  BY <1>7, ReadingInNat
<1>9. now - st.last <= StaleAfter
  BY <1>3, <1>5, <1>7, <1>8 DEF policy_status_is_stale, SaturatingSub
<1> HIDE DEF st, ns
<1>10. time - lastOptIn[ns] <= StaleAfter + 2 * MaxSkew
  BY <1>3, <1>6, <1>7, <1>8, <1>9
<1> QED
  BY <1>6, <1>10 DEF ns

LEMMA OptOutBoundStep ==
    ASSUME TypeOK, HistoryExact, SeenSince, OptOutBound, [Next]_vars
    PROVE  OptOutBound'
<1>1. \A n \in Namespace : lastOptIn'[n] >= lastOptIn[n]
  BY HistoryStep
<1>2. TypeOK'
  BY StepTypeOK
<1>3. /\ lastOptIn \in [Namespace -> Int] /\ lastOptIn' \in [Namespace -> Int]
      /\ StaleAfter \in Nat /\ MaxSkew \in Nat
  BY <1>2, PolicyAssumption, OperatorAssumption DEF TypeOK, OperatorTypeOK
<1> SUFFICES ASSUME NEW b \in Agent, exec'[b].at # NoTime, Namespaced(exec'[b].cmd)
             PROVE  /\ exec'[b].cmd.ns \notin Excluded
                    /\ exec'[b].at - lastOptIn'[exec'[b].cmd.ns] <= StaleAfter + 2 * MaxSkew
  BY DEF OptOutBound, Namespaced
<1>4. exec[b] \in Execution /\ exec[b].cmd.ns \in Namespace
  BY GateAssumption DEF TypeOK, Execution, Command
<1>5. ASSUME exec'[b].at = exec[b].at, exec'[b].cmd = exec[b].cmd
      PROVE  /\ exec'[b].cmd.ns \notin Excluded
             /\ exec'[b].at - lastOptIn'[exec'[b].cmd.ns] <= StaleAfter + 2 * MaxSkew
  <2>1. /\ exec[b].cmd.ns \notin Excluded
        /\ exec[b].at - lastOptIn[exec[b].cmd.ns] <= StaleAfter + 2 * MaxSkew
    BY <1>5 DEF OptOutBound
  <2>2. exec[b].at \in Int
    BY <1>4 DEF Execution, NoTime
  <2> QED
    BY <1>1, <1>3, <1>4, <1>5, <2>1, <2>2
<1>6. CASE ExecutorStep(b)
  <2>1. UNCHANGED lastOptIn
    BY <1>6, ExecutorEffect DEF operatorVars
  <2>2. CASE /\ exec'[b].at = time
             /\ exec'[b].cmd = exec[b].cmd
             /\ \E now \in Reading(time) : Admitted(b, now)
    BY <2>1, <2>2, AdmittedRecently
  <2> QED
    BY <1>5, <1>6, <2>2, ExecutorEffect
<1>7. ASSUME NEW a \in Agent, a # b, ExecutorStep(a)
      PROVE  exec'[b] = exec[b]
  BY <1>7, ExecutorEffect
<1>8. CASE UNCHANGED exec
  BY <1>5, <1>8
<1> QED
  BY <1>5, <1>6, <1>7, <1>8 DEF Next, ClusterStep, vars

-----------------------------------------------------------------------------
\* The invariant, and with it EffectiveSince and BindingsWithinOptIn, holds
\* in every behaviour.
THEOREM GateInvariant == Spec => [](TypeOK /\ GateInv)
<1>1. Init => GateInv
  <2> SUFFICES ASSUME Init PROVE GateInv
    OBVIOUS
  <2>1. HistoryExact
    <3>1. Never \in Int /\ Never <= 0
      BY PolicyAssumption, OperatorAssumption DEF Never
    <3>2. /\ time = 0
          /\ lastOptIn = [n \in Namespace |-> IF n \in optedIn THEN 0 ELSE Never]
      BY DEF Init, OperatorInit
    <3>3. SUFFICES ASSUME NEW n \in Namespace
                   PROVE  lastOptIn[n] <= time /\ (n \in optedIn => lastOptIn[n] = time)
      BY DEF HistoryExact
    <3>4. CASE n \in optedIn
      BY <3>2, <3>4
    <3>5. CASE n \notin optedIn
      <4>1. lastOptIn[n] = Never
        BY <3>2, <3>5
      <4> QED
        BY <3>1, <3>2, <3>5, <4>1
    <3> QED
      BY <3>4, <3>5
  <2>2. PassSince
    BY DEF Init, OperatorInit, PassSince, Resting
  <2>3. EffectiveSince
    BY DEF Init, OperatorInit, EffectiveSince, NoPolicy, NoStatus
  <2>4. SeenSince /\ OptOutBound
    BY DEF Init, SeenSince, OptOutBound, Free, Begin, NoPolicy, NoStatus
  <2>5. BindingsWithinOptIn
    BY DEF Init, OperatorInit, BindingsWithinOptIn
  <2> QED
    BY <2>1, <2>2, <2>3, <2>4, <2>5 DEF GateInv
<1>2. TypeOK /\ GateInv /\ [Next]_vars => GateInv'
  BY HistoryStep, PassSinceStep, EffectiveSinceStep, SeenSinceStep, BindingsStep,
     OptOutBoundStep DEF GateInv
<1> QED
  BY <1>1, <1>2, InitTypeOK, StepTypeOK, PTL DEF Spec

\* Opting out binds within StaleAfter + 2 * MaxSkew for every size of the
\* cluster: the executor admits a namespaced command only where the
\* namespace is not excluded and was opted in that recently, however slow,
\* duplicated or dead the operators are.
THEOREM OptOutIsBounded == Spec => []OptOutBound
<1>1. TypeOK /\ GateInv => OptOutBound
  BY DEF GateInv
<1> QED
  BY <1>1, GateInvariant, PTL

\* Every status any operator ever writes is true of its own timestamp.
THEOREM StatusesAreTrueToTheirTime == Spec => []EffectiveSince
<1>1. TypeOK /\ GateInv => EffectiveSince
  BY DEF GateInv
<1> QED
  BY <1>1, GateInvariant, PTL

\* No RoleBinding ever exists in an excluded namespace or in one that nobody
\* has opted in.
THEOREM BindingsAreWithinOptIn == Spec => []BindingsWithinOptIn
<1>1. TypeOK /\ GateInv => BindingsWithinOptIn
  BY DEF GateInv
<1> QED
  BY <1>1, GateInvariant, PTL

-----------------------------------------------------------------------------
(* Honest results *)

\* HonestInv, said of the record of one agent.
Honest(e) ==
    /\ e.pc \notin {"verify", "done"} => ~e.applied
    /\ IsPreview(e.cmd) => e.pc # "live" /\ ~e.applied
    /\ e.pc = "verify" /\ e.cmd.kind \in WorkloadActions \cup {"update_agent"} => e.applied
    /\ /\ e.pc = "done" /\ e.status = "ok"
       /\ e.cmd.kind \in WorkloadActions \cup {"update_agent"}
       /\ ~IsPreview(e.cmd)
       => e.applied

LEMMA HonestIsInv == HonestInv <=> \A a \in Agent : Honest(exec[a])
BY DEF HonestInv, HonestSoFar, ResultHonest, Honest

\* A command that has just been dispatched, and an executor that is free.
LEMMA HonestFromTheStart ==
    /\ Honest(Free)
    /\ \A c \in Commands : Honest(Dispatch(c)) /\ Honest([Begin("done", c) EXCEPT !.status = "error"])
<1>1. \A c, pc : /\ Begin(pc, c).pc = pc /\ Begin(pc, c).cmd = c
                 /\ Begin(pc, c).applied = FALSE /\ Begin(pc, c).status = "none"
  BY DEF Begin
<1>2. \A c, st : LET e == [Begin("done", c) EXCEPT !.status = st]
                 IN  e.pc = "done" /\ e.applied = FALSE /\ e.status = st
  BY DEF Begin
<1>3. Honest(Free)
  BY <1>1 DEF Free, Honest
<1>4. ASSUME NEW c, NEW st \in {"error", "skipped", "unknown"}
      PROVE  Honest([Begin("done", c) EXCEPT !.status = st])
  <2> DEFINE e == [Begin("done", c) EXCEPT !.status = st]
  <2>1. e.pc = "done" /\ e.applied = FALSE /\ e.status = st
    BY <1>2
  <2> HIDE DEF e
  <2>2. Honest(e)
    BY <2>1 DEF Honest
  <2> QED
    BY <2>2 DEF e
<1>5. ASSUME NEW c PROVE Honest(Begin("list", c))
  BY <1>1 DEF Honest
<1>6. ASSUME NEW c, c.kind = "get_resource_yaml" PROVE Honest(Begin("verify", c))
  BY <1>1, <1>6 DEF Honest, WorkloadActions
<1>7. ASSUME NEW c PROVE Honest(Dispatch(c))
  <2> HIDE DEF Honest
  <2> QED
    BY <1>4, <1>5, <1>6 DEF Dispatch
<1> QED
  BY <1>3, <1>4, <1>7

LEMMA HonestStep == TypeOK /\ HonestInv /\ [Next]_vars => HonestInv'
<1> SUFFICES ASSUME TypeOK, HonestInv, [Next]_vars PROVE HonestInv'
  OBVIOUS
<1>0. exec \in [Agent -> Execution] /\ \A b \in Agent : exec[b] \in Execution /\ Honest(exec[b])
  BY HonestIsInv DEF TypeOK
<1>1. ASSUME NEW a \in Agent, NEW new, exec' = [exec EXCEPT ![a] = new], Honest(new)
      PROVE  HonestInv'
  <2>1. \A b \in Agent : Honest(exec'[b])
    BY <1>0, <1>1
  <2> QED
    BY <2>1 DEF HonestInv, HonestSoFar, ResultHonest, Honest
<1>2. ASSUME NEW a \in Agent, NEW st, Finish(a, st),
             /\ st = "ok"
             /\ exec[a].cmd.kind \in WorkloadActions \cup {"update_agent"}
             /\ ~IsPreview(exec[a].cmd)
             => exec[a].applied
      PROVE  HonestInv'
  <2> DEFINE none == [p \in Policy |-> NoPolicy]
             new == [exec[a] EXCEPT !.pc = "done", !.status = st, !.seen = none]
  <2>1. exec' = [exec EXCEPT ![a] = new]
    BY <1>2 DEF Finish
  <2> HIDE DEF none
  <2>2. /\ new.pc = "done" /\ new.status = st
        /\ new.cmd = exec[a].cmd /\ new.applied = exec[a].applied
    BY <1>0 DEF Execution
  <2> HIDE DEF new
  <2>3. Honest(new)
    BY <1>0, <1>2, <2>2 DEF Honest
  <2> QED
    BY <1>1, <2>1, <2>3
<1>3. ASSUME NEW a \in Agent, NEW c \in Commands, Receive(a, c) \/ InvalidSpec(a, c)
      PROVE  HonestInv'
  <2>1. CASE Receive(a, c)
    BY <1>1, <2>1, HonestFromTheStart DEF Receive
  <2>2. CASE InvalidSpec(a, c)
    BY <1>1, <2>2, HonestFromTheStart DEF InvalidSpec
  <2> QED
    BY <1>3, <2>1, <2>2
<1>4. ASSUME NEW a \in Agent, Return(a) \/ AgentCrash(a) PROVE HonestInv'
  BY <1>1, <1>4, HonestFromTheStart DEF Return, AgentCrash
<1>5. ASSUME NEW a \in Agent, GateListFails(a) \/ HandlerRefuses(a) PROVE HonestInv'
  BY <1>2, <1>5 DEF GateListFails, HandlerRefuses
<1>6. ASSUME NEW a \in Agent, GateList(a) PROVE HonestInv'
  <2> DEFINE new == [exec[a] EXCEPT !.pc = "decide", !.seen = policy]
  <2>1. exec' = [exec EXCEPT ![a] = new] /\ exec[a].pc = "list"
    BY <1>6 DEF GateList
  <2>2. new.pc = "decide" /\ new.cmd = exec[a].cmd /\ new.applied = exec[a].applied
    BY <1>0 DEF Execution
  <2> HIDE DEF new
  <2>3. Honest(new)
    BY <1>0, <2>1, <2>2 DEF Honest
  <2> QED
    BY <1>1, <2>1, <2>3
<1>7. ASSUME NEW a \in Agent, GateDecide(a) PROVE HonestInv'
  <2> DEFINE none == [p \in Policy |-> NoPolicy]
             first == FirstStep(exec[a].cmd)
             new == [exec[a] EXCEPT !.pc = first, !.at = time, !.seen = none]
  <2>1. \/ Finish(a, "error")
        \/ exec' = [exec EXCEPT ![a] = new]
    BY <1>7 DEF GateDecide
  <2>2. /\ first \in {"dryRun", "live", "verify"}
        /\ first = "live" => exec[a].cmd.kind = "apply_workload_resources"
        /\ first = "verify" => exec[a].cmd.kind \notin WorkloadActions \cup {"update_agent"}
    BY DEF FirstStep, WorkloadActions
  <2>3. exec[a].pc = "decide"
    BY <1>7 DEF GateDecide
  <2> HIDE DEF none, first
  <2>4. new.pc = first /\ new.cmd = exec[a].cmd /\ new.applied = exec[a].applied
    BY <1>0 DEF Execution
  <2> HIDE DEF new
  <2>5. Honest(new)
    BY <1>0, <2>2, <2>3, <2>4 DEF Honest, IsPreview
  <2> QED
    BY <1>1, <1>2, <2>1, <2>5
<1>8. ASSUME NEW a \in Agent, DryRun(a) PROVE HonestInv'
  <2> DEFINE new == [exec[a] EXCEPT !.pc = "live"]
  <2>1. \/ Finish(a, "ok") /\ IsPreview(exec[a].cmd)
        \/ exec' = [exec EXCEPT ![a] = new] /\ ~IsPreview(exec[a].cmd)
    BY <1>8 DEF DryRun
  <2>2. exec[a].pc = "dryRun"
    BY <1>8 DEF DryRun
  <2>3. new.pc = "live" /\ new.cmd = exec[a].cmd /\ new.applied = exec[a].applied
    BY <1>0 DEF Execution
  <2> HIDE DEF new
  <2>4. ~IsPreview(exec[a].cmd) => Honest(new)
    BY <1>0, <2>2, <2>3 DEF Honest
  <2> QED
    BY <1>1, <1>2, <2>1, <2>4
<1>9. ASSUME NEW a \in Agent, LivePatch(a) \/ LivePatchUnconfirmed(a) PROVE HonestInv'
  <2>1. ASSUME NEW pc \in {"verify", "done"}, NEW st,
               exec' = [exec EXCEPT ![a] =
                           [exec[a] EXCEPT !.pc = pc, !.applied = TRUE, !.status = st]]
        PROVE  HonestInv'
    <3> DEFINE new == [exec[a] EXCEPT !.pc = pc, !.applied = TRUE, !.status = st]
    <3>1. exec[a].pc = "live"
      BY <1>9 DEF LivePatch, LivePatchUnconfirmed
    <3>2. new.pc = pc /\ new.cmd = exec[a].cmd /\ new.applied = TRUE
      BY <1>0 DEF Execution
    <3>3. exec' = [exec EXCEPT ![a] = new]
      BY <2>1
    <3> HIDE DEF new
    <3>4. Honest(new)
      BY <1>0, <2>1, <3>1, <3>2 DEF Honest
    <3> QED
      BY <1>1, <3>3, <3>4
  <2>2. CASE LivePatch(a)
    <3> DEFINE c == exec[a].cmd
               st == IF AfterPatch(c) = "done" THEN "ok" ELSE exec[a].status
    <3>1. AfterPatch(c) \in {"verify", "done"}
      BY DEF AfterPatch
    <3>2. exec' = [exec EXCEPT ![a] =
                      [exec[a] EXCEPT !.pc = AfterPatch(c), !.applied = TRUE, !.status = st]]
      BY <2>2 DEF LivePatch
    <3> HIDE DEF c, st
    <3> QED
      BY <2>1, <3>1, <3>2
  <2>3. CASE LivePatchUnconfirmed(a)
    BY <2>1, <2>3 DEF LivePatchUnconfirmed
  <2> QED
    BY <1>9, <2>2, <2>3
<1>10. ASSUME NEW a \in Agent, Verify(a) PROVE HonestInv'
  <2>1. exec[a].pc = "verify" /\ \E st \in {"ok", "error"} : Finish(a, st)
    BY <1>10 DEF Verify
  <2>2. exec[a].cmd.kind \in WorkloadActions \cup {"update_agent"} => exec[a].applied
    BY <1>0, <2>1 DEF Honest
  <2> QED
    BY <1>2, <2>1, <2>2
<1>11. CASE UNCHANGED exec
  BY <1>11 DEF HonestInv, HonestSoFar, ResultHonest
<1> QED
  BY <1>3, <1>4, <1>5, <1>6, <1>7, <1>8, <1>9, <1>10, <1>11
     DEF Next, ClusterStep, ExecutorStep, vars

\* What the executor reports of a command is true of the cluster: a dry run
\* never reached it, and an "ok" of a mutating handler did, whatever fails,
\* crashes or is lost on the way.
THEOREM ResultsAreHonest == Spec => []ResultHonest
<1>1. Init => HonestInv
  BY HonestFromTheStart, HonestIsInv DEF Init
<1>2. HonestInv => ResultHonest
  BY DEF HonestInv
<1> QED
  BY <1>1, <1>2, HonestStep, TypeCorrect, PTL DEF Spec

-----------------------------------------------------------------------------
(* What is forgotten stays forgotten. *)

\* The lists of a pass: only listing the namespaces puts a name on one.
LEMMA ListsForget ==
    ASSUME TypeOK, NEW n \in Namespace, Forgotten(n), [Next]_vars
    PROVE  \A o \in Operator : n \notin op'[o].listed
<1>1. op \in [Operator -> Pass] /\ n \notin optedIn /\ \A o \in Operator : n \notin op[o].listed
  BY DEF TypeOK, OperatorTypeOK, Forgotten
<1>2. ASSUME UNCHANGED op PROVE \A o \in Operator : n \notin op'[o].listed
  BY <1>1, <1>2
<1>3. ASSUME NEW o \in Operator, NEW pc, op' = [op EXCEPT ![o] = Resting(pc)]
      PROVE  \A r \in Operator : n \notin op'[r].listed
  <2>1. Resting(pc).listed = {}
    BY DEF Resting
  <2> QED
    BY <1>1, <1>3, <2>1
<1>4. ASSUME NEW o \in Operator, PassStep(o) \/ PassFault(o) \/ OperatorStarts(o)
      PROVE  \A r \in Operator : n \notin op'[r].listed
  <2>1. CASE StartPass(o)
    BY <1>1, <2>1 DEF StartPass, Pass
  <2>2. CASE ListNamespaces(o)
    BY <1>1, <2>2 DEF ListNamespaces, Pass
  <2>3. CASE ListPolicies(o)
    BY <1>1, <2>3 DEF ListPolicies, Pass
  <2>4. ASSUME NEW m \in Namespace, BindNamespace(o, m) \/ BindNamespaceFails(o, m)
        PROVE  \A r \in Operator : n \notin op'[r].listed
    BY <1>1, <2>4 DEF BindNamespace, BindNamespaceFails, Pass
  <2>5. CASE BindingsDone(o)
    BY <1>1, <2>5 DEF BindingsDone, Pass
  <2>6. ASSUME NEW p \in Policy, PatchStatus(o, p) \/ PatchStatusFails(o, p)
        PROVE  \A r \in Operator : n \notin op'[r].listed
    BY <1>1, <2>6 DEF PatchStatus, PatchStatusFails, Pass
  <2>7. CASE ListFails(o) \/ EndPass(o) \/ OperatorStops(o) \/ OperatorStarts(o)
    BY <1>3, <2>7 DEF ListFails, EndPass, OperatorStops, OperatorStarts
  <2> QED
    BY <1>4, <2>1, <2>2, <2>3, <2>4, <2>5, <2>6, <2>7 DEF PassStep, PassFault
<1>5. CASE UserStep \/ Tick \/ UNCHANGED vars
  BY <1>2, <1>5 DEF UserStep, SetLabel, ClearLabel, CreatePolicy, EditPolicy, DeletePolicy,
                    Tick, vars
<1>6. ASSUME NEW a \in Agent, ExecutorStep(a) PROVE UNCHANGED op
  BY <1>6, ExecutorEffect DEF operatorVars
<1> QED
  BY <1>2, <1>4, <1>5, <1>6 DEF Next, ClusterStep, OperatorNext

\* The RoleBindings: a pass grants them to the namespaces of its list.
LEMMA BindingsForget ==
    ASSUME TypeOK, NEW n \in Namespace, Forgotten(n), [Next]_vars
    PROVE  n \notin roleBinding'
<1>1. n \notin roleBinding /\ \A o \in Operator : n \notin op[o].listed
  BY DEF Forgotten
<1>2. ASSUME NEW o \in Operator, NEW m \in Namespace, SetBinding(o, m)
      PROVE  n \notin roleBinding'
  BY <1>1, <1>2 DEF SetBinding, effective_namespaces
<1>3. ASSUME NEW o \in Operator, PassStep(o) \/ PassFault(o) \/ OperatorStarts(o)
      PROVE  UNCHANGED roleBinding \/ \E m \in Namespace : SetBinding(o, m)
  BY <1>3 DEF PassStep, PassFault, StartPass, ListNamespaces, ListPolicies, ListFails,
              BindNamespace, BindNamespaceFails, BindingsDone, PatchStatus, PatchStatusFails,
              EndPass, OperatorStops, OperatorStarts
<1>4. CASE UserStep \/ Tick \/ UNCHANGED vars
  BY <1>1, <1>4 DEF UserStep, SetLabel, ClearLabel, CreatePolicy, EditPolicy, DeletePolicy,
                    Tick, vars
<1>5. ASSUME NEW a \in Agent, ExecutorStep(a) PROVE UNCHANGED roleBinding
  BY <1>5, ExecutorEffect DEF operatorVars
<1> QED
  BY <1>1, <1>2, <1>3, <1>4, <1>5 DEF Next, ClusterStep, OperatorNext

\* The statuses: a pass writes the namespaces of its list, whatever the
\* status it has read and whichever policy now has the name.
LEMMA StatusesForget ==
    ASSUME TypeOK, NEW n \in Namespace, Forgotten(n), [Next]_vars
    PROVE  \A p \in Policy : n \notin policy'[p].status.effective
<1>1. /\ policy \in [Policy -> PolicyObject]
      /\ \A p \in Policy : n \notin policy[p].status.effective
      /\ \A o \in Operator : n \notin op[o].listed
  BY DEF TypeOK, OperatorTypeOK, Forgotten
<1>2. n \notin NoStatus.effective /\ n \notin NoPolicy.status.effective
  BY DEF NoStatus, NoPolicy
<1>3. ASSUME UNCHANGED policy PROVE \A p \in Policy : n \notin policy'[p].status.effective
  BY <1>1, <1>3
<1>4. ASSUME NEW o \in Operator, NEW p \in Policy, PatchStatus(o, p)
      PROVE  \A q \in Policy : n \notin policy'[q].status.effective
  <2>1. n \notin StatusOf(o, p).effective
    BY <1>1 DEF StatusOf, build_policy_status, effective_namespaces
  <2>2. CASE policy' = [policy EXCEPT ![p].status = StatusOf(o, p)]
    <3>1. policy'[p].status = StatusOf(o, p) /\ \A q \in Policy \ {p} : policy'[q] = policy[q]
      BY <1>1, <2>2 DEF PolicyObject
    <3> QED
      BY <1>1, <2>1, <3>1
  <2> QED
    BY <1>3, <1>4, <2>2 DEF PatchStatus
<1>5. ASSUME NEW p \in Policy, DeletePolicy(p)
      PROVE  \A q \in Policy : n \notin policy'[q].status.effective
  BY <1>1, <1>2, <1>5 DEF DeletePolicy
<1>6. ASSUME NEW p \in Policy, NEW s \in PolicySpecs, CreatePolicy(p, s)
      PROVE  \A q \in Policy : n \notin policy'[q].status.effective
  BY <1>1, <1>2, <1>6 DEF CreatePolicy
<1>7. ASSUME NEW p \in Policy, NEW s \in PolicySpecs, EditPolicy(p, s)
      PROVE  \A q \in Policy : n \notin policy'[q].status.effective
  BY <1>1, <1>7 DEF EditPolicy, PolicyObject
<1>8. ASSUME NEW m \in Relabelled, SetLabel(m) \/ ClearLabel(m) PROVE UNCHANGED policy
  BY <1>8 DEF SetLabel, ClearLabel
<1>9. ASSUME NEW o \in Operator, PassStep(o) \/ PassFault(o) \/ OperatorStarts(o)
      PROVE  UNCHANGED policy \/ \E p \in Policy : PatchStatus(o, p)
  BY <1>9 DEF PassStep, PassFault, StartPass, ListNamespaces, ListPolicies, ListFails,
              BindNamespace, BindNamespaceFails, BindingsDone, PatchStatusFails,
              EndPass, OperatorStops, OperatorStarts, envVars
<1>10. ASSUME NEW a \in Agent, ExecutorStep(a) PROVE UNCHANGED policy
  BY <1>10, ExecutorEffect DEF operatorVars
<1>11. CASE Tick \/ UNCHANGED vars
  BY <1>3, <1>11 DEF Tick, vars
<1> QED
  BY <1>3, <1>4, <1>5, <1>6, <1>7, <1>8, <1>9, <1>10, <1>11
     DEF Next, ClusterStep, OperatorNext, UserStep

\* The executors: their lists are copies of what the statuses say.
LEMMA CopiesForget ==
    ASSUME TypeOK, NEW n \in Namespace, Forgotten(n), [Next]_vars
    PROVE  \A a \in Agent, p \in Policy : n \notin exec'[a].seen[p].status.effective
<1>1. /\ \A p \in Policy : n \notin policy[p].status.effective
      /\ \A a \in Agent, p \in Policy : n \notin exec[a].seen[p].status.effective
  BY DEF Forgotten
<1>2. n \notin NoPolicy.status.effective
  BY DEF NoStatus, NoPolicy
<1>3. CASE UNCHANGED exec
  BY <1>1, <1>3
<1>4. ASSUME NEW a \in Agent, ExecutorStep(a)
      PROVE  \A b \in Agent, p \in Policy : n \notin exec'[b].seen[p].status.effective
  <2>1. /\ \A b \in Agent \ {a} : exec'[b] = exec[b]
        /\ exec'[a].seen \in {exec[a].seen, policy, [p \in Policy |-> NoPolicy]}
    BY <1>4, ExecutorEffect
  <2>2. \A p \in Policy : n \notin exec'[a].seen[p].status.effective
    BY <1>1, <1>2, <2>1
  <2> QED
    BY <1>1, <2>1, <2>2
<1> QED
  BY <1>3, <1>4 DEF Next, ClusterStep, vars

\* An admission goes by the executor's copy, which names the namespace.
LEMMA ForgottenNotAdmitted ==
    ASSUME TypeOK, NEW n \in Namespace, Forgotten(n), [Next]_vars,
           NEW a \in Agent, Admits(a), Namespaced(exec[a].cmd)
    PROVE  exec[a].cmd.ns # n
<1>1. ExecutorStep(a)
  <2>1. exec' # exec
    BY DEF Admits
  <2>2. PICK b \in Agent : ExecutorStep(b)
    BY <2>1 DEF Next, ClusterStep, vars
  <2>3. b # a => exec'[a] = exec[a]
    BY <2>2, ExecutorEffect
  <2> QED
    BY <2>2, <2>3 DEF Admits
<1>2. PICK now \in Reading(time) : Admitted(a, now)
  BY <1>1, ExecutorEffect DEF Admits
<1>3. PICK p \in Policy : policy_admits(exec[a].seen[p], exec[a].cmd, now)
  BY <1>2 DEF Admitted
<1>4. exec[a].cmd.ns \in exec[a].seen[p].status.effective
  BY <1>3 DEF policy_admits, namespace_is_effective_for_command, Namespaced
<1> QED
  BY <1>4 DEF Forgotten

\* For every number of operators, policies and executors: only the label
\* brings a namespace back that every status, list and RoleBinding has
\* forgotten (reconcile_action_policies_with, ensure_effective_policy_allows).
THEOREM OnlyTheLabelBringsBack == Spec => StaysForgotten
<1> DEFINE Kept == \A n \in Namespace : Forgotten(n) /\ n \notin optedIn' =>
                       /\ Forgotten(n)'
                       /\ \A a \in Agent : Admits(a) /\ Namespaced(exec[a].cmd) =>
                              exec[a].cmd.ns # n
<1>1. ASSUME TypeOK, [Next]_vars PROVE Kept
  <2> SUFFICES ASSUME NEW n \in Namespace, Forgotten(n), n \notin optedIn'
               PROVE  /\ Forgotten(n)'
                      /\ \A a \in Agent : Admits(a) /\ Namespaced(exec[a].cmd) =>
                             exec[a].cmd.ns # n
    OBVIOUS
  <2>1. Forgotten(n)'
    BY <1>1, ListsForget, BindingsForget, StatusesForget, CopiesForget DEF Forgotten
  <2>2. \A a \in Agent : Admits(a) /\ Namespaced(exec[a].cmd) => exec[a].cmd.ns # n
    BY <1>1, ForgottenNotAdmitted
  <2> QED
    BY <2>1, <2>2
<1>2. TypeOK /\ [Next]_vars => [Kept]_vars
  BY <1>1
<1>3. StaysForgotten <=> [][Kept]_vars
  BY DEF StaysForgotten
<1> HIDE DEF Kept
<1> QED
  BY <1>2, <1>3, TypeCorrect, PTL DEF Spec
=============================================================================
