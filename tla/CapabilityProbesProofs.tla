----------------------- MODULE CapabilityProbesProofs -----------------------
(***************************************************************************)
(* For every number of keys, every window and every sequence of answers:   *)
(* the table of WarnSuppression reminds and accounts, the probes and their *)
(* callers use it as WarnSuppression specifies it, so that its theorems    *)
(* carry over, and a status tells the truth.                               *)
(***************************************************************************)
EXTENDS CapabilityProbes, TLAPS

-----------------------------------------------------------------------------
(* The table on its own (Spec of WarnSuppression).  The reminder and the     *)
(* account need each other's company: the age of a line is measured from     *)
(* its history, the decision to log from the table, and the two agree only   *)
(* as long as every line stamps the entry (LineIsEntry).                     *)

\* The table's time stamp is the time of the latest line, and both are past.
LineIsEntry ==
    \A k \in Key :
        /\ entry[k].last_emitted_at = log[k].shownAt
        /\ log[k].shownAt <= clock
        /\ log[k].seenAt <= clock
        /\ ~entry[k].present => log[k].seenAt = log[k].shownAt

SuppressionInv == TypeOK /\ LineIsEntry /\ KeepsReminding /\ Accounted

\* The table starts empty and nothing was reported.
LEMMA InvHoldsInitially == Init => SuppressionInv
BY SuppressionAssumption
   DEF Init, SuppressionInv, TypeOK, LineIsEntry, KeepsReminding, Accounted,
       SuppressionState, History, State, Absent, Quiet

\* What TypeOK says of one key.
LEMMA KeyTypes ==
    ASSUME TypeOK, NEW k \in Key
    PROVE  /\ entry[k] \in SuppressionState
           /\ entry[k].last_emitted_at \in Nat
           /\ entry[k].suppressed_count \in Nat
           /\ entry[k].present \in BOOLEAN
           /\ log[k] \in History
           /\ log[k].seenAt \in Nat /\ log[k].shownAt \in Nat
           /\ log[k].reports \in Nat /\ log[k].lines \in Nat
           /\ log[k].summed \in Nat
           /\ clock \in Nat /\ MaxClock \in Nat /\ MaxReports \in Nat
           /\ clock <= MaxClock
           /\ Window[k] \in Nat
<1>1. entry[k] \in SuppressionState /\ log[k] \in History
  BY DEF TypeOK
<1>2. clock \in 0 .. MaxClock /\ MaxClock \in Nat /\ MaxReports \in Nat
  BY SuppressionAssumption DEF TypeOK
<1>3. Window[k] \in Nat
  BY SuppressionAssumption
<1> QED
  BY <1>1, <1>2, <1>3 DEF SuppressionState, History

\* A logged report keeps the invariant.
LEMMA EmitKeeps ==
    ASSUME SuppressionInv, NEW k \in Key, NEW s \in Fault[k],
           log[k].reports < MaxReports, Emit(k, s), UNCHANGED clock
    PROVE  SuppressionInv'
<1> DEFINE e == [last_emitted_at |-> clock, suppressed_count |-> 0, present |-> TRUE]
           l == [Reported(k, s) EXCEPT !.shown = s, !.shownAt = clock,
                                       !.lines = @ + 1,
                                       !.summed = @ + entry[k].suppressed_count]
<1>1. TypeOK /\ LineIsEntry /\ KeepsReminding /\ Accounted
  BY DEF SuppressionInv
<1>2. entry' = [entry EXCEPT ![k] = e] /\ log' = [log EXCEPT ![k] = l]
  BY DEF Emit
<1>3. entry'[k] = e /\ log'[k] = l
  BY <1>1, <1>2 DEF TypeOK
<1>4. \A q \in Key : q # k => entry'[q] = entry[q] /\ log'[q] = log[q]
  BY <1>1, <1>2 DEF TypeOK
<1>5. /\ l.seen = s /\ l.shown = s /\ l.seenAt = clock /\ l.shownAt = clock
      /\ l.reports = log[k].reports + 1 /\ l.lines = log[k].lines + 1
      /\ l.summed = log[k].summed + entry[k].suppressed_count
  BY <1>1, KeyTypes DEF Reported, History
<1>6. log[k].reports = log[k].lines + log[k].summed + entry[k].suppressed_count
  BY <1>1 DEF Accounted
<1>7. l \in History
  <2>1. l.seen \in State /\ l.shown \in State
    BY <1>5 DEF State
  <2>2. l.seenAt \in 0 .. MaxClock /\ l.shownAt \in 0 .. MaxClock
    BY <1>1, <1>5, KeyTypes
  <2>3. /\ l.reports \in 0 .. MaxReports
        /\ l.lines \in 0 .. MaxReports
        /\ l.summed \in 0 .. MaxReports
    BY <1>1, <1>5, <1>6, KeyTypes
  <2> QED
    BY <1>1, <2>1, <2>2, <2>3, KeyTypes DEF History, Reported
<1>8. e \in SuppressionState
  BY <1>1, KeyTypes DEF SuppressionState
<1>9. TypeOK'
  BY <1>1, <1>2, <1>7, <1>8 DEF TypeOK
<1>a. /\ entry'[k].last_emitted_at = clock /\ entry'[k].suppressed_count = 0
      /\ entry'[k].present = TRUE
      /\ log'[k].seenAt = clock /\ log'[k].shownAt = clock
      /\ log'[k].reports = log[k].reports + 1 /\ log'[k].lines = log[k].lines + 1
      /\ log'[k].summed = log[k].summed + entry[k].suppressed_count
  BY <1>3, <1>5
<1> HIDE DEF e, l
<1>10. LineIsEntry'
  <2> SUFFICES ASSUME NEW q \in Key
               PROVE  /\ entry'[q].last_emitted_at = log'[q].shownAt
                      /\ log'[q].shownAt <= clock'
                      /\ log'[q].seenAt <= clock'
                      /\ ~entry'[q].present => log'[q].seenAt = log'[q].shownAt
    BY DEF LineIsEntry
  <2>1. CASE q = k
    BY <1>1, <1>a, <2>1, KeyTypes
  <2>2. CASE q # k
    BY <1>1, <1>4, <2>2 DEF LineIsEntry
  <2> QED
    BY <2>1, <2>2
<1>11. KeepsReminding'
  BY <1>1, <1>4, <1>a DEF KeepsReminding
<1>12. Accounted'
  <2>1. log'[k].reports = log'[k].lines + log'[k].summed + entry'[k].suppressed_count
    BY <1>1, <1>6, <1>a, KeyTypes
  <2> QED
    BY <1>1, <1>4, <2>1 DEF Accounted
<1> QED
  BY <1>9, <1>10, <1>11, <1>12 DEF SuppressionInv

\* A report that is held back keeps the invariant.
LEMMA SuppressKeeps ==
    ASSUME SuppressionInv, NEW k \in Key, NEW s \in Fault[k],
           log[k].reports < MaxReports, Suppress(k, s), UNCHANGED clock
    PROVE  SuppressionInv'
<1> DEFINE e == [entry[k] EXCEPT !.suppressed_count = entry[k].suppressed_count + 1]
           l == Reported(k, s)
<1>1. TypeOK /\ LineIsEntry /\ KeepsReminding /\ Accounted
  BY DEF SuppressionInv
<1>2. entry' = [entry EXCEPT ![k] = e] /\ log' = [log EXCEPT ![k] = l]
  BY <1>1 DEF Suppress, TypeOK
<1>3. entry'[k] = e /\ log'[k] = l
  BY <1>1, <1>2 DEF TypeOK
<1>4. \A q \in Key : q # k => entry'[q] = entry[q] /\ log'[q] = log[q]
  BY <1>1, <1>2 DEF TypeOK
<1>5. /\ l.seen = s /\ l.shown = log[k].shown
      /\ l.seenAt = clock /\ l.shownAt = log[k].shownAt
      /\ l.reports = log[k].reports + 1
      /\ l.lines = log[k].lines /\ l.summed = log[k].summed
  BY <1>1, KeyTypes DEF Reported, History
<1>6. /\ e.last_emitted_at = entry[k].last_emitted_at
      /\ e.suppressed_count = entry[k].suppressed_count + 1
      /\ e.present = entry[k].present
  BY <1>1, KeyTypes DEF SuppressionState
<1>7. log[k].reports = log[k].lines + log[k].summed + entry[k].suppressed_count
  BY <1>1 DEF Accounted
<1>8. entry[k].present /\ clock - entry[k].last_emitted_at < Window[k]
  BY DEF Suppress
<1>9. l \in History
  <2>1. l.seen \in State /\ l.shown \in State
    BY <1>1, <1>5, KeyTypes DEF State, History
  <2>2. l.seenAt \in 0 .. MaxClock /\ l.shownAt \in 0 .. MaxClock
    BY <1>1, <1>5, KeyTypes DEF History
  <2>3. /\ l.reports \in 0 .. MaxReports
        /\ l.lines \in 0 .. MaxReports
        /\ l.summed \in 0 .. MaxReports
    BY <1>1, <1>5, <1>7, KeyTypes
  <2> QED
    BY <1>1, <2>1, <2>2, <2>3, KeyTypes DEF History, Reported
<1>10. e \in SuppressionState
  <2>1. e.suppressed_count \in 0 .. MaxReports
    BY <1>1, <1>6, <1>7, KeyTypes
  <2> QED
    BY <1>1, <1>6, <2>1, KeyTypes DEF SuppressionState
<1>11. TypeOK'
  BY <1>1, <1>2, <1>9, <1>10 DEF TypeOK
<1>a. /\ entry'[k].last_emitted_at = entry[k].last_emitted_at
      /\ entry'[k].suppressed_count = entry[k].suppressed_count + 1
      /\ log'[k].seenAt = clock /\ log'[k].shownAt = log[k].shownAt
      /\ log'[k].reports = log[k].reports + 1
      /\ log'[k].lines = log[k].lines /\ log'[k].summed = log[k].summed
  BY <1>3, <1>5, <1>6
<1>b. entry'[k].present
  BY <1>3, <1>6, <1>8
<1> HIDE DEF e, l
<1>12. LineIsEntry'
  <2> SUFFICES ASSUME NEW q \in Key
               PROVE  /\ entry'[q].last_emitted_at = log'[q].shownAt
                      /\ log'[q].shownAt <= clock'
                      /\ log'[q].seenAt <= clock'
                      /\ ~entry'[q].present => log'[q].seenAt = log'[q].shownAt
    BY DEF LineIsEntry
  <2>1. CASE q = k
    BY <1>1, <1>a, <1>b, <2>1, KeyTypes DEF LineIsEntry
  <2>2. CASE q # k
    BY <1>1, <1>4, <2>2 DEF LineIsEntry
  <2> QED
    BY <2>1, <2>2
<1>13. KeepsReminding'
  <2>1. log'[k].seenAt - log'[k].shownAt < Window[k]
    BY <1>1, <1>8, <1>a, KeyTypes DEF LineIsEntry
  <2> QED
    BY <1>1, <1>4, <2>1 DEF KeepsReminding
<1>14. Accounted'
  <2>1. log'[k].reports = log'[k].lines + log'[k].summed + entry'[k].suppressed_count
    BY <1>1, <1>7, <1>a, KeyTypes
  <2> QED
    BY <1>1, <1>4, <2>1 DEF Accounted
<1> QED
  BY <1>11, <1>12, <1>13, <1>14 DEF SuppressionInv

\* A source that is well again keeps the invariant.
LEMMA WellKeeps ==
    ASSUME SuppressionInv, NEW k \in Key, Well(k)
    PROVE  SuppressionInv'
<1> DEFINE l == [log[k] EXCEPT !.seen = "ok"]
<1>1. TypeOK /\ LineIsEntry /\ KeepsReminding /\ Accounted
  BY DEF SuppressionInv
<1>2. log' = [log EXCEPT ![k] = l] /\ UNCHANGED <<clock, entry>>
  BY <1>1 DEF Well, TypeOK
<1>3. /\ l.seenAt = log[k].seenAt /\ l.shownAt = log[k].shownAt
      /\ l.reports = log[k].reports /\ l.lines = log[k].lines
      /\ l.summed = log[k].summed
  BY <1>1, KeyTypes DEF History
<1>4. \A q \in Key :
          /\ log'[q].seenAt = log[q].seenAt /\ log'[q].shownAt = log[q].shownAt
          /\ log'[q].reports = log[q].reports /\ log'[q].lines = log[q].lines
          /\ log'[q].summed = log[q].summed
  BY <1>1, <1>2, <1>3 DEF TypeOK
<1>5. l \in History
  BY <1>1, KeyTypes DEF History, State
<1>6. TypeOK'
  BY <1>1, <1>2, <1>5 DEF TypeOK
<1>7. LineIsEntry' /\ KeepsReminding' /\ Accounted'
  BY <1>1, <1>2, <1>4 DEF LineIsEntry, KeepsReminding, Accounted
<1> QED
  BY <1>6, <1>7 DEF SuppressionInv

\* Every step keeps the invariant.
LEMMA StepKeeps == SuppressionInv /\ [Next]_vars => SuppressionInv'
<1> SUFFICES ASSUME SuppressionInv, [Next]_vars PROVE SuppressionInv'
  OBVIOUS
<1>1. CASE \E k \in Key : Well(k)
  BY <1>1, WellKeeps
<1>2. CASE \E k \in Key : \E s \in Fault[k] : Warn(k, s)
  BY <1>2, EmitKeeps, SuppressKeeps DEF Warn
<1>3. CASE Tick
  <2>1. /\ clock \in Nat /\ MaxClock \in Nat /\ clock < MaxClock
        /\ clock' = clock + 1 /\ entry' = entry /\ log' = log
    BY <1>3, SuppressionAssumption DEF Tick, SuppressionInv, TypeOK
  <2>2. TypeOK' /\ KeepsReminding' /\ Accounted'
    BY <2>1 DEF SuppressionInv, TypeOK, KeepsReminding, Accounted
  <2>3. LineIsEntry'
    BY <2>1, KeyTypes DEF SuppressionInv, LineIsEntry
  <2> QED
    BY <2>2, <2>3 DEF SuppressionInv
<1>4. CASE UNCHANGED vars
  BY <1>4 DEF vars, SuppressionInv, TypeOK, LineIsEntry, KeepsReminding, Accounted
<1> QED
  BY <1>1, <1>2, <1>3, <1>4 DEF Next

\* Every reachable state of the suppression table satisfies the invariant.
THEOREM SuppressionInvariant == Spec => []SuppressionInv
BY InvHoldsInitially, StepKeeps, PTL DEF Spec

\* A source that keeps reporting is logged again when its window is over.
THEOREM RemindersKeepComing == Spec => []KeepsReminding
<1>1. SuppressionInv => KeepsReminding
  BY DEF SuppressionInv
<1> QED
  BY <1>1, SuppressionInvariant, PTL

\* Every report is logged or accounted for by a count.
THEOREM ReportsAreAccounted == Spec => []Accounted
<1>1. SuppressionInv => Accounted
  BY DEF SuppressionInv
<1> QED
  BY <1>1, SuppressionInvariant, PTL

-----------------------------------------------------------------------------
(* The probes and the command loop, which share the table *)

\* Report is a step of the table, or none.
LEMMA ReportIsTableStep ==
    ASSUME NEW k \in Key, NEW s, s # "ok" => s \in Fault[k], Report(k, s)
    PROVE  [Next]_vars
BY DEF Report, Next

\* Every step of the composition is a step of the table, or none.
LEMMA StepUsesTable == StatusesAreTrue /\ [ProbesNext]_allVars => [Next]_vars
<1>. SUFFICES ASSUME StatusesAreTrue, ProbesNext PROVE [Next]_vars
  BY DEF allVars, vars
<1>1. ASSUME NEW k \in Capability, round.status[k] # Unprobed,
             Report(k, round.status[k].state)
      PROVE  [Next]_vars
  <2>1. \A a, r : status_from(a, r).state \in
                      {"ok", "forbidden", "missing", "unavailable", "error"}
    BY DEF status_from, classify
  <2>2. round.status[k].state \in {"ok", "forbidden", "missing", "unavailable", "error"}
    BY <1>1, <2>1 DEF StatusesAreTrue, Capability
  <2>. QED
    BY <1>1, <2>2, ReportIsTableStep, ProbesAssumption
<1>2. CASE ReportMetrics
  BY <1>1, <1>2 DEF ReportMetrics, Capability
<1>3. CASE ReportSnapshotApi
  <2>1. round.status["snapshot_api_status"] # Unprobed
    BY <1>3 DEF ReportSnapshotApi, StatusesAreTrue
  <2>. QED
    BY <1>1, <1>3, <2>1 DEF ReportSnapshotApi, Capability
<1>4. CASE \E k \in Key \ Capability : \E s \in Fault[k] : OtherWarning(k, s)
  BY <1>4 DEF OtherWarning, Next
<1>5. CASE Tick
  BY <1>5 DEF Next
<1>6. ASSUME NEW a \in Answer,
             \/ ListPodMetrics(a) \/ ListPodMetricsBeta(a)
             \/ ListSnapshotClasses(a) \/ ListSnapshots(a)
      PROVE  UNCHANGED vars
  BY <1>6 DEF ListPodMetrics, ListPodMetricsBeta, ListSnapshotClasses, ListSnapshots, Ask
<1>7. CASE NextCollection
  BY <1>7 DEF NextCollection
<1>. QED
  BY <1>2, <1>3, <1>4, <1>5, <1>6, <1>7 DEF ProbesNext

-----------------------------------------------------------------------------
(* Statuses *)

\* What collect and its callers keep between the steps of a round.
LEMMA CollectingIsTrue ==
    ASSUME NEW now \in Nat, round = Collecting(now)
    PROVE  StatusesAreTrue
<1>1. round \in Round
  BY DEF Collecting, Round, Status, Unprobed, AnyAnswer, Lists, Code
<1>. QED
  BY <1>1 DEF StatusesAreTrue, Collecting, Capability

\* A status is made of one answer.
LEMMA StatusType ==
    ASSUME NEW a \in AnyAnswer, NEW r \in Resource
    PROVE  /\ status_from(a, r) \in Status /\ status_from(a, r) # Unprobed
           /\ status_from(a, r).source = r
BY DEF status_from, classify, Status, Unprobed, AnyAnswer, Lists, Code, Resource

\* The clock is a number, so that a round knows when it began.
Timed == clock \in Nat

\* Every step of the composition keeps the statuses true.
LEMMA StatusStep ==
    StatusesAreTrue /\ Timed /\ [ProbesNext]_allVars => StatusesAreTrue'
<1>. SUFFICES ASSUME StatusesAreTrue, clock \in Nat, [ProbesNext]_allVars
              PROVE  StatusesAreTrue'
  BY DEF Timed
<1>0. /\ round \in Round /\ Answer \subseteq AnyAnswer
      /\ "unasked" \notin AnyAnswer /\ "404" \in AnyAnswer
  BY ProbesAssumption DEF StatusesAreTrue, AnyAnswer, Lists, Code
<1>. DEFINE m == "metrics_status"
            v == "snapshot_api_status"
            v1 == "metrics.k8s.io/v1"
            beta == "metrics.k8s.io/v1beta1"
<1>1. ASSUME NEW a \in Answer, ListPodMetrics(a) PROVE StatusesAreTrue'
  <2>. DEFINE st == IF is_not_found(a) THEN Unprobed ELSE status_from(a, v1)
  <2>1. /\ round.pc = "probing" /\ round.status[m] = Unprobed
        /\ round' = [round EXCEPT !.answered[v1] = a, !.status[m] = st]
    BY <1>1 DEF ListPodMetrics, Ask
  <2>2. /\ st \in Status
        /\ st = Unprobed \/ (st = status_from(a, v1) /\ st.source = v1 /\ a # "404")
    BY <1>0, StatusType DEF is_not_found, Resource, Status, Unprobed
  <2>. HIDE DEF st
  <2>3. /\ round' \in Round /\ round'.pc = "probing"
        /\ round'.answered[v1] = a /\ round'.status[m] = st
        /\ round'.answered["classes"] = round.answered["classes"]
        /\ round'.status[v] = round.status[v]
    BY <1>0, <2>1, <2>2 DEF Round, Resource, Capability
  <2>. QED
    BY <2>2, <2>3 DEF StatusesAreTrue
<1>2. ASSUME NEW a \in Answer, ListPodMetricsBeta(a) PROVE StatusesAreTrue'
  <2>. DEFINE st == status_from(a, beta)
  <2>1. /\ round.pc = "probing" /\ round.answered[v1] = "404"
        /\ round' = [round EXCEPT !.answered[beta] = a, !.status[m] = st]
    BY <1>2 DEF ListPodMetricsBeta, is_not_found, Ask
  <2>2. st \in Status /\ st.source = beta
    BY <1>0, StatusType DEF Resource
  <2>. HIDE DEF st
  <2>3. /\ round' \in Round /\ round'.pc = "probing"
        /\ round'.answered[v1] = "404" /\ round'.answered[beta] = a
        /\ round'.status[m] = st
        /\ round'.answered["classes"] = round.answered["classes"]
        /\ round'.status[v] = round.status[v]
    BY <1>0, <2>1, <2>2 DEF Round, Resource, Capability
  <2>. QED
    BY <2>2, <2>3 DEF StatusesAreTrue, st
<1>3. ASSUME NEW a \in Answer, ListSnapshotClasses(a) PROVE StatusesAreTrue'
  <2>. DEFINE st == IF a \notin Lists THEN status_from(a, "classes") ELSE Unprobed
  <2>1. /\ round.pc = "probing"
        /\ round' = [round EXCEPT !.answered["classes"] = a, !.status[v] = st]
    BY <1>3 DEF ListSnapshotClasses, Ask
  <2>2. /\ st \in Status
        /\ st = Unprobed \/ st = status_from(a, "classes")
    BY <1>0, StatusType DEF Resource, Status, Unprobed
  <2>. HIDE DEF st
  <2>3. /\ round' \in Round /\ round'.pc = "probing"
        /\ round'.answered["classes"] = a /\ round'.status[v] = st
        /\ round'.answered[v1] = round.answered[v1]
        /\ round'.answered[beta] = round.answered[beta]
        /\ round'.status[m] = round.status[m]
    BY <1>0, <2>1, <2>2 DEF Round, Resource, Capability
  <2>. QED
    BY <2>2, <2>3 DEF StatusesAreTrue
<1>4. ASSUME NEW a \in Answer, ListSnapshots(a) PROVE StatusesAreTrue'
  <2>. DEFINE st == status_from(round.answered["classes"], "classes")
  <2>1. /\ round.pc = "probing" /\ round.answered["classes"] \in AnyAnswer
        /\ round' = [round EXCEPT !.answered["snapshots"] = a, !.status[v] = st,
                                  !.snapshots = (a = "items")]
    BY <1>4 DEF ListSnapshots, AnyAnswer
  <2>2. st \in Status
    BY <2>1, StatusType DEF Resource
  <2>. HIDE DEF st
  <2>3. PICK some \in BOOLEAN : some = (a = "items")
    OBVIOUS
  <2>4. /\ round' \in Round /\ round'.pc = "probing"
        /\ round'.answered["classes"] = round.answered["classes"] /\ round'.status[v] = st
        /\ round'.answered[v1] = round.answered[v1]
        /\ round'.answered[beta] = round.answered[beta]
        /\ round'.status[m] = round.status[m]
    BY <1>0, <2>1, <2>2, <2>3 DEF Round, Resource, Capability
  <2>. QED
    BY <2>4 DEF StatusesAreTrue, st
<1>5. CASE ReportMetrics
  <2>1. /\ round' = [round EXCEPT !.pc = "metrics reported"]
        /\ round.status[m] # Unprobed /\ round.status[v] # Unprobed
    BY <1>5 DEF ReportMetrics, Capability
  <2>2. /\ round' \in Round /\ round'.answered = round.answered
        /\ round'.status = round.status
    BY <1>0, <2>1 DEF Round
  <2>. QED
    BY <2>1, <2>2 DEF StatusesAreTrue
<1>6. CASE ReportSnapshotApi
  <2>1. /\ round' = [round EXCEPT !.pc = "reported"] /\ round.pc # "probing"
    BY <1>6 DEF ReportSnapshotApi
  <2>2. /\ round' \in Round /\ round'.answered = round.answered
        /\ round'.status = round.status
    BY <1>0, <2>1 DEF Round
  <2>. QED
    BY <2>1, <2>2 DEF StatusesAreTrue
<1>7. CASE NextCollection
  <2>1. round' = Collecting(clock)
    BY <1>7 DEF NextCollection
  <2>2. round' \in Round
    BY <2>1 DEF Collecting, Round, Status, Unprobed, AnyAnswer, Lists, Code
  <2>. QED
    BY <2>1, <2>2 DEF StatusesAreTrue, Collecting, Capability
<1>8. CASE UNCHANGED round
  BY <1>8 DEF StatusesAreTrue
<1>. QED
  BY <1>1, <1>2, <1>3, <1>4, <1>5, <1>6, <1>7, <1>8 DEF ProbesNext, OtherWarning, allVars

-----------------------------------------------------------------------------
(* Theorems *)

\* Probes, reports and command loop keep to the table's specification, so
\* that what is proved of WarnSuppression holds of them.
LEMMA ProbesUseTable == ProbesSpec => Spec /\ []StatusesAreTrue
<1>1. ProbesInit => Init /\ StatusesAreTrue
  <2>1. ProbesInit => clock = 0 /\ round = Collecting(clock)
    BY DEF ProbesInit, Init
  <2>. QED
    BY <2>1, CollectingIsTrue DEF ProbesInit
<1>2. Init => Timed
  BY DEF Init, Timed
<1>3. Timed /\ [Next]_vars => Timed'
  BY DEF Timed, Next, Warn, Well, Tick, vars
<1>. QED
  BY <1>1, <1>2, <1>3, StatusStep, StepUsesTable, PTL DEF ProbesSpec, Spec

\* In the composition, too, a source that keeps failing is logged again when
\* its window ends.
THEOREM ProbesAreReminded == ProbesSpec => []KeepsReminding
BY ProbesUseTable, RemindersKeepComing, PTL

\* And no report of a probe goes without account.
THEOREM ProbesAreAccounted == ProbesSpec => []Accounted
BY ProbesUseTable, ReportsAreAccounted, PTL

\* A capability is called missing only when no version of its API was there
\* (probe_pod_metrics, probe_snapshot_api).
THEOREM MissingHolds == ProbesSpec => []MissingWasAbsent
<1>1. StatusesAreTrue => MissingWasAbsent
  <2>1. \A a, r : status_from(a, r).state = "missing" => a = "404"
    BY DEF status_from, classify
  <2>. QED
    BY <2>1 DEF StatusesAreTrue, MissingWasAbsent, Unprobed
<1>. QED
  BY <1>1, ProbesUseTable, PTL

\* A snapshot without pod metrics or snapshot classes tells why.
THEOREM EmptyHolds == ProbesSpec => []EmptyIsExplained
<1>1. StatusesAreTrue => EmptyIsExplained
  <2>1. \A a, r : /\ status_from(a, r).source = r
                  /\ status_from(a, r).state = "ok" /\ ~status_from(a, r).items
                         => a = "empty"
    BY DEF status_from, classify, Lists
  <2>. QED
    BY <2>1 DEF StatusesAreTrue, EmptyIsExplained, Unprobed, Capability
<1>. QED
  BY <1>1, ProbesUseTable, PTL

-----------------------------------------------------------------------------
(* What a snapshot says is in the log *)

\* A warning leaves its source with a line and a report of this moment, and
\* the other sources alone.
LEMMA WarnIsHeard ==
    ASSUME SuppressionInv, NEW k \in Key, NEW s \in Fault[k], Warn(k, s),
           \A q \in Key : entry[q].present => log[q].lines > 0
    PROVE  /\ clock' = clock
           /\ log'[k].lines > 0 /\ log'[k].seenAt = clock
           /\ \A q \in Key \ {k} : entry'[q] = entry[q] /\ log'[q] = log[q]
<1>1. log[k] \in History /\ log \in [Key -> History] /\ entry \in [Key -> SuppressionState]
  BY DEF SuppressionInv, TypeOK
<1>2. log[k].lines \in Nat
  BY <1>1, SuppressionAssumption DEF History
<1>3. CASE Emit(k, s)
  <2>1. log'[k] = [Reported(k, s) EXCEPT !.shown = s, !.shownAt = clock, !.lines = @ + 1,
                                         !.summed = @ + entry[k].suppressed_count]
    BY <1>1, <1>3 DEF Emit
  <2>2. log'[k].lines = log[k].lines + 1 /\ log'[k].seenAt = clock
    BY <1>1, <2>1 DEF Reported, History
  <2>. QED
    BY <1>1, <1>2, <1>3, <2>2 DEF Emit, Warn
<1>4. CASE Suppress(k, s)
  <2>1. log'[k] = Reported(k, s)
    BY <1>1, <1>4 DEF Suppress
  <2>2. log'[k].lines = log[k].lines /\ log'[k].seenAt = clock
    BY <1>1, <2>1 DEF Reported, History
  <2>. QED
    BY <1>1, <1>4, <2>2 DEF Suppress, Warn
<1>. QED
  BY <1>3, <1>4 DEF Warn

\* A report of a capability is heard, or there was nothing to report.
LEMMA ReportIsHeard ==
    ASSUME SuppressionInv, NEW k \in Capability, NEW s, s # "ok" => s \in Fault[k],
           Report(k, s), \A q \in Key : entry[q].present => log[q].lines > 0
    PROVE  /\ clock' = clock
           /\ s # "ok" => log'[k].lines > 0 /\ log'[k].seenAt = clock
           /\ \A q \in Key \ {k} : log'[q] = log[q]
           /\ \A q \in Key : entry'[q].present => log'[q].lines > 0
<1>0. k \in Key
  BY ProbesAssumption
<1>1. CASE s # "ok"
  <2>1. Warn(k, s)
    BY <1>1 DEF Report
  <2>. QED
    BY <1>0, <1>1, <2>1, WarnIsHeard
<1>2. CASE s = "ok" /\ Well(k)
  <2>1. log[k] \in History /\ log \in [Key -> History]
    BY <1>0 DEF SuppressionInv, TypeOK
  <2>2. /\ log'[k].lines = log[k].lines /\ entry' = entry /\ clock' = clock
        /\ \A q \in Key \ {k} : log'[q] = log[q]
    BY <1>0, <1>2, <2>1 DEF Well, History
  <2>. QED
    BY <1>2, <2>2
<1>3. CASE s = "ok" /\ UNCHANGED vars
  BY <1>3 DEF vars
<1>. QED
  BY <1>1, <1>2, <1>3 DEF Report

\* Every step of the composition keeps ReportsAreHeard.
LEMMA HeardStep ==
    ReportsAreHeard /\ StatusesAreTrue /\ SuppressionInv /\ [ProbesNext]_allVars
        => ReportsAreHeard'
<1>. SUFFICES ASSUME ReportsAreHeard, StatusesAreTrue, SuppressionInv, [ProbesNext]_allVars
              PROVE  ReportsAreHeard'
  OBVIOUS
<1>. DEFINE m == "metrics_status"
            v == "snapshot_api_status"
<1>0. /\ round \in Round /\ clock \in Nat /\ round.startedAt \in Nat
      /\ m \in Capability /\ v \in Capability /\ m # v /\ Capability \subseteq Key
      /\ \A q \in Key : entry[q].present => log[q].lines > 0
      /\ round.startedAt <= clock
  <2>1. m \in Capability /\ v \in Capability /\ m # v /\ Capability \subseteq Key
    BY ProbesAssumption DEF Capability
  <2>2. clock \in Nat
    BY <2>1, KeyTypes DEF SuppressionInv
  <2>3. round \in Round /\ round.startedAt \in Nat
    BY DEF StatusesAreTrue, Round
  <2>. QED
    BY <2>1, <2>2, <2>3 DEF ReportsAreHeard
<1>1. \A k \in Capability : round.status[k] # Unprobed /\ round.status[k].state # "ok" =>
          round.status[k].state \in Fault[k]
  <2>1. \A a, r : status_from(a, r).state \in
                      {"ok", "forbidden", "missing", "unavailable", "error"}
    BY DEF status_from, classify
  <2>. QED
    BY <2>1, ProbesAssumption DEF StatusesAreTrue, Capability
<1>2. CASE ReportMetrics
  <2>1. /\ round.status[m] # Unprobed /\ Report(m, round.status[m].state)
        /\ round' = [round EXCEPT !.pc = "metrics reported"]
    BY <1>0, <1>2 DEF ReportMetrics
  <2>2. /\ clock' = clock
        /\ round.status[m].state # "ok" => log'[m].lines > 0 /\ log'[m].seenAt = clock
        /\ \A q \in Key : entry'[q].present => log'[q].lines > 0
    <3>1. round.status[m].state # "ok" => round.status[m].state \in Fault[m]
      BY <1>0, <1>1, <2>1
    <3>2. m \in Capability /\ \A q \in Key : entry[q].present => log[q].lines > 0
      BY <1>0
    <3>3. Report(m, round.status[m].state)
      BY <2>1
    <3>. HIDE DEF m, v
    <3>. QED
      BY <3>1, <3>2, <3>3, ReportIsHeard
  <2>3. /\ round'.pc = "metrics reported" /\ round'.startedAt = round.startedAt
        /\ round'.status = round.status
    BY <1>0, <2>1 DEF Round
  <2>. QED
    BY <1>0, <2>2, <2>3 DEF ReportsAreHeard, Heard
<1>3. CASE ReportSnapshotApi
  <2>1. /\ round.pc = "metrics reported" /\ Report(v, round.status[v].state)
        /\ round' = [round EXCEPT !.pc = "reported"]
    BY <1>3 DEF ReportSnapshotApi
  <2>2. round.status[v] # Unprobed
    BY <2>1 DEF StatusesAreTrue
  <2>3. /\ clock' = clock
        /\ round.status[v].state # "ok" => log'[v].lines > 0 /\ log'[v].seenAt = clock
        /\ log'[m] = log[m]
        /\ \A q \in Key : entry'[q].present => log'[q].lines > 0
    BY <1>0, <1>1, <2>1, <2>2, ReportIsHeard
  <2>4. /\ round'.pc = "reported" /\ round'.startedAt = round.startedAt
        /\ round'.status = round.status
    BY <1>0, <2>1 DEF Round
  <2>. QED
    BY <1>0, <2>1, <2>3, <2>4 DEF ReportsAreHeard, Heard
<1>4. ASSUME NEW k \in Key \ Capability, NEW s \in Fault[k], OtherWarning(k, s)
      PROVE  ReportsAreHeard'
  <2>1. /\ clock' = clock /\ log'[k].lines > 0 /\ round' = round
        /\ \A q \in Key \ {k} : entry'[q] = entry[q] /\ log'[q] = log[q]
    BY <1>0, <1>4, WarnIsHeard DEF OtherWarning
  <2>2. log'[m] = log[m] /\ log'[v] = log[v]
    BY <1>0, <2>1
  <2>. QED
    BY <1>0, <2>1, <2>2 DEF ReportsAreHeard, Heard
<1>5. CASE Tick /\ UNCHANGED round
  BY <1>0, <1>5 DEF Tick, ReportsAreHeard, Heard
<1>6. ASSUME NEW a \in Answer,
             \/ ListPodMetrics(a) \/ ListPodMetricsBeta(a)
             \/ ListSnapshotClasses(a) \/ ListSnapshots(a)
      PROVE  ReportsAreHeard'
  <2>1. UNCHANGED vars /\ round'.pc = "probing" /\ round'.startedAt = round.startedAt
    BY <1>0, <1>6
       DEF ListPodMetrics, ListPodMetricsBeta, ListSnapshotClasses, ListSnapshots, Ask, Round
  <2>. QED
    BY <1>0, <2>1 DEF ReportsAreHeard, vars
<1>7. CASE NextCollection
  BY <1>0, <1>7 DEF NextCollection, Collecting, ReportsAreHeard, vars
<1>8. CASE UNCHANGED allVars
  BY <1>8 DEF allVars, ReportsAreHeard, Heard
<1>. QED
  BY <1>2, <1>3, <1>4, <1>5, <1>6, <1>7, <1>8 DEF ProbesNext

\* A capability that is not ok in a snapshot has a line in the log that is not
\* older than the window (warn_metrics_status_change,
\* warn_snapshot_api_status_change), whoever else uses the table.
THEOREM OutagesAreLogged == ProbesSpec => []OutageIsInTheLog
<1>1. ProbesInit => ReportsAreHeard
  BY SuppressionAssumption DEF ProbesInit, Init, Collecting, ReportsAreHeard, Absent
<1>2. ReportsAreHeard /\ StatusesAreTrue /\ SuppressionInv => OutageIsInTheLog
  <2>. SUFFICES ASSUME ReportsAreHeard, StatusesAreTrue, SuppressionInv,
                       round.pc = "reported",
                       NEW k \in Capability, round.status[k].state # "ok"
                PROVE  log[k].lines > 0 /\ log[k].shownAt + Window[k] > round.startedAt
    BY DEF OutageIsInTheLog
  <2>1. log[k].lines > 0 /\ log[k].seenAt >= round.startedAt
    BY DEF ReportsAreHeard, Heard, Capability
  <2>2. k \in Key /\ Window[k] \in Nat /\ Window[k] > 0
    BY ProbesAssumption, SuppressionAssumption
  <2>3. log[k].seenAt \in Nat /\ log[k].shownAt \in Nat /\ round.startedAt \in Nat
    BY <2>2, KeyTypes DEF SuppressionInv, StatusesAreTrue, Round
  <2>4. log[k].seenAt - log[k].shownAt < Window[k] \/ log[k].seenAt = log[k].shownAt
    BY <2>2 DEF SuppressionInv, KeepsReminding
  <2>. QED
    BY <2>1, <2>2, <2>3, <2>4
<1>. QED
  BY <1>1, <1>2, HeardStep, ProbesUseTable, SuppressionInvariant, PTL DEF ProbesSpec
=============================================================================
