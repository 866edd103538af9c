-------------------------- MODULE CapabilityProbes --------------------------
(***************************************************************************)
(* The two runtime capabilities that a snapshot reports on, pod metrics    *)
(* and the CSI snapshot API: how collect finds out about them with calls   *)
(* that follow one another while the API server's answers change, and how  *)
(* build_and_send reports them through the table of WarnSuppression, which *)
(* the command loop uses at the same time.                                 *)
(*                                                                         *)
(* An answer is a list with or without items, or a class of errors.        *)
(***************************************************************************)
EXTENDS WarnSuppression

CONSTANT Answer     \* the answers of the API server, see AnyAnswer

Lists == {"items", "empty"}
Code == {"403", "404", "503", "504", "500", "io"}
AnyAnswer == Lists \cup Code

Capability == {"metrics_status", "snapshot_api_status"}
Resource == {"metrics.k8s.io/v1", "metrics.k8s.io/v1beta1", "classes", "snapshots"}

ASSUME ProbesAssumption ==
    /\ Answer \subseteq AnyAnswer
    /\ Capability \subseteq Key
    /\ \A k \in Capability :
           /\ {"forbidden", "missing", "unavailable", "error"} \subseteq Fault[k]
           /\ Window[k] > 0

VARIABLE round

allVars == <<clock, entry, log, round>>

\* source is the resource the status speaks of, items that it has some.
Status == [state  : {"unprobed", "ok", "forbidden", "missing", "unavailable", "error"},
           source : Resource \cup {"none"}, items : BOOLEAN]

Unprobed == [state |-> "unprobed", source |-> "none", items |-> FALSE]

\* startedAt and answered are history.
Round == [pc        : {"probing", "metrics reported", "reported"},
          startedAt : Nat,
          answered  : [Resource -> AnyAnswer \cup {"unasked"}],
          status    : [Capability -> Status],
          snapshots : BOOLEAN]

Collecting(now) ==
    [pc |-> "probing", startedAt |-> now,
     answered |-> [r \in Resource |-> "unasked"],
     status |-> [k \in Capability |-> Unprobed],
     snapshots |-> FALSE]

ProbesInit == Init /\ round = Collecting(clock)

-----------------------------------------------------------------------------
(* collector::collect: the probes run side by side *)

\* classify_metrics_error, classify_snapshot_api_error, classify_anyhow
classify(a) ==
    CASE a = "403"            -> "forbidden"
      [] a = "404"            -> "missing"
      [] a \in {"503", "504"} -> "unavailable"
      [] OTHER                -> "error"

\* Mutant of is_not_found: every error is taken for an absent version.
IsAnyError(a) == a \in Code

is_not_found(a) == a = "404"

\* status_from, status_snapshot_from
status_from(a, source) ==
    [state |-> IF a \in Lists THEN "ok" ELSE classify(a), source |-> source,
     items |-> a = "items"]

\* Resource r of capability k is asked and answers a; settled: k is decided.
Ask(k, r, a, settled) ==
    /\ round.pc = "probing" /\ round.status[k] = Unprobed /\ round.answered[r] = "unasked"
    /\ round' = [round EXCEPT
           !.answered[r] = a,
           !.status[k] = IF settled THEN status_from(a, r) ELSE Unprobed]
    /\ UNCHANGED vars

\* probe_pod_metrics: v1, and v1beta1 when v1 is not found.
ListPodMetrics(a) == Ask("metrics_status", "metrics.k8s.io/v1", a, ~is_not_found(a))

\* Mutant of ListPodMetricsBeta: an error of the fallback is an empty list.
ListPodMetricsBetaSoft(a) ==
    /\ is_not_found(round.answered["metrics.k8s.io/v1"])
    /\ round.pc = "probing" /\ round.status["metrics_status"] = Unprobed
    /\ round' = [round EXCEPT
           !.answered["metrics.k8s.io/v1beta1"] = a,
           !.status["metrics_status"] =
               status_from(IF a \in Code THEN "empty" ELSE a, "metrics.k8s.io/v1beta1")]
    /\ UNCHANGED vars

ListPodMetricsBeta(a) ==
    /\ is_not_found(round.answered["metrics.k8s.io/v1"])
    /\ Ask("metrics_status", "metrics.k8s.io/v1beta1", a, TRUE)

\* probe_snapshot_api: the classes, and the snapshots unless the classes fail.
ListSnapshotClasses(a) == Ask("snapshot_api_status", "classes", a, a \notin Lists)

\* soft_unwrap: the status is ok whatever becomes of this list.
ListSnapshots(a) ==
    /\ round.pc = "probing" /\ round.status["snapshot_api_status"] = Unprobed
    /\ round.answered["classes"] \in Lists
    /\ round' = [round EXCEPT
           !.answered["snapshots"] = a,
           !.status["snapshot_api_status"] = status_from(round.answered["classes"], "classes"),
           !.snapshots = (a = "items")]
    /\ UNCHANGED vars

-----------------------------------------------------------------------------
(* build_and_send *)

\* warn_metrics_status_change and warn_snapshot_api_status_change return at
\* once when the state is ok.
Report(k, s) ==
    \/ s # "ok" /\ Warn(k, s)
    \/ s = "ok" /\ Well(k)
    \/ s = "ok" /\ log[k].seen = "ok" /\ UNCHANGED vars

ReportMetrics ==
    /\ round.pc = "probing"
    /\ \A k \in Capability : round.status[k] # Unprobed
    /\ Report("metrics_status", round.status["metrics_status"].state)
    /\ round' = [round EXCEPT !.pc = "metrics reported"]

\* Mutant of ReportSnapshotApi: both capabilities under one key.
ReportUnderOneKey ==
    /\ round.pc = "metrics reported"
    /\ Report("metrics_status", round.status["snapshot_api_status"].state)
    /\ round' = [round EXCEPT !.pc = "reported"]

ReportSnapshotApi ==
    /\ round.pc = "metrics reported"
    /\ Report("snapshot_api_status", round.status["snapshot_api_status"].state)
    /\ round' = [round EXCEPT !.pc = "reported"]

\* The rest of the round, and the wait for the next one.
NextCollection ==
    /\ round.pc = "reported"
    /\ round' = Collecting(clock)
    /\ UNCHANGED vars

\* warn_with_suppression, from the collector loop and the command loop.
OtherWarning(k, s) ==
    /\ Warn(k, s)
    /\ UNCHANGED round

ProbesNext ==
    \/ \E a \in Answer : \/ ListPodMetrics(a) \/ ListPodMetricsBeta(a)
                         \/ ListSnapshotClasses(a) \/ ListSnapshots(a)
    \/ ReportMetrics \/ ReportSnapshotApi
    \/ NextCollection
    \/ \E k \in Key \ Capability : \E s \in Fault[k] : OtherWarning(k, s)
    \/ Tick /\ UNCHANGED round

ProbesSpec == ProbesInit /\ [][ProbesNext]_allVars

-----------------------------------------------------------------------------
(* Properties *)

\* A capability is called missing only when no version of its API was there:
\* an error that is not 404 on one version is not covered up by the 404 of
\* the other (probe_pod_metrics, probe_snapshot_api).
MissingWasAbsent ==
    /\ round.status["metrics_status"].state = "missing" =>
           \A r \in {"metrics.k8s.io/v1", "metrics.k8s.io/v1beta1"} :
               round.answered[r] = "404"
    /\ round.status["snapshot_api_status"].state = "missing" =>
           round.answered["classes"] = "404"

\* A snapshot without pod metrics, or without snapshot classes, tells the Hub
\* why: its status is not ok, or the API had none (the doc of
\* probe_pod_metrics: "so the Hub can tell *why* pod usage is missing").
EmptyIsExplained ==
    \A k \in Capability :
        LET status == round.status[k] IN
        status.state = "ok" /\ ~status.items => round.answered[status.source] = "empty"

\* When a snapshot goes out with a capability that is not ok, the log has a
\* line on that capability, not older than the window, whatever the other
\* capability and the command loop put into the shared table (main.rs:443-446).
OutageIsInTheLog ==
    round.pc = "reported" =>
        \A k \in Capability :
            round.status[k].state # "ok" =>
                /\ log[k].lines > 0
                /\ log[k].shownAt + Window[k] > round.startedAt

\* What makes these inductive: a status is what its source answered, and
\* v1beta1 is its source only after v1 was not found.
StatusesAreTrue ==
    LET metrics == round.status["metrics_status"]
        snapshot == round.status["snapshot_api_status"]
    IN  /\ round \in Round
        /\ round.pc # "probing" => metrics # Unprobed /\ snapshot # Unprobed
        /\ \/ metrics = Unprobed
           \/ /\ metrics.source \in {"metrics.k8s.io/v1", "metrics.k8s.io/v1beta1"}
              /\ metrics = status_from(round.answered[metrics.source], metrics.source)
              /\ metrics.source = "metrics.k8s.io/v1" <=>
                     round.answered["metrics.k8s.io/v1"] # "404"
        /\ \/ snapshot = Unprobed
           \/ snapshot = status_from(round.answered["classes"], "classes")

\* What a snapshot says was reported after its collection began, and what has
\* an entry has a line.
Heard(k) ==
    round.status[k].state # "ok" => log[k].lines > 0 /\ log[k].seenAt >= round.startedAt

ReportsAreHeard ==
    /\ round.startedAt <= clock
    /\ \A k \in Key : entry[k].present => log[k].lines > 0
    /\ round.pc # "probing" => Heard("metrics_status")
    /\ round.pc = "reported" => Heard("snapshot_api_status")

\* model.rs:68-71, of the snapshot API: the status is there "so the Hub can
\* distinguish" what is missing "from a transient failure".  So a snapshot
\* without VolumeSnapshots is explained as well.
SnapshotsAreExplained ==
    round.status["snapshot_api_status"].state = "ok" /\ ~round.snapshots =>
        round.answered["snapshots"] = "empty"
=============================================================================
