-------------------------- MODULE WarnSuppression --------------------------
(***************************************************************************)
(* The suppression of repeated warnings (main.rs, WARN_SUPPRESSION): one   *)
(* table, keyed by the source of the warning, shared by                    *)
(* warn_metrics_status_change, warn_snapshot_api_status_change and         *)
(* warn_with_suppression.  A call holds the table's mutex throughout, so   *)
(* it is one step.                                                         *)
(*                                                                         *)
(* A report is the state a source is in; the wording of a line is left     *)
(* out.  clock is Instant::now(), which does not go back.                  *)
(***************************************************************************)
EXTENDS Naturals

CONSTANTS Key,         \* "metrics_status", "snapshot_api_status", error keys
          Fault,       \* key -> the states its source reports, "ok" aside
          Window,      \* key -> how long it is suppressed
          MaxClock,    \* bound of the clock
          MaxReports   \* bound of the reports of a key

ASSUME SuppressionAssumption ==
    /\ Window \in [Key -> Nat]
    /\ MaxClock \in Nat /\ MaxReports \in Nat
    /\ \A k \in Key : "ok" \notin Fault[k]

VARIABLES clock,
          entry,    \* key -> SuppressionState, or Absent
          log       \* key -> history of what was reported and what was logged

vars == <<clock, entry, log>>

Absent == [last_emitted_at |-> 0, suppressed_count |-> 0, present |-> FALSE]

SuppressionState ==
    [last_emitted_at  : 0 .. MaxClock,
     suppressed_count : 0 .. MaxReports,
     present          : BOOLEAN]

\* seen and seenAt: the latest report; shown and shownAt: the latest line;
\* reports, lines and summed count reports, lines and the reports that
\* "suppressed" lines gave account of.
State == {"ok"} \cup UNION {Fault[k] : k \in Key}

History ==
    [seen  : State, seenAt  : 0 .. MaxClock,
     shown : State, shownAt : 0 .. MaxClock,
     reports : 0 .. MaxReports, lines : 0 .. MaxReports, summed : 0 .. MaxReports]

Quiet == [seen |-> "ok", seenAt |-> 0, shown |-> "ok", shownAt |-> 0,
          reports |-> 0, lines |-> 0, summed |-> 0]

Init ==
    /\ clock = 0
    /\ entry = [k \in Key |-> Absent]
    /\ log = [k \in Key |-> Quiet]

-----------------------------------------------------------------------------

Reported(k, s) == [log[k] EXCEPT !.seen = s, !.seenAt = clock, !.reports = @ + 1]

\* A report of k is logged, behind the account of what was held back.
Emit(k, s) ==
    /\ ~entry[k].present \/ clock - entry[k].last_emitted_at >= Window[k]
    /\ entry' = [entry EXCEPT ![k] = [last_emitted_at  |-> clock,
                                      suppressed_count |-> 0,
                                      present          |-> TRUE]]
    /\ log' = [log EXCEPT ![k] =
           [Reported(k, s) EXCEPT !.shown = s, !.shownAt = clock,
                                  !.lines = @ + 1,
                                  !.summed = @ + entry[k].suppressed_count]]

\* Mutant of Suppress: the window is one too long.
SuppressAtWindow(k, s) ==
    /\ entry[k].present /\ clock - entry[k].last_emitted_at <= Window[k]
    /\ entry' = [entry EXCEPT ![k] =
           [@ EXCEPT !.suppressed_count = entry[k].suppressed_count + 1]]
    /\ log' = [log EXCEPT ![k] = Reported(k, s)]

\* Mutant of Suppress: the report is held back and not counted.
SuppressUncounted(k, s) ==
    /\ entry[k].present /\ clock - entry[k].last_emitted_at < Window[k]
    /\ log' = [log EXCEPT ![k] = Reported(k, s)]
    /\ UNCHANGED entry

\* Within the window a report is counted only.
Suppress(k, s) ==
    /\ entry[k].present /\ clock - entry[k].last_emitted_at < Window[k]
    /\ entry' = [entry EXCEPT ![k] =
           [@ EXCEPT !.suppressed_count = entry[k].suppressed_count + 1]]
    /\ log' = [log EXCEPT ![k] = Reported(k, s)]

Warn(k, s) ==
    /\ log[k].reports < MaxReports
    /\ Emit(k, s) \/ Suppress(k, s)
    /\ UNCHANGED clock

\* A source that is well returns before it reaches the table.
Well(k) ==
    /\ log[k].seen # "ok"
    /\ log' = [log EXCEPT ![k] = [@ EXCEPT !.seen = "ok"]]
    /\ UNCHANGED <<clock, entry>>

Tick ==
    /\ clock < MaxClock
    /\ clock' = clock + 1
    /\ UNCHANGED <<entry, log>>

Next ==
    \/ \E k \in Key : Well(k) \/ \E s \in Fault[k] : Warn(k, s)
    \/ Tick

Spec == Init /\ [][Next]_vars

-----------------------------------------------------------------------------
(* Properties *)

TypeOK ==
    /\ clock \in 0 .. MaxClock
    /\ entry \in [Key -> SuppressionState]
    /\ log \in [Key -> History]

\* A source that keeps reporting is heard again: no report is later than its
\* source's latest line by the window or more, however densely the reports
\* come (the reminder of warn_metrics_status_change).
KeepsReminding == \A k \in Key : log[k].seenAt - log[k].shownAt < Window[k]
                                 \/ log[k].seenAt = log[k].shownAt

\* No report goes without account: each was logged, was part of a count that
\* was logged, or is part of the count that the next line will give.
Accounted ==
    \A k \in Key :
        log[k].reports = log[k].lines + log[k].summed + entry[k].suppressed_count

\* main.rs:390-391: "a state change resets the timer and is logged immediately":
\* what a source was last seen in is what its latest line shows.
ChangeIsLogged == \A k \in Key : log[k].seen \in {"ok", log[k].shown}
=============================================================================
