------------------------- MODULE MCMonitoringRound -------------------------
(* An instance of MonitoringRound for TLC: a database of one StatefulSet in  *)
(* namespace db and its neighbours.                                          *)
EXTENDS MonitoringRound

Thing(kind, ns, name, pg) ==
    [kind |-> kind, ns |-> ns, name |-> name, pg |-> pg, port |-> FALSE,
     running |-> FALSE, hinted |-> TRUE, scrape |-> FALSE]

Sts == Thing("statefulsets", "db", 1, "clear")
Pod == [Thing("pods", "db", 1, "clear") EXCEPT !.running = TRUE]
PodPending == Thing("pods", "db", 1, "clear")
Svc == [Thing("services", "db", 1, "clear") EXCEPT !.port = TRUE, !.scrape = TRUE]
SvcReplica == [Thing("services", "db", 2, "clear") EXCEPT !.port = TRUE, !.scrape = TRUE]
SvcWeak == [Thing("services", "db", 3, "none") EXCEPT !.port = TRUE]
Pvc == Thing("pvcs", "db", 1, "clear")
Event == Thing("events", "db", 1, "weak")
\* A newer event elsewhere; with MAX_EVENTS = 1 it takes the place of Event.
EventElsewhere == Thing("events", "app", 2, "none")

MCObject ==
    {Sts, Pod, PodPending, Svc, SvcReplica, SvcWeak, Pvc, Event, EventElsewhere}

Whole == {Sts, Pod, Svc, Pvc, Event}
MCWorlds == {Whole, Whole \cup {SvcReplica}, {SvcWeak, Pvc, EventElsewhere}}
MCList == {"statefulsets", "pods", "services", "pvcs", "events"}

Snapshot(workload, metrics, postgresql) ==
    [kind |-> "snapshot", ns |-> "", service |-> 0, selector |-> FALSE,
     workload_namespaces |-> workload, metrics_namespaces |-> metrics,
     postgresql_namespaces |-> postgresql, secret |-> FALSE, config |-> {}]

Diagnose(ns, service, selector) ==
    [Snapshot({}, {}, {ns}) EXCEPT !.kind = "diagnose", !.ns = ns, !.service = service,
                                   !.selector = selector, !.secret = TRUE,
                                   !.config = {"sslmode"}]

MCRequest ==
    {Snapshot({"db"}, {"db"}, {}), [Snapshot({}, {}, {"db"}) EXCEPT !.secret = TRUE],
     Diagnose("db", 0, FALSE), Diagnose("db", 2, FALSE), Diagnose("db", 0, TRUE),
     Diagnose("", 0, FALSE)}

Answer(success, body) ==
    [arrives |-> TRUE, fits |-> TRUE, success |-> success, body |-> body]

MCResponse ==
    {Answer(TRUE, <<"comment", "valueless", "unlisted", "no_number", "spaced", "sample">>),
     Answer(TRUE, <<"misread", "sample", "sample">>), Answer(TRUE, <<"spaced">>), Answer(FALSE, <<"sample">>),
     Answer(TRUE, <<"sample", "unsliceable">>),
     [Answer(TRUE, <<"sample">>) EXCEPT !.fits = FALSE],
     [Answer(TRUE, << >>) EXCEPT !.arrives = FALSE]}

MCSecrets == {{"user", "sslmode", "sslrootcert"}}
=============================================================================
