--------------------------- MODULE MonitoringRound ---------------------------
(***************************************************************************)
(* One round of collection and monitoring, for a snapshot (build_and_send) *)
(* or for the command diagnose_postgresql: the lists of collector::collect *)
(* run side by side and fail softly, then annotated Services are scraped,  *)
(* pod logs read, and the PostgreSQL plugin judges what it found and asks  *)
(* the server it found.                                                    *)
(*                                                                         *)
(* The cluster and the server change while the round goes on.  An object   *)
(* carries what the heuristics make of it; names are numbers.  The round   *)
(* keeps no state for the next one, which finds the cluster in any state.  *)
(***************************************************************************)
EXTENDS Naturals, Sequences, FiniteSets

CONSTANTS Object,            \* objects of the cluster, see ObjectType
          Worlds,            \* the states of the cluster a round may begin in
          List,              \* the lists of collect the monitoring looks at
          Request,           \* the rounds asked for, see RequestType
          Response,          \* the answers of a scraped Service, see ResponseType
          Secrets,           \* the fields that the Secret may have
          Tls,               \* where an sslmode other than disable may come from
          BadCert,           \* where an sslrootcert that is no PEM may come from
          MAX_EVENTS,        \* events a snapshot holds
          APP_METRICS_MAX_SAMPLES,
          MaxChanges         \* bound: changes of cluster and server in a round

Workload == {"deployments", "statefulsets", "daemonsets"}
Kind == Workload \cup {"pods", "services", "pvcs", "events"}

\* pg is what matches_postgresql_name and matches_clear_postgresql_name say of
\* its names, images and selectors, port whether a Service has port 5432,
\* running the phase of a pod, hinted that pod_selector matches it, scrape
\* that discover_app_metrics_target finds a target in its annotations.
ObjectType ==
    [kind : Kind, ns : STRING, name : Nat, pg : {"none", "weak", "clear"},
     port : BOOLEAN, running : BOOLEAN, hinted : BOOLEAN, scrape : BOOLEAN]

Field == {"host", "port", "user", "password", "database", "sslmode", "sslrootcert"}

\* A snapshot looks at the allowlists of the configuration, a diagnosis at
\* one namespace and the hints of its command; 0 and FALSE are no hint.
RequestType ==
    [kind : {"snapshot", "diagnose"}, ns : STRING, service : Nat, selector : BOOLEAN,
     workload_namespaces : SUBSET STRING, metrics_namespaces : SUBSET STRING,
     postgresql_namespaces : SUBSET STRING, secret : BOOLEAN, config : SUBSET Field]

\* What a line of an exposition is to parse_prometheus_text.  An allowlisted
\* sample with a finite value is "sample"; with white space in or before its
\* labels, where the line is cut, it is "spaced", or "misread" when the word
\* behind the cut is itself a number.
MetricLine == {"comment", "valueless", "unlisted", "no_number", "sample", "spaced",
               "misread", "unsliceable"}

ResponseType ==
    [arrives : BOOLEAN, fits : BOOLEAN, success : BOOLEAN, body : Seq(MetricLine)]

ASSUME RoundAssumption ==
    /\ Object \subseteq ObjectType /\ IsFiniteSet(Object)
    /\ Worlds \subseteq SUBSET Object /\ Worlds # {}
    /\ List \subseteq Kind
    /\ Request \subseteq RequestType
    /\ \A request \in Request :
           request.kind = "diagnose" => request.postgresql_namespaces = {request.ns}
    /\ Response \subseteq ResponseType
    /\ Secrets \subseteq SUBSET Field
    /\ MAX_EVENTS \in Nat /\ APP_METRICS_MAX_SAMPLES \in Nat /\ MaxChanges \in Nat

VARIABLES world,    \* the objects that exist
          server,   \* the PostgreSQL server the probe would reach
          round

vars == <<world, server, round>>

Server == {"up", "refusing", "silent"}
Source == {"default", "secret", "config"}
NoSettings == [f \in Field |-> "default"]

Target == [service : Object, status : {"ok", "warning"}, samples : SUBSET Nat, matched : Nat,
           truncated : BOOLEAN, response : Response]

\* existed, steady and served are history: the objects that existed at some
\* time of the round, those that existed all the time, and that the server
\* was up at some time.
Round ==
    [pc       : {"list", "scrape", "logs", "settings", "connect", "query", "done", "aborted"},
     request  : Request,
     pending  : SUBSET List,
     failed   : SUBSET List,
     seen     : SUBSET Object,
     tasks    : SUBSET Object,    \* the JoinSet: scrapes, then log reads
     targets  : SUBSET Target,
     logs     : SUBSET Object,
     settings : [Field -> Source],
     probe    : {"none", "connected", "failed"},
     changes  : Nat,
     existed  : SUBSET Object,
     steady   : SUBSET Object,
     served   : BOOLEAN]

TypeOK ==
    /\ world \in SUBSET Object
    /\ server \in Server
    /\ round \in Round

\* diagnose_postgresql refuses an empty namespace before it collects.
Begin(w, s, request) ==
    [pc |-> IF request.kind = "diagnose" /\ request.ns = "" THEN "done" ELSE "list",
     request |-> request, pending |-> List, failed |-> {}, seen |-> {}, tasks |-> {},
     targets |-> {}, logs |-> {}, settings |-> NoSettings,
     probe |-> "none", changes |-> 0, existed |-> w, steady |-> w, served |-> s = "up"]

Init ==
    /\ world \in Worlds
    /\ server \in Server
    /\ \E request \in Request : round = Begin(world, server, request)

-----------------------------------------------------------------------------
(* collector::collect *)

\* The MAX_EVENTS first of the whole cluster, in the order of
\* sort_events_for_snapshot; the newest has the highest name here.
Newer(objects, o) == {e \in objects : e.kind = "events" /\ e.name > o.name}

Newest(events) == {e \in events : Cardinality(Newer(events, e)) < MAX_EVENTS}

Listed(k) ==
    LET found == {o \in world : o.kind = k} IN
    IF k = "events" THEN Newest(found) ELSE found

\* One call of tokio::join! returns.
ListReturns(k) ==
    /\ round.pc = "list" /\ k \in round.pending
    /\ round' = [round EXCEPT !.pending = round.pending \ {k},
                              !.seen = round.seen \cup Listed(k)]
    /\ UNCHANGED <<world, server>>

\* soft_unwrap: a list that failed is empty.
ListFails(k) ==
    /\ round.pc = "list" /\ k \in round.pending
    /\ round' = [round EXCEPT !.pending = round.pending \ {k},
                              !.failed = round.failed \cup {k}]
    /\ UNCHANGED <<world, server>>

-----------------------------------------------------------------------------
(* collect_app_metrics *)

ScrapeTargets ==
    {o \in round.seen : /\ o.kind = "services" /\ o.scrape
                        /\ o.ns \in round.request.metrics_namespaces}

SpawnScrapes ==
    /\ round.pc = "list" /\ round.pending = {}
    /\ round' = [round EXCEPT !.pc = "scrape", !.tasks = ScrapeTargets]
    /\ UNCHANGED <<world, server>>

\* The lines that count, by their numbers, and the ones that are shown.  The
\* line "misread" counts, with the value and the labels that the cut left.
Matched(body) == {i \in 1 .. Len(body) : body[i] \in {"sample", "misread"}}

Kept(body) ==
    {i \in Matched(body) :
        Cardinality({j \in Matched(body) : j < i}) < APP_METRICS_MAX_SAMPLES}

\* Mutant of parse_prometheus_text: the count stops at the cap.
ParseCountsKept(body) ==
    [samples |-> Kept(body), matched |-> Cardinality(Kept(body)), truncated |-> FALSE]

\* All other lines are passed over, without a trace in the result; what is
\* beyond the cap counts.
parse_prometheus_text(body) ==
    [samples |-> Kept(body), matched |-> Cardinality(Matched(body)),
     truncated |-> Kept(body) # Matched(body)]

\* A transport error, the client's timeout and an announced length over the
\* limit leave no body to parse.
scrape_app_metrics_target(o, response) ==
    LET parsed == IF response.arrives /\ response.fits
                  THEN parse_prometheus_text(response.body)
                  ELSE [samples |-> {}, matched |-> 0, truncated |-> FALSE]
    IN  [service   |-> o,
         status    |-> IF response.success /\ parsed.matched > 0 /\ ~parsed.truncated
                       THEN "ok" ELSE "warning",
         samples   |-> parsed.samples, matched |-> parsed.matched,
         truncated |-> parsed.truncated, response |-> response]

\* A line is cut at white space before its labels are looked at.  A label
\* value that begins with a space leaves a lone quote, which
\* parse_prometheus_label slices from 1 to 0; parse_prometheus_sample slices
\* in the same way when "}" comes before "{".  Allowlisted or not, the line
\* ends the process: the release build aborts on a panic.
Panics(response) ==
    /\ response.arrives /\ response.fits
    /\ \E i \in 1 .. Len(response.body) : response.body[i] = "unsliceable"

\* Mutant of ScrapeEnds: a target whose scrape fails is left out.
ScrapeEndsDropping(o, response) ==
    /\ round.pc = "scrape" /\ o \in round.tasks
    /\ ~Panics(response)
    /\ round' = [round EXCEPT !.tasks = round.tasks \ {o},
                              !.targets = round.targets \cup
                                  {t \in {scrape_app_metrics_target(o, response)} :
                                      response.arrives}]
    /\ UNCHANGED <<world, server>>

\* A task of the JoinSet ends, in any order; the sort by namespace and name
\* makes the order of the report that of the targets.
ScrapeEnds(o, response) ==
    /\ round.pc = "scrape" /\ o \in round.tasks
    /\ ~Panics(response)
    /\ round' = [round EXCEPT !.tasks = round.tasks \ {o},
                              !.targets = round.targets \cup
                                  {scrape_app_metrics_target(o, response)}]
    /\ UNCHANGED <<world, server>>

ScrapeAborts(o, response) ==
    /\ round.pc = "scrape" /\ o \in round.tasks
    /\ Panics(response)
    /\ round' = [round EXCEPT !.pc = "aborted"]
    /\ UNCHANGED <<world, server>>

-----------------------------------------------------------------------------
(* collect_workload_monitoring_logs *)

LogPods ==
    {o \in round.seen : o.kind = "pods" /\ o.ns \in round.request.workload_namespaces}

SpawnLogReads ==
    /\ round.pc = "scrape" /\ round.tasks = {} /\ round.request.kind = "snapshot"
    /\ round' = [round EXCEPT !.pc = "logs", !.tasks = LogPods]
    /\ UNCHANGED <<world, server>>

SameObject(o, p) == o.kind = p.kind /\ o.ns = p.ns /\ o.name = p.name

\* The log goes by name; a pod that has none to give is left out.
LogReadEnds(o, read) ==
    /\ round.pc = "logs" /\ o \in round.tasks
    /\ read => \E p \in world : SameObject(o, p)
    /\ round' = [round EXCEPT !.tasks = round.tasks \ {o},
                              !.logs = IF read THEN round.logs \cup {o} ELSE round.logs]
    /\ UNCHANGED <<world, server>>

\* build_workload_monitoring: the workloads, pods, Services and events of the
\* allowlisted namespaces.
workload_monitoring(r) ==
    {o \in r.seen : o.kind # "pvcs" /\ o.ns \in r.request.workload_namespaces}

-----------------------------------------------------------------------------
(* scope_postgresql_diagnostic *)

IsDiagnosis(r) == r.request.kind = "diagnose"

\* The service hint is a name, the pod selector a part of one.  PVCs are
\* narrowed by neither.
InScope(r, o) ==
    \/ ~IsDiagnosis(r)
    \/ /\ o.ns = r.request.ns
       /\ CASE o.kind = "services" -> r.request.service \in {0, o.name}
            [] o.kind = "pvcs"     -> TRUE
            [] OTHER               -> r.request.selector => o.hinted

Scope(r) == {o \in r.seen : InScope(r, o)}

ServiceUnresolved(r) ==
    /\ r.request.service # 0
    /\ \A o \in Scope(r) : o.kind # "services"

\* A service hint that resolves to nothing is reported instead of the pods.
hint_missing_data(r) ==
    IF ~IsDiagnosis(r) THEN {}
    ELSE IF ServiceUnresolved(r) THEN {"service hint"}
    ELSE IF r.request.selector /\ \A o \in Scope(r) : o.kind # "pods"
    THEN {"pod selector hint"} ELSE {}

-----------------------------------------------------------------------------
(* build_postgresql_monitoring_with_probe *)

\* matches_postgresql_name, _pod, _service, _pvc and _event
Matches(o) == o.pg # "none" \/ (o.kind = "services" /\ o.port)

\* The objects of one kind, or of the workload kinds, that the plugin found.
Found(r, kinds) ==
    {o \in Scope(r) : /\ o.kind \in kinds /\ Matches(o)
                      /\ o.ns \in r.request.postgresql_namespaces}

is_clear_postgresql_service(o) == o.pg = "clear" /\ o.port

clear_candidates(r) == {o \in Found(r, {"services"}) : is_clear_postgresql_service(o)}

ready_pods(r) == {o \in Found(r, {"pods"}) : o.running}

service_ports(r) == {o \in Found(r, {"services"}) : o.port}

\* Mutant of status: the pods are taken for proof of a server that answers.
StatusWithoutProbe(r) ==
    IF Cardinality(clear_candidates(r)) > 1 THEN "unknown"
    ELSE IF clear_candidates(r) # {}
    THEN IF ready_pods(r) # {} /\ service_ports(r) # {} /\ Found(r, {"pvcs"}) # {}
         THEN "healthy" ELSE "warning"
    ELSE IF Found(r, Kind \ {"events"}) # {} THEN "warning"
    ELSE IF Found(r, {"events"}) = {} THEN "critical" ELSE "unknown"

status(r) ==
    IF Cardinality(clear_candidates(r)) > 1 THEN "unknown"
    ELSE IF clear_candidates(r) # {}
    THEN IF /\ ready_pods(r) # {} /\ service_ports(r) # {} /\ Found(r, {"pvcs"}) # {}
            /\ r.probe = "connected"
         THEN "healthy" ELSE "warning"
    ELSE IF Found(r, Kind \ {"events"}) # {} THEN "warning"
    ELSE IF Found(r, {"events"}) = {} THEN "critical" ELSE "unknown"

\* The live probe was skipped for want of one clear Service, or it failed.
ProbeMissing(r) ==
    \/ clear_candidates(r) = {} /\ Found(r, {"services"}) # {}
    \/ Cardinality(clear_candidates(r)) > 1
    \/ r.probe = "failed"

missing_data(r) ==
    {what \in {"live probe"} : ProbeMissing(r)}
    \cup {what \in {"workload discovery"} : Found(r, Workload) = {}}
    \cup {k \in {"pods", "services", "pvcs", "events"} : Found(r, {k}) = {}}

\* Mutant of diagnosis: only the hints keep it from taking the status over.
DiagnosisByHintsOnly(r) ==
    IF r.request.ns = "" THEN "unknown"
    ELSE IF hint_missing_data(r) # {} THEN "unknown" ELSE status(r)

\* diagnose_postgresql with diagnostic_report_error and _from_plugin
diagnosis(r) ==
    IF r.request.ns = "" THEN "unknown"
    ELSE IF missing_data(r) \cup hint_missing_data(r) # {} THEN "unknown" ELSE status(r)

\* The plugin looks at the lists; it probes when there is one clear Service.
BuildPostgresql ==
    /\ round.tasks = {}
    /\ \/ round.pc = "logs"
       \/ round.pc = "scrape" /\ IsDiagnosis(round)
    /\ round' = [round EXCEPT !.pc = IF Cardinality(clear_candidates(round)) = 1
                                     THEN "settings" ELSE "done"]
    /\ UNCHANGED <<world, server>>

-----------------------------------------------------------------------------
(* probe_postgresql_service *)

\* resolve_postgresql_probe_settings: the defaults, overridden by the Secret,
\* overridden by the configuration.
resolve_settings(secret, config) ==
    [f \in Field |-> IF f \in config THEN "config"
                     ELSE IF f \in secret THEN "secret" ELSE "default"]

uses_tls(settings) == settings["sslmode"] \in Tls

Probed(result) == [round EXCEPT !.pc = "done", !.probe = result]

\* load_secret_string_data: a Secret that cannot be read has no fields.
\* build_tls_connector may refuse the certificate.
ResolveSettings(secret) ==
    LET settings == resolve_settings(secret, round.request.config) IN
    /\ round.pc = "settings"
    /\ secret # {} => round.request.secret
    /\ round' = IF uses_tls(settings) /\ settings["sslrootcert"] \in BadCert
                THEN [Probed("failed") EXCEPT !.settings = settings]
                ELSE [round EXCEPT !.pc = "connect", !.settings = settings]
    /\ UNCHANGED <<world, server>>

\* probe_with_tls and probe_without_tls: connect, then SELECT 1, each under a
\* timeout of 4 seconds.
Connect ==
    /\ round.pc = "connect" /\ server = "up"
    /\ round' = [round EXCEPT !.pc = "query"]
    /\ UNCHANGED <<world, server>>

Query ==
    /\ round.pc = "query" /\ server = "up"
    /\ round' = Probed("connected")
    /\ UNCHANGED <<world, server>>

\* Refused, unresolved, not authenticated, or the connection is lost.
ProbeFails ==
    /\ round.pc \in {"connect", "query"} /\ server # "silent"
    /\ round' = Probed("failed")
    /\ UNCHANGED <<world, server>>

\* Mutant of ProbeTimesOut: the probe starts over until it is answered.
ProbeTimeoutRetries ==
    /\ round.pc \in {"connect", "query"}
    /\ round' = [round EXCEPT !.pc = "connect"]
    /\ UNCHANGED <<world, server>>

ProbeTimesOut ==
    /\ round.pc \in {"connect", "query"}
    /\ round' = Probed("failed")
    /\ UNCHANGED <<world, server>>

-----------------------------------------------------------------------------
(* The cluster *)

MayChange == round.pc \notin {"done", "aborted"} /\ round.changes < MaxChanges

\* An object appears, or takes the place of an older version of itself.
Put(o) ==
    LET older == {p \in world : SameObject(o, p)} IN
    /\ MayChange /\ o \notin world
    /\ world' = (world \ older) \cup {o}
    /\ round' = [round EXCEPT !.changes = round.changes + 1,
                              !.existed = round.existed \cup {o},
                              !.steady = round.steady \ older]
    /\ UNCHANGED server

Remove(o) ==
    /\ MayChange /\ o \in world
    /\ world' = world \ {o}
    /\ round' = [round EXCEPT !.changes = round.changes + 1,
                              !.steady = round.steady \ {o}]
    /\ UNCHANGED server

ServerTurns(s) ==
    /\ MayChange /\ s # server
    /\ server' = s
    /\ round' = [round EXCEPT !.changes = round.changes + 1,
                              !.served = round.served \/ s = "up"]
    /\ UNCHANGED world

\* Any time passes until the next round, in a new process after an abort.
NextRound(w, request) ==
    /\ round.pc \in {"done", "aborted"}
    /\ world' = w
    /\ round' = Begin(w, server, request)
    /\ UNCHANGED server

RoundStep ==
    \/ \E k \in List : ListReturns(k) \/ ListFails(k)
    \/ SpawnScrapes
    \/ \E o \in Object, r \in Response : ScrapeEnds(o, r) \/ ScrapeAborts(o, r)
    \/ SpawnLogReads
    \/ \E o \in Object, read \in BOOLEAN : LogReadEnds(o, read)
    \/ BuildPostgresql
    \/ \E secret \in Secrets \cup {{}} : ResolveSettings(secret)
    \/ Connect \/ Query \/ ProbeFails \/ ProbeTimesOut

Next ==
    \/ RoundStep
    \/ \E o \in Object : Put(o) \/ Remove(o)
    \/ \E s \in Server : ServerTurns(s)
    \/ \E w \in Worlds, request \in Request : NextRound(w, request)

Spec == Init /\ [][Next]_vars

\* Lists, scrapes and log reads end (each client has a timeout) and the
\* timer of the probe fires.  Nothing makes a server answer.
FairSpec == Spec /\ WF_vars(RoundStep)

-----------------------------------------------------------------------------
(* Properties *)

\* The PostgreSQL plugin is part of what the round reports.
Judged == round.pc = "done" /\ round.request.postgresql_namespaces # {}

Verdict == IF IsDiagnosis(round) THEN diagnosis(round) ELSE status(round)

\* In a namespace the round was asked about, and PostgreSQL's by its name.
Relevant(k) ==
    {o \in round.existed : /\ o.kind = k /\ Matches(o)
                           /\ o.ns \in round.request.postgresql_namespaces}

\* "healthy" is never made up: a running pod, a PVC and a clear Service of
\* the namespaces in question existed in the course of this round, their
\* lists succeeded, and the server was up at some time of it, whatever
\* changed between the lists and the probe (status and soft_unwrap).
HealthyIsEarned ==
    Judged /\ Verdict = "healthy" =>
        /\ \E o \in Relevant("pods") : o.running
        /\ Relevant("pvcs") # {}
        /\ \E o \in Relevant("services") : is_clear_postgresql_service(o)
        /\ {"pods", "services", "pvcs"} \cap round.failed = {}
        /\ round.served

\* A diagnosis that says more than "unknown" rests on everything it was asked
\* to look at: the lists of pods, Services, PVCs and events and one that had
\* a workload of the database succeeded, each hint named an object that
\* existed, the server was up, and there was an event to read.  So it is never
\* "critical" (diagnostic_report_from_plugin, scope_postgresql_diagnostic).
DiagnosisRestsOnEverything ==
    Judged /\ IsDiagnosis(round) /\ diagnosis(round) # "unknown" =>
        /\ diagnosis(round) \in {"healthy", "warning"}
        /\ {"pods", "services", "pvcs", "events"} \cap round.failed = {}
        /\ round.served
        /\ Relevant("events") # {}
        /\ \E k \in Workload \ round.failed : Relevant(k) # {}
        /\ round.request.service # 0 =>
               \E o \in Relevant("services") : o.name = round.request.service
        /\ round.request.selector => \E o \in Relevant("pods") : o.hinted

\* MAX_EVENTS newer events were there in the course of the round.
PushedOut(o) == o.kind = "events" /\ Cardinality(Newer(round.existed, o)) >= MAX_EVENTS

\* What was there throughout the round and whose list succeeded is reported,
\* whatever else changed or failed: an annotated Service is among the
\* targets, an object of a kind that has signals among those, and anything of
\* PostgreSQL's keeps the status from "critical".  An event is left out only
\* for MAX_EVENTS newer ones, of whatever namespace (collect,
\* collect_app_metrics, build_workload_monitoring).
SteadyIsSeen ==
    round.pc = "done" /\ ~IsDiagnosis(round) =>
        \A o \in round.steady :
            o.kind \in List \ round.failed /\ ~PushedOut(o) =>
                /\ o.kind = "services" /\ o.scrape
                   /\ o.ns \in round.request.metrics_namespaces
                       => \E t \in round.targets : t.service = o
                /\ o.kind # "pvcs" /\ o.ns \in round.request.workload_namespaces
                       => o \in workload_monitoring(round)
                /\ o.ns \in round.request.postgresql_namespaces /\ Matches(o)
                       => status(round) # "critical"

\* A target that counts as ok is not cut short by the cap: the Service meant
\* the answer as a success, something is shown, and every allowlisted sample
\* without white space in its labels is (scrape_app_metrics_target).  Samples
\* with white space are lost or misread all the same, see SamplesAreTheirs.
OkIsWhole ==
    \A target \in round.targets :
        target.status = "ok" =>
            /\ target.response.success
            /\ target.samples # {}
            /\ \A i \in 1 .. Len(target.response.body) :
                   target.response.body[i] = "sample" => i \in target.samples

\* What makes these inductive.  What the lists have shown existed, and what
\* exists is known to have existed.
SeenExisted ==
    /\ round.seen \subseteq round.existed
    /\ world \subseteq round.existed
    /\ round.steady \subseteq world

\* A list that failed, or is still to come, has shown nothing; one that
\* returned has shown what was there throughout and was not pushed out.
ListsAreHonest ==
    /\ round.failed \cap round.pending = {}
    /\ \A o \in round.seen : o.kind \notin round.failed \cup round.pending
    /\ \A o \in round.steady :
           o.kind \in List \ (round.pending \cup round.failed)
               => o \in round.seen \/ PushedOut(o)

\* A probe that connected did so in this round, and one clear Service is not
\* left without a probe.
ProbeIsHonest ==
    /\ server = "up" \/ round.probe = "connected" => round.served
    /\ round.pc = "done" /\ Cardinality(clear_candidates(round)) = 1
           => round.probe # "none"

Refused == IsDiagnosis(round) /\ round.request.ns = ""

\* A target is being scraped or was scraped.
TargetsAccounted ==
    /\ round.pc = "list" \/ Refused \/ round.pending = {}
    /\ round.pc \in {"list", "aborted"} \/ Refused \/
           \A o \in ScrapeTargets :
               \/ round.pc = "scrape" /\ o \in round.tasks
               \/ \E t \in round.targets : t.service = o

RoundInv == TypeOK /\ SeenExisted /\ ListsAreHonest /\ ProbeIsHonest
                   /\ TargetsAccounted /\ OkIsWhole

\* A round comes to its end, or the process does: neither a Service nor a
\* server that never answers can hold it.
RoundEnds == round.pc \notin {"done", "aborted"} ~> round.pc \in {"done", "aborted"}

\* README.md:409: "Plugin block is fail-soft"; collect_app_metrics has an arm
\* for a task that failed.  Both say that a scrape does not end the process.
ScrapeIsFailSoft == round.pc # "aborted"

\* SPEC.md:428, of metrics_count: "sample count after filtering", and SPEC.md:436,
\* of value: "numeric sample value".  So every allowlisted sample counts, and
\* the value shown is its own.
SamplesAreTheirs ==
    \A target \in round.targets :
        LET body == target.response.body
            exposed == {i \in 1 .. Len(body) : body[i] \in {"sample", "spaced", "misread"}}
        IN  target.response.arrives /\ target.response.fits =>
                /\ target.matched = Cardinality(exposed)
                /\ \A i \in target.samples : body[i] # "misread"

\* README.md:362, of Secret and environment: "Env vars fill gaps."  SPEC.md:70
\* has the Secret first as well.  So once the Secret was read, its fields count.
SecretFirst ==
    (\E f \in Field : round.settings[f] = "secret") =>
        \E secret \in Secrets : \A f \in secret : round.settings[f] = "secret"
=============================================================================
