# Verification of the Sentinella Hub Kubernetes agent

TLA+ models of the agent's own logic (Rust, `src/src/*.rs`), TLC runs that
check them on small instances, and TLAPS proofs of the central safety
properties for every value of the constants. Every definition that models code
is tied to its lines in `PROJECT.json` ("map").

Run a check with `tlc -workers 2 -config X.cfg M` and a proof with
`tlapm M.tla`; `PROJECT.json` ("runs") says which module each `.cfg` is for.

## 1. Inventory

The agent is a DaemonSet: one process per node, of which one leads. With
`--mode operator` the same binary is the action operator, a Deployment that
the leader creates and removes.

| component | state | operations | interacts with | what makes it correct |
|---|---|---|---|---|
| leader election (`leader.rs`) | `is_leader`, the Lease | renew every third of the TTL, keep the state on errors | collector, lifecycle read `is_leader` | no two healthy leaders; bounded takeover |
| collector loop, snapshot sending (`main.rs`, `hub.rs`) | the send in progress | tick, collect, POST over routes and rounds | Hub | what counts as sent is in the Hub; delivery goes on |
| command loop (`main.rs`, `hub.rs`, `executor.rs`) | batch at hand, dedup table | poll, begin, execute, ack, exit | Hub, executor | at most once per process; every command answered |
| executor gate and actions (`executor.rs`) | the command being executed | dispatch, list policies, decide, dry run, patch, verify | policies written by the operator, RBAC | nothing is admitted on an old opt-in; results are honest |
| `drain_node` (`executor.rs`) | pods seen and evicted, deadline | get, list, cordon, evict, poll | kubelet, schedulers, controllers | ok means drained; refusals touch nothing; it ends |
| action policy model (`model.rs`, `operator.rs`) | spec, status, conditions | effective namespaces, readiness, freshness, limits | operator writes, executor reads | freshness and scope are decided alike on both sides |
| action operator (`operator.rs`) | lists of the pass at hand | list, bind each namespace, patch each status | API server, users | statuses are true to their time; RoleBindings follow labels |
| operator lifecycle (`operator_lifecycle.rs`) | last flag, watch position | GET, watch, tick, ensure, remove, label namespaces | ConfigMap, leadership | the workload follows the flag |
| Tetragon streams (`tetragon.rs`, `health.rs`) | table of streams, readiness flag | discover, spawn, abort, reconnect, refresh | EndpointSlices, `/readyz` | no orphan task, honest counts, some stream always |
| Tetragon buffer, dependency inventory (`tetragon.rs`, `collector.rs`) | buffered event lines | push, prune, copy, fold under caps | stream tasks push while a round reads | only the window is read; what is left out is counted |
| monitoring round (`collector.rs`, `plugins/mod.rs`) | lists, scrapes, logs, probe of the round at hand | list, scrape, read logs, resolve settings, probe, judge | API server, Services, the database | no verdict is made of what was not seen; a round ends |
| capability probes (`collector.rs`, `main.rs`) | answers of the round at hand | list each version, classify, report | API server, suppression table | missing data is explained, an outage is logged |
| warning suppression (`main.rs`) | table key -> time, count | report | collector and command loop | reminders come, no report is lost |
| `tech.rs`, `config.rs`, the `map_*` functions | none | match text, read the environment, copy fields | | not modelled, see section 8 |

What is hard here: lists read before they are acted upon (operator, gate,
drain, labels), several writers (overlapping operators, two leaders), lost
answers (patches, acks, snapshots), restarts with state in memory only (dedup
table, watch position), time (freshness, lease, deadline, suppression, window),
tasks that share a table or a buffer (Tetragon, suppression), and lists that
fail softly, so that what was not answered looks like what is not there. `PROJECT.json` ("hazards") lists each at
its line with the properties aimed at it.

## 2. Modules

| module | models | state and actions |
|---|---|---|
| `ActionPolicy` | policy spec, status, limits, freshness, and the decision | operators only; names are the functions of `model.rs`, `operator.rs`, `executor.rs` |
| `ActionOperator` | `run_action_operator` | `op[o]` is a pass: its locals, and as `pc` the API call it makes next; one action per call and one per failing call; users relabel, create, edit and delete; `lastOptIn` is history |
| `ActionGate` | `Executor::execute_inner`, the gate and the handlers; extends `ActionOperator`, so that both run against the same cluster | `exec[a]` is a command in execution; listing and deciding are two steps, patch and its answer come apart in `LivePatchUnconfirmed` |
| `CommandLoop` | `command_loop`, `dedup_begin/finish`, poll and ack | one loop per pod; the Hub redelivers what has no answer |
| `LeaderElection` | `run_leader_loop` | a Lease, one clock reading per call, `failed` while calls fail; the lease crate is external |
| `DrainNode` | `drain_node` | pods by name with the node they are on; one action per API call; others create, move and end pods |
| `OperatorLifecycle` | `run_operator_lifecycle` and its reconcile | the ConfigMap as a log of events, watches with a position, one action per API call; pods are `Agent`, the specification is `LifecycleSpec` |
| `TetragonStreams` | manager and stream tasks, `refresh_health` | a step is what happens under one lock or between two awaits |
| `CommandService` | what the agents promise the Hub | sessions: what each process has performed, and the answers the Hub has; the abstract specification of `CommandLoop` |
| `DependencyWindow` | `TetragonBuffer` and `collect_dependencies` | a push with its prune is a step under the lock; a round copies the buffer and folds it line by line while pushes go on |
| `MonitoringRound` | `collect`, `collect_app_metrics`, pod logs, both plugins, `diagnose_postgresql` | `round` holds the locals; one action per list, scrape, log read and call of the probe; cluster and server change in between |
| `CapabilityProbes` | `probe_pod_metrics`, `probe_snapshot_api` and the reports on them; extends `WarnSuppression`, the command loop uses the same table | one action per list and per report |
| `SnapshotSend` | `collector_loop`, `send_snapshot` | one POST with its answer is a step; pods are `Collector`, those that lead are `leading`, the specification is `SendSpec` |
| `WarnSuppression` | `WARN_SUPPRESSION` and its three users | a call holds the mutex: one step |
| `ActionGateProofs`, `CommandLoopProofs`, `LeaderElectionProofs` (with `SnapshotSend` and `OperatorLifecycle`, the two tasks that leadership gates), `DrainNodeProofs`, `TetragonStreamsProofs`, `DependencyWindowProofs`, `MonitoringRoundProofs`, `CapabilityProbesProofs` (with `WarnSuppression`) | theorems | extend the component's modules and TLAPS |
| `MC*` | instances for TLC | constants only |


Data is abstract throughout: a command is its kind and target, a quantity a
small number or "does not parse", an answer a class of status codes. Control is
complete: each handler's early returns, errors and order of calls are actions
or conjuncts. `Mutant of X` definitions are wrong variants of X; none is part
of a specification. They document which slip each property would catch.

## 3. Runs that pass

| run | instance | shows |
|---|---|---|
| `action_operator` | 2 operators, 2 namespaces, a policy that is never Ready | `OptOutConverges`: after overlapping and failing passes a namespace that opted out has no RoleBinding and is in no status (970000 states) |
| `action_gate` | 1 operator, 1 agent, 9 commands, 2 specs, clock to 1, window 0 | `EffectiveSince`, `OptOutBound`, `ResultHonest`, and `StaysForgotten`: only the label brings back a namespace that no list, status or RoleBinding speaks for (3.1 million states) |
| `command_loop` | 2 pods, a command and a self update, batches of 2, 1 crash | `AtMostOncePerProcess`, `AnswersAreReal`, `EveryCommandAnswered`, and `ImplementsService`: every process keeps to a session of `CommandService` (210000 states) |
| `leader_election` | 2 pods, TTL 6, skew 1, clock to 13 | `OneHealthyLeader`, `TakeoverBound` |
| `drain_node` | 2 drains (one forced), a managed, a bare and a DaemonSet pod | `OkMeansDrained`, `RefusalTouchesNothing`, `DrainEnds` |
| `operator_lifecycle` | 1 pod, 1 namespace, 3 configurations, 2 changes, deletions and expired versions | `Converges`: the workload follows the flag unless a leader has lost its place in the watch; `CaughtUpAgrees`: no event is skipped; `StaysInPlace`: only a change of the ConfigMap takes a cluster at rest out of place, not a tick, a restart, a stream that ends and is replayed; `OptOutHolds`: an opt-out that no pass under way has missed is not overwritten |
| `tetragon_streams` | 2 addresses, cap 1, and the fallback | `NoOrphanTask`, `ConnectedIsStreaming`, `StreamsCapped`, `AlwaysSomeStream`, `StreamsFollowEndpoints`, and `WrongOnlyWhenOvertaken`: at rest the readiness flag is right unless an older count has overtaken a newer one |
| `snapshot_send` | 1 pod, 2 routes, 3 rounds | `SentIsInHub`, `KeepsDelivering` |
| `dependency_window` | 3 addresses, buffer and line cap 3, 2 edges, fanout 1, counters to 3, window 1, clock to 3 and back by 1, 4 pushes | `WindowBound`, `PrunedWereOld`, `ReportedEdgesComplete`, `DropsAreCounted`, which counts lines (1.1 million states) |
| `monitoring_round` | 9 objects in 3 clusters, 6 requests, 7 answers of a Service, 1 change, 1 event, 2 samples | `HealthyIsEarned`, `DiagnosisRestsOnEverything`, `SteadyIsSeen`, `OkIsWhole`, `RoundEnds` (400000 states) |
| `capability_probes` | both capabilities and the command poll, 4 classes of answers, clock to 1, 3 reports per key | `MissingWasAbsent`, `EmptyIsExplained`, `OutageIsInTheLog`, `KeepsReminding`, `Accounted` (3.2 million states) |

`LifecycleLeaders.cfg` (with `MCOperatorLifecycle`) passes as well: two pods
that lead in turn, together or not at all, without a namespace and with one
change, for `Converges`, `StaysInPlace`, `CaughtUpAgrees` and
`CaughtUpIsAtRest` (240000 states). Type invariants are not listed in the runs:
each is part of a theorem, as is `BindingsWithinOptIn`, which holds on the same
instances.

Why the bounds are enough:

- `action_operator`: an opt-out is followed through lists, bindings and statuses
  of two passes at different points. The policy names no actions, so
  that it is never Ready and its status varies in the namespaces alone,
  which is what the property is about; Ready statuses, and edits that change
  a spec, are in `action_gate`.
  The mutant `StatusMerged`, whose statuses keep what they named, breaks the
  half about statuses.
- `action_gate`: a tick stands for a stretch of time just longer than the
  freshness window, so that with window 0 and clock 1 there are fresh and
  stale statuses, and an opt-out between list, status, gate and patch. Longer
  windows and skewed clocks are covered by the theorem `OptOutIsBounded`.
- `leader_election`: the clock runs past two leases; the renewal interval is
  2, so a lease can be renewed twice, lost and taken over. `RenewInterval`
  divides whole numbers where leader.rs:77 divides a duration: the unit of
  time is one that divides a third of the ttl.
- `command_loop`: with two commands and batches of two, a self update can be
  first or last of a batch and cut it short; one crash loses the table.
- `drain_node`: each class of `classify_pods_on_node` has a pod, and a drain
  polls at least twice.
- `operator_lifecycle`: on, off and back on, and a change of the exclude list;
  two pods are in `LifecycleLeaders.cfg`, any number of them in the theorems on
  `OperatorLifecycle`.
- `tetragon_streams`: two addresses and a cap of one make the cap bite; with
  the fallback, and a task that is aborted but still runs, several tasks write.
- `snapshot_send` has the code's own numbers of rounds and routes.

- `dependency_window`: four pushes into a buffer of three make it drop a line,
  three lines reach the line cap, three addresses exceed the edges and the
  fanout, and two lines of one edge saturate its counter. With the clock set
  back, a newer line stands in front of older ones.
- `monitoring_round`: a database with one Service, with two, and one that is
  hardly recognised; requests with and without hints, one refused; every class
  of line an exposition can have, those with white space in their labels and
  the ones that panic too, and three samples against a cap of two. An event
  elsewhere can push the database's out of a snapshot of one event. One
  change at any point of a round exchanges cluster or server.
- `capability_probes`: a tick is one suppression window, so that a report falls
  inside a window or at its end; three reports show a line, one held back and
  the line that sums up. Other windows need no run: the theorems on
  `WarnSuppression` and on the composition hold for every window.

`CHECK_DEADLOCK FALSE` appears for `CapabilityProbes` only, where clock and
reports run out.

## 4. Fairness

| specification | fairness | why |
|---|---|---|
| `ActionOperator!CalmSpec` | WF on a pass, restarts and the clock; faults stop with the clock | the loop ticks for ever, the Deployment restarts pods, and requests have timeouts |
| `CommandLoop!FairSpec` | WF on the loop and on restarts, faults bounded by `MaxCrashes` and as the module says | the loop sleeps 5 s and polls again; Kubernetes restarts containers |
| `DrainNode!FairSpec` | WF on the handler | requests end, sleeps are finite |
| `OperatorLifecycle!LifecycleFairSpec` | WF on the task, SF on stream events and ticks | `tokio::select!` picks branches at random, so a branch that is ready again and again is taken |
| `TetragonStreams!FairSpec` | WF on the manager and on what runs between awaits | threads run; that a connection succeeds is not assumed |
| `MonitoringRound!FairSpec` | WF on the steps of a round | each client has a timeout and the probe a timer of 4 s; that a server answers is not assumed |
| `SnapshotSend!SendFairSpec` | WF on the loop | the interval fires and requests have timeouts |

Where a liveness property needs a quiet environment the model has `calm` (in
`SnapshotSend` `steady`, elsewhere the end of the clock), a step that may come at any time; nothing is assumed
before it. Streams of a watch go on ending when it is calm, as the API server
ends them every few minutes.

### Refinement

`CommandLoop` implements `CommandService` (`ImplementsService`, checked by
`command_loop` and proved as `LoopImplementsService`). The abstract state is
what each agent has performed in its present session, mapped to the dedup
table's `completed`, and the Hub's answers; polls, batches, `running`, lost acks
and restarts stutter, a crash or an exit ends the session. What the refinement
says beyond the invariants is about order: a process answers with what it
performed itself and in this life, never with another pod's result or one from
before a crash, and a successful update of itself is the last thing it performs
or answers, whatever its batch still holds (the mutant `AfterAckFinishesBatch`
goes on with the batch). That the Hub keeps the first answer is assumed of the
Hub, in both modules.

`CapabilityProbes` is built from the actions of `WarnSuppression`: the lemma
`ProbesUseTable`, by which the theorems on the table carry over to it, holds by
that construction and is no claim about the code.

## 5. Disagreements between documents and code

One is a standing run, listed as a finding in `PROJECT.json`:

- `lifecycle_expired` (`RemovedWhenDisabled`): after 410 Gone the watch
  position is never reset, every later watch fails at once, and a change of
  the flag to `false` is not seen until the pod restarts.

The following were met while modelling. For each the module holds the
property, with the quotation in its comment, and the `.cfg` with which TLC
refutes it (a `.cfg` for several properties has all but the first commented out):

| config (module) | property | what the code does |
|---|---|---|
| `GateSelfUpdateServed` (`MCActionGate`) | `SelfUpdateServed` | `self_update` is gated on the agent's namespace, which is always excluded; only `update_agent` is exempt (executor.rs:1560), so that no policy ever admits it (SPEC.md:733) |
| `GateSelectorEnforced` (`MCActionGate`) | `SelectorEnforced` | `policy_matched` is the constant true (operator.rs:387): the selector is not enforced (SPEC.md:720) |
| `GateLabelRequired` (`MCActionGate`) | `LabelRequired` | the executor reads the status, never the label (README.md:165); `OptOutBound` is what holds |
| `LeaderTakeoverWithinTTL` (`LeaderElection`) | `TakeoverWithinTTL` | a follower waits up to one more renewal interval (README.md:30); `TakeoverBound` is what holds |
| `LeaderBelievesBriefly` (`LeaderElection`) | `BelievesBriefly` | `is_leader` stays true as long as calls fail (leader.rs:92-98, README.md:36) |
| `DrainDisagreements` (`MCDrainNode`) | `EvictsOnlyHere` | evictions carry no uid, so that a namesake on another node is evicted (executor.rs:1120, SPEC.md:796) |
| `DrainDisagreements` (`MCDrainNode`) | `RemainingWereEvicted` | pods are listed before the cordon; one that arrives in between fails the drain (executor.rs:1059, SPEC.md:795) |
| `LifecycleDeleted` (`MCOperatorLifecycle`) | `RemovedWhenDisabled` | a ConfigMap deleted while nobody watches leaves `last_enabled` at None and the workload in place (operator_lifecycle.rs:78) |
| `LifecycleOptOut` (`MCOperatorLifecycle`) | `OptOutRespected` | an opt-out between list and patch is overwritten (operator_lifecycle.rs:299, README.md:165); `OptOutHolds` is what holds |
| `TetragonDisagreements` (`MCTetragonStreams`) | `NotReadyWhileDisconnected` | `refresh_health` counts under the lock and stores after it; an older count stored last leaves the pod Ready without a stream (tetragon.rs:128); `WrongOnlyWhenOvertaken` is what holds |
| `TetragonDisagreements` (`MCTetragonStreams`) | `StreamingIsCounted` | a stream that opens before its entry is registered is never counted (tetragon.rs:357, SPEC.md:907) |
| `SnapshotDisagreements` (`SnapshotSend`) | `FailsAfterRetries` | a 5xx on one route and the 404 of the other end the send in the first round (hub.rs:137, SPEC.md:112) |
| `SnapshotDisagreements` (`SnapshotSend`) | `ThreeAttempts` | three rounds over two routes make up to six posts (README.md:282) |
| `CapabilityDisagreements` (`MCCapabilityProbes`) | `ChangeIsLogged` | the key lacks the state, so that a change within the window is held back (main.rs:388-391) |
| `CapabilityDisagreements` (`MCCapabilityProbes`) | `SnapshotsAreExplained` | the second list fails softly (collector.rs:1599) and the status stays ok, so that a snapshot without VolumeSnapshots is not told from a failure (model.rs:68-71); `EmptyIsExplained` is what holds |
| `DependencyCapDrops` (`MCDependencyWindow`) | `CapDropsAreReported` | a full buffer drops its oldest line and `truncated` stays false (tetragon.rs:447, SPEC.md:959-962) |
| `DependencyCapDrops` (`MCDependencyWindow`) | `DropsAreEdges` | `dropped_edges` counts the lines that a cap refused, two for two lines of one edge (collector.rs:929, 976-1008, SPEC.md:905); `DropsAreCounted` is what holds |
| `RoundDisagreements` (`MCMonitoringRound`) | `ScrapeIsFailSoft` | two slices of an exposition line can panic (collector.rs:625, 644), and the release build aborts on a panic (Cargo.toml:58, README.md:409) |
| `RoundDisagreements` (`MCMonitoringRound`) | `SecretFirst` | a setting from the environment takes the place of the Secret's (plugins/mod.rs:1321-1442, README.md:362, SPEC.md:70) |
| `RoundDisagreements` (`MCMonitoringRound`) | `SamplesAreTheirs` | a line is cut at white space before its labels are looked at: a sample with a space in a label value is not counted, or shows the word behind the space as its value (collector.rs:589-604, SPEC.md:428, 436); `OkIsWhole` is what holds |

Seen without a property of their own: the diagnosis of a healthy database
without events is "unknown", and none is ever "critical"
(`DiagnosisRestsOnEverything` says why); `sslmode` defaults to `disable`
(plugins/mod.rs:1333) where README.md:359 says `require`; `process_.*` in a
metrics allowlist is a prefix, not a pattern (README.md:501); `truncated_jobs`
is always false (collector.rs:226, SPEC.md:269); application metrics do not go
by the workload allowlist (README.md:302).

## 6. Proofs

All eight proof modules work for every value of the constants under the
`ASSUME`s of the component's module, which TLC evaluates in the runs.

- `ActionGateProofs`. `OptOutBound` says that a namespaced action is admitted
  at most `StaleAfter + 2 * MaxSkew` after its namespace last carried the
  label. It is not inductive: an admission rests on the status the gate has
  listed, that on the list of a pass, and that on the cluster at the time the
  pass took as its `now`. `GateInv` carries the fact along this chain:
  `HistoryExact` (what is opted in now has `lastOptIn = time`), `PassSince`
  (what a pass has listed was opted in at or after its `now`),
  `EffectiveSince` (so has every status), `SeenSince` (so has every status a
  gate has in hand), `BindingsWithinOptIn`, `OptOutBound`. The argument depends
  on `now` being read before the lists: the mutant `StatusStampedAtWrite`
  breaks it. Theorems: `TypeCorrect`, `GateInvariant`, `OptOutIsBounded`,
  `StatusesAreTrueToTheirTime`, `BindingsAreWithinOptIn`. `ResultHonest` has an
  invariant of its own, `HonestInv`: nothing is applied before the live patch,
  no dry run gets that far, and a mutating handler that verifies has patched;
  theorem `ResultsAreHonest`. `StaysForgotten` is the safety half of
  `OptOutConverges`: once a namespace is on no list of a pass, in no status, in
  no copy of a gate and without a RoleBinding (`Forgotten`), overlapping,
  failing and restarting passes cannot bring it back, and no command is
  admitted on it, before its label is set. The parts of `Forgotten` are kept
  together, one lemma for each, since bindings and statuses come from lists and
  copies from statuses; the status a pass has read may still name the
  namespace, and only its timestamp is used (the mutant `StatusMerged` uses
  more). Theorem `OnlyTheLabelBringsBack`.
- `CommandLoopProofs`. At most once per process rests on `LoopInv`: what has
  run in this process is in its dedup table (`RanIsKnown`), only the head of a
  batch is being executed (`OnlyHeadRuns`), and results in hand, in the table
  and at the Hub are those of executions (`ResultsAreReal`, `AnswersAreReal`).
  The refinement also needs `AcksItsOwn`: what is being acknowledged is the
  table's entry, and an update that succeeded is what is being acknowledged, so
  that nothing else can be begun behind it.
  Theorems: `LoopTypeCorrect`, `LoopInvariant`, `ExecutesAtMostOnce`,
  `HubKeepsRealAnswers`, and `LoopImplementsService`, whose step lemma maps each
  action under `LoopInv`.
- `LeaderElectionProofs`. "A leader holds the Lease" needs times: `LeaseInv`
  says that no call is overdue (`CallsOnTime`), that a leader whose calls are
  answered holds the Lease and calls again within an interval and the skew of
  its renewal (`LeaderRenewed`), and that a pod that found the Lease taken
  found it not yet expired (`FoundRenewed`). Nobody else can take the Lease
  before the leader's next call because of the assumption
  `2 * MaxSkew + RenewInterval <= LeaseTTL`, which the code meets by renewing at
  a third of the ttl as long as no clock is off by more than a third of it. The
  bound of a takeover came out
  tighter than the one first checked: the skew of one clock counts, not of two.
  Theorems: `TypeCorrect`, `LeaseInvariant`, `OneLeaderAtATime`, `TakeoverInTime`.
  The module also proves the two tasks that leadership gates, each for any
  change of leaders and under its own assumption. `SnapshotSend`:
  `SendInvariant`, where `PostsCounted` says that a send has posted once per
  route of the rounds before it, and `WhatIsSentArrived`. `OperatorLifecycle`:
  `CaughtUpAgrees` needs `VersionIsKnown`, that a pod whose version is the
  latest knows its value, for a watch starts behind that version; and
  `ReconcilesTheKnown`, that a reconcile works on what its pod knows
  (`LifecycleInv`; theorems `LifecycleInvariant`, `NoEventIsSkipped`). Deletions
  are left out of the claim where no stream of the pod could show them, which
  is the disagreement `LifecycleDeleted`. `StaysInPlace` is kept by every step but a change of the
  ConfigMap: at rest, reconciles under way do what is asked for and so will
  every pod, by what it knows and by every event its stream has yet to deliver
  or a new one repeats (`Harmless`; theorem `InPlaceForGood`, for any number of
  leaders). What a new stream repeats may only be deletions, and those the pod
  knows of (`ReplaysDeletions`). That rest is where a cluster gets to is
  `CaughtUpRests`: it is in place and all pods have caught up.
  `OptOutHolds` is
  such an action property as well (`SeenOptOutsHold`).
- `DrainNodeProofs`. `DrainInv` adds to the two properties the order of a drain
  (`InOrder`): a status comes at the end, nothing is touched before the cordon,
  and whoever evicts or polls has the node cordoned, so that no pod can be
  scheduled behind the poll that finds it empty. The node stays cordoned: the
  executor has no command to uncordon, and users who do are not modelled.
  Theorems: `DrainInvariant`, `OkIsDrained`, `RefusedIsUntouched`.
- `TetragonStreamsProofs`. `TasksMatch` relates table, tasks and the stream the
  manager has at hand; `PromiseKept` follows `Promised`, the streams there will
  be when the manager has done what it is about to, because the table alone is
  empty or short in the middle of a reconcile; `RefreshInOrder` and
  `FlagFollows` say that somebody is about to count, or the latest count that
  nobody has overtaken is right and about to be stored or stored, or an
  overtaken one came last. Theorems: `TypeCorrect`, `StreamsInvariant`,
  `NoTaskLeftOver`, `ConnectedMeansStreaming`, `SomeStreamAlways`,
  `NeverAboveCap`, `FlagWrongOnlyWhenOvertaken`, for every finite set of
  addresses.
- `DependencyWindowProofs`. Lines carry the wall clock at which they were
  pushed, which may be set back, and are pruned from the front only, so that
  "no line is older than the window" is false. `WindowInv` bounds the time
  stamps in terms of `now` and of the time set back so far, for the buffer and
  for the copy of a round. `DropsInv` carries the counts: a flow refused once
  stays refused (`RefusedForGood`), although the edge cap and the fanout cap
  fill at different times, because a full map admits no new edge and a full
  fanout no new target; so the lines left out are exactly those without an
  edge. With `SumsSoFar` it gives the sums: an edge that is new has had no line
  before. A sum is the number of `Units` (pairs of a line and a number up to
  what it adds), so that cardinality lemmas stand in for an induction. The
  proofs use `MAX_BUFFERED <= MAX_LINES`; both are 20000 (tetragon.rs:20,
  collector.rs:2641), and with a smaller line cap the lines behind it would be
  missing from edges that are reported. Theorems: `TypeCorrect`,
  `WindowInvariant`, `ReportsWithinWindow`, `OnlyOldIsPruned`, `DropsCounted`,
  `SumsInvariant`, `EdgesAreComplete`.
- `MonitoringRoundProofs`. `RoundInv` says what the locals of a round know:
  what was seen existed during the round (`SeenExisted`), a list that failed
  has shown nothing and one that succeeded everything that stayed, but for
  events that `MAX_EVENTS` newer ones pushed out (`ListsAreHonest`, with
  cardinality lemmas on `Newer`), a probe that succeeded met a server that was up
  (`ProbeIsHonest`), each scrape has its target or its task
  (`TargetsAccounted`), and `OkIsWhole`. PVCs are part of the PostgreSQL status
  but no signal of the workload plugin, which takes no storage. Theorems: `InvHolds`, `TypeCorrect`,
  `HealthyHolds`, `DiagnosisHolds`, `SteadyHolds`, `OkHolds`.
- `CapabilityProbesProofs`. On the table, `SuppressionInv` adds `LineIsEntry`:
  the table's time stamp is the time of the latest line; theorems
  `SuppressionInvariant`, `RemindersKeepComing`, `ReportsAreAccounted`. On the
  probes, `StatusesAreTrue` ties a status to the answer it
  was made from, `ReportsAreHeard` a reported status to the table's entry and
  its line. With `ProbesUseTable` they give `MissingHolds`, `EmptyHolds` and
  `OutagesAreLogged`; `ProbesAreReminded` and `ProbesAreAccounted` are the
  table's theorems carried over.

Each proof has one lemma for the initial states, one per action (or group of
actions) and a step lemma that splits `Next`; the theorems follow by PTL.

## 7. Only model-checked

Liveness (`OptOutConverges`, `EveryCommandAnswered`, `DrainEnds`, `Converges`,
`StreamsFollowEndpoints`, `KeepsDelivering`, `RoundEnds`): fairness and ENABLED
are out of TLAPS's reach. Every invariant that a passing run checks is
proved, and so are the refinement and the action properties, which need no
fairness. `ActionOperator` without the executor has
a liveness property only; its safety is part of `ActionGateProofs`. The safety
halves of `OptOutConverges` and `Converges` are theorems (`StaysForgotten`;
`CaughtUpAgrees` and `StaysInPlace`); that the states they start from are
reached is what TLC checks. No module has a RECURSIVE operator.

## 8. Not modelled

- `collector.rs`: the `map_*` functions, which copy the fields of an object
  into a row, and the sorting of rows. They keep nothing and call nothing, and
  a model of them would be their text.
- `plugins/mod.rs`: summaries and evidence of a diagnosis; what the name
  heuristics make of an object is a field of the object (`pg`, `hinted`).
- `tech.rs`: matching of image, label and command text against tables.
- `config.rs`: environment parsing; its values are constants here.
- The polls of `wait_for_rollout_completion`: one step that ends in
  ok or error.
- Metrics, logs, HTTP serving, wording of results and conditions, the installer
  and the generated gRPC code.
- The decimal parser of quantities (`parse_scaled_decimal`): a quantity is a
  number or does not parse.
- The growth of the dedup and suppression tables, which nothing prunes
  (executor.rs:2525, main.rs:374): keys are a finite set here.

## 9. Plan

Done: the core (policy, operator, gate), command loop with its abstract
specification, leader election, drain, operator lifecycle, Tetragon streams and
buffer, dependency inventory, monitoring round with the plugins, capability
probes, snapshot sending, suppression; proofs of all safety properties that the
runs check. Next, in this order:

1. `RolloutVerify`: `wait_for_rollout_completion` and the verify functions
   against a workload that changes, as the detail of `ActionGate!Verify`.
2. The quantity parser against a reference definition over bounded inputs.
