--------------------------- MODULE TetragonStreams ---------------------------
(***************************************************************************)
(* The Tetragon streams of an agent pod (tetragon.rs): a manager task that *)
(* discovers endpoints and keeps one stream task per endpoint, or one for  *)
(* the fallback address, the table of streams they share behind a mutex,   *)
(* and the readiness flag in health.rs that each change refreshes.         *)
(*                                                                         *)
(* What happens under one lock is a step.  refresh_health counts under the *)
(* lock and stores after it, two steps, so refreshes of different threads  *)
(* overlap.  An aborted task runs on to its next await, which it reaches   *)
(* before the next discovery is answered.  The buffer of event lines and   *)
(* the metrics are left out.                                               *)
(***************************************************************************)
EXTENDS Naturals, FiniteSets

CONSTANTS Address,            \* endpoint addresses, the keys of their streams
          Fallback,           \* FALLBACK_STREAM_KEY
          MaxEndpoints,       \* MAX_DISCOVERED_ENDPOINTS
          DiscoveryEnabled,   \* TETRAGON_ENDPOINT_DISCOVERY_ENABLED
          Required            \* dependency_required

ASSUME TetragonAssumption ==
    /\ IsFiniteSet(Address)
    /\ Fallback \notin Address
    /\ MaxEndpoints \in Nat \ {0}
    /\ DiscoveryEnabled \in BOOLEAN
    /\ Required \in BOOLEAN

VARIABLES endpoints,   \* ready addresses in the EndpointSlices
          streams,     \* key -> its entry in ManagerState
          task,        \* key -> its stream task
          manager,     \* run_manager
          ready,       \* DEPENDENCY_READY
          late,        \* history: the flag was last stored by an overtaken refresh
          calm         \* endpoints stay and discovery answers from now on

vars == <<endpoints, streams, task, manager, ready, late, calm>>

Key == Address \cup {Fallback}

Entry == {"absent", "waiting", "connected"}

\* refresh is where an actor stands in refresh_health: "count" and "store"
\* are still to come; counted is what it has seen, and overtaken (history)
\* that another refresh has counted since.
Refreshing == {"no", "count", "store"}

\* "up" and "down" lie between two awaits: set_stream_connected is called.
StreamTask == [pc      : {"none", "connect", "up", "streaming", "down", "sleep"},
               aborted : BOOLEAN,
               refresh : Refreshing,
               counted : Nat,
               overtaken : BOOLEAN]

Manager == [pc      : {"discover", "remove", "abort", "spawn", "register", "stopped"},
            first   : BOOLEAN,         \* no discovery has ended yet
            stale   : SUBSET Key,      \* streams to remove
            fresh   : SUBSET Key,      \* streams to spawn
            key     : Key,             \* the stream at hand
            refresh : Refreshing,
            counted : Nat,
            overtaken : BOOLEAN]

TypeOK ==
    /\ endpoints \in SUBSET Address
    /\ streams \in [Key -> Entry]
    /\ task \in [Key -> StreamTask]
    /\ manager \in Manager
    /\ ready \in BOOLEAN
    /\ late \in BOOLEAN
    /\ calm \in BOOLEAN

NoTask == [pc |-> "none", aborted |-> FALSE, refresh |-> "no", counted |-> 0,
           overtaken |-> FALSE]

\* init: ready at once only if the dependency is not required; run_manager
\* without discovery goes straight to the fallback stream.
Init ==
    /\ endpoints \in SUBSET Address
    /\ streams = [k \in Key |-> "absent"]
    /\ task = [k \in Key |-> NoTask]
    /\ manager = [pc |-> IF DiscoveryEnabled THEN "discover" ELSE "spawn",
                  first |-> TRUE, stale |-> {},
                  fresh |-> IF DiscoveryEnabled THEN {} ELSE {Fallback},
                  key |-> Fallback, refresh |-> "no", counted |-> 0,
                  overtaken |-> FALSE]
    /\ ready = ~Required
    /\ late = FALSE
    /\ calm = FALSE

-----------------------------------------------------------------------------
(* refresh_health *)

Tracked == {k \in Key : streams[k] # "absent"}
Connected == {k \in Key : streams[k] = "connected"}

\* coverage_snapshot, under the lock.
Count(actor) == [actor EXCEPT !.refresh = "store", !.counted = Cardinality(Connected)]

Overtaken(actor) == [actor EXCEPT !.overtaken = (actor.refresh = "store")]

\* set_dependency_ready, after the lock.
Stored(actor) == ~Required \/ actor.counted > 0

-----------------------------------------------------------------------------
(* The manager *)

\* Mutant of Discovered: the cap is tested after the insertion.
DiscoveredOneMore ==
    {S \in SUBSET endpoints :
        Cardinality(S) = IF Cardinality(endpoints) <= MaxEndpoints + 1
                         THEN Cardinality(endpoints) ELSE MaxEndpoints + 1}

\* What a discovery finds: the ready addresses, up to the cap.
Discovered ==
    {S \in SUBSET endpoints :
        Cardinality(S) = IF Cardinality(endpoints) <= MaxEndpoints
                         THEN Cardinality(endpoints) ELSE MaxEndpoints}

\* Mutant of FallbackNeeded: an empty answer is no reason for the fallback.
NoFallback == {}

\* Nothing was found, or discovery failed: streams are kept as they are, and
\* the fallback is used when there is none.
FallbackNeeded == IF Tracked = {} THEN {Fallback} ELSE {}

NothingFound ==
    manager' = [manager EXCEPT !.pc = "spawn", !.first = FALSE,
                               !.stale = {}, !.fresh = FallbackNeeded]

\* Streams of addresses that are gone, and the fallback.
Stale(S) == Tracked \ S

\* discover_and_reconcile with an answer.
Discover(S) ==
    /\ manager.pc = "discover"
    /\ \A k \in Key : ~task[k].aborted
    /\ S \in Discovered
    /\ IF S = {} THEN NothingFound
       ELSE manager' = [manager EXCEPT !.pc = "remove", !.first = FALSE,
                                       !.stale = Stale(S),
                                       !.fresh = S \ Tracked]
    /\ UNCHANGED <<endpoints, streams, task, ready, late, calm>>

DiscoverFails ==
    /\ manager.pc = "discover"
    /\ \A k \in Key : ~task[k].aborted
    /\ ~calm
    /\ NothingFound
    /\ UNCHANGED <<endpoints, streams, task, ready, late, calm>>

\* Mutant of RemoveStream: the flag is not refreshed.
RemoveStreamSilently(k) ==
    /\ manager.pc = "remove"
    /\ k \in manager.stale
    /\ k = Fallback => manager.stale = {Fallback}
    /\ streams' = [streams EXCEPT ![k] = "absent"]
    /\ manager' = [manager EXCEPT !.pc = "abort", !.key = k,
                                  !.stale = manager.stale \ {k}]
    /\ UNCHANGED <<endpoints, task, ready, late, calm>>

\* remove_stream; the fallback goes last.
RemoveStream(k) ==
    /\ manager.pc = "remove"
    /\ k \in manager.stale
    /\ k = Fallback => manager.stale = {Fallback}
    /\ streams' = [streams EXCEPT ![k] = "absent"]
    /\ manager' = [manager EXCEPT !.pc = "abort", !.key = k,
                                  !.stale = manager.stale \ {k}, !.refresh = "count"]
    /\ UNCHANGED <<endpoints, task, ready, late, calm>>

\* Mutant of Abort: the entry is dropped and its task left to itself.
AbortForgotten(k) == task

\* active.store(false) and handle.abort(): a task at an await is gone, one
\* that is running goes on until its next one.
Abort(k) ==
    [task EXCEPT ![k] = IF task[k].pc \in {"connect", "streaming", "sleep"}
                        THEN NoTask ELSE [task[k] EXCEPT !.aborted = TRUE]]

AbortStream ==
    /\ manager.pc = "abort"
    /\ manager.refresh = "no"
    /\ task' = Abort(manager.key)
    /\ manager' = [manager EXCEPT !.pc = "remove"]
    /\ UNCHANGED <<endpoints, streams, ready, late, calm>>

RemovedAll ==
    /\ manager.pc = "remove"
    /\ manager.stale = {}
    /\ manager' = [manager EXCEPT !.pc = "spawn"]
    /\ UNCHANGED <<endpoints, streams, task, ready, late, calm>>

\* spawn_stream: the task runs before its entry is in the table.
SpawnStream(k) ==
    /\ manager.pc = "spawn"
    /\ manager.refresh = "no"
    /\ k \in manager.fresh
    /\ task' = [task EXCEPT ![k] = [NoTask EXCEPT !.pc = "connect"]]
    /\ manager' = [manager EXCEPT !.pc = "register", !.key = k,
                                  !.fresh = manager.fresh \ {k}]
    /\ UNCHANGED <<endpoints, streams, ready, late, calm>>

RegisterStream ==
    /\ manager.pc = "register"
    /\ streams' = [streams EXCEPT ![manager.key] = "waiting"]
    /\ manager' = [manager EXCEPT !.pc = "spawn", !.refresh = "count"]
    /\ UNCHANGED <<endpoints, task, ready, late, calm>>

\* Mutant of SpawnedAll: the manager returns after its first discovery.
SpawnedAllReturns ==
    /\ manager.pc = "spawn"
    /\ manager.refresh = "no"
    /\ manager.fresh = {}
    /\ manager' = [manager EXCEPT !.pc = "stopped"]
    /\ UNCHANGED <<endpoints, streams, task, ready, late, calm>>

SpawnedAll ==
    /\ manager.pc = "spawn"
    /\ manager.refresh = "no"
    /\ manager.fresh = {}
    /\ manager' = [manager EXCEPT !.pc = IF DiscoveryEnabled THEN "discover" ELSE "stopped"]
    /\ UNCHANGED <<endpoints, streams, task, ready, late, calm>>

ManagerCounts ==
    /\ manager.refresh = "count"
    /\ manager' = Count(manager)
    /\ task' = [k \in Key |-> Overtaken(task[k])]
    /\ UNCHANGED <<endpoints, streams, ready, late, calm>>

ManagerStores ==
    /\ manager.refresh = "store"
    /\ ready' = Stored(manager)
    /\ late' = manager.overtaken
    /\ manager' = [manager EXCEPT !.refresh = "no", !.counted = 0, !.overtaken = FALSE]
    /\ UNCHANGED <<endpoints, streams, task, calm>>

-----------------------------------------------------------------------------
(* A stream task: run_stream and connect_and_stream *)

\* The channel is open, the policy ensured and get_events answered.
StreamOpens(k) ==
    /\ task[k].pc = "connect"
    /\ task' = [task EXCEPT ![k].pc = "up"]
    /\ UNCHANGED <<endpoints, streams, manager, ready, late, calm>>

\* Any of the three fails, or the stream ends, with or without an error.
StreamEnds(k) ==
    /\ task[k].pc \in {"connect", "streaming"}
    /\ task' = [task EXCEPT ![k].pc = "down"]
    /\ UNCHANGED <<endpoints, streams, manager, ready, late, calm>>

\* The next await after set_stream_connected; an aborted task ends there.
Resume(k) ==
    IF task[k].aborted THEN NoTask
    ELSE [task[k] EXCEPT !.pc = IF task[k].pc = "up" THEN "streaming" ELSE "sleep",
                         !.refresh = "no", !.counted = 0, !.overtaken = FALSE]

\* Mutant of EntryAfter: the end of a stream is not recorded.
EntryOnlyUp(k) == IF task[k].pc = "up" THEN "connected" ELSE streams[k]

EntryAfter(k) == IF task[k].pc = "up" THEN "connected" ELSE "waiting"

\* set_stream_connected: without an entry it does nothing.
SetStreamConnected(k) ==
    /\ task[k].pc \in {"up", "down"}
    /\ task[k].refresh = "no"
    /\ IF streams[k] = "absent"
       THEN /\ task' = [task EXCEPT ![k] = Resume(k)]
            /\ UNCHANGED streams
       ELSE /\ task' = [task EXCEPT ![k].refresh = "count"]
            /\ streams' = [streams EXCEPT ![k] = EntryAfter(k)]
    /\ UNCHANGED <<endpoints, manager, ready, late, calm>>

TaskCounts(k) ==
    /\ task[k].refresh = "count"
    /\ task' = [j \in Key |-> IF j = k THEN Count(task[k]) ELSE Overtaken(task[j])]
    /\ manager' = Overtaken(manager)
    /\ UNCHANGED <<endpoints, streams, ready, late, calm>>

TaskStores(k) ==
    /\ task[k].refresh = "store"
    /\ ready' = Stored(task[k])
    /\ late' = task[k].overtaken
    /\ task' = [task EXCEPT ![k] = Resume(k)]
    /\ UNCHANGED <<endpoints, streams, manager, calm>>

\* STREAM_RECONNECT_DELAY_SECS later the loop begins again.
Reconnect(k) ==
    /\ task[k].pc = "sleep"
    /\ task' = [task EXCEPT ![k].pc = "connect"]
    /\ UNCHANGED <<endpoints, streams, manager, ready, late, calm>>

-----------------------------------------------------------------------------
(* The cluster *)

EndpointsChange(S) ==
    /\ ~calm
    /\ S # endpoints
    /\ endpoints' = S
    /\ UNCHANGED <<streams, task, manager, ready, late, calm>>

Calm ==
    /\ ~calm
    /\ calm' = TRUE
    /\ UNCHANGED <<endpoints, streams, task, manager, ready, late>>

ManagerStep ==
    \/ \E S \in SUBSET Address : Discover(S)
    \/ DiscoverFails
    \/ \E k \in Key : RemoveStream(k) \/ SpawnStream(k)
    \/ AbortStream \/ RemovedAll \/ RegisterStream \/ SpawnedAll
    \/ ManagerCounts \/ ManagerStores

\* The steps between two awaits.
RunningStep(k) == SetStreamConnected(k) \/ TaskCounts(k) \/ TaskStores(k)

Next ==
    \/ ManagerStep
    \/ \E k \in Key : StreamOpens(k) \/ StreamEnds(k) \/ RunningStep(k) \/ Reconnect(k)
    \/ \E S \in SUBSET Address : EndpointsChange(S)
    \/ Calm

Spec == Init /\ [][Next]_vars

\* Threads run; whether connections come about is left open.
FairSpec ==
    /\ Spec
    /\ WF_vars(ManagerStep)
    /\ \A k \in Key : WF_vars(RunningStep(k))

-----------------------------------------------------------------------------
(* Properties *)

\* No connection is left over: a stream task is in the table, or the
\* manager is just about to register or to abort it, or it is aborted and
\* ends at its next await (discover_and_reconcile, spawn_stream).
NoOrphanTask ==
    \A k \in Key : task[k].pc # "none" =>
        \/ streams[k] # "absent"
        \/ manager.pc \in {"register", "abort"} /\ manager.key = k
        \/ task[k].aborted

\* An entry that counts as connected belongs to a task whose stream is open
\* or whose end it is about to record (coverage_snapshot).
ConnectedIsStreaming ==
    \A k \in Connected :
        \/ task[k].pc \in {"up", "streaming"}
        \/ task[k].pc = "down" /\ task[k].refresh = "no"

\* Between two discoveries there is always some stream, if only to the
\* fallback address, whatever the discoveries before have found.
AlwaysSomeStream ==
    manager.pc = "discover" /\ ~manager.first => Tracked # {}

\* The agent never tracks more streams than the cap of a discovery allows,
\* also while it replaces the streams of one answer by those of the next.
StreamsCapped == Cardinality(Tracked) <= MaxEndpoints

\* Once the endpoints stay and discovery answers, the streams come to be
\* those of the endpoints, and the fallback is gone.
StreamsFollowEndpoints ==
    [](calm /\ DiscoveryEnabled /\ Cardinality(endpoints) \in 1 .. MaxEndpoints =>
           <>[](Tracked = endpoints))

\* No refresh is under way.
AtRest ==
    /\ manager.refresh = "no"
    /\ \A k \in Key : task[k].pc \notin {"up", "down"}

\* At rest the readiness flag says whether a stream is connected.  It is
\* wrong in one case only, after a refresh that was overtaken between its
\* count and its store has stored last; every change of the table is
\* followed by a refresh, so the next one puts it right (refresh_health).
WrongOnlyWhenOvertaken ==
    Required /\ AtRest /\ ~late => ready = (Connected # {})

\* What makes them inductive.  A task refreshes only between two awaits and
\* only there can an abort meet it running; an entry has a task; what the
\* manager is to spawn has neither, what it is to remove has an entry, and
\* the stream at hand has a task and no entry.
TasksMatch ==
    \A k \in Key :
        /\ task[k].refresh # "no" \/ task[k].aborted => task[k].pc \in {"up", "down"}
        /\ streams[k] # "absent" => task[k].pc # "none" /\ ~task[k].aborted
        /\ k \in manager.fresh => streams[k] = "absent" /\ task[k].pc = "none"
        /\ k \in manager.stale => streams[k] # "absent"
        /\ manager.pc \in {"abort", "register"} /\ manager.key = k =>
               streams[k] = "absent" /\ task[k].pc # "none" /\ ~task[k].aborted

\* The streams there will be when the manager has done what it is about to.
Promised ==
    (Tracked \ manager.stale) \cup manager.fresh
        \cup (IF manager.pc = "register" THEN {manager.key} ELSE {})

PromiseKept ==
    /\ manager.pc \notin {"remove", "abort"} => manager.stale = {}
    /\ manager.pc = "discover" => manager.fresh = {}
    /\ Promised = {} => manager.pc = "discover" /\ manager.first
    /\ Cardinality(Promised) <= MaxEndpoints
    /\ StreamsCapped

\* Only who has counted and not stored can be overtaken; the manager
\* refreshes before it goes on.
RefreshInOrder ==
    /\ manager.refresh # "no" => manager.pc \in {"abort", "spawn"}
    /\ manager.overtaken => manager.refresh = "store"
    /\ \A k \in Key : task[k].overtaken => task[k].refresh = "store"

\* Nobody has counted since.
Latest(actor) == actor.refresh = "store" /\ ~actor.overtaken

Exact(actor) == Latest(actor) => (actor.counted > 0 <=> Connected # {})

\* Somebody is about to count, or the latest count is right, and it is about
\* to be stored or has been.
FlagFollows ==
    Required =>
        \/ manager.refresh = "count"
        \/ \E k \in Key : task[k].refresh = "count"
        \/ /\ Exact(manager)
           /\ \A k \in Key : Exact(task[k])
           /\ \/ Latest(manager) \/ \E k \in Key : Latest(task[k])
              \/ late
              \/ ready <=> Connected # {}

StreamsInv ==
    TasksMatch /\ NoOrphanTask /\ ConnectedIsStreaming /\ PromiseKept
        /\ RefreshInOrder /\ FlagFollows

\* README.md:519: "the agent readiness probe blocks the pod from becoming
\* Ready while dependency collection is enabled and Tetragon is not
\* connected" -- looked at when no refresh is under way.
NotReadyWhileDisconnected ==
    Required /\ AtRest /\ Connected = {} => ~ready

\* SPEC.md:907: connected_endpoints is the "Number of Tetragon endpoints
\* currently streaming successfully": what streams and is tracked counts.
StreamingIsCounted ==
    \A k \in Tracked : task[k].pc = "streaming" => k \in Connected
=============================================================================
