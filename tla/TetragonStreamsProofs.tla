----------------------- MODULE TetragonStreamsProofs -----------------------
(***************************************************************************)
(* For every set of addresses and every cap: however stream tasks, the     *)
(* manager and their refreshes interleave, no task is left over, no dead   *)
(* stream counts as connected, some stream is always there and never more  *)
(* than the cap, and the readiness flag goes wrong in the one way that     *)
(* WrongOnlyWhenOvertaken names.                                           *)
(***************************************************************************)
EXTENDS TetragonStreams, FiniteSetTheorems, TLAPS

-----------------------------------------------------------------------------
(* Sets of streams are finite *)

LEMMA KeysFinite ==
    ASSUME NEW S \in SUBSET Key
    PROVE  IsFiniteSet(S) /\ Cardinality(S) \in Nat
<1>1. IsFiniteSet(Key)
  <2>1. IsFiniteSet(Address)
    BY TetragonAssumption
  <2>2. IsFiniteSet({Fallback})
    BY FS_Singleton
  <2> QED
    BY <2>1, <2>2, FS_Union DEF Key
<1>2. IsFiniteSet(S)
  BY <1>1, FS_Subset
<1> QED
  BY <1>2, FS_CardinalityType

LEMMA Smaller ==
    ASSUME NEW S \in SUBSET Key, NEW T \in SUBSET S, Cardinality(S) <= MaxEndpoints
    PROVE  Cardinality(T) <= MaxEndpoints
<1>1. Cardinality(T) <= Cardinality(S)
  BY KeysFinite, FS_Subset
<1>2. T \in SUBSET Key
  OBVIOUS
<1> QED
  BY <1>1, <1>2, KeysFinite, TetragonAssumption

LEMMA ConnectedCount ==
    /\ Cardinality(Connected) \in Nat
    /\ Cardinality(Connected) > 0 <=> Connected # {}
<1>1. Connected \in SUBSET Key
  BY DEF Connected
<1>2. IsFiniteSet(Connected) /\ Cardinality(Connected) \in Nat
  BY <1>1, KeysFinite
<1>3. Cardinality(Connected) = 0 <=> Connected = {}
  BY <1>2, FS_EmptySet
<1> QED
  BY <1>2, <1>3

-----------------------------------------------------------------------------
(* Type correctness *)

LEMMA InitType == Init => TypeOK
<1> SUFFICES ASSUME Init PROVE TypeOK
  OBVIOUS
<1>1. NoTask \in StreamTask
  BY DEF NoTask, StreamTask, Refreshing
<1>2. Fallback \in Key
  BY DEF Key
<1>3. manager \in Manager
  BY <1>2 DEF Init, Manager, Refreshing
<1> QED
  BY <1>1, <1>3, TetragonAssumption DEF Init, TypeOK, Entry

\* What the manager's steps are made of has its type.
LEMMA CountType ==
    /\ \A t \in StreamTask : Count(t) \in StreamTask /\ Overtaken(t) \in StreamTask
    /\ manager \in Manager => Count(manager) \in Manager /\ Overtaken(manager) \in Manager
  BY ConnectedCount DEF Count, Overtaken, StreamTask, Manager, Refreshing

LEMMA ResumeType ==
    ASSUME NEW k \in Key, task[k] \in StreamTask
    PROVE  Resume(k) \in StreamTask
  BY DEF Resume, NoTask, StreamTask, Refreshing

LEMMA ManagerType ==
    ASSUME TypeOK, ManagerStep
    PROVE  TypeOK'
<1>0. /\ streams \in [Key -> Entry] /\ task \in [Key -> StreamTask]
      /\ manager \in Manager /\ manager.key \in Key
      /\ \A k \in Key : task[k] \in StreamTask
  BY DEF TypeOK, Manager
<1>1. NothingFound => manager' \in Manager
  <2>1. FallbackNeeded \in SUBSET Key
    BY DEF FallbackNeeded, Key
  <2> QED
    BY <1>0, <2>1 DEF NothingFound, Manager
<1>2. ASSUME NEW S \in SUBSET Address, Discover(S) PROVE TypeOK'
  <2>1. Stale(S) \in SUBSET Key /\ S \ Tracked \in SUBSET Key
    BY DEF Stale, Tracked, Key
  <2>2. manager' \in Manager
    BY <1>0, <1>1, <1>2, <2>1 DEF Discover, Manager
  <2> QED
    BY <1>2, <2>2 DEF Discover, TypeOK
<1>3. CASE DiscoverFails
  BY <1>1, <1>3 DEF DiscoverFails, TypeOK
<1>4. ASSUME NEW k \in Key, RemoveStream(k) PROVE TypeOK'
  <2>1. manager' \in Manager
    BY <1>0, <1>4 DEF RemoveStream, Manager, Refreshing
  <2>2. streams' \in [Key -> Entry]
    BY <1>0, <1>4 DEF RemoveStream, Entry
  <2> QED
    BY <1>4, <2>1, <2>2 DEF RemoveStream, TypeOK
<1>5. ASSUME NEW k \in Key, SpawnStream(k) PROVE TypeOK'
  <2>1. manager' \in Manager
    BY <1>0, <1>5 DEF SpawnStream, Manager
  <2>2. [NoTask EXCEPT !.pc = "connect"] \in StreamTask
    BY DEF NoTask, StreamTask, Refreshing
  <2>3. task' \in [Key -> StreamTask]
    BY <1>0, <1>5, <2>2 DEF SpawnStream
  <2> QED
    BY <1>5, <2>1, <2>3 DEF SpawnStream, TypeOK
<1>6. CASE AbortStream
  <2>1. manager' \in Manager
    BY <1>0, <1>6 DEF AbortStream, Manager
  <2>2. NoTask \in StreamTask /\ \A t \in StreamTask : [t EXCEPT !.aborted = TRUE] \in StreamTask
    BY DEF NoTask, StreamTask, Refreshing
  <2>3. task' \in [Key -> StreamTask]
    BY <1>0, <1>6, <2>2 DEF AbortStream, Abort
  <2> QED
    BY <1>6, <2>1, <2>3 DEF AbortStream, TypeOK
<1>7. CASE RemovedAll \/ SpawnedAll
  <2>1. manager' \in Manager
    BY <1>0, <1>7 DEF RemovedAll, SpawnedAll, Manager
  <2> QED
    BY <1>7, <2>1 DEF RemovedAll, SpawnedAll, TypeOK
<1>8. CASE RegisterStream
  <2>1. manager' \in Manager
    BY <1>0, <1>8 DEF RegisterStream, Manager, Refreshing
  <2>2. streams' \in [Key -> Entry]
    BY <1>0, <1>8 DEF RegisterStream, Entry
  <2> QED
    BY <1>8, <2>1, <2>2 DEF RegisterStream, TypeOK
<1>9. CASE ManagerCounts
  <2>1. manager' \in Manager /\ task' \in [Key -> StreamTask]
    BY <1>0, <1>9, CountType DEF ManagerCounts
  <2> QED
    BY <1>9, <2>1 DEF ManagerCounts, TypeOK
<1>10. CASE ManagerStores
  <2>1. manager' \in Manager /\ late' \in BOOLEAN
    BY <1>0, <1>10 DEF ManagerStores, Manager, Refreshing
  <2>2. ready' \in BOOLEAN
    BY <1>10 DEF ManagerStores, Stored
  <2> QED
    BY <1>10, <2>1, <2>2 DEF ManagerStores, TypeOK
<1> QED
  BY <1>2, <1>3, <1>4, <1>5, <1>6, <1>7, <1>8, <1>9, <1>10 DEF ManagerStep

LEMMA NextType == TypeOK /\ [Next]_vars => TypeOK'
<1> SUFFICES ASSUME TypeOK, [Next]_vars PROVE TypeOK'
  OBVIOUS
<1>0. /\ streams \in [Key -> Entry] /\ task \in [Key -> StreamTask]
      /\ manager \in Manager
      /\ \A k \in Key : task[k] \in StreamTask
  BY DEF TypeOK
<1>1. ASSUME NEW k \in Key, StreamOpens(k) \/ StreamEnds(k) \/ Reconnect(k) PROVE TypeOK'
  <2>1. task' \in [Key -> StreamTask]
    BY <1>0, <1>1 DEF StreamOpens, StreamEnds, Reconnect, StreamTask
  <2> QED
    BY <1>1, <2>1 DEF StreamOpens, StreamEnds, Reconnect, TypeOK
<1>2. ASSUME NEW k \in Key, SetStreamConnected(k) PROVE TypeOK'
  <2>1. [task[k] EXCEPT !.refresh = "count"] \in StreamTask
    BY <1>0 DEF StreamTask, Refreshing
  <2>2. task' \in [Key -> StreamTask]
    BY <1>0, <1>2, <2>1, ResumeType DEF SetStreamConnected
  <2>3. streams' \in [Key -> Entry]
    BY <1>0, <1>2 DEF SetStreamConnected, EntryAfter, Entry
  <2> QED
    BY <1>2, <2>2, <2>3 DEF SetStreamConnected, TypeOK
<1>3. ASSUME NEW k \in Key, TaskCounts(k) PROVE TypeOK'
  <2>1. manager' \in Manager /\ task' \in [Key -> StreamTask]
    BY <1>0, <1>3, CountType DEF TaskCounts
  <2> QED
    BY <1>3, <2>1 DEF TaskCounts, TypeOK
<1>4. ASSUME NEW k \in Key, TaskStores(k) PROVE TypeOK'
  <2>1. task' \in [Key -> StreamTask] /\ late' \in BOOLEAN
    BY <1>0, <1>4, ResumeType DEF TaskStores, StreamTask
  <2>2. ready' \in BOOLEAN
    BY <1>4 DEF TaskStores, Stored
  <2> QED
    BY <1>4, <2>1, <2>2 DEF TaskStores, TypeOK
<1>5. ASSUME NEW S \in SUBSET Address, EndpointsChange(S) PROVE TypeOK'
  BY <1>5 DEF EndpointsChange, TypeOK
<1>6. CASE Calm
  BY <1>6 DEF Calm, TypeOK
<1>7. CASE UNCHANGED vars
  BY <1>7 DEF vars, TypeOK
<1> QED
  BY <1>1, <1>2, <1>3, <1>4, <1>5, <1>6, <1>7, ManagerType DEF Next, RunningStep

\* Table, tasks, manager and flag stay within their types.
THEOREM TypeCorrect == Spec => []TypeOK
BY InitType, NextType, PTL DEF Spec

-----------------------------------------------------------------------------
(* Tasks and entries *)

TasksInv == TasksMatch /\ NoOrphanTask /\ ConnectedIsStreaming

\* The three, said of one stream.
Fits(k) ==
    /\ task[k].refresh # "no" \/ task[k].aborted => task[k].pc \in {"up", "down"}
    /\ streams[k] # "absent" => task[k].pc # "none" /\ ~task[k].aborted
    /\ k \in manager.fresh => streams[k] = "absent" /\ task[k].pc = "none"
    /\ k \in manager.stale => streams[k] # "absent"
    /\ manager.pc \in {"abort", "register"} /\ manager.key = k =>
           streams[k] = "absent" /\ task[k].pc # "none" /\ ~task[k].aborted
    /\ task[k].pc # "none" =>
           \/ streams[k] # "absent"
           \/ manager.pc \in {"register", "abort"} /\ manager.key = k
           \/ task[k].aborted
    /\ streams[k] = "connected" =>
           \/ task[k].pc \in {"up", "streaming"}
           \/ task[k].pc = "down" /\ task[k].refresh = "no"

LEMMA FitsIsTasksInv == TasksInv <=> \A k \in Key : Fits(k)
BY DEF TasksInv, TasksMatch, NoOrphanTask, ConnectedIsStreaming, Connected, Fits

LEMMA InitTasks == Init => TasksInv
<1> SUFFICES ASSUME Init, NEW k \in Key PROVE Fits(k)
  BY FitsIsTasksInv
<1>1. streams[k] = "absent" /\ task[k] = NoTask
  BY DEF Init
<1>2. manager.stale = {} /\ manager.pc \notin {"abort", "register"}
  BY DEF Init
<1> QED
  BY <1>1, <1>2 DEF Fits, NoTask

\* A step that changes one task and its entry, and what the manager has in
\* hand not at all, is checked at that task.
LEMMA OneTask ==
    ASSUME TypeOK, TasksInv, NEW k \in Key,
           \A j \in Key \ {k} : task'[j] = task[j] /\ streams'[j] = streams[j],
           UNCHANGED manager,
           Fits(k)'
    PROVE  TasksInv'
<1>1. ASSUME NEW j \in Key \ {k} PROVE Fits(j)'
  BY <1>1, FitsIsTasksInv DEF Fits
<1>2. \A j \in Key : Fits(j)'
  BY <1>1
<1> QED
  BY <1>2 DEF TasksInv, TasksMatch, NoOrphanTask, ConnectedIsStreaming, Connected, Fits

LEMMA ManagerTasks ==
    ASSUME TypeOK, TasksInv, ManagerStep
    PROVE  TasksInv'
<1> SUFFICES ASSUME NEW j \in Key PROVE Fits(j)'
  BY DEF TasksInv, TasksMatch, NoOrphanTask, ConnectedIsStreaming, Connected, Fits
<1>0. /\ streams \in [Key -> Entry] /\ task \in [Key -> StreamTask]
      /\ manager \in Manager /\ manager.key \in Key
      /\ Fits(j) /\ task[j].aborted \in BOOLEAN
  BY FitsIsTasksInv DEF TypeOK, Manager, StreamTask
<1>1. NothingFound /\ manager.pc = "discover" /\ ~task[j].aborted /\ UNCHANGED <<streams, task>>
          => Fits(j)'
  BY <1>0 DEF NothingFound, FallbackNeeded, Tracked, Fits, Manager
<1>2. ASSUME NEW S \in SUBSET Address, Discover(S) PROVE Fits(j)'
  <2>1. CASE S = {}
    BY <1>1, <1>2, <2>1 DEF Discover
  <2>2. CASE S # {}
    <3>1. /\ manager.pc = "discover" /\ ~task[j].aborted
          /\ streams' = streams /\ task' = task
      BY <1>2 DEF Discover
    <3>2. /\ manager'.pc = "remove"
          /\ manager'.stale = Stale(S) /\ manager'.fresh = S \ Tracked
      BY <1>0, <1>2, <2>2 DEF Discover, Manager
    <3>3. /\ j \in manager'.stale => streams[j] # "absent"
          /\ j \in manager'.fresh => streams[j] = "absent"
      BY <3>2 DEF Stale, Tracked
    <3> QED
      BY <1>0, <3>1, <3>2, <3>3 DEF Fits
  <2> QED
    BY <2>1, <2>2
<1>3. CASE DiscoverFails
  BY <1>1, <1>3 DEF DiscoverFails
<1>4. ASSUME NEW k \in Key, RemoveStream(k) PROVE Fits(j)'
  BY <1>0, <1>4 DEF RemoveStream, Fits, Manager
<1>5. ASSUME NEW k \in Key, SpawnStream(k) PROVE Fits(j)'
  BY <1>0, <1>5 DEF SpawnStream, Fits, Manager, NoTask
<1>6. CASE AbortStream
  BY <1>0, <1>6 DEF AbortStream, Abort, Fits, Manager, StreamTask, NoTask
<1>7. CASE RemovedAll \/ SpawnedAll
  BY <1>0, <1>7 DEF RemovedAll, SpawnedAll, Fits, Manager
<1>8. CASE RegisterStream
  BY <1>0, <1>8 DEF RegisterStream, Fits, Manager
<1>9. CASE ManagerCounts
  BY <1>0, <1>9 DEF ManagerCounts, Count, Overtaken, Fits, Manager, StreamTask
<1>10. CASE ManagerStores
  BY <1>0, <1>10 DEF ManagerStores, Fits, Manager
<1> QED
  BY <1>2, <1>3, <1>4, <1>5, <1>6, <1>7, <1>8, <1>9, <1>10 DEF ManagerStep

LEMMA NextTasks == TypeOK /\ TasksInv /\ [Next]_vars => TasksInv'
<1> SUFFICES ASSUME TypeOK, TasksInv, [Next]_vars PROVE TasksInv'
  OBVIOUS
<1>0. /\ streams \in [Key -> Entry] /\ task \in [Key -> StreamTask]
      /\ \A k \in Key : Fits(k) /\ task[k] \in StreamTask /\ task[k].aborted \in BOOLEAN
  BY FitsIsTasksInv DEF TypeOK, StreamTask
<1>1. ASSUME NEW k \in Key, StreamOpens(k) \/ StreamEnds(k) \/ Reconnect(k) PROVE TasksInv'
  <2>1. \A j \in Key \ {k} : task'[j] = task[j] /\ streams'[j] = streams[j]
    BY <1>0, <1>1 DEF StreamOpens, StreamEnds, Reconnect
  <2>2. UNCHANGED manager /\ Fits(k)'
    BY <1>0, <1>1 DEF StreamOpens, StreamEnds, Reconnect, Fits, StreamTask
  <2> QED
    BY <2>1, <2>2, OneTask
<1>2. ASSUME NEW k \in Key, SetStreamConnected(k) PROVE TasksInv'
  <2>1. \A j \in Key \ {k} : task'[j] = task[j] /\ streams'[j] = streams[j]
    BY <1>0, <1>2 DEF SetStreamConnected
  <2>2. UNCHANGED manager /\ Fits(k)
    BY <1>0, <1>2 DEF SetStreamConnected
  <2>3. CASE streams[k] = "absent" /\ task[k].aborted
    <3>1. task'[k] = NoTask /\ streams' = streams
      BY <1>0, <1>2, <2>3 DEF SetStreamConnected, Resume
    <3>2. Fits(k)'
      BY <2>2, <2>3, <3>1 DEF Fits, NoTask
    <3> QED
      BY <2>1, <2>2, <3>2, OneTask
  <2>4. CASE streams[k] = "absent" /\ ~task[k].aborted
    <3>0. task'[k] = Resume(k) /\ streams' = streams
      BY <1>0, <1>2, <2>4 DEF SetStreamConnected
    <3>1. /\ task'[k].pc \in {"streaming", "sleep"} /\ task'[k].refresh = "no"
          /\ ~task'[k].aborted
      BY <1>0, <2>4, <3>0 DEF Resume, StreamTask
    <3>2. task[k].pc \in {"up", "down"}
      BY <1>2 DEF SetStreamConnected
    <3>3. Fits(k)'
      BY <2>2, <2>4, <3>0, <3>1, <3>2 DEF Fits
    <3> QED
      BY <2>1, <2>2, <3>3, OneTask
  <2>5. CASE streams[k] # "absent"
    <3>1. /\ task'[k].pc = task[k].pc /\ task'[k].aborted = task[k].aborted
          /\ task[k].pc \in {"up", "down"}
          /\ streams'[k] = IF task[k].pc = "up" THEN "connected" ELSE "waiting"
      BY <1>0, <1>2, <2>5 DEF SetStreamConnected, EntryAfter, StreamTask
    <3>2. Fits(k)'
      BY <2>2, <2>5, <3>1 DEF Fits
    <3> QED
      BY <2>1, <2>2, <3>2, OneTask
  <2> QED
    BY <2>3, <2>4, <2>5
<1>3. ASSUME NEW k \in Key, TaskCounts(k) PROVE TasksInv'
  <2> SUFFICES ASSUME NEW j \in Key PROVE Fits(j)'
    BY DEF TasksInv, TasksMatch, NoOrphanTask, ConnectedIsStreaming, Connected, Fits
  <2>1. /\ task'[j].pc = task[j].pc /\ task'[j].aborted = task[j].aborted
        /\ task'[j].refresh # "no" <=> task[j].refresh # "no"
    BY <1>0, <1>3 DEF TaskCounts, Count, Overtaken, StreamTask
  <2>2. /\ manager'.pc = manager.pc /\ manager'.fresh = manager.fresh
        /\ manager'.stale = manager.stale /\ manager'.key = manager.key
        /\ streams' = streams
    BY <1>3 DEF TaskCounts, Overtaken, TypeOK, Manager
  <2>3. Fits(j)
    BY <1>0
  <2> QED
    BY <2>1, <2>2, <2>3 DEF Fits
<1>4. ASSUME NEW k \in Key, TaskStores(k) PROVE TasksInv'
  <2>1. \A j \in Key \ {k} : task'[j] = task[j] /\ streams'[j] = streams[j]
    BY <1>0, <1>4 DEF TaskStores
  <2>2. UNCHANGED manager /\ Fits(k)'
    BY <1>0, <1>4 DEF TaskStores, Resume, Fits, StreamTask, NoTask
  <2> QED
    BY <2>1, <2>2, OneTask
<1>5. CASE UNCHANGED <<streams, task, manager>>
  BY <1>5 DEF TasksInv, TasksMatch, NoOrphanTask, ConnectedIsStreaming, Connected
<1>6. (\E S \in SUBSET Address : EndpointsChange(S)) \/ Calm \/ UNCHANGED vars
          => UNCHANGED <<streams, task, manager>>
  BY DEF EndpointsChange, Calm, vars
<1> QED
  BY <1>1, <1>2, <1>3, <1>4, <1>5, <1>6, ManagerTasks DEF Next, RunningStep

-----------------------------------------------------------------------------
(* What the manager promises *)

LEMMA InitPromise == Init => PromiseKept
<1> SUFFICES ASSUME Init PROVE PromiseKept
  OBVIOUS
<1>1. Tracked = {}
  BY DEF Init, Tracked
<1>2. /\ manager.stale = {} /\ manager.first = TRUE
      /\ DiscoveryEnabled => manager.fresh = {} /\ manager.pc = "discover"
      /\ ~DiscoveryEnabled => manager.fresh = {Fallback} /\ manager.pc = "spawn"
  BY DEF Init
<1>3. Promised = IF DiscoveryEnabled THEN {} ELSE {Fallback}
  BY <1>1, <1>2, TetragonAssumption DEF Promised
<1>4. Cardinality({}) = 0 /\ Cardinality({Fallback}) = 1
  BY FS_EmptySet, FS_Singleton
<1>5. Cardinality(Promised) <= MaxEndpoints /\ Cardinality(Tracked) <= MaxEndpoints
  BY <1>1, <1>3, <1>4, TetragonAssumption
<1>6. Promised = {} => manager.pc = "discover" /\ manager.first
  BY <1>2, <1>3, TetragonAssumption
<1> QED
  BY <1>2, <1>5, <1>6, TetragonAssumption DEF PromiseKept, StreamsCapped

\* The manager keeps its promise as long as what it promises stays and it
\* tracks nothing else.
LEMMA SamePromise ==
    ASSUME TypeOK, PromiseKept, Promised' = Promised,
           Tracked' \in SUBSET Tracked \/ Tracked' \in SUBSET Promised,
           manager'.pc \notin {"remove", "abort"} => manager'.stale = {},
           manager'.pc = "discover" => manager'.fresh = {},
           Promised = {} => manager'.pc = "discover" /\ manager'.first
    PROVE  PromiseKept'
<1>1. Tracked \in SUBSET Key /\ Promised \in SUBSET Key
  BY DEF Tracked, Promised, TypeOK, Manager
<1>2. Cardinality(Tracked) <= MaxEndpoints /\ Cardinality(Promised) <= MaxEndpoints
  BY DEF PromiseKept, StreamsCapped
<1>3. Cardinality(Tracked') <= MaxEndpoints
  BY <1>1, <1>2, Smaller
<1> QED
  BY <1>2, <1>3 DEF PromiseKept, StreamsCapped

LEMMA DiscoverKeeps ==
    ASSUME TypeOK, PromiseKept, NEW S \in SUBSET Address, Discover(S), S # {}
    PROVE  PromiseKept'
<1>1. /\ manager'.pc = "remove" /\ manager'.stale = Stale(S)
      /\ manager'.fresh = S \ Tracked
  BY DEF Discover, TypeOK, Manager
<1>2. Tracked' = Tracked
  BY DEF Discover, Tracked
<1>3. Promised' = S
  BY <1>1, <1>2 DEF Promised, Stale
<1>4. Cardinality(S) <= MaxEndpoints
  <2>1. endpoints \in SUBSET Key
    BY DEF TypeOK, Key
  <2>2. Cardinality(endpoints) \in Nat
    BY <2>1, KeysFinite
  <2> QED
    BY <2>2, TetragonAssumption DEF Discover, Discovered
<1>5. Cardinality(Tracked) <= MaxEndpoints
  BY DEF PromiseKept, StreamsCapped
<1> QED
  BY <1>1, <1>2, <1>3, <1>4, <1>5 DEF PromiseKept, StreamsCapped

LEMMA NothingFoundKeeps ==
    ASSUME TypeOK, PromiseKept, manager.pc = "discover", NothingFound, UNCHANGED streams
    PROVE  PromiseKept'
<1>1. /\ manager'.pc = "spawn" /\ manager'.stale = {}
      /\ manager'.fresh = FallbackNeeded
  BY DEF NothingFound, TypeOK, Manager
<1>2. Tracked' = Tracked
  BY DEF Tracked
<1>3. Promised' = IF Tracked = {} THEN {Fallback} ELSE Tracked
  BY <1>1, <1>2 DEF Promised, FallbackNeeded
<1>4. Cardinality({Fallback}) = 1
  BY FS_Singleton
<1>5. Cardinality(Tracked) <= MaxEndpoints
  BY DEF PromiseKept, StreamsCapped
<1>6. Cardinality(Promised') <= MaxEndpoints
  BY <1>3, <1>4, <1>5, TetragonAssumption
<1> QED
  BY <1>1, <1>2, <1>3, <1>5, <1>6 DEF PromiseKept, StreamsCapped

LEMMA ManagerPromise ==
    ASSUME TypeOK, TasksInv, PromiseKept, ManagerStep
    PROVE  PromiseKept'
<1>0. /\ streams \in [Key -> Entry] /\ manager \in Manager
      /\ manager.key \in Key /\ manager.fresh \in SUBSET Key
      /\ \A k \in manager.stale : k \in Tracked
      /\ \A k \in manager.fresh : k \notin Tracked
  BY DEF TypeOK, Manager, TasksInv, TasksMatch, Tracked
<1>1. /\ manager.pc \notin {"remove", "abort"} => manager.stale = {}
      /\ manager.pc # "discover" => Promised # {}
  BY DEF PromiseKept
<1>2. ASSUME NEW S \in SUBSET Address, Discover(S) PROVE PromiseKept'
  BY <1>2, DiscoverKeeps, NothingFoundKeeps DEF Discover
<1>3. CASE DiscoverFails
  BY <1>3, NothingFoundKeeps DEF DiscoverFails
<1>4. ASSUME NEW k \in Key, RemoveStream(k) PROVE PromiseKept'
  <2>1. /\ manager.pc = "remove" /\ k \in manager.stale
        /\ manager'.pc = "abort" /\ manager'.stale = manager.stale \ {k}
        /\ manager'.fresh = manager.fresh
    BY <1>0, <1>4 DEF RemoveStream, Manager
  <2>2. Tracked' = Tracked \ {k}
    BY <1>0, <1>4 DEF RemoveStream, Tracked
  <2>3. Promised' = Promised
    BY <2>1, <2>2 DEF Promised
  <2> QED
    BY <1>1, <2>1, <2>2, <2>3, SamePromise
<1>5. ASSUME NEW k \in Key, SpawnStream(k) PROVE PromiseKept'
  <2>1. /\ manager.pc = "spawn" /\ k \in manager.fresh
        /\ manager'.pc = "register" /\ manager'.stale = manager.stale
        /\ manager'.fresh = manager.fresh \ {k} /\ manager'.key = k
    BY <1>0, <1>5 DEF SpawnStream, Manager
  <2>2. Tracked' = Tracked
    BY <1>5 DEF SpawnStream, Tracked
  <2>3. Promised' = Promised
    BY <2>1, <2>2 DEF Promised
  <2> QED
    BY <1>1, <2>1, <2>2, <2>3, SamePromise
<1>6. CASE RegisterStream
  <2>1. /\ manager.pc = "register" /\ manager'.pc = "spawn"
        /\ manager'.stale = manager.stale /\ manager'.fresh = manager.fresh
    BY <1>0, <1>6 DEF RegisterStream, Manager
  <2>2. Tracked' = Tracked \cup {manager.key}
    BY <1>0, <1>6 DEF RegisterStream, Tracked
  <2>3. Promised' = Promised /\ Tracked' \in SUBSET Promised
    BY <1>1, <2>1, <2>2 DEF Promised
  <2> QED
    BY <1>1, <2>1, <2>3, SamePromise
<1>7. CASE AbortStream \/ RemovedAll \/ SpawnedAll \/ ManagerCounts \/ ManagerStores
  <2>1. /\ manager'.stale = manager.stale /\ manager'.fresh = manager.fresh
        /\ manager'.key = manager.key /\ manager'.first = manager.first
    BY <1>0, <1>7
       DEF AbortStream, RemovedAll, SpawnedAll, ManagerCounts, ManagerStores, Count, Manager
  <2>2. \/ manager'.pc = manager.pc
        \/ manager.pc = "abort" /\ manager'.pc = "remove"
        \/ manager.pc = "remove" /\ manager'.pc = "spawn" /\ manager.stale = {}
        \/ /\ manager.pc = "spawn" /\ manager'.pc \in {"discover", "stopped"}
           /\ manager.fresh = {}
    BY <1>0, <1>7
       DEF AbortStream, RemovedAll, SpawnedAll, ManagerCounts, ManagerStores, Count, Manager
  <2>3. Tracked' = Tracked
    BY <1>7 DEF AbortStream, RemovedAll, SpawnedAll, ManagerCounts, ManagerStores, Tracked
  <2>4. Promised' = Promised
    BY <2>1, <2>2, <2>3 DEF Promised
  <2>5. /\ manager'.pc \notin {"remove", "abort"} => manager'.stale = {}
        /\ manager'.pc = "discover" => manager'.fresh = {}
        /\ Promised = {} => manager'.pc = "discover" /\ manager'.first
    BY <2>1, <2>2 DEF PromiseKept
  <2> QED
    BY <2>3, <2>4, <2>5, SamePromise
<1> QED
  BY <1>2, <1>3, <1>4, <1>5, <1>6, <1>7 DEF ManagerStep

LEMMA NextPromise == TypeOK /\ TasksInv /\ PromiseKept /\ [Next]_vars => PromiseKept'
<1> SUFFICES ASSUME TypeOK, TasksInv, PromiseKept, [Next]_vars PROVE PromiseKept'
  OBVIOUS
<1>1. CASE /\ Tracked' = Tracked
           /\ manager'.pc = manager.pc /\ manager'.first = manager.first
           /\ manager'.key = manager.key
           /\ manager'.stale = manager.stale /\ manager'.fresh = manager.fresh
  <2>1. Promised' = Promised
    BY <1>1 DEF Promised
  <2> QED
    BY <1>1, <2>1, SamePromise DEF PromiseKept
<1>2. ASSUME NEW k \in Key, SetStreamConnected(k) PROVE Tracked' = Tracked
  BY <1>2 DEF SetStreamConnected, EntryAfter, Tracked, TypeOK
<1>3. ASSUME NEW k \in Key, TaskCounts(k) PROVE PromiseKept'
  BY <1>1, <1>3 DEF TaskCounts, Overtaken, Tracked, TypeOK, Manager
<1>4. CASE UNCHANGED <<streams, manager>>
  BY <1>1, <1>4 DEF Tracked
<1>5. ASSUME NEW k \in Key, StreamOpens(k) \/ StreamEnds(k) \/ Reconnect(k) \/ TaskStores(k)
      PROVE  UNCHANGED <<streams, manager>>
  BY <1>5 DEF StreamOpens, StreamEnds, Reconnect, TaskStores
<1>6. (\E S \in SUBSET Address : EndpointsChange(S)) \/ Calm \/ UNCHANGED vars
          => UNCHANGED <<streams, manager>>
  BY DEF EndpointsChange, Calm, vars
<1>7. ASSUME NEW k \in Key, SetStreamConnected(k) PROVE PromiseKept'
  BY <1>1, <1>2, <1>7 DEF SetStreamConnected
<1> QED
  BY <1>3, <1>4, <1>5, <1>6, <1>7, ManagerPromise DEF Next, RunningStep

-----------------------------------------------------------------------------
(* Refreshes and the flag *)

\* Nothing a refresh of this actor depends on has changed.
SameRefresh(old, new) ==
    /\ new.refresh = old.refresh
    /\ old.refresh # "no" => new.counted = old.counted /\ new.overtaken = old.overtaken
    /\ old.refresh = "no" => new.overtaken = FALSE

FlagInv == RefreshInOrder /\ FlagFollows

LEMMA InitFlag == Init => FlagInv
<1> SUFFICES ASSUME Init PROVE FlagInv
  OBVIOUS
<1>1. manager.refresh = "no" /\ manager.overtaken = FALSE
  BY DEF Init
<1>2. \A k \in Key : task[k].refresh = "no" /\ task[k].overtaken = FALSE
  BY DEF Init, NoTask
<1>3. Connected = {} /\ ready = ~Required
  BY DEF Init, Connected
<1> QED
  BY <1>1, <1>2, <1>3 DEF FlagInv, RefreshInOrder, FlagFollows, Exact, Latest

\* A step in which nobody counts, stores or changes what is connected.
LEMMA Quiet ==
    ASSUME FlagInv, Connected' = Connected, UNCHANGED <<ready, late>>,
           SameRefresh(manager, manager'),
           \A k \in Key : SameRefresh(task[k], task'[k]),
           manager'.refresh # "no" => manager'.pc \in {"abort", "spawn"}
    PROVE  FlagInv'
<1>1. RefreshInOrder'
  BY DEF FlagInv, RefreshInOrder, SameRefresh
<1>2. \A k \in Key : /\ Latest(task[k])' <=> Latest(task[k])
                     /\ Exact(task[k]) => Exact(task[k])'
  BY DEF Latest, Exact, SameRefresh
<1>3. /\ Latest(manager)' <=> Latest(manager)
      /\ Exact(manager) => Exact(manager)'
  BY DEF Latest, Exact, SameRefresh
<1>4. CASE ~Required
  BY <1>1, <1>4 DEF FlagInv, FlagFollows
<1>5. CASE manager.refresh = "count" \/ \E k \in Key : task[k].refresh = "count"
  BY <1>1, <1>5 DEF FlagInv, FlagFollows, SameRefresh
<1>6. CASE /\ Exact(manager)
           /\ \A k \in Key : Exact(task[k])
           /\ \/ Latest(manager) \/ \E k \in Key : Latest(task[k])
              \/ late
              \/ ready <=> Connected # {}
  <2>1. /\ Exact(manager)'
        /\ \A k \in Key : Exact(task[k])'
        /\ \/ Latest(manager)' \/ \E k \in Key : Latest(task[k])'
           \/ late'
           \/ ready' <=> Connected' # {}
    BY <1>2, <1>3, <1>6
  <2> QED
    BY <1>1, <2>1 DEF FlagInv, FlagFollows
<1> QED
  BY <1>4, <1>5, <1>6 DEF FlagInv, FlagFollows

\* A step after which some actor is to count.
LEMMA Due ==
    ASSUME RefreshInOrder',
           manager'.refresh = "count" \/ \E k \in Key : task'[k].refresh = "count"
    PROVE  FlagInv'
  BY DEF FlagInv, FlagFollows

\* A refresh counts: its count is right, and all that were under way are
\* overtaken.
LEMMA ManagerCountsFlag ==
    ASSUME TypeOK, FlagInv, ManagerCounts
    PROVE  FlagInv'
<1>1. /\ manager'.pc = manager.pc /\ manager.refresh = "count"
      /\ manager'.refresh = "store" /\ manager'.overtaken = manager.overtaken
      /\ manager'.counted = Cardinality(Connected)
  BY DEF ManagerCounts, Count, TypeOK, Manager
<1>2. ~manager'.overtaken
  BY <1>1 DEF FlagInv, RefreshInOrder
<1>3. \A k \in Key : /\ task'[k].refresh = task[k].refresh
                     /\ task'[k].overtaken = (task[k].refresh = "store")
  BY DEF ManagerCounts, Overtaken, TypeOK, StreamTask
<1>4. Connected' = Connected
  BY DEF ManagerCounts, Connected
<1>5. RefreshInOrder'
  BY <1>1, <1>2, <1>3 DEF FlagInv, RefreshInOrder
<1>6. Latest(manager)' /\ Exact(manager)'
  BY <1>1, <1>2, <1>4, ConnectedCount DEF Latest, Exact
<1>7. \A k \in Key : Exact(task[k])'
  BY <1>3 DEF Latest, Exact
<1> QED
  BY <1>5, <1>6, <1>7 DEF FlagInv, FlagFollows

LEMMA TaskCountsFlag ==
    ASSUME TypeOK, FlagInv, NEW k \in Key, TaskCounts(k)
    PROVE  FlagInv'
<1>1. /\ task[k].refresh = "count" /\ task'[k].refresh = "store"
      /\ task'[k].overtaken = task[k].overtaken
      /\ task'[k].counted = Cardinality(Connected)
  BY DEF TaskCounts, Count, TypeOK, StreamTask
<1>2. ~task'[k].overtaken
  BY <1>1 DEF FlagInv, RefreshInOrder
<1>3. \A j \in Key \ {k} : /\ task'[j].refresh = task[j].refresh
                           /\ task'[j].overtaken = (task[j].refresh = "store")
  BY DEF TaskCounts, Overtaken, TypeOK, StreamTask
<1>4. /\ manager'.pc = manager.pc /\ manager'.refresh = manager.refresh
      /\ manager'.overtaken = (manager.refresh = "store")
  BY DEF TaskCounts, Overtaken, TypeOK, Manager
<1>5. Connected' = Connected
  BY DEF TaskCounts, Connected
<1>6. RefreshInOrder'
  BY <1>1, <1>2, <1>3, <1>4 DEF FlagInv, RefreshInOrder
<1>7. Latest(task[k])' /\ Exact(task[k])'
  BY <1>1, <1>2, <1>5, ConnectedCount DEF Latest, Exact
<1>8. \A j \in Key : Exact(task[j])'
  BY <1>3, <1>7 DEF Latest, Exact
<1>9. Exact(manager)'
  BY <1>4 DEF Latest, Exact
<1> QED
  BY <1>6, <1>7, <1>8, <1>9 DEF FlagInv, FlagFollows

\* A refresh stores: an overtaken one may store what is wrong by now, the
\* latest one what is right.
LEMMA ManagerStoresFlag ==
    ASSUME TypeOK, FlagInv, ManagerStores
    PROVE  FlagInv'
<1>1. /\ manager'.pc = manager.pc /\ manager.refresh = "store"
      /\ manager'.refresh = "no" /\ manager'.overtaken = FALSE
      /\ late' = manager.overtaken /\ ready' = Stored(manager)
  BY DEF ManagerStores, TypeOK, Manager
<1>2. task' = task /\ Connected' = Connected
  BY DEF ManagerStores, Connected
<1>3. RefreshInOrder'
  BY <1>1, <1>2 DEF FlagInv, RefreshInOrder
<1>4. Exact(manager)'
  BY <1>1 DEF Latest, Exact
<1>5. CASE ~Required
  BY <1>3, <1>5 DEF FlagInv, FlagFollows
<1>6. CASE \E k \in Key : task[k].refresh = "count"
  BY <1>2, <1>3, <1>6 DEF FlagInv, FlagFollows
<1>7. CASE Required /\ Exact(manager) /\ \A k \in Key : Exact(task[k])
  <2>1. \A k \in Key : Exact(task[k])'
    BY <1>2, <1>7 DEF Exact, Latest
  <2>2. late' \/ (ready' <=> Connected' # {})
    BY <1>1, <1>2, <1>7 DEF Exact, Latest, Stored
  <2> QED
    BY <1>3, <1>4, <2>1, <2>2 DEF FlagInv, FlagFollows
<1> QED
  BY <1>1, <1>5, <1>6, <1>7 DEF FlagInv, FlagFollows

LEMMA TaskStoresFlag ==
    ASSUME TypeOK, FlagInv, NEW k \in Key, TaskStores(k)
    PROVE  FlagInv'
<1>1. /\ task[k].refresh = "store" /\ task'[k] = Resume(k)
      /\ late' = task[k].overtaken /\ ready' = Stored(task[k])
  BY DEF TaskStores, TypeOK
<1>2. task'[k].refresh = "no" /\ task'[k].overtaken = FALSE
  BY <1>1 DEF Resume, NoTask, TypeOK, StreamTask
<1>3. /\ manager' = manager /\ Connected' = Connected
      /\ \A j \in Key \ {k} : task'[j] = task[j]
  BY DEF TaskStores, Connected, TypeOK
<1>4. RefreshInOrder'
  BY <1>1, <1>2, <1>3 DEF FlagInv, RefreshInOrder
<1>5. CASE ~Required
  BY <1>4, <1>5 DEF FlagInv, FlagFollows
<1>6. CASE manager.refresh = "count"
  BY <1>3, <1>4, <1>6 DEF FlagInv, FlagFollows
<1>7. ASSUME NEW j \in Key, task[j].refresh = "count" PROVE FlagInv'
  <2>1. task'[j].refresh = "count"
    BY <1>1, <1>3, <1>7
  <2> QED
    BY <1>4, <2>1, Due
<1>8. CASE Required /\ Exact(manager) /\ \A j \in Key : Exact(task[j])
  <2>1. \A j \in Key : Exact(task[j])'
    BY <1>2, <1>3, <1>8 DEF Exact, Latest
  <2>2. Exact(manager)'
    BY <1>3, <1>8 DEF Exact, Latest
  <2>3. late' \/ (ready' <=> Connected' # {})
    BY <1>1, <1>3, <1>8 DEF Exact, Latest, Stored
  <2> QED
    BY <1>4, <2>1, <2>2, <2>3 DEF FlagInv, FlagFollows
<1> QED
  BY <1>5, <1>6, <1>7, <1>8 DEF FlagInv, FlagFollows

LEMMA ManagerFlag ==
    ASSUME TypeOK, TasksInv, FlagInv, ManagerStep
    PROVE  FlagInv'
<1>0. /\ streams \in [Key -> Entry] /\ task \in [Key -> StreamTask] /\ manager \in Manager
      /\ manager.overtaken \in BOOLEAN
      /\ \A k \in Key : task[k].overtaken \in BOOLEAN
      /\ manager.refresh # "no" => manager.pc \in {"abort", "spawn"}
      /\ manager.overtaken => manager.refresh = "store"
      /\ \A k \in Key : task[k].overtaken => task[k].refresh = "store"
      /\ \A k \in Key : task[k].refresh # "no" => task[k].pc \in {"up", "down"}
  BY DEF TypeOK, Manager, StreamTask, FlagInv, RefreshInOrder, TasksInv, TasksMatch
<1>1. /\ SameRefresh(manager, manager)
      /\ \A k \in Key : SameRefresh(task[k], task[k])
  BY <1>0 DEF SameRefresh
<1>2. ASSUME \/ \E S \in SUBSET Address : Discover(S)
             \/ DiscoverFails \/ RemovedAll \/ SpawnedAll
      PROVE  FlagInv'
  <2>1. UNCHANGED <<streams, task, ready, late>>
    BY <1>2 DEF Discover, DiscoverFails, RemovedAll, SpawnedAll
  <2>2. /\ manager'.refresh = manager.refresh /\ manager'.counted = manager.counted
        /\ manager'.overtaken = manager.overtaken /\ manager.refresh = "no"
    BY <1>0, <1>2 DEF Discover, DiscoverFails, NothingFound, RemovedAll, SpawnedAll, Manager
  <2>3. SameRefresh(manager, manager')
    BY <1>1, <2>2 DEF SameRefresh
  <2>4. Connected' = Connected
    BY <2>1 DEF Connected
  <2> QED
    BY <1>1, <2>1, <2>2, <2>3, <2>4, Quiet
<1>3. ASSUME NEW k \in Key, SpawnStream(k) PROVE FlagInv'
  <2>1. /\ manager'.refresh = manager.refresh /\ manager'.counted = manager.counted
        /\ manager'.overtaken = manager.overtaken /\ manager.refresh = "no"
    BY <1>0, <1>3 DEF SpawnStream, Manager
  <2>2. task[k].refresh = "no"
    BY <1>0, <1>3 DEF SpawnStream, TasksInv, TasksMatch
  <2>3. \A j \in Key : SameRefresh(task[j], task'[j])
    BY <1>0, <1>1, <1>3, <2>2 DEF SpawnStream, SameRefresh, NoTask
  <2>4. SameRefresh(manager, manager')
    BY <1>1, <2>1 DEF SameRefresh
  <2>5. Connected' = Connected /\ UNCHANGED <<ready, late>>
    BY <1>3 DEF SpawnStream, Connected
  <2> QED
    BY <2>1, <2>3, <2>4, <2>5, Quiet
<1>4. CASE AbortStream
  <2>1. /\ manager'.refresh = manager.refresh /\ manager'.counted = manager.counted
        /\ manager'.overtaken = manager.overtaken /\ manager.refresh = "no"
    BY <1>0, <1>4 DEF AbortStream, Manager
  <2>2. \A j \in Key : SameRefresh(task[j], task'[j])
    BY <1>0, <1>1, <1>4 DEF AbortStream, Abort, SameRefresh, NoTask, StreamTask
  <2>4. SameRefresh(manager, manager')
    BY <1>1, <2>1 DEF SameRefresh
  <2>5. Connected' = Connected /\ UNCHANGED <<ready, late>>
    BY <1>4 DEF AbortStream, Connected
  <2> QED
    BY <2>1, <2>2, <2>4, <2>5, Quiet
<1>5. ASSUME (\E k \in Key : RemoveStream(k)) \/ RegisterStream PROVE FlagInv'
  <2>1. /\ manager'.refresh = "count" /\ manager'.pc \in {"abort", "spawn"}
        /\ manager'.overtaken = manager.overtaken
    BY <1>0, <1>5 DEF RemoveStream, RegisterStream, Manager
  <2>2. task' = task /\ manager.refresh = "no"
    BY <1>0, <1>5 DEF RemoveStream, RegisterStream
  <2>3. RefreshInOrder'
    BY <1>0, <2>1, <2>2 DEF RefreshInOrder
  <2> QED
    BY <2>1, <2>3, Due
<1> QED
  BY <1>2, <1>3, <1>4, <1>5, ManagerCountsFlag, ManagerStoresFlag DEF ManagerStep

LEMMA NextFlag == TypeOK /\ TasksInv /\ FlagInv /\ [Next]_vars => FlagInv'
<1> SUFFICES ASSUME TypeOK, TasksInv, FlagInv, [Next]_vars PROVE FlagInv'
  OBVIOUS
<1>0. /\ streams \in [Key -> Entry] /\ task \in [Key -> StreamTask]
      /\ manager.overtaken \in BOOLEAN
      /\ \A k \in Key : task[k].overtaken \in BOOLEAN
      /\ manager.refresh # "no" => manager.pc \in {"abort", "spawn"}
      /\ manager.overtaken => manager.refresh = "store"
      /\ \A k \in Key : task[k].overtaken => task[k].refresh = "store"
  BY DEF TypeOK, Manager, StreamTask, FlagInv, RefreshInOrder
<1>1. /\ SameRefresh(manager, manager)
      /\ \A k \in Key : SameRefresh(task[k], task[k])
  BY <1>0 DEF SameRefresh
<1>2. ASSUME NEW k \in Key, StreamOpens(k) \/ StreamEnds(k) \/ Reconnect(k) PROVE FlagInv'
  <2>1. \A j \in Key : SameRefresh(task[j], task'[j])
    BY <1>0, <1>1, <1>2 DEF StreamOpens, StreamEnds, Reconnect, SameRefresh, StreamTask
  <2>2. Connected' = Connected /\ UNCHANGED <<manager, ready, late>>
    BY <1>2 DEF StreamOpens, StreamEnds, Reconnect, Connected
  <2> QED
    BY <1>0, <1>1, <2>1, <2>2, Quiet
<1>3. ASSUME NEW k \in Key, SetStreamConnected(k) PROVE FlagInv'
  <2>1. CASE streams[k] = "absent"
    <3>0. task'[k] = Resume(k) /\ task[k].refresh = "no" /\ task[k] \in StreamTask
      BY <1>0, <1>3, <2>1 DEF SetStreamConnected
    <3>1. task'[k].refresh = "no" /\ task'[k].overtaken = FALSE /\ task[k].refresh = "no"
      BY <3>0 DEF Resume, NoTask, StreamTask
    <3>2. \A j \in Key \ {k} : task'[j] = task[j]
      BY <1>0, <1>3 DEF SetStreamConnected
    <3>3. \A j \in Key : SameRefresh(task[j], task'[j])
      BY <1>1, <3>1, <3>2 DEF SameRefresh
    <3>4. Connected' = Connected /\ UNCHANGED <<manager, ready, late>>
      BY <1>3, <2>1 DEF SetStreamConnected, Connected
    <3> QED
      BY <1>0, <1>1, <3>3, <3>4, Quiet
  <2>2. CASE streams[k] # "absent"
    <3>1. /\ task'[k].refresh = "count" /\ task'[k].overtaken = task[k].overtaken
          /\ task[k].refresh = "no"
      BY <1>0, <1>3, <2>2 DEF SetStreamConnected, StreamTask
    <3>2. manager' = manager /\ \A j \in Key \ {k} : task'[j] = task[j]
      BY <1>0, <1>3 DEF SetStreamConnected
    <3>3. RefreshInOrder'
      BY <1>0, <3>1, <3>2 DEF RefreshInOrder
    <3> QED
      BY <3>1, <3>3, Due
  <2> QED
    BY <2>1, <2>2
<1>4. CASE UNCHANGED <<streams, task, manager, ready, late>>
  <2>1. Connected' = Connected
    BY <1>4 DEF Connected
  <2> QED
    BY <1>0, <1>1, <1>4, <2>1, Quiet
<1>5. (\E S \in SUBSET Address : EndpointsChange(S)) \/ Calm \/ UNCHANGED vars
          => UNCHANGED <<streams, task, manager, ready, late>>
  BY DEF EndpointsChange, Calm, vars
<1> QED
  BY <1>2, <1>3, <1>4, <1>5, ManagerFlag, TaskCountsFlag, TaskStoresFlag
     DEF Next, RunningStep

-----------------------------------------------------------------------------
(* The theorems *)

\* StreamsInv, which the others follow from, is inductive with the types.
THEOREM StreamsInvariant == Spec => [](TypeOK /\ StreamsInv)
<1>1. Init => TypeOK /\ StreamsInv
  BY InitType, InitTasks, InitPromise, InitFlag DEF StreamsInv, TasksInv, FlagInv
<1>2. TypeOK /\ StreamsInv /\ [Next]_vars => (TypeOK /\ StreamsInv)'
  <2>1. ASSUME TypeOK, StreamsInv, [Next]_vars
        PROVE  TypeOK' /\ TasksInv' /\ PromiseKept' /\ FlagInv'
    BY <2>1, NextType, NextTasks, NextPromise, NextFlag DEF StreamsInv, TasksInv, FlagInv
  <2> QED
    BY <2>1 DEF StreamsInv, TasksInv, FlagInv
<1> QED
  BY <1>1, <1>2, PTL DEF Spec

\* No stream task is left over by discover_and_reconcile or spawn_stream:
\* one without an entry is being registered, being aborted, or aborted.
THEOREM NoTaskLeftOver == Spec => []NoOrphanTask
<1>1. StreamsInv => NoOrphanTask
  BY DEF StreamsInv
<1> QED
  BY <1>1, StreamsInvariant, PTL

\* What coverage_snapshot counts as connected has its stream open, or its
\* task is about to record the end.
THEOREM ConnectedMeansStreaming == Spec => []ConnectedIsStreaming
<1>1. StreamsInv => ConnectedIsStreaming
  BY DEF StreamsInv
<1> QED
  BY <1>1, StreamsInvariant, PTL

\* From the first discovery on, every discovery finds some stream tracked:
\* an empty or a failed answer never leaves the agent without one.
THEOREM SomeStreamAlways == Spec => []AlwaysSomeStream
<1>1. TypeOK /\ StreamsInv => AlwaysSomeStream
  BY DEF StreamsInv, PromiseKept, Promised, AlwaysSomeStream
<1> QED
  BY <1>1, StreamsInvariant, PTL

\* MAX_DISCOVERED_ENDPOINTS caps the table at every moment, also while the
\* streams of one answer replace those of the one before.
THEOREM NeverAboveCap == Spec => []StreamsCapped
<1>1. StreamsInv => StreamsCapped
  BY DEF StreamsInv, PromiseKept
<1> QED
  BY <1>1, StreamsInvariant, PTL

\* With no refresh under way the readiness flag is right, unless the last
\* set_dependency_ready came from a refresh_health that had been overtaken.
THEOREM FlagWrongOnlyWhenOvertaken == Spec => []WrongOnlyWhenOvertaken
<1>1. TypeOK /\ StreamsInv => WrongOnlyWhenOvertaken
  <2> SUFFICES ASSUME TypeOK, StreamsInv, Required, AtRest, ~late
               PROVE  ready = (Connected # {})
    BY DEF WrongOnlyWhenOvertaken
  <2>1. manager.refresh = "no" /\ \A k \in Key : task[k].refresh = "no"
    BY DEF AtRest, StreamsInv, TasksMatch
  <2>2. ready <=> Connected # {}
    BY <2>1 DEF StreamsInv, FlagFollows, Latest
  <2> QED
    BY <2>2 DEF TypeOK
<1> QED
  BY <1>1, StreamsInvariant, PTL
=============================================================================
