-------------------------- MODULE DependencyWindow --------------------------
(***************************************************************************)
(* The dependency inventory: Tetragon streams append event lines to a      *)
(* bounded buffer that is pruned by the wall clock (tetragon.rs), and each *)
(* collection round copies the buffer and folds it, line by line, into     *)
(* dependency edges under two caps (collect_dependency_inventory).         *)
(*                                                                         *)
(* The streams push under a lock while a round works on its copy.  The     *)
(* wall clock may be set back; back adds up by how much.  An endpoint is   *)
(* its IP and the kind the pod and service lists of the round gave it.     *)
(***************************************************************************)
EXTENDS Integers, Sequences, FiniteSetsExt

CONSTANTS Ip,           \* addresses
          Event,        \* the events Tetragon may report
          Listing,      \* what a round may know: [pods, services], sets of Ip
          WINDOW,       \* DEP_WINDOW_SECONDS
          MAX_BUFFERED, \* MAX_BUFFERED_EVENTS
          MAX_LINES,    \* MAX_TETRAGON_LINES
          MAX_EDGES,    \* MAX_DEP_EDGES_PER_SNAPSHOT
          MAX_FANOUT,   \* MAX_DEP_FANOUT_PER_SOURCE
          MaxU64,       \* where the saturating sums stop
          MaxTime,      \* bound: the wall clock
          MaxBack,      \* bound: how far it is set back in all
          MaxPushes     \* bound: lines pushed in all

Function == {"tcp_sendmsg", "tcp_close", "other"}

EventType ==
    [function : Function, sock : BOOLEAN, src : Ip, dst : Ip, dport : Nat, bytes : Nat]

ASSUME WindowAssumption ==
    /\ Event \subseteq EventType
    /\ Listing \subseteq [pods : SUBSET Ip, services : SUBSET Ip]
    /\ WINDOW \in Nat /\ MaxU64 \in Nat /\ MaxTime \in Nat /\ MaxBack \in Nat
    /\ MaxPushes \in Nat
    /\ MAX_BUFFERED \in Nat \ {0} /\ MAX_LINES \in Nat
    /\ MAX_EDGES \in Nat /\ MAX_FANOUT \in Nat
    /\ MAX_BUFFERED <= MAX_LINES   \* they are equal, 20000

VARIABLES now,        \* the wall clock
          back,       \* history: how far it was set back so far
          lines,      \* State.lines: the buffer
          pushes,     \* bound: lines pushed so far
          displaced,  \* history: a line was pushed out since the last snapshot
          pruned,     \* history: when the lines dropped for their age were recorded
          round       \* collect_dependency_inventory of the current round

vars == <<now, back, lines, pushes, displaced, pruned, round>>

Line == [function : Function, src : Ip, dst : Ip, dport : Nat, bytes : Nat]
Buffered == [line : Line, recorded_at : Nat]

Endpoint == [kind : {"pod", "service", "unknown"}, ip : Ip]
EdgeKey == [from : Endpoint, to : Endpoint, dport : Nat]
EdgeAgg == [bytes : Nat, packets : Nat, connections : Nat]
EdgeMap == UNION {[K -> EdgeAgg] : K \in SUBSET EdgeKey}
Fanout == [Endpoint -> SUBSET Endpoint]

Round ==
    [pc        : {"idle", "aggregate", "done"},
     as_of     : Nat,                 \* when the buffer was copied
     missing   : BOOLEAN,             \* displaced at that moment
     listing   : [pods : SUBSET Ip, services : SUBSET Ip],
     body      : Seq(Buffered),       \* the copy
     at        : Nat,                 \* lines of it dealt with
     agg       : EdgeMap,
     fanout    : Fanout,
     failures  : Nat, line_cap : Nat, dropped : Nat, skipped : Nat]

TypeOK ==
    /\ now \in Nat /\ back \in Nat
    /\ lines \in Seq(Buffered)
    /\ pushes \in Nat
    /\ displaced \in BOOLEAN
    /\ pruned \subseteq Nat
    /\ round \in Round
    /\ round.at <= Len(round.body)

NoAgg == [bytes |-> 0, packets |-> 0, connections |-> 0]

NewRound ==
    [pc |-> "idle", as_of |-> 0, missing |-> FALSE,
     listing |-> [pods |-> {}, services |-> {}],
     body |-> << >>, at |-> 0, agg |-> [k \in {} |-> NoAgg], fanout |-> [e \in Endpoint |-> {}],
     failures |-> 0, line_cap |-> 0, dropped |-> 0, skipped |-> 0]

Init ==
    /\ now = 0 /\ back = 0
    /\ lines = << >> /\ pushes = 0 /\ displaced = FALSE /\ pruned = {}
    /\ round = NewRound

-----------------------------------------------------------------------------
(* The buffer *)

\* saturating_sub
Cutoff == IF now >= WINDOW THEN now - WINDOW ELSE 0

Fresh(s) == {i \in 1 .. Len(s) : s[i].recorded_at >= Cutoff}

\* Mutant of prune_locked: lines are dropped while they are fresh.
PruneBackwards(s) ==
    LET old == {i \in 1 .. Len(s) : s[i].recorded_at < Cutoff} IN
    IF old = {} THEN << >> ELSE SubSeq(s, Min(old), Len(s))

\* Mutant of prune_locked: nothing is dropped.
PruneNothing(s) == s

\* Lines leave from the front until the first one inside the window.
prune_locked(s) ==
    IF Fresh(s) = {} THEN << >> ELSE SubSeq(s, Min(Fresh(s)), Len(s))

Aged(s) == {s[i].recorded_at : i \in 1 .. (Len(s) - Len(prune_locked(s)))}

\* The events event_line makes a line of.
HasLine(e) == e.function \in {"tcp_sendmsg", "tcp_close"} /\ e.sock

event_line(e) ==
    [function |-> e.function, src |-> e.src, dst |-> e.dst, dport |-> e.dport,
     bytes |-> IF e.function = "tcp_sendmsg" THEN e.bytes ELSE 0]

MakeRoom(s) == IF Len(s) >= MAX_BUFFERED THEN Tail(s) ELSE s

\* connect_and_stream, one message: prune, make room and append, all under
\* the lock.  An event that yields no line changes nothing.
Push(e) ==
    LET kept == prune_locked(lines) IN
    /\ HasLine(e)
    /\ pushes < MaxPushes
    /\ pushes' = pushes + 1
    /\ lines' = Append(MakeRoom(kept), [line |-> event_line(e), recorded_at |-> now])
    /\ pruned' = pruned \cup Aged(lines)
    /\ displaced' = (displaced \/ Len(kept) >= MAX_BUFFERED)
    /\ UNCHANGED <<now, back, round>>

Tick ==
    /\ now < MaxTime
    /\ now' = now + 1
    /\ UNCHANGED <<back, lines, pushes, displaced, pruned, round>>

SetBack(t) ==
    /\ t < now
    /\ back + (now - t) <= MaxBack
    /\ now' = t
    /\ back' = back + (now - t)
    /\ UNCHANGED <<lines, pushes, displaced, pruned, round>>

-----------------------------------------------------------------------------
(* A round *)

\* snapshot_ndjson: prune and copy under the lock.  The pod and service
\* lists of the round are behind it; one that failed is empty.
snapshot_ndjson(listing) ==
    /\ round.pc # "aggregate"
    /\ lines' = prune_locked(lines)
    /\ pruned' = pruned \cup Aged(lines)
    /\ displaced' = FALSE
    /\ round' = [NewRound EXCEPT !.pc = "aggregate", !.as_of = now, !.missing = displaced,
                                 !.listing = listing, !.body = prune_locked(lines)]
    /\ UNCHANGED <<now, back, pushes>>

\* parse_tetragon_record: the lines it accepts and what one adds to its edge.
Parses(line) == line.function \in {"tcp_sendmsg", "tcp_close"}

parse_tetragon_record(line) ==
    IF line.function = "tcp_sendmsg"
    THEN [bytes |-> line.bytes, packets |-> 1, connections |-> 0]
    ELSE [bytes |-> 0, packets |-> 0, connections |-> 1]

\* Hints are never set by the parsers, so the lists decide.
resolve_endpoint(ip) ==
    [kind |-> IF ip \in round.listing.pods THEN "pod"
              ELSE IF ip \in round.listing.services THEN "service" ELSE "unknown",
     ip   |-> ip]

KeyOf(line) ==
    [from |-> resolve_endpoint(line.src), to |-> resolve_endpoint(line.dst),
     dport |-> line.dport]

Saturating(n) == IF n > MaxU64 THEN MaxU64 ELSE n

\* agg.entry(key).or_insert_with(...), then the saturating sums.
Merge(agg, key, record) ==
    LET old == IF key \in DOMAIN agg THEN agg[key] ELSE NoAgg IN
    [k \in DOMAIN agg \cup {key} |->
        IF k # key THEN agg[k]
        ELSE [bytes       |-> Saturating(old.bytes + record.bytes),
              packets     |-> Saturating(old.packets + record.packets),
              connections |-> Saturating(old.connections + record.connections)]]

\* Mutant of EdgesFull: a full map takes no line, not even of a known edge.
EdgesFullForAll(key) == Cardinality(DOMAIN round.agg) >= MAX_EDGES

EdgesFull(key) ==
    Cardinality(DOMAIN round.agg) >= MAX_EDGES /\ key \notin DOMAIN round.agg

FanoutFull(key) ==
    /\ Cardinality(round.fanout[key.from]) >= MAX_FANOUT
    /\ key.to \notin round.fanout[key.from]
    /\ key \notin DOMAIN round.agg

Aggregate(r, key, record) ==
    [r EXCEPT !.agg = Merge(r.agg, key, record),
              !.fanout = [r.fanout EXCEPT ![key.from] = r.fanout[key.from] \cup {key.to}]]

\* Mutant of AfterLine: a line over the fanout is not counted.
AfterLineSkipsSilently(r, line) ==
    LET key == KeyOf(line) IN
    IF r.at >= MAX_LINES THEN [r EXCEPT !.line_cap = @ + 1]
    ELSE IF ~Parses(line) THEN [r EXCEPT !.failures = @ + 1]
    ELSE IF EdgesFull(key) THEN [r EXCEPT !.dropped = @ + 1]
    ELSE IF FanoutFull(key) THEN r
    ELSE Aggregate(r, key, parse_tetragon_record(line))

\* One line of the body, in the order of the checks.
AfterLine(r, line) ==
    LET key == KeyOf(line) IN
    IF r.at >= MAX_LINES THEN [r EXCEPT !.line_cap = @ + 1]
    ELSE IF ~Parses(line) THEN [r EXCEPT !.failures = @ + 1]
    ELSE IF EdgesFull(key) THEN [r EXCEPT !.dropped = @ + 1]
    ELSE IF FanoutFull(key) THEN [r EXCEPT !.skipped = @ + 1]
    ELSE Aggregate(r, key, parse_tetragon_record(line))

AggregateLine ==
    /\ round.pc = "aggregate"
    /\ round.at < Len(round.body)
    /\ round' = [AfterLine(round, round.body[round.at + 1].line) EXCEPT !.at = @ + 1]
    /\ UNCHANGED <<now, back, lines, pushes, displaced, pruned>>

FinishRound ==
    /\ round.pc = "aggregate"
    /\ round.at = Len(round.body)
    /\ round' = [round EXCEPT !.pc = "done"]
    /\ UNCHANGED <<now, back, lines, pushes, displaced, pruned>>

Next ==
    \/ \E e \in Event : Push(e)
    \/ Tick
    \/ \E t \in 0 .. MaxTime : SetBack(t)
    \/ \E listing \in Listing : snapshot_ndjson(listing)
    \/ AggregateLine
    \/ FinishRound

Spec == Init /\ [][Next]_vars

-----------------------------------------------------------------------------
(* What the inventory says *)

edges == round.agg
dropped_edges == round.dropped + round.line_cap + round.skipped
truncated == dropped_edges > 0

-----------------------------------------------------------------------------
(* Properties *)

\* What a round reports was recorded at most a window before the buffer was
\* copied, give or take what the clock was set back: prune_locked looks at
\* the front alone, and a line behind a newer one waits for it.
WindowBound ==
    \A i \in DOMAIN round.body :
        /\ round.body[i].recorded_at + WINDOW + back >= round.as_of
        /\ round.body[i].recorded_at <= round.as_of + back

\* A line dropped for its age was older than the window, by a clock that is
\* at most back ahead of the present one.
PrunedWereOld == \A t \in pruned : t + WINDOW < now + back

\* What makes the two inductive: the buffer is in the order of the clock, and
\* not ahead of it, up to what the clock was set back.
Ordered ==
    /\ \A i, j \in 1 .. Len(lines) :
           i < j => lines[i].recorded_at <= lines[j].recorded_at + back
    /\ \A i \in 1 .. Len(lines) : lines[i].recorded_at <= now + back

WindowInv == Ordered /\ WindowBound /\ PrunedWereOld

Flow(line) == <<line.src, line.dst, line.dport>>

LinesOf(flow) == {i \in DOMAIN round.body : Flow(round.body[i].line) = flow}

FlowOf(key) == <<key.from.ip, key.to.ip, key.dport>>

\* What line i of the copy adds to a counter of its edge.
Adds(i, what) == parse_tetragon_record(round.body[i].line)[what]

\* A line with what it adds, one pair for each byte, packet or connection:
\* there are as many pairs as the lines add up to.
Units(ids, what) == UNION {{i} \X (1 .. Adds(i, what)) : i \in ids}

Total(flow, what) == Cardinality(Units(LinesOf(flow), what))

Counter == {"bytes", "packets", "connections"}

\* An edge that is reported carries every line of its flow: the caps drop
\* flows as a whole, wherever in the buffer their lines are, and the sums
\* stop at the end of u64.
ReportedEdgesComplete ==
    round.pc = "done" =>
        \A key \in DOMAIN edges :
            \A what \in Counter :
                edges[key][what] = Saturating(Total(FlowOf(key), what))

\* dropped_edges counts the lines whose flow is not reported, so that truncated
\* is raised exactly when a flow of the copy is missing.  It is not a number
\* of edges: two lines of one edge are two, see DropsAreEdges.
DropsAreCounted ==
    round.pc = "done" =>
        dropped_edges = Cardinality({i \in DOMAIN round.body :
            \A key \in DOMAIN edges : FlowOf(key) # Flow(round.body[i].line)})

\* What makes DropsAreCounted inductive.  The buffer holds lines that parse,
\* and no more of them than a round deals with.
Parsable(s) == Len(s) <= MAX_BUFFERED /\ \A i \in 1 .. Len(s) : Parses(s[i].line)

\* Every edge is named by the lists of its round and counts in the fanout.
EdgesNamed ==
    \A key \in DOMAIN edges : /\ key.from = resolve_endpoint(key.from.ip)
                              /\ key.to = resolve_endpoint(key.to.ip)
                              /\ key.to \in round.fanout[key.from]

Missing == {i \in 1 .. round.at : KeyOf(round.body[i].line) \notin DOMAIN edges}

\* A flow that was refused once is refused for the rest of the round.
RefusedForGood ==
    \A i \in Missing : LET key == KeyOf(round.body[i].line)
                       IN  EdgesFull(key) \/ FanoutFull(key)

DropsInv ==
    /\ Parsable(lines) /\ Parsable(round.body)
    /\ EdgesNamed
    /\ RefusedForGood
    /\ dropped_edges = Cardinality(Missing)
    /\ round.pc = "done" => round.at = Len(round.body)

\* What makes ReportedEdgesComplete inductive, with DropsInv: an edge has the
\* sums of the lines dealt with so far, and none of its lines was refused.
LinesSoFar(key) == {i \in 1 .. round.at : KeyOf(round.body[i].line) = key}

SumsSoFar ==
    \A key \in DOMAIN edges : \A what \in Counter :
        edges[key][what] = Saturating(Cardinality(Units(LinesSoFar(key), what)))

SumsInv == DropsInv /\ SumsSoFar

\* SPEC.md 959-962, under the caps: "When any cap drops data:
\* dependencies.truncated = true".  The buffer's own cap counts nothing.
CapDropsAreReported ==
    round.pc = "done" /\ round.missing => truncated

\* SPEC.md:905, of dropped_edges: "Number of edges dropped due to cap
\* enforcement."  An edge is the flow of its lines.
DropsAreEdges ==
    round.pc = "done" =>
        dropped_edges = Cardinality({Flow(round.body[i].line) : i \in DOMAIN round.body}
                                        \ {FlowOf(key) : key \in DOMAIN edges})
=============================================================================
