----------------------- MODULE DependencyWindowProofs -----------------------
(***************************************************************************)
(* DependencyWindow proved for every window, every size of the buffer and  *)
(* any movement of the clock: what a round reports lies in its window up   *)
(* to what the clock was set back, nothing fresher was pruned, an edge     *)
(* that is reported has every line of its flow, and dropped_edges counts   *)
(* the lines whose flow a round leaves out.                                *)
(***************************************************************************)
EXTENDS DependencyWindow, TLAPS, SequenceTheorems, FiniteSetTheorems, WellFoundedInduction

-----------------------------------------------------------------------------
(* Pruning *)

\* A non-empty set of naturals has a least element, and Min is it.
LEMMA MinOfNat ==
    ASSUME NEW S \in SUBSET Nat, S # {}
    PROVE  Min(S) \in S /\ \A y \in S : Min(S) <= y
<1>1. PICK x \in S : \A y \in S : ~ (<<y, x>> \in OpToRel(<, Nat))
  BY NatLessThanWellFounded, WFMin
<1>2. ASSUME NEW y \in S PROVE x <= y
  <2>1. x \in Nat /\ y \in Nat
    OBVIOUS
  <2>2. <<y, x>> \in OpToRel(<, Nat) <=> y < x
    BY <2>1 DEF OpToRel
  <2>3. ~ (<<y, x>> \in OpToRel(<, Nat))
    BY <1>1, Zenon
  <2>4. ~ (y < x)
    BY <2>2, <2>3, Zenon
  <2> QED
    BY <2>1, <2>4
<1> QED
  BY <1>2 DEF Min

\* prune_locked leaves a suffix: what goes is older than the cutoff, and
\* the first line that stays is not.
LEMMA PruneIsSuffix ==
    ASSUME NEW s \in Seq(Buffered), now \in Nat
    PROVE  \E k \in 1 .. Len(s) + 1 :
              /\ prune_locked(s) = SubSeq(s, k, Len(s))
              /\ prune_locked(s) \in Seq(Buffered)
              /\ Len(prune_locked(s)) = Len(s) - k + 1
              /\ \A i \in 1 .. Len(prune_locked(s)) : prune_locked(s)[i] = s[i + k - 1]
              /\ \A i \in 1 .. Len(s) : i < k => s[i].recorded_at < Cutoff
              /\ k <= Len(s) => s[k].recorded_at >= Cutoff
              /\ Aged(s) = {s[i].recorded_at : i \in 1 .. (k - 1)}
<1>0. /\ Len(s) \in Nat
      /\ \A i \in 1 .. Len(s) : s[i] \in Buffered /\ s[i].recorded_at \in Nat
      /\ Cutoff \in Nat
  <2>1. Len(s) \in Nat /\ \A i \in 1 .. Len(s) : s[i] \in Buffered
    BY LenProperties, ElementOfSeq
  <2>2. Cutoff \in Nat
    BY WindowAssumption DEF Cutoff
  <2> QED
    BY <2>1, <2>2 DEF Buffered
<1>1. CASE Fresh(s) = {}
  <2>1. \A i \in 1 .. Len(s) : s[i].recorded_at < Cutoff
    BY <1>0, <1>1 DEF Fresh
  <2>2. /\ prune_locked(s) = << >>
        /\ SubSeq(s, Len(s) + 1, Len(s)) = << >>
        /\ Len(prune_locked(s)) = 0
    BY <1>0, <1>1, SubSeqEmpty DEF prune_locked
  <2>3. Aged(s) = {s[i].recorded_at : i \in 1 .. Len(s)}
    BY <1>0, <2>2 DEF Aged
  <2>4. prune_locked(s) \in Seq(Buffered)
    BY <2>2, EmptySeq
  <2>5. WITNESS Len(s) + 1 \in 1 .. Len(s) + 1
  <2> QED
    BY <1>0, <2>1, <2>2, <2>3, <2>4
<1>2. CASE Fresh(s) # {}
  <2> DEFINE k == Min(Fresh(s))
  <2>1. Fresh(s) \in SUBSET Nat
    BY <1>0 DEF Fresh
  <2>2. k \in Fresh(s) /\ \A y \in Fresh(s) : k <= y
    BY <1>2, <2>1, MinOfNat
  <2>3. k \in 1 .. Len(s) /\ s[k].recorded_at >= Cutoff
    BY <2>2 DEF Fresh
  <2>4. \A i \in 1 .. Len(s) : i < k => s[i].recorded_at < Cutoff
    BY <1>0, <2>2, <2>3 DEF Fresh
  <2>5. prune_locked(s) = SubSeq(s, k, Len(s))
    BY <1>2 DEF prune_locked
  <2> HIDE DEF k
  <2>6. /\ SubSeq(s, k, Len(s)) \in Seq(Buffered)
        /\ Len(SubSeq(s, k, Len(s))) = Len(s) - k + 1
        /\ \A i \in 1 .. Len(s) - k + 1 : SubSeq(s, k, Len(s))[i] = s[k + i - 1]
    <3>1. \A i \in k .. Len(s) : s[i] \in Buffered
      BY <1>0, <2>3
    <3>2. k \in Int /\ Len(s) \in Int /\ k <= Len(s)
      BY <1>0, <2>3
    <3> QED
      BY <1>0, <2>3, <3>1, <3>2, SubSeqProperties
  <2>7. Aged(s) = {s[i].recorded_at : i \in 1 .. (k - 1)}
    <3>1. Len(s) - Len(prune_locked(s)) = k - 1
      BY <1>0, <2>3, <2>5, <2>6
    <3>2. Aged(s) = {s[i].recorded_at : i \in 1 .. (Len(s) - Len(prune_locked(s)))}
      BY DEF Aged
    <3> QED
      BY <3>1, <3>2, Zenon
  <2>8. \A i \in 1 .. Len(prune_locked(s)) : prune_locked(s)[i] = s[i + k - 1]
    BY <1>0, <2>3, <2>5, <2>6
  <2>9. k \in 1 .. Len(s) + 1
    BY <1>0, <2>3
  <2>10. /\ prune_locked(s) \in Seq(Buffered)
         /\ Len(prune_locked(s)) = Len(s) - k + 1
    BY <2>5, <2>6
  <2> QED
    BY <2>3, <2>4, <2>5, <2>7, <2>8, <2>9, <2>10, Zenon
<1> QED
  BY <1>1, <1>2

-----------------------------------------------------------------------------
(* Type correctness *)

\* What event_line makes of an event is a line.
LEMMA EventLineType ==
    ASSUME NEW e \in Event, HasLine(e)
    PROVE  event_line(e) \in Line
<1>1. e \in EventType
  BY WindowAssumption
<1> QED
  BY <1>1 DEF event_line, EventType, Line

\* The map of edges after a line.
LEMMA MergeType ==
    ASSUME NEW K \in SUBSET EdgeKey, NEW agg \in [K -> EdgeAgg],
           NEW key \in EdgeKey, NEW record \in EdgeAgg
    PROVE  /\ Merge(agg, key, record) \in [K \cup {key} -> EdgeAgg]
           /\ DOMAIN Merge(agg, key, record) = DOMAIN agg \cup {key}
<1>1. \A n \in Nat : Saturating(n) \in Nat
  BY WindowAssumption DEF Saturating
<1>2. NoAgg \in EdgeAgg /\ DOMAIN agg = K
  BY DEF NoAgg, EdgeAgg
<1> DEFINE old == IF key \in DOMAIN agg THEN agg[key] ELSE NoAgg
           new == [bytes       |-> Saturating(old.bytes + record.bytes),
                   packets     |-> Saturating(old.packets + record.packets),
                   connections |-> Saturating(old.connections + record.connections)]
<1>3. old \in EdgeAgg
  BY <1>2
<1>4. Merge(agg, key, record) = [k \in DOMAIN agg \cup {key} |-> IF k # key THEN agg[k] ELSE new]
  BY DEF Merge
<1> HIDE DEF old
<1>5. new \in EdgeAgg
  <2>1. /\ old.bytes + record.bytes \in Nat
        /\ old.packets + record.packets \in Nat
        /\ old.connections + record.connections \in Nat
    BY <1>3 DEF EdgeAgg
  <2> QED
    BY <1>1, <2>1 DEF EdgeAgg
<1> HIDE DEF new
<1> QED
  BY <1>2, <1>4, <1>5

\* The key of a line names endpoints by the lists of the round.
LEMMA KeyType ==
    ASSUME round \in Round, NEW line \in Line
    PROVE  KeyOf(line) \in EdgeKey /\ parse_tetragon_record(line) \in EdgeAgg
<1>1. \A ip \in Ip : resolve_endpoint(ip) \in Endpoint
  BY DEF resolve_endpoint, Endpoint
<1>2. line.src \in Ip /\ line.dst \in Ip /\ line.dport \in Nat /\ line.bytes \in Nat
  BY DEF Line
<1>3. KeyOf(line) \in EdgeKey
  BY <1>1, <1>2 DEF KeyOf, EdgeKey
<1> QED
  BY <1>2, <1>3 DEF parse_tetragon_record, EdgeAgg

\* A line changes the counters or the edges and leaves the rest of the round.
LEMMA AfterLineType ==
    ASSUME round \in Round, NEW line \in Line
    PROVE  /\ AfterLine(round, line) \in Round
           /\ AfterLine(round, line).body = round.body
           /\ AfterLine(round, line).at = round.at
           /\ AfterLine(round, line).as_of = round.as_of
<1> DEFINE key == KeyOf(line)
           record == parse_tetragon_record(line)
           merged == Merge(round.agg, key, record)
<1>1. key \in EdgeKey /\ record \in EdgeAgg
  BY KeyType
<1>2. PICK K \in SUBSET EdgeKey : round.agg \in [K -> EdgeAgg]
  <2>1. round.agg \in EdgeMap
    BY DEF Round
  <2> QED
    BY <2>1, Zenon DEF EdgeMap
<1>3. merged \in [K \cup {key} -> EdgeAgg] /\ K \cup {key} \in SUBSET EdgeKey
  BY <1>1, <1>2, MergeType
<1>4. merged \in EdgeMap
  BY <1>3, Zenon DEF EdgeMap
<1>5. key.from \in Endpoint /\ key.to \in Endpoint
  BY <1>1 DEF EdgeKey
<1>6. Aggregate(round, key, record) =
        [round EXCEPT !.agg = merged,
                      !.fanout = [round.fanout EXCEPT ![key.from] = round.fanout[key.from] \cup {key.to}]]
  BY DEF Aggregate
<1>7. /\ round.fanout \in Fanout
      /\ round.failures \in Nat /\ round.line_cap \in Nat
      /\ round.dropped \in Nat /\ round.skipped \in Nat
  BY DEF Round
<1> HIDE DEF key, record, merged
<1>8. [round.fanout EXCEPT ![key.from] = round.fanout[key.from] \cup {key.to}]
          \in Fanout
  BY <1>5, <1>7 DEF Fanout
<1>9. /\ Aggregate(round, key, record) \in Round
      /\ Aggregate(round, key, record).body = round.body
      /\ Aggregate(round, key, record).at = round.at
      /\ Aggregate(round, key, record).as_of = round.as_of
  BY <1>4, <1>6, <1>8 DEF Round
<1>10. /\ [round EXCEPT !.line_cap = @ + 1] \in Round
       /\ [round EXCEPT !.failures = @ + 1] \in Round
       /\ [round EXCEPT !.dropped = @ + 1] \in Round
       /\ [round EXCEPT !.skipped = @ + 1] \in Round
  <2>1. [round EXCEPT !.line_cap = @ + 1] \in Round
    <3>1. round.line_cap + 1 \in Nat
      BY <1>7
    <3> QED
      BY <3>1 DEF Round
  <2>2. [round EXCEPT !.failures = @ + 1] \in Round
    BY <1>7 DEF Round
  <2>3. [round EXCEPT !.dropped = @ + 1] \in Round
    BY <1>7 DEF Round
  <2>4. [round EXCEPT !.skipped = @ + 1] \in Round
    BY <1>7 DEF Round
  <2> QED
    BY <2>1, <2>2, <2>3, <2>4
<1>11. AfterLine(round, line) =
         IF round.at >= MAX_LINES THEN [round EXCEPT !.line_cap = @ + 1]
         ELSE IF ~Parses(line) THEN [round EXCEPT !.failures = @ + 1]
         ELSE IF EdgesFull(key) THEN [round EXCEPT !.dropped = @ + 1]
         ELSE IF FanoutFull(key) THEN [round EXCEPT !.skipped = @ + 1]
         ELSE Aggregate(round, key, record)
  BY DEF AfterLine, key, record
<1> QED
  BY <1>9, <1>10, <1>11 DEF Round

LEMMA MoveOn ==
    ASSUME NEW r \in Round
    PROVE  LET s == [r EXCEPT !.at = r.at + 1]
           IN  s \in Round /\ s.at = r.at + 1 /\ s.body = r.body /\ s.as_of = r.as_of
<1>1. r.at + 1 \in Nat
  BY DEF Round
<1> QED
  BY <1>1 DEF Round

LEMMA InitType == Init => TypeOK
<1> SUFFICES ASSUME Init PROVE TypeOK
  OBVIOUS
<1>1. [k \in {} |-> NoAgg] \in EdgeMap
  <2>1. [k \in {} |-> NoAgg] \in [{} -> EdgeAgg] /\ {} \in SUBSET EdgeKey
    OBVIOUS
  <2> QED
    BY <2>1, Zenon DEF EdgeMap
<1>2. [e \in Endpoint |-> {}] \in Fanout
  BY DEF Fanout
<1>3. NewRound \in Round /\ NewRound.at = 0 /\ Len(NewRound.body) = 0
  BY <1>1, <1>2 DEF NewRound, Round
<1>4. displaced \in BOOLEAN /\ lines \in Seq(Buffered) /\ pruned \subseteq Nat
  BY EmptySeq DEF Init
<1> QED
  BY <1>3, <1>4 DEF Init, TypeOK

\* A copy of the buffer starts a well-formed round.
LEMMA SnapshotType ==
    ASSUME now \in Nat, displaced \in BOOLEAN, NEW listing \in Listing,
           NEW body \in Seq(Buffered)
    PROVE  LET r == [NewRound EXCEPT !.pc = "aggregate", !.as_of = now, !.missing = displaced,
                                     !.listing = listing, !.body = body]
           IN  r \in Round /\ r.at = 0 /\ r.body = body /\ r.as_of = now
<1>1. [k \in {} |-> NoAgg] \in EdgeMap
  <2>1. [k \in {} |-> NoAgg] \in [{} -> EdgeAgg] /\ {} \in SUBSET EdgeKey
    OBVIOUS
  <2> QED
    BY <2>1, Zenon DEF EdgeMap
<1>2. [e \in Endpoint |-> {}] \in Fanout
  BY DEF Fanout
<1>3. listing \in [pods : SUBSET Ip, services : SUBSET Ip]
  BY WindowAssumption
<1> QED
  BY <1>1, <1>2, <1>3 DEF NewRound, Round

\* What Push leaves in the buffer: a suffix of the old lines and the new one.
LEMMA PushKeeps ==
    ASSUME NEW s \in Seq(Buffered), NEW x \in Buffered
    PROVE  /\ Append(MakeRoom(s), x) \in Seq(Buffered)
           /\ \E d \in 0 .. Len(s) :
                 /\ Len(s) >= MAX_BUFFERED => d = 1
                 /\ Len(Append(MakeRoom(s), x)) = Len(s) - d + 1
                 /\ Append(MakeRoom(s), x)[Len(s) - d + 1] = x
                 /\ \A i \in 1 .. Len(s) - d : Append(MakeRoom(s), x)[i] = s[i + d]
<1> DEFINE m == MakeRoom(s)
<1>0. Len(s) \in Nat /\ MAX_BUFFERED \in Nat \ {0}
  BY LenProperties, WindowAssumption
<1>1. \E d \in 0 .. Len(s) :
         /\ Len(s) >= MAX_BUFFERED => d = 1
         /\ m \in Seq(Buffered) /\ Len(m) = Len(s) - d
         /\ \A i \in 1 .. Len(s) - d : m[i] = s[i + d]
  <2>1. CASE Len(s) >= MAX_BUFFERED
    <3>1. s # << >>
      BY <1>0, <2>1
    <3>2. /\ Tail(s) \in Seq(Buffered) /\ Len(Tail(s)) = Len(s) - 1
          /\ \A i \in 1 .. Len(s) - 1 : Tail(s)[i] = s[i + 1]
      BY <3>1, HeadTailProperties
    <3>3. 1 \in 0 .. Len(s)
      BY <1>0, <2>1
    <3>4. m = Tail(s)
      BY <2>1 DEF MakeRoom
    <3> QED
      BY <3>2, <3>3, <3>4
  <2>2. CASE ~(Len(s) >= MAX_BUFFERED)
    <3>1. m = s
      BY <2>2 DEF MakeRoom
    <3>2. 0 \in 0 .. Len(s) /\ Len(s) = Len(s) - 0 /\ \A i \in 1 .. Len(s) : i = i + 0
      BY <1>0
    <3> QED
      BY <2>2, <3>1, <3>2
  <2> QED
    BY <2>1, <2>2
<1>2. PICK d \in 0 .. Len(s) :
         /\ Len(s) >= MAX_BUFFERED => d = 1
         /\ m \in Seq(Buffered) /\ Len(m) = Len(s) - d
         /\ \A i \in 1 .. Len(s) - d : m[i] = s[i + d]
  BY <1>1
<1> HIDE DEF m
<1>3. /\ Append(m, x) \in Seq(Buffered)
      /\ Len(Append(m, x)) = Len(m) + 1
      /\ \A i \in 1 .. Len(m) : Append(m, x)[i] = m[i]
      /\ Append(m, x)[Len(m) + 1] = x
  BY <1>2, AppendProperties
<1>4. /\ Append(m, x) \in Seq(Buffered)
      /\ Len(Append(m, x)) = Len(s) - d + 1
      /\ Append(m, x)[Len(s) - d + 1] = x
      /\ \A i \in 1 .. Len(s) - d : Append(m, x)[i] = s[i + d]
  BY <1>0, <1>2, <1>3
<1> QED
  BY <1>2, <1>4 DEF m

LEMMA NextType == TypeOK /\ [Next]_vars => TypeOK'
<1> SUFFICES ASSUME TypeOK, [Next]_vars PROVE TypeOK'
  OBVIOUS
<1>0. prune_locked(lines) \in Seq(Buffered) /\ Aged(lines) \subseteq Nat
  <2>1. lines \in Seq(Buffered) /\ now \in Nat
    BY DEF TypeOK
  <2>2. PICK k \in 1 .. Len(lines) + 1 :
          /\ prune_locked(lines) \in Seq(Buffered)
          /\ Aged(lines) = {lines[i].recorded_at : i \in 1 .. (k - 1)}
    BY <2>1, PruneIsSuffix
  <2>3. \A i \in 1 .. (k - 1) : lines[i].recorded_at \in Nat
    <3>1. Len(lines) \in Nat /\ \A i \in 1 .. Len(lines) : lines[i] \in Buffered
      BY <2>1, LenProperties, ElementOfSeq
    <3> QED
      BY <3>1 DEF Buffered
  <2> QED
    BY <2>2, <2>3
<1>1. ASSUME NEW e \in Event, Push(e) PROVE TypeOK'
  <2>1. [line |-> event_line(e), recorded_at |-> now] \in Buffered
    BY <1>1, EventLineType DEF Push, Buffered, TypeOK
  <2>2. lines' \in Seq(Buffered)
    BY <1>0, <1>1, <2>1, PushKeeps DEF Push
  <2>3. pruned' \subseteq Nat
    BY <1>0, <1>1 DEF Push, TypeOK
  <2>4. displaced' \in BOOLEAN
    BY <1>1, Zenon DEF Push
  <2> QED
    BY <1>1, <2>2, <2>3, <2>4 DEF Push, TypeOK
<1>2. CASE Tick
  BY <1>2 DEF Tick, TypeOK
<1>3. ASSUME NEW t \in 0 .. MaxTime, SetBack(t) PROVE TypeOK'
  <2>1. t \in Nat /\ back + (now - t) \in Nat
    BY <1>3, WindowAssumption DEF SetBack, TypeOK
  <2> QED
    BY <1>3, <2>1 DEF SetBack, TypeOK
<1>4. ASSUME NEW listing \in Listing, snapshot_ndjson(listing) PROVE TypeOK'
  <2>1. round' \in Round /\ round'.at = 0 /\ round'.body = prune_locked(lines)
    BY <1>0, <1>4, SnapshotType DEF snapshot_ndjson, TypeOK
  <2>2. Len(round'.body) \in Nat
    BY <1>0, <2>1, LenProperties
  <2>3. displaced' \in BOOLEAN /\ lines' \in Seq(Buffered)
    BY <1>0, <1>4 DEF snapshot_ndjson
  <2>4. pruned' \subseteq Nat
    BY <1>0, <1>4 DEF snapshot_ndjson, TypeOK
  <2>5. UNCHANGED <<now, back, pushes>>
    BY <1>4 DEF snapshot_ndjson
  <2> QED
    BY <2>1, <2>2, <2>3, <2>4, <2>5 DEF TypeOK
<1>5. CASE AggregateLine
  <2>1. /\ round \in Round /\ round.at \in Nat
        /\ round.body \in Seq(Buffered)
        /\ Len(round.body) \in Nat
    BY LenProperties DEF TypeOK, Round
  <2>2. round.body[round.at + 1] \in Buffered
    BY <1>5, <2>1, ElementOfSeq DEF AggregateLine
  <2> DEFINE r == AfterLine(round, round.body[round.at + 1].line)
  <2>3. r \in Round /\ r.body = round.body /\ r.at = round.at
    BY <2>1, <2>2, AfterLineType DEF Buffered
  <2>4. round' = [r EXCEPT !.at = r.at + 1]
    BY <1>5 DEF AggregateLine
  <2> HIDE DEF r
  <2>5. round' \in Round /\ round'.at = round.at + 1 /\ round'.body = round.body
    BY <2>1, <2>3, <2>4, MoveOn
  <2> QED
    BY <1>5, <2>1, <2>5 DEF AggregateLine, TypeOK
<1>6. CASE FinishRound
  <2>1. round' \in Round /\ round'.at = round.at /\ round'.body = round.body
    BY <1>6 DEF FinishRound, TypeOK, Round
  <2> QED
    BY <1>6, <2>1 DEF FinishRound, TypeOK
<1>7. CASE UNCHANGED vars
  BY <1>7 DEF vars, TypeOK
<1> QED
  BY <1>1, <1>2, <1>3, <1>4, <1>5, <1>6, <1>7 DEF Next

\* Every reachable state of the buffer and of a round is well formed.
THEOREM TypeCorrect == Spec => []TypeOK
BY InitType, NextType, PTL DEF Spec

-----------------------------------------------------------------------------
(* The window *)

LEMMA BufferedTimes ==
    ASSUME NEW q \in Seq(Buffered)
    PROVE  /\ Len(q) \in Nat /\ DOMAIN q = 1 .. Len(q)
           /\ \A i \in 1 .. Len(q) : q[i].recorded_at \in Nat
<1>1. /\ Len(q) \in Nat /\ DOMAIN q = 1 .. Len(q)
      /\ \A i \in 1 .. Len(q) : q[i] \in Buffered
  BY LenProperties, ElementOfSeq
<1> QED
  BY <1>1 DEF Buffered

\* Pruning an ordered buffer leaves an ordered one inside the window, and
\* what it drops is older.
LEMMA PruneOrdered ==
    ASSUME TypeOK, Ordered
    PROVE  LET s == prune_locked(lines) IN
           /\ s \in Seq(Buffered)
           /\ \A i \in 1 .. Len(s) :
                 /\ s[i].recorded_at \in Nat
                 /\ s[i].recorded_at <= now + back
                 /\ s[i].recorded_at + WINDOW + back >= now
           /\ \A i, j \in 1 .. Len(s) : i < j => s[i].recorded_at <= s[j].recorded_at + back
           /\ \A t \in Aged(lines) : t + WINDOW < now
<1> DEFINE s == prune_locked(lines)
<1>1. lines \in Seq(Buffered) /\ now \in Nat /\ back \in Nat /\ WINDOW \in Nat
  BY WindowAssumption DEF TypeOK
<1>2. Len(lines) \in Nat /\ \A i \in 1 .. Len(lines) : lines[i].recorded_at \in Nat
  BY <1>1, BufferedTimes
<1>3. PICK k \in 1 .. Len(lines) + 1 :
        /\ s \in Seq(Buffered)
        /\ Len(s) = Len(lines) - k + 1
        /\ \A i \in 1 .. Len(s) : s[i] = lines[i + k - 1]
        /\ \A i \in 1 .. Len(lines) : i < k => lines[i].recorded_at < Cutoff
        /\ k <= Len(lines) => lines[k].recorded_at >= Cutoff
        /\ Aged(lines) = {lines[i].recorded_at : i \in 1 .. (k - 1)}
  BY <1>1, PruneIsSuffix
<1> HIDE DEF s
<1>4. Cutoff + WINDOW >= now /\ Cutoff \in Nat /\ (Cutoff > 0 => Cutoff + WINDOW = now)
  BY <1>1 DEF Cutoff
<1>5. \A i \in 1 .. Len(s) : i + k - 1 \in k .. Len(lines) /\ k \in 1 .. Len(lines)
  BY <1>2, <1>3
<1>6. \A i \in k .. Len(lines) : lines[i].recorded_at + WINDOW + back >= now
  <2> TAKE i \in k .. Len(lines)
  <2>1. k \in 1 .. Len(lines) /\ i \in 1 .. Len(lines)
    BY <1>2
  <2>2. lines[k].recorded_at <= lines[i].recorded_at + back
    BY <1>1, <1>2, <2>1 DEF Ordered
  <2>3. lines[k].recorded_at >= Cutoff
    BY <1>3, <2>1
  <2> QED
    BY <1>1, <1>2, <1>4, <2>1, <2>2, <2>3
<1>7. \A i \in 1 .. Len(s) :
        /\ s[i].recorded_at \in Nat
        /\ s[i].recorded_at <= now + back
        /\ s[i].recorded_at + WINDOW + back >= now
  <2> TAKE i \in 1 .. Len(s)
  <2>1. i + k - 1 \in k .. Len(lines) /\ i + k - 1 \in 1 .. Len(lines)
    BY <1>2, <1>3, <1>5
  <2>2. s[i] = lines[i + k - 1]
    BY <1>3
  <2> QED
    BY <1>2, <1>6, <2>1, <2>2 DEF Ordered
<1>8. \A i, j \in 1 .. Len(s) : i < j => s[i].recorded_at <= s[j].recorded_at + back
  <2> SUFFICES ASSUME NEW i \in 1 .. Len(s), NEW j \in 1 .. Len(s), i < j
               PROVE  s[i].recorded_at <= s[j].recorded_at + back
    OBVIOUS
  <2>1. /\ i + k - 1 \in 1 .. Len(lines) /\ j + k - 1 \in 1 .. Len(lines)
        /\ i + k - 1 < j + k - 1
    BY <1>2, <1>3
  <2>2. lines[i + k - 1].recorded_at <= lines[j + k - 1].recorded_at + back
    BY <2>1 DEF Ordered
  <2> QED
    BY <1>3, <2>2
<1>9. \A t \in Aged(lines) : t + WINDOW < now
  <2> SUFFICES ASSUME NEW t \in Aged(lines) PROVE t + WINDOW < now
    OBVIOUS
  <2>1. PICK i \in 1 .. (k - 1) : t = lines[i].recorded_at
    BY <1>3
  <2>2. i \in 1 .. Len(lines) /\ i < k
    BY <1>2
  <2>3. t \in Nat /\ t < Cutoff
    BY <1>2, <1>3, <2>1, <2>2
  <2> QED
    BY <1>1, <1>4, <2>3
<1> QED
  BY <1>3, <1>7, <1>8, <1>9 DEF s

LEMMA InitWindow == Init => WindowInv
<1> SUFFICES ASSUME Init PROVE WindowInv
  OBVIOUS
<1>1. Len(lines) = 0 /\ round.body = << >> /\ pruned = {}
  BY DEF Init, NewRound
<1>2. DOMAIN round.body = {}
  BY <1>1
<1> QED
  BY <1>1, <1>2 DEF WindowInv, Ordered, WindowBound, PrunedWereOld

\* What holds up to a clock set back by b holds up to one set back by more.
LEMMA SetBackWidens ==
    ASSUME NEW r \in Nat, NEW a \in Nat, NEW b \in Nat, NEW c \in Nat, NEW w \in Nat,
           b <= c, r + w + b >= a, r <= a + b
    PROVE  r + w + c >= a /\ r <= a + c
OBVIOUS

LEMMA NextWindow == TypeOK /\ WindowInv /\ [Next]_vars => WindowInv'
<1> SUFFICES ASSUME TypeOK, WindowInv, [Next]_vars PROVE WindowInv'
  OBVIOUS
<1>0. /\ now \in Nat /\ back \in Nat /\ WINDOW \in Nat
      /\ lines \in Seq(Buffered) /\ Len(lines) \in Nat
      /\ \A i \in 1 .. Len(lines) : lines[i].recorded_at \in Nat
      /\ round \in Round /\ round.as_of \in Nat
      /\ \A i \in DOMAIN round.body : round.body[i].recorded_at \in Nat
      /\ pruned \subseteq Nat
  <2>1. /\ now \in Nat /\ back \in Nat /\ WINDOW \in Nat /\ lines \in Seq(Buffered)
        /\ round \in Round /\ round.as_of \in Nat /\ round.body \in Seq(Buffered)
        /\ pruned \subseteq Nat
    BY WindowAssumption DEF TypeOK, Round
  <2> QED
    BY <2>1, BufferedTimes
<1>1. ASSUME NEW e \in Event, Push(e) PROVE WindowInv'
  <2> DEFINE s == prune_locked(lines)
             x == [line |-> event_line(e), recorded_at |-> now]
  <2>1. /\ s \in Seq(Buffered)
        /\ \A i \in 1 .. Len(s) :
              /\ s[i].recorded_at \in Nat
              /\ s[i].recorded_at <= now + back
        /\ \A i, j \in 1 .. Len(s) : i < j => s[i].recorded_at <= s[j].recorded_at + back
        /\ \A t \in Aged(lines) : t + WINDOW < now
    BY PruneOrdered DEF WindowInv
  <2>2. x \in Buffered /\ x.recorded_at = now
    BY <1>0, <1>1, EventLineType DEF Push, Buffered
  <2>3. lines' = Append(MakeRoom(s), x) /\ UNCHANGED <<now, back, round>>
        /\ pruned' = pruned \cup Aged(lines)
    BY <1>1 DEF Push
  <2> HIDE DEF s, x
  <2>4. PICK d \in 0 .. Len(s) :
          /\ Len(lines') = Len(s) - d + 1
          /\ lines'[Len(s) - d + 1] = x
          /\ \A i \in 1 .. Len(s) - d : lines'[i] = s[i + d]
    BY <2>1, <2>2, <2>3, PushKeeps
  <2>5. Len(s) \in Nat
    BY <2>1, LenProperties
  <2>6. ASSUME NEW i \in 1 .. Len(lines') PROVE lines'[i].recorded_at <= now + back
    <3>1. CASE i = Len(s) - d + 1
      BY <1>0, <2>2, <2>4, <3>1
    <3>2. CASE i # Len(s) - d + 1
      <4>1. i \in 1 .. Len(s) - d /\ i + d \in 1 .. Len(s)
        BY <2>4, <2>5, <3>2
      <4> QED
        BY <2>1, <2>4, <4>1
    <3> QED
      BY <3>1, <3>2
  <2>7. ASSUME NEW i \in 1 .. Len(lines'), NEW j \in 1 .. Len(lines'), i < j
        PROVE  lines'[i].recorded_at <= lines'[j].recorded_at + back
    <3>1. i \in 1 .. Len(s) - d /\ i + d \in 1 .. Len(s)
      BY <2>4, <2>5, <2>7
    <3>2. CASE j = Len(s) - d + 1
      BY <2>1, <2>2, <2>4, <3>1, <3>2
    <3>3. CASE j # Len(s) - d + 1
      <4>1. j \in 1 .. Len(s) - d /\ j + d \in 1 .. Len(s) /\ i + d < j + d
        <5>1. j \in 1 .. Len(s) - d + 1 /\ i \in Nat /\ d \in Nat /\ i < j
          BY <2>4, <2>5, <2>7, <3>1
        <5> QED
          BY <2>5, <3>3, <5>1
      <4>2. s[i + d].recorded_at <= s[j + d].recorded_at + back
        BY <2>1, <3>1, <4>1
      <4> QED
        BY <2>4, <3>1, <4>1, <4>2
    <3> QED
      BY <3>2, <3>3
  <2>8. Ordered'
    BY <2>3, <2>6, <2>7 DEF Ordered
  <2>9. PrunedWereOld'
    BY <1>0, <2>1, <2>3 DEF WindowInv, PrunedWereOld
  <2> QED
    BY <2>3, <2>8, <2>9 DEF WindowInv, WindowBound
<1>2. CASE Tick
  <2>1. now' = now + 1 /\ UNCHANGED <<back, lines, pruned, round>>
    BY <1>2 DEF Tick
  <2>2. Ordered'
    BY <1>0, <2>1 DEF WindowInv, Ordered
  <2>3. WindowBound'
    BY <2>1 DEF WindowInv, WindowBound
  <2>4. PrunedWereOld'
    BY <1>0, <2>1 DEF WindowInv, PrunedWereOld
  <2> QED
    BY <2>2, <2>3, <2>4 DEF WindowInv
<1>3. ASSUME NEW t \in 0 .. MaxTime, SetBack(t) PROVE WindowInv'
  <2>1. /\ t \in Nat /\ now' = t /\ back' = back + (now - t) /\ t < now
        /\ UNCHANGED <<lines, pruned, round>>
    BY <1>3, WindowAssumption DEF SetBack
  <2>2. back' \in Nat /\ now' + back' = now + back /\ back <= back'
    BY <1>0, <2>1
  <2>3. Ordered'
    <3>1. ASSUME NEW i \in 1 .. Len(lines), NEW j \in 1 .. Len(lines), i < j
          PROVE  lines[i].recorded_at <= lines[j].recorded_at + back'
      <4>1. lines[i].recorded_at <= lines[j].recorded_at + back
        BY <3>1 DEF WindowInv, Ordered
      <4> QED
        BY <1>0, <2>2, <4>1
    <3>2. ASSUME NEW i \in 1 .. Len(lines) PROVE lines[i].recorded_at <= now' + back'
      BY <1>0, <2>2 DEF WindowInv, Ordered
    <3> QED
      BY <2>1, <3>1, <3>2 DEF Ordered
  <2>4. WindowBound'
    <3>1. ASSUME NEW i \in DOMAIN round.body
          PROVE  /\ round.body[i].recorded_at + WINDOW + back' >= round.as_of
                 /\ round.body[i].recorded_at <= round.as_of + back'
      <4>1. /\ round.body[i].recorded_at + WINDOW + back >= round.as_of
            /\ round.body[i].recorded_at <= round.as_of + back
            /\ round.body[i].recorded_at \in Nat
        BY <1>0 DEF WindowInv, WindowBound
      <4>2. back \in Nat /\ back' \in Nat /\ WINDOW \in Nat /\ round.as_of \in Nat
        BY <1>0, <2>2, WindowAssumption
      <4> QED
        BY <2>2, <4>1, <4>2, SetBackWidens
    <3> QED
      BY <2>1, <3>1 DEF WindowBound
  <2>5. PrunedWereOld'
    BY <1>0, <2>1, <2>2 DEF WindowInv, PrunedWereOld
  <2> QED
    BY <2>3, <2>4, <2>5 DEF WindowInv
<1>4. ASSUME NEW listing \in Listing, snapshot_ndjson(listing) PROVE WindowInv'
  <2> DEFINE s == prune_locked(lines)
  <2>1. /\ s \in Seq(Buffered)
        /\ \A i \in 1 .. Len(s) :
              /\ s[i].recorded_at \in Nat
              /\ s[i].recorded_at <= now + back
              /\ s[i].recorded_at + WINDOW + back >= now
        /\ \A i, j \in 1 .. Len(s) : i < j => s[i].recorded_at <= s[j].recorded_at + back
        /\ \A t \in Aged(lines) : t + WINDOW < now
    BY PruneOrdered DEF WindowInv
  <2>2. round'.body = s /\ round'.as_of = now
    BY <1>4, <2>1, SnapshotType DEF snapshot_ndjson, TypeOK
  <2>3. lines' = s /\ UNCHANGED <<now, back>> /\ pruned' = pruned \cup Aged(lines)
    BY <1>4 DEF snapshot_ndjson
  <2> HIDE DEF s
  <2>4. DOMAIN s = 1 .. Len(s)
    BY <2>1, LenProperties
  <2>5. Ordered'
    BY <2>1, <2>3 DEF Ordered
  <2>6. WindowBound'
    BY <2>1, <2>2, <2>3, <2>4 DEF WindowBound
  <2>7. PrunedWereOld'
    BY <1>0, <2>1, <2>3 DEF WindowInv, PrunedWereOld
  <2> QED
    BY <2>5, <2>6, <2>7 DEF WindowInv
<1>5. CASE AggregateLine
  <2>1. /\ round.body \in Seq(Buffered) /\ Len(round.body) \in Nat /\ round.at \in Nat
    BY <1>0, LenProperties DEF Round
  <2>2. round.body[round.at + 1] \in Buffered
    BY <1>5, <2>1, ElementOfSeq DEF AggregateLine
  <2> DEFINE r == AfterLine(round, round.body[round.at + 1].line)
  <2>3. r \in Round /\ r.body = round.body /\ r.as_of = round.as_of
    BY <1>0, <2>2, AfterLineType DEF Buffered
  <2>4. round' = [r EXCEPT !.at = r.at + 1]
    BY <1>5 DEF AggregateLine
  <2> HIDE DEF r
  <2>5. round'.body = round.body /\ round'.as_of = round.as_of
    BY <2>3, <2>4, MoveOn
  <2>6. UNCHANGED <<now, back, lines, pruned>>
    BY <1>5 DEF AggregateLine
  <2> QED
    BY <2>5, <2>6 DEF WindowInv, Ordered, WindowBound, PrunedWereOld
<1>6. CASE FinishRound
  <2>1. round'.body = round.body /\ round'.as_of = round.as_of
    BY <1>0, <1>6 DEF FinishRound, Round
  <2>2. UNCHANGED <<now, back, lines, pruned>>
    BY <1>6 DEF FinishRound
  <2> QED
    BY <2>1, <2>2 DEF WindowInv, Ordered, WindowBound, PrunedWereOld
<1>7. CASE UNCHANGED vars
  BY <1>7 DEF vars, WindowInv, Ordered, WindowBound, PrunedWereOld
<1> QED
  BY <1>1, <1>2, <1>3, <1>4, <1>5, <1>6, <1>7 DEF Next

THEOREM WindowInvariant == Spec => [](TypeOK /\ WindowInv)
BY InitType, NextType, InitWindow, NextWindow, PTL DEF Spec

\* What a round reports lies within the window of its copy of the buffer, up
\* to what the clock was set back (snapshot_ndjson and prune_locked).
THEOREM ReportsWithinWindow == Spec => []WindowBound
<1>1. WindowInv => WindowBound
  BY DEF WindowInv
<1> QED
  BY <1>1, WindowInvariant, PTL

\* A line that prune_locked drops for its age was older than the window, up
\* to what the clock was set back.
THEOREM OnlyOldIsPruned == Spec => []PrunedWereOld
<1>1. WindowInv => PrunedWereOld
  BY DEF WindowInv
<1> QED
  BY <1>1, WindowInvariant, PTL

-----------------------------------------------------------------------------
(* The count of what is left out *)

LEMMA PruneParsable ==
    ASSUME NEW s \in Seq(Buffered), now \in Nat, Parsable(s)
    PROVE  Parsable(prune_locked(s))
<1>1. PICK k \in 1 .. Len(s) + 1 :
        /\ prune_locked(s) \in Seq(Buffered)
        /\ Len(prune_locked(s)) = Len(s) - k + 1
        /\ \A i \in 1 .. Len(prune_locked(s)) : prune_locked(s)[i] = s[i + k - 1]
  BY PruneIsSuffix
<1>2. Len(s) \in Nat /\ MAX_BUFFERED \in Nat
  BY LenProperties, WindowAssumption
<1>3. Len(prune_locked(s)) <= MAX_BUFFERED
  BY <1>1, <1>2 DEF Parsable
<1>4. ASSUME NEW i \in 1 .. Len(prune_locked(s)) PROVE Parses(prune_locked(s)[i].line)
  <2>1. i + k - 1 \in 1 .. Len(s)
    BY <1>1, <1>2
  <2> QED
    BY <1>1, <2>1 DEF Parsable
<1> QED
  BY <1>3, <1>4 DEF Parsable

LEMMA PushParsable ==
    ASSUME NEW s \in Seq(Buffered), NEW x \in Buffered, Parsable(s), Parses(x.line)
    PROVE  Parsable(Append(MakeRoom(s), x))
<1> DEFINE new == Append(MakeRoom(s), x)
<1>1. PICK d \in 0 .. Len(s) :
        /\ Len(s) >= MAX_BUFFERED => d = 1
        /\ Len(new) = Len(s) - d + 1
        /\ new[Len(s) - d + 1] = x
        /\ \A i \in 1 .. Len(s) - d : new[i] = s[i + d]
  BY PushKeeps
<1> HIDE DEF new
<1>2. Len(s) \in Nat /\ MAX_BUFFERED \in Nat
  BY LenProperties, WindowAssumption
<1>3. Len(new) <= MAX_BUFFERED
  BY <1>1, <1>2 DEF Parsable
<1>4. ASSUME NEW i \in 1 .. Len(new) PROVE Parses(new[i].line)
  <2>1. CASE i = Len(s) - d + 1
    BY <1>1, <2>1
  <2>2. CASE i # Len(s) - d + 1
    <3>1. d \in 0 .. Len(s) /\ i \in 1 .. Len(s) - d + 1
      BY <1>1
    <3>2. i \in 1 .. Len(s) - d /\ i + d \in 1 .. Len(s)
      BY <1>2, <2>2, <3>1
    <3> QED
      BY <1>1, <3>2 DEF Parsable
  <2> QED
    BY <2>1, <2>2
<1>5. Parsable(new)
  BY <1>3, <1>4 DEF Parsable
<1> QED
  BY <1>5 DEF new

\* A round that has just begun has left nothing out.
LEMMA FreshRound ==
    ASSUME round.at = 0, round.agg = [k \in {} |-> NoAgg], Parsable(lines),
           Parsable(round.body), round.pc # "done",
           round.dropped = 0, round.line_cap = 0, round.skipped = 0
    PROVE  DropsInv
<1>1. DOMAIN edges = {} /\ Missing = {} /\ dropped_edges = 0
  BY DEF edges, Missing, dropped_edges
<1>2. Cardinality({}) = 0
  BY FS_EmptySet
<1> QED
  BY <1>1, <1>2 DEF DropsInv, EdgesNamed, RefusedForGood

LEMMA InitDrops == Init => DropsInv
<1> SUFFICES ASSUME Init PROVE DropsInv
  OBVIOUS
<1>1. /\ round.at = 0 /\ round.agg = [k \in {} |-> NoAgg] /\ round.pc = "idle"
      /\ round.dropped = 0 /\ round.line_cap = 0 /\ round.skipped = 0
      /\ Len(lines) = 0 /\ Len(round.body) = 0
  BY DEF Init, NewRound
<1>2. Parsable(lines) /\ Parsable(round.body)
  BY <1>1, WindowAssumption DEF Parsable
<1> QED
  BY <1>1, <1>2, FreshRound

\* The lines a round leaves out are finitely many.
LEMMA MissingFinite ==
    ASSUME TypeOK
    PROVE  IsFiniteSet(Missing) /\ Cardinality(Missing) \in Nat
<1>1. round.at \in Nat
  BY DEF TypeOK, Round
<1>2. IsFiniteSet(1 .. round.at)
  BY <1>1, FS_Interval
<1>3. Missing \in SUBSET (1 .. round.at)
  BY DEF Missing
<1>4. IsFiniteSet(Missing)
  BY <1>2, <1>3, FS_Subset
<1> QED
  BY <1>4, FS_CardinalityType

\* What a line does to the round: it is counted as left out, or its edge is
\* in the map and in the fanout of its source.
LEMMA LineEffect ==
    ASSUME TypeOK, DropsInv, AggregateLine
    PROVE  LET key == KeyOf(round.body[round.at + 1].line) IN
           /\ key \in EdgeKey
           /\ round'.pc = "aggregate" /\ round'.at = round.at + 1
           /\ round'.body = round.body /\ round'.listing = round.listing
           /\ \/ /\ EdgesFull(key) \/ FanoutFull(key)
                 /\ round'.agg = round.agg /\ round'.fanout = round.fanout
                 /\ dropped_edges' = dropped_edges + 1
              \/ /\ ~EdgesFull(key) /\ ~FanoutFull(key)
                 /\ round'.agg = Merge(round.agg, key,
                                       parse_tetragon_record(round.body[round.at + 1].line))
                 /\ DOMAIN round'.agg = DOMAIN round.agg \cup {key}
                 /\ round'.fanout =
                        [round.fanout EXCEPT ![key.from] = round.fanout[key.from] \cup {key.to}]
                 /\ dropped_edges' = dropped_edges
<1> DEFINE line == round.body[round.at + 1].line
           key == KeyOf(line)
           record == parse_tetragon_record(line)
           r == AfterLine(round, line)
<1>1. /\ round \in Round /\ round.body \in Seq(Buffered) /\ round.at \in Nat
      /\ Len(round.body) \in Nat /\ round.pc = "aggregate"
      /\ round.at < Len(round.body)
      /\ round.dropped \in Nat /\ round.line_cap \in Nat /\ round.skipped \in Nat
  BY LenProperties DEF TypeOK, Round, AggregateLine
<1>2. round.at + 1 \in 1 .. Len(round.body)
  BY <1>1
<1>3. line \in Line /\ Parses(line)
  <2>1. round.body[round.at + 1] \in Buffered
    BY <1>1, <1>2, ElementOfSeq
  <2> QED
    BY <1>2, <2>1 DEF Buffered, DropsInv, Parsable
<1>4. ~(round.at >= MAX_LINES)
  BY <1>1, WindowAssumption DEF DropsInv, Parsable
<1>5. key \in EdgeKey /\ record \in EdgeAgg
  BY <1>1, <1>3, KeyType
<1>6. r = IF EdgesFull(key) THEN [round EXCEPT !.dropped = round.dropped + 1]
          ELSE IF FanoutFull(key) THEN [round EXCEPT !.skipped = round.skipped + 1]
          ELSE Aggregate(round, key, record)
  BY <1>3, <1>4 DEF AfterLine
<1>7. r \in Round /\ round' = [r EXCEPT !.at = r.at + 1]
  BY <1>1, <1>3, AfterLineType DEF AggregateLine
<1> HIDE DEF r
<1>8. /\ round'.at = r.at + 1 /\ round'.pc = r.pc /\ round'.body = r.body
      /\ round'.listing = r.listing /\ round'.agg = r.agg /\ round'.fanout = r.fanout
      /\ round'.dropped = r.dropped /\ round'.line_cap = r.line_cap
      /\ round'.skipped = r.skipped
  BY <1>7 DEF Round
<1>9. dropped_edges' = r.dropped + r.line_cap + r.skipped
  BY <1>8 DEF dropped_edges
<1> HIDE DEF line, key, record
<1>10. CASE EdgesFull(key) \/ FanoutFull(key)
  <2>1. /\ r.at = round.at /\ r.pc = round.pc /\ r.body = round.body
        /\ r.listing = round.listing /\ r.agg = round.agg /\ r.fanout = round.fanout
        /\ r.line_cap = round.line_cap
        /\ \/ r.dropped = round.dropped + 1 /\ r.skipped = round.skipped
           \/ r.dropped = round.dropped /\ r.skipped = round.skipped + 1
    BY <1>1, <1>6, <1>10 DEF Round
  <2>2. dropped_edges' = dropped_edges + 1
    BY <1>1, <1>9, <2>1 DEF dropped_edges
  <2> QED
    BY <1>1, <1>5, <1>8, <1>10, <2>1, <2>2 DEF key, line
<1>11. CASE ~EdgesFull(key) /\ ~FanoutFull(key)
  <2> DEFINE merged == Merge(round.agg, key, record)
             reached == [round.fanout EXCEPT ![key.from] = round.fanout[key.from] \cup {key.to}]
  <2>1. r = [round EXCEPT !.agg = merged, !.fanout = reached]
    BY <1>6, <1>11 DEF Aggregate
  <2>2. DOMAIN merged = DOMAIN round.agg \cup {key}
    BY DEF Merge
  <2> HIDE DEF merged, reached
  <2>3. /\ r.at = round.at /\ r.pc = round.pc /\ r.body = round.body
        /\ r.listing = round.listing /\ r.agg = merged /\ r.fanout = reached
        /\ r.line_cap = round.line_cap
        /\ r.dropped = round.dropped /\ r.skipped = round.skipped
    BY <1>1, <2>1 DEF Round
  <2>4. dropped_edges' = dropped_edges
    BY <1>9, <2>3 DEF dropped_edges
  <2> QED
    BY <1>1, <1>5, <1>8, <1>11, <2>2, <2>3, <2>4 DEF key, line, record, merged, reached
<1> QED
  BY <1>10, <1>11

\* Names of endpoints depend on the lists of the round alone.
LEMMA SameNames ==
    ASSUME round'.listing = round.listing
    PROVE  /\ \A ip : resolve_endpoint(ip)' = resolve_endpoint(ip)
           /\ \A line : KeyOf(line)' = KeyOf(line)
BY DEF resolve_endpoint, KeyOf

LEMMA LineDrops ==
    ASSUME TypeOK, DropsInv, AggregateLine
    PROVE  DropsInv'
<1> DEFINE Key(i) == KeyOf(round.body[i].line)
           key == Key(round.at + 1)
<1>1. /\ key \in EdgeKey
      /\ round'.pc = "aggregate" /\ round'.at = round.at + 1
      /\ round'.body = round.body /\ round'.listing = round.listing
      /\ \/ /\ EdgesFull(key) \/ FanoutFull(key)
            /\ round'.agg = round.agg /\ round'.fanout = round.fanout
            /\ dropped_edges' = dropped_edges + 1
         \/ /\ ~EdgesFull(key) /\ ~FanoutFull(key)
            /\ DOMAIN round'.agg = DOMAIN round.agg \cup {key}
            /\ round'.fanout =
                   [round.fanout EXCEPT ![key.from] = round.fanout[key.from] \cup {key.to}]
            /\ dropped_edges' = dropped_edges
  BY LineEffect
<1>2. /\ round.at \in Nat /\ round.fanout \in [Endpoint -> SUBSET Endpoint]
      /\ key.from \in Endpoint /\ key.to \in Endpoint
      /\ \A k \in DOMAIN round.agg : k.from \in Endpoint /\ k.to \in Endpoint
  <2>1. round.agg \in EdgeMap
    BY DEF TypeOK, Round
  <2>2. DOMAIN round.agg \in SUBSET EdgeKey
    BY <2>1, Zenon DEF EdgeMap
  <2> QED
    BY <1>1, <2>2 DEF TypeOK, Round, Fanout, EdgeKey
<1>3. /\ \A ip : resolve_endpoint(ip)' = resolve_endpoint(ip)
      /\ \A i : KeyOf(round.body[i].line)' = Key(i)
  BY <1>1, SameNames DEF KeyOf, resolve_endpoint
<1>4. /\ key.from = resolve_endpoint(key.from.ip)
      /\ key.to = resolve_endpoint(key.to.ip)
  BY DEF KeyOf, resolve_endpoint
<1>5. Parsable(lines)' /\ Parsable(round.body)'
  BY <1>1 DEF AggregateLine, DropsInv, Parsable
<1>6. /\ Missing = {i \in 1 .. round.at : Key(i) \notin DOMAIN round.agg}
      /\ Missing' = {i \in 1 .. round.at + 1 : Key(i) \notin DOMAIN round'.agg}
  BY <1>1, <1>3 DEF Missing, edges
<1>7. \A i \in Missing : EdgesFull(Key(i)) \/ FanoutFull(Key(i))
  BY DEF DropsInv, RefusedForGood
<1>8. /\ \A k : EdgesFull(k) => k \notin DOMAIN round.agg
      /\ \A k : FanoutFull(k) => k \notin DOMAIN round.agg
  BY DEF EdgesFull, FanoutFull
<1>9. 1 .. round.at + 1 = (1 .. round.at) \cup {round.at + 1} /\ round.at + 1 \notin 1 .. round.at
  BY <1>2
<1> HIDE DEF Key
<1>10. CASE /\ EdgesFull(key) \/ FanoutFull(key)
            /\ round'.agg = round.agg /\ round'.fanout = round.fanout
            /\ dropped_edges' = dropped_edges + 1
  <2>1. Missing' = Missing \cup {round.at + 1} /\ round.at + 1 \notin Missing
    BY <1>6, <1>8, <1>9, <1>10
  <2>2. Cardinality(Missing') = Cardinality(Missing) + 1
    BY <2>1, MissingFinite, FS_AddElement
  <2>3. \A k : EdgesFull(k)' = EdgesFull(k) /\ FanoutFull(k)' = FanoutFull(k)
    BY <1>10 DEF EdgesFull, FanoutFull
  <2>4. \A i \in Missing' : EdgesFull(Key(i)) \/ FanoutFull(Key(i))
    BY <1>7, <1>10, <2>1
  <2>5. RefusedForGood'
    <3> SUFFICES ASSUME NEW i \in Missing'
                 PROVE  EdgesFull(KeyOf(round.body[i].line))' \/ FanoutFull(KeyOf(round.body[i].line))'
      BY DEF RefusedForGood
    <3>1. EdgesFull(Key(i)) \/ FanoutFull(Key(i))
      BY <2>4
    <3>2. /\ EdgesFull(KeyOf(round.body[i].line))' = EdgesFull(Key(i))
          /\ FanoutFull(KeyOf(round.body[i].line))' = FanoutFull(Key(i))
      BY <1>3, <1>10 DEF EdgesFull, FanoutFull
    <3> QED
      BY <3>1, <3>2
  <2>6. EdgesNamed'
    BY <1>3, <1>10 DEF DropsInv, EdgesNamed, edges
  <2> QED
    BY <1>1, <1>5, <1>10, <2>2, <2>5, <2>6 DEF DropsInv
<1>11. CASE /\ ~EdgesFull(key) /\ ~FanoutFull(key)
            /\ DOMAIN round'.agg = DOMAIN round.agg \cup {key}
            /\ round'.fanout =
                   [round.fanout EXCEPT ![key.from] = round.fanout[key.from] \cup {key.to}]
            /\ dropped_edges' = dropped_edges
  <2>1. \A i \in Missing : Key(i) # key
    BY <1>7, <1>11
  <2>2. Missing' = Missing
    BY <1>6, <1>9, <1>11, <2>1
  <2>3. \A k \in DOMAIN round.agg : k.to \in round.fanout[k.from]
    BY DEF DropsInv, EdgesNamed, edges
  <2>4. ASSUME NEW k, EdgesFull(k), k # key
        PROVE  Cardinality(DOMAIN round'.agg) >= MAX_EDGES /\ k \notin DOMAIN round'.agg
    <3>1. key \in DOMAIN round.agg
      BY <1>11, <2>4 DEF EdgesFull
    <3>2. DOMAIN round'.agg = DOMAIN round.agg
      BY <1>11, <3>1
    <3> QED
      BY <2>4, <3>2 DEF EdgesFull
  <2>5. ASSUME NEW k, FanoutFull(k), k # key, k.from \in Endpoint
        PROVE  /\ Cardinality(round'.fanout[k.from]) >= MAX_FANOUT
               /\ k.to \notin round'.fanout[k.from]
               /\ k \notin DOMAIN round'.agg
    <3>1. round'.fanout[k.from] = round.fanout[k.from]
      <4>1. CASE k.from # key.from
        BY <1>2, <1>11, <2>5, <4>1
      <4>2. CASE k.from = key.from
        <5>1. key.to \in round.fanout[key.from]
          BY <1>11, <2>3, <2>5, <4>2 DEF FanoutFull
        <5>2. round'.fanout[key.from] = round.fanout[key.from] \cup {key.to}
          BY <1>2, <1>11
        <5> QED
          BY <4>2, <5>1, <5>2
      <4> QED
        BY <4>1, <4>2
    <3> QED
      BY <1>11, <2>5, <3>1 DEF FanoutFull
  <2>6. \A i \in Missing : Key(i).from \in Endpoint
    <3> SUFFICES ASSUME NEW i \in Missing PROVE Key(i).from \in Endpoint
      OBVIOUS
    <3>1. round.body \in Seq(Buffered) /\ round.at <= Len(round.body) /\ round \in Round
      BY DEF TypeOK, Round
    <3>2. Len(round.body) \in Nat
      BY <3>1, LenProperties
    <3>3. i \in 1 .. Len(round.body)
      BY <1>2, <1>6, <3>1, <3>2
    <3>4. round.body[i] \in Buffered
      BY <3>1, <3>3, ElementOfSeq
    <3> QED
      BY <3>1, <3>4, KeyType DEF Buffered, Key, EdgeKey
  <2>7. RefusedForGood'
    <3> SUFFICES ASSUME NEW i \in Missing'
                 PROVE  EdgesFull(KeyOf(round.body[i].line))' \/ FanoutFull(KeyOf(round.body[i].line))'
      BY DEF RefusedForGood
    <3>1. Key(i) # key /\ Key(i).from \in Endpoint /\ (EdgesFull(Key(i)) \/ FanoutFull(Key(i)))
      BY <1>7, <2>1, <2>2, <2>6
    <3>2. /\ EdgesFull(KeyOf(round.body[i].line))' <=>
                /\ Cardinality(DOMAIN round'.agg) >= MAX_EDGES
                /\ Key(i) \notin DOMAIN round'.agg
          /\ FanoutFull(KeyOf(round.body[i].line))' <=>
                /\ Cardinality(round'.fanout[Key(i).from]) >= MAX_FANOUT
                /\ Key(i).to \notin round'.fanout[Key(i).from]
                /\ Key(i) \notin DOMAIN round'.agg
      BY <1>3 DEF EdgesFull, FanoutFull
    <3> QED
      BY <2>4, <2>5, <3>1, <3>2
  <2>8. EdgesNamed'
    <3> SUFFICES ASSUME NEW k \in DOMAIN round'.agg
                 PROVE  /\ k.from = resolve_endpoint(k.from.ip)
                        /\ k.to = resolve_endpoint(k.to.ip)
                        /\ k.to \in round'.fanout[k.from]
      BY <1>3 DEF EdgesNamed, edges
    <3>1. CASE k = key
      <4>1. round'.fanout[key.from] = round.fanout[key.from] \cup {key.to}
        BY <1>2, <1>11
      <4> QED
        BY <1>4, <3>1, <4>1
    <3>2. CASE k \in DOMAIN round.agg
      <4>1. /\ k.from = resolve_endpoint(k.from.ip)
            /\ k.to = resolve_endpoint(k.to.ip)
            /\ k.to \in round.fanout[k.from] /\ k.from \in Endpoint
        BY <1>2, <3>2 DEF DropsInv, EdgesNamed, edges
      <4>2. round.fanout[k.from] \subseteq round'.fanout[k.from]
        BY <1>2, <1>11, <4>1
      <4> QED
        BY <4>1, <4>2
    <3> QED
      BY <1>11, <3>1, <3>2
  <2> QED
    BY <1>1, <1>5, <1>11, <2>2, <2>7, <2>8 DEF DropsInv
<1> QED
  BY <1>1, <1>10, <1>11

\* A step that leaves the round alone, or only ends it.
LEMMA RoundStays ==
    ASSUME DropsInv, Parsable(lines)',
           \/ UNCHANGED round
           \/ round.at = Len(round.body) /\ round' = [round EXCEPT !.pc = "done"],
           round \in Round
    PROVE  DropsInv'
<1>1. /\ round'.body = round.body /\ round'.listing = round.listing
      /\ round'.agg = round.agg /\ round'.fanout = round.fanout /\ round'.at = round.at
      /\ round'.dropped = round.dropped /\ round'.line_cap = round.line_cap
      /\ round'.skipped = round.skipped
  BY DEF Round
<1>2. round'.pc = "done" => round'.at = Len(round'.body)
  BY <1>1 DEF DropsInv
<1>3. /\ Missing' = Missing /\ edges' = edges /\ dropped_edges' = dropped_edges
      /\ Parsable(round.body)' = Parsable(round.body)
  BY <1>1 DEF Missing, edges, dropped_edges, KeyOf, resolve_endpoint, Parsable
<1>4. EdgesNamed'
  BY <1>1 DEF DropsInv, EdgesNamed, edges, resolve_endpoint
<1>5. RefusedForGood'
  BY <1>1, <1>3 DEF DropsInv, RefusedForGood, EdgesFull, FanoutFull, KeyOf, resolve_endpoint
<1> QED
  BY <1>2, <1>3, <1>4, <1>5 DEF DropsInv

LEMMA NextDrops == TypeOK /\ DropsInv /\ [Next]_vars => DropsInv'
<1> SUFFICES ASSUME TypeOK, DropsInv, [Next]_vars PROVE DropsInv'
  OBVIOUS
<1>0. /\ lines \in Seq(Buffered) /\ now \in Nat /\ round \in Round /\ Parsable(lines)
  BY DEF TypeOK, DropsInv
<1>1. /\ prune_locked(lines) \in Seq(Buffered) /\ Parsable(prune_locked(lines))
  BY <1>0, PruneIsSuffix, PruneParsable
<1>2. ASSUME NEW e \in Event, Push(e) PROVE DropsInv'
  <2> DEFINE x == [line |-> event_line(e), recorded_at |-> now]
  <2>1. x \in Buffered
    BY <1>0, <1>2, EventLineType DEF Push, Buffered
  <2>2. Parses(x.line)
    BY <1>2 DEF Push, HasLine, event_line, Parses
  <2>3. lines' = Append(MakeRoom(prune_locked(lines)), x) /\ UNCHANGED round
    BY <1>2 DEF Push
  <2>4. Parsable(Append(MakeRoom(prune_locked(lines)), x))
    BY <1>1, <2>1, <2>2, PushParsable
  <2>5. Parsable(lines)'
    BY <2>3, <2>4 DEF Parsable
  <2> QED
    BY <1>0, <2>3, <2>5, RoundStays
<1>3. ASSUME NEW listing \in Listing, snapshot_ndjson(listing) PROVE DropsInv'
  <2>1. /\ lines' = prune_locked(lines)
        /\ round' = [NewRound EXCEPT !.pc = "aggregate", !.as_of = now, !.missing = displaced,
                                     !.listing = listing, !.body = prune_locked(lines)]
    BY <1>3 DEF snapshot_ndjson
  <2>2. /\ round'.at = 0 /\ round'.agg = [k \in {} |-> NoAgg] /\ round'.pc = "aggregate"
        /\ round'.dropped = 0 /\ round'.line_cap = 0 /\ round'.skipped = 0
        /\ round'.body = prune_locked(lines)
    BY <2>1 DEF NewRound
  <2>3. DOMAIN edges' = {} /\ Missing' = {} /\ dropped_edges' = 0
    BY <2>2 DEF edges, Missing, dropped_edges
  <2>4. Cardinality({}) = 0
    BY FS_EmptySet
  <2>5. Parsable(lines)' /\ Parsable(round.body)'
    BY <1>1, <2>1, <2>2 DEF Parsable
  <2> QED
    BY <2>2, <2>3, <2>4, <2>5 DEF DropsInv, EdgesNamed, RefusedForGood
<1>4. CASE AggregateLine
  BY <1>4, LineDrops
<1>5. CASE FinishRound
  <2>1. Parsable(lines)'
    BY <1>0, <1>5 DEF FinishRound, Parsable
  <2> QED
    BY <1>0, <1>5, <2>1, RoundStays DEF FinishRound
<1>6. CASE UNCHANGED <<lines, round>>
  <2>1. Parsable(lines)'
    BY <1>0, <1>6 DEF Parsable
  <2> QED
    BY <1>0, <1>6, <2>1, RoundStays
<1>7. Tick \/ (\E t \in 0 .. MaxTime : SetBack(t)) \/ UNCHANGED vars => UNCHANGED <<lines, round>>
  BY DEF Tick, SetBack, vars
<1> QED
  BY <1>2, <1>3, <1>4, <1>5, <1>6, <1>7 DEF Next

\* Of an edge named by its round's lists, the flow tells the edge.
LEMMA FlowTellsEdge ==
    ASSUME EdgesNamed, NEW key \in DOMAIN edges, key \in EdgeKey, NEW line \in Line
    PROVE  FlowOf(key) = Flow(line) <=> key = KeyOf(line)
<1>1. key.from = resolve_endpoint(key.from.ip) /\ key.to = resolve_endpoint(key.to.ip)
  BY DEF EdgesNamed
<1>2. FlowOf(key) = Flow(line) <=>
          key.from.ip = line.src /\ key.to.ip = line.dst /\ key.dport = line.dport
  BY DEF FlowOf, Flow
<1>3. key = [from |-> key.from, to |-> key.to, dport |-> key.dport]
  BY DEF EdgeKey
<1>4. ASSUME key.from.ip = line.src, key.to.ip = line.dst, key.dport = line.dport
      PROVE  key = KeyOf(line)
  BY <1>1, <1>3, <1>4 DEF KeyOf
<1>5. ASSUME key = KeyOf(line)
      PROVE  key.from.ip = line.src /\ key.to.ip = line.dst /\ key.dport = line.dport
  BY <1>5 DEF KeyOf, resolve_endpoint
<1> QED
  BY <1>2, <1>4, <1>5

\* dropped_edges, and with it truncated, is exact: it counts the lines of
\* the copy whose flow has no edge, whichever of the two caps refused them
\* and in whatever order they came (collect_dependency_inventory).
THEOREM DropsCounted == Spec => []DropsAreCounted
<1>1. TypeOK /\ DropsInv => DropsAreCounted
  <2> SUFFICES ASSUME TypeOK, DropsInv, round.pc = "done"
               PROVE  dropped_edges = Cardinality({i \in DOMAIN round.body :
                          \A key \in DOMAIN edges : FlowOf(key) # Flow(round.body[i].line)})
    BY DEF DropsAreCounted
  <2>1. round.body \in Seq(Buffered) /\ round.at = Len(round.body) /\ EdgesNamed
    BY DEF TypeOK, Round, DropsInv
  <2>2. DOMAIN round.body = 1 .. round.at
    BY <2>1, LenProperties
  <2>3. DOMAIN edges \in SUBSET EdgeKey
    <3>1. edges \in EdgeMap
      BY DEF TypeOK, Round, edges
    <3> QED
      BY <3>1, Zenon DEF EdgeMap
  <2>4. \A i \in DOMAIN round.body :
          (\A key \in DOMAIN edges : FlowOf(key) # Flow(round.body[i].line)) <=>
              KeyOf(round.body[i].line) \notin DOMAIN edges
    <3> SUFFICES ASSUME NEW i \in DOMAIN round.body
                 PROVE  (\A key \in DOMAIN edges : FlowOf(key) # Flow(round.body[i].line)) <=>
                            KeyOf(round.body[i].line) \notin DOMAIN edges
      OBVIOUS
    <3>1. round.body[i] \in Buffered
      BY <2>1, ElementOfSeq, LenProperties
    <3>2. round.body[i].line \in Line
      BY <3>1 DEF Buffered
    <3>3. \A key \in DOMAIN edges :
              FlowOf(key) = Flow(round.body[i].line) <=> key = KeyOf(round.body[i].line)
      BY <2>1, <2>3, <3>2, FlowTellsEdge
    <3> QED
      BY <3>3
  <2>5. {i \in DOMAIN round.body :
            \A key \in DOMAIN edges : FlowOf(key) # Flow(round.body[i].line)} = Missing
    BY <2>2, <2>4 DEF Missing
  <2> QED
    BY <2>5 DEF DropsInv
<1> QED
  BY <1>1, InitType, NextType, InitDrops, NextDrops, PTL DEF Spec

-----------------------------------------------------------------------------
(* The sums of an edge *)

\* A saturating sum of a saturating sum is the saturating sum of all.
LEMMA SaturatingAdds ==
    ASSUME NEW m \in Nat, NEW n \in Nat
    PROVE  Saturating(Saturating(m) + n) = Saturating(m + n)
BY WindowAssumption DEF Saturating

\* A line adds a natural number to each counter.
LEMMA AddsType ==
    ASSUME TypeOK, NEW i \in 1 .. Len(round.body), NEW what \in Counter
    PROVE  Adds(i, what) \in Nat
<1>1. round.body \in Seq(Buffered) /\ round \in Round
  BY DEF TypeOK, Round
<1>2. round.body[i] \in Buffered
  BY <1>1, ElementOfSeq
<1>3. round.body[i].line \in Line
  BY <1>2 DEF Buffered
<1>4. parse_tetragon_record(round.body[i].line) \in EdgeAgg
  BY <1>1, <1>3, KeyType
<1> QED
  BY <1>4 DEF Adds, EdgeAgg, Counter

\* Finitely many lines have finitely many units.
LEMMA UnitsFinite ==
    ASSUME TypeOK, NEW what \in Counter, NEW ids \in SUBSET (1 .. Len(round.body))
    PROVE  IsFiniteSet(Units(ids, what)) /\ Cardinality(Units(ids, what)) \in Nat
<1> DEFINE Of(i) == {i} \X (1 .. Adds(i, what))
           all == {Of(i) : i \in ids}
           f == [i \in ids |-> Of(i)]
<1>1. IsFiniteSet(ids)
  <2>1. Len(round.body) \in Nat
    BY LenProperties DEF TypeOK, Round
  <2>2. IsFiniteSet(1 .. Len(round.body))
    BY <2>1, FS_Interval
  <2> QED
    BY <2>2, FS_Subset
<1>2. f \in Surjection(ids, all)
  BY DEF Surjection
<1>3. IsFiniteSet(all)
  BY <1>1, <1>2, FS_Surjection
<1>4. ASSUME NEW i \in ids PROVE IsFiniteSet(Of(i))
  <2>1. Adds(i, what) \in Nat
    BY AddsType
  <2>2. IsFiniteSet(1 .. Adds(i, what))
    BY <2>1, FS_Interval
  <2>3. IsFiniteSet({i})
    BY FS_Singleton
  <2> QED
    BY <2>2, <2>3, FS_Product
<1>5. \A T \in all : IsFiniteSet(T)
  BY <1>4
<1>6. Units(ids, what) = UNION all
  BY DEF Units
<1> HIDE DEF all
<1>7. IsFiniteSet(Units(ids, what))
  BY <1>3, <1>5, <1>6, FS_UNION
<1> QED
  BY <1>7, FS_CardinalityType

\* One line more has as many units more as it adds.
LEMMA UnitsAdd ==
    ASSUME TypeOK, NEW what \in Counter, NEW ids \in SUBSET (1 .. Len(round.body)),
           NEW n \in 1 .. Len(round.body), n \notin ids
    PROVE  Cardinality(Units(ids \cup {n}, what)) =
               Cardinality(Units(ids, what)) + Adds(n, what)
<1> DEFINE new == {n} \X (1 .. Adds(n, what))
<1>1. Adds(n, what) \in Nat
  BY AddsType
<1>2. IsFiniteSet(1 .. Adds(n, what)) /\ Cardinality(1 .. Adds(n, what)) = Adds(n, what)
  BY <1>1, FS_Interval
<1>3. IsFiniteSet({n}) /\ Cardinality({n}) = 1
  BY FS_Singleton
<1>4. IsFiniteSet(new) /\ Cardinality(new) = Cardinality({n}) * Cardinality(1 .. Adds(n, what))
  BY <1>2, <1>3, FS_Product
<1>5. Cardinality(new) = Adds(n, what)
  BY <1>1, <1>2, <1>3, <1>4
<1>6. Units(ids \cup {n}, what) = Units(ids, what) \cup new
  BY DEF Units
<1>7. Units(ids, what) \cap new = {}
  BY DEF Units
<1> HIDE DEF new
<1>8. IsFiniteSet(Units(ids, what)) /\ Cardinality(Units(ids, what)) \in Nat
  BY UnitsFinite
<1>9. Cardinality(Units(ids, what) \cup new) =
          Cardinality(Units(ids, what)) + Cardinality(new) - Cardinality(Units(ids, what) \cap new)
  BY <1>4, <1>8, FS_Union
<1>10. Cardinality(Units(ids, what) \cap new) = 0
  BY <1>7, FS_EmptySet
<1>11. Cardinality(Units(ids \cup {n}, what)) = Cardinality(Units(ids, what) \cup new)
  BY <1>6
<1> QED
  BY <1>1, <1>5, <1>8, <1>9, <1>10, <1>11

\* What a merge does to one counter of its edge, and that it leaves the
\* other edges alone.
LEMMA MergeAdds ==
    ASSUME NEW agg \in EdgeMap, NEW key \in EdgeKey, NEW record \in EdgeAgg,
           NEW what \in Counter
    PROVE  /\ Merge(agg, key, record)[key][what] =
                  Saturating((IF key \in DOMAIN agg THEN agg[key][what] ELSE 0) + record[what])
           /\ \A k \in DOMAIN agg : k # key => Merge(agg, key, record)[k] = agg[k]
<1> DEFINE old == IF key \in DOMAIN agg THEN agg[key] ELSE NoAgg
<1>1. Merge(agg, key, record) =
        [k \in DOMAIN agg \cup {key} |->
            IF k # key THEN agg[k]
            ELSE [bytes       |-> Saturating(old.bytes + record.bytes),
                  packets     |-> Saturating(old.packets + record.packets),
                  connections |-> Saturating(old.connections + record.connections)]]
  BY DEF Merge
<1>2. old[what] = IF key \in DOMAIN agg THEN agg[key][what] ELSE 0
  BY DEF NoAgg, Counter
<1>3. Merge(agg, key, record)[key][what] = Saturating(old[what] + record[what])
  BY <1>1 DEF Counter
<1> QED
  BY <1>1, <1>2, <1>3

\* The lines of a key that are dealt with are lines of the copy.
LEMMA SoFarType ==
    ASSUME TypeOK, NEW key
    PROVE  LinesSoFar(key) \in SUBSET (1 .. Len(round.body))
<1>1. round.at \in Nat /\ Len(round.body) \in Nat /\ round.at <= Len(round.body)
  BY LenProperties DEF TypeOK, Round
<1> QED
  BY <1>1 DEF LinesSoFar

\* A step that keeps copy, lists, edges and position keeps the sums.
LEMMA SumsStay ==
    ASSUME SumsSoFar,
           round'.body = round.body, round'.listing = round.listing,
           round'.agg = round.agg, round'.at = round.at
    PROVE  SumsSoFar'
<1>1. \A key : LinesSoFar(key)' = LinesSoFar(key)
  BY DEF LinesSoFar, KeyOf, resolve_endpoint
<1>2. \A key, what : (Units(LinesSoFar(key), what))' = Units(LinesSoFar(key), what)
  BY <1>1 DEF Units, Adds
<1> QED
  BY <1>2 DEF SumsSoFar, edges, Saturating

LEMMA LineSums ==
    ASSUME TypeOK, DropsInv, SumsSoFar, AggregateLine
    PROVE  SumsSoFar'
<1> DEFINE n == round.at + 1
           line == round.body[n].line
           key == KeyOf(line)
           record == parse_tetragon_record(line)
<1>1. /\ key \in EdgeKey /\ round'.at = n
      /\ round'.body = round.body /\ round'.listing = round.listing
      /\ \/ /\ EdgesFull(key) \/ FanoutFull(key)
            /\ round'.agg = round.agg
         \/ /\ ~EdgesFull(key) /\ ~FanoutFull(key)
            /\ round'.agg = Merge(round.agg, key, record)
            /\ DOMAIN round'.agg = DOMAIN round.agg \cup {key}
  BY LineEffect
<1>2. /\ round.at \in Nat /\ n \in 1 .. Len(round.body) /\ round \in Round
      /\ round.body \in Seq(Buffered) /\ round.agg \in EdgeMap
      /\ 1 .. n = (1 .. round.at) \cup {n} /\ n \notin 1 .. round.at
  <2>1. /\ round.at \in Nat /\ Len(round.body) \in Nat /\ round.at < Len(round.body)
    BY LenProperties DEF TypeOK, Round, AggregateLine
  <2> QED
    BY <2>1 DEF TypeOK, Round
<1>3. record \in EdgeAgg
  <2>1. round.body[n] \in Buffered
    BY <1>2, ElementOfSeq
  <2>2. line \in Line
    BY <2>1 DEF Buffered
  <2> QED
    BY <1>2, <2>2, KeyType
<1>4. \A k : LinesSoFar(k)' = IF k = key THEN LinesSoFar(k) \cup {n} ELSE LinesSoFar(k)
  <2> DEFINE Key(i) == KeyOf(round.body[i].line)
  <2>1. \A i : KeyOf(round.body[i].line)' = Key(i)
    BY <1>1 DEF KeyOf, resolve_endpoint
  <2>2. \A k : LinesSoFar(k)' = {i \in 1 .. n : Key(i) = k}
    BY <1>1, <2>1 DEF LinesSoFar
  <2> HIDE DEF n
  <2> QED
    BY <1>2, <2>2 DEF LinesSoFar
<1>5. \A ids, what : Units(ids, what)' = Units(ids, what)
  BY <1>1 DEF Units, Adds
<1>6. \A what \in Counter : Adds(n, what) = record[what]
  BY DEF Adds
<1>7. n \notin LinesSoFar(key)
  BY <1>2 DEF LinesSoFar
<1> HIDE DEF n, line, key, record
<1>8. ASSUME NEW k \in DOMAIN round.agg, k # key, round'.agg[k] = round.agg[k], NEW what \in Counter
      PROVE  round'.agg[k][what] = Saturating(Cardinality(Units(LinesSoFar(k), what)))'
  <2>1. LinesSoFar(k)' = LinesSoFar(k)
    BY <1>4, <1>8
  <2>2. (Units(LinesSoFar(k), what))' = Units(LinesSoFar(k), what)
    BY <1>1, <2>1 DEF Units, Adds
  <2> QED
    BY <1>8, <2>2 DEF SumsSoFar, edges, Saturating
<1>9. CASE (EdgesFull(key) \/ FanoutFull(key)) /\ round'.agg = round.agg
  <2>1. key \notin DOMAIN round.agg
    BY <1>9 DEF EdgesFull, FanoutFull
  <2> QED
    BY <1>8, <1>9, <2>1 DEF SumsSoFar, edges
<1>10. CASE /\ ~EdgesFull(key) /\ ~FanoutFull(key)
            /\ round'.agg = Merge(round.agg, key, record)
            /\ DOMAIN round'.agg = DOMAIN round.agg \cup {key}
  <2>1. ASSUME NEW k, k = key, NEW what \in Counter
        PROVE  round'.agg[k][what] = Saturating(Cardinality(Units(LinesSoFar(k), what)))'
    <3> DEFINE before == Cardinality(Units(LinesSoFar(key), what))
               old == IF key \in DOMAIN round.agg THEN round.agg[key][what] ELSE 0
    <3>1. LinesSoFar(key) \in SUBSET (1 .. Len(round.body))
      BY SoFarType
    <3>2. before \in Nat
      BY <3>1, UnitsFinite
    <3>3. old = Saturating(before)
      <4>1. CASE key \in DOMAIN round.agg
        BY <4>1 DEF SumsSoFar, edges
      <4>2. CASE key \notin DOMAIN round.agg
        <5>1. LinesSoFar(key) = {}
          BY <1>10, <4>2 DEF LinesSoFar, DropsInv, RefusedForGood, Missing, edges
        <5>2. Units(LinesSoFar(key), what) = {}
          BY <5>1 DEF Units
        <5>3. before = 0
          BY <5>2, FS_EmptySet
        <5> QED
          BY <4>2, <5>3, WindowAssumption DEF Saturating
      <4> QED
        BY <4>1, <4>2
    <3>4. round'.agg[key][what] = Saturating(old + record[what])
      BY <1>1, <1>2, <1>3, <1>10, MergeAdds
    <3>5. record[what] \in Nat
      BY <1>3 DEF EdgeAgg, Counter
    <3>6. Cardinality(Units(LinesSoFar(key) \cup {n}, what)) = before + record[what]
      BY <1>2, <1>6, <1>7, <3>1, UnitsAdd
    <3>7. (Units(LinesSoFar(k), what))' = Units(LinesSoFar(key) \cup {n}, what)
      <4>1. LinesSoFar(k)' = LinesSoFar(key) \cup {n}
        BY <1>4, <2>1
      <4> QED
        BY <1>1, <4>1 DEF Units, Adds
    <3> HIDE DEF before, old
    <3>8. round'.agg[key][what] = Saturating(before + record[what])
      BY <3>2, <3>3, <3>4, <3>5, SaturatingAdds
    <3> QED
      BY <2>1, <3>6, <3>7, <3>8 DEF Saturating
  <2>2. \A k \in DOMAIN round.agg : k # key => round'.agg[k] = round.agg[k]
    <3>1. "bytes" \in Counter
      BY DEF Counter
    <3> QED
      BY <1>1, <1>2, <1>3, <1>10, <3>1, MergeAdds
  <2>3. ASSUME NEW k \in DOMAIN round'.agg, NEW what \in Counter
        PROVE  round'.agg[k][what] = Saturating(Cardinality(Units(LinesSoFar(k), what)))'
    <3>1. CASE k = key
      BY <2>1, <3>1
    <3>2. CASE k # key
      BY <1>8, <1>10, <2>2, <3>2
    <3> QED
      BY <3>1, <3>2
  <2> QED
    BY <2>3 DEF SumsSoFar, edges
<1> QED
  BY <1>1, <1>9, <1>10

\* The sums of a round follow its lines.
LEMMA NextSums == TypeOK /\ DropsInv /\ SumsSoFar /\ [Next]_vars => SumsSoFar'
<1> SUFFICES ASSUME TypeOK, DropsInv, SumsSoFar, [Next]_vars PROVE SumsSoFar'
  OBVIOUS
<1>1. round \in Round
  BY DEF TypeOK
<1>2. CASE UNCHANGED round
  BY <1>2, SumsStay
<1>3. CASE FinishRound
  <2>1. /\ round'.body = round.body /\ round'.listing = round.listing
        /\ round'.agg = round.agg /\ round'.at = round.at
    BY <1>1, <1>3 DEF FinishRound, Round
  <2> QED
    BY <2>1, SumsStay
<1>4. CASE AggregateLine
  BY <1>4, LineSums
<1>5. ASSUME NEW listing \in Listing, snapshot_ndjson(listing) PROVE SumsSoFar'
  <2>1. round'.agg = [k \in {} |-> NoAgg]
    BY <1>5 DEF snapshot_ndjson, NewRound
  <2> QED
    BY <2>1 DEF SumsSoFar, edges
<1>6. (\E e \in Event : Push(e)) \/ Tick \/ (\E t \in 0 .. MaxTime : SetBack(t)) \/ UNCHANGED vars
          => UNCHANGED round
  BY DEF Push, Tick, SetBack, vars
<1> QED
  BY <1>2, <1>3, <1>4, <1>5, <1>6 DEF Next

\* The edges of a round have the sums of the lines dealt with, and what was
\* refused stays refused.
THEOREM SumsInvariant == Spec => [](TypeOK /\ SumsInv)
<1>1. Init => SumsSoFar
  BY DEF Init, NewRound, SumsSoFar, edges
<1>2. TypeOK /\ SumsInv /\ [Next]_vars => SumsInv'
  BY NextDrops, NextSums DEF SumsInv
<1>3. Init => SumsInv
  BY <1>1, InitDrops DEF SumsInv
<1> QED
  BY <1>2, <1>3, TypeCorrect, PTL DEF Spec

\* An edge that a finished round reports has every line of its flow, up to
\* the saturation of its counters: wherever the caps bit, they bit whole
\* flows (collect_dependency_inventory).
THEOREM EdgesAreComplete == Spec => []ReportedEdgesComplete
<1>1. TypeOK /\ SumsInv => ReportedEdgesComplete
  <2> SUFFICES ASSUME TypeOK, DropsInv, SumsSoFar, round.pc = "done",
                      NEW key \in DOMAIN edges, NEW what \in Counter
               PROVE  edges[key][what] = Saturating(Total(FlowOf(key), what))
    BY DEF ReportedEdgesComplete, SumsInv
  <2>1. /\ round.body \in Seq(Buffered) /\ round.at = Len(round.body) /\ EdgesNamed
        /\ round.agg \in EdgeMap
    BY DEF TypeOK, Round, DropsInv
  <2>2. DOMAIN round.body = 1 .. round.at
    BY <2>1, LenProperties
  <2>3. key \in EdgeKey
    <3>1. DOMAIN round.agg \in SUBSET EdgeKey
      BY <2>1, Zenon DEF EdgeMap
    <3> QED
      BY <3>1 DEF edges
  <2>4. ASSUME NEW i \in DOMAIN round.body
        PROVE  Flow(round.body[i].line) = FlowOf(key) <=> KeyOf(round.body[i].line) = key
    <3>1. round.body[i] \in Buffered
      BY <2>1, ElementOfSeq, LenProperties
    <3>2. round.body[i].line \in Line
      BY <3>1 DEF Buffered
    <3>3. FlowOf(key) = Flow(round.body[i].line) <=> key = KeyOf(round.body[i].line)
      BY <2>1, <2>3, <3>2, FlowTellsEdge
    <3> QED
      BY <3>3
  <2>5. LinesOf(FlowOf(key)) = LinesSoFar(key)
    BY <2>2, <2>4 DEF LinesOf, LinesSoFar
  <2> QED
    BY <2>5 DEF SumsSoFar, Total
<1> QED
  BY <1>1, SumsInvariant, PTL
=============================================================================
