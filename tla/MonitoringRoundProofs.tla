------------------------ MODULE MonitoringRoundProofs ------------------------
(***************************************************************************)
(* For every cluster, every request, every answer of a Service and every   *)
(* value of the caps: what a round reports rests on what was there.        *)
(*                                                                         *)
(* RoundInv is the inductive invariant of MonitoringRound: what the lists  *)
(* have shown existed (SeenExisted), a list that failed has shown nothing  *)
(* (ListsAreHonest), a probe that connected found the server up and a lone *)
(* clear Service is probed (ProbeIsHonest), and no scrape is forgotten     *)
(* (TargetsAccounted).                                                     *)
(***************************************************************************)
EXTENDS MonitoringRound, FiniteSetTheorems, TLAPS

-----------------------------------------------------------------------------
(* Lemmas about the operators *)

\* The lines that count can be counted.
LEMMA SamplesType ==
    ASSUME NEW body \in Seq(MetricLine)
    PROVE  /\ IsFiniteSet(Matched(body)) /\ Cardinality(Matched(body)) \in Nat
           /\ Matched(body) \subseteq Nat
           /\ Kept(body) \subseteq Matched(body)
<1>1. Len(body) \in Nat
  OBVIOUS
<1>2. IsFiniteSet(1 .. Len(body))
  BY <1>1, FS_Interval
<1>3. Matched(body) \subseteq 1 .. Len(body) /\ Kept(body) \subseteq Matched(body)
  BY DEF Matched, Kept
<1>4. IsFiniteSet(Matched(body))
  BY <1>2, <1>3, FS_Subset
<1>. QED
  BY <1>1, <1>3, <1>4, FS_CardinalityType

\* What OkIsWhole says of one target.
Whole(t) ==
    t.status = "ok" =>
        /\ t.response.success
        /\ t.samples # {}
        /\ \A i \in 1 .. Len(t.response.body) :
               t.response.body[i] = "sample" => i \in t.samples

\* scrape_app_metrics_target makes an entry of the report, and one that is ok
\* is whole.
LEMMA ScrapeType ==
    ASSUME NEW o \in Object, NEW response \in Response
    PROVE  LET t == scrape_app_metrics_target(o, response) IN
           t \in Target /\ t.service = o /\ Whole(t)
<1>1. response \in ResponseType
  BY RoundAssumption
<1>. DEFINE body == response.body
<1>2. /\ IsFiniteSet(Matched(body)) /\ Cardinality(Matched(body)) \in Nat
      /\ Matched(body) \subseteq Nat /\ Kept(body) \subseteq Matched(body)
  BY <1>1, SamplesType DEF ResponseType
<1>3. Cardinality(Matched(body)) > 0 => Matched(body) # {}
  BY <1>2, FS_EmptySet
<1>4. \A i \in 1 .. Len(body) : body[i] = "sample" => i \in Matched(body)
  BY DEF Matched
<1>. DEFINE p == parse_prometheus_text(body)
<1>5. /\ p.samples \in SUBSET Nat /\ p.matched \in Nat /\ p.truncated \in BOOLEAN
      /\ p.matched > 0 /\ ~p.truncated => p.samples = Matched(body) /\ Matched(body) # {}
  BY <1>2, <1>3 DEF parse_prometheus_text
<1>. DEFINE q == IF response.arrives /\ response.fits THEN p
                 ELSE [samples |-> {}, matched |-> 0, truncated |-> FALSE]
<1>6. /\ q.samples \in SUBSET Nat /\ q.matched \in Nat /\ q.truncated \in BOOLEAN
      /\ q.matched > 0 /\ ~q.truncated => q.samples = Matched(body) /\ Matched(body) # {}
  <2>1. CASE response.arrives /\ response.fits
    <3>1. q = p
      BY <2>1
    <3>. HIDE DEF p, q
    <3>. QED
      BY <1>5, <3>1
  <2>2. CASE ~(response.arrives /\ response.fits)
    <3>1. q = [samples |-> {}, matched |-> 0, truncated |-> FALSE]
      BY <2>2
    <3>. HIDE DEF p, q
    <3>. QED
      BY <3>1
  <2>. QED
    BY <2>1, <2>2
<1>. DEFINE t == scrape_app_metrics_target(o, response)
<1>7. t = [service   |-> o,
           status    |-> IF response.success /\ q.matched > 0 /\ ~q.truncated
                         THEN "ok" ELSE "warning",
           samples   |-> q.samples, matched |-> q.matched,
           truncated |-> q.truncated, response |-> response]
  BY DEF scrape_app_metrics_target
<1>. HIDE DEF q, t
<1>8. t \in Target /\ t.service = o
  BY <1>1, <1>6, <1>7 DEF Target
<1>9. Whole(t)
  BY <1>4, <1>6, <1>7 DEF Whole
<1>. QED
  BY <1>8, <1>9 DEF t

\* There are only as many newer events as there are events.
LEMMA NewerGrows ==
    ASSUME NEW S, NEW T \in SUBSET Object, S \subseteq T, NEW o,
           Cardinality(Newer(S, o)) >= MAX_EVENTS
    PROVE  Cardinality(Newer(T, o)) >= MAX_EVENTS
<1>1. Newer(S, o) \subseteq Newer(T, o) /\ Newer(T, o) \subseteq Object
  BY DEF Newer
<1>2. IsFiniteSet(Newer(T, o))
  BY <1>1, FS_Subset, RoundAssumption
<1>3. IsFiniteSet(Newer(S, o)) /\ Cardinality(Newer(S, o)) <= Cardinality(Newer(T, o))
  BY <1>1, <1>2, FS_Subset
<1>4. Cardinality(Newer(S, o)) \in Nat /\ Cardinality(Newer(T, o)) \in Nat
  BY <1>2, <1>3, FS_CardinalityType
<1>. QED
  BY <1>3, <1>4, RoundAssumption

\* What the plugin finds depends on the lists and the request alone.
LEMMA CandidatesFrame ==
    ASSUME NEW r, NEW s, s.seen = r.seen, s.request = r.request
    PROVE  clear_candidates(s) = clear_candidates(r)
<1>1. Scope(s) = Scope(r)
  BY DEF Scope, InScope, IsDiagnosis
<1>2. Found(s, {"services"}) = Found(r, {"services"})
  BY <1>1 DEF Found
<1>. QED
  BY <1>2 DEF clear_candidates

\* A lone candidate is one, so the plugin either probes or says why not.
LEMMA CandidatesCount ==
    ASSUME NEW r \in Round, clear_candidates(r) # {},
           ~(Cardinality(clear_candidates(r)) > 1)
    PROVE  Cardinality(clear_candidates(r)) = 1
<1>1. clear_candidates(r) \subseteq Object
  BY DEF clear_candidates, Found, Scope, Round
<1>2. IsFiniteSet(clear_candidates(r))
  BY <1>1, FS_Subset, RoundAssumption
<1>3. Cardinality(clear_candidates(r)) \in Nat /\ Cardinality(clear_candidates(r)) # 0
  BY <1>2, FS_CardinalityType, FS_EmptySet
<1>. QED
  BY <1>3

Begun ==
    /\ world \in SUBSET Object /\ server \in Server
    /\ \E request \in Request : round = Begin(world, server, request)

\* A round begins with empty hands.
LEMMA BeginInv == Begun => RoundInv
<1>. SUFFICES ASSUME world \in SUBSET Object, server \in Server,
                     NEW request \in Request, round = Begin(world, server, request)
              PROVE  RoundInv
  BY DEF Begun
<1>1. TypeOK
  <2>1. NoSettings \in [Field -> Source]
    BY DEF NoSettings, Source
  <2>2. Begin(world, server, request) \in Round
    BY <2>1 DEF Begin, Round
  <2>. QED
    BY <2>2 DEF TypeOK
<1>2. SeenExisted
  BY DEF SeenExisted, Begin
<1>3. ListsAreHonest
  BY DEF ListsAreHonest, Begin
<1>4. ProbeIsHonest
  <2>1. clear_candidates(round) = {}
    BY DEF clear_candidates, Found, Scope, Begin
  <2>2. Cardinality(clear_candidates(round)) # 1
    BY <2>1, FS_EmptySet
  <2>3. server = "up" \/ round.probe = "connected" => round.served
    BY DEF Begin
  <2>. QED
    BY <2>2, <2>3 DEF ProbeIsHonest
<1>5. TargetsAccounted
  BY DEF TargetsAccounted, Refused, IsDiagnosis, Begin
<1>6. OkIsWhole
  BY DEF OkIsWhole, Begin
<1>. QED
  BY <1>1, <1>2, <1>3, <1>4, <1>5, <1>6 DEF RoundInv

\* The next one as well.
LEMMA BeginInvNext == Begun' => RoundInv'
BY BeginInv, PTL

-----------------------------------------------------------------------------
(* The inductive invariant *)

\* Every step keeps RoundInv.  Only the lists, Put and Remove disturb what was
\* seen; only ScrapeEnds adds a target; the rest moves the round along.
LEMMA StepKeepsInv == RoundInv /\ [Next]_vars => RoundInv'
<1>. SUFFICES ASSUME RoundInv, [Next]_vars PROVE RoundInv'
  OBVIOUS
<1>. USE DEF RoundInv
<1>a. /\ world \in SUBSET Object /\ server \in Server /\ round \in Round
  BY DEF TypeOK
<1>c. round.changes + 1 \in Nat
  BY <1>a DEF Round
\* A step that leaves lists and history alone keeps what is said about them.
<1>f. ASSUME world' = world, round'.seen = round.seen, round'.existed = round.existed,
             round'.steady = round.steady, round'.failed = round.failed,
             round'.pending = round.pending
      PROVE  SeenExisted' /\ ListsAreHonest'
  BY <1>f DEF SeenExisted, ListsAreHonest, PushedOut
\* One that leaves targets alone too, and is past the scrapes or among them.
<1>g. ASSUME round'.seen = round.seen, round'.request = round.request,
             round'.pending = round.pending, round'.targets = round.targets,
             round.pc \notin {"list", "aborted"},
             round.pc = "scrape" => round.tasks = {}
      PROVE  TargetsAccounted' /\ OkIsWhole'
  <2>1. ScrapeTargets' = ScrapeTargets /\ Refused' = Refused
    BY <1>g DEF ScrapeTargets, Refused, IsDiagnosis
  <2>2. OkIsWhole'
    BY <1>g DEF OkIsWhole
  <2>3. TargetsAccounted'
    BY <1>g, <2>1 DEF TargetsAccounted
  <2>. QED
    BY <2>2, <2>3
\* One that goes on to the probe.
<1>h. ASSUME world' = world, server' = server,
             round.pc \in {"settings", "connect", "query"},
             NEW pc \in {"connect", "query", "done"}, NEW settings \in [Field -> Source],
             NEW probe \in {"none", "connected", "failed"},
             round' = [round EXCEPT !.pc = pc, !.settings = settings, !.probe = probe],
             pc = "done" => probe # "none",
             probe = "connected" => server = "up" \/ round.probe = "connected"
      PROVE  RoundInv'
  <2>1. TypeOK'
    BY <1>a, <1>h DEF TypeOK, Round
  <2>2. SeenExisted' /\ ListsAreHonest'
    BY <1>a, <1>f, <1>h DEF Round
  <2>3. TargetsAccounted' /\ OkIsWhole'
    BY <1>a, <1>g, <1>h DEF Round
  <2>4. ProbeIsHonest'
    BY <1>a, <1>h DEF ProbeIsHonest, Round
  <2>. QED
    BY <2>1, <2>2, <2>3, <2>4
<1>1. ASSUME NEW k \in List, ListReturns(k) PROVE RoundInv'
  <2>. USE <1>1, <1>a DEF ListReturns
  <2>0. Listed(k) \subseteq {o \in world : o.kind = k}
    BY DEF Listed, Newest
  <2>7. /\ round'.existed = round.existed /\ round'.steady = round.steady
        /\ round'.failed = round.failed /\ round'.pending = round.pending \ {k}
        /\ round'.seen = round.seen \cup Listed(k)
    BY DEF Round
  <2>1. TypeOK'
    BY <2>0 DEF TypeOK, Round
  <2>2. SeenExisted'
    BY <2>0 DEF SeenExisted, Round
  <2>3. ListsAreHonest'
    <3>1. ASSUME NEW o \in round.steady, o.kind = k
          PROVE  o \in Listed(k) \/ PushedOut(o)
      <4>. DEFINE found == {e \in world : e.kind = k}
      <4>1. o \in found /\ found \subseteq round.existed /\ round.existed \in SUBSET Object
        BY <3>1 DEF SeenExisted, Round
      <4>2. CASE k # "events"
        BY <4>1, <4>2 DEF Listed
      <4>3. CASE k = "events" /\ o \notin Listed(k)
        <5>1. ~(Cardinality(Newer(found, o)) < MAX_EVENTS)
          BY <4>1, <4>3 DEF Listed, Newest
        <5>2. IsFiniteSet(Newer(found, o))
          BY <4>1, FS_Subset, RoundAssumption, Newer(found, o) \subseteq Object DEF Newer
        <5>3. Cardinality(Newer(found, o)) >= MAX_EVENTS
          BY <5>1, <5>2, FS_CardinalityType, RoundAssumption
        <5>. HIDE DEF found
        <5>4. Cardinality(Newer(round.existed, o)) >= MAX_EVENTS
          BY <4>1, <5>3, NewerGrows
        <5>. QED
          BY <3>1, <4>3, <5>4 DEF PushedOut
      <4>. QED
        BY <4>2, <4>3
    <3>2. \A o : PushedOut(o)' <=> PushedOut(o)
      BY <2>7 DEF PushedOut
    <3>. QED
      BY <2>0, <2>7, <3>1, <3>2 DEF ListsAreHonest
  <2>4. ProbeIsHonest'
    BY DEF ProbeIsHonest, Round
  <2>5. TargetsAccounted'
    BY DEF TargetsAccounted, Round
  <2>6. OkIsWhole'
    BY DEF OkIsWhole, Round
  <2>. QED
    BY <2>1, <2>2, <2>3, <2>4, <2>5, <2>6
<1>2. ASSUME NEW k \in List, ListFails(k) PROVE RoundInv'
  <2>. USE <1>2, <1>a DEF ListFails
  <2>1. TypeOK'
    BY DEF TypeOK, Round
  <2>2. SeenExisted'
    BY DEF SeenExisted, Round
  <2>3. ListsAreHonest'
    BY DEF ListsAreHonest, PushedOut, Round
  <2>4. ProbeIsHonest'
    BY DEF ProbeIsHonest, Round
  <2>5. TargetsAccounted'
    BY DEF TargetsAccounted, Round
  <2>6. OkIsWhole'
    BY DEF OkIsWhole, Round
  <2>. QED
    BY <2>1, <2>2, <2>3, <2>4, <2>5, <2>6
<1>3. ASSUME SpawnScrapes PROVE RoundInv'
  <2>. USE <1>3, <1>a DEF SpawnScrapes
  <2>1. TypeOK'
    BY DEF TypeOK, Round, ScrapeTargets
  <2>2. SeenExisted' /\ ListsAreHonest'
    BY <1>f DEF Round
  <2>3. ProbeIsHonest'
    BY DEF ProbeIsHonest, Round
  <2>4. TargetsAccounted'
    BY DEF TargetsAccounted, ScrapeTargets, Round
  <2>5. OkIsWhole'
    BY DEF OkIsWhole, Round
  <2>. QED
    BY <2>1, <2>2, <2>3, <2>4, <2>5
<1>4. ASSUME NEW o \in Object, NEW r \in Response, ScrapeEnds(o, r) PROVE RoundInv'
  <2>. DEFINE t == scrape_app_metrics_target(o, r)
  <2>0. t \in Target /\ t.service = o /\ Whole(t)
    BY ScrapeType
  <2>. HIDE DEF t
  <2>1. /\ world' = world /\ server' = server
        /\ round.pc = "scrape"
        /\ round' = [round EXCEPT !.tasks = round.tasks \ {o},
                                  !.targets = round.targets \cup {t}]
    BY <1>4 DEF ScrapeEnds, t
  <2>2. TypeOK'
    BY <1>a, <2>0, <2>1 DEF TypeOK, Round
  <2>3. SeenExisted' /\ ListsAreHonest'
    BY <1>a, <1>f, <2>1 DEF Round
  <2>4. ProbeIsHonest'
    BY <1>a, <2>1 DEF ProbeIsHonest, Round
  <2>5. TargetsAccounted'
    <3>1. ScrapeTargets' = ScrapeTargets /\ Refused' = Refused
      BY <1>a, <2>1 DEF ScrapeTargets, Refused, IsDiagnosis, Round
    <3>. QED
      BY <1>a, <2>0, <2>1, <3>1 DEF TargetsAccounted, Round
  <2>6. OkIsWhole'
    <3>1. round'.targets = round.targets \cup {t}
      BY <1>a, <2>1 DEF Round
    <3>. QED
      BY <2>0, <3>1 DEF OkIsWhole, Whole
  <2>. QED
    BY <2>2, <2>3, <2>4, <2>5, <2>6
<1>5. ASSUME NEW o \in Object, NEW r \in Response, ScrapeAborts(o, r) PROVE RoundInv'
  <2>. USE <1>5, <1>a DEF ScrapeAborts
  <2>1. TypeOK'
    BY DEF TypeOK, Round
  <2>2. SeenExisted' /\ ListsAreHonest'
    BY <1>f DEF Round
  <2>3. ProbeIsHonest'
    BY DEF ProbeIsHonest, Round
  <2>4. TargetsAccounted'
    BY DEF TargetsAccounted, Refused, IsDiagnosis, Round
  <2>5. OkIsWhole'
    BY DEF OkIsWhole, Round
  <2>. QED
    BY <2>1, <2>2, <2>3, <2>4, <2>5
<1>6. ASSUME SpawnLogReads PROVE RoundInv'
  <2>. USE <1>6, <1>a DEF SpawnLogReads
  <2>1. TypeOK'
    BY DEF TypeOK, Round, LogPods
  <2>2. SeenExisted' /\ ListsAreHonest'
    BY <1>f DEF Round
  <2>3. ProbeIsHonest'
    BY DEF ProbeIsHonest, Round
  <2>4. TargetsAccounted' /\ OkIsWhole'
    BY <1>g DEF Round
  <2>. QED
    BY <2>1, <2>2, <2>3, <2>4
<1>7. ASSUME NEW o \in Object, NEW read \in BOOLEAN, LogReadEnds(o, read) PROVE RoundInv'
  <2>. USE <1>7, <1>a DEF LogReadEnds
  <2>1. TypeOK'
    BY DEF TypeOK, Round
  <2>2. SeenExisted' /\ ListsAreHonest'
    BY <1>f DEF Round
  <2>3. ProbeIsHonest'
    BY DEF ProbeIsHonest, Round
  <2>4. TargetsAccounted' /\ OkIsWhole'
    BY <1>g DEF Round
  <2>. QED
    BY <2>1, <2>2, <2>3, <2>4
<1>8. ASSUME BuildPostgresql PROVE RoundInv'
  <2>. USE <1>8, <1>a DEF BuildPostgresql
  <2>1. TypeOK'
    BY DEF TypeOK, Round
  <2>2. SeenExisted' /\ ListsAreHonest'
    BY <1>f DEF Round
  <2>3. ProbeIsHonest'
    <3>1. round'.seen = round.seen /\ round'.request = round.request
      BY DEF Round
    <3>2. clear_candidates(round') = clear_candidates(round)
      BY <3>1, CandidatesFrame
    <3>. QED
      BY <3>2 DEF ProbeIsHonest, Round
  <2>4. TargetsAccounted' /\ OkIsWhole'
    BY <1>g DEF Round
  <2>. QED
    BY <2>1, <2>2, <2>3, <2>4
<1>9. ASSUME NEW secret \in Secrets \cup {{}}, ResolveSettings(secret) PROVE RoundInv'
  <2>. DEFINE settings == resolve_settings(secret, round.request.config)
  <2>1. settings \in [Field -> Source]
    BY DEF resolve_settings, Source
  <2>. HIDE DEF settings
  <2>2. /\ world' = world /\ server' = server /\ round.pc = "settings"
        /\ \/ round' = [[round EXCEPT !.pc = "done", !.probe = "failed"]
                           EXCEPT !.settings = settings]
           \/ round' = [round EXCEPT !.pc = "connect", !.settings = settings]
    BY <1>9 DEF ResolveSettings, Probed, settings
  <2>3. round' = [round EXCEPT !.pc = "done", !.settings = settings, !.probe = "failed"]
        \/ round' = [round EXCEPT !.pc = "connect", !.settings = settings,
                                  !.probe = round.probe]
    BY <1>a, <2>2 DEF Round
  <2>4. round.probe \in {"none", "connected", "failed"}
    BY <1>a DEF Round
  <2>. QED
    BY <1>h, <2>1, <2>2, <2>3, <2>4
<1>10. ASSUME Connect PROVE RoundInv'
  <2>1. round' = [round EXCEPT !.pc = "query", !.settings = round.settings,
                               !.probe = round.probe]
    BY <1>10, <1>a DEF Connect, Round
  <2>2. /\ round.settings \in [Field -> Source]
        /\ round.probe \in {"none", "connected", "failed"}
    BY <1>a DEF Round
  <2>. QED
    BY <1>h, <1>10, <2>1, <2>2 DEF Connect
<1>11. ASSUME Query PROVE RoundInv'
  <2>1. round' = [round EXCEPT !.pc = "done", !.settings = round.settings,
                               !.probe = "connected"]
    BY <1>11, <1>a DEF Query, Probed, Round
  <2>2. round.settings \in [Field -> Source]
    BY <1>a DEF Round
  <2>. QED
    BY <1>h, <1>11, <2>1, <2>2 DEF Query
<1>12. ASSUME ProbeFails \/ ProbeTimesOut PROVE RoundInv'
  <2>1. round' = [round EXCEPT !.pc = "done", !.settings = round.settings,
                               !.probe = "failed"]
    BY <1>12, <1>a DEF ProbeFails, ProbeTimesOut, Probed, Round
  <2>2. round.settings \in [Field -> Source]
    BY <1>a DEF Round
  <2>. QED
    BY <1>h, <1>12, <2>1, <2>2 DEF ProbeFails, ProbeTimesOut
<1>13. ASSUME NEW o \in Object, Put(o) PROVE RoundInv'
  <2>. DEFINE older == {p \in world : SameObject(o, p)}
  <2>0. /\ server' = server /\ o \notin world /\ round.pc \notin {"done", "aborted"}
        /\ world' = (world \ older) \cup {o}
        /\ round' = [round EXCEPT !.changes = round.changes + 1,
                                  !.existed = round.existed \cup {o},
                                  !.steady = round.steady \ older]
    BY <1>13 DEF Put, MayChange
  <2>. HIDE DEF older
  <2>1. TypeOK'
    <3>1. PICK n \in Nat : n = round.changes + 1
      BY <1>c
    <3>. QED
      BY <1>a, <2>0, <3>1 DEF TypeOK, Round
  <2>2. SeenExisted'
    BY <1>a, <2>0 DEF SeenExisted, Round
  <2>3. ListsAreHonest'
    <3>1. /\ round'.existed = round.existed \cup {o} /\ round'.steady = round.steady \ older
          /\ round'.seen = round.seen /\ round'.failed = round.failed
          /\ round'.pending = round.pending
      BY <1>a, <2>0 DEF Round
    <3>2. round'.existed \in SUBSET Object /\ round.existed \subseteq round'.existed
      BY <1>a, <3>1 DEF Round
    <3>3. \A p : PushedOut(p) => PushedOut(p)'
      BY <3>2, NewerGrows DEF PushedOut
    <3>. QED
      BY <3>1, <3>3 DEF ListsAreHonest
  <2>4. ProbeIsHonest'
    BY <1>a, <2>0 DEF ProbeIsHonest, Round
  <2>5. TargetsAccounted'
    BY <1>a, <2>0 DEF TargetsAccounted, Refused, IsDiagnosis, ScrapeTargets, Round
  <2>6. OkIsWhole'
    BY <1>a, <2>0 DEF OkIsWhole, Round
  <2>. QED
    BY <2>1, <2>2, <2>3, <2>4, <2>5, <2>6
<1>14. ASSUME NEW o \in Object, Remove(o) PROVE RoundInv'
  <2>. USE <1>14, <1>a DEF Remove, MayChange
  <2>1. TypeOK'
    <3>1. PICK n \in Nat : n = round.changes + 1
      BY <1>c
    <3>. QED
      BY <3>1 DEF TypeOK, Round
  <2>2. SeenExisted'
    BY DEF SeenExisted, Round
  <2>3. ListsAreHonest'
    BY DEF ListsAreHonest, PushedOut, Round
  <2>4. ProbeIsHonest'
    BY DEF ProbeIsHonest, Round
  <2>5. TargetsAccounted'
    BY DEF TargetsAccounted, Refused, IsDiagnosis, ScrapeTargets, Round
  <2>6. OkIsWhole'
    BY DEF OkIsWhole, Round
  <2>. QED
    BY <2>1, <2>2, <2>3, <2>4, <2>5, <2>6
<1>15. ASSUME NEW s \in Server, ServerTurns(s) PROVE RoundInv'
  <2>. USE <1>15, <1>a DEF ServerTurns, MayChange
  <2>1. TypeOK'
    <3>1. PICK n \in Nat : n = round.changes + 1
      BY <1>c
    <3>2. PICK up \in BOOLEAN : up = (round.served \/ s = "up")
      OBVIOUS
    <3>. QED
      BY <3>1, <3>2 DEF TypeOK, Round
  <2>2. SeenExisted' /\ ListsAreHonest'
    BY <1>f DEF Round
  <2>3. ProbeIsHonest'
    BY DEF ProbeIsHonest, Round
  <2>4. TargetsAccounted'
    BY DEF TargetsAccounted, Refused, IsDiagnosis, ScrapeTargets, Round
  <2>5. OkIsWhole'
    BY DEF OkIsWhole, Round
  <2>. QED
    BY <2>1, <2>2, <2>3, <2>4, <2>5
<1>16. ASSUME NEW w \in Worlds, NEW request \in Request, NextRound(w, request)
       PROVE  RoundInv'
  <2>1. /\ world' = w /\ w \in SUBSET Object /\ server' = server
        /\ round' = Begin(world', server', request)
    BY <1>16, RoundAssumption DEF NextRound
  <2>2. Begun'
    BY <1>a, <2>1 DEF Begun
  <2>. QED
    BY <2>2, BeginInvNext
<1>17. CASE UNCHANGED vars
  BY <1>17 DEF vars, TypeOK, SeenExisted, ListsAreHonest, PushedOut, ProbeIsHonest,
               TargetsAccounted, OkIsWhole, ScrapeTargets, Refused, IsDiagnosis, clear_candidates, Found, Scope,
               InScope
<1>. QED
  BY <1>1, <1>2, <1>3, <1>4, <1>5, <1>6, <1>7, <1>8, <1>9, <1>10, <1>11, <1>12, <1>13,
     <1>14, <1>15, <1>16, <1>17
  DEF Next, RoundStep

-----------------------------------------------------------------------------
(* Theorems *)

\* Every reachable state satisfies RoundInv.
THEOREM InvHolds == Spec => []RoundInv
<1>1. Init => RoundInv
  <2>1. Init => Begun
    BY RoundAssumption DEF Init, Begun
  <2>. QED
    BY <2>1, BeginInv
<1>. QED
  BY <1>1, StepKeepsInv, PTL DEF Spec

\* The state of a round keeps its type.
THEOREM TypeCorrect == Spec => []TypeOK
<1>1. RoundInv => TypeOK
  BY DEF RoundInv
<1>. QED
  BY <1>1, InvHolds, PTL

\* What the plugin found of a kind existed, and the list of the kind succeeded.
LEMMA FoundExisted ==
    ASSUME RoundInv, NEW k, NEW o \in Found(round, {k})
    PROVE  o \in Relevant(k) /\ k \notin round.failed /\ InScope(round, o)
BY DEF RoundInv, SeenExisted, ListsAreHonest, Found, Scope, Relevant

\* "healthy" is never made up (status, soft_unwrap): for every cluster and
\* however it changes between the lists and the probe.
THEOREM HealthyHolds == Spec => []HealthyIsEarned
<1>1. RoundInv => HealthyIsEarned
  <2>. SUFFICES ASSUME RoundInv, Judged, Verdict = "healthy"
                PROVE  /\ \E o \in Relevant("pods") : o.running
                       /\ Relevant("pvcs") # {}
                       /\ \E o \in Relevant("services") : is_clear_postgresql_service(o)
                       /\ {"pods", "services", "pvcs"} \cap round.failed = {}
                       /\ round.served
    BY DEF HealthyIsEarned
  <2>1. status(round) = "healthy"
    BY DEF Verdict, diagnosis
  <2>2. /\ clear_candidates(round) # {} /\ ready_pods(round) # {}
        /\ Found(round, {"pvcs"}) # {} /\ round.probe = "connected"
    BY <2>1 DEF status
  <2>3. round.served
    BY <2>2 DEF RoundInv, ProbeIsHonest
  <2>4. PICK pod \in Found(round, {"pods"}) : pod.running
    BY <2>2 DEF ready_pods
  <2>5. PICK svc \in Found(round, {"services"}) : is_clear_postgresql_service(svc)
    BY <2>2 DEF clear_candidates
  <2>6. PICK pvc \in Found(round, {"pvcs"}) : TRUE
    BY <2>2
  <2>7. pod \in Relevant("pods") /\ "pods" \notin round.failed
    BY FoundExisted
  <2>8. svc \in Relevant("services") /\ "services" \notin round.failed
    BY FoundExisted
  <2>9. pvc \in Relevant("pvcs") /\ "pvcs" \notin round.failed
    BY FoundExisted
  <2>. QED
    BY <2>3, <2>4, <2>5, <2>7, <2>8, <2>9
<1>. QED
  BY <1>1, InvHolds, PTL

\* A diagnosis other than "unknown" rests on everything it was asked to look
\* at (diagnostic_report_from_plugin): nothing missing means one clear Service,
\* which was probed, and an object of every kind.
THEOREM DiagnosisHolds == Spec => []DiagnosisRestsOnEverything
<1>1. RoundInv => DiagnosisRestsOnEverything
  <2>. SUFFICES ASSUME RoundInv, Judged, IsDiagnosis(round), diagnosis(round) # "unknown"
                PROVE  /\ diagnosis(round) \in {"healthy", "warning"}
                       /\ {"pods", "services", "pvcs", "events"} \cap round.failed = {}
                       /\ round.served
                       /\ Relevant("events") # {}
                       /\ \E k \in Workload \ round.failed : Relevant(k) # {}
                       /\ round.request.service # 0 =>
                              \E o \in Relevant("services") : o.name = round.request.service
                       /\ round.request.selector => \E o \in Relevant("pods") : o.hinted
    BY DEF DiagnosisRestsOnEverything
  <2>1. missing_data(round) = {} /\ diagnosis(round) = status(round)
    BY DEF diagnosis
  <2>2. ~ProbeMissing(round)
    BY <2>1 DEF missing_data
  <2>3. \A k \in {"pods", "services", "pvcs", "events"} : Found(round, {k}) # {}
    BY <2>1 DEF missing_data
  <2>4. clear_candidates(round) # {} /\ ~(Cardinality(clear_candidates(round)) > 1)
    BY <2>2, <2>3 DEF ProbeMissing
  <2>5. Cardinality(clear_candidates(round)) = 1
    BY <2>4, CandidatesCount DEF RoundInv, TypeOK
  <2>6. round.probe = "connected"
    BY <2>2, <2>5 DEF RoundInv, ProbeIsHonest, ProbeMissing, Judged, TypeOK, Round
  <2>7. round.served
    BY <2>6 DEF RoundInv, ProbeIsHonest
  <2>8. diagnosis(round) \in {"healthy", "warning"}
    BY <2>1, <2>4 DEF status
  <2>9. PICK pod \in Found(round, {"pods"}), svc \in Found(round, {"services"}),
             pvc \in Found(round, {"pvcs"}), event \in Found(round, {"events"}) : TRUE
    BY <2>3
  <2>10. pod \in Relevant("pods") /\ "pods" \notin round.failed /\ InScope(round, pod)
    BY FoundExisted
  <2>11. svc \in Relevant("services") /\ "services" \notin round.failed
         /\ InScope(round, svc)
    BY FoundExisted
  <2>12. pvc \in Relevant("pvcs") /\ "pvcs" \notin round.failed
    BY FoundExisted
  <2>13. event \in Relevant("events") /\ "events" \notin round.failed
    BY FoundExisted
  <2>14. round.request.service # 0 => svc.name = round.request.service
    BY <2>11 DEF InScope, Relevant
  <2>15. round.request.selector => pod.hinted
    BY <2>10 DEF InScope, Relevant
  <2>16. \E k \in Workload \ round.failed : Relevant(k) # {}
    <3>1. PICK o \in Found(round, Workload) : TRUE
      BY <2>1 DEF missing_data
    <3>2. o.kind \in Workload /\ o \in Found(round, {o.kind})
      BY DEF Found
    <3>3. o \in Relevant(o.kind) /\ o.kind \notin round.failed
      BY <3>2, FoundExisted
    <3>. QED
      BY <3>2, <3>3
  <2>. QED
    BY <2>7, <2>8, <2>10, <2>11, <2>12, <2>13, <2>14, <2>15, <2>16
<1>. QED
  BY <1>1, InvHolds, PTL

\* What was there throughout is reported by a snapshot, whatever else changed
\* or failed, unless MAX_EVENTS newer events pushed it out (collect,
\* collect_app_metrics, build_workload_monitoring): for every cluster, every
\* allowlist and every MAX_EVENTS.
THEOREM SteadyHolds == Spec => []SteadyIsSeen
<1>1. RoundInv => SteadyIsSeen
  <2>. SUFFICES ASSUME RoundInv, round.pc = "done", ~IsDiagnosis(round),
                       NEW o \in round.steady,
                       o.kind \in List \ round.failed, ~PushedOut(o)
                PROVE  /\ o.kind = "services" /\ o.scrape
                          /\ o.ns \in round.request.metrics_namespaces
                              => \E t \in round.targets : t.service = o
                       /\ o.kind # "pvcs" /\ o.ns \in round.request.workload_namespaces
                              => o \in workload_monitoring(round)
                       /\ o.ns \in round.request.postgresql_namespaces /\ Matches(o)
                              => status(round) # "critical"
    BY DEF SteadyIsSeen
  <2>1. round.pending = {}
    BY DEF RoundInv, TargetsAccounted, Refused
  <2>2. o \in round.seen
    BY <2>1 DEF RoundInv, ListsAreHonest
  <2>3. o \in ScrapeTargets => \E t \in round.targets : t.service = o
    BY DEF RoundInv, TargetsAccounted, Refused
  <2>4. ASSUME o.ns \in round.request.postgresql_namespaces, Matches(o)
        PROVE  status(round) # "critical"
    <3>1. o.kind \in Kind
      BY RoundAssumption
    <3>2. o \in Found(round, Kind \ {"events"}) \/ o \in Found(round, {"events"})
      BY <2>2, <2>4, <3>1 DEF Found, Scope, InScope
    <3>. QED
      BY <3>2 DEF status
  <2>. QED
    BY <2>2, <2>3, <2>4 DEF ScrapeTargets, workload_monitoring
<1>. QED
  BY <1>1, InvHolds, PTL

\* A target that counts as ok shows something, and every allowlisted sample
\* that is without white space in its labels (scrape_app_metrics_target), for
\* every cap and every answer of a Service that the parser survives.
THEOREM OkHolds == Spec => []OkIsWhole
<1>1. RoundInv => OkIsWhole
  BY DEF RoundInv
<1>. QED
  BY <1>1, InvHolds, PTL

=============================================================================
