------------------------ MODULE LeaderElectionProofs ------------------------
(***************************************************************************)
(* For every number of pods, every ttl and every skew that leave the       *)
(* Lease time to be renewed: pods whose calls are answered never lead      *)
(* together, and a Lease whose holder is gone is taken over in time.       *)
(* With it the collector loops that leadership gates (SnapshotSend), for   *)
(* every change of leaders: a snapshot that counts as sent is in the Hub;  *)
(* and the operator lifecycle that it gates too (OperatorLifecycle): no    *)
(* event is skipped, and what is in place or opted out stays so.           *)
(***************************************************************************)
EXTENDS LeaderElection, SnapshotSend, OperatorLifecycle, TLAPS

\* A third of the ttl, and what is left of the ttl behind it.
LEMMA Interval ==
    /\ RenewInterval \in Nat
    /\ LeaseTTL \in Nat /\ MaxSkew \in Nat /\ Retry \in Nat
    /\ 2 * MaxSkew + RenewInterval <= LeaseTTL
  BY LeaseAssumption DEF RenewInterval

\* A clock reading is an integer within the skew.
LEMMA ReadingInSkew ==
    ASSUME NEW t \in Nat, NEW now \in Reading(t)
    PROVE  now \in Int /\ t - MaxSkew <= now /\ now <= t + MaxSkew
  BY LeaseAssumption DEF Reading

\* What TypeOK says of one pod.
LEMMA PodType ==
    ASSUME TypeOK, NEW p \in Pod
    PROVE  /\ time \in Nat /\ lease.renewed \in Int
           /\ pod[p] \in Election
           /\ pod[p].up \in BOOLEAN /\ pod[p].is_leader \in BOOLEAN
           /\ pod[p].failed \in BOOLEAN /\ pod[p].wake \in Nat
  BY DEF TypeOK, Election

-----------------------------------------------------------------------------
(* Type correctness *)

LEMMA StartingType ==
    ASSUME NEW t \in Nat
    PROVE  Starting(t) \in Election /\ [Starting(t) EXCEPT !.up = FALSE] \in Election
  BY DEF Starting, Election, NoTime

LEMMA InitType == Init => TypeOK
<1> SUFFICES ASSUME Init PROVE TypeOK
  OBVIOUS
<1>1. Starting(0) \in Election
  BY StartingType
<1> QED
  BY <1>1 DEF Init, TypeOK

LEMMA NextType == TypeOK /\ [Next]_vars => TypeOK'
<1> SUFFICES ASSUME TypeOK, [Next]_vars PROVE TypeOK'
  OBVIOUS
<1>0. /\ time \in Nat /\ lease \in [holder : Pod \cup {Nobody}, renewed : Int]
      /\ pod \in [Pod -> Election] /\ lostAt \in Nat \cup {NoTime}
  BY DEF TypeOK
<1>1. ASSUME NEW p \in Pod, Acquire(p) PROVE TypeOK'
  <2>1. PICK now \in Reading(time) : lease' = [holder |-> p, renewed |-> now]
    BY <1>1 DEF Acquire
  <2>2. now \in Int
    BY <1>0, ReadingInSkew
  <2>3. time + RenewInterval \in Nat
    BY <1>0, Interval
  <2>4. [pod[p] EXCEPT !.is_leader = TRUE, !.wake = time + RenewInterval,
                       !.okAt = time, !.failed = FALSE] \in Election
    BY <1>0, <2>3 DEF Election
  <2>5. pod' \in [Pod -> Election]
    BY <1>0, <1>1, <2>4 DEF Acquire
  <2> QED
    BY <1>0, <1>1, <2>1, <2>2, <2>5 DEF Acquire, TypeOK
<1>2. ASSUME NEW p \in Pod, NotAcquired(p) PROVE TypeOK'
  <2>1. time + RenewInterval \in Nat
    BY <1>0, Interval
  <2>2. [pod[p] EXCEPT !.is_leader = FALSE, !.wake = time + RenewInterval,
                       !.failed = FALSE] \in Election
    BY <1>0, <2>1 DEF Election
  <2> QED
    BY <1>0, <1>2, <2>2 DEF NotAcquired, TypeOK
<1>3. ASSUME NEW p \in Pod, CallFails(p) PROVE TypeOK'
  <2>1. time + Retry \in Nat
    BY <1>0, Interval
  <2>2. [pod[p] EXCEPT !.wake = time + Retry, !.failed = TRUE] \in Election
    BY <1>0, <2>1 DEF Election
  <2> QED
    BY <1>0, <1>3, <2>2 DEF CallFails, TypeOK
<1>4. ASSUME NEW p \in Pod, NodeDown(p) PROVE TypeOK'
  BY <1>0, <1>4, StartingType DEF NodeDown, TypeOK
<1>5. ASSUME NEW p \in Pod, NodeUp(p) PROVE TypeOK'
  BY <1>0, <1>5, StartingType DEF NodeUp, TypeOK
<1>6. CASE Tick
  BY <1>0, <1>6 DEF Tick, TypeOK
<1>7. CASE UNCHANGED vars
  BY <1>0, <1>7 DEF vars, TypeOK
<1> QED
  BY <1>1, <1>2, <1>3, <1>4, <1>5, <1>6, <1>7 DEF Next, ElectionStep

\* The Lease and the election loops stay within their types.
THEOREM TypeCorrect == Spec => []TypeOK
BY InitType, NextType, PTL DEF Spec

-----------------------------------------------------------------------------
(* The invariant *)

LEMMA InitInv == Init => LeaseInv
<1> SUFFICES ASSUME Init PROVE LeaseInv
  OBVIOUS
<1>1. \A p \in Pod : pod[p] = Starting(0)
  BY DEF Init
<1>2. time = 0
  BY DEF Init
<1> QED
  BY <1>1, <1>2, Interval DEF LeaseInv, CallsOnTime, LeaderRenewed, FoundRenewed, Starting, Due

\* A Lease that a pod takes or renews was not that of another leader whose
\* calls are answered: by the time it expires, that one has called again.
LEMMA NobodyElseLeads ==
    ASSUME TypeOK, LeaseInv, NEW p \in Pod, NEW now \in Reading(time), Acquirable(p, now),
           NEW q \in Pod, q # p
    PROVE  ~(pod[q].is_leader /\ ~pod[q].failed)
<1> SUFFICES ASSUME pod[q].is_leader, ~pod[q].failed PROVE FALSE
  OBVIOUS
<1>1. /\ pod[q].up /\ time <= pod[q].wake
      /\ lease.holder = q /\ pod[q].wake <= lease.renewed + RenewInterval + MaxSkew
  BY DEF LeaseInv, CallsOnTime, LeaderRenewed
<1>2. now > lease.renewed + LeaseTTL
  BY <1>1, LeaseAssumption DEF Acquirable
<1>3. now \in Int /\ now <= time + MaxSkew
  BY ReadingInSkew, PodType
<1> QED
  BY <1>1, <1>2, <1>3, PodType, Interval

LEMMA AcquireKeeps ==
    ASSUME TypeOK, LeaseInv, NEW p \in Pod, Acquire(p)
    PROVE  LeaseInv'
<1>0. time' = time /\ pod \in [Pod -> Election] /\ time \in Nat
  BY DEF Acquire, TypeOK
<1>1. PICK now \in Reading(time) :
          Acquirable(p, now) /\ lease' = [holder |-> p, renewed |-> now]
  BY DEF Acquire
<1>2. now \in Int /\ time <= now + MaxSkew
  BY <1>0, ReadingInSkew, Interval
<1>3. lease'.holder = p /\ lease'.renewed = now
  BY <1>1
<1>4. /\ pod'[p].is_leader /\ ~pod'[p].failed /\ pod'[p].up
      /\ pod'[p].wake = time + RenewInterval
  BY <1>0 DEF Acquire, Due, Election
<1>5. \A q \in Pod \ {p} : pod'[q] = pod[q] /\ ~(pod[q].is_leader /\ ~pod[q].failed)
  BY <1>0, <1>1, NobodyElseLeads DEF Acquire
<1>6. CallsOnTime'
  BY <1>0, <1>4, <1>5, Interval DEF LeaseInv, CallsOnTime
<1>7. LeaderRenewed'
  BY <1>0, <1>2, <1>3, <1>4, <1>5, Interval DEF LeaderRenewed
<1>8. FoundRenewed'
  <2> SUFFICES ASSUME NEW q \in Pod, pod'[q].up, ~pod'[q].failed
               PROVE  pod'[q].wake <= now + LeaseTTL + RenewInterval + MaxSkew
    BY <1>3 DEF FoundRenewed
  <2>1. pod'[q].wake <= time + RenewInterval /\ pod'[q].wake \in Nat
    BY <1>0, <1>4, <1>5, PodType, Interval DEF LeaseInv, CallsOnTime
  <2> QED
    BY <1>0, <1>2, <2>1, Interval
<1> QED
  BY <1>6, <1>7, <1>8 DEF LeaseInv

\* A follower's call shows that the Lease was renewed within the ttl.
LEMMA NotAcquiredKeeps ==
    ASSUME TypeOK, LeaseInv, NEW p \in Pod, NotAcquired(p)
    PROVE  LeaseInv'
<1>0. time' = time /\ lease' = lease /\ pod \in [Pod -> Election] /\ time \in Nat
      /\ lease.renewed \in Int
  BY DEF NotAcquired, TypeOK
<1>1. PICK now \in Reading(time) : ~Acquirable(p, now)
  BY DEF NotAcquired
<1>2. now \in Int /\ time <= now + MaxSkew /\ now <= lease.renewed + LeaseTTL
  BY <1>0, <1>1, ReadingInSkew, Interval DEF Acquirable
<1>4. ~pod'[p].is_leader /\ pod'[p].up /\ pod'[p].wake = time + RenewInterval
  BY <1>0 DEF NotAcquired, Due, Election
<1>5. \A q \in Pod \ {p} : pod'[q] = pod[q]
  BY <1>0 DEF NotAcquired
<1>6. CallsOnTime'
  BY <1>0, <1>4, <1>5, Interval DEF LeaseInv, CallsOnTime
<1>7. LeaderRenewed'
  BY <1>0, <1>4, <1>5 DEF LeaseInv, LeaderRenewed
<1>8. FoundRenewed'
  BY <1>0, <1>2, <1>4, <1>5, Interval DEF LeaseInv, FoundRenewed, Due
<1> QED
  BY <1>6, <1>7, <1>8 DEF LeaseInv

LEMMA NextInv == TypeOK /\ LeaseInv /\ [Next]_vars => LeaseInv'
<1> SUFFICES ASSUME TypeOK, LeaseInv, [Next]_vars PROVE LeaseInv'
  OBVIOUS
<1>0. time \in Nat /\ pod \in [Pod -> Election] /\ lease.renewed \in Int
  BY DEF TypeOK
<1>1. ASSUME NEW p \in Pod, CallFails(p) PROVE LeaseInv'
  <2>1. /\ pod'[p].failed /\ pod'[p].wake = time + Retry /\ pod'[p].up
        /\ pod'[p].is_leader = pod[p].is_leader
    BY <1>0, <1>1 DEF CallFails, Due, Election
  <2>2. \A q \in Pod \ {p} : pod'[q] = pod[q]
    BY <1>0, <1>1 DEF CallFails
  <2>3. time' = time /\ lease' = lease
    BY <1>1 DEF CallFails
  <2> QED
    BY <1>0, <2>1, <2>2, <2>3, Interval
       DEF LeaseInv, CallsOnTime, LeaderRenewed, FoundRenewed, Due
<1>2. ASSUME NEW p \in Pod, NodeDown(p) \/ NodeUp(p) PROVE LeaseInv'
  <2>1. ~pod'[p].is_leader /\ ~pod'[p].failed /\ pod'[p].wake = time
    BY <1>0, <1>2 DEF NodeDown, NodeUp, Starting
  <2>2. \A q \in Pod \ {p} : pod'[q] = pod[q]
    BY <1>0, <1>2 DEF NodeDown, NodeUp
  <2>3. time' = time /\ lease' = lease
    BY <1>2 DEF NodeDown, NodeUp
  <2> QED
    BY <1>0, <2>1, <2>2, <2>3, Interval
       DEF LeaseInv, CallsOnTime, LeaderRenewed, FoundRenewed, Due
<1>3. CASE Tick
  <2>1. time' = time + 1 /\ lease' = lease /\ pod' = pod /\ \A p \in Pod : ~Due(p)
    BY <1>3 DEF Tick
  <2>2. ASSUME NEW p \in Pod
        PROVE  /\ pod[p].up => time + 1 <= pod[p].wake
               /\ ~pod[p].failed => pod[p].wake <= time + 1 + RenewInterval
               /\ pod[p].is_leader => pod[p].up
    BY <1>0, <2>1, PodType, Interval DEF LeaseInv, CallsOnTime, Due
  <2>3. CallsOnTime'
    BY <2>1, <2>2 DEF CallsOnTime
  <2>4. LeaderRenewed' /\ FoundRenewed'
    BY <2>1 DEF LeaseInv, LeaderRenewed, FoundRenewed, Due
  <2> QED
    BY <2>3, <2>4 DEF LeaseInv
<1>4. CASE UNCHANGED vars
  BY <1>4 DEF vars, LeaseInv, CallsOnTime, LeaderRenewed, FoundRenewed, Due
<1> QED
  BY <1>1, <1>2, <1>3, <1>4, AcquireKeeps, NotAcquiredKeeps DEF Next, ElectionStep

\* Every reachable state satisfies the invariant.
THEOREM LeaseInvariant == Spec => [](TypeOK /\ LeaseInv)
<1>1. TypeOK /\ LeaseInv /\ [Next]_vars => (TypeOK /\ LeaseInv)'
  BY NextType, NextInv
<1> QED
  BY <1>1, InitType, InitInv, PTL DEF Spec

\* Of the pods whose calls are answered at most one believes that it leads,
\* and the Lease agrees with it (run_leader_loop).
THEOREM OneLeaderAtATime == Spec => []OneHealthyLeader
<1>1. LeaseInv => OneHealthyLeader
  BY DEF LeaseInv, LeaderRenewed, OneHealthyLeader
<1> QED
  BY <1>1, LeaseInvariant, PTL

\* A Lease that nobody renews is taken over within the ttl, one renewal
\* interval and the skew, as long as some pod's calls are answered.
THEOREM TakeoverInTime == Spec => []TakeoverBound
<1>1. TypeOK /\ LeaseInv => TakeoverBound
  <2> SUFFICES ASSUME TypeOK, LeaseInv, NEW p \in Pod,
                      pod[p].up, ~pod[p].failed, ~Due(p)
               PROVE  time < lease.renewed + LeaseTTL + RenewInterval + MaxSkew
    BY DEF TakeoverBound
  <2>1. time <= pod[p].wake /\ time # pod[p].wake
    BY DEF LeaseInv, CallsOnTime, Due
  <2>2. pod[p].wake <= lease.renewed + LeaseTTL + RenewInterval + MaxSkew
    BY DEF LeaseInv, FoundRenewed
  <2> DEFINE wake == pod[p].wake
             end == lease.renewed + LeaseTTL + RenewInterval + MaxSkew
  <2>3. time \in Int /\ wake \in Int /\ end \in Int
    BY PodType, Interval
  <2>4. time <= wake /\ time # wake /\ wake <= end
    BY <2>1, <2>2
  <2>5. time < end
    <3> HIDE DEF wake, end
    <3> QED
      BY <2>3, <2>4
  <2> QED
    BY <2>5
<1> QED
  BY <1>1, LeaseInvariant, PTL

-----------------------------------------------------------------------------
(* The collector loops of the pods, which ask is_leader at every tick *)

\* A send at its beginning.
LEMMA BeginType ==
    ASSUME NEW pc \in {"startup", "idle", "collect", "post", "backoff"}
    PROVE  Begin(pc) \in Loop
BY SendAssumption DEF Begin, Loop

\* Posts stay within rounds times routes.
LEMMA PostsBound ==
    ASSUME NEW round \in Nat, NEW rounds \in Nat, NEW routes \in Nat, NEW route \in Nat,
           1 <= round, round <= rounds, 1 <= route, route <= routes
    PROVE  /\ (round - 1) * routes + route \in Nat
           /\ (round - 1) * routes + route <= rounds * routes
           /\ (round - 1) * routes + routes = round * routes
OBVIOUS

LEMMA SendInitInv == SendInit => SendTypeOK /\ SendInv
<1> SUFFICES ASSUME SendInit PROVE SendTypeOK /\ SendInv
  OBVIOUS
<1>1. Begin("startup") \in Loop
  BY BeginType
<1>2. SendTypeOK
  BY <1>1 DEF SendInit, SendTypeOK
<1>3. PostsCounted /\ SentIsInHub
  BY SendAssumption DEF SendInit, Begin, PostsCounted, SentIsInHub
<1> QED
  BY <1>2, <1>3 DEF SendInv

\* An answer leads to the next route, the next round or the end, and only a
\* success to the end with "ok".
LEMMA AnswerKeeps ==
    ASSUME NEW sent \in Loop, NEW a \in Answer,
           sent.posts = (sent.round - 1) * Routes + sent.route
    PROVE  LET next == AfterAnswer(sent, a) IN
           /\ next \in Loop
           /\ next.pc # "idle" /\ sent.pc # "idle" =>
                  next.posts = (next.round - 1) * Routes + next.route - 1
           /\ next.inHub = sent.inHub
           /\ next.result = "ok" => a = "stored" \/ sent.result = "ok"
<1> DEFINE next == AfterAnswer(sent, a)
<1>1. /\ sent.round \in Nat /\ 1 <= sent.round /\ sent.round <= Rounds
      /\ sent.route \in Nat /\ 1 <= sent.route /\ sent.route <= Routes
      /\ Rounds \in Nat /\ Routes \in Nat /\ Rounds # 0 /\ Routes # 0
  BY SendAssumption DEF Loop
<1>2. \/ next = Done(sent, "ok") /\ a = "stored"
      \/ next = Done(sent, "error")
      \/ next = NextTry(sent)
  BY DEF AfterAnswer
<1> HIDE DEF next
<1>3. ASSUME NEW result \in {"ok", "error"}, next = Done(sent, result)
      PROVE  /\ next \in Loop /\ next.pc = "idle" /\ next.inHub = sent.inHub
             /\ next.result = result
  BY <1>3 DEF Done, Loop
<1>4. CASE next = NextTry(sent)
  <2>1. CASE sent.route < Routes
    <3>1. next = [sent EXCEPT !.route = sent.route + 1]
      BY <1>4, <2>1 DEF NextTry
    <3>2. sent.route + 1 \in 1 .. Routes
      BY <1>1, <2>1
    <3>3. /\ next \in Loop /\ next.pc = sent.pc /\ next.inHub = sent.inHub
          /\ next.result = sent.result /\ next.round = sent.round
          /\ next.route = sent.route + 1 /\ next.posts = sent.posts
      BY <3>1, <3>2 DEF Loop
    <3>4. (sent.round - 1) * Routes + sent.route \in Nat /\ (sent.round - 1) * Routes \in Nat
      BY <1>1
    <3> QED
      BY <1>1, <3>3, <3>4 DEF next
  <2>2. CASE sent.route = Routes /\ sent.round < Rounds
    <3>1. next = [sent EXCEPT !.pc = "backoff", !.round = sent.round + 1, !.route = 1]
      BY <1>1, <1>4, <2>2 DEF NextTry
    <3>2. sent.round + 1 \in 1 .. Rounds /\ 1 \in 1 .. Routes
      BY <1>1, <2>2
    <3>3. /\ next \in Loop /\ next.inHub = sent.inHub
          /\ next.result = sent.result /\ next.round = sent.round + 1
          /\ next.route = 1 /\ next.posts = sent.posts
      BY <3>1, <3>2 DEF Loop
    <3>4. /\ sent.posts = sent.round * Routes /\ sent.round * Routes \in Nat
      BY <1>1, <2>2, PostsBound
    <3> QED
      BY <1>1, <3>3, <3>4 DEF next
  <2>3. CASE sent.route = Routes /\ sent.round = Rounds
    <3>1. next = Done(sent, "error")
      BY <1>1, <1>4, <2>3 DEF NextTry
    <3> QED
      BY <1>3, <3>1 DEF next
  <2>4. \/ sent.route < Routes
        \/ sent.route = Routes /\ sent.round < Rounds
        \/ sent.route = Routes /\ sent.round = Rounds
    <3> DEFINE route == sent.route
               round == sent.round
    <3>1. /\ route \in Nat /\ route <= Routes /\ Routes \in Nat
          /\ round \in Nat /\ round <= Rounds /\ Rounds \in Nat
      BY <1>1
    <3> HIDE DEF route, round
    <3>2. \/ route < Routes
          \/ route = Routes /\ round < Rounds
          \/ route = Routes /\ round = Rounds
      BY <3>1
    <3> QED
      BY <3>2 DEF route, round
  <2> QED
    BY <2>1, <2>2, <2>3, <2>4
<1> QED
  BY <1>2, <1>3, <1>4 DEF next

\* One loop changes, to a send that is counted and honest.
LEMMA LoopChanges ==
    ASSUME SendTypeOK, SendInv, NEW p \in Collector, NEW s \in Loop,
           loop' = [loop EXCEPT ![p] = s],
           leading' \in SUBSET Collector, UNCHANGED serving,
           s.pc # "idle" => s.posts = (s.round - 1) * Routes + s.route - 1,
           s.result = "ok" => s.inHub
    PROVE  SendTypeOK' /\ SendInv'
<1>1. loop \in [Collector -> Loop] /\ loop' \in [Collector -> Loop]
  BY DEF SendTypeOK
<1>2. SendTypeOK'
  BY <1>1 DEF SendTypeOK
<1>3. \A q \in Collector : loop'[q] = IF q = p THEN s ELSE loop[q]
  BY <1>1
<1>4. PostsCounted' /\ SentIsInHub'
  BY <1>3 DEF SendInv, PostsCounted, SentIsInHub
<1> QED
  BY <1>2, <1>4 DEF SendInv

LEMMA PostKeeps ==
    ASSUME SendTypeOK, SendInv,
           NEW p \in Collector, NEW a \in Answer, Post(p, a)
    PROVE  SendTypeOK' /\ SendInv'
<1>1. PICK stores \in Stores(a) :
        loop' = [loop EXCEPT ![p] =
            AfterAnswer(
                [loop[p] EXCEPT !.inHub = loop[p].inHub \/ stores,
                                !.posts = loop[p].posts + 1,
                                !.retryable = /\ loop[p].retryable \/ a \in Retryable
                                              /\ a # "rejected"],
                a)]
  BY DEF Post
<1> DEFINE inHub == loop[p].inHub \/ stores
           again == /\ loop[p].retryable \/ a \in Retryable
                    /\ a # "rejected"
           sent == [loop[p] EXCEPT !.inHub = inHub, !.posts = loop[p].posts + 1,
                                   !.retryable = again]
           next == AfterAnswer(sent, a)
<1>2. stores \in BOOLEAN /\ (a = "stored" => stores = TRUE)
  BY DEF Stores
<1>3. /\ loop[p] \in Loop /\ loop[p].pc = "post"
      /\ loop[p].posts = (loop[p].round - 1) * Routes + loop[p].route - 1
      /\ loop[p].result = "ok" => loop[p].inHub
  BY DEF Post, SendTypeOK, SendInv, PostsCounted, SentIsInHub
<1>4. /\ loop[p].round \in Nat /\ 1 <= loop[p].round /\ loop[p].round <= Rounds
      /\ loop[p].route \in Nat /\ 1 <= loop[p].route /\ loop[p].route <= Routes
      /\ Rounds \in Nat /\ Routes \in Nat
  BY <1>3, SendAssumption DEF Loop
<1>5. /\ loop[p].posts + 1 = (loop[p].round - 1) * Routes + loop[p].route
      /\ loop[p].posts + 1 \in 0 .. Rounds * Routes
  <2>1. /\ (loop[p].round - 1) * Routes + loop[p].route \in Nat
        /\ (loop[p].round - 1) * Routes + loop[p].route <= Rounds * Routes
    BY <1>4, PostsBound
  <2>2. (loop[p].round - 1) * Routes \in Int /\ Rounds * Routes \in Nat
    BY <1>4
  <2> QED
    BY <1>3, <1>4, <2>1, <2>2
<1>6. inHub \in BOOLEAN /\ again \in BOOLEAN
  BY <1>2, <1>3 DEF Loop
<1>7. inHub = (loop[p].inHub \/ stores)
  OBVIOUS
<1> HIDE DEF inHub, again
<1>8. /\ sent \in Loop /\ sent.pc = "post" /\ sent.inHub = inHub
      /\ sent.posts = (sent.round - 1) * Routes + sent.route
      /\ sent.result = loop[p].result
  BY <1>3, <1>5, <1>6 DEF Loop
<1>9. loop' = [loop EXCEPT ![p] = next]
  BY <1>1 DEF inHub, again
<1> HIDE DEF sent
<1>10. /\ next \in Loop
       /\ next.pc # "idle" => next.posts = (next.round - 1) * Routes + next.route - 1
       /\ next.inHub = inHub
       /\ next.result = "ok" => a = "stored" \/ loop[p].result = "ok"
  BY <1>8, AnswerKeeps
<1>11. next.result = "ok" => next.inHub
  BY <1>2, <1>3, <1>7, <1>10
<1>12. leading' \in SUBSET Collector /\ UNCHANGED serving
  BY DEF Post, SendTypeOK
<1> HIDE DEF next
<1> QED
  BY <1>9, <1>10, <1>11, <1>12, LoopChanges

LEMMA SendNextInv ==
    SendTypeOK /\ SendInv /\ [SendNext]_sendVars
        => SendTypeOK' /\ SendInv'
<1> SUFFICES ASSUME SendTypeOK, SendInv, [SendNext]_sendVars
             PROVE  SendTypeOK' /\ SendInv'
  OBVIOUS
<1>0. loop \in [Collector -> Loop] /\ leading \in SUBSET Collector
  BY DEF SendTypeOK
\* A loop that begins a send, or starts.
<1>1. ASSUME NEW p \in Collector, NEW pc \in {"startup", "idle", "collect"},
             loop' = [loop EXCEPT ![p] = Begin(pc)],
             leading' \in SUBSET Collector, UNCHANGED serving
      PROVE  SendTypeOK' /\ SendInv'
  <2> DEFINE s == Begin(pc)
  <2>1. s \in Loop
    BY BeginType
  <2>2. s.posts = (s.round - 1) * Routes + s.route - 1 /\ s.result # "ok"
    BY SendAssumption DEF Begin
  <2> HIDE DEF s
  <2>3. loop' = [loop EXCEPT ![p] = s]
    BY <1>1 DEF s
  <2> QED
    BY <1>1, <2>1, <2>2, <2>3, LoopChanges
\* A loop that goes on to its next post.
<1>2. ASSUME NEW p \in Collector, loop[p].pc \in {"collect", "backoff"},
             loop' = [loop EXCEPT ![p].pc = "post"], UNCHANGED <<leading, serving>>
      PROVE  SendTypeOK' /\ SendInv'
  <2> DEFINE s == [loop[p] EXCEPT !.pc = "post"]
  <2>1. /\ s \in Loop /\ s.posts = loop[p].posts /\ s.round = loop[p].round
        /\ s.route = loop[p].route /\ s.result = loop[p].result /\ s.inHub = loop[p].inHub
    BY <1>0 DEF Loop
  <2>2. loop' = [loop EXCEPT ![p] = s]
    BY <1>2
  <2> HIDE DEF s
  <2>3. /\ s.posts = (s.round - 1) * Routes + s.route - 1
        /\ s.result = "ok" => s.inHub
    BY <1>2, <2>1 DEF SendInv, PostsCounted, SentIsInHub
  <2> QED
    BY <1>0, <1>2, <2>1, <2>2, <2>3, LoopChanges
<1>3. ASSUME NEW p \in Collector, LoopStep(p) PROVE SendTypeOK' /\ SendInv'
  <2>1. CASE CheckClusterStatus(p) \/ CollectTick(p)
    BY <1>0, <1>1, <2>1 DEF CheckClusterStatus, CollectTick
  <2>2. CASE Collect(p) \/ Backoff(p)
    BY <1>2, <2>2 DEF Collect, Backoff
  <2> QED
    BY <1>3, <2>1, <2>2, PostKeeps DEF LoopStep
<1>4. ASSUME NEW p \in Collector, CollectorRestarts(p) PROVE SendTypeOK' /\ SendInv'
  <2>1. loop' = [loop EXCEPT ![p] = Begin("startup")]
        /\ leading' \in SUBSET Collector /\ UNCHANGED serving
    BY <1>0, <1>4 DEF CollectorRestarts
  <2> QED
    BY <1>1, <2>1
\* The rest leaves every loop alone.
<1>5. ASSUME UNCHANGED loop, leading' \in SUBSET Collector,
             serving' \in [1 .. Routes -> Answer \cup {"any"}]
      PROVE  SendTypeOK' /\ SendInv'
  BY <1>5 DEF SendTypeOK, SendInv, PostsCounted, SentIsInHub
<1>6. ASSUME NEW p \in Collector, LeadingChanges(p) PROVE SendTypeOK' /\ SendInv'
  BY <1>5, <1>6 DEF LeadingChanges, SendTypeOK
<1>7. ASSUME NEW answers \in [1 .. Routes -> Answer], Steady(answers)
      PROVE  SendTypeOK' /\ SendInv'
  BY <1>5, <1>7 DEF Steady, SendTypeOK
<1>8. CASE UNCHANGED sendVars
  BY <1>5, <1>8 DEF sendVars, SendTypeOK
<1> QED
  BY <1>3, <1>4, <1>6, <1>7, <1>8 DEF SendNext, SkippedTick

\* A send stays within its rounds and routes, and its posts are counted,
\* for every number of both.
THEOREM SendInvariant == SendSpec => [](SendTypeOK /\ SendInv)
<1>1. SendInit => SendTypeOK /\ SendInv
  BY SendInitInv
<1>2. SendTypeOK /\ SendInv /\ [SendNext]_sendVars
          => SendTypeOK' /\ SendInv'
  BY SendNextInv
<1> QED
  BY <1>1, <1>2, PTL DEF SendSpec

\* A snapshot that counts as sent is in the Hub, for every number of routes
\* and rounds, every order of answers and any change of leaders
\* (send_snapshot).
THEOREM WhatIsSentArrived == SendSpec => []SentIsInHub
<1>1. SendInv => SentIsInHub
  BY DEF SendInv
<1>2. SendSpec => [](SendTypeOK /\ SendInv)
  BY SendInvariant
<1> QED
  BY <1>1, <1>2, PTL

-----------------------------------------------------------------------------
(* The operator lifecycle tasks, which reconcile while their pod leads: type
   correctness *)

\* What an event of the ConfigMap says.
LEMMA EventType ==
    ASSUME NEW e \in Event
    PROVE  e.enabled \in BOOLEAN /\ e.excluded \in SUBSET Namespace /\ e.exists \in BOOLEAN
<1>1. CASE e = Deleted
  BY <1>1 DEF Deleted
<1>2. ASSUME NEW c \in Configs, e = Stored(c)
      PROVE  /\ e.enabled \in BOOLEAN /\ e.excluded \in SUBSET Namespace
             /\ e.exists \in BOOLEAN
  <2>1. c \in [enabled : BOOLEAN, excluded : SUBSET Namespace]
    BY LifecycleAssumption
  <2> QED
    BY <1>2, <2>1 DEF Stored
<1> QED
  BY <1>1, <1>2 DEF Event

\* What LifecycleTypeOK says of one pod and of the events.
LEMMA AgentType ==
    ASSUME LifecycleTypeOK, NEW p \in Agent
    PROVE  /\ agent[p] \in Task
           /\ agent[p].rv \in Nat /\ agent[p].pos \in Nat
           /\ agent[p].rv <= agent[p].pos /\ agent[p].pos <= Len(log)
           /\ Len(log) \in Nat
           /\ \A k \in 1 .. Len(log) : log[k] \in Event
  BY DEF LifecycleTypeOK, Task

\* The task of one pod changes, and what it works on may.
LEMMA TaskChangesType ==
    ASSUME LifecycleTypeOK, NEW p \in Agent, NEW t \in Task,
           t.rv <= t.pos, t.pos <= Len(log),
           agent' = [agent EXCEPT ![p] = t],
           UNCHANGED <<log, calm>>, leader' \in SUBSET Agent,
           {account', deployment', policy'} \subseteq BOOLEAN,
           label' \in [Namespace -> LabelValue]
    PROVE  LifecycleTypeOK'
<1>1. agent \in [Agent -> Task] /\ agent' \in [Agent -> Task]
  BY DEF LifecycleTypeOK
<1>2. ASSUME NEW q \in Agent
      PROVE  agent'[q].rv <= agent'[q].pos /\ agent'[q].pos <= Len(log')
  <2>1. agent'[q] = IF q = p THEN t ELSE agent[q]
    BY <1>1
  <2> QED
    BY <2>1 DEF LifecycleTypeOK
<1> QED
  BY <1>1, <1>2 DEF LifecycleTypeOK

\* A value that is taken over.
LEMMA LearnType ==
    ASSUME LifecycleTypeOK, NEW p \in Agent, NEW t \in Task, NEW e \in Event,
           NEW resume \in {"connect", "watch"},
           t.rv <= t.pos, t.pos <= Len(log),
           Learn(p, t, e, resume), UNCHANGED <<log, leader, world, calm>>
    PROVE  LifecycleTypeOK'
<1> DEFINE pc == IF p \notin leader THEN resume
                 ELSE IF e.enabled THEN "account" ELSE "dropDeployment"
           u == [t EXCEPT !.known = TRUE, !.enabled = e.enabled, !.excluded = e.excluded,
                          !.resume = resume, !.pc = pc]
<1>1. agent' = [agent EXCEPT ![p] = u]
  BY DEF Learn
<1>2. pc \in {"boot", "connect", "watch"} \cup Enabling \cup Disabling
  BY DEF Enabling, Disabling
<1> HIDE DEF pc
<1>3. u \in Task /\ u.rv = t.rv /\ u.pos = t.pos
  BY <1>2, EventType DEF Task
<1> HIDE DEF u
<1>4. /\ leader' \in SUBSET Agent /\ {account', deployment', policy'} \subseteq BOOLEAN
      /\ label' \in [Namespace -> LabelValue]
  BY DEF LifecycleTypeOK, world
<1> QED
  BY <1>1, <1>3, <1>4, TaskChangesType

LEMMA LifecycleInitType == LifecycleInit => LifecycleTypeOK
<1> SUFFICES ASSUME LifecycleInit PROVE LifecycleTypeOK
  OBVIOUS
<1>1. PICK c \in Configs : log = <<Stored(c)>>
  BY DEF LifecycleInit
<1>2. log \in Seq(Event) /\ Len(log) = 1
  BY <1>1 DEF Event
<1>3. Started \in Task /\ Started.rv = 0 /\ Started.pos = 0
  BY DEF Started, Task, NoLabels, LabelValue
<1>4. /\ agent \in [Agent -> Task]
      /\ \A p \in Agent : agent[p].rv <= agent[p].pos /\ agent[p].pos <= Len(log)
  BY <1>2, <1>3 DEF LifecycleInit
<1>5. /\ leader \in SUBSET Agent /\ label \in [Namespace -> LabelValue]
      /\ {account, deployment, policy, calm} \subseteq BOOLEAN
  BY DEF LifecycleInit
<1> QED
  BY <1>2, <1>4, <1>5 DEF LifecycleTypeOK

\* A task that changes what is not shared.
LEMMA AgentChangesType ==
    ASSUME LifecycleTypeOK, NEW p \in Agent, NEW t \in Task,
           t.rv <= t.pos, t.pos <= Len(log), agent' = [agent EXCEPT ![p] = t],
           UNCHANGED <<log, leader, world, calm>>
    PROVE  LifecycleTypeOK'
<1>1. /\ leader' \in SUBSET Agent /\ {account', deployment', policy'} \subseteq BOOLEAN
      /\ label' \in [Namespace -> LabelValue]
  BY DEF LifecycleTypeOK, world
<1> QED
  BY <1>1, TaskChangesType DEF world

\* Where a reconcile ends.
LEMMA ResumeType ==
    ASSUME LifecycleTypeOK, NEW p \in Agent
    PROVE  agent[p].resume \in {"connect", "watch"}
  BY AgentType DEF Task

\* A step of a reconcile changes neither what the pod knows nor its place in
\* the stream.
LEMMA ReconcileKeeps ==
    ASSUME LifecycleTypeOK, NEW p \in Agent, ReconcileStep(p)
    PROVE  \E t \in Task :
               /\ agent' = [agent EXCEPT ![p] = t]
               /\ t.rv = agent[p].rv /\ t.pos = agent[p].pos /\ t.gone = agent[p].gone
               /\ t.known = agent[p].known /\ t.enabled = agent[p].enabled
               /\ t.excluded = agent[p].excluded /\ t.resume = agent[p].resume
               /\ \/ agent[p].pc \in Enabling /\ t.pc \in Enabling
                  \/ agent[p].pc \in Disabling /\ t.pc \in Disabling
                  \/ agent[p].pc \in Enabling \cup Disabling /\ t.pc = agent[p].resume
               /\ UNCHANGED <<log, leader, calm>>
<1>0. agent[p] \in Task /\ agent[p].resume \in {"connect", "watch"} /\ agent \in [Agent -> Task]
      /\ label \in [Namespace -> LabelValue]
  BY AgentType, ResumeType DEF LifecycleTypeOK
<1> DEFINE K(t) == /\ t.rv = agent[p].rv /\ t.pos = agent[p].pos /\ t.gone = agent[p].gone
                   /\ t.known = agent[p].known /\ t.enabled = agent[p].enabled
                   /\ t.excluded = agent[p].excluded /\ t.resume = agent[p].resume
<1>1. ASSUME NEW pc \in {"connect", "watch"} \cup Enabling \cup Disabling,
             agent' = [agent EXCEPT ![p].pc = pc]
      PROVE  \E t \in Task : agent' = [agent EXCEPT ![p] = t] /\ K(t) /\ t.pc = pc
  <2> DEFINE t == [agent[p] EXCEPT !.pc = pc]
  <2>1. t \in Task /\ K(t) /\ t.pc = pc
    BY <1>0 DEF Task
  <2>2. agent' = [agent EXCEPT ![p] = t]
    BY <1>1
  <2> QED
    BY <2>1, <2>2
<1>2. CASE EnsureAccount(p)
  <2>1. PICK t \in Task : agent' = [agent EXCEPT ![p] = t] /\ K(t) /\ t.pc = "deployment"
    BY <1>1, <1>2 DEF EnsureAccount, Goto, Enabling
  <2> QED
    BY <1>2, <2>1 DEF EnsureAccount, Enabling
<1>3. CASE EnsureDeployment(p)
  <2>1. PICK t \in Task : agent' = [agent EXCEPT ![p] = t] /\ K(t) /\ t.pc = "policy"
    BY <1>1, <1>3 DEF EnsureDeployment, Goto, Enabling
  <2> QED
    BY <1>3, <2>1 DEF EnsureDeployment, Enabling
<1>4. CASE EnsurePolicy(p)
  <2>1. PICK t \in Task : agent' = [agent EXCEPT ![p] = t] /\ K(t) /\ t.pc = "namespaces"
    BY <1>1, <1>4 DEF EnsurePolicy, Goto, Enabling
  <2> QED
    BY <1>4, <2>1 DEF EnsurePolicy, Enabling
<1>5. CASE DropDeployment(p)
  <2>1. PICK t \in Task : agent' = [agent EXCEPT ![p] = t] /\ K(t) /\ t.pc = "dropAccount"
    BY <1>1, <1>5 DEF DropDeployment, Goto, Disabling
  <2> QED
    BY <1>5, <2>1 DEF DropDeployment, Disabling
<1>6. CASE DropAccount(p)
  <2>1. PICK t \in Task : agent' = [agent EXCEPT ![p] = t] /\ K(t) /\ t.pc = agent[p].resume
    BY <1>0, <1>1, <1>6 DEF DropAccount
  <2> QED
    BY <1>6, <2>1 DEF DropAccount, Disabling
<1>7. CASE ListNamespaces(p)
  <2> DEFINE t == [agent[p] EXCEPT !.pc = "labels", !.listed = label, !.todo = Namespace]
  <2>1. t \in Task /\ K(t) /\ t.pc = "labels"
    BY <1>0 DEF Task, Enabling
  <2>2. agent' = [agent EXCEPT ![p] = t]
    BY <1>7 DEF ListNamespaces
  <2> HIDE DEF t
  <2> QED
    BY <1>7, <2>1, <2>2 DEF ListNamespaces, Enabling
<1>8. CASE ReconcileDone(p)
  <2> DEFINE t == [agent[p] EXCEPT !.pc = agent[p].resume, !.listed = NoLabels]
  <2>1. t \in Task /\ K(t) /\ t.pc = agent[p].resume
    BY <1>0 DEF Task, NoLabels, LabelValue
  <2>2. agent' = [agent EXCEPT ![p] = t]
    BY <1>8 DEF ReconcileDone
  <2> HIDE DEF t
  <2> QED
    BY <1>8, <2>1, <2>2 DEF ReconcileDone, Enabling
<1>9. CASE ReconcileFails(p)
  <2> DEFINE t == [agent[p] EXCEPT !.pc = agent[p].resume, !.todo = {}, !.listed = NoLabels]
  <2>1. t \in Task /\ K(t) /\ t.pc = agent[p].resume
    BY <1>0 DEF Task, NoLabels, LabelValue
  <2>2. agent' = [agent EXCEPT ![p] = t]
    BY <1>9 DEF ReconcileFails
  <2> HIDE DEF t
  <2> QED
    BY <1>9, <2>1, <2>2 DEF ReconcileFails
<1>10. ASSUME NEW n \in Namespace, ReconcileNamespace(p, n)
       PROVE  \E t \in Task : agent' = [agent EXCEPT ![p] = t] /\ K(t) /\ t.pc = "labels"
  <2> DEFINE t == [agent[p] EXCEPT !.todo = @ \ {n}]
  <2>1. t \in Task /\ K(t) /\ t.pc = agent[p].pc
    BY <1>0 DEF Task
  <2>2. agent' = [agent EXCEPT ![p] = t] /\ agent[p].pc = "labels"
    BY <1>10 DEF ReconcileNamespace
  <2> HIDE DEF t
  <2> QED
    BY <2>1, <2>2
<1>11. ASSUME NEW n \in Namespace, ReconcileNamespace(p, n)
       PROVE  /\ agent[p].pc = "labels" /\ "labels" \in Enabling
              /\ UNCHANGED <<log, leader, calm>>
  BY <1>11 DEF ReconcileNamespace, Enabling
<1> QED
  BY <1>2, <1>3, <1>4, <1>5, <1>6, <1>7, <1>8, <1>9, <1>10, <1>11 DEF ReconcileStep

LEMMA ReconcileType ==
    ASSUME LifecycleTypeOK, NEW p \in Agent, ReconcileStep(p)
    PROVE  LifecycleTypeOK'
<1>1. PICK t \in Task :
          /\ agent' = [agent EXCEPT ![p] = t]
          /\ t.rv = agent[p].rv /\ t.pos = agent[p].pos
          /\ UNCHANGED <<log, leader, calm>>
  BY ReconcileKeeps
<1>2. /\ leader \in SUBSET Agent /\ {account, deployment, policy} \subseteq BOOLEAN
      /\ label \in [Namespace -> LabelValue]
  BY DEF LifecycleTypeOK
<1>3. {account', deployment', policy'} \subseteq BOOLEAN
  BY <1>2 DEF ReconcileStep, EnsureAccount, EnsureDeployment, EnsurePolicy, ListNamespaces,
              ReconcileDone, ReconcileNamespace, DropDeployment, DropAccount, ReconcileFails,
              world
<1>4. ASSUME NEW n \in Namespace PROVE Relabel(p, n) \in LabelValue
  BY <1>2 DEF Relabel, LabelValue
<1>5. label' = label \/ \E n \in Namespace : label' = [label EXCEPT ![n] = Relabel(p, n)]
  BY DEF ReconcileStep, EnsureAccount, EnsureDeployment, EnsurePolicy, ListNamespaces,
         ReconcileDone, ReconcileNamespace, DropDeployment, DropAccount, ReconcileFails, world
<1>6. label' \in [Namespace -> LabelValue]
  BY <1>2, <1>4, <1>5
<1> QED
  BY <1>1, <1>2, <1>3, <1>6, AgentType, TaskChangesType

LEMMA LifecycleNextType == LifecycleTypeOK /\ LifecycleInv /\ [LifecycleNext]_lifecycleVars
                               => LifecycleTypeOK'
<1> SUFFICES ASSUME LifecycleTypeOK, LifecycleInv, [LifecycleNext]_lifecycleVars
             PROVE  LifecycleTypeOK'
  OBVIOUS
<1>0. /\ Len(log) \in Nat /\ Len(log) # 0 /\ Current \in Event
      /\ log \in Seq(Event) /\ leader \in SUBSET Agent /\ agent \in [Agent -> Task]
  BY DEF LifecycleTypeOK, LifecycleInv, Current
<1>1. ASSUME NEW p \in Agent, Boot(p) PROVE LifecycleTypeOK'
  <2>1. agent[p] \in Task /\ agent[p].rv <= agent[p].pos /\ agent[p].pos <= Len(log)
    BY AgentType
  <2> QED
    BY <1>0, <1>1, <2>1, LearnType DEF Boot
<1>2. ASSUME NEW p \in Agent, BootFails(p) \/ Connect(p) \/ StreamEnds(p) \/ Bookmark(p)
      PROVE  LifecycleTypeOK'
  <2>0. /\ agent[p] \in Task /\ agent[p].rv <= agent[p].pos /\ agent[p].pos <= Len(log)
        /\ agent[p].rv \in Nat /\ agent[p].pos \in Nat
    BY AgentType
  <2> DEFINE boot == [agent[p] EXCEPT !.pc = "connect"]
             connect == [agent[p] EXCEPT !.pc = "watch", !.pos = WatchFrom(p)]
             ended == [agent[p] EXCEPT !.pc = "connect", !.pos = agent[p].rv]
             marked == [agent[p] EXCEPT !.rv = agent[p].pos]
  <2>1. WatchFrom(p) \in Nat /\ agent[p].rv <= WatchFrom(p) /\ WatchFrom(p) <= Len(log)
    BY <1>0, <2>0 DEF WatchFrom
  <2>2. /\ boot \in Task /\ boot.rv <= boot.pos /\ boot.pos <= Len(log)
        /\ ended \in Task /\ ended.rv <= ended.pos /\ ended.pos <= Len(log)
        /\ marked \in Task /\ marked.rv <= marked.pos /\ marked.pos <= Len(log)
    <3>1. /\ boot \in Task /\ boot.rv = agent[p].rv /\ boot.pos = agent[p].pos
          /\ ended \in Task /\ ended.rv = agent[p].rv /\ ended.pos = agent[p].rv
          /\ marked \in Task /\ marked.rv = agent[p].pos /\ marked.pos = agent[p].pos
      BY <2>0 DEF Task
    <3> HIDE DEF boot, ended, marked
    <3> QED
      BY <1>0, <2>0, <3>1
  <2>3. connect \in Task /\ connect.rv <= connect.pos /\ connect.pos <= Len(log)
    BY <1>0, <2>0, <2>1 DEF Task
  <2>4. /\ \E t \in {boot, connect, ended, marked} : agent' = [agent EXCEPT ![p] = t]
        /\ UNCHANGED <<log, leader, world, calm>>
    BY <1>2 DEF BootFails, Connect, StreamEnds, Bookmark
  <2> HIDE DEF boot, connect, ended, marked
  <2> QED
    BY <2>2, <2>3, <2>4, AgentChangesType
<1>3. ASSUME NEW p \in Agent, WatchEvent(p) PROVE LifecycleTypeOK'
  <2>0. /\ agent[p] \in Task /\ agent[p].rv <= agent[p].pos /\ agent[p].pos <= Len(log)
        /\ agent[p].rv \in Nat /\ agent[p].pos \in Nat /\ agent[p].pos < Len(log)
    BY <1>3, AgentType DEF WatchEvent
  <2> DEFINE next == agent[p].pos + 1
             task == [agent[p] EXCEPT !.pos = next]
             seen == IF log[next].exists THEN [task EXCEPT !.rv = next] ELSE task
  <2>1. next \in 1 .. Len(log) /\ next \in Nat /\ agent[p].rv <= next
    BY <1>0, <2>0
  <2>2. log[next] \in Event
    BY <1>0, <2>1
  <2>3. Learn(p, seen, log[next], "watch") /\ UNCHANGED <<log, leader, world, calm>>
    BY <1>3 DEF WatchEvent
  <2> HIDE DEF next
  <2>4. seen \in Task /\ seen.rv <= seen.pos /\ seen.pos <= Len(log)
    <3>1. task \in Task /\ task.pos = next /\ task.rv = agent[p].rv
      BY <2>0, <2>1 DEF Task
    <3>2. [task EXCEPT !.rv = next] \in Task /\ [task EXCEPT !.rv = next].rv = next
          /\ [task EXCEPT !.rv = next].pos = next
      BY <2>0, <2>1 DEF Task
    <3> QED
      BY <1>0, <2>1, <3>1, <3>2
  <2> HIDE DEF task, seen
  <2> QED
    BY <2>2, <2>3, <2>4, LearnType
<1>4. ASSUME NEW p \in Agent, PeriodicTick(p) PROVE LifecycleTypeOK'
  <2>0. /\ agent[p] \in Task /\ agent[p].rv <= agent[p].pos /\ agent[p].pos <= Len(log)
    BY AgentType
  <2> DEFINE pc == IF agent[p].enabled THEN "account" ELSE "dropDeployment"
             t == [agent[p] EXCEPT !.resume = "watch", !.pc = pc]
  <2>1. pc \in Enabling \cup Disabling
    BY DEF Enabling, Disabling
  <2>2. /\ agent' = agent \/ agent' = [agent EXCEPT ![p] = t]
        /\ UNCHANGED <<log, leader, world, calm>>
    BY <1>4 DEF PeriodicTick
  <2> HIDE DEF pc
  <2>3. t \in Task /\ t.rv = agent[p].rv /\ t.pos = agent[p].pos
    BY <2>0, <2>1 DEF Task
  <2> HIDE DEF t
  <2>4. CASE agent' = agent
    BY <2>2, <2>4 DEF LifecycleTypeOK, world
  <2> QED
    BY <2>0, <2>2, <2>3, <2>4, AgentChangesType
<1>5. ASSUME NEW e \in Event, ChangeConfig(e) PROVE LifecycleTypeOK'
  <2>1. log' \in Seq(Event) /\ Len(log') = Len(log) + 1
    BY <1>0, <1>5 DEF ChangeConfig
  <2>2. ASSUME NEW p \in Agent PROVE agent'[p].rv <= agent'[p].pos /\ agent'[p].pos <= Len(log')
    BY <1>0, <1>5, <2>1, AgentType DEF ChangeConfig
  <2> QED
    BY <1>5, <2>1, <2>2 DEF ChangeConfig, LifecycleTypeOK, world
<1>6. ASSUME NEW p \in Agent, AgentRestarts(p) \/ Expire(p) PROVE LifecycleTypeOK'
  <2>0. /\ agent[p] \in Task /\ agent[p].rv <= agent[p].pos /\ agent[p].pos <= Len(log)
    BY AgentType
  <2> DEFINE t == [agent[p] EXCEPT !.gone = TRUE]
  <2>1. Started \in Task /\ Started.rv = 0 /\ Started.pos = 0
    BY DEF Started, Task, NoLabels, LabelValue
  <2>2. t \in Task /\ t.rv = agent[p].rv /\ t.pos = agent[p].pos
    BY <2>0 DEF Task
  <2>3. CASE AgentRestarts(p)
    <3>1. /\ leader' \in SUBSET Agent /\ agent' = [agent EXCEPT ![p] = Started]
          /\ UNCHANGED <<log, calm, account, deployment, policy, label>>
      BY <1>0, <2>3 DEF AgentRestarts, world
    <3>2. Started.rv <= Started.pos /\ Started.pos <= Len(log)
      BY <1>0, <2>1
    <3>3. {account', deployment', policy'} \subseteq BOOLEAN /\ label' \in [Namespace -> LabelValue]
      BY <3>1 DEF LifecycleTypeOK
    <3> QED
      BY <2>1, <3>1, <3>2, <3>3, TaskChangesType
  <2>4. CASE Expire(p)
    <3>1. agent' = [agent EXCEPT ![p] = t] /\ UNCHANGED <<log, leader, world, calm>>
      BY <2>4 DEF Expire
    <3> HIDE DEF t
    <3> QED
      BY <2>0, <2>2, <3>1, AgentChangesType
  <2> QED
    BY <1>6, <2>3, <2>4
<1>7. ASSUME NEW p \in Agent, ChangeLeader(p) PROVE LifecycleTypeOK'
  BY <1>7 DEF ChangeLeader, LifecycleTypeOK, world
<1>8. ASSUME NEW n \in Namespace, OptOut(n) PROVE LifecycleTypeOK'
  BY <1>8 DEF OptOut, LifecycleTypeOK, LabelValue
<1>9. CASE Calm \/ UNCHANGED lifecycleVars
  BY <1>9 DEF Calm, lifecycleVars, LifecycleTypeOK, world
<1> QED
  BY <1>1, <1>2, <1>3, <1>4, <1>5, <1>6, <1>7, <1>8, <1>9, ReconcileType
     DEF LifecycleNext, TaskStep, EnvironmentStep

-----------------------------------------------------------------------------
(* What the lifecycle tasks know *)

\* The invariant, said of one task.
TaskKnows(t) == t.known /\ SameWish(t, Current)

TaskStreams(t) == t.pc = "watch" \/ (t.pc \in Enabling \cup Disabling /\ t.resume = "watch")

TaskReplays(t) ==
    TaskStreams(t) /\ t.rv # 0 /\ t.rv < t.pos =>
        /\ t.known /\ ~t.enabled
        /\ \A k \in (t.rv + 1) .. t.pos : ~log[k].enabled

TaskInv(t) ==
    /\ TaskReplays(t)
    /\ t.pc \in Enabling => t.known /\ t.enabled
    /\ t.pc \in Disabling => t.known /\ ~t.enabled
    /\ t.rv = Len(log) /\ Current.exists => TaskKnows(t)
    /\ /\ TaskStreams(t) /\ t.pos = Len(log)
       /\ Current.exists \/ (t.known /\ ~t.enabled) \/ (t.rv # 0 /\ log[t.rv].exists)
       => TaskKnows(t)

LEMMA InvByTask ==
    LifecycleInv <=> Len(log) # 0 /\ \A p \in Agent : TaskInv(agent[p])
  BY DEF LifecycleInv, ReconcilesTheKnown, VersionIsKnown, CaughtUpAgrees, TaskInv,
         ReplaysDeletions, TaskReplays, Knows, TaskKnows, CaughtUp, Streaming, TaskStreams, Reconciling, HeardOfDeletion

\* One task changes and the log does not.
LEMMA TaskChangesInv ==
    ASSUME LifecycleTypeOK, LifecycleInv, NEW p \in Agent, NEW t,
           agent' = [agent EXCEPT ![p] = t], UNCHANGED log, TaskInv(t)
    PROVE  LifecycleInv'
<1>1. /\ Len(log') # 0
      /\ \A q \in Agent : agent'[q] = t \/ agent'[q] = agent[q]
  BY InvByTask DEF LifecycleTypeOK
<1>2. ASSUME NEW q \in Agent PROVE TaskInv(agent[q])'
  <2>1. TaskInv(agent'[q])
    BY <1>1, InvByTask
  <2>2. Current' = Current
    BY DEF Current
  <2> QED
    BY <2>1, <2>2 DEF TaskInv, TaskReplays, TaskKnows, SameWish, TaskStreams
<1>3. (Len(log) # 0)' /\ \A q \in Agent : TaskInv(agent[q])'
  BY <1>1, <1>2
<1> QED
  BY <1>3 DEF LifecycleInv, ReconcilesTheKnown, VersionIsKnown, CaughtUpAgrees, TaskInv,
              ReplaysDeletions, TaskReplays, Knows, TaskKnows, CaughtUp, Streaming,
              TaskStreams, Reconciling, HeardOfDeletion

\* No task and no event changes.
LEMMA SameTasksInv ==
    ASSUME LifecycleInv, UNCHANGED <<log, agent>>
    PROVE  LifecycleInv'
  BY DEF LifecycleInv, ReconcilesTheKnown, VersionIsKnown, CaughtUpAgrees, Current, Knows,
         ReplaysDeletions, SameWish, CaughtUp, Streaming, Reconciling, HeardOfDeletion

\* A task that takes over the event it stands at, or the ConfigMap as it is.
LEMMA LearnInv ==
    ASSUME LifecycleTypeOK, LifecycleInv, NEW p \in Agent, NEW t \in Task, NEW e \in Event,
           NEW resume \in {"connect", "watch"}, Learn(p, t, e, resume), UNCHANGED log,
           \/ e = Current
           \/ t.rv # Len(log) /\ t.pos # Len(log),
           resume = "watch" /\ t.rv # 0 /\ t.rv < t.pos =>
               ~e.enabled /\ \A k \in (t.rv + 1) .. t.pos : ~log[k].enabled
    PROVE  LifecycleInv'
<1> DEFINE pc == IF p \notin leader THEN resume
                 ELSE IF e.enabled THEN "account" ELSE "dropDeployment"
           u == [t EXCEPT !.known = TRUE, !.enabled = e.enabled, !.excluded = e.excluded,
                          !.resume = resume, !.pc = pc]
<1>1. agent' = [agent EXCEPT ![p] = u]
  BY DEF Learn
<1>2. /\ pc \in Enabling => e.enabled
      /\ pc \in Disabling => ~e.enabled
      /\ pc = resume \/ pc \in Enabling \cup Disabling
  BY DEF Enabling, Disabling
<1> HIDE DEF pc
<1>3. /\ u.rv = t.rv /\ u.pos = t.pos /\ u.known = TRUE /\ u.enabled = e.enabled
      /\ u.excluded = e.excluded /\ u.pc = pc /\ u.resume = resume
  BY DEF Task
<1> HIDE DEF u
<1>4. e = Current => TaskKnows(u)
  BY <1>3 DEF TaskKnows, SameWish
<1>5. TaskReplays(u)
  <2>1. TaskStreams(u) => resume = "watch"
    BY <1>2, <1>3 DEF TaskStreams, Enabling, Disabling
  <2> QED
    BY <1>3, <2>1 DEF TaskReplays
<1>6. TaskInv(u)
  BY <1>2, <1>3, <1>4, <1>5 DEF TaskInv
<1> QED
  BY <1>1, <1>6, TaskChangesInv

LEMMA LifecycleInitInv == LifecycleInit => LifecycleInv
<1> SUFFICES ASSUME LifecycleInit PROVE LifecycleInv
  OBVIOUS
<1>1. PICK c \in Configs : log = <<Stored(c)>>
  BY DEF LifecycleInit
<1>2. Len(log) = 1
  BY <1>1
<1>3. ASSUME NEW p \in Agent PROVE agent[p].pc = "boot" /\ agent[p].rv = 0
  BY DEF LifecycleInit, Started
<1> QED
  BY <1>2, <1>3 DEF LifecycleInv, ReconcilesTheKnown, VersionIsKnown, CaughtUpAgrees,
                    ReplaysDeletions, CaughtUp, Streaming, Reconciling, Enabling, Disabling

\* Every step of a task or of its surroundings keeps what the tasks know in
\* line with their place in the stream.
LEMMA LifecycleNextInv ==
    LifecycleTypeOK /\ LifecycleInv /\ [LifecycleNext]_lifecycleVars => LifecycleInv'
<1> SUFFICES ASSUME LifecycleTypeOK, LifecycleInv, [LifecycleNext]_lifecycleVars
             PROVE  LifecycleInv'
  OBVIOUS
<1>0. /\ Len(log) \in Nat /\ Len(log) # 0 /\ Current \in Event
      /\ log \in Seq(Event) /\ agent \in [Agent -> Task]
  BY DEF LifecycleTypeOK, LifecycleInv, Current
<1>a. ASSUME NEW p \in Agent
      PROVE  /\ agent[p] \in Task /\ agent[p].rv \in Nat /\ agent[p].pos \in Nat
             /\ agent[p].rv <= agent[p].pos /\ agent[p].pos <= Len(log)
             /\ TaskInv(agent[p])
  BY AgentType, InvByTask
<1>1. ASSUME NEW p \in Agent, Boot(p) PROVE LifecycleInv'
  BY <1>0, <1>1, <1>a, LearnInv DEF Boot
<1>2. ASSUME NEW p \in Agent, BootFails(p) PROVE LifecycleInv'
  <2> DEFINE t == [agent[p] EXCEPT !.pc = "connect"]
  <2>1. agent' = [agent EXCEPT ![p] = t] /\ UNCHANGED log
    BY <1>2 DEF BootFails
  <2>2. /\ t.rv = agent[p].rv /\ t.pc = "connect" /\ t.known = agent[p].known
        /\ t.enabled = agent[p].enabled /\ t.excluded = agent[p].excluded
    BY <1>a DEF Task
  <2> HIDE DEF t
  <2>3. TaskInv(t)
    BY <1>a, <2>2 DEF TaskInv, TaskReplays, TaskKnows, SameWish, TaskStreams, Enabling,
                      Disabling
  <2> QED
    BY <2>1, <2>3, TaskChangesInv
<1>3. ASSUME NEW p \in Agent, Connect(p) PROVE LifecycleInv'
  <2> DEFINE t == [agent[p] EXCEPT !.pc = "watch", !.pos = WatchFrom(p)]
  <2>1. agent' = [agent EXCEPT ![p] = t] /\ UNCHANGED log
    BY <1>3 DEF Connect
  <2>2. /\ t.rv = agent[p].rv /\ t.pos = WatchFrom(p) /\ t.pc = "watch"
        /\ t.known = agent[p].known
        /\ t.enabled = agent[p].enabled /\ t.excluded = agent[p].excluded
    BY <1>a DEF Task
  <2> HIDE DEF t
  <2>3. /\ t.pc \notin Enabling /\ t.pc \notin Disabling
        /\ t.rv = Len(log) /\ Current.exists => TaskKnows(t)
    BY <1>a, <2>2 DEF TaskInv, TaskKnows, SameWish, Enabling, Disabling
  <2>4. ASSUME t.pos = Len(log),
               Current.exists \/ (t.known /\ ~t.enabled) \/ (t.rv # 0 /\ log[t.rv].exists)
        PROVE  TaskKnows(t)
    \* From version 0 an existing ConfigMap is yet to come.
    <3>1. CASE t.rv = 0
      <4>1. ~Current.exists
        BY <1>0, <2>2, <2>4, <3>1 DEF WatchFrom
      <4>2. t.known /\ ~t.enabled
        BY <2>4, <3>1, <4>1
      <4>3. ~Current.enabled
        BY <1>0, <4>1 DEF Event, Stored, Deleted
      <4> QED
        BY <1>0, <1>a, <2>2, <4>2, <4>3, EventType DEF TaskKnows, SameWish, Task
    <3>2. CASE t.rv # 0
      <4>1. t.rv = Len(log)
        BY <2>2, <2>4, <3>2 DEF WatchFrom
      <4>2. Current.exists \/ (t.known /\ ~t.enabled /\ ~Current.exists)
        BY <2>4, <4>1 DEF Current
      <4>3. ~Current.exists => ~Current.enabled
        BY <1>0 DEF Event, Stored, Deleted
      <4> QED
        BY <1>0, <1>a, <2>2, <2>3, <4>1, <4>2, <4>3, EventType DEF TaskKnows, SameWish, Task
    <3> QED
      BY <3>1, <3>2
  <2>5. t.rv # 0 => t.pos = t.rv
    BY <2>2 DEF WatchFrom
  <2>6. TaskInv(t)
    BY <1>a, <2>2, <2>3, <2>4, <2>5 DEF TaskInv, TaskReplays
  <2> QED
    BY <2>1, <2>6, TaskChangesInv
<1>4. ASSUME NEW p \in Agent, StreamEnds(p) PROVE LifecycleInv'
  <2> DEFINE t == [agent[p] EXCEPT !.pc = "connect", !.pos = agent[p].rv]
  <2>1. agent' = [agent EXCEPT ![p] = t] /\ UNCHANGED log
    BY <1>4 DEF StreamEnds
  <2>2. /\ t.rv = agent[p].rv /\ t.pc = "connect" /\ t.known = agent[p].known
        /\ t.enabled = agent[p].enabled /\ t.excluded = agent[p].excluded
    BY <1>a DEF Task
  <2> HIDE DEF t
  <2>3. TaskInv(t)
    BY <1>a, <2>2 DEF TaskInv, TaskReplays, TaskKnows, SameWish, TaskStreams, Enabling,
                      Disabling
  <2> QED
    BY <2>1, <2>3, TaskChangesInv
<1>5. ASSUME NEW p \in Agent, Bookmark(p) PROVE LifecycleInv'
  <2> DEFINE t == [agent[p] EXCEPT !.rv = agent[p].pos]
  <2>1. agent' = [agent EXCEPT ![p] = t] /\ UNCHANGED log /\ agent[p].pc = "watch"
    BY <1>5 DEF Bookmark
  <2>2. /\ t.rv = agent[p].pos /\ t.pos = agent[p].pos /\ t.pc = "watch"
        /\ t.known = agent[p].known
        /\ t.enabled = agent[p].enabled /\ t.excluded = agent[p].excluded
    BY <1>a, <2>1 DEF Task
  <2> HIDE DEF t
  <2>3. t.pc \notin Enabling /\ t.pc \notin Disabling
    BY <2>2 DEF Enabling, Disabling
  <2>4. agent[p].pos = Len(log) /\ (Current.exists \/ (agent[p].known /\ ~agent[p].enabled))
            => TaskKnows(agent[p])
    BY <1>a, <2>1 DEF TaskInv, TaskStreams
  <2>5. TaskKnows(agent[p]) <=> TaskKnows(t)
    BY <2>2 DEF TaskKnows, SameWish
  <2>6. t.rv = Len(log) => log[t.rv] = Current
    BY DEF Current
  <2>7. TaskInv(t)
    BY <1>a, <2>2, <2>3, <2>4, <2>5, <2>6 DEF TaskInv, TaskReplays
  <2> QED
    BY <2>1, <2>7, TaskChangesInv
<1>6. ASSUME NEW p \in Agent, WatchEvent(p) PROVE LifecycleInv'
  <2> DEFINE next == agent[p].pos + 1
             task == [agent[p] EXCEPT !.pos = next]
             seen == IF log[next].exists THEN [task EXCEPT !.rv = next] ELSE task
  <2>1. /\ Learn(p, seen, log[next], "watch") /\ UNCHANGED log /\ agent[p].pos < Len(log)
        /\ agent[p].pc = "watch"
    BY <1>6 DEF WatchEvent
  <2>2. next \in 1 .. Len(log) /\ next \in Nat
    BY <1>0, <1>a, <2>1
  <2>3. log[next] \in Event
    BY <1>0, <2>2
  <2>4. agent[p].rv # Len(log)
    BY <1>0, <1>a, <2>1
  <2>5. next = Len(log) => log[next] = Current
    BY DEF Current
  <2> HIDE DEF next
  <2>6. /\ task \in Task /\ task.pos = next /\ task.rv = agent[p].rv
        /\ [task EXCEPT !.rv = next] \in Task /\ [task EXCEPT !.rv = next].rv = next
        /\ [task EXCEPT !.rv = next].pos = next
    BY <1>a, <2>2 DEF Task
  <2>7. /\ seen \in Task /\ seen.pos = next
        /\ seen.rv = IF log[next].exists THEN next ELSE agent[p].rv
    BY <2>6
  <2> HIDE DEF task, seen
  <2>8. ASSUME seen.rv # 0, seen.rv < seen.pos
        PROVE  ~log[next].enabled /\ \A k \in (seen.rv + 1) .. seen.pos : ~log[k].enabled
    <3>1. ~log[next].exists /\ seen.rv = agent[p].rv
      BY <2>2, <2>7, <2>8
    <3>2. ~log[next].enabled
      BY <2>3, <3>1 DEF Event, Stored, Deleted
    <3>3. ASSUME NEW k \in (agent[p].rv + 1) .. next, k # next PROVE ~log[k].enabled
      <4>1. k \in (agent[p].rv + 1) .. agent[p].pos /\ agent[p].rv < agent[p].pos
        BY <1>a, <3>3 DEF next
      <4> QED
        BY <1>a, <2>1, <2>8, <3>1, <4>1 DEF TaskInv, TaskReplays, TaskStreams
    <3> QED
      BY <2>7, <3>1, <3>2, <3>3
  <2> QED
    BY <2>1, <2>3, <2>4, <2>5, <2>7, <2>8, LearnInv
<1>7. ASSUME NEW p \in Agent, PeriodicTick(p) PROVE LifecycleInv'
  <2> DEFINE pc == IF agent[p].enabled THEN "account" ELSE "dropDeployment"
             t == [agent[p] EXCEPT !.resume = "watch", !.pc = pc]
  <2>1. /\ agent' = agent \/ (agent' = [agent EXCEPT ![p] = t] /\ agent[p].known)
        /\ UNCHANGED log /\ agent[p].pc = "watch"
    BY <1>7 DEF PeriodicTick
  <2>2. /\ pc \in Enabling => agent[p].enabled
        /\ pc \in Disabling => ~agent[p].enabled
    BY DEF Enabling, Disabling
  <2> HIDE DEF pc
  <2>3. /\ t.rv = agent[p].rv /\ t.pos = agent[p].pos /\ t.pc = pc
        /\ t.known = agent[p].known
        /\ t.enabled = agent[p].enabled /\ t.excluded = agent[p].excluded
    BY <1>a DEF Task
  <2> HIDE DEF t
  <2>4. TaskKnows(agent[p]) <=> TaskKnows(t)
    BY <2>3 DEF TaskKnows, SameWish
  <2>5. agent[p].known => TaskInv(t)
    BY <1>a, <2>1, <2>2, <2>3, <2>4 DEF TaskInv, TaskReplays, TaskStreams
  <2> QED
    BY <2>1, <2>5, TaskChangesInv, SameTasksInv
<1>8. ASSUME NEW p \in Agent, ReconcileStep(p) PROVE LifecycleInv'
  <2>1. PICK t \in Task :
            /\ agent' = [agent EXCEPT ![p] = t]
            /\ t.rv = agent[p].rv /\ t.pos = agent[p].pos
            /\ t.known = agent[p].known /\ t.enabled = agent[p].enabled
            /\ t.excluded = agent[p].excluded /\ t.resume = agent[p].resume
            /\ \/ agent[p].pc \in Enabling /\ t.pc \in Enabling
               \/ agent[p].pc \in Disabling /\ t.pc \in Disabling
               \/ agent[p].pc \in Enabling \cup Disabling /\ t.pc = agent[p].resume
            /\ UNCHANGED log
    BY <1>8, ReconcileKeeps
  <2>2. agent[p].resume \in {"connect", "watch"}
    BY ResumeType
  <2>3. TaskKnows(agent[p]) <=> TaskKnows(t)
    BY <2>1 DEF TaskKnows, SameWish
  <2>4. TaskStreams(t) => TaskStreams(agent[p])
    BY <2>1, <2>2 DEF TaskStreams, Enabling, Disabling
  <2>5. /\ t.pc \in Enabling => agent[p].pc \in Enabling
        /\ t.pc \in Disabling => agent[p].pc \in Disabling
    BY <2>1, <2>2 DEF Enabling, Disabling
  <2>6. TaskInv(t)
    BY <1>a, <2>1, <2>3, <2>4, <2>5 DEF TaskInv, TaskReplays
  <2> QED
    BY <2>1, <2>6, TaskChangesInv
\* A new event is ahead of every task.
<1>9. ASSUME NEW e \in Event, ChangeConfig(e) PROVE LifecycleInv'
  <2>1. Len(log') = Len(log) + 1 /\ UNCHANGED agent
    BY <1>0, <1>9 DEF ChangeConfig
  <2>2. ASSUME NEW p \in Agent
        PROVE  agent'[p].rv # Len(log') /\ agent'[p].pos # Len(log')
    BY <1>0, <1>a, <2>1
  <2>3. (Len(log') # 0) /\ ReconcilesTheKnown'
    BY <1>0, <2>1 DEF LifecycleInv, ReconcilesTheKnown
  <2>4. ReplaysDeletions'
    <3>1. \A k \in 1 .. Len(log) : log'[k] = log[k]
      BY <1>0, <1>9 DEF ChangeConfig
    <3>2. ASSUME NEW p \in Agent, NEW k \in (agent[p].rv + 1) .. agent[p].pos
          PROVE  log'[k] = log[k]
      BY <1>0, <1>a, <3>1
    <3> QED
      BY <2>1, <3>2 DEF LifecycleInv, ReplaysDeletions, Streaming, Reconciling
  <2> QED
    BY <2>2, <2>3, <2>4 DEF LifecycleInv, VersionIsKnown, CaughtUpAgrees, CaughtUp
<1>10. ASSUME NEW p \in Agent, AgentRestarts(p) PROVE LifecycleInv'
  <2>1. agent' = [agent EXCEPT ![p] = Started] /\ UNCHANGED log
    BY <1>10 DEF AgentRestarts
  <2>2. TaskInv(Started)
    BY <1>0 DEF TaskInv, TaskReplays, TaskStreams, Started, Enabling, Disabling
  <2> QED
    BY <2>1, <2>2, TaskChangesInv
<1>11. ASSUME NEW p \in Agent, Expire(p) PROVE LifecycleInv'
  <2> DEFINE t == [agent[p] EXCEPT !.gone = TRUE]
  <2>1. agent' = [agent EXCEPT ![p] = t] /\ UNCHANGED log
    BY <1>11 DEF Expire
  <2>2. /\ t.rv = agent[p].rv /\ t.pos = agent[p].pos /\ t.pc = agent[p].pc
        /\ t.known = agent[p].known /\ t.resume = agent[p].resume
        /\ t.enabled = agent[p].enabled /\ t.excluded = agent[p].excluded
    BY <1>a DEF Task
  <2> HIDE DEF t
  <2>3. TaskInv(t)
    BY <1>a, <2>2 DEF TaskInv, TaskReplays, TaskKnows, SameWish, TaskStreams
  <2> QED
    BY <2>1, <2>3, TaskChangesInv
<1>12. CASE \/ \E p \in Agent : ChangeLeader(p)
            \/ \E n \in Namespace : OptOut(n)
            \/ Calm \/ UNCHANGED lifecycleVars
  BY <1>12, SameTasksInv DEF ChangeLeader, OptOut, Calm, lifecycleVars
<1> QED
  BY <1>1, <1>2, <1>3, <1>4, <1>5, <1>6, <1>7, <1>8, <1>9, <1>10, <1>11, <1>12
     DEF LifecycleNext, TaskStep, EnvironmentStep

\* The version and the place of every watch stay within the log, and what a
\* pod knows goes with its place, for every number of pods and of changes.
THEOREM LifecycleInvariant == LifecycleSpec => [](LifecycleTypeOK /\ LifecycleInv)
<1>1. LifecycleTypeOK /\ LifecycleInv /\ [LifecycleNext]_lifecycleVars
          => (LifecycleTypeOK /\ LifecycleInv)'
  BY LifecycleNextType, LifecycleNextInv
<1> QED
  BY <1>1, LifecycleInitType, LifecycleInitInv, PTL DEF LifecycleSpec

\* No event of the ConfigMap is skipped, whatever bookmarks, ended streams and
\* restarts do to the version of a watch (run_operator_lifecycle).
THEOREM NoEventIsSkipped == LifecycleSpec => []CaughtUpAgrees
<1>1. LifecycleInv => CaughtUpAgrees
  BY DEF LifecycleInv
<1> QED
  BY <1>1, LifecycleInvariant, PTL

-----------------------------------------------------------------------------
(* Opt-outs that no pass under way has missed *)

\* A pod comes to the labels, or changes its list, by ListNamespaces and
\* ReconcileNamespace only.
LEMMA ElsewhereThanLabels ==
    ASSUME LifecycleTypeOK, NEW p \in Agent,
           \/ Boot(p) \/ BootFails(p) \/ Connect(p) \/ Bookmark(p) \/ StreamEnds(p)
           \/ WatchEvent(p) \/ PeriodicTick(p) \/ AgentRestarts(p) \/ Expire(p)
           \/ EnsureAccount(p) \/ EnsureDeployment(p) \/ EnsurePolicy(p)
           \/ DropDeployment(p) \/ DropAccount(p) \/ ReconcileDone(p) \/ ReconcileFails(p)
    PROVE  /\ UNCHANGED label
           /\ \A q \in Agent : agent'[q].pc = "labels" => agent'[q] = agent[q]
<1>0. /\ agent \in [Agent -> Task] /\ agent[p] \in Task
      /\ agent[p].resume \in {"connect", "watch"}
  BY AgentType, ResumeType DEF LifecycleTypeOK
<1>1. UNCHANGED label
  BY DEF Boot, BootFails, Connect, Bookmark, StreamEnds, WatchEvent, PeriodicTick,
         AgentRestarts, Expire, EnsureAccount, EnsureDeployment, EnsurePolicy,
         DropDeployment, DropAccount, ReconcileDone, ReconcileFails, world
<1>2. ASSUME NEW t \in Task, NEW e, NEW resume \in {"connect", "watch"}, Learn(p, t, e, resume)
      PROVE  agent'[p].pc # "labels" /\ \A q \in Agent \ {p} : agent'[q] = agent[q]
  <2> DEFINE pc == IF p \notin leader THEN resume
                   ELSE IF e.enabled THEN "account" ELSE "dropDeployment"
             u == [t EXCEPT !.known = TRUE, !.enabled = e.enabled, !.excluded = e.excluded,
                            !.resume = resume, !.pc = pc]
  <2>1. agent' = [agent EXCEPT ![p] = u]
    BY <1>2 DEF Learn
  <2>2. pc # "labels"
    OBVIOUS
  <2> HIDE DEF pc
  <2>3. u.pc = pc
    BY DEF Task
  <2> HIDE DEF u
  <2> QED
    BY <1>0, <2>1, <2>2, <2>3
<1>3. CASE Boot(p)
  <2>1. Learn(p, agent[p], Current, "connect")
    BY <1>3 DEF Boot
  <2>2. agent'[p].pc # "labels" /\ \A q \in Agent \ {p} : agent'[q] = agent[q]
    BY <1>0, <1>2, <2>1
  <2> QED
    BY <1>1, <2>2
<1>4. CASE WatchEvent(p)
  <2> DEFINE next == agent[p].pos + 1
             task == [agent[p] EXCEPT !.pos = next]
             seen == IF log[next].exists THEN [task EXCEPT !.rv = next] ELSE task
  <2>1. Learn(p, seen, log[next], "watch")
    BY <1>4 DEF WatchEvent
  <2>2. next \in Nat
    BY AgentType
  <2> HIDE DEF next
  <2>3. task \in Task /\ [task EXCEPT !.rv = next] \in Task
    BY <1>0, <2>2 DEF Task
  <2>4. seen \in Task
    BY <2>3
  <2> HIDE DEF task, seen
  <2>5. agent'[p].pc # "labels" /\ \A q \in Agent \ {p} : agent'[q] = agent[q]
    BY <1>2, <2>1, <2>4
  <2> QED
    BY <1>1, <2>5
<1>5. CASE \/ BootFails(p) \/ Connect(p) \/ Bookmark(p) \/ StreamEnds(p) \/ Expire(p)
           \/ AgentRestarts(p)
  <2> SUFFICES agent'[p].pc # "labels" /\ \A q \in Agent \ {p} : agent'[q] = agent[q]
    BY <1>1
  <2>1. CASE BootFails(p)
    BY <1>0, <2>1 DEF BootFails, Task
  <2>2. CASE Connect(p)
    BY <1>0, <2>2 DEF Connect, Task
  <2>3. CASE Bookmark(p)
    BY <1>0, <2>3 DEF Bookmark, Task
  <2>4. CASE StreamEnds(p)
    BY <1>0, <2>4 DEF StreamEnds, Task
  <2>5. CASE Expire(p)
    BY <1>0, <2>5 DEF Expire, Task
  <2>6. CASE AgentRestarts(p)
    BY <1>0, <2>6 DEF AgentRestarts, Started
  <2> QED
    BY <1>5, <2>1, <2>2, <2>3, <2>4, <2>5, <2>6
<1>6. CASE PeriodicTick(p)
  <2>1. agent'[p].pc # "labels" /\ \A q \in Agent \ {p} : agent'[q] = agent[q]
    BY <1>0, <1>6 DEF PeriodicTick, Task
  <2> QED
    BY <1>1, <2>1
<1>7. CASE \/ EnsureAccount(p) \/ EnsureDeployment(p) \/ EnsurePolicy(p)
           \/ DropDeployment(p) \/ DropAccount(p)
  <2>1. agent'[p].pc # "labels" /\ \A q \in Agent \ {p} : agent'[q] = agent[q]
    BY <1>0, <1>7 DEF EnsureAccount, EnsureDeployment, EnsurePolicy, DropDeployment,
                      DropAccount, Goto, Task
  <2> QED
    BY <1>1, <2>1
<1>8. CASE ReconcileDone(p) \/ ReconcileFails(p)
  <2> SUFFICES agent'[p].pc # "labels" /\ \A q \in Agent \ {p} : agent'[q] = agent[q]
    BY <1>1
  <2>1. CASE ReconcileDone(p)
    BY <1>0, <2>1 DEF ReconcileDone, Task
  <2>2. CASE ReconcileFails(p)
    BY <1>0, <2>2 DEF ReconcileFails, Task
  <2> QED
    BY <1>8, <2>1, <2>2
<1> QED
  BY <1>3, <1>4, <1>5, <1>6, <1>7, <1>8

LEMMA OptOutStaysSeen ==
    ASSUME NEW n \in Namespace, LifecycleTypeOK, OptOutSeen(n), [LifecycleNext]_lifecycleVars
    PROVE  OptOutSeen(n)'
<1>0. agent \in [Agent -> Task] /\ label \in [Namespace -> LabelValue]
  BY DEF LifecycleTypeOK
<1>1. ASSUME UNCHANGED label,
             \A q \in Agent : agent'[q].pc = "labels" => agent'[q] = agent[q]
      PROVE  OptOutSeen(n)'
  BY <1>1 DEF OptOutSeen
<1>2. ASSUME NEW p \in Agent, ListNamespaces(p) PROVE OptOutSeen(n)'
  <2>1. UNCHANGED label
    BY <1>2 DEF ListNamespaces, world
  <2>2. agent'[p].listed = label /\ \A q \in Agent \ {p} : agent'[q] = agent[q]
    BY <1>0, <1>2 DEF ListNamespaces, Task
  <2> QED
    BY <2>1, <2>2 DEF OptOutSeen
<1>3. ASSUME NEW p \in Agent, NEW m \in Namespace, ReconcileNamespace(p, m)
      PROVE  OptOutSeen(n)'
  <2>1. label'[n] = "false"
    <3>1. CASE m = n
      <4>1. agent[p].listed[n] = "false"
        BY <1>3, <3>1 DEF ReconcileNamespace, OptOutSeen
      <4>2. Relabel(p, n) = label[n]
        BY <4>1 DEF Relabel
      <4> QED
        BY <1>0, <1>3, <3>1, <4>2 DEF ReconcileNamespace, OptOutSeen
    <3>2. CASE m # n
      BY <1>0, <1>3, <3>2 DEF ReconcileNamespace, OptOutSeen
    <3> QED
      BY <3>1, <3>2
  <2>2. /\ agent'[p].listed = agent[p].listed /\ agent'[p].todo \subseteq agent[p].todo
        /\ agent'[p].pc = agent[p].pc
        /\ \A q \in Agent \ {p} : agent'[q] = agent[q]
    BY <1>0, <1>3 DEF ReconcileNamespace, Task
  <2> QED
    BY <2>1, <2>2 DEF OptOutSeen
<1>4. ASSUME NEW m \in Namespace, OptOut(m) PROVE OptOutSeen(n)'
  BY <1>0, <1>4 DEF OptOut, OptOutSeen
<1>5. CASE \/ \E e \in Event : ChangeConfig(e)
           \/ \E p \in Agent : ChangeLeader(p)
           \/ Calm \/ UNCHANGED lifecycleVars
  BY <1>1, <1>5 DEF ChangeConfig, ChangeLeader, Calm, lifecycleVars, world
<1> QED
  BY <1>1, <1>2, <1>3, <1>4, <1>5, ElsewhereThanLabels
     DEF LifecycleNext, TaskStep, ReconcileStep, EnvironmentStep

\* An opt-out that every pass under way has seen is never overwritten, by
\* whatever passes, restarts and leaders follow
\* (reconcile_action_mode_namespaces).
THEOREM SeenOptOutsHold == LifecycleSpec => OptOutHolds
<1>1. LifecycleTypeOK /\ [LifecycleNext]_lifecycleVars
          => [\A n \in Namespace : OptOutSeen(n) => OptOutSeen(n)']_lifecycleVars
  BY OptOutStaysSeen
<1> QED
  BY <1>1, LifecycleInvariant, PTL DEF LifecycleSpec, OptOutHolds

-----------------------------------------------------------------------------
(* A cluster in place stays in place *)

\* Harmless, said of the task of one pod.
TaskFrom(t) ==
    IF TaskStreams(t) THEN t.pos
    ELSE IF t.rv # 0 THEN t.rv
    ELSE IF Current.exists THEN Len(log) - 1 ELSE Len(log)

TaskHarmless(t) ==
    /\ t.pc \in Enabling => Current.enabled /\ t.excluded = Current.excluded
    /\ t.pc \in Disabling => ~Current.enabled
    /\ t.known => SameWish(t, Current)
    /\ t.gone \/ \A k \in (TaskFrom(t) + 1) .. Len(log) : SameWish(log[k], Current)

LEMMA HarmlessByTask ==
    ASSUME NEW p \in Agent PROVE Harmless(p) <=> TaskHarmless(agent[p])
  BY DEF Harmless, TaskHarmless, NextFrom, TaskFrom, Streaming, TaskStreams, Reconciling,
         WatchFrom

\* One task changes, and what it wrote is what is asked for.
LEMMA TaskChangesRest ==
    ASSUME LifecycleTypeOK, AtRest, NEW p \in Agent, NEW t, TaskHarmless(t),
           agent' = [agent EXCEPT ![p] = t], UNCHANGED log, InPlace'
    PROVE  AtRest'
<1>1. \A q \in Agent : agent'[q] = IF q = p THEN t ELSE agent[q]
  BY DEF LifecycleTypeOK
<1>2. Current' = Current
  BY DEF Current
<1>3. ASSUME NEW q \in Agent PROVE Harmless(q)'
  <2>1. TaskHarmless(agent'[q])
    BY <1>1, HarmlessByTask DEF AtRest
  <2> QED
    BY <1>2, <2>1 DEF Harmless, TaskHarmless, NextFrom, TaskFrom, Streaming, TaskStreams,
                      Reconciling, WatchFrom, SameWish
<1> QED
  BY <1>3 DEF AtRest

LEMMA SameWorldInPlace ==
    ASSUME InPlace, UNCHANGED <<log, world>> PROVE InPlace'
  BY DEF InPlace, Current, world

\* Where every pod has caught up, what it knows is what is asked for.
LEMMA RestBegins == LifecycleTypeOK /\ LifecycleInv => CaughtUpIsAtRest
<1> SUFFICES ASSUME LifecycleTypeOK, LifecycleInv, NEW p \in Agent,
                    CaughtUp(p), HeardOfDeletion(p)
             PROVE  Harmless(p)
  BY DEF AtRest, CaughtUpIsAtRest
<1>1. /\ Streaming(p) /\ agent[p].pos = Len(log) /\ agent[p].known
      /\ SameWish(agent[p], Current)
  BY DEF CaughtUp, LifecycleInv, CaughtUpAgrees, Knows
<1>2. Len(log) \in Nat
  BY AgentType
<1>3. (NextFrom(p) + 1) .. Len(log) = {}
  BY <1>1, <1>2 DEF NextFrom
<1>4. /\ agent[p].pc \in Enabling => agent[p].enabled
      /\ agent[p].pc \in Disabling => ~agent[p].enabled
  BY DEF LifecycleInv, ReconcilesTheKnown
<1> QED
  BY <1>1, <1>3, <1>4 DEF Harmless, SameWish

\* A value that asks for the same is taken over.
LEMMA LearnRest ==
    ASSUME LifecycleTypeOK, AtRest, NEW p \in Agent, NEW t \in Task, NEW e \in Event,
           NEW resume \in {"connect", "watch"}, Learn(p, t, e, resume),
           UNCHANGED <<log, leader, world, calm>>, SameWish(e, Current),
           ~t.gone =>
               IF resume = "watch"
               THEN \A k \in (t.pos + 1) .. Len(log) : SameWish(log[k], Current)
               ELSE t = agent[p] /\ agent[p].pc = "boot"
    PROVE  AtRest'
<1> DEFINE pc == IF p \notin leader THEN resume
                 ELSE IF e.enabled THEN "account" ELSE "dropDeployment"
           u == [t EXCEPT !.known = TRUE, !.enabled = e.enabled, !.excluded = e.excluded,
                          !.resume = resume, !.pc = pc]
<1>1. agent' = [agent EXCEPT ![p] = u]
  BY DEF Learn
<1>2. /\ pc \in Enabling => p \in leader /\ e.enabled
      /\ pc \in Disabling => p \in leader /\ ~e.enabled
      /\ pc = resume \/ pc \in Enabling \cup Disabling
  BY DEF Enabling, Disabling
<1> HIDE DEF pc
<1>3. /\ u.rv = t.rv /\ u.pos = t.pos /\ u.known = TRUE /\ u.enabled = e.enabled
      /\ u.excluded = e.excluded /\ u.pc = pc /\ u.gone = t.gone /\ u.resume = resume
  BY DEF Task
<1> HIDE DEF u
<1>4. SameWish(u, Current)
  BY <1>3 DEF SameWish
<1>5. /\ u.pc \in Enabling => Current.enabled /\ u.excluded = Current.excluded
      /\ u.pc \in Disabling => ~Current.enabled
  BY <1>2, <1>3 DEF SameWish
<1>6. TaskStreams(u) <=> resume = "watch"
  BY <1>2, <1>3 DEF TaskStreams, Enabling, Disabling
<1>7. ASSUME ~u.gone
      PROVE  \A k \in (TaskFrom(u) + 1) .. Len(log) : SameWish(log[k], Current)
  <2>1. CASE resume = "watch"
    BY <1>3, <1>6, <1>7, <2>1 DEF TaskFrom
  <2>2. CASE resume = "connect"
    <3>1. t = agent[p] /\ ~TaskStreams(agent[p])
      BY <1>3, <1>7, <2>2 DEF TaskStreams, Enabling, Disabling
    <3>2. TaskFrom(u) = TaskFrom(agent[p])
      BY <1>3, <1>6, <2>2, <3>1 DEF TaskFrom
    <3> QED
      BY <1>3, <1>7, <3>1, <3>2, HarmlessByTask DEF AtRest, TaskHarmless
  <2> QED
    BY <2>1, <2>2
<1>8. TaskHarmless(u)
  BY <1>4, <1>5, <1>7 DEF TaskHarmless
<1> QED
  BY <1>1, <1>8, SameWorldInPlace, TaskChangesRest DEF AtRest

\* A step of a reconcile under way writes what is asked for.
LEMMA ReconcileRest ==
    ASSUME LifecycleTypeOK, AtRest, NEW p \in Agent, ReconcileStep(p)
    PROVE  AtRest'
<1>1. PICK t \in Task :
          /\ agent' = [agent EXCEPT ![p] = t]
          /\ t.rv = agent[p].rv /\ t.pos = agent[p].pos /\ t.gone = agent[p].gone
          /\ t.known = agent[p].known /\ t.enabled = agent[p].enabled
          /\ t.excluded = agent[p].excluded /\ t.resume = agent[p].resume
          /\ \/ agent[p].pc \in Enabling /\ t.pc \in Enabling
             \/ agent[p].pc \in Disabling /\ t.pc \in Disabling
             \/ agent[p].pc \in Enabling \cup Disabling /\ t.pc = agent[p].resume
          /\ UNCHANGED <<log, leader, calm>>
  BY ReconcileKeeps
<1>2. agent[p].resume \in {"connect", "watch"}
  BY ResumeType
<1>3. /\ t.pc \in Enabling => agent[p].pc \in Enabling
      /\ t.pc \in Disabling => agent[p].pc \in Disabling
      /\ TaskStreams(t) <=> TaskStreams(agent[p])
  BY <1>1, <1>2 DEF TaskStreams, Enabling, Disabling
<1>4. TaskFrom(t) = TaskFrom(agent[p]) /\ (SameWish(t, Current) <=> SameWish(agent[p], Current))
  BY <1>1, <1>3 DEF TaskFrom, SameWish
<1>5. TaskHarmless(t)
  BY <1>1, <1>3, <1>4, HarmlessByTask DEF AtRest, TaskHarmless
<1>6. /\ agent[p].pc \in Enabling => Current.enabled /\ agent[p].excluded = Current.excluded
      /\ agent[p].pc \in Disabling => ~Current.enabled
  BY DEF AtRest, Harmless
<1>7. /\ Current' = Current /\ InPlace /\ Current.enabled \in BOOLEAN
      /\ label \in [Namespace -> LabelValue]
  <2>1. Current' = Current
    BY <1>1 DEF Current
  <2>2. Current.enabled \in BOOLEAN
    BY DEF AtRest, InPlace, LifecycleTypeOK
  <2> QED
    BY <2>1, <2>2 DEF AtRest, LifecycleTypeOK
<1>8. InPlace'
  <2>1. CASE EnsureAccount(p)
    BY <1>6, <1>7, <2>1 DEF EnsureAccount, InPlace, Enabling
  <2>2. CASE EnsureDeployment(p)
    BY <1>6, <1>7, <2>2 DEF EnsureDeployment, InPlace, Enabling
  <2>3. CASE EnsurePolicy(p)
    BY <1>6, <1>7, <2>3 DEF EnsurePolicy, InPlace, Enabling
  <2>4. CASE DropDeployment(p)
    BY <1>6, <1>7, <2>4 DEF DropDeployment, InPlace, Disabling
  <2>5. CASE DropAccount(p)
    BY <1>6, <1>7, <2>5 DEF DropAccount, InPlace, Disabling
  <2>6. CASE ListNamespaces(p) \/ ReconcileDone(p) \/ ReconcileFails(p)
    BY <1>7, <2>6, SameWorldInPlace DEF ListNamespaces, ReconcileDone, ReconcileFails
  <2>7. ASSUME NEW n \in Namespace, ReconcileNamespace(p, n) PROVE InPlace'
    <3>1. /\ label' = [label EXCEPT ![n] = Relabel(p, n)] /\ agent[p].pc = "labels"
          /\ UNCHANGED <<log, account, deployment, policy>>
      BY <2>7 DEF ReconcileNamespace
    <3>2. Current.enabled /\ agent[p].excluded = Current.excluded
      BY <1>6, <3>1 DEF Enabling
    <3>3. /\ Relabel(p, n) \in {label[n], IF n \in Current.excluded THEN "absent" ELSE "true"}
      BY <3>2 DEF Relabel
    <3>4. ASSUME NEW m \in Namespace
          PROVE  label'[m] \in {"false", IF m \in Current.excluded THEN "absent" ELSE "true"}
      <4>1. label[m] \in {"false", IF m \in Current.excluded THEN "absent" ELSE "true"}
        BY <1>7, <3>2 DEF InPlace
      <4> QED
        BY <1>7, <3>1, <3>3, <4>1
    <3> QED
      BY <1>7, <3>1, <3>4 DEF InPlace
  <2> QED
    BY <2>1, <2>2, <2>3, <2>4, <2>5, <2>6, <2>7 DEF ReconcileStep
<1> QED
  BY <1>1, <1>5, <1>8, TaskChangesRest

\* At rest the surroundings are still, and no step of a task disturbs what
\* is in place or learns of anything else.
LEMMA RestStays ==
    LifecycleTypeOK /\ LifecycleInv /\ AtRest /\ UNCHANGED log
        /\ [LifecycleNext]_lifecycleVars => AtRest'
<1> SUFFICES ASSUME LifecycleTypeOK, LifecycleInv, AtRest, UNCHANGED log,
                    [LifecycleNext]_lifecycleVars
             PROVE  AtRest'
  OBVIOUS
<1>0. /\ InPlace /\ Len(log) \in Nat /\ Len(log) # 0 /\ Current \in Event
      /\ log \in Seq(Event) /\ agent \in [Agent -> Task]
  BY DEF AtRest, LifecycleTypeOK, LifecycleInv, Current
<1>a. ASSUME NEW p \in Agent
      PROVE  /\ agent[p] \in Task /\ agent[p].rv \in Nat /\ agent[p].pos \in Nat
             /\ TaskHarmless(agent[p]) /\ TaskReplays(agent[p])
             /\ agent[p].rv <= agent[p].pos /\ agent[p].pos <= Len(log)
  BY AgentType, HarmlessByTask, InvByTask DEF AtRest, TaskInv
\* A task that keeps what it knows and where it goes on.
<1>b. ASSUME NEW p \in Agent, NEW t, agent' = [agent EXCEPT ![p] = t],
             UNCHANGED <<log, leader, world, calm>>,
             t.pc \notin Enabling \cup Disabling, t.known = agent[p].known,
             t.enabled = agent[p].enabled, t.excluded = agent[p].excluded,
             t.gone = agent[p].gone, t.gone \/ TaskFrom(t) = TaskFrom(agent[p])
      PROVE  AtRest'
  <2>1. SameWish(t, Current) <=> SameWish(agent[p], Current)
    BY <1>b DEF SameWish
  <2>2. TaskHarmless(t)
    BY <1>a, <1>b, <2>1 DEF TaskHarmless
  <2>3. InPlace'
    BY <1>0, <1>b, SameWorldInPlace
  <2> QED
    BY <1>b, <2>2, <2>3, TaskChangesRest
<1>1. ASSUME NEW p \in Agent, Boot(p) PROVE AtRest'
  <2>1. SameWish(Current, Current)
    BY DEF SameWish
  <2> QED
    BY <1>0, <1>1, <1>a, <2>1, LearnRest DEF Boot
<1>2. ASSUME NEW p \in Agent, BootFails(p) PROVE AtRest'
  <2> DEFINE t == [agent[p] EXCEPT !.pc = "connect"]
  <2>1. agent' = [agent EXCEPT ![p] = t] /\ UNCHANGED <<log, leader, world, calm>>
        /\ agent[p].pc = "boot"
    BY <1>2 DEF BootFails
  <2>2. /\ t.rv = agent[p].rv /\ t.pc = "connect" /\ t.known = agent[p].known
        /\ t.enabled = agent[p].enabled /\ t.excluded = agent[p].excluded
        /\ t.gone = agent[p].gone
    BY <1>a DEF Task
  <2> HIDE DEF t
  <2>3. TaskFrom(t) = TaskFrom(agent[p]) /\ t.pc \notin Enabling \cup Disabling
    BY <2>1, <2>2 DEF TaskFrom, TaskStreams, Enabling, Disabling
  <2> QED
    BY <1>b, <2>1, <2>2, <2>3
<1>3. ASSUME NEW p \in Agent, Connect(p) PROVE AtRest'
  <2> DEFINE t == [agent[p] EXCEPT !.pc = "watch", !.pos = WatchFrom(p)]
  <2>1. agent' = [agent EXCEPT ![p] = t] /\ UNCHANGED <<log, leader, world, calm>>
        /\ agent[p].pc = "connect"
    BY <1>3 DEF Connect
  <2>2. /\ t.pos = WatchFrom(p) /\ t.pc = "watch" /\ t.known = agent[p].known
        /\ t.enabled = agent[p].enabled /\ t.excluded = agent[p].excluded
        /\ t.gone = agent[p].gone
    BY <1>a DEF Task
  <2> HIDE DEF t
  <2>3. TaskFrom(t) = TaskFrom(agent[p]) /\ t.pc \notin Enabling \cup Disabling
    BY <2>1, <2>2 DEF TaskFrom, WatchFrom, TaskStreams, Enabling, Disabling
  <2> QED
    BY <1>b, <2>1, <2>2, <2>3
\* What is delivered again is deletions, which ask for what the pod knows.
<1>4. ASSUME NEW p \in Agent, StreamEnds(p) PROVE AtRest'
  <2> DEFINE t == [agent[p] EXCEPT !.pc = "connect", !.pos = agent[p].rv]
  <2>1. agent' = [agent EXCEPT ![p] = t] /\ UNCHANGED <<log, leader, world, calm>>
        /\ agent[p].pc = "watch"
    BY <1>4 DEF StreamEnds
  <2>2. /\ t.pc = "connect" /\ t.known = agent[p].known /\ t.rv = agent[p].rv
        /\ t.enabled = agent[p].enabled /\ t.excluded = agent[p].excluded
        /\ t.gone = agent[p].gone
    BY <1>a DEF Task
  <2> HIDE DEF t
  <2>3. t.pc \notin Enabling \cup Disabling /\ ~TaskStreams(t)
    BY <2>2 DEF Enabling, Disabling, TaskStreams
  <2>4. SameWish(t, Current) <=> SameWish(agent[p], Current)
    BY <2>2 DEF SameWish
  <2>5. ASSUME ~t.gone, NEW k \in (TaskFrom(t) + 1) .. Len(log)
        PROVE  SameWish(log[k], Current)
    <3>1. \A i \in (agent[p].pos + 1) .. Len(log) : SameWish(log[i], Current)
      BY <1>a, <2>1, <2>2, <2>5 DEF TaskHarmless, TaskFrom, TaskStreams
    <3>2. CASE agent[p].rv # 0
      <4>1. k \in (agent[p].rv + 1) .. Len(log)
        BY <2>2, <2>3, <2>5, <3>2 DEF TaskFrom
      <4>2. CASE k \in (agent[p].rv + 1) .. agent[p].pos
        <5>1. agent[p].known /\ ~agent[p].enabled /\ ~log[k].enabled
          BY <1>a, <2>1, <3>2, <4>2 DEF TaskReplays, TaskStreams
        <5>2. ~Current.enabled
          BY <1>a, <5>1 DEF TaskHarmless, SameWish
        <5>3. k \in 1 .. Len(log) /\ log[k] \in Event
          BY <1>0, <1>a, <4>1
        <5> QED
          BY <1>0, <5>1, <5>2, <5>3, EventType DEF SameWish
      <4>3. CASE k \in (agent[p].pos + 1) .. Len(log)
        BY <3>1, <4>3
      <4> QED
        BY <1>0, <1>a, <4>1, <4>2, <4>3
    <3>3. CASE agent[p].rv = 0
      <4>1. k = Len(log)
        BY <1>0, <2>2, <2>3, <2>5, <3>3 DEF TaskFrom
      <4> QED
        BY <4>1 DEF Current, SameWish
    <3> QED
      BY <3>2, <3>3
  <2>6. TaskHarmless(t)
    BY <1>a, <2>2, <2>3, <2>4, <2>5 DEF TaskHarmless
  <2> QED
    BY <1>0, <2>1, <2>6, SameWorldInPlace, TaskChangesRest
<1>5. ASSUME NEW p \in Agent, Bookmark(p) PROVE AtRest'
  <2> DEFINE t == [agent[p] EXCEPT !.rv = agent[p].pos]
  <2>1. agent' = [agent EXCEPT ![p] = t] /\ UNCHANGED <<log, leader, world, calm>>
        /\ agent[p].pc = "watch"
    BY <1>5 DEF Bookmark
  <2>2. /\ t.pos = agent[p].pos /\ t.pc = "watch" /\ t.known = agent[p].known
        /\ t.enabled = agent[p].enabled /\ t.excluded = agent[p].excluded
        /\ t.gone = agent[p].gone
    BY <1>a, <2>1 DEF Task
  <2> HIDE DEF t
  <2>3. TaskFrom(t) = TaskFrom(agent[p]) /\ t.pc \notin Enabling \cup Disabling
    BY <2>1, <2>2 DEF TaskFrom, TaskStreams, Enabling, Disabling
  <2> QED
    BY <1>b, <2>1, <2>2, <2>3
<1>6. ASSUME NEW p \in Agent, WatchEvent(p) PROVE AtRest'
  <2> DEFINE next == agent[p].pos + 1
             task == [agent[p] EXCEPT !.pos = next]
             seen == IF log[next].exists THEN [task EXCEPT !.rv = next] ELSE task
  <2>1. /\ Learn(p, seen, log[next], "watch") /\ UNCHANGED <<log, leader, world, calm>>
        /\ agent[p].pos < Len(log) /\ ~agent[p].gone /\ agent[p].pc = "watch"
    BY <1>6 DEF WatchEvent
  <2>2. next \in 1 .. Len(log) /\ next \in Nat
    BY <1>0, <1>a, <2>1
  <2>3. log[next] \in Event
    BY <1>0, <2>2
  <2>4. TaskFrom(agent[p]) = agent[p].pos
    BY <2>1 DEF TaskFrom, TaskStreams
  <2>5. \A k \in next .. Len(log) : SameWish(log[k], Current)
    BY <1>a, <2>1, <2>4 DEF TaskHarmless
  <2> HIDE DEF next
  <2>6. /\ SameWish(log[next], Current)
        /\ \A k \in (next + 1) .. Len(log) : SameWish(log[k], Current)
    BY <1>0, <2>2, <2>5
  <2>7. /\ task \in Task /\ task.pos = next
        /\ [task EXCEPT !.rv = next] \in Task /\ [task EXCEPT !.rv = next].pos = next
    BY <1>a, <2>2 DEF Task
  <2>8. seen \in Task /\ seen.pos = next
    BY <2>7
  <2> HIDE DEF task, seen
  <2> QED
    BY <2>1, <2>3, <2>6, <2>8, LearnRest
<1>7. ASSUME NEW p \in Agent, PeriodicTick(p) PROVE AtRest'
  <2> DEFINE pc == IF agent[p].enabled THEN "account" ELSE "dropDeployment"
             t == [agent[p] EXCEPT !.resume = "watch", !.pc = pc]
  <2>1. /\ \/ agent' = agent
           \/ agent' = [agent EXCEPT ![p] = t] /\ agent[p].known
        /\ UNCHANGED <<log, leader, world, calm>> /\ agent[p].pc = "watch"
    BY <1>7 DEF PeriodicTick
  <2>2. /\ pc \in Enabling => agent[p].enabled
        /\ pc \in Disabling => ~agent[p].enabled
        /\ pc \in Enabling \cup Disabling
    BY DEF Enabling, Disabling
  <2> HIDE DEF pc
  <2>3. /\ t.rv = agent[p].rv /\ t.pos = agent[p].pos /\ t.pc = pc
        /\ t.known = agent[p].known /\ t.gone = agent[p].gone /\ t.resume = "watch"
        /\ t.enabled = agent[p].enabled /\ t.excluded = agent[p].excluded
    BY <1>a DEF Task
  <2> HIDE DEF t
  <2>4. TaskFrom(t) = TaskFrom(agent[p]) /\ (SameWish(t, Current) <=> SameWish(agent[p], Current))
    BY <2>1, <2>2, <2>3 DEF TaskFrom, TaskStreams, SameWish
  <2>5. agent[p].known => SameWish(agent[p], Current)
    BY <1>a DEF TaskHarmless
  <2>6. agent[p].known => TaskHarmless(t)
    <3>1. agent[p].known =>
              /\ t.pc \in Enabling => Current.enabled /\ t.excluded = Current.excluded
              /\ t.pc \in Disabling => ~Current.enabled
      BY <2>2, <2>3, <2>5 DEF SameWish
    <3> QED
      BY <1>a, <2>3, <2>4, <3>1 DEF TaskHarmless
  <2>7. InPlace'
    BY <1>0, <2>1, SameWorldInPlace
  <2>8. CASE agent' = agent
    <3>1. agent' = [agent EXCEPT ![p] = agent[p]]
      BY <1>0, <2>8
    <3> QED
      BY <1>a, <2>1, <2>7, <3>1, TaskChangesRest
  <2> QED
    BY <2>1, <2>6, <2>7, <2>8, TaskChangesRest
\* A pod that restarts watches from the ConfigMap as it is.
<1>8. ASSUME NEW p \in Agent, AgentRestarts(p) PROVE AtRest'
  <2>1. agent' = [agent EXCEPT ![p] = Started] /\ UNCHANGED <<log, world>>
    BY <1>8 DEF AgentRestarts
  <2>2. \A k \in (TaskFrom(Started) + 1) .. Len(log) : k = Len(log)
    BY <1>0 DEF TaskFrom, TaskStreams, Started, Enabling, Disabling
  <2>3. TaskHarmless(Started)
    BY <2>2 DEF TaskHarmless, Started, Enabling, Disabling, Current, SameWish
  <2> QED
    BY <1>0, <2>1, <2>3, SameWorldInPlace, TaskChangesRest
<1>9. ASSUME NEW p \in Agent, Expire(p) PROVE AtRest'
  <2> DEFINE t == [agent[p] EXCEPT !.gone = TRUE]
  <2>1. agent' = [agent EXCEPT ![p] = t] /\ UNCHANGED <<log, world>>
        /\ agent[p].pc = "connect"
    BY <1>9 DEF Expire
  <2>2. /\ t.pc = "connect" /\ t.known = agent[p].known /\ t.gone
        /\ t.enabled = agent[p].enabled /\ t.excluded = agent[p].excluded
    BY <1>a, <2>1 DEF Task
  <2> HIDE DEF t
  <2>3. TaskHarmless(t)
    BY <1>a, <2>2 DEF TaskHarmless, SameWish, Enabling, Disabling
  <2> QED
    BY <1>0, <2>1, <2>3, SameWorldInPlace, TaskChangesRest
<1>10. ASSUME UNCHANGED <<agent, account, deployment, policy>>,
              \/ UNCHANGED label
              \/ \E n \in Namespace : label' = [label EXCEPT ![n] = "false"]
       PROVE  AtRest'
  <2>1. Current' = Current
    BY DEF Current
  <2>2. ASSUME NEW n \in Namespace PROVE label'[n] \in {label[n], "false"}
    BY <1>10 DEF LifecycleTypeOK
  <2>3. InPlace'
    BY <1>0, <1>10, <2>1, <2>2 DEF InPlace
  <2>4. ASSUME NEW p \in Agent PROVE Harmless(p)'
    BY <1>10, <2>1, <2>4 DEF AtRest, Harmless, NextFrom, Streaming, Reconciling, WatchFrom,
                             SameWish
  <2> QED
    BY <2>3, <2>4 DEF AtRest
<1>11. CASE \/ \E p \in Agent : ChangeLeader(p)
            \/ \E n \in Namespace : OptOut(n)
            \/ Calm \/ UNCHANGED lifecycleVars
  BY <1>10, <1>11 DEF ChangeLeader, OptOut, Calm, lifecycleVars, world
<1>12. ~\E e \in Event : ChangeConfig(e)
  BY <1>0 DEF ChangeConfig
<1> QED
  BY <1>1, <1>2, <1>3, <1>4, <1>5, <1>6, <1>7, <1>8, <1>9, <1>11, <1>12, ReconcileRest
     DEF LifecycleNext, TaskStep, EnvironmentStep

\* In place with every pod caught up is enough to be at rest
\* (run_operator_lifecycle, reconcile_operator_workload).
THEOREM CaughtUpRests == LifecycleSpec => []CaughtUpIsAtRest
  BY RestBegins, LifecycleInvariant, PTL

\* For every number of pods, of leaders and of namespaces, only a change of
\* the ConfigMap takes a cluster out of place that is at rest: no tick,
\* replayed stream, failed reconcile, restart or change of leaders
\* (run_operator_lifecycle, reconcile_operator_workload).
THEOREM InPlaceForGood == LifecycleSpec => StaysInPlace
<1>1. LifecycleTypeOK /\ LifecycleInv /\ [LifecycleNext]_lifecycleVars
          => [AtRest /\ UNCHANGED log => AtRest']_lifecycleVars
  BY RestStays
<1> QED
  BY <1>1, LifecycleInvariant, PTL DEF LifecycleSpec, StaysInPlace
=============================================================================
