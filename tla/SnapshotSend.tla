---------------------------- MODULE SnapshotSend ----------------------------
(***************************************************************************)
(* How inventory reaches the Hub: the collector loop of every agent pod    *)
(* (main.rs), which builds a snapshot when its pod leads, and              *)
(* HubClient::send_snapshot (hub.rs), which posts it to two route families *)
(* in up to three rounds.  A POST with its answer is a step.               *)
(*                                                                         *)
(* The Hub is external: it may store a snapshot whose answer never         *)
(* arrives.  What a snapshot contains is left out.  After Steady each      *)
(* route keeps giving one answer, no pod restarts and leadership stays.    *)
(***************************************************************************)
EXTENDS Naturals

CONSTANTS Collector,  \* the collector loops, one in each agent pod
          Rounds,     \* the length of backoffs: 0s, 2s, 5s
          Routes      \* the length of inventory_urls

ASSUME SendAssumption == Rounds \in Nat \ {0} /\ Routes \in Nat \ {0}

VARIABLES leading,   \* the loops whose pod has is_leader set
          loop,      \* collector -> its loop
          serving    \* route -> the answer it keeps giving, "any" before Steady

sendVars == <<leading, loop, serving>>

\* "stored" is a success, "garbled" a success whose body does not decode,
\* "unavailable" any 5xx, 408 or 429, "rejected" any other 4xx but 404, and
\* "lost" a transport error.
Answer == {"stored", "garbled", "notFound", "rejected", "unavailable", "lost"}

\* inHub, posts and retryable are history: the Hub has the snapshot at hand,
\* how often it was posted, and whether an answer called for a retry and none
\* was a refusal.
Loop == [pc        : {"startup", "idle", "collect", "post", "backoff"},
         round     : 1 .. Rounds,
         route     : 1 .. Routes,
         result    : {"none", "ok", "error"},
         inHub     : BOOLEAN,
         posts     : 0 .. Rounds * Routes,
         retryable : BOOLEAN]

SendTypeOK ==
    /\ leading \in SUBSET Collector
    /\ loop \in [Collector -> Loop]
    /\ serving \in [1 .. Routes -> Answer \cup {"any"}]

Begin(pc) == [pc |-> pc, round |-> 1, route |-> 1, result |-> "none",
              inHub |-> FALSE, posts |-> 0, retryable |-> FALSE]

SendInit ==
    /\ leading = {}
    /\ loop = [p \in Collector |-> Begin("startup")]
    /\ serving = [r \in 1 .. Routes |-> "any"]

steady == \A r \in 1 .. Routes : serving[r] # "any"

-----------------------------------------------------------------------------
(* collector_loop *)

\* startup_duplicate_cluster_check warns at most; every answer of
\* get_cluster_status, errors included, leads on.
CheckClusterStatus(p) ==
    /\ loop[p].pc = "startup"
    /\ loop' = [loop EXCEPT ![p] = Begin("idle")]
    /\ UNCHANGED <<leading, serving>>

\* The interval fires; a pod that does not lead skips.
CollectTick(p) ==
    /\ loop[p].pc = "idle"
    /\ p \in leading
    /\ loop' = [loop EXCEPT ![p] = Begin("collect")]
    /\ UNCHANGED <<leading, serving>>

\* build_and_send up to send_snapshot (MonitoringRound): collect fails softly
\* and never as a whole.  Leadership is not looked at again.
Collect(p) ==
    /\ loop[p].pc = "collect"
    /\ loop' = [loop EXCEPT ![p].pc = "post"]
    /\ UNCHANGED <<leading, serving>>

-----------------------------------------------------------------------------
(* send_snapshot *)

Retryable == {"unavailable", "lost"}

Done(sent, result) == [sent EXCEPT !.pc = "idle", !.result = result]

\* Mutant of NextTry: an answer that calls for a retry counts as delivered.
NextTryGivesUpOk(sent) ==
    IF sent.route < Routes THEN [sent EXCEPT !.route = @ + 1]
    ELSE Done(sent, "ok")

\* Behind an answer that is neither a success nor final: the next route of
\* the round, then the next round, then the error.
NextTry(sent) ==
    IF sent.route < Routes THEN [sent EXCEPT !.route = @ + 1]
    ELSE IF sent.round < Rounds
    THEN [sent EXCEPT !.pc = "backoff", !.round = @ + 1, !.route = 1]
    ELSE Done(sent, "error")

\* Mutant of AfterAnswer: 404 is an error on the first route already.
NotFoundIsFinal(sent, answer) ==
    CASE answer = "stored"                   -> Done(sent, "ok")
      [] answer \in Retryable                -> NextTry(sent)
      [] OTHER                               -> Done(sent, "error")

\* A body that does not decode ends the send; so does a 404 of the last
\* route, whatever the routes before it answered.
AfterAnswer(sent, answer) ==
    CASE answer = "stored"                               -> Done(sent, "ok")
      [] answer = "notFound" /\ sent.route < Routes      -> NextTry(sent)
      [] answer \in Retryable                            -> NextTry(sent)
      [] OTHER                                           -> Done(sent, "error")

\* What may reach the Hub with each answer.
Stores(answer) ==
    CASE answer \in {"stored", "garbled"} -> {TRUE}
      [] answer = "lost"                  -> {TRUE, FALSE}
      [] OTHER                            -> {FALSE}

Post(p, answer) ==
    /\ loop[p].pc = "post"
    /\ serving[loop[p].route] \in {"any", answer}
    /\ \E stores \in Stores(answer) :
           loop' = [loop EXCEPT ![p] =
               AfterAnswer([@ EXCEPT !.inHub = loop[p].inHub \/ stores,
                                     !.posts = loop[p].posts + 1,
                                     !.retryable = /\ loop[p].retryable \/ answer \in Retryable
                                                   /\ answer # "rejected"],
                           answer)]
    /\ UNCHANGED <<leading, serving>>

Backoff(p) ==
    /\ loop[p].pc = "backoff"
    /\ loop' = [loop EXCEPT ![p].pc = "post"]
    /\ UNCHANGED <<leading, serving>>

-----------------------------------------------------------------------------
(* The environment *)

CollectorRestarts(p) ==
    /\ ~steady
    /\ loop' = [loop EXCEPT ![p] = Begin("startup")]
    /\ leading' = leading \ {p}
    /\ UNCHANGED serving

LeadingChanges(p) ==
    /\ ~steady
    /\ leading' = IF p \in leading THEN leading \ {p} ELSE leading \cup {p}
    /\ UNCHANGED <<loop, serving>>

Steady(answers) ==
    /\ ~steady
    /\ serving' = answers
    /\ UNCHANGED <<leading, loop>>

\* While nobody leads and the cluster is steady, the ticks are all skipped.
SkippedTick ==
    /\ \A p \in Collector : loop[p].pc = "idle" /\ p \notin leading
    /\ UNCHANGED sendVars

LoopStep(p) ==
    \/ CheckClusterStatus(p) \/ CollectTick(p)
    \/ Collect(p)
    \/ \E a \in Answer : Post(p, a)
    \/ Backoff(p)

SendNext ==
    \/ \E p \in Collector : LoopStep(p) \/ CollectorRestarts(p) \/ LeadingChanges(p)
    \/ \E answers \in [1 .. Routes -> Answer] : Steady(answers)
    \/ SkippedTick

SendSpec == SendInit /\ [][SendNext]_sendVars

\* Ticks fire, lists and requests end (both have timeouts).
SendFairSpec == SendSpec /\ \A p \in Collector : WF_sendVars(LoopStep(p))

-----------------------------------------------------------------------------
(* Properties *)

\* A snapshot that counts as sent is in the Hub, whatever answers on other
\* routes and in earlier rounds came before (send_snapshot).
SentIsInHub == \A p \in Collector : loop[p].result = "ok" => loop[p].inHub

\* What makes it and SendTypeOK inductive: until a send ends, its posts are those
\* of the rounds before and of the routes before in this round.
PostsCounted ==
    \A p \in Collector :
        loop[p].pc # "idle" => loop[p].posts = (loop[p].round - 1) * Routes + loop[p].route - 1

SendInv == PostsCounted /\ SentIsInHub

\* With a route that accepts, reached before any that refuses for good, a
\* pod that leads delivers a snapshot again and again.
Reachable ==
    \E r \in 1 .. Routes :
        /\ serving[r] = "stored"
        /\ \A s \in 1 .. (r - 1) : serving[s] \in {"notFound", "unavailable", "lost"}

KeepsDelivering ==
    \A p \in Collector : [](steady /\ Reachable /\ p \in leading => []<>(loop[p].result = "ok"))

\* SPEC.md:112: "network errors, `5xx`, `408`, and `429` are retried with
\* backoffs": a send that met one of them, and no refusal but 404 (the answer
\* of a route family the Hub lacks), fails in the last round only.
FailsAfterRetries ==
    \A p \in Collector :
        loop[p].pc = "idle" /\ loop[p].result = "error" /\ loop[p].retryable
            => loop[p].round = Rounds \/ loop[p].inHub

\* README.md:282: "`5xx` and network errors are (3 attempts: 0s/2s/5s)".
ThreeAttempts == \A p \in Collector : loop[p].posts <= Rounds
=============================================================================
