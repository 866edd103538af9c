----------------------------- MODULE CommandLoop -----------------------------
(***************************************************************************)
(* How commands reach an agent pod and how their results get back: the     *)
(* long poll and the acknowledgement (hub.rs), the sequential loop over a  *)
(* batch with the exit after self_update (main.rs), and the table that     *)
(* remembers the commands of this process (COMMAND_DEDUP in executor.rs).  *)
(*                                                                         *)
(* Every pod polls.  The Hub is external: it hands a command out again    *)
(* until it has an answer for it, possibly to several pods, and keeps the  *)
(* first answer (README, "Note on fencing").  What a command does is in    *)
(* ActionGate; here an execution has begun, and ends with a result or with *)
(* the death of the process.                                               *)
(***************************************************************************)
EXTENDS Naturals, Sequences, FiniteSets

CONSTANTS Pod,          \* the agent pods
          Cmd,          \* command ids
          SelfUpdate,   \* the ids whose kind is self_update
          MaxBatch,     \* bound: the longest batch the Hub sends
          MaxCrashes    \* bound: processes that die on their own

ASSUME LoopAssumption ==
    /\ SelfUpdate \subseteq Cmd
    /\ MaxBatch \in Nat
    /\ MaxCrashes \in Nat

VARIABLES answer,    \* Hub: command -> the result it keeps
          pod,       \* pod -> its command loop
          dedup,     \* pod -> COMMAND_DEDUP of the running process
          crashes,   \* bound: crashes so far
          ran,       \* history: pod -> command -> executions by this process
          outcomes   \* history: command -> the results executions ended with

vars == <<answer, pod, dedup, crashes, ran, outcomes>>

None == "none"

\* How an execution ends; the statuses "skipped" and "unknown" of a command
\* that is disabled or not known count as "error" here.  "busy" is the answer
\* "command already running" of dedup_begin.
Outcome == {"ok", "error"}
Result == Outcome \cup {"busy"}

Loop == [pc     : {"poll", "backoff", "begin", "run", "ack", "down"},
         batch  : Seq(Cmd),
         result : Result \cup {None}]

Dedup == [completed : [Cmd -> Result \cup {None}],
          running   : SUBSET Cmd]

TypeOK ==
    /\ answer \in [Cmd -> Result \cup {None}]
    /\ pod \in [Pod -> Loop]
    /\ \A p \in Pod : pod[p].pc \in {"begin", "run", "ack"} => pod[p].batch # << >>
    /\ dedup \in [Pod -> Dedup]
    /\ crashes \in Nat
    /\ ran \in [Pod -> [Cmd -> Nat]]
    /\ outcomes \in [Cmd -> SUBSET Outcome]

AtRest(pc) == [pc |-> pc, batch |-> << >>, result |-> None]

EmptyDedup == [completed |-> [c \in Cmd |-> None], running |-> {}]

Unran == [c \in Cmd |-> 0]

Init ==
    /\ answer = [c \in Cmd |-> None]
    /\ pod = [p \in Pod |-> AtRest("poll")]
    /\ dedup = [p \in Pod |-> EmptyDedup]
    /\ crashes = 0
    /\ ran = [p \in Pod |-> Unran]
    /\ outcomes = [c \in Cmd |-> {}]

-----------------------------------------------------------------------------
(* Polling.  A poll that brings nothing (204, a timeout, an empty body or  *)
(* an empty list) changes nothing, and is a stuttering step.               *)

Pending == {c \in Cmd : answer[c] = None}

Batches == UNION {[1 .. n -> Pending] : n \in 1 .. MaxBatch}

PollCommands(p, b) ==
    /\ pod[p].pc = "poll"
    /\ pod' = [pod EXCEPT ![p] = [@ EXCEPT !.pc = "begin", !.batch = b]]
    /\ UNCHANGED <<answer, dedup, crashes, ran, outcomes>>

\* A transport error, a status that is neither success nor a 404 with a
\* route left to try, or a body that does not decode: sleep 5 seconds.
PollFails(p) ==
    /\ pod[p].pc = "poll"
    /\ pod' = [pod EXCEPT ![p].pc = "backoff"]
    /\ UNCHANGED <<answer, dedup, crashes, ran, outcomes>>

\* Mutant of PollAgain: a failed poll ends the loop.
PollGivesUp(p) ==
    /\ pod[p].pc = "backoff"
    /\ UNCHANGED vars

PollAgain(p) ==
    /\ pod[p].pc = "backoff"
    /\ pod' = [pod EXCEPT ![p].pc = "poll"]
    /\ UNCHANGED <<answer, dedup, crashes, ran, outcomes>>

-----------------------------------------------------------------------------
(* Execution *)

Current(p) == Head(pod[p].batch)

\* Mutant of dedup_begin: a known command is answered as still running.
DedupBeginSkipsKnown(p) ==
    IF \/ dedup[p].completed[Current(p)] # None
       \/ Current(p) \in dedup[p].running
    THEN "busy" ELSE None

\* The result to answer with instead of executing, None to execute.
dedup_begin(p) ==
    IF dedup[p].completed[Current(p)] # None
    THEN dedup[p].completed[Current(p)]
    ELSE IF Current(p) \in dedup[p].running THEN "busy" ELSE None

\* executor.execute up to the first effect of the command.
BeginKnown(p) ==
    /\ pod[p].pc = "begin"
    /\ dedup_begin(p) # None
    /\ pod' = [pod EXCEPT ![p] = [@ EXCEPT !.pc = "ack", !.result = dedup_begin(p)]]
    /\ UNCHANGED <<answer, dedup, crashes, ran, outcomes>>

BeginNew(p) ==
    /\ pod[p].pc = "begin"
    /\ dedup_begin(p) = None
    /\ pod' = [pod EXCEPT ![p].pc = "run"]
    /\ dedup' = [dedup EXCEPT ![p].running = @ \cup {Current(p)}]
    /\ ran' = [ran EXCEPT ![p][Current(p)] = @ + 1]
    /\ UNCHANGED <<answer, crashes, outcomes>>

\* Mutant of dedup_finish: the result is not remembered.
DedupFinishForgets(p, result) ==
    [dedup[p] EXCEPT !.running = dedup[p].running \ {Current(p)}]

dedup_finish(p, result) ==
    [completed |-> [dedup[p].completed EXCEPT ![Current(p)] = result],
     running   |-> dedup[p].running \ {Current(p)}]

\* execute_inner ends and dedup_finish records its result.
Execute(p, result) ==
    /\ pod[p].pc = "run"
    /\ pod' = [pod EXCEPT ![p] = [@ EXCEPT !.pc = "ack", !.result = result]]
    /\ dedup' = [dedup EXCEPT ![p] = dedup_finish(p, result)]
    /\ outcomes' = [outcomes EXCEPT ![Current(p)] = @ \cup {result}]
    /\ UNCHANGED <<answer, crashes, ran>>

-----------------------------------------------------------------------------
(* Acknowledgement and what follows it *)

\* restart_requested is set by self_update alone, with status "ok".
should_restart_after_ack(p) ==
    pod[p].result = "ok" /\ Current(p) \in SelfUpdate

\* Mutant of AfterAck: the exit waits for the rest of the batch.
AfterAckFinishesBatch(p) ==
    LET rest == Tail(pod[p].batch) IN
    IF rest # << >>
    THEN [pc |-> "begin", batch |-> rest, result |-> None]
    ELSE IF should_restart_after_ack(p)
    THEN AtRest("down")
    ELSE AtRest("poll")

\* Exit the process, dropping the rest of the batch, or go on with it.
AfterAck(p) ==
    LET rest == Tail(pod[p].batch) IN
    IF should_restart_after_ack(p)
    THEN AtRest("down")
    ELSE IF rest = << >>
    THEN AtRest("poll")
    ELSE [pc |-> "begin", batch |-> rest, result |-> None]

Forget(p, next) ==
    IF next.pc = "down"
    THEN /\ dedup' = [dedup EXCEPT ![p] = EmptyDedup]
         /\ ran' = [ran EXCEPT ![p] = Unran]
    ELSE UNCHANGED <<dedup, ran>>

\* The ack reaches the Hub, whether or not its answer reaches the pod.
AckAccepted(p) ==
    /\ pod[p].pc = "ack"
    /\ answer' = IF answer[Current(p)] = None
                 THEN [answer EXCEPT ![Current(p)] = pod[p].result]
                 ELSE answer
    /\ pod' = [pod EXCEPT ![p] = AfterAck(p)]
    /\ Forget(p, AfterAck(p))
    /\ UNCHANGED <<crashes, outcomes>>

\* The ack is lost or answered with an error status: a warning, no retry.
AckLost(p) ==
    /\ pod[p].pc = "ack"
    /\ pod' = [pod EXCEPT ![p] = AfterAck(p)]
    /\ Forget(p, AfterAck(p))
    /\ UNCHANGED <<answer, crashes, outcomes>>

-----------------------------------------------------------------------------
(* The process *)

Crash(p) ==
    /\ pod[p].pc # "down"
    /\ crashes < MaxCrashes
    /\ crashes' = crashes + 1
    /\ pod' = [pod EXCEPT ![p] = AtRest("down")]
    /\ Forget(p, AtRest("down"))
    /\ UNCHANGED <<answer, outcomes>>

\* Kubernetes restarts the container.
Restart(p) ==
    /\ pod[p].pc = "down"
    /\ pod' = [pod EXCEPT ![p].pc = "poll"]
    /\ UNCHANGED <<answer, dedup, crashes, ran, outcomes>>

LoopStep(p) ==
    \/ PollAgain(p)
    \/ BeginKnown(p) \/ BeginNew(p)
    \/ \E result \in Outcome : Execute(p, result)
    \/ AckAccepted(p) \/ AckLost(p)
    \/ Restart(p)

Next ==
    \E p \in Pod :
        \/ \E b \in Batches : PollCommands(p, b)
        \/ PollFails(p)
        \/ LoopStep(p)
        \/ Crash(p)

\* Pods run and are restarted; the Hub keeps handing out what it has no
\* answer for, and not every poll fails and not every ack is lost.
Fairness ==
    \A p \in Pod :
        /\ WF_vars(LoopStep(p))
        /\ SF_vars(AckAccepted(p))
        /\ \A c \in Cmd :
               SF_vars(\E b \in Batches : c \in {b[i] : i \in DOMAIN b} /\ PollCommands(p, b))

Spec == Init /\ [][Next]_vars
FairSpec == Spec /\ Fairness

-----------------------------------------------------------------------------
(* Properties *)

\* A process executes a command at most once, however often it is
\* delivered, in one batch or in several, and whether or not its acks get
\* through (dedup_begin, dedup_finish).
AtMostOncePerProcess == \A p \in Pod, c \in Cmd : ran[p][c] <= 1

\* What the Hub keeps is the result of an execution that ended: a
\* redelivery repeats it and never answers "already running" in its place.
AnswersAreReal ==
    \A c \in Cmd : answer[c] # None => answer[c] \in outcomes[c]

\* Every command is answered in the end, although acks are not retried, a
\* self_update drops the rest of its batch and a crash forgets the results.
EveryCommandAnswered == \A c \in Cmd : <>(answer[c] # None)

\* The pods together are the service that CommandService specifies: a
\* process performs a command at most once, what it acknowledges it has
\* performed itself, and behind a self_update it neither performs nor
\* acknowledges anything (execute, should_restart_after_ack).
Service == INSTANCE CommandService
               WITH Agent <- Pod, Success <- "ok",
                    performed <- [p \in Pod |-> dedup[p].completed]
ImplementsService == Service!Spec

\* What makes the properties inductive.  A process that has executed a
\* command knows it as running or completed, only the head of the batch is
\* ever running, every result it holds is one of an execution, what it
\* acknowledges is in its table, and a self_update that succeeded is about
\* to be acknowledged.
Known(p, c) == dedup[p].completed[c] # None \/ c \in dedup[p].running

RanIsKnown ==
    \A p \in Pod, c \in Cmd : ran[p][c] = IF Known(p, c) THEN 1 ELSE 0

OnlyHeadRuns ==
    \A p \in Pod :
        /\ dedup[p].running = IF pod[p].pc = "run" THEN {Current(p)} ELSE {}
        /\ pod[p].pc = "run" => dedup[p].completed[Current(p)] = None

ResultsAreReal ==
    \A p \in Pod :
        /\ pod[p].pc = "ack" => pod[p].result \in outcomes[Current(p)]
        /\ \A c \in Cmd : dedup[p].completed[c] # None =>
               dedup[p].completed[c] \in outcomes[c]

AcksItsOwn ==
    \A p \in Pod :
        /\ pod[p].pc = "ack" => pod[p].result = dedup[p].completed[Current(p)]
        /\ \A u \in SelfUpdate :
               dedup[p].completed[u] = "ok" => pod[p].pc = "ack" /\ Current(p) = u

LoopInv ==
    /\ RanIsKnown
    /\ OnlyHeadRuns
    /\ ResultsAreReal
    /\ AcksItsOwn
    /\ AnswersAreReal
=============================================================================
