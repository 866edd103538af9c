-------------------------- MODULE CommandLoopProofs --------------------------
(***************************************************************************)
(* CommandLoop proved for every set of pods and commands, every batch size *)
(* and any number of crashes: the loop executes a command at most once per *)
(* process, and the Hub's answers are results of executions.               *)
(***************************************************************************)
EXTENDS CommandLoop, TLAPS, SequenceTheorems

\* What the loop holds after an ack is well formed.
LEMMA AfterAckType ==
    ASSUME TypeOK, NEW p \in Pod, pod[p].pc = "ack"
    PROVE  /\ AfterAck(p) \in Loop
           /\ AfterAck(p).pc \in {"poll", "begin", "down"}
           /\ AfterAck(p).pc = "begin" => AfterAck(p).batch # << >>
           /\ Current(p) \in Cmd
<1>1. pod[p] \in Loop /\ pod[p].batch \in Seq(Cmd) /\ pod[p].batch # << >>
  BY DEF TypeOK, Loop
<1>2. Tail(pod[p].batch) \in Seq(Cmd) /\ Head(pod[p].batch) \in Cmd
  BY <1>1, HeadTailProperties
<1> QED
  BY <1>1, <1>2 DEF AfterAck, AtRest, Loop, Current, None

\* A batch of the Hub is a non-empty sequence of commands.
LEMMA BatchType ==
    ASSUME NEW b \in Batches
    PROVE  b \in Seq(Cmd) /\ b # << >>
<1>1. PICK n \in 1 .. MaxBatch : b \in [1 .. n -> Pending]
  BY DEF Batches
<1>2. b \in [1 .. n -> Cmd] /\ n \in Nat /\ n >= 1
  BY <1>1, LoopAssumption DEF Pending
<1>3. b \in Seq(Cmd) /\ Len(b) = n
  BY <1>2
<1> QED
  BY <1>2, <1>3

LEMMA HeadIsCommand ==
    ASSUME TypeOK, NEW p \in Pod, pod[p].pc \in {"begin", "run", "ack"}
    PROVE  Current(p) \in Cmd
BY HeadTailProperties DEF TypeOK, Loop, Current

\* Next taken apart: some pod takes one of its steps.
LEMMA NextCases ==
    ASSUME Next
    PROVE  \E p \in Pod :
               \/ \E b \in Batches : PollCommands(p, b)
               \/ PollFails(p) \/ PollAgain(p)
               \/ BeginKnown(p) \/ BeginNew(p)
               \/ \E result \in Outcome : Execute(p, result)
               \/ AckAccepted(p) \/ AckLost(p)
               \/ Restart(p) \/ Crash(p)
BY DEF Next, LoopStep

-----------------------------------------------------------------------------
(* Type correctness *)

LEMMA InitType == Init => TypeOK
<1> SUFFICES ASSUME Init PROVE TypeOK
  OBVIOUS
<1>1. AtRest("poll") \in Loop /\ AtRest("poll").pc = "poll"
  BY EmptySeq DEF AtRest, Loop, None
<1>2. pod \in [Pod -> Loop] /\ \A p \in Pod : pod[p].pc = "poll"
  BY <1>1 DEF Init
<1>3. EmptyDedup \in Dedup /\ Unran \in [Cmd -> Nat]
  BY DEF EmptyDedup, Dedup, Unran
<1>4. dedup \in [Pod -> Dedup] /\ ran \in [Pod -> [Cmd -> Nat]]
  BY <1>3 DEF Init
<1>5. answer \in [Cmd -> Result \cup {None}]
  BY DEF Init
<1>6. outcomes \in [Cmd -> SUBSET Outcome] /\ crashes \in Nat
  BY DEF Init
<1> QED
  BY <1>2, <1>4, <1>5, <1>6 DEF TypeOK

\* Whatever Forget keeps or drops is well formed.
LEMMA ForgetType ==
    ASSUME TypeOK, NEW p \in Pod, NEW next, Forget(p, next)
    PROVE  dedup' \in [Pod -> Dedup] /\ ran' \in [Pod -> [Cmd -> Nat]]
<1>1. EmptyDedup \in Dedup /\ Unran \in [Cmd -> Nat]
  BY DEF EmptyDedup, Dedup, Unran
<1> QED
  BY <1>1 DEF TypeOK, Forget

LEMMA StepType == TypeOK /\ [Next]_vars => TypeOK'
<1> SUFFICES ASSUME TypeOK, [Next]_vars PROVE TypeOK'
  OBVIOUS
<1>1. CASE UNCHANGED vars
  BY <1>1 DEF TypeOK, vars
<1>2. CASE Next
  <2>1. PICK p \in Pod :
               \/ \E b \in Batches : PollCommands(p, b)
               \/ PollFails(p) \/ PollAgain(p)
               \/ BeginKnown(p) \/ BeginNew(p)
               \/ \E result \in Outcome : Execute(p, result)
               \/ AckAccepted(p) \/ AckLost(p)
               \/ Restart(p) \/ Crash(p)
    BY <1>2, NextCases
  <2>2. CASE \E b \in Batches : PollCommands(p, b)
    <3>1. PICK b \in Batches : PollCommands(p, b)
      BY <2>2
    <3>2. b \in Seq(Cmd) /\ b # << >>
      BY BatchType
    <3> QED
      BY <3>1, <3>2 DEF PollCommands, TypeOK, Loop
  <2>3. CASE PollFails(p)
    BY <2>3 DEF PollFails, TypeOK, Loop
  <2>4. CASE PollAgain(p)
    BY <2>4 DEF PollAgain, TypeOK, Loop
  <2>5. CASE BeginKnown(p)
    <3>1. Current(p) \in Cmd
      BY <2>5, HeadIsCommand DEF BeginKnown
    <3>2. dedup_begin(p) \in Result
      BY <2>5, <3>1 DEF BeginKnown, dedup_begin, TypeOK, Dedup, Result
    <3> QED
      BY <2>5, <3>2 DEF BeginKnown, TypeOK, Loop
  <2>6. CASE BeginNew(p)
    <3>1. Current(p) \in Cmd
      BY <2>6, HeadIsCommand DEF BeginNew
    <3>2. /\ pod' \in [Pod -> Loop]
          /\ \A q \in Pod : pod'[q].pc \in {"begin", "run", "ack"} => pod'[q].batch # << >>
      BY <2>6 DEF BeginNew, TypeOK, Loop
    <3>3. dedup' \in [Pod -> Dedup]
      BY <2>6, <3>1 DEF BeginNew, TypeOK, Dedup
    <3>4. ran' \in [Pod -> [Cmd -> Nat]]
      <4>1. ran[p][Current(p)] + 1 \in Nat
        BY <3>1 DEF TypeOK
      <4>2. ran' = [ran EXCEPT ![p] = [ran[p] EXCEPT ![Current(p)] = ran[p][Current(p)] + 1]]
        BY <2>6 DEF BeginNew
      <4> QED
        BY <4>1, <4>2 DEF TypeOK
    <3> QED
      BY <2>6, <3>2, <3>3, <3>4 DEF BeginNew, TypeOK
  <2>7. CASE \E result \in Outcome : Execute(p, result)
    <3>1. PICK result \in Outcome : Execute(p, result)
      BY <2>7
    <3>2. Current(p) \in Cmd
      BY <3>1, HeadIsCommand DEF Execute
    <3>3. dedup_finish(p, result) \in Dedup
      BY <3>1, <3>2 DEF dedup_finish, TypeOK, Dedup, Result
    <3>4. outcomes' \in [Cmd -> SUBSET Outcome]
      BY <3>1, <3>2 DEF Execute, TypeOK
    <3>5. /\ pod' \in [Pod -> Loop]
          /\ \A q \in Pod : pod'[q].pc \in {"begin", "run", "ack"} => pod'[q].batch # << >>
      BY <3>1 DEF Execute, TypeOK, Loop, Result
    <3> QED
      BY <3>1, <3>3, <3>4, <3>5 DEF Execute, TypeOK
  <2>8. CASE AckAccepted(p) \/ AckLost(p)
    <3>1. /\ pod[p].pc = "ack"
          /\ pod' = [pod EXCEPT ![p] = AfterAck(p)]
          /\ Forget(p, AfterAck(p))
          /\ UNCHANGED <<crashes, outcomes>>
      BY <2>8 DEF AckAccepted, AckLost
    <3>2. /\ AfterAck(p) \in Loop
          /\ AfterAck(p).pc \in {"poll", "begin", "down"}
          /\ AfterAck(p).pc = "begin" => AfterAck(p).batch # << >>
          /\ Current(p) \in Cmd
      BY <3>1, AfterAckType
    <3>3. dedup' \in [Pod -> Dedup] /\ ran' \in [Pod -> [Cmd -> Nat]]
      BY <3>1, ForgetType
    <3>4. /\ pod' \in [Pod -> Loop]
          /\ \A q \in Pod : pod'[q].pc \in {"begin", "run", "ack"} => pod'[q].batch # << >>
      BY <3>1, <3>2 DEF TypeOK
    <3>5. answer' \in [Cmd -> Result \cup {None}]
      <4>1. pod[p].result \in Result \cup {None}
        BY DEF TypeOK, Loop
      <4> QED
        BY <2>8, <3>2, <4>1 DEF AckAccepted, AckLost, TypeOK
    <3> QED
      BY <3>1, <3>3, <3>4, <3>5 DEF TypeOK
  <2>9. CASE Restart(p)
    BY <2>9 DEF Restart, TypeOK, Loop
  <2>10. CASE Crash(p)
    <3>1. dedup' \in [Pod -> Dedup] /\ ran' \in [Pod -> [Cmd -> Nat]]
      BY <2>10, ForgetType DEF Crash
    <3>2. AtRest("down") \in Loop /\ AtRest("down").pc = "down"
      BY EmptySeq DEF AtRest, Loop, None
    <3>3. /\ pod' \in [Pod -> Loop]
          /\ \A q \in Pod : pod'[q].pc \in {"begin", "run", "ack"} => pod'[q].batch # << >>
      BY <2>10, <3>2 DEF Crash, TypeOK
    <3> QED
      BY <2>10, <3>1, <3>3 DEF Crash, TypeOK
  <2> QED
    BY <2>1, <2>2, <2>3, <2>4, <2>5, <2>6, <2>7, <2>8, <2>9, <2>10
<1> QED
  BY <1>1, <1>2

\* The type invariant of the command loop.
THEOREM LoopTypeCorrect == Spec => []TypeOK
BY InitType, StepType, PTL DEF Spec

-----------------------------------------------------------------------------
(* The invariant *)

LEMMA InitInv == Init => LoopInv
<1> SUFFICES ASSUME Init PROVE LoopInv
  OBVIOUS
<1>1. \A p \in Pod : /\ dedup[p] = EmptyDedup /\ ran[p] = Unran
                     /\ pod[p] = AtRest("poll")
  BY DEF Init
<1>2. RanIsKnown
  BY <1>1 DEF RanIsKnown, Known, EmptyDedup, Unran
<1>3. OnlyHeadRuns
  <2>1. \A p \in Pod : dedup[p].running = {} /\ pod[p].pc = "poll"
    BY <1>1 DEF EmptyDedup, AtRest
  <2> QED
    BY <2>1 DEF OnlyHeadRuns
<1>4. ResultsAreReal
  BY <1>1 DEF ResultsAreReal, EmptyDedup, AtRest
<1>5. AnswersAreReal
  BY DEF Init, AnswersAreReal
<1>6. AcksItsOwn
  BY <1>1, LoopAssumption DEF AcksItsOwn, EmptyDedup, AtRest, None
<1> QED
  BY <1>2, <1>3, <1>4, <1>5, <1>6 DEF LoopInv

\* A step that leaves dedup, ran, outcomes and answer alone, and neither
\* enters nor leaves "run" or "ack".
LEMMA PlainStep ==
    ASSUME TypeOK, LoopInv, UNCHANGED <<answer, dedup, ran, outcomes>>, NEW p \in Pod,
           \A q \in Pod \ {p} : pod'[q] = pod[q],
           pod[p].pc \notin {"run", "ack"}, pod'[p].pc \notin {"run", "ack"}
    PROVE  LoopInv'
<1>1. RanIsKnown' /\ AnswersAreReal'
  BY DEF LoopInv, RanIsKnown, Known, AnswersAreReal
<1>2. OnlyHeadRuns'
  BY DEF LoopInv, OnlyHeadRuns, Current
<1>3. ResultsAreReal'
  BY DEF LoopInv, ResultsAreReal, Current
<1>4. AcksItsOwn'
  BY DEF LoopInv, AcksItsOwn, Current
<1> QED
  BY <1>1, <1>2, <1>3, <1>4 DEF LoopInv

\* The end of a process, or the step past an ack: Forget drops the table and
\* the history together or keeps both.
LEMMA ForgetStep ==
    ASSUME TypeOK, LoopInv, NEW p \in Pod, NEW next, Forget(p, next),
           \/ next.pc = "down"
           \/ /\ pod[p].pc # "run"
              /\ \A u \in SelfUpdate : dedup[p].completed[u] # "ok",
           UNCHANGED outcomes, AnswersAreReal',
           \A q \in Pod \ {p} : pod'[q] = pod[q],
           pod'[p] = next, next.pc \notin {"run", "ack"}
    PROVE  LoopInv'
<1>1. CASE next.pc = "down"
  <2>1. /\ dedup' = [dedup EXCEPT ![p] = EmptyDedup]
        /\ ran' = [ran EXCEPT ![p] = Unran]
    BY <1>1 DEF Forget
  <2>2. /\ dedup'[p] = EmptyDedup /\ ran'[p] = Unran
        /\ \A q \in Pod \ {p} : dedup'[q] = dedup[q] /\ ran'[q] = ran[q]
    BY <2>1 DEF TypeOK
  <2>3. RanIsKnown'
    BY <2>2 DEF LoopInv, RanIsKnown, Known, EmptyDedup, Unran
  <2>4. OnlyHeadRuns'
    <3>1. EmptyDedup.running = {}
      BY DEF EmptyDedup
    <3> SUFFICES ASSUME NEW q \in Pod
                 PROVE  /\ dedup'[q].running = IF pod'[q].pc = "run" THEN {Head(pod'[q].batch)}
                                                                   ELSE {}
                        /\ pod'[q].pc = "run" =>
                               dedup'[q].completed[Head(pod'[q].batch)] = None
      BY DEF OnlyHeadRuns, Current
    <3>2. CASE q = p
      BY <1>1, <2>2, <3>1, <3>2
    <3>3. CASE q # p
      BY <2>2, <3>3 DEF LoopInv, OnlyHeadRuns, Current
    <3> QED
      BY <3>2, <3>3
  <2>5. ResultsAreReal'
    BY <1>1, <2>2 DEF LoopInv, ResultsAreReal, Current, EmptyDedup
  <2>6. AcksItsOwn'
    BY <1>1, <2>2, LoopAssumption DEF LoopInv, AcksItsOwn, Current, EmptyDedup, None
  <2> QED
    BY <2>3, <2>4, <2>5, <2>6 DEF LoopInv
<1>2. CASE next.pc # "down"
  <2>1. UNCHANGED <<dedup, ran>>
    BY <1>2 DEF Forget
  <2>2. RanIsKnown'
    BY <2>1 DEF LoopInv, RanIsKnown, Known
  <2>3. OnlyHeadRuns'
    <3> SUFFICES ASSUME NEW q \in Pod
                 PROVE  /\ dedup[q].running = IF pod'[q].pc = "run" THEN {Head(pod'[q].batch)}
                                                                  ELSE {}
                        /\ pod'[q].pc = "run" =>
                               dedup[q].completed[Head(pod'[q].batch)] = None
      BY <2>1 DEF OnlyHeadRuns, Current
    <3>1. CASE q = p
      BY <1>2, <3>1 DEF LoopInv, OnlyHeadRuns
    <3>2. CASE q # p
      BY <3>2 DEF LoopInv, OnlyHeadRuns, Current
    <3> QED
      BY <3>1, <3>2
  <2>4. ResultsAreReal'
    BY <2>1 DEF LoopInv, ResultsAreReal, Current
  <2>5. AcksItsOwn'
    BY <1>2, <2>1 DEF LoopInv, AcksItsOwn, Current
  <2> QED
    BY <2>2, <2>3, <2>4, <2>5 DEF LoopInv
<1> QED
  BY <1>1, <1>2

\* Nothing runs when a command begins, so a known command is a completed one.
LEMMA BeginKnownStep ==
    ASSUME TypeOK, LoopInv, NEW p \in Pod, BeginKnown(p)
    PROVE  LoopInv'
<1>1. dedup_begin(p) = dedup[p].completed[Current(p)] /\ dedup_begin(p) # None
  BY DEF BeginKnown, dedup_begin, LoopInv, OnlyHeadRuns
<1>2. Current(p) \in Cmd
  BY HeadIsCommand DEF BeginKnown
<1>3. dedup_begin(p) \in outcomes[Current(p)]
  BY <1>1, <1>2 DEF LoopInv, ResultsAreReal
<1>4. /\ pod'[p].pc = "ack" /\ pod'[p].result = dedup_begin(p)
      /\ pod'[p].batch = pod[p].batch
      /\ \A q \in Pod \ {p} : pod'[q] = pod[q]
      /\ UNCHANGED <<answer, dedup, ran, outcomes>>
  BY DEF BeginKnown, TypeOK, Loop
<1>5. RanIsKnown' /\ AnswersAreReal'
  BY <1>4 DEF LoopInv, RanIsKnown, Known, AnswersAreReal
<1>6. OnlyHeadRuns'
  BY <1>4 DEF BeginKnown, LoopInv, OnlyHeadRuns, Current
<1>7. ResultsAreReal'
  BY <1>3, <1>4 DEF LoopInv, ResultsAreReal, Current
<1>8. AcksItsOwn'
  BY <1>1, <1>4 DEF BeginKnown, LoopInv, AcksItsOwn, Current
<1> QED
  BY <1>5, <1>6, <1>7, <1>8 DEF LoopInv

LEMMA BeginNewStep ==
    ASSUME TypeOK, LoopInv, NEW p \in Pod, BeginNew(p)
    PROVE  LoopInv'
<1> DEFINE c == Current(p)
<1>1. c \in Cmd
  BY HeadIsCommand DEF BeginNew
<1>2. dedup[p].completed[c] = None /\ dedup[p].running = {}
  BY DEF BeginNew, dedup_begin, LoopInv, OnlyHeadRuns
<1>3. ran[p][c] = 0
  BY <1>1, <1>2 DEF LoopInv, RanIsKnown, Known
<1>4. /\ pod'[p].pc = "run" /\ pod'[p].batch = pod[p].batch
      /\ \A q \in Pod \ {p} : pod'[q] = pod[q]
      /\ UNCHANGED <<answer, outcomes>>
  BY DEF BeginNew, TypeOK, Loop
<1>5. /\ dedup'[p].completed = dedup[p].completed /\ dedup'[p].running = {c}
      /\ \A q \in Pod \ {p} : dedup'[q] = dedup[q]
  BY <1>2 DEF BeginNew, TypeOK, Dedup
<1>6. ran' = [ran EXCEPT ![p] = [ran[p] EXCEPT ![c] = ran[p][c] + 1]]
  BY DEF BeginNew
<1>7. /\ ran'[p][c] = 1
      /\ \A d \in Cmd \ {c} : ran'[p][d] = ran[p][d]
      /\ \A q \in Pod \ {p} : ran'[q] = ran[q]
  BY <1>1, <1>3, <1>6 DEF TypeOK
<1>8. RanIsKnown'
  <2> SUFFICES ASSUME NEW q \in Pod, NEW d \in Cmd
               PROVE  ran'[q][d] = IF Known(q, d)' THEN 1 ELSE 0
    BY DEF RanIsKnown
  <2>1. CASE q # p
    BY <1>5, <1>7, <2>1 DEF LoopInv, RanIsKnown, Known
  <2>2. CASE q = p /\ d = c
    BY <1>5, <1>7, <2>2 DEF Known
  <2>3. CASE q = p /\ d # c
    BY <1>2, <1>5, <1>7, <2>3 DEF LoopInv, RanIsKnown, Known
  <2> QED
    BY <2>1, <2>2, <2>3
<1>9. OnlyHeadRuns'
  BY <1>2, <1>4, <1>5 DEF LoopInv, OnlyHeadRuns, Current
<1>10. ResultsAreReal' /\ AnswersAreReal'
  BY <1>4, <1>5 DEF LoopInv, ResultsAreReal, AnswersAreReal, Current
<1>11. AcksItsOwn'
  BY <1>4, <1>5 DEF BeginNew, LoopInv, AcksItsOwn, Current
<1> QED
  BY <1>8, <1>9, <1>10, <1>11 DEF LoopInv

LEMMA ExecuteStep ==
    ASSUME TypeOK, LoopInv, NEW p \in Pod, NEW result \in Outcome, Execute(p, result)
    PROVE  LoopInv'
<1> DEFINE c == Current(p)
<1>1. c \in Cmd
  BY HeadIsCommand DEF Execute
<1>2. dedup[p].running = {c}
  BY DEF Execute, LoopInv, OnlyHeadRuns
<1>3. /\ pod'[p].pc = "ack" /\ pod'[p].batch = pod[p].batch /\ pod'[p].result = result
      /\ \A q \in Pod \ {p} : pod'[q] = pod[q]
      /\ UNCHANGED <<answer, ran>>
  BY DEF Execute, TypeOK, Loop
<1>4. /\ dedup'[p] = [completed |-> [dedup[p].completed EXCEPT ![c] = result],
                      running   |-> dedup[p].running \ {c}]
      /\ \A q \in Pod \ {p} : dedup'[q] = dedup[q]
  BY DEF Execute, dedup_finish, TypeOK
<1>5. /\ dedup'[p].running = {}
      /\ dedup'[p].completed[c] = result
      /\ \A d \in Cmd \ {c} : dedup'[p].completed[d] = dedup[p].completed[d]
  BY <1>1, <1>2, <1>4 DEF TypeOK, Dedup
<1>6. /\ outcomes'[c] = outcomes[c] \cup {result}
      /\ \A d \in Cmd \ {c} : outcomes'[d] = outcomes[d]
  BY <1>1 DEF Execute, TypeOK
<1>7. result # None
  BY DEF Outcome, None
<1>8. RanIsKnown'
  <2> SUFFICES ASSUME NEW q \in Pod, NEW d \in Cmd
               PROVE  Known(q, d)' <=> Known(q, d)
    BY <1>3 DEF LoopInv, RanIsKnown
  <2>1. CASE q # p
    BY <1>4, <2>1 DEF Known
  <2>2. CASE q = p
    BY <1>2, <1>5, <1>7, <2>2 DEF Known
  <2> QED
    BY <2>1, <2>2
<1>9. OnlyHeadRuns'
  BY <1>3, <1>4, <1>5 DEF LoopInv, OnlyHeadRuns, Current
<1>10. ResultsAreReal'
  <2> SUFFICES ASSUME NEW q \in Pod
               PROVE  /\ pod'[q].pc = "ack" => pod'[q].result \in outcomes'[Head(pod'[q].batch)]
                      /\ \A d \in Cmd : dedup'[q].completed[d] # None =>
                             dedup'[q].completed[d] \in outcomes'[d]
    BY DEF ResultsAreReal, Current
  <2>1. \A d \in Cmd : outcomes[d] \subseteq outcomes'[d]
    BY <1>6
  <2>2. CASE q # p
    <3>1. pod[q].pc = "ack" => Head(pod[q].batch) \in Cmd
      BY HeadIsCommand DEF Current
    <3> QED
      BY <1>3, <1>4, <2>1, <2>2, <3>1 DEF LoopInv, ResultsAreReal, Current
  <2>3. CASE q = p
    BY <1>3, <1>5, <1>6, <2>1, <2>3 DEF LoopInv, ResultsAreReal, Current
  <2> QED
    BY <2>2, <2>3
<1>11. AnswersAreReal'
  BY <1>3, <1>6 DEF LoopInv, AnswersAreReal
<1>12. AcksItsOwn'
  <2> SUFFICES ASSUME NEW q \in Pod
               PROVE  /\ pod'[q].pc = "ack" =>
                             pod'[q].result = dedup'[q].completed[Head(pod'[q].batch)]
                      /\ \A u \in SelfUpdate : dedup'[q].completed[u] = "ok" =>
                             pod'[q].pc = "ack" /\ Head(pod'[q].batch) = u
    BY DEF AcksItsOwn, Current
  <2>1. CASE q # p
    BY <1>3, <1>4, <2>1 DEF LoopInv, AcksItsOwn, Current
  <2>2. CASE q = p
    BY <1>3, <1>5, <2>2, LoopAssumption DEF Execute, LoopInv, AcksItsOwn, Current
  <2> QED
    BY <2>1, <2>2
<1> QED
  BY <1>8, <1>9, <1>10, <1>11, <1>12 DEF LoopInv

LEMMA AckStep ==
    ASSUME TypeOK, LoopInv, NEW p \in Pod, AckAccepted(p) \/ AckLost(p)
    PROVE  LoopInv'
<1>1. /\ pod[p].pc = "ack"
      /\ pod' = [pod EXCEPT ![p] = AfterAck(p)]
      /\ Forget(p, AfterAck(p))
      /\ UNCHANGED outcomes
  BY DEF AckAccepted, AckLost
<1>2. AfterAck(p).pc \in {"poll", "begin", "down"} /\ Current(p) \in Cmd
  BY <1>1, AfterAckType
<1>3. AnswersAreReal'
  <2>1. pod[p].result \in outcomes[Current(p)]
    BY <1>1 DEF LoopInv, ResultsAreReal
  <2> QED
    BY <1>1, <1>2, <2>1 DEF AckAccepted, AckLost, LoopInv, AnswersAreReal, TypeOK
<1>4. pod'[p] = AfterAck(p) /\ \A q \in Pod \ {p} : pod'[q] = pod[q]
  BY <1>1 DEF TypeOK
<1>5. AfterAck(p).pc = "down" \/ \A u \in SelfUpdate : dedup[p].completed[u] # "ok"
  <2>1. ASSUME NEW u \in SelfUpdate, dedup[p].completed[u] = "ok"
        PROVE  AfterAck(p).pc = "down"
    <3>1. should_restart_after_ack(p)
      BY <1>1, <2>1 DEF LoopInv, AcksItsOwn, should_restart_after_ack
    <3> QED
      BY <3>1 DEF AfterAck, AtRest
  <2> QED
    BY <2>1
<1> QED
  BY <1>1, <1>2, <1>3, <1>4, <1>5, ForgetStep

LEMMA StepInv == TypeOK /\ LoopInv /\ [Next]_vars => LoopInv'
<1> SUFFICES ASSUME TypeOK, LoopInv, [Next]_vars PROVE LoopInv'
  OBVIOUS
<1>1. CASE UNCHANGED vars
  BY <1>1 DEF vars, LoopInv, RanIsKnown, Known, OnlyHeadRuns, ResultsAreReal,
              AcksItsOwn, AnswersAreReal, Current
<1>2. CASE Next
  <2>1. PICK p \in Pod :
               \/ \E b \in Batches : PollCommands(p, b)
               \/ PollFails(p) \/ PollAgain(p)
               \/ BeginKnown(p) \/ BeginNew(p)
               \/ \E result \in Outcome : Execute(p, result)
               \/ AckAccepted(p) \/ AckLost(p)
               \/ Restart(p) \/ Crash(p)
    BY <1>2, NextCases
  <2>2. CASE \/ \E b \in Batches : PollCommands(p, b)
             \/ PollFails(p) \/ PollAgain(p) \/ Restart(p)
    <3>1. /\ UNCHANGED <<answer, dedup, ran, outcomes>>
          /\ \A q \in Pod \ {p} : pod'[q] = pod[q]
          /\ pod[p].pc \notin {"run", "ack"} /\ pod'[p].pc \notin {"run", "ack"}
      BY <2>2 DEF PollCommands, PollFails, PollAgain, Restart, TypeOK, Loop
    <3> QED
      BY <3>1, PlainStep
  <2>3. CASE Crash(p)
    <3>1. /\ UNCHANGED <<answer, outcomes>>
          /\ Forget(p, AtRest("down"))
          /\ pod'[p] = AtRest("down") /\ \A q \in Pod \ {p} : pod'[q] = pod[q]
      BY <2>3 DEF Crash, TypeOK
    <3>2. AtRest("down").pc = "down"
      BY DEF AtRest
    <3>3. AnswersAreReal'
      BY <3>1 DEF LoopInv, AnswersAreReal
    <3> QED
      BY <3>1, <3>2, <3>3, ForgetStep
  <2> QED
    BY <2>1, <2>2, <2>3, BeginKnownStep, BeginNewStep, ExecuteStep, AckStep
<1> QED
  BY <1>1, <1>2

\* The invariant holds in every behaviour.
THEOREM LoopInvariant == Spec => [](TypeOK /\ LoopInv)
BY InitType, StepType, InitInv, StepInv, PTL DEF Spec

\* A process executes a command at most once, for any number of pods,
\* deliveries, lost acks and crashes.
THEOREM ExecutesAtMostOnce == Spec => []AtMostOncePerProcess
<1>1. LoopInv => AtMostOncePerProcess
  BY DEF LoopInv, RanIsKnown, AtMostOncePerProcess
<1> QED
  BY <1>1, LoopInvariant, PTL

\* The Hub never keeps an answer that no execution of the command gave.
THEOREM HubKeepsRealAnswers == Spec => []AnswersAreReal
<1>1. LoopInv => AnswersAreReal
  BY DEF LoopInv
<1> QED
  BY <1>1, LoopInvariant, PTL

-----------------------------------------------------------------------------
(* Refinement *)

Performed == [p \in Pod |-> dedup[p].completed]

LEMMA InitImplements == Init => Service!Init
<1> SUFFICES ASSUME Init PROVE Service!Init
  OBVIOUS
<1>1. Performed = [p \in Pod |-> [c \in Cmd |-> None]]
  BY DEF Init, Performed, EmptyDedup
<1> QED
  BY <1>1 DEF Init, Performed, Service!Init, Service!Nothing

\* A process that ends, by a crash or behind an ack, ends its session.
LEMMA EndImplements ==
    ASSUME TypeOK, NEW p \in Pod, dedup' = [dedup EXCEPT ![p] = EmptyDedup]
    PROVE  Performed' = [Performed EXCEPT ![p] = [c \in Cmd |-> None]]
  BY DEF TypeOK, Performed, EmptyDedup

LEMMA SameImplements == UNCHANGED dedup => UNCHANGED Performed
  BY DEF Performed

\* A self_update that succeeded is the command that is acknowledged.
LEMMA LeavingIsAcked ==
    ASSUME LoopInv, NEW p \in Pod, Service!Leaving(p)
    PROVE  pod[p].pc = "ack" /\ Service!Updated(p, Current(p))
  BY DEF LoopInv, AcksItsOwn, Service!Leaving, Service!Updated

\* Execute is Perform, the first ack that arrives is Answer, the end of a
\* process is EndSession, and every other step of a pod is invisible.
LEMMA StepImplements ==
    TypeOK /\ LoopInv /\ [Next]_vars => [Service!Next]_<<Performed, answer>>
<1> SUFFICES ASSUME TypeOK, LoopInv, [Next]_vars
             PROVE  Service!Next \/ UNCHANGED <<Performed, answer>>
  OBVIOUS
<1>0. dedup \in [Pod -> Dedup]
  BY DEF TypeOK
<1>1. CASE UNCHANGED vars
  BY <1>1, SameImplements DEF vars
<1>2. CASE Next
  <2>1. PICK p \in Pod :
               \/ \E b \in Batches : PollCommands(p, b)
               \/ PollFails(p) \/ PollAgain(p)
               \/ BeginKnown(p) \/ BeginNew(p)
               \/ \E result \in Outcome : Execute(p, result)
               \/ AckAccepted(p) \/ AckLost(p)
               \/ Restart(p) \/ Crash(p)
    BY <1>2, NextCases
  <2>2. ASSUME NEW result \in Outcome, Execute(p, result)
        PROVE  Service!Next
    <3>1. Current(p) \in Cmd /\ pod[p].pc = "run"
      BY <2>2, HeadIsCommand DEF Execute
    <3>2. dedup[p].completed[Current(p)] = None /\ ~Service!Leaving(p)
      BY <3>1, LeavingIsAcked DEF LoopInv, OnlyHeadRuns
    <3>3. Performed' = [Performed EXCEPT ![p] = [Performed[p] EXCEPT ![Current(p)] = result]]
      BY <1>0, <2>2 DEF Execute, dedup_finish, Performed, Dedup
    <3>4. Service!Perform(p, Current(p), result)
      BY <2>2, <3>2, <3>3 DEF Execute, Service!Perform, Performed
    <3> QED
      BY <3>1, <3>4 DEF Service!Next
  <2>3. ASSUME AfterAck(p).pc = "down", Forget(p, AfterAck(p)), UNCHANGED answer
        PROVE  Service!Next
    <3>1. Performed' = [Performed EXCEPT ![p] = [c \in Cmd |-> None]]
      BY <2>3, EndImplements DEF Forget
    <3> QED
      BY <2>3, <3>1 DEF Service!Next, Service!EndSession, Service!Nothing, Performed
  <2>4. ASSUME AfterAck(p).pc # "down", Forget(p, AfterAck(p))
        PROVE  UNCHANGED Performed
    BY <2>4, SameImplements DEF Forget
  <2>5. CASE AckAccepted(p)
    <3>0. pod[p].pc = "ack" /\ Forget(p, AfterAck(p)) /\ Current(p) \in Cmd
      BY <2>5, HeadIsCommand DEF AckAccepted
    <3>1. CASE answer[Current(p)] # None
      <4>1. UNCHANGED answer
        BY <2>5, <3>1 DEF AckAccepted
      <4> QED
        BY <2>3, <2>4, <3>0, <4>1
    <3>2. CASE answer[Current(p)] = None
      <4>1. /\ pod[p].result = Performed[p][Current(p)]
            /\ pod[p].result \in outcomes[Current(p)]
        BY <3>0 DEF LoopInv, AcksItsOwn, ResultsAreReal, Performed
      <4>2. Performed[p][Current(p)] # None
        BY <3>0, <4>1 DEF TypeOK, Outcome, None
      <4>3. answer' = [answer EXCEPT ![Current(p)] = Performed[p][Current(p)]]
        BY <2>5, <3>2, <4>1 DEF AckAccepted
      <4>4. AfterAck(p).pc = "down" <=> Service!Updated(p, Current(p))
        <5>1. should_restart_after_ack(p) <=> Service!Updated(p, Current(p))
          BY <4>1 DEF should_restart_after_ack, Service!Updated, Performed
        <5> QED
          BY <5>1 DEF AfterAck, AtRest
      <4>5. Performed' = IF Service!Updated(p, Current(p))
                         THEN [Performed EXCEPT ![p] = [c \in Cmd |-> None]]
                         ELSE Performed
        BY <2>4, <3>0, <4>4, EndImplements DEF Forget
      <4>6. PICK c \in Cmd : c = Current(p)
        BY <3>0
      <4>7. Service!Answer(p, c)
        BY <3>2, <4>2, <4>3, <4>5, <4>6, LeavingIsAcked
           DEF Service!Answer, Service!Nothing, Performed
      <4> QED
        BY <4>7 DEF Service!Next
    <3> QED
      BY <3>1, <3>2
  <2>6. CASE AckLost(p)
    <3>1. Forget(p, AfterAck(p)) /\ UNCHANGED answer
      BY <2>6 DEF AckLost
    <3> QED
      BY <2>3, <2>4, <3>1
  <2>7. CASE Crash(p)
    <3>1. dedup' = [dedup EXCEPT ![p] = EmptyDedup] /\ UNCHANGED answer
      BY <2>7 DEF Crash, Forget, AtRest
    <3>2. Performed' = [Performed EXCEPT ![p] = [c \in Cmd |-> None]]
      BY <3>1, EndImplements
    <3> QED
      BY <3>1, <3>2 DEF Service!Next, Service!EndSession, Service!Nothing, Performed
  <2>8. CASE BeginNew(p)
    <3>1. UNCHANGED Performed
      BY <1>0, <2>8 DEF BeginNew, Performed, Dedup
    <3> QED
      BY <2>8, <3>1 DEF BeginNew
  <2>9. CASE \/ \E b \in Batches : PollCommands(p, b)
             \/ PollFails(p) \/ PollAgain(p) \/ BeginKnown(p) \/ Restart(p)
    BY <2>9, SameImplements DEF PollCommands, PollFails, PollAgain, BeginKnown, Restart
  <2> QED
    BY <2>1, <2>2, <2>5, <2>6, <2>7, <2>8, <2>9
<1> QED
  BY <1>1, <1>2

\* However commands are delivered, repeated, lost and interrupted, the pods
\* are the service: a process performs a command once, answers with what it
\* performed itself and does nothing behind a self_update (execute,
\* should_restart_after_ack).
THEOREM LoopImplementsService == Spec => ImplementsService
<1>1. TypeOK /\ LoopInv /\ [Next]_vars
          => [Service!Next]_<<[p \in Pod |-> dedup[p].completed], answer>>
  BY StepImplements DEF Performed
<1>2. Spec => Service!Spec
  BY <1>1, InitImplements, LoopInvariant, PTL DEF Spec, Service!Spec
<1> QED
  BY <1>2 DEF ImplementsService
=============================================================================
