--------------------------- MODULE CommandService ---------------------------
(***************************************************************************)
(* What the agents promise the Hub about commands, with batches, polls,    *)
(* acknowledgements and the table of running commands left out.  An agent  *)
(* works in sessions, the lives of its process.  A session performs a      *)
(* command at most once and answers with what it performed itself.  The    *)
(* update of its own image is the last thing that a session does: nothing  *)
(* else is performed or answered behind it.  CommandLoop implements this.  *)
(***************************************************************************)
CONSTANTS Agent,       \* the agents, each with one session at a time
          Cmd,         \* command ids
          SelfUpdate,  \* the ids that update the agent itself
          Outcome,     \* how an execution can end
          Success,     \* the outcome of an update that took place
          None         \* no outcome and no answer yet

VARIABLES performed,   \* agent -> command -> its outcome in this session
          answer       \* command -> the answer the Hub has

Nothing == [c \in Cmd |-> None]

Init ==
    /\ performed = [a \in Agent |-> Nothing]
    /\ answer = Nothing

Updated(a, c) == c \in SelfUpdate /\ performed[a][c] = Success
Leaving(a) == \E u \in SelfUpdate : Updated(a, u)

Perform(a, c, result) ==
    /\ performed[a][c] = None
    /\ ~Leaving(a)
    /\ performed' = [performed EXCEPT ![a][c] = result]
    /\ UNCHANGED answer

\* The Hub takes the first answer; that of an update ends the session.
Answer(a, c) ==
    /\ performed[a][c] # None
    /\ ~Leaving(a) \/ Updated(a, c)
    /\ answer[c] = None
    /\ answer' = [answer EXCEPT ![c] = performed[a][c]]
    /\ performed' = IF Updated(a, c)
                    THEN [performed EXCEPT ![a] = Nothing]
                    ELSE performed

\* The process ends, on its own or behind an update.
EndSession(a) ==
    /\ performed' = [performed EXCEPT ![a] = Nothing]
    /\ UNCHANGED answer

Next ==
    \E a \in Agent :
        \/ \E c \in Cmd, result \in Outcome : Perform(a, c, result)
        \/ \E c \in Cmd : Answer(a, c)
        \/ EndSession(a)

Spec == Init /\ [][Next]_<<performed, answer>>
=============================================================================
