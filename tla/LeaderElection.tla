--------------------------- MODULE LeaderElection ---------------------------
(***************************************************************************)
(* Leader election among the agent pods (leader.rs): each pod calls        *)
(* try_acquire_or_renew on one Lease every lease_ttl / 3, keeps the answer *)
(* in an AtomicBool that the collector and the operator lifecycle read,    *)
(* and tries again after 2 seconds when the call fails.                    *)
(*                                                                         *)
(* The Lease and the crate kube-leader-election are external: a pod gets   *)
(* the Lease when it is absent, its own, or expired by the pod's clock.    *)
(* Time is discrete and a pod's timer fires on time; a call that hangs is  *)
(* a run of failing calls.  Node clocks differ from true time by at most   *)
(* MaxSkew.                                                                *)
(***************************************************************************)
EXTENDS Integers

CONSTANTS Pod,       \* the agent pods, named by their nodes
          LeaseTTL,  \* LEASE_TTL_SECS
          Retry,     \* the pause after a failed call
          MaxSkew,   \* how far a node's clock may be from true time
          MaxTime    \* bound: when the model's clock stops

\* Mutant of RenewInterval: the interval is multiplied where it is divided.
RenewTooLate == LeaseTTL * 3

RenewInterval == LeaseTTL \div 3

NoTime == -1
Nobody == "nobody"

\* Pods carry the names of nodes; a third of the ttl and the skew of two
\* clocks leave the Lease time to be renewed.
ASSUME LeaseAssumption ==
    /\ Nobody \notin Pod
    /\ LeaseTTL \in Nat /\ LeaseTTL >= 3
    /\ Retry \in Nat \ {0}
    /\ MaxSkew \in Nat
    /\ 2 * MaxSkew + LeaseTTL \div 3 <= LeaseTTL
    /\ MaxTime \in Nat

VARIABLES time,     \* true time
          lease,    \* the Lease: holder and renewTime
          pod,      \* pod -> its election loop
          lostAt    \* history: when the holder of the Lease died, or NoTime

vars == <<time, lease, pod, lostAt>>

\* wake is when the loop makes its next call, okAt when the last call that
\* acquired or renewed the Lease was answered, and failed says that a call
\* failed since the last answer.
Election == [up        : BOOLEAN,
             is_leader : BOOLEAN,
             wake      : Nat,
             okAt      : Nat \cup {NoTime},
             failed    : BOOLEAN]

TypeOK ==
    /\ time \in Nat
    /\ lease \in [holder : Pod \cup {Nobody}, renewed : Int]
    /\ pod \in [Pod -> Election]
    /\ lostAt \in Nat \cup {NoTime}

Starting(t) == [up |-> TRUE, is_leader |-> FALSE, wake |-> t,
                okAt |-> NoTime, failed |-> FALSE]

Init ==
    /\ time = 0
    /\ lease = [holder |-> Nobody, renewed |-> 0]
    /\ pod = [p \in Pod |-> Starting(0)]
    /\ lostAt = NoTime

-----------------------------------------------------------------------------
(* The election loop *)

Reading(t) == (t - MaxSkew) .. (t + MaxSkew)

Due(p) == pod[p].up /\ pod[p].wake = time

\* What the crate decides from the Lease and the clock of the pod.
Acquirable(p, now) ==
    \/ lease.holder \in {Nobody, p}
    \/ now > lease.renewed + LeaseTTL

\* Ok(Acquired): the Lease carries this pod's name and clock.
Acquire(p) ==
    /\ Due(p)
    /\ \E now \in Reading(time) :
           /\ Acquirable(p, now)
           /\ lease' = [holder |-> p, renewed |-> now]
    /\ pod' = [pod EXCEPT ![p] = [@ EXCEPT !.is_leader = TRUE,
                                           !.wake = time + RenewInterval,
                                           !.okAt = time,
                                           !.failed = FALSE]]
    /\ lostAt' = NoTime
    /\ UNCHANGED time

\* Mutant of NotAcquired: a follower sleeps for the whole ttl.
NotAcquiredSleepsTTL(p) ==
    /\ Due(p)
    /\ \E now \in Reading(time) : ~Acquirable(p, now)
    /\ pod' = [pod EXCEPT ![p] = [@ EXCEPT !.is_leader = FALSE,
                                           !.wake = time + LeaseTTL,
                                           !.failed = FALSE]]
    /\ UNCHANGED <<time, lease, lostAt>>

\* Ok(NotAcquired): somebody else holds the Lease.
NotAcquired(p) ==
    /\ Due(p)
    /\ \E now \in Reading(time) : ~Acquirable(p, now)
    /\ pod' = [pod EXCEPT ![p] = [@ EXCEPT !.is_leader = FALSE,
                                           !.wake = time + RenewInterval,
                                           !.failed = FALSE]]
    /\ UNCHANGED <<time, lease, lostAt>>

\* Err: is_leader keeps its value, whatever the age of the last answer.
CallFails(p) ==
    /\ Due(p)
    /\ pod' = [pod EXCEPT ![p] = [@ EXCEPT !.wake = time + Retry, !.failed = TRUE]]
    /\ UNCHANGED <<time, lease, lostAt>>

-----------------------------------------------------------------------------
(* Nodes and time *)

NodeDown(p) ==
    /\ pod[p].up
    /\ pod' = [pod EXCEPT ![p] = [Starting(time) EXCEPT !.up = FALSE]]
    /\ lostAt' = IF lease.holder = p THEN time ELSE lostAt
    /\ UNCHANGED <<time, lease>>

\* The pod comes back with is_leader false and calls at once.
NodeUp(p) ==
    /\ ~pod[p].up
    /\ pod' = [pod EXCEPT ![p] = Starting(time)]
    /\ UNCHANGED <<time, lease, lostAt>>

Tick ==
    /\ time < MaxTime
    /\ \A p \in Pod : ~Due(p)
    /\ time' = time + 1
    /\ UNCHANGED <<lease, pod, lostAt>>

ElectionStep(p) == Acquire(p) \/ NotAcquired(p) \/ CallFails(p)

Next ==
    \/ \E p \in Pod : ElectionStep(p) \/ NodeDown(p) \/ NodeUp(p)
    \/ Tick

Spec == Init /\ [][Next]_vars

-----------------------------------------------------------------------------
(* Properties *)

\* Renewing at a third of the ttl is early enough: of the pods whose calls
\* are answered at most one believes that it is the leader, and the Lease
\* agrees with it, with clocks off by up to MaxSkew (run_leader_loop).
OneHealthyLeader ==
    \A p \in Pod : pod[p].is_leader /\ ~pod[p].failed => lease.holder = p

\* A failover takes at most the ttl, one renewal interval and the skew of a
\* clock: once a pod whose calls are answered has made its first call, no
\* Lease is left unrenewed for longer.
TakeoverBound ==
    \A p \in Pod :
        pod[p].up /\ ~pod[p].failed /\ ~Due(p) =>
            time < lease.renewed + LeaseTTL + RenewInterval + MaxSkew

\* What makes the two inductive.  No call is overdue, and the next one comes
\* within the interval; a leader whose calls are answered called when the
\* Lease says; any pod whose calls are answered found a Lease that was not
\* yet expired when it last called, or took it.
CallsOnTime ==
    \A p \in Pod :
        /\ pod[p].up => time <= pod[p].wake
        /\ ~pod[p].failed => pod[p].wake <= time + RenewInterval
        /\ pod[p].is_leader => pod[p].up

LeaderRenewed ==
    \A p \in Pod :
        pod[p].is_leader /\ ~pod[p].failed =>
            /\ lease.holder = p
            /\ pod[p].wake <= lease.renewed + RenewInterval + MaxSkew

FoundRenewed ==
    \A p \in Pod :
        pod[p].up /\ ~pod[p].failed /\ ~Due(p) =>
            pod[p].wake <= lease.renewed + LeaseTTL + RenewInterval + MaxSkew

LeaseInv == CallsOnTime /\ LeaderRenewed /\ FoundRenewed

\* README.md:30: "if the leader's node goes down, another pod takes over
\* within LEASE_TTL_SECS" -- while every other pod runs and is answered.
TakeoverWithinTTL ==
    /\ lostAt # NoTime
    /\ \A p \in Pod \ {lease.holder} : pod[p].up /\ ~pod[p].failed /\ ~Due(p)
    => time <= lostAt + LeaseTTL

\* leader.rs:94: "the existing lease (if held) is still valid until ttl
\* expires server-side", and README.md:36 "two pods could briefly both
\* believe they hold the lease": a pod stops believing when its lease has
\* run out.
BelievesBriefly ==
    \A p \in Pod : pod[p].is_leader => time <= pod[p].okAt + LeaseTTL
=============================================================================
