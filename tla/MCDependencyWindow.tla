-------------------------- MODULE MCDependencyWindow --------------------------
(* DependencyWindow for TLC: one source with two targets and the way back,   *)
(* a send whose bytes nearly fill a counter, and an event that is no line.   *)
EXTENDS DependencyWindow

CONSTANTS a, b, c

MCIp == {a, b, c}

Ev(fn, src, dst, bytes) ==
    [function |-> fn, sock |-> TRUE, src |-> src, dst |-> dst, dport |-> 80, bytes |-> bytes]

MCEvent ==
    {Ev("tcp_sendmsg", a, b, 2), Ev("tcp_close", a, c, 0), Ev("tcp_close", b, a, 0),
     Ev("other", a, b, 1)}

\* The lists, and a failed list of pods.
MCListing == {[pods |-> {a}, services |-> {b}], [pods |-> {}, services |-> {b}]}
===============================================================================
