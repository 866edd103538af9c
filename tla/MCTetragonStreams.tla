------------------------- MODULE MCTetragonStreams -------------------------
(* Instances of TetragonStreams for TLC. *)
EXTENDS TetragonStreams

CONSTANTS a1, a2

OneAddress == {a1}
TwoAddresses == {a1, a2}
=============================================================================
