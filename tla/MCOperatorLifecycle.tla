------------------------- MODULE MCOperatorLifecycle -------------------------
(* Instances of OperatorLifecycle for TLC: one namespace, which a           *)
(* configuration may exclude.                                               *)
EXTENDS OperatorLifecycle

CONSTANT app

MCNamespace == {app}
On == [enabled |-> TRUE, excluded |-> {}]
Off == [enabled |-> FALSE, excluded |-> {}]
OnExcluding == [enabled |-> TRUE, excluded |-> {app}]

MCConfigs == {On, Off, OnExcluding}
MCOnOff == {On, Off}
=============================================================================
