----------------------------- MODULE MCDrainNode -----------------------------
(* Instances of DrainNode for TLC: a pod of a StatefulSet, a bare pod and a *)
(* pod of a DaemonSet.                                                      *)
EXTENDS DrainNode

CONSTANTS web, bare, logs

MCName == {web, bare, logs}
MCManaged == {web}
MCUnmanaged == {bare}
=============================================================================
