------------------------ MODULE MCCapabilityProbes ------------------------
EXTENDS CapabilityProbes

MCKey == Capability \cup {"command_poll"}
\* The key of an error holds its text, so that such a key reports one state.
MCFault == [k \in MCKey |-> IF k \in Capability
                           THEN {"forbidden", "missing", "unavailable", "error"}
                           ELSE {"failed"}]
\* One tick is METRICS_WARN_SUPPRESSION_WINDOW; other windows are left to the
\* theorems of CapabilityProbesProofs.
MCWindow == [k \in MCKey |-> 1]
=============================================================================
