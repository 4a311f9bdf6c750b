------------------------- MODULE MCHandoverMonitor -------------------------
(* HandoverMonitor with the constants its configurations give. *)
EXTENDS HandoverMonitor
=============================================================================
