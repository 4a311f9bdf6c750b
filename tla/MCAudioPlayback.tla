--------------------------- MODULE MCAudioPlayback ---------------------------
(* AudioPlayback with the constants its configurations give. *)
EXTENDS AudioPlayback
=============================================================================
