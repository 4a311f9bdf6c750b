--------------------------- MODULE MCVoipService ---------------------------
(* VoipService with the constants its configurations give. *)
EXTENDS VoipService
=============================================================================
