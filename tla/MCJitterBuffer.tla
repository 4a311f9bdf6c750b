--------------------------- MODULE MCJitterBuffer ---------------------------
(* JitterBuffer with the constants its configurations give. *)
EXTENDS JitterBuffer
=============================================================================
