--------------------------- MODULE MCHardwarePtt ---------------------------
(* HardwarePtt with the constants its configuration gives. *)
EXTENDS HardwarePtt
=============================================================================
