------------------------- MODULE MCPttTransmission -------------------------
(* PttTransmission with the constants its configurations give. *)
EXTENDS PttTransmission
=============================================================================
