--------------------------- MODULE MCNativeCapture ---------------------------
(* NativeCapture with the constants its configurations give. *)
EXTENDS NativeCapture
=============================================================================
