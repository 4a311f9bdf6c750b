-------------------------- MODULE MCNativePlayback --------------------------
(* NativePlayback with the constants its configurations give. *)
EXTENDS NativePlayback
=============================================================================
