------------------------ MODULE MCReflectorSession ------------------------
(* TLC instance of ReflectorSession. *)
EXTENDS ReflectorSession
=============================================================================
