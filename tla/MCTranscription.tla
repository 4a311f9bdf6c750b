-------------------------- MODULE MCTranscription --------------------------
(* Instances of Transcription for TLC. *)
EXTENDS Transcription
=============================================================================
