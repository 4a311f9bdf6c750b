--------------------------- MODULE NativePlayback ---------------------------
(* The loudspeaker's path on Android: the engine thread that starts, stops,   *)
(* pauses and resumes AndroidAudioTrackOutput, the native thread that takes   *)
(* frames from the jitter buffer and writes them, and LatryAudioTrackPlayer,  *)
(* whose lock a blocking write keeps.  A method of the output is the sequence *)
(* of its steps between which the playback thread runs; samples are counted   *)
(* in frames.                                                                 *)
EXTENDS Integers, Sequences

CONSTANTS
  Room,       \* frames the AudioTrack's buffer holds
  MaxCalls    \* bound: methods the engine calls

ASSUME PlaybackAssumption ==
  Room \in Nat \ {0} /\ MaxCalls \in Nat

VARIABLES
  running,       \* m_running
  paused,        \* m_paused
  stopRequested, \* m_stopRequested
  useFloat,      \* m_useFloatPlayback
  playback,      \* where the playback thread is
  stepsLeft,     \* the steps left of the method the engine is in
  track,         \* the AudioTrack: "none", "playing", "paused"
  encoding,      \* currentEncoding
  filled,        \* frames in the track's buffer
  lock,          \* who holds the player's lock for longer than a step
  late,          \* frames written since the last pause, of which only properties speak
  calls

flags == <<running, paused, stopRequested, useFloat>>
player == <<track, encoding, filled, lock>>
outputVars == <<flags, playback, stepsLeft, player, late, calls>>

OutputInit ==
  /\ running = FALSE /\ paused = FALSE /\ stopRequested = FALSE /\ useFloat = FALSE
  /\ playback = "none" /\ stepsLeft = <<>>
  /\ track = "none" /\ encoding = "pcm16" /\ filled = 0 /\ lock = "free"
  /\ late = 0 /\ calls = 0

-----------------------------------------------------------------------------
(* The engine. *)

Step(name) == stepsLeft # <<>> /\ Head(stepsLeft) = name /\ stepsLeft' = Tail(stepsLeft)

StopSteps == <<"halt", "notify", "join", "close">>
StartSteps == <<"halt", "notify", "join", "close", "open">>

Begins(steps) ==
  /\ stepsLeft = <<>> /\ calls < MaxCalls /\ calls' = calls + 1
  /\ stepsLeft' = steps

Start == Begins(StartSteps) /\ UNCHANGED <<flags, playback, player, late>>
Stop == Begins(StopSteps) /\ UNCHANGED <<flags, playback, player, late>>

Pause ==
  /\ IF running /\ ~paused
     THEN Begins(<<"quiet">>) /\ paused' = TRUE /\ late' = 0
     ELSE Begins(<<>>) /\ UNCHANGED <<paused, late>>
  /\ UNCHANGED <<running, stopRequested, useFloat, playback, player>>

ResumeUnannounced ==  \* mutant
  /\ IF running THEN Begins(<<"play">>) /\ paused' = FALSE
     ELSE Begins(<<>>) /\ UNCHANGED paused
  /\ UNCHANGED <<running, stopRequested, useFloat, playback, player, late>>

Resume ==
  /\ IF running THEN Begins(<<"play", "notify">>) /\ paused' = FALSE
     ELSE Begins(<<>>) /\ UNCHANGED paused
  /\ UNCHANGED <<running, stopRequested, useFloat, playback, player, late>>

ApplyCurrentRoute == Begins(<<"route">>) /\ UNCHANGED <<flags, playback, player, late>>

HaltOutput ==
  /\ Step("halt") /\ stopRequested' = TRUE /\ paused' = FALSE
  /\ UNCHANGED <<running, useFloat, playback, player, late, calls>>

\* Who waits for the condition looks again; who does not has seen the flags.
Notify ==
  /\ Step("notify")
  /\ playback' = IF playback = "waiting" THEN "checking" ELSE playback
  /\ UNCHANGED <<flags, player, late, calls>>

JoinPlayback ==
  /\ Step("join") /\ playback \in {"none", "ended"} /\ playback' = "none"
  /\ UNCHANGED <<flags, player, late, calls>>

\* stopPlaybackLocked, and what is left of stop().
Close ==
  /\ Step("close") /\ lock = "free"
  /\ track' = "none" /\ encoding' = "pcm16" /\ filled' = 0
  /\ running' = FALSE /\ paused' = FALSE /\ stopRequested' = FALSE
  /\ UNCHANGED <<useFloat, playback, lock, late, calls>>

\* startPlayback tries both encodings; without a track that plays there is no thread.
OpenOutput ==
  /\ Step("open") /\ lock = "free"
  /\ \/ UNCHANGED <<flags, playback, player>>
     \/ /\ encoding' \in {"float", "pcm16"} /\ track' = "playing" /\ filled' = 0
        /\ useFloat' = (encoding' = "float")
        /\ running' = TRUE /\ paused' = FALSE /\ stopRequested' = FALSE
        /\ playback' = "attaching" /\ UNCHANGED lock
  /\ UNCHANGED <<late, calls>>

PausePlayback ==
  /\ Step("quiet") /\ lock = "free"
  /\ track' = IF track = "playing" THEN "paused" ELSE track
  /\ UNCHANGED <<flags, playback, encoding, filled, lock, late, calls>>

ResumePlayback ==
  /\ Step("play") /\ lock = "free"
  /\ track' = IF track = "paused" THEN "playing" ELSE track
  /\ UNCHANGED <<flags, playback, encoding, filled, lock, late, calls>>

SetPlaybackRoute ==
  /\ Step("route") /\ lock = "free"
  /\ UNCHANGED <<flags, playback, player, late, calls>>

-----------------------------------------------------------------------------
(* The playback thread. *)

engine == <<stepsLeft, calls>>

\* A thread may fail to attach to the JVM.
AttachPlayback ==
  /\ playback = "attaching"
  /\ \/ playback' = "checking" /\ UNCHANGED running
     \/ playback' = "ended" /\ running' = FALSE
  /\ UNCHANGED <<engine, paused, stopRequested, useFloat, player, late>>

CheckStateOnceStopped ==  \* mutant
  /\ playback = "checking"
  /\ playback' = IF stopRequested THEN "ended" ELSE "reading"
  /\ UNCHANGED <<engine, flags, player, late>>

\* The wait for m_stopRequested or not m_paused, under m_stateMutex.
CheckState ==
  /\ playback = "checking"
  /\ playback' = CASE stopRequested -> "ended" [] ~stopRequested /\ paused -> "waiting"
                 [] OTHER -> "reading"
  /\ UNCHANGED <<engine, flags, player, late>>

\* The jitter buffer may have nothing, and an array may not be had.
ReadSamples ==
  /\ playback = "reading" /\ playback' \in {"holding", "sleeping"}
  /\ UNCHANGED <<engine, flags, player, late>>

\* The write enters the player; of a float track it takes only floats, and the
\* other way round.
BeginWrite ==
  /\ playback = "holding" /\ lock = "free"
  /\ IF track # "none" /\ useFloat = (encoding = "float")
     THEN playback' = "writing" /\ lock' = "thread"
     ELSE playback' = "sleeping" /\ UNCHANGED lock
  /\ UNCHANGED <<engine, flags, track, encoding, filled, late>>

\* It blocks while a playing track is full, and comes back short from a paused one.
EndWrite ==
  /\ playback = "writing" /\ (filled < Room \/ track = "paused")
  /\ playback' = "sleeping" /\ lock' = "free"
  /\ filled' = IF filled < Room THEN filled + 1 ELSE filled
  /\ late' = IF paused /\ filled < Room THEN late + 1 ELSE late
  /\ UNCHANGED <<engine, flags, track, encoding>>

WakeUp ==
  /\ playback = "sleeping" /\ playback' = "checking"
  /\ UNCHANGED <<engine, flags, player, late>>

TrackPlays ==
  /\ track = "playing" /\ filled > 0 /\ filled' = filled - 1
  /\ UNCHANGED <<engine, flags, playback, track, encoding, lock, late>>

-----------------------------------------------------------------------------
Methods == Start \/ Stop \/ Pause \/ Resume \/ ApplyCurrentRoute
Steps == HaltOutput \/ Notify \/ JoinPlayback \/ Close \/ OpenOutput \/ PausePlayback
           \/ ResumePlayback \/ SetPlaybackRoute
PlaybackLoop == AttachPlayback \/ CheckState \/ ReadSamples \/ BeginWrite \/ EndWrite \/ WakeUp

OutputNext == Methods \/ Steps \/ PlaybackLoop \/ TrackPlays

OutputSpec == OutputInit /\ [][OutputNext]_outputVars

\* The thread sleeps between two writes, so that the lock is free again and again:
\* who wants it gets it.
FairOutputSpec ==
  OutputSpec /\ SF_outputVars(Steps) /\ WF_outputVars(PlaybackLoop) /\ WF_outputVars(TrackPlays)

-----------------------------------------------------------------------------
(* Properties. *)

OutputTypes ==
  /\ {running, paused, stopRequested, useFloat} \subseteq BOOLEAN
  /\ playback \in {"none", "attaching", "checking", "waiting", "reading", "holding",
                 "writing", "sleeping", "ended"}
  /\ track \in {"none", "playing", "paused"} /\ encoding \in {"float", "pcm16"}
  /\ filled \in 0..Room /\ lock \in {"free", "thread"}
  /\ late \in Nat /\ calls \in 0..MaxCalls

\* Once pause() is over the track does not play, and the thread adds at most the one
\* frame it had in hand, however the pause met the thread (and the variables keep
\* their types).
PausedIsQuiet ==
  /\ OutputTypes
  /\ stepsLeft = <<>> /\ paused => track # "playing"
  /\ late <= 1

\* An output that runs and is not paused goes on taking frames: no resume is lost on
\* a thread that was about to wait.
KeepsPlaying == running /\ ~paused ~> playback = "reading" \/ ~running \/ paused
=============================================================================
