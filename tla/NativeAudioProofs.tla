------------------------- MODULE NativeAudioProofs -------------------------
(* Theorems about NativePlayback and NativeCapture, the two native threads of *)
(* Android's audio, for any sizes of frames, blocks and of the track's buffer *)
(* and any bounds.                                                            *)
EXTENDS NativePlayback, NativeCapture, TLAPS

-----------------------------------------------------------------------------
(* The playback output. *)

\* What may be left of a method; a pause is in force only before the first step of
\* a method, or when pause() has its one step left.
AtRest == {<<>>, <<"route">>, <<"halt", "notify", "join", "close">>,
           <<"halt", "notify", "join", "close", "open">>}
UnderWay ==
  {<<"notify", "join", "close">>, <<"join", "close">>, <<"close">>,
   <<"notify", "join", "close", "open">>, <<"join", "close", "open">>,
   <<"close", "open">>, <<"open">>, <<"play", "notify">>, <<"notify">>}
Quieting == {<<"quiet">>}

Places == {"none", "attaching", "checking", "waiting", "reading", "holding", "writing",
           "sleeping", "ended"}
Handling == {"reading", "holding", "writing"}

FlagsOK ==
  /\ running \in BOOLEAN /\ paused \in BOOLEAN
  /\ stopRequested \in BOOLEAN /\ useFloat \in BOOLEAN

PlayerOK ==
  /\ track \in {"none", "playing", "paused"} /\ encoding \in {"float", "pcm16"}
  /\ filled \in 0..Room /\ lock \in {"free", "thread"}

StepsOK == calls \in 0..MaxCalls /\ stepsLeft \in AtRest \cup UnderWay \cup Quieting

\* A method that is past its first step has ended the pause, and a pause under
\* which no method runs has reached the track.
PauseFits ==
  paused => stepsLeft \in Quieting \/ (stepsLeft \in AtRest /\ track # "playing")

\* Once a frame was written under a pause, the thread takes no further one.
OneFrame ==
  /\ playback \in Places /\ late \in {0, 1}
  /\ paused /\ late = 1 => playback \notin Handling

OutputAgrees == FlagsOK /\ PlayerOK /\ StepsOK /\ PauseFits /\ OneFrame

LEMMA AgreesIsQuiet == OutputAgrees => PausedIsQuiet
<1> SUFFICES ASSUME OutputAgrees PROVE PausedIsQuiet
  OBVIOUS
<1>1. OutputTypes
  <2>1. {running, paused, stopRequested, useFloat} \subseteq BOOLEAN
    BY DEF OutputAgrees, FlagsOK
  <2>2. late \in Nat /\ playback \in Places
    BY DEF OutputAgrees, OneFrame
  <2> QED BY <2>1, <2>2 DEF OutputAgrees, PlayerOK, StepsOK, Places, OutputTypes
<1>2. stepsLeft = <<>> /\ paused => track # "playing"
  BY <<>> # <<"quiet">> DEF OutputAgrees, PauseFits, Quieting
<1>3. late <= 1
  BY DEF OutputAgrees, OneFrame
<1> QED BY <1>1, <1>2, <1>3 DEF PausedIsQuiet

\* The tails of the methods' steps.
LEMMA OutputTails ==
  /\ \A name : Tail(<<name>>) = <<>>
  /\ Tail(<<"halt", "notify", "join", "close">>) = <<"notify", "join", "close">>
  /\ Tail(<<"halt", "notify", "join", "close", "open">>) = <<"notify", "join", "close", "open">>
  /\ Tail(<<"notify", "join", "close">>) = <<"join", "close">>
  /\ Tail(<<"join", "close">>) = <<"close">>
  /\ Tail(<<"notify", "join", "close", "open">>) = <<"join", "close", "open">>
  /\ Tail(<<"join", "close", "open">>) = <<"close", "open">>
  /\ Tail(<<"close", "open">>) = <<"open">>
  /\ Tail(<<"play", "notify">>) = <<"notify">>
<1>1. \A name : Tail(<<name>>) = <<>>
  OBVIOUS
<1>2. Tail(<<"halt", "notify", "join", "close">>) = <<"notify", "join", "close">>
  OBVIOUS
<1>3. Tail(<<"halt", "notify", "join", "close", "open">>) = <<"notify", "join", "close", "open">>
  OBVIOUS
<1>4. Tail(<<"notify", "join", "close">>) = <<"join", "close">>
  OBVIOUS
<1>5. Tail(<<"join", "close">>) = <<"close">>
  OBVIOUS
<1>6. Tail(<<"notify", "join", "close", "open">>) = <<"join", "close", "open">>
  OBVIOUS
<1>7. Tail(<<"join", "close", "open">>) = <<"close", "open">>
  OBVIOUS
<1>8. Tail(<<"close", "open">>) = <<"open">>
  OBVIOUS
<1>9. Tail(<<"play", "notify">>) = <<"notify">>
  OBVIOUS
<1> QED BY <1>1, <1>2, <1>3, <1>4, <1>5, <1>6, <1>7, <1>8, <1>9

\* What is left of a method after its next step.
LEMMA StepsShrink ==
  ASSUME stepsLeft \in AtRest \cup UnderWay \cup Quieting, NEW name, Step(name)
  PROVE  /\ stepsLeft \in AtRest => name \in {"halt", "route"}
         /\ stepsLeft \in Quieting => name = "quiet"
         /\ stepsLeft \in UnderWay => name \in {"notify", "join", "close", "open", "play"}
         /\ stepsLeft' \in UnderWay \cup {<<>>}
         /\ name \in {"quiet", "route"} => stepsLeft' = <<>>
<1>0. stepsLeft # <<>> /\ name = Head(stepsLeft) /\ stepsLeft' = Tail(stepsLeft)
  BY DEF Step
<1>1. stepsLeft \in AtRest => Head(stepsLeft) \in {"halt", "route"}
  BY <1>0 DEF AtRest
<1>2. stepsLeft \in Quieting => Head(stepsLeft) = "quiet"
  BY DEF Quieting
<1>3. stepsLeft \in UnderWay => Head(stepsLeft) \in {"notify", "join", "close", "open", "play"}
  BY DEF UnderWay
<1>4. stepsLeft \in AtRest => Tail(stepsLeft) \in UnderWay \cup {<<>>}
  BY <1>0, OutputTails DEF AtRest, UnderWay
<1>5. stepsLeft \in UnderWay => Tail(stepsLeft) \in UnderWay \cup {<<>>}
  BY <1>0, OutputTails DEF UnderWay
<1>6. stepsLeft \in Quieting => Tail(stepsLeft) = <<>>
  BY OutputTails DEF Quieting
<1>7. stepsLeft \in AtRest /\ Head(stepsLeft) = "route" => Tail(stepsLeft) = <<>>
  <2>1. Head(<<"halt", "notify", "join", "close">>) = "halt"
    OBVIOUS
  <2>2. Head(<<"halt", "notify", "join", "close", "open">>) = "halt"
    OBVIOUS
  <2> QED BY <1>0, <2>1, <2>2, OutputTails DEF AtRest
<1> QED BY <1>0, <1>1, <1>2, <1>3, <1>4, <1>5, <1>6, <1>7
-----------------------------------------------------------------------------
(* The invariant. *)

LEMMA OutputAtFirst == OutputInit => OutputAgrees
<1> SUFFICES ASSUME OutputInit PROVE OutputAgrees
  OBVIOUS
<1>1. FlagsOK /\ PauseFits
  BY DEF OutputInit, FlagsOK, PauseFits
<1>2. PlayerOK
  BY PlaybackAssumption DEF OutputInit, PlayerOK
<1>3. StepsOK
  BY PlaybackAssumption DEF OutputInit, StepsOK, AtRest
<1>4. OneFrame
  BY DEF OutputInit, OneFrame, Places
<1> QED BY <1>1, <1>2, <1>3, <1>4 DEF OutputAgrees

\* A method begins where none runs.
LEMMA MethodsKeep ==
  ASSUME OutputAgrees, Methods
  PROVE  OutputAgrees'
<1>0. FlagsOK /\ PlayerOK /\ StepsOK /\ PauseFits /\ OneFrame
  BY DEF OutputAgrees
<1>1. UNCHANGED <<running, stopRequested, useFloat, playback, player>>
  BY DEF Methods, Start, Stop, Pause, Resume, ApplyCurrentRoute, flags
<1>2. calls' \in 0..MaxCalls /\ stepsLeft = <<>>
  <2>1. stepsLeft = <<>> /\ calls < MaxCalls /\ calls' = calls + 1
    BY DEF Methods, Start, Stop, Pause, Resume, ApplyCurrentRoute, Begins
  <2> QED BY <1>0, <2>1, PlaybackAssumption DEF StepsOK
<1>3. paused => track # "playing"
  BY <1>0, <1>2, <<>> # <<"quiet">> DEF PauseFits, Quieting
<1>4. PlayerOK'
  BY <1>0, <1>1 DEF PlayerOK, player
<1>5. track' = track
  BY <1>1 DEF player
<1>6. ASSUME stepsLeft' \in AtRest, UNCHANGED <<paused, late>>
      PROVE  OutputAgrees'
  <2>1. FlagsOK' /\ OneFrame'
    BY <1>0, <1>1, <1>6 DEF FlagsOK, OneFrame
  <2>2. StepsOK' /\ PauseFits'
    BY <1>2, <1>3, <1>5, <1>6 DEF StepsOK, PauseFits
  <2> QED BY <1>4, <2>1, <2>2 DEF OutputAgrees
<1>7. CASE Start \/ Stop \/ ApplyCurrentRoute
  <2>1. stepsLeft' \in AtRest
    BY <1>7 DEF Start, Stop, ApplyCurrentRoute, Begins, AtRest, StartSteps, StopSteps
  <2>2. UNCHANGED <<paused, late>>
    BY <1>7 DEF Start, Stop, ApplyCurrentRoute, flags
  <2> QED BY <1>6, <2>1, <2>2
<1>8. CASE Pause
  <2>1. CASE running /\ ~paused
    <3>1. stepsLeft' = <<"quiet">> /\ paused' = TRUE /\ late' = 0
      BY <1>8, <2>1 DEF Pause, Begins
    <3>2. FlagsOK'
      BY <1>0, <1>1, <3>1 DEF FlagsOK
    <3>3. OneFrame'
      BY <1>0, <1>1, <3>1 DEF OneFrame
    <3>4. StepsOK' /\ PauseFits'
      BY <1>2, <3>1 DEF StepsOK, PauseFits, Quieting
    <3> QED BY <1>4, <3>2, <3>3, <3>4 DEF OutputAgrees
  <2>2. CASE ~(running /\ ~paused)
    <3>1. stepsLeft' \in AtRest /\ UNCHANGED <<paused, late>>
      BY <1>8, <2>2 DEF Pause, Begins, AtRest
    <3> QED BY <1>6, <3>1
  <2> QED BY <2>1, <2>2
<1>9. CASE Resume
  <2>1. CASE running
    <3>1. stepsLeft' = <<"play", "notify">> /\ paused' = FALSE /\ late' = late
      BY <1>9, <2>1 DEF Resume, Begins
    <3>2. FlagsOK'
      BY <1>0, <1>1, <3>1 DEF FlagsOK
    <3>3. OneFrame'
      BY <1>0, <1>1, <3>1 DEF OneFrame
    <3>4. StepsOK' /\ PauseFits'
      BY <1>2, <3>1 DEF StepsOK, PauseFits, UnderWay
    <3> QED BY <1>4, <3>2, <3>3, <3>4 DEF OutputAgrees
  <2>2. CASE ~running
    <3>1. stepsLeft' \in AtRest /\ UNCHANGED <<paused, late>>
      BY <1>9, <2>2 DEF Resume, Begins, AtRest
    <3> QED BY <1>6, <3>1
  <2> QED BY <2>1, <2>2
<1> QED BY <1>7, <1>8, <1>9 DEF Methods

\* A step of a method ends a pause, completes one, or finds none.
LEMMA StepsKeep ==
  ASSUME OutputAgrees, Steps
  PROVE  OutputAgrees'
<1>0. /\ FlagsOK /\ PlayerOK /\ PauseFits /\ OneFrame /\ calls \in 0..MaxCalls
      /\ stepsLeft \in AtRest \cup UnderWay \cup Quieting
  BY DEF OutputAgrees, StepsOK
<1>1. late' = late /\ calls' = calls
  BY DEF Steps, HaltOutput, Notify, JoinPlayback, Close, OpenOutput, PausePlayback,
         ResumePlayback, SetPlaybackRoute
<1>2. StepsOK'
  <2>1. stepsLeft' \in UnderWay \cup {<<>>}
    BY <1>0, StepsShrink
    DEF Steps, HaltOutput, Notify, JoinPlayback, Close, OpenOutput, PausePlayback,
         ResumePlayback, SetPlaybackRoute
  <2> QED BY <1>0, <1>1, <2>1 DEF StepsOK, AtRest
<1>3. ASSUME NEW name \in {"notify", "join", "close", "open", "play"}, Step(name)
      PROVE  paused = FALSE
  <2>1. stepsLeft \notin AtRest /\ stepsLeft \notin Quieting
    BY <1>0, <1>3, StepsShrink
  <2> QED BY <1>0, <2>1 DEF PauseFits, FlagsOK
<1>4. FlagsOK' /\ PlayerOK'
  <2>1. FlagsOK'
    BY <1>0
    DEF FlagsOK, Steps, HaltOutput, Notify, JoinPlayback, Close, OpenOutput, PausePlayback,
         ResumePlayback, SetPlaybackRoute, flags
  <2>2. PlayerOK'
    BY <1>0, PlaybackAssumption
    DEF PlayerOK, Steps, HaltOutput, Notify, JoinPlayback, Close, OpenOutput, PausePlayback,
         ResumePlayback, SetPlaybackRoute, player
  <2> QED BY <2>1, <2>2
<1>5. PauseFits' /\ (paused' => paused /\ playback' = playback)
  <2>1. CASE HaltOutput \/ Close
    BY <2>1 DEF HaltOutput, Close, PauseFits
  <2>2. CASE Notify \/ JoinPlayback \/ ResumePlayback
    <3>1. paused = FALSE
      BY <1>3, <2>2 DEF Notify, JoinPlayback, ResumePlayback
    <3>2. paused' = paused
      BY <2>2 DEF Notify, JoinPlayback, ResumePlayback, flags
    <3> QED BY <3>1, <3>2 DEF PauseFits
  <2>3. CASE OpenOutput
    <3>1. paused = FALSE
      BY <1>3, <2>3 DEF OpenOutput
    <3>2. paused' = paused \/ paused' = FALSE
      BY <2>3 DEF OpenOutput, flags
    <3> QED BY <3>1, <3>2 DEF PauseFits
  <2>4. CASE PausePlayback
    <3>1. stepsLeft' = <<>> /\ track' # "playing" /\ UNCHANGED <<paused, playback>>
      BY <1>0, <2>4, StepsShrink DEF PausePlayback, flags
    <3> QED BY <3>1 DEF PauseFits, AtRest
  <2>5. CASE SetPlaybackRoute
    <3>1. stepsLeft' = <<>> /\ stepsLeft \notin Quieting /\ UNCHANGED <<paused, playback, track>>
      BY <1>0, <2>5, StepsShrink DEF SetPlaybackRoute, flags, player
    <3> QED BY <1>0, <3>1 DEF PauseFits, AtRest
  <2> QED BY <2>1, <2>2, <2>3, <2>4, <2>5 DEF Steps
<1>6. playback' \in Places
  BY <1>0
  DEF OneFrame, Places, Steps, HaltOutput, Notify, JoinPlayback, Close, OpenOutput, PausePlayback,
      ResumePlayback, SetPlaybackRoute
<1>7. OneFrame'
  BY <1>0, <1>1, <1>5, <1>6 DEF OneFrame
<1> QED BY <1>2, <1>4, <1>5, <1>7 DEF OutputAgrees

\* The thread looks at the flags between two frames.
LEMMA LoopKeeps ==
  ASSUME OutputAgrees, PlaybackLoop \/ TrackPlays
  PROVE  OutputAgrees'
<1>0. FlagsOK /\ PlayerOK /\ StepsOK /\ PauseFits /\ OneFrame
  BY DEF OutputAgrees
<1>1. UNCHANGED <<stepsLeft, calls, paused, stopRequested, useFloat, track, encoding>>
  BY DEF PlaybackLoop, AttachPlayback, CheckState, ReadSamples, BeginWrite, EndWrite, WakeUp,
         TrackPlays, engine, flags, player
<1>2. StepsOK' /\ PauseFits'
  BY <1>0, <1>1 DEF StepsOK, PauseFits
<1>3. FlagsOK'
  <2>1. running' = running \/ running' = FALSE
    BY DEF PlaybackLoop, AttachPlayback, CheckState, ReadSamples, BeginWrite, EndWrite, WakeUp,
           TrackPlays, flags
  <2> QED BY <1>0, <1>1, <2>1 DEF FlagsOK
<1>4. PlayerOK'
  <2>1. filled' \in 0..Room
    BY <1>0, PlaybackAssumption
    DEF PlayerOK, PlaybackLoop, AttachPlayback, CheckState, ReadSamples, BeginWrite, EndWrite,
        WakeUp, TrackPlays, player
  <2>2. lock' \in {"free", "thread"}
    BY <1>0
    DEF PlayerOK, PlaybackLoop, AttachPlayback, CheckState, ReadSamples, BeginWrite, EndWrite,
        WakeUp, TrackPlays, player
  <2> QED BY <1>0, <1>1, <2>1, <2>2 DEF PlayerOK
<1>5. OneFrame'
  <2>1. CASE EndWrite
    <3>1. /\ playback = "writing" /\ playback' = "sleeping"
          /\ (late' = late \/ (paused /\ late' = late + 1))
      BY <2>1 DEF EndWrite
    <3>2. late' \in {0, 1}
      <4>1. paused => late = 0
        BY <1>0, <3>1 DEF OneFrame, Handling
      <4> QED BY <1>0, <3>1, <4>1 DEF OneFrame
    <3> QED BY <3>1, <3>2 DEF OneFrame, Places, Handling
  <2>2. CASE CheckState
    <3>1. late' = late /\ playback' \in Places /\ (paused => playback' \notin Handling)
      BY <2>2 DEF CheckState, Places, Handling
    <3> QED BY <1>0, <1>1, <3>1 DEF OneFrame
  <2>3. CASE AttachPlayback \/ WakeUp \/ TrackPlays
    <3>1. late' = late /\ playback' \in Places /\ (playback' \in Handling => playback \in Handling)
      BY <1>0, <2>3 DEF OneFrame, AttachPlayback, WakeUp, TrackPlays, Places, Handling
    <3> QED BY <1>0, <1>1, <3>1 DEF OneFrame
  <2>4. CASE ReadSamples \/ BeginWrite
    <3>1. late' = late /\ playback' \in Places /\ playback \in Handling
      BY <2>4 DEF ReadSamples, BeginWrite, Places, Handling
    <3> QED BY <1>0, <1>1, <3>1 DEF OneFrame
  <2> QED BY <2>1, <2>2, <2>3, <2>4 DEF PlaybackLoop
<1> QED BY <1>2, <1>3, <1>4, <1>5 DEF OutputAgrees

LEMMA OutputKeeps == OutputAgrees /\ [OutputNext]_outputVars => OutputAgrees'
<1> SUFFICES ASSUME OutputAgrees, [OutputNext]_outputVars PROVE OutputAgrees'
  OBVIOUS
<1>1. CASE OutputNext
  BY <1>1, MethodsKeep, StepsKeep, LoopKeeps DEF OutputNext
<1>2. CASE UNCHANGED outputVars
  BY <1>2 DEF outputVars, flags, player, OutputAgrees, FlagsOK, PlayerOK, StepsOK, PauseFits, OneFrame
<1> QED BY <1>1, <1>2

\* The inductive invariant holds in every behaviour of the engine and the thread.
THEOREM OutputInvariance == OutputSpec => []OutputAgrees
  BY OutputAtFirst, OutputKeeps, PTL DEF OutputSpec

\* A paused output's track does not play, and gets at most the frame in hand.
THEOREM QuietWhilePaused == OutputSpec => []PausedIsQuiet
  BY OutputInvariance, AgreesIsQuiet, PTL

-----------------------------------------------------------------------------
(* The capture: what the engine's calls, its queue and the thread agree on. *)

\* The calls left of an event, by what is to come next.
Suffixes == {<<>>, <<"start">>, <<"halt", "join", "free">>}
HaltStop == {<<"halt", "join", "drain">>, <<"halt", "join", "drain", "start">>,
             <<"halt", "join", "drain", "halt", "join", "free">>}
JoinStop == {<<"join", "drain">>, <<"join", "drain", "start">>,
             <<"join", "drain", "halt", "join", "free">>}
DrainStop == {<<"drain">>, <<"drain", "start">>, <<"drain", "halt", "join", "free">>}
HaltOpen == {<<"halt", "join", "open">>, <<"halt", "join", "open", "answer">>}
JoinOpen == {<<"join", "open">>, <<"join", "open", "answer">>}
OpenNow == {<<"open">>, <<"open", "answer">>}
Opening == HaltOpen \union JoinOpen \union OpenNow
Freeing == {<<"halt", "join", "free">>, <<"join", "free">>, <<"free">>}
Warming == {<<"warm", "ready">>, <<"warm", "warmed">>, <<"warmed">>}
Cleaning == {<<"quiet", "stop", "halt", "join", "free">>, <<"stop", "halt", "join", "free">>}
Rest == Warming \union Cleaning
  \union {<<>>, <<"ready">>, <<"start", "answer">>, <<"answer">>, <<"stop">>,
          <<"quiet", "halt", "join", "free">>, <<"stop", "start">>, <<"start">>}
Todos == Rest \union HaltStop \union JoinStop \union DrainStop \union Opening \union Freeing

Live == {"attaching", "top", "reading", "read"}

\* The calls left fit whether the engine records.
CallsFit ==
  /\ todo \in Todos
  /\ todo \in HaltStop \union JoinStop \union DrainStop \union Opening \union Cleaning => recording
  /\ todo \in Freeing \union Warming \union {<<"quiet", "halt", "join", "free">>} => ~recording

ThreadFits ==
  /\ ~capturing => thread \notin Live
  /\ stopAsked => todo \in JoinStop \union JoinOpen \union {<<"join", "free">>}
  /\ ~recording \/ todo \in DrainStop \union Opening => thread \notin Live
  /\ thread # "read" => got = 0

Stopped == record # "recording" /\ ~held /\ saved = "none"
Silent == Stopped /\ thread = "none"
Running ==
  /\ capturing /\ thread \in Live /\ (held => recordRoute = Bluetooth)
  /\ thread \in {"reading", "read"} => ~stopAfter

Hardware ==
  ~unattached =>
    /\ ~recording => Silent /\ mode = "normal"
    /\ todo \in DrainStop \union Opening => Silent
    /\ todo \in JoinStop => Stopped
    /\ recording /\ todo \in Rest \union HaltStop => Running

Fits == CallsFit /\ ThreadFits /\ Hardware

\* Whether the engine records once it has made the calls left: the ones that begin
\* a recording, and the ones that end it.
Starting == Opening \union
  {<<"start", "answer">>, <<"stop", "start">>, <<"start">>, <<"halt", "join", "drain", "start">>,
   <<"join", "drain", "start">>, <<"drain", "start">>}
Ending == Cleaning \union
  {<<"stop">>, <<"halt", "join", "drain">>, <<"halt", "join", "drain", "halt", "join", "free">>,
   <<"join", "drain">>, <<"join", "drain", "halt", "join", "free">>,
   <<"drain">>, <<"drain", "halt", "join", "free">>}
WillRecord == todo \in Starting \/ (recording /\ todo \notin Ending)

\* What the queue holds while the client and the engine speak: a recording that is
\* wanted is stopped before the next is set up, a client that asked for one waits
\* for the engine, and nothing is posted behind the request before its recording.
Kind(i) == queue[i].kind
Stops(i) == Kind(i) \in {"stop", "cleanup"}
Asking == {<<"start", "answer">>, <<"halt", "join", "open", "answer">>,
           <<"join", "open", "answer">>, <<"open", "answer">>}
Answering == Asking \union {<<"warm", "warmed">>, <<"warmed">>, <<"answer">>}

StopComesFirst == \A i \in DOMAIN queue :
  Kind(i) \in {"setup", "warm"} /\ WillRecord => \E j \in DOMAIN queue : j < i /\ Stops(j)
StopIsComing == client \in {"down", "setup", "ready", "draining"} /\ WillRecord =>
  \E j \in DOMAIN queue : Stops(j)
WarmIsLast == \A i \in DOMAIN queue : Kind(i) = "warm" =>
  /\ client = "pressing"
  /\ \A j \in DOMAIN queue : j > i => Kind(j) \in {"route", "block"}
StartIsAlone == \A i \in DOMAIN queue : Kind(i) = "start" =>
  /\ client = "pressing" /\ ~recording /\ todo = <<>>
  /\ \A j \in DOMAIN queue : j > i => Kind(j) = "route"
  /\ \A j \in DOMAIN queue : j < i => Kind(j) \in {"route", "block"}
AnswerIsAwaited == todo \in Answering =>
  client = "pressing" /\ \A i \in DOMAIN queue : Kind(i) \in {"route", "block"}
NothingIsRead == todo \in Asking =>
  /\ \A i \in DOMAIN queue : Kind(i) = "route"
  /\ todo = <<"start", "answer">> => ~recording
Protocol ==
  /\ StopComesFirst /\ StopIsComing /\ WarmIsLast
  /\ StartIsAlone /\ AnswerIsAwaited /\ NothingIsRead

LEMMA Tails ==
  /\ Tail(<<"ready">>) = <<>>
  /\ Tail(<<"answer">>) = <<>>
  /\ Tail(<<"stop">>) = <<>>
  /\ Tail(<<"start">>) = <<>>
  /\ Tail(<<"warmed">>) = <<>>
  /\ Tail(<<"warm", "ready">>) = <<"ready">>
  /\ Tail(<<"warm", "warmed">>) = <<"warmed">>
  /\ Tail(<<"start", "answer">>) = <<"answer">>
  /\ Tail(<<"stop", "start">>) = <<"start">>
  /\ Tail(<<"quiet", "stop", "halt", "join", "free">>) = <<"stop", "halt", "join", "free">>
  /\ Tail(<<"stop", "halt", "join", "free">>) = <<"halt", "join", "free">>
  /\ Tail(<<"quiet", "halt", "join", "free">>) = <<"halt", "join", "free">>
  /\ Tail(<<"halt", "join", "drain">>) = <<"join", "drain">>
  /\ Tail(<<"halt", "join", "drain", "start">>) = <<"join", "drain", "start">>
  /\ Tail(<<"halt", "join", "drain", "halt", "join", "free">>) = <<"join", "drain", "halt", "join", "free">>
  /\ Tail(<<"join", "drain">>) = <<"drain">>
  /\ Tail(<<"join", "drain", "start">>) = <<"drain", "start">>
  /\ Tail(<<"join", "drain", "halt", "join", "free">>) = <<"drain", "halt", "join", "free">>
  /\ Tail(<<"drain">>) = <<>>
  /\ Tail(<<"drain", "start">>) = <<"start">>
  /\ Tail(<<"drain", "halt", "join", "free">>) = <<"halt", "join", "free">>
  /\ Tail(<<"halt", "join", "open">>) = <<"join", "open">>
  /\ Tail(<<"halt", "join", "open", "answer">>) = <<"join", "open", "answer">>
  /\ Tail(<<"join", "open">>) = <<"open">>
  /\ Tail(<<"join", "open", "answer">>) = <<"open", "answer">>
  /\ Tail(<<"open">>) = <<>>
  /\ Tail(<<"open", "answer">>) = <<"answer">>
  /\ Tail(<<"halt", "join", "free">>) = <<"join", "free">>
  /\ Tail(<<"join", "free">>) = <<"free">>
  /\ Tail(<<"free">>) = <<>>
<1>1. ASSUME NEW a PROVE Tail(<<a>>) = <<>>
  OBVIOUS
<1>2. ASSUME NEW a, NEW b PROVE Tail(<<a, b>>) = <<b>>
  OBVIOUS
<1>3. ASSUME NEW a, NEW b, NEW c PROVE Tail(<<a, b, c>>) = <<b, c>>
  OBVIOUS
<1>4. ASSUME NEW a, NEW b, NEW c, NEW d PROVE Tail(<<a, b, c, d>>) = <<b, c, d>>
  OBVIOUS
<1>5. ASSUME NEW a, NEW b, NEW c, NEW d, NEW e PROVE Tail(<<a, b, c, d, e>>) = <<b, c, d, e>>
  OBVIOUS
<1>6. ASSUME NEW a, NEW b, NEW c, NEW d, NEW e, NEW f PROVE Tail(<<a, b, c, d, e, f>>) = <<b, c, d, e, f>>
  OBVIOUS
<1>7. /\ Tail(<<"ready">>) = <<>>
       /\ Tail(<<"answer">>) = <<>>
       /\ Tail(<<"stop">>) = <<>>
       /\ Tail(<<"start">>) = <<>>
       /\ Tail(<<"warmed">>) = <<>>
       /\ Tail(<<"drain">>) = <<>>
       /\ Tail(<<"open">>) = <<>>
       /\ Tail(<<"free">>) = <<>>
  BY <1>1
<1>8. /\ Tail(<<"warm", "ready">>) = <<"ready">>
       /\ Tail(<<"warm", "warmed">>) = <<"warmed">>
       /\ Tail(<<"start", "answer">>) = <<"answer">>
       /\ Tail(<<"stop", "start">>) = <<"start">>
       /\ Tail(<<"join", "drain">>) = <<"drain">>
       /\ Tail(<<"drain", "start">>) = <<"start">>
       /\ Tail(<<"join", "open">>) = <<"open">>
       /\ Tail(<<"open", "answer">>) = <<"answer">>
       /\ Tail(<<"join", "free">>) = <<"free">>
  BY <1>2
<1>9. /\ Tail(<<"halt", "join", "drain">>) = <<"join", "drain">>
       /\ Tail(<<"join", "drain", "start">>) = <<"drain", "start">>
       /\ Tail(<<"halt", "join", "open">>) = <<"join", "open">>
       /\ Tail(<<"join", "open", "answer">>) = <<"open", "answer">>
       /\ Tail(<<"halt", "join", "free">>) = <<"join", "free">>
  BY <1>3
<1>10. /\ Tail(<<"stop", "halt", "join", "free">>) = <<"halt", "join", "free">>
       /\ Tail(<<"quiet", "halt", "join", "free">>) = <<"halt", "join", "free">>
       /\ Tail(<<"halt", "join", "drain", "start">>) = <<"join", "drain", "start">>
       /\ Tail(<<"drain", "halt", "join", "free">>) = <<"halt", "join", "free">>
       /\ Tail(<<"halt", "join", "open", "answer">>) = <<"join", "open", "answer">>
  BY <1>4
<1>11. /\ Tail(<<"quiet", "stop", "halt", "join", "free">>) = <<"stop", "halt", "join", "free">>
       /\ Tail(<<"join", "drain", "halt", "join", "free">>) = <<"drain", "halt", "join", "free">>
  BY <1>5
<1>12. /\ Tail(<<"halt", "join", "drain", "halt", "join", "free">>) = <<"join", "drain", "halt", "join", "free">>
  BY <1>6
<1> QED BY <1>7, <1>8, <1>9, <1>10, <1>11, <1>12

LEMMA CallHalt ==
  ASSUME todo \in Todos, Call("halt")
  PROVE  \/ todo \in HaltStop /\ Tail(todo) \in JoinStop
         \/ todo \in HaltOpen /\ Tail(todo) \in JoinOpen
         \/ todo = <<"halt", "join", "free">> /\ Tail(todo) = <<"join", "free">>
<1>1. CASE todo \in Rest
  BY <1>1 DEF Rest, Warming, Cleaning, Call
<1>2. CASE todo \in HaltStop
  BY <1>2, Tails DEF HaltStop, JoinStop
<1>3. CASE todo \in HaltOpen
  BY <1>3, Tails DEF HaltOpen, JoinOpen
<1>4. CASE todo \in Freeing
  <2>1. CASE todo = <<"halt", "join", "free">>
    BY <2>1, Tails
  <2>2. CASE todo # <<"halt", "join", "free">>
    BY <1>4, <2>2 DEF Freeing, Call
  <2> QED BY <2>1, <2>2
<1>5. CASE todo \in JoinStop \union DrainStop
  BY <1>5 DEF JoinStop, DrainStop, Call
<1>6. CASE todo \in JoinOpen \union OpenNow
  BY <1>6 DEF JoinOpen, OpenNow, Call
<1> QED BY <1>1, <1>2, <1>3, <1>4, <1>5, <1>6 DEF Todos, Opening

\* The sets of what may be left have nothing in common.
LEMMA Apart ==
  /\ \A t \in HaltStop :
       t \notin Rest \union JoinStop \union DrainStop \union Opening \union Freeing
  /\ \A t \in JoinStop : t \notin Rest \union DrainStop \union Opening \union Freeing
  /\ \A t \in DrainStop : t \notin Rest \union Opening \union Freeing
  /\ \A t \in HaltOpen : t \notin Rest \union Freeing \union JoinOpen \union OpenNow
  /\ \A t \in JoinOpen : t \notin Rest \union Freeing \union OpenNow
  /\ \A t \in OpenNow : t \notin Rest \union Freeing
  /\ \A t \in Freeing : t \notin Rest
<1>1. /\ \A t \in Rest : t = <<>> \/ t[1] \notin {"halt", "join", "drain", "open", "free"}
      /\ \A t \in HaltStop : t # <<>> /\ t[1] = "halt" /\ t[3] = "drain"
      /\ \A t \in JoinStop : t # <<>> /\ t[1] = "join" /\ t[2] = "drain"
      /\ \A t \in DrainStop : t # <<>> /\ t[1] = "drain"
  BY DEF Rest, Warming, Cleaning, HaltStop, JoinStop, DrainStop
<1>2. /\ \A t \in HaltOpen : t # <<>> /\ t[1] = "halt" /\ t[3] = "open"
      /\ \A t \in JoinOpen : t # <<>> /\ t[1] = "join" /\ t[2] = "open"
      /\ \A t \in OpenNow : t # <<>> /\ t[1] = "open"
  BY DEF HaltOpen, JoinOpen, OpenNow
<1>3. \A t \in Freeing :
        /\ t # <<>> /\ t[1] \in {"halt", "join", "free"}
        /\ t[1] = "halt" => t[3] = "free"
        /\ t[1] = "join" => t[2] = "free"
  BY DEF Freeing
<1> QED BY <1>1, <1>2, <1>3 DEF Opening

\* Whole frames of n samples are no more than n.
LEMMA Whole ==
  ASSUME NEW n \in Nat, NEW f \in Nat \ {0}, NEW k \in 0..(n \div f)
  PROVE  k * f \in 0..n
<1>1. (n \div f) * f <= n /\ n \div f \in Nat
  OBVIOUS
<1>2. k * f <= (n \div f) * f /\ k * f \in Nat
  BY <1>1
<1> QED BY <1>1, <1>2

LEMMA WholeAdd ==
  ASSUME NEW a \in Nat, NEW k \in Nat, NEW f \in Nat \ {0}, a % f = 0
  PROVE  (a + k * f) % f = 0
<1>1. PICK q \in Nat : a = q * f
  OBVIOUS
<1>2. a + k * f = (q + k) * f
  BY <1>1
<1>3. ((q + k) * f) % f = 0
  OBVIOUS
<1> QED BY <1>2, <1>3

\* What each call is followed by.
LEMMA CallJoin ==
  ASSUME todo \in Todos, Call("join")
  PROVE  \/ todo \in JoinStop /\ Tail(todo) \in DrainStop
         \/ todo \in JoinOpen /\ Tail(todo) \in OpenNow
         \/ todo = <<"join", "free">> /\ Tail(todo) = <<"free">>
<1>1. CASE todo \in Rest
  BY <1>1 DEF Rest, Warming, Cleaning, Call
<1>2. CASE todo \in JoinStop
  BY <1>2, Tails DEF DrainStop, JoinStop
<1>3. CASE todo \in JoinOpen
  BY <1>3, Tails DEF JoinOpen, OpenNow
<1>4. CASE todo \in Freeing
  <2>1. CASE todo = <<"join", "free">>
    BY <2>1, Tails
  <2>2. CASE todo # <<"join", "free">>
    BY <1>4, <2>2 DEF Freeing, Call
  <2> QED BY <2>1, <2>2
<1>5. CASE todo \in HaltStop \union DrainStop
  BY <1>5 DEF HaltStop, DrainStop, Call
<1>6. CASE todo \in HaltOpen \union OpenNow
  BY <1>6 DEF HaltOpen, OpenNow, Call
<1> QED BY <1>1, <1>2, <1>3, <1>4, <1>5, <1>6 DEF Todos, Opening

\* The other calls begin none of the sequences above; where they stand:
LEMMA CallOfRest ==
  ASSUME todo \in Todos, NEW name, Call(name), name \notin {"halt", "join", "drain", "open", "free"}
  PROVE  todo \in Rest
<1>1. CASE todo \in HaltStop \union JoinStop \union DrainStop
  BY <1>1 DEF HaltStop, JoinStop, DrainStop, Call
<1>2. CASE todo \in Opening
  BY <1>2 DEF Opening, HaltOpen, JoinOpen, OpenNow, Call
<1>3. CASE todo \in Freeing
  BY <1>3 DEF Freeing, Call
<1> QED BY <1>1, <1>2, <1>3 DEF Todos

LEMMA CallDrain ==
  ASSUME todo \in Todos, Call("drain")
  PROVE  todo \in DrainStop /\ Tail(todo) \in Suffixes
<1>1. CASE todo \in Rest
  BY <1>1 DEF Rest, Warming, Cleaning, Call
<1>2. CASE todo \in DrainStop
  BY <1>2, Tails DEF DrainStop, Suffixes
<1>3. CASE todo \in Opening
  BY <1>3 DEF Opening, HaltOpen, JoinOpen, OpenNow, Call
<1>4. CASE todo \in Freeing
  BY <1>4 DEF Freeing, Call
<1>5. CASE todo \in HaltStop \union JoinStop
  BY <1>5 DEF HaltStop, JoinStop, Call
<1> QED BY <1>1, <1>2, <1>3, <1>4, <1>5 DEF Todos

LEMMA CallOpen ==
  ASSUME todo \in Todos, Call("open")
  PROVE  \/ todo = <<"open">> /\ Tail(todo) = <<>>
         \/ todo = <<"open", "answer">> /\ Tail(todo) = <<"answer">>
<1>1. CASE todo \in Rest
  BY <1>1 DEF Rest, Warming, Cleaning, Call
<1>2. CASE todo \in OpenNow
  BY <1>2, Tails DEF OpenNow
<1>3. CASE todo \in HaltOpen \union JoinOpen
  BY <1>3 DEF HaltOpen, JoinOpen, Call
<1>4. CASE todo \in Freeing
  BY <1>4 DEF Freeing, Call
<1>5. CASE todo \in HaltStop \union JoinStop \union DrainStop
  BY <1>5 DEF HaltStop, JoinStop, DrainStop, Call
<1> QED BY <1>1, <1>2, <1>3, <1>4, <1>5 DEF Todos, Opening

LEMMA CallFree ==
  ASSUME todo \in Todos, Call("free")
  PROVE  todo = <<"free">> /\ Tail(todo) = <<>>
<1>1. CASE todo \in Rest
  BY <1>1 DEF Rest, Warming, Cleaning, Call
<1>2. CASE todo \in Opening
  BY <1>2 DEF Opening, HaltOpen, JoinOpen, OpenNow, Call
<1>4. CASE todo \in Freeing
  <2>1. CASE todo = <<"free">>
    BY <2>1, Tails
  <2>2. CASE todo # <<"free">>
    BY <1>4, <2>2 DEF Freeing, Call
  <2> QED BY <2>1, <2>2
<1>5. CASE todo \in HaltStop \union JoinStop \union DrainStop
  BY <1>5 DEF HaltStop, JoinStop, DrainStop, Call
<1> QED BY <1>1, <1>2, <1>4, <1>5 DEF Todos

LEMMA CallWarm ==
  ASSUME todo \in Todos, Call("warm")
  PROVE  \/ todo = <<"warm", "ready">> /\ Tail(todo) = <<"ready">>
         \/ todo = <<"warm", "warmed">> /\ Tail(todo) = <<"warmed">>
<1>1. todo \in Rest
  BY CallOfRest
<1>2. todo \in {<<"warm", "ready">>, <<"warm", "warmed">>}
  BY <1>1 DEF Rest, Warming, Cleaning, Call
<1> QED BY <1>2, Tails

LEMMA CallAfterwards ==
  ASSUME todo \in Todos
  PROVE  /\ Call("warmed") => todo = <<"warmed">> /\ Tail(todo) = <<>>
         /\ Call("ready") => todo = <<"ready">> /\ Tail(todo) = <<>>
         /\ Call("answer") => todo = <<"answer">> /\ Tail(todo) = <<>>
<1>1. Call("warmed") => todo = <<"warmed">> /\ Tail(todo) = <<>>
  <2> SUFFICES ASSUME Call("warmed") PROVE todo = <<"warmed">>
    BY Tails
  <2>1. todo \in Rest
    BY CallOfRest
  <2> QED BY <2>1 DEF Rest, Warming, Cleaning, Call
<1>2. Call("ready") => todo = <<"ready">> /\ Tail(todo) = <<>>
  <2> SUFFICES ASSUME Call("ready") PROVE todo = <<"ready">>
    BY Tails
  <2>1. todo \in Rest
    BY CallOfRest
  <2> QED BY <2>1 DEF Rest, Warming, Cleaning, Call
<1>3. Call("answer") => todo = <<"answer">> /\ Tail(todo) = <<>>
  <2> SUFFICES ASSUME Call("answer") PROVE todo = <<"answer">>
    BY Tails
  <2>1. todo \in Rest
    BY CallOfRest
  <2> QED BY <2>1 DEF Rest, Warming, Cleaning, Call
<1> QED BY <1>1, <1>2, <1>3

LEMMA Joined ==
  ASSUME NEW a, NEW b, NEW c
  PROVE  /\ <<a, b, c>> \o <<>> = <<a, b, c>>
         /\ \A d : <<a, b, c>> \o <<d>> = <<a, b, c, d>>
         /\ \A d, e, f : <<a, b, c>> \o <<d, e, f>> = <<a, b, c, d, e, f>>
<1> DEFINE abc == <<a, b, c>>
<1>1. /\ abc \in Seq({a, b, c}) /\ Len(abc) = 3
      /\ abc[1] = a /\ abc[2] = b /\ abc[3] = c
  OBVIOUS
<1>2. abc \o <<>> = <<a, b, c>>
  <2>1. /\ abc \o <<>> \in Seq({a, b, c}) /\ Len(abc \o <<>>) = 3
        /\ \A i \in 1..3 : (abc \o <<>>)[i] = abc[i]
    OBVIOUS
  <2> QED BY <2>1, <1>1
<1>3. ASSUME NEW d PROVE abc \o <<d>> = <<a, b, c, d>>
  <2> DEFINE s == abc \o <<d>>
             t == <<a, b, c, d>>
  <2>1. /\ s \in Seq({a, b, c, d}) /\ Len(s) = 4
        /\ s[1] = a /\ s[2] = b /\ s[3] = c /\ s[4] = d
    OBVIOUS
  <2>2. /\ t \in Seq({a, b, c, d}) /\ Len(t) = 4
        /\ t[1] = a /\ t[2] = b /\ t[3] = c /\ t[4] = d
    OBVIOUS
  <2>3. \A i \in 1..4 : s[i] = t[i]
    BY <2>1, <2>2
  <2> HIDE DEF s, t
  <2>4. s = t
    BY <2>1, <2>2, <2>3
  <2> QED BY <2>4 DEF s, t
<1>4. ASSUME NEW d, NEW e, NEW f PROVE abc \o <<d, e, f>> = <<a, b, c, d, e, f>>
  <2> DEFINE s == abc \o <<d, e, f>>
             t == <<a, b, c, d, e, f>>
  <2>1. /\ s \in Seq({a, b, c, d, e, f}) /\ Len(s) = 6
        /\ s[1] = a /\ s[2] = b /\ s[3] = c /\ s[4] = d /\ s[5] = e /\ s[6] = f
    OBVIOUS
  <2>2. /\ t \in Seq({a, b, c, d, e, f}) /\ Len(t) = 6
        /\ t[1] = a /\ t[2] = b /\ t[3] = c /\ t[4] = d /\ t[5] = e /\ t[6] = f
    OBVIOUS
  <2>3. \A i \in 1..6 : s[i] = t[i]
    BY <2>1, <2>2
  <2> HIDE DEF s, t
  <2>4. s = t
    BY <2>1, <2>2, <2>3
  <2> QED BY <2>4 DEF s, t
<1> QED BY <1>2, <1>3, <1>4

LEMMA CallStart ==
  ASSUME todo \in Todos, Call("start")
  PROVE  \/ /\ todo = <<"start">> /\ Tail(todo) = <<>>
            /\ <<"halt", "join", "open">> \o Tail(todo) = <<"halt", "join", "open">>
         \/ /\ todo = <<"start", "answer">> /\ Tail(todo) = <<"answer">>
            /\ <<"halt", "join", "open">> \o Tail(todo) = <<"halt", "join", "open", "answer">>
<1>1. todo \in Rest
  BY CallOfRest
<1>2. todo \in {<<"start">>, <<"start", "answer">>}
  BY <1>1 DEF Rest, Warming, Cleaning, Call
<1>3. /\ <<"halt", "join", "open">> \o <<>> = <<"halt", "join", "open">>
      /\ <<"halt", "join", "open">> \o <<"answer">> = <<"halt", "join", "open", "answer">>
  BY Joined
<1> QED BY <1>2, <1>3, Tails

LEMMA CallStop ==
  ASSUME todo \in Todos, Call("stop")
  PROVE  \/ /\ todo = <<"stop">> /\ Tail(todo) = <<>>
            /\ <<"halt", "join", "drain">> \o Tail(todo) = <<"halt", "join", "drain">>
         \/ /\ todo = <<"stop", "start">> /\ Tail(todo) = <<"start">>
            /\ <<"halt", "join", "drain">> \o Tail(todo) = <<"halt", "join", "drain", "start">>
         \/ /\ todo = <<"stop", "halt", "join", "free">>
            /\ Tail(todo) = <<"halt", "join", "free">>
            /\ <<"halt", "join", "drain">> \o Tail(todo)
                 = <<"halt", "join", "drain", "halt", "join", "free">>
<1>1. todo \in Rest
  BY CallOfRest
<1>2. todo \in {<<"stop">>, <<"stop", "start">>, <<"stop", "halt", "join", "free">>}
  BY <1>1 DEF Rest, Warming, Cleaning, Call
<1>3. /\ <<"halt", "join", "drain">> \o <<>> = <<"halt", "join", "drain">>
      /\ <<"halt", "join", "drain">> \o <<"start">> = <<"halt", "join", "drain", "start">>
      /\ <<"halt", "join", "drain">> \o <<"halt", "join", "free">>
           = <<"halt", "join", "drain", "halt", "join", "free">>
  BY Joined
<1> QED BY <1>2, <1>3, Tails

LEMMA CallQuiet ==
  ASSUME todo \in Todos, Call("quiet")
  PROVE  \/ /\ todo = <<"quiet", "stop", "halt", "join", "free">>
            /\ Tail(todo) = <<"stop", "halt", "join", "free">>
         \/ /\ todo = <<"quiet", "halt", "join", "free">>
            /\ Tail(todo) = <<"halt", "join", "free">>
<1>1. todo \in Rest
  BY CallOfRest
<1>2. todo \in {<<"quiet", "stop", "halt", "join", "free">>, <<"quiet", "halt", "join", "free">>}
  BY <1>1 DEF Rest, Warming, Cleaning, Call
<1> QED BY <1>2, Tails

\* The types of the variables, closer than TypeOK where the samples need it.
Clients == {"down", "setup", "ready", "pressing", "talking", "draining"}
Orders == {"setup", "warm", "start", "stop", "cleanup", "route"}
Numbers == 1..MaxSamples
Posted == [kind : {"block"}, samples : Seq(Numbers)]
Events == [kind : Orders] \union Posted

QueueFits == client \in Clients /\ queue \in Seq(Events)
CodecFits ==
  /\ recording \in BOOLEAN /\ priming \in BOOLEAN
  /\ startup \in Seq(Numbers) /\ Len(startup) < LeadInFrames * FrameSize
  /\ pending \in Seq(Numbers) /\ wire \in Seq(0..MaxSamples) /\ Len(wire) % FrameSize = 0
NativeFits ==
  /\ capturing \in BOOLEAN /\ stopAsked \in BOOLEAN /\ stopAfter \in BOOLEAN
  /\ unattached \in BOOLEAN /\ thread \in Threads
  /\ got \in 0..MaxBlock /\ captured \in 0..MaxSamples /\ got <= captured
DeviceFits ==
  /\ record \in {"none", "ready", "recording"} /\ route \in {"speaker", Bluetooth}
  /\ recordRoute \in {"speaker", Bluetooth} /\ held \in BOOLEAN /\ mediaTek \in BOOLEAN
  /\ mode \in {"normal", "communication"} /\ saved \in {"none", "normal", "communication"}
NativeTypes == QueueFits /\ CodecFits /\ NativeFits /\ DeviceFits

LEMMA Sizes ==
  /\ FrameSize \in Nat \ {0} /\ LeadInFrames \in Nat \ {0} /\ MaxBlock \in Nat \ {0}
  /\ MaxSamples \in Nat
BY CaptureAssumption DEF CaptureAssumption

LEMMA LeadIn == LeadInFrames * FrameSize \in Nat \ {0}
<1>1. ASSUME NEW a \in Nat \ {0}, NEW b \in Nat \ {0} PROVE a * b \in Nat \ {0}
  OBVIOUS
<1> QED BY <1>1, Sizes

\* What an order leaves in the queue.
LEMMA Ordered ==
  ASSUME queue \in Seq(Events), NEW kinds \in Seq(Orders), Order(kinds)
  PROVE  /\ queue' \in Seq(Events) /\ Len(queue') = Len(queue) + Len(kinds)
         /\ \A i \in DOMAIN queue : queue'[i] = queue[i] /\ i \in DOMAIN queue'
         /\ \A i \in DOMAIN queue' \ DOMAIN queue :
              /\ i - Len(queue) \in DOMAIN kinds /\ i > Len(queue)
              /\ queue'[i] = Event(kinds[i - Len(queue)])
<1> DEFINE new == [i \in DOMAIN kinds |-> Event(kinds[i])]
<1>1. new \in Seq(Events) /\ Len(new) = Len(kinds) /\ \A i \in DOMAIN kinds : new[i] = Event(kinds[i])
  <2>1. \A i \in 1..Len(kinds) : Event(kinds[i]) \in Events
    BY DEF Events, Event
  <2>2. DOMAIN kinds = 1..Len(kinds) /\ Len(kinds) \in Nat
    OBVIOUS
  <2> QED BY <2>1, <2>2
<1>2. queue' = queue \o new
  BY DEF Order
<1> HIDE DEF new
<1>3. ASSUME NEW S, NEW s \in Seq(S), NEW t \in Seq(S)
      PROVE  /\ s \o t \in Seq(S) /\ Len(s \o t) = Len(s) + Len(t)
             /\ \A i \in 1..Len(s) + Len(t) :
                  (s \o t)[i] = IF i <= Len(s) THEN s[i] ELSE t[i - Len(s)]
  OBVIOUS
<1>4. queue \o new \in Seq(Events) /\ Len(queue \o new) = Len(queue) + Len(new)
  BY <1>1, <1>3
<1>5. \A i \in 1..Len(queue) + Len(new) :
        (queue \o new)[i] = IF i <= Len(queue) THEN queue[i] ELSE new[i - Len(queue)]
  BY <1>1, <1>3
<1>6. queue' \in Seq(Events) /\ Len(queue') = Len(queue) + Len(kinds)
  BY <1>1, <1>2, <1>4
<1>7. /\ DOMAIN queue = 1..Len(queue) /\ Len(queue) \in Nat
      /\ DOMAIN queue' = 1..Len(queue) + Len(kinds)
      /\ DOMAIN kinds = 1..Len(kinds) /\ Len(kinds) \in Nat
  BY <1>6
<1>8. \A i \in DOMAIN queue : queue'[i] = queue[i] /\ i \in DOMAIN queue'
  BY <1>1, <1>2, <1>5, <1>7
<1>9. ASSUME NEW i \in DOMAIN queue' \ DOMAIN queue
      PROVE  /\ i - Len(queue) \in DOMAIN kinds /\ i > Len(queue)
             /\ queue'[i] = Event(kinds[i - Len(queue)])
  <2>1. i \in 1..Len(queue) + Len(kinds) /\ i > Len(queue) /\ i - Len(queue) \in 1..Len(kinds)
    BY <1>7
  <2>2. queue'[i] = new[i - Len(queue)]
    BY <2>1, <1>1, <1>2, <1>5
  <2> QED BY <2>1, <2>2, <1>1, <1>7
<1> QED BY <1>6, <1>8, <1>9

LEMMA Cleanups ==
  /\ <<"cleanup">> \o <<>> = <<"cleanup">>
  /\ <<"cleanup">> \o <<"stop">> = <<"cleanup", "stop">>
<1>1. ASSUME NEW a PROVE <<a>> \o <<>> = <<a>>
  OBVIOUS
<1>2. ASSUME NEW a, NEW b PROVE <<a>> \o <<b>> = <<a, b>>
  <2> DEFINE s == <<a>> \o <<b>>
             t == <<a, b>>
  <2>1. s \in Seq({a, b}) /\ Len(s) = 2 /\ s[1] = a /\ s[2] = b
    OBVIOUS
  <2>2. t \in Seq({a, b}) /\ Len(t) = 2 /\ t[1] = a /\ t[2] = b
    OBVIOUS
  <2>3. \A i \in 1..2 : s[i] = t[i]
    BY <2>1, <2>2
  <2> HIDE DEF s, t
  <2>4. s = t
    BY <2>1, <2>2, <2>3
  <2> QED BY <2>4 DEF s, t
<1> QED BY <1>1, <1>2

\* The orders there are.
Batches == {<<>>, <<"setup">>, <<"warm">>, <<"start">>, <<"stop">>, <<"route">>, <<"cleanup">>,
            <<"cleanup", "stop">>}

LEMMA BatchesAre == Batches \subseteq Seq(Orders)
<1>1. <<>> \in Seq(Orders)
  OBVIOUS
<1>2. {<<"setup">>, <<"warm">>, <<"start">>} \subseteq Seq(Orders)
  BY DEF Orders
<1>3. {<<"stop">>, <<"route">>, <<"cleanup">>} \subseteq Seq(Orders)
  BY DEF Orders
<1>4. <<"cleanup", "stop">> \in Seq(Orders)
  BY DEF Orders
<1> QED BY <1>1, <1>2, <1>3, <1>4 DEF Batches

LEMMA DisconnectedOrders ==
  ASSUME Disconnected
  PROVE  \E kinds \in {<<>>, <<"stop">>, <<"cleanup">>, <<"cleanup", "stop">>} :
           /\ Order(kinds)
           /\ client \in {"talking", "draining"} => kinds \in {<<"stop">>, <<"cleanup", "stop">>}
<1>1. PICK stop \in IF client \in {"talking", "draining"} THEN {<<"stop">>} ELSE {<<>>} :
        Order(stop) \/ Order(<<"cleanup">> \o stop)
  BY DEF Disconnected
<1> QED BY <1>1, Cleanups

\* The first event is an order or samples.
LEMMA FirstIs ==
  ASSUME queue \in Seq(Events), queue # <<>>
  PROVE  /\ Head(queue) = queue[1] /\ 1 \in DOMAIN queue
         /\ \/ Head(queue).kind \in Orders
            \/ Head(queue).kind = "block" /\ Head(queue).samples \in Seq(Numbers)
         /\ "block" \notin Orders
         /\ Tail(queue) \in Seq(Events) /\ Len(Tail(queue)) = Len(queue) - 1
         /\ \A i \in DOMAIN Tail(queue) : i + 1 \in DOMAIN queue /\ Tail(queue)[i] = queue[i + 1]
<1>1. queue[1] \in Events /\ Head(queue) = queue[1] /\ 1 \in DOMAIN queue
  OBVIOUS
<1>2. \/ queue[1].kind \in Orders
      \/ queue[1].kind = "block" /\ queue[1].samples \in Seq(Numbers)
  <2>1. ASSUME NEW e \in [kind : Orders] PROVE e.kind \in Orders
    OBVIOUS
  <2>2. ASSUME NEW e \in Posted PROVE e.kind = "block" /\ e.samples \in Seq(Numbers)
    BY DEF Posted
  <2> QED BY <1>1, <2>1, <2>2 DEF Events
<1>3. /\ Tail(queue) \in Seq(Events) /\ Len(Tail(queue)) = Len(queue) - 1
      /\ \A i \in 1..(Len(queue) - 1) : i + 1 \in 1..Len(queue) /\ Tail(queue)[i] = queue[i + 1]
  OBVIOUS
<1>4. DOMAIN Tail(queue) = 1..(Len(queue) - 1) /\ DOMAIN queue = 1..Len(queue)
  BY <1>3
<1>5. \A i \in DOMAIN Tail(queue) : i + 1 \in DOMAIN queue /\ Tail(queue)[i] = queue[i + 1]
  BY <1>3, <1>4
<1> QED BY <1>1, <1>2, <1>3, <1>5 DEF Orders

\* What is posted of a read.
LEMMA Delivered ==
  ASSUME QueueFits, NativeFits, Deliver
  PROVE  \/ UNCHANGED queue
         \/ /\ thread = "read" /\ got > 0
            /\ queue' \in Seq(Events) /\ Len(queue') = Len(queue) + 1
            /\ \A i \in DOMAIN queue : i \in DOMAIN queue' /\ queue'[i] = queue[i]
            /\ \A i \in DOMAIN queue' \ DOMAIN queue :
                 /\ i = Len(queue) + 1 /\ queue'[i].kind = "block"
                 /\ queue'[i].samples \in Seq(Numbers)
                 /\ queue'[i].samples = [k \in 1..got |-> captured - got + k]
<1> SUFFICES ASSUME queue' # queue
             PROVE  /\ thread = "read" /\ got > 0
                    /\ queue' \in Seq(Events) /\ Len(queue') = Len(queue) + 1
                    /\ \A i \in DOMAIN queue : i \in DOMAIN queue' /\ queue'[i] = queue[i]
                    /\ \A i \in DOMAIN queue' \ DOMAIN queue :
                         /\ i = Len(queue) + 1 /\ queue'[i].kind = "block"
                         /\ queue'[i].samples \in Seq(Numbers)
                         /\ queue'[i].samples = [k \in 1..got |-> captured - got + k]
  OBVIOUS
<1> DEFINE read == [k \in 1..got |-> captured - got + k]
           event == [kind |-> "block", samples |-> read]
<1>1. thread = "read" /\ got > 0 /\ queue' = Append(queue, event)
  BY DEF Deliver
<1>2. read \in Seq(Numbers)
  <2>1. got \in Nat /\ captured \in 0..MaxSamples /\ got <= captured
    BY Sizes DEF NativeFits
  <2>2. \A k \in 1..got : captured - got + k \in Numbers
    BY <2>1, Sizes DEF Numbers
  <2> QED BY <2>1, <2>2
<1>3. event \in Events /\ event.kind = "block" /\ event.samples = read
  BY <1>2 DEF Events, Posted
<1> HIDE DEF event
<1>4. ASSUME NEW S, NEW s \in Seq(S), NEW x \in S
      PROVE  /\ Append(s, x) \in Seq(S) /\ Len(Append(s, x)) = Len(s) + 1
             /\ \A i \in 1..Len(s) : Append(s, x)[i] = s[i]
             /\ Append(s, x)[Len(s) + 1] = x
  OBVIOUS
<1>5. queue \in Seq(Events)
  BY DEF QueueFits
<1>6. queue' \in Seq(Events) /\ Len(queue') = Len(queue) + 1
  BY <1>1, <1>3, <1>4, <1>5
<1>7. (\A i \in 1..Len(queue) : queue'[i] = queue[i]) /\ queue'[Len(queue) + 1] = event
  BY <1>1, <1>3, <1>4, <1>5
<1>8. DOMAIN queue = 1..Len(queue) /\ DOMAIN queue' = 1..(Len(queue) + 1) /\ Len(queue) \in Nat
  BY <1>5, <1>6
<1>9. \A i \in DOMAIN queue : i \in DOMAIN queue' /\ queue'[i] = queue[i]
  BY <1>7, <1>8
<1>10. \A i \in DOMAIN queue' \ DOMAIN queue : i = Len(queue) + 1
  BY <1>8
<1> QED BY <1>1, <1>2, <1>3, <1>6, <1>7, <1>9, <1>10

LEMMA QueueKept ==
  ASSUME NativeTypes, [Next]_vars
  PROVE  QueueFits'
<1> USE DEF NativeTypes
<1>1. client \in Clients /\ queue \in Seq(Events)
  BY DEF QueueFits
<1>2. client' \in Clients
  <2>1. CASE Client
    BY <1>1, <2>1 DEF Client, Connects, StartTransmission, BeginImmediatePttRelease, Disconnected,
      Clients
  <2>2. CASE AudioReady \/ Answer \/ StopRecording \/ Drain
    BY <1>1, <2>2 DEF AudioReady, Answer, StopRecording, Drain, TxDrainComplete, Clients
  <2>3. CASE RouteChanges \/ TakeEvent \/ SetupAudioInput \/ AskForRecording \/ StartRecording
    BY <1>1, <2>3 DEF RouteChanges, TakeEvent, SetupAudioInput, AskForRecording, StartRecording,
      clientVars
  <2>4. CASE Halt \/ Join \/ Open \/ ResetAudioMode \/ ReleaseCapture
    BY <1>1, <2>4 DEF Halt, Join, Open, ResetAudioMode, ReleaseCapture, clientVars
  <2>5. CASE CaptureLoop \/ UNCHANGED vars
    BY <1>1, <2>5 DEF CaptureLoop, Attach, LoopTop, Read, Deliver, elsewhere, clientVars, vars
  <2> QED BY <2>1, <2>2, <2>3, <2>4, <2>5 DEF Next, Engine
<1>3. queue' \in Seq(Events)
  <2>1. CASE \E kinds \in Batches : Order(kinds)
    <3>1. PICK kinds \in Batches : Order(kinds)
      BY <2>1
    <3>2. kinds \in Seq(Orders)
      BY <3>1, BatchesAre
    <3> QED BY <1>1, <3>1, <3>2, Ordered
  <2>2. CASE Client
    <3>1. Connects \/ StartTransmission \/ BeginImmediatePttRelease => \E kinds \in Batches : Order(kinds)
      BY DEF Connects, StartTransmission, BeginImmediatePttRelease, Batches
    <3>2. Disconnected => \E kinds \in Batches : Order(kinds)
      BY DisconnectedOrders DEF Batches
    <3> QED BY <2>1, <2>2, <3>1, <3>2 DEF Client
  <2>3. CASE RouteChanges \/ AskForRecording
    <3>1. \E kinds \in Batches : Order(kinds)
      BY <2>3 DEF RouteChanges, AskForRecording, Batches
    <3> QED BY <2>1, <3>1
  <2>4. CASE TakeEvent
    BY <1>1, <2>4, FirstIs DEF TakeEvent
  <2>5. CASE Deliver
    BY <1>1, <2>5, Delivered
  <2>6. CASE SetupAudioInput \/ AudioReady \/ StartRecording \/ Halt \/ Join \/ Open \/ Answer
    BY <1>1, <2>6 DEF SetupAudioInput, AudioReady, StartRecording, Halt, Join, Open, Answer
  <2>7. CASE StopRecording \/ Drain \/ ResetAudioMode \/ ReleaseCapture
    BY <1>1, <2>7 DEF StopRecording, Drain, ResetAudioMode, ReleaseCapture
  <2>8. CASE Attach \/ LoopTop \/ Read \/ UNCHANGED vars
    BY <1>1, <2>8 DEF Attach, LoopTop, Read, vars
  <2> QED BY <2>2, <2>3, <2>4, <2>5, <2>6, <2>7, <2>8 DEF Next, Engine, CaptureLoop
<1> QED BY <1>2, <1>3 DEF QueueFits

LEMMA MoreFits ==
  ASSUME NEW top \in Nat, NEW c \in 0..top, NEW b \in Nat, NEW g \in 0..b, c + b <= top
  PROVE  c + g \in 0..top /\ g <= c + g
OBVIOUS

LEMMA NativeKept ==
  ASSUME NativeTypes, ThreadFits, [Next]_vars
  PROVE  NativeFits'
<1> USE DEF NativeTypes
<1>1. CASE Attach \/ LoopTop \/ Halt \/ Join \/ Open
  BY <1>1 DEF Attach, LoopTop, Halt, Join, Open, StartAndroidCaptureInput, NativeFits, Threads
<1>2. CASE Read
  <2>1. /\ got \in 0..MaxBlock /\ captured \in 0..MaxSamples /\ got = 0
        /\ MaxBlock \in Nat /\ MaxSamples \in Nat
    BY <1>2, Sizes DEF Read, NativeFits, ThreadFits
  <2>2. got' \in 0..(IF captured + MaxBlock <= MaxSamples THEN MaxBlock ELSE 0)
    BY <1>2, <2>1 DEF Read
  <2>3. captured' = captured + got'
    BY <1>2 DEF Read
  <2>4. got' \in 0..MaxBlock /\ captured' \in 0..MaxSamples /\ got' <= captured'
    <3>1. CASE captured + MaxBlock <= MaxSamples
      <4>1. got' \in 0..MaxBlock
        BY <2>2, <3>1
      <4>3. captured + got' \in 0..MaxSamples /\ got' <= captured + got'
        BY <2>1, <3>1, <4>1, MoreFits
      <4> QED BY <2>3, <4>1, <4>3
    <3>2. CASE ~(captured + MaxBlock <= MaxSamples)
      <4>1. got' \in 0..0
        BY <2>2, <3>2
      <4> QED BY <2>1, <2>3, <4>1
    <3> QED BY <3>1, <3>2
  <2> QED BY <1>2, <2>4 DEF Read, NativeFits, Threads
<1>3. CASE Deliver
  <2>1. got' = 0 /\ UNCHANGED captured
    BY <1>3 DEF Deliver
  <2>2. thread' \in Threads
    BY <1>3 DEF Deliver, Leaves, Threads
  <2>3. got' \in 0..MaxBlock /\ got' <= captured'
    BY <2>1, Sizes DEF NativeFits
  <2> QED BY <1>3, <2>1, <2>2, <2>3 DEF Deliver, NativeFits
<1>4. CASE UNCHANGED native
  BY <1>4 DEF native, NativeFits
<1>5. CASE Client \/ RouteChanges \/ TakeEvent \/ SetupAudioInput \/ AskForRecording \/ AudioReady
  BY <1>4, <1>5 DEF Client, Connects, StartTransmission, BeginImmediatePttRelease, Disconnected,
    RouteChanges, TakeEvent, SetupAudioInput, AskForRecording, AudioReady
<1>6. CASE StartRecording \/ Answer \/ StopRecording \/ Drain \/ ResetAudioMode \/ ReleaseCapture
  BY <1>4, <1>6 DEF StartRecording, Answer, StopRecording, Drain, ResetAudioMode, ReleaseCapture
<1> QED BY <1>1, <1>2, <1>3, <1>4, <1>5, <1>6 DEF Next, Engine, CaptureLoop, vars

LEMMA DeviceKept ==
  ASSUME NativeTypes, [Next]_vars
  PROVE  DeviceFits'
<1> USE DEF NativeTypes, Bluetooth
<1>1. CASE Halt
  BY <1>1 DEF Halt, StopCapture, DeviceFits
<1>2. CASE Open
  <2>1. CASE StartCapture
    BY <1>2, <2>1 DEF Open, StartCapture, DeviceFits
  <2>2. CASE StartCaptureFails
    BY <1>2, <2>2 DEF Open, StartCaptureFails, DeviceFits
  <2> QED BY <1>2, <2>1, <2>2 DEF Open, StartAndroidCaptureInput
<1>3. CASE RouteChanges
  BY <1>3 DEF RouteChanges, device, DeviceFits
<1>4. CASE SetupAudioInput \/ StartRecording \/ Drain \/ ResetAudioMode \/ ReleaseCapture
  BY <1>4 DEF SetupAudioInput, PrepareCapture, StartRecording, Drain, ResetAudioMode,
    ReleaseCapture, DeviceFits
<1>5. CASE UNCHANGED <<device, route>>
  BY <1>5 DEF device, DeviceFits
<1>6. CASE Client \/ TakeEvent \/ AskForRecording \/ AudioReady \/ Answer \/ StopRecording \/ Join
  BY <1>5, <1>6 DEF Client, Connects, StartTransmission, BeginImmediatePttRelease, Disconnected,
    TakeEvent, AskForRecording, AudioReady, Answer, StopRecording, Join
<1>7. CASE CaptureLoop
  BY <1>5, <1>7 DEF CaptureLoop, Attach, LoopTop, Read, Deliver, elsewhere
<1> QED BY <1>1, <1>2, <1>3, <1>4, <1>5, <1>6, <1>7 DEF Next, Engine, vars

\* Framing keeps the types: whole frames are sent, and what is kept was there.
LEMMA Cut ==
  ASSUME NEW S, NEW s \in Seq(S), NEW k \in 0..Len(s)
  PROVE  /\ SubSeq(s, 1, k) \in Seq(S) /\ Len(SubSeq(s, 1, k)) = k
         /\ \A i \in 1..k : SubSeq(s, 1, k)[i] = s[i]
         /\ SubSeq(s, k + 1, Len(s)) \in Seq(S) /\ Len(SubSeq(s, k + 1, Len(s))) = Len(s) - k
         /\ \A i \in 1..(Len(s) - k) : SubSeq(s, k + 1, Len(s))[i] = s[k + i]
<1>1. /\ SubSeq(s, 1, k) \in Seq(S) /\ Len(SubSeq(s, 1, k)) = k
      /\ \A i \in 1..k : SubSeq(s, 1, k)[i] = s[i]
  OBVIOUS
<1>2. /\ SubSeq(s, k + 1, Len(s)) \in Seq(S) /\ Len(SubSeq(s, k + 1, Len(s))) = Len(s) - k
      /\ \A i \in 1..(Len(s) - k) : SubSeq(s, k + 1, Len(s))[i] = s[k + i]
  OBVIOUS
<1> QED BY <1>1, <1>2

LEMMA Joining ==
  ASSUME NEW S, NEW s \in Seq(S), NEW t \in Seq(S)
  PROVE  /\ s \o t \in Seq(S) /\ Len(s \o t) = Len(s) + Len(t)
         /\ \A i \in 1..Len(s) : (s \o t)[i] = s[i]
         /\ \A i \in 1..Len(t) : (s \o t)[Len(s) + i] = t[i]
<1>1. /\ s \o t \in Seq(S) /\ Len(s \o t) = Len(s) + Len(t)
      /\ \A i \in 1..Len(s) + Len(t) :
           (s \o t)[i] = IF i <= Len(s) THEN s[i] ELSE t[i - Len(s)]
  OBVIOUS
<1>2. Len(s) \in Nat /\ Len(t) \in Nat
  OBVIOUS
<1>3. \A i \in 1..Len(s) : (s \o t)[i] = s[i]
  BY <1>1, <1>2
<1>4. ASSUME NEW i \in 1..Len(t) PROVE (s \o t)[Len(s) + i] = t[i]
  <2>1. Len(s) + i \in 1..Len(s) + Len(t) /\ ~(Len(s) + i <= Len(s)) /\ Len(s) + i - Len(s) = i
    BY <1>2
  <2> QED BY <1>1, <2>1
<1> QED BY <1>1, <1>3, <1>4

LEMMA WholeFrames ==
  ASSUME wire \in Seq(0..MaxSamples), Len(wire) % FrameSize = 0,
         NEW s \in Seq(0..MaxSamples), NEW k \in 0..(Len(s) \div FrameSize),
         wire' = wire \o SubSeq(s, 1, k * FrameSize)
  PROVE  wire' \in Seq(0..MaxSamples) /\ Len(wire') % FrameSize = 0
<1>1. Len(s) \in Nat /\ Len(wire) \in Nat /\ FrameSize \in Nat \ {0} /\ k \in Nat
  BY Sizes
<1> DEFINE n == k * FrameSize
           sent == SubSeq(s, 1, n)
<1>2. n \in 0..Len(s)
  BY <1>1, Whole
<1>3. wire' = wire \o sent
  OBVIOUS
<1>4. (Len(wire) + n) % FrameSize = 0
  BY <1>1, WholeAdd
<1> HIDE DEF n
<1>5. sent \in Seq(0..MaxSamples) /\ Len(sent) = n
  <2>1. ASSUME NEW S, s \in Seq(S) PROVE SubSeq(s, 1, n) \in Seq(S) /\ Len(SubSeq(s, 1, n)) = n
    BY <1>2, <2>1, Cut
  <2> QED BY <2>1
<1> HIDE DEF sent
<1>6. wire' \in Seq(0..MaxSamples) /\ Len(wire') = Len(wire) + n
  BY <1>3, <1>5, Joining
<1> QED BY <1>4, <1>6

LEMMA SeqWidens ==
  ASSUME NEW S, NEW T, S \subseteq T, NEW s \in Seq(S)
  PROVE  s \in Seq(T)
<1>1. s = [i \in 1..Len(s) |-> s[i]] /\ Len(s) \in Nat /\ \A i \in 1..Len(s) : s[i] \in T
  OBVIOUS
<1> QED BY <1>1

LEMMA Constantly ==
  ASSUME NEW S, NEW x \in S, NEW n \in Nat
  PROVE  LET s == [i \in 1..n |-> x] IN
         s \in Seq(S) /\ Len(s) = n /\ \A i \in 1..n : s[i] = x
OBVIOUS

LEMMA NumbersAre == Seq(Numbers) \subseteq Seq(0..MaxSamples)
<1>1. Numbers \subseteq 0..MaxSamples
  BY Sizes DEF Numbers
<1> QED BY <1>1, SeqWidens

LEMMA EncodeFits ==
  ASSUME CodecFits, NEW s \in Seq(Numbers), EncodeReady(s)
  PROVE  wire' \in Seq(0..MaxSamples) /\ Len(wire') % FrameSize = 0 /\ pending' \in Seq(Numbers)
<1>1. PICK k \in 0..(Len(s) \div FrameSize) :
        /\ wire' = wire \o SubSeq(s, 1, k * FrameSize)
        /\ pending' = SubSeq(s, k * FrameSize + 1, Len(s))
  BY DEF EncodeReady
<1>2. s \in Seq(0..MaxSamples)
  BY NumbersAre
<1>3. wire' \in Seq(0..MaxSamples) /\ Len(wire') % FrameSize = 0
  BY <1>1, <1>2, WholeFrames DEF CodecFits
<1>4. k * FrameSize \in 0..Len(s)
  <2>1. Len(s) \in Nat
    OBVIOUS
  <2> QED BY <2>1, Whole, Sizes
<1>5. pending' \in Seq(Numbers)
  BY <1>1, <1>4, Cut
<1> QED BY <1>3, <1>5

\* What is left and its padding.
Left == pending \o startup
Padded ==
  IF Left # <<>> /\ FrameSize - Len(Left) > 0
  THEN Left \o [i \in 1..(FrameSize - Len(Left)) |-> 0] ELSE Left

LEMMA LeftIs ==
  ASSUME CodecFits
  PROVE  Left \in Seq(Numbers) /\ Left \in Seq(0..MaxSamples) /\ Len(Left) = Len(pending) + Len(startup)
<1>1. Left \in Seq(Numbers) /\ Len(Left) = Len(pending) + Len(startup)
  BY Joining DEF CodecFits, Left
<1> QED BY <1>1, NumbersAre

LEMMA PaddedIs ==
  ASSUME CodecFits
  PROVE  /\ Padded \in Seq(0..MaxSamples) /\ Len(Padded) >= Len(Left)
         /\ \A i \in 1..Len(Left) : Padded[i] = Left[i]
         /\ \A i \in 1..Len(Padded) : i > Len(Left) => Padded[i] = 0
<1>1. Left \in Seq(0..MaxSamples) /\ Len(Left) \in Nat
  <2>1. Left \in Seq(0..MaxSamples)
    BY LeftIs
  <2> QED BY <2>1
<1> DEFINE short == FrameSize - Len(Left)
           zeros == [i \in 1..short |-> 0]
<1>2. CASE Left # <<>> /\ short > 0
  <2>1. Padded = Left \o zeros
    BY <1>2 DEF Padded
  <2>2. short \in Nat
    BY <1>1, <1>2, Sizes
  <2>3. zeros \in Seq(0..MaxSamples) /\ Len(zeros) = short /\ \A i \in 1..short : zeros[i] = 0
    <3>1. 0 \in 0..MaxSamples
      BY Sizes
    <3> QED BY <2>2, <3>1, Constantly
  <2> HIDE DEF zeros, short
  <2>4. /\ Padded \in Seq(0..MaxSamples) /\ Len(Padded) = Len(Left) + short
        /\ \A i \in 1..Len(Left) : Padded[i] = Left[i]
        /\ \A i \in 1..short : Padded[Len(Left) + i] = 0
    <3>1. Left \in Seq(0..MaxSamples) /\ zeros \in Seq(0..MaxSamples)
      BY <1>1, <2>3
    <3>2. /\ Left \o zeros \in Seq(0..MaxSamples) /\ Len(Left \o zeros) = Len(Left) + Len(zeros)
          /\ \A i \in 1..Len(Left) : (Left \o zeros)[i] = Left[i]
      BY <3>1, Joining
    <3>3. \A i \in 1..Len(zeros) : (Left \o zeros)[Len(Left) + i] = zeros[i]
      BY <3>1, Joining
    <3> QED BY <2>1, <2>3, <3>2, <3>3
  <2>5. ASSUME NEW i \in 1..Len(Padded), i > Len(Left) PROVE Padded[i] = 0
    <3>1. i - Len(Left) \in 1..short /\ Len(Left) + (i - Len(Left)) = i
      BY <1>1, <2>2, <2>4, <2>5
    <3> QED BY <2>4, <3>1
  <2> QED BY <1>1, <2>2, <2>4, <2>5
<1>3. CASE ~(Left # <<>> /\ short > 0)
  <2>1. Padded = Left
    BY <1>3 DEF Padded
  <2> QED BY <1>1, <2>1
<1> QED BY <1>2, <1>3

LEMMA Flushed ==
  ASSUME CodecFits, FlushPending
  PROVE  /\ \E k \in 0..(Len(Padded) \div FrameSize) :
              wire' = wire \o SubSeq(Padded, 1, k * FrameSize)
         /\ pending' = <<>> /\ startup' = <<>> /\ priming' = FALSE
BY DEF FlushPending, Padded, Left

LEMMA FlushFits ==
  ASSUME CodecFits, FlushPending, recording' \in BOOLEAN
  PROVE  CodecFits'
<1>1. PICK k \in 0..(Len(Padded) \div FrameSize) : wire' = wire \o SubSeq(Padded, 1, k * FrameSize)
  BY Flushed
<1>2. Padded \in Seq(0..MaxSamples)
  BY PaddedIs
<1>3. wire' \in Seq(0..MaxSamples) /\ Len(wire') % FrameSize = 0
  BY <1>1, <1>2, WholeFrames DEF CodecFits
<1>4. pending' = <<>> /\ startup' = <<>> /\ priming' = FALSE
  BY Flushed
<1>5. pending' \in Seq(Numbers) /\ startup' \in Seq(Numbers)
  BY <1>4
<1>6. Len(startup') < LeadInFrames * FrameSize
  <2> DEFINE most == LeadInFrames * FrameSize
  <2>1. most \in Nat \ {0}
    BY LeadIn
  <2> HIDE DEF most
  <2>2. Len(startup') < most
    BY <1>4, <2>1
  <2> QED BY <2>2 DEF most
<1> QED BY <1>3, <1>4, <1>5, <1>6 DEF CodecFits

LEMMA CodecKept ==
  ASSUME NativeTypes, Fits, [Next]_vars
  PROVE  CodecFits'
<1> USE DEF NativeTypes
<1>1. <<>> \in Seq(Numbers) /\ Len(<<>>) = 0
  OBVIOUS
<1>2. 0 < LeadInFrames * FrameSize
  BY LeadIn
<1>3. CASE TakeEvent
  <2>1. CASE UNCHANGED codec
    BY <2>1 DEF codec, CodecFits
  <2>2. CASE codec' # codec
    <3>1. ProcessCaptured(Head(queue).samples) /\ queue # <<>> /\ Head(queue).kind = "block"
      BY <1>3, <2>2 DEF TakeEvent
    <3>2. Head(queue).samples \in Seq(Numbers)
      BY <3>1, FirstIs DEF QueueFits
    <3> DEFINE block == Head(queue).samples
    <3> HIDE DEF block
    <3>3. block \in Seq(Numbers) /\ ProcessCaptured(block)
      BY <3>1, <3>2 DEF block
    <3>4. startup \o block \in Seq(Numbers) /\ Len(startup \o block) = Len(startup) + Len(block)
      BY <3>3, Joining DEF CodecFits
    <3>5. pending \o startup \in Seq(Numbers)
      BY Joining DEF CodecFits
    <3>6. pending \o startup \o block \in Seq(Numbers)
      BY <3>3, <3>5, Joining
    <3>7. CASE Len(startup) + Len(block) < LeadInFrames * FrameSize /\ startup' = startup \o block
               /\ UNCHANGED <<recording, priming, pending, wire>>
      BY <3>4, <3>7 DEF CodecFits
    <3>8. CASE priming' = FALSE /\ startup' = <<>> /\ EncodeReady(pending \o startup \o block)
               /\ UNCHANGED recording
      <4>1. wire' \in Seq(0..MaxSamples) /\ Len(wire') % FrameSize = 0 /\ pending' \in Seq(Numbers)
        BY <3>6, <3>8, EncodeFits
      <4> QED BY <1>1, <1>2, <3>8, <4>1 DEF CodecFits
    <3> QED BY <3>3, <3>7, <3>8, <2>2 DEF ProcessCaptured, codec
  <2> QED BY <2>1, <2>2
<1>4. CASE StartRecording \/ Open \/ ReleaseCapture
  <2>1. recording' \in BOOLEAN /\ priming' \in BOOLEAN
    BY <1>4 DEF StartRecording, Open, StartAndroidCaptureInput, ReleaseCapture, codec, CodecFits
  <2>2. \/ UNCHANGED <<startup, pending, wire>>
        \/ startup' = <<>> /\ pending' = <<>> /\ UNCHANGED wire
    BY <1>4 DEF StartRecording, Open, StartAndroidCaptureInput, ReleaseCapture, codec
  <2> QED BY <1>1, <1>2, <2>1, <2>2 DEF CodecFits
<1>5. CASE Drain
  <2>1. FlushPending /\ recording' \in BOOLEAN
    BY <1>5 DEF Drain
  <2> QED BY <2>1, FlushFits
<1>6. CASE StopRecording
  <2>1. CASE FlushPending /\ recording' = FALSE
    BY <2>1, FlushFits
  <2>2. CASE priming' = FALSE /\ startup' = <<>> /\ UNCHANGED <<recording, pending, wire>>
    BY <1>1, <1>2, <2>2 DEF CodecFits
  <2>3. CASE UNCHANGED codec
    BY <2>3 DEF codec, CodecFits
  <2> QED BY <1>6, <2>1, <2>2, <2>3 DEF StopRecording
<1>7. CASE UNCHANGED codec
  BY <1>7 DEF codec, CodecFits
<1>8. CASE Client \/ RouteChanges \/ SetupAudioInput \/ AskForRecording \/ AudioReady \/ Halt \/ Join
  BY <1>7, <1>8 DEF Client, Connects, StartTransmission, BeginImmediatePttRelease, Disconnected,
    RouteChanges, SetupAudioInput, AskForRecording, AudioReady, Halt, Join
<1>9. CASE Answer \/ ResetAudioMode \/ CaptureLoop
  BY <1>7, <1>9 DEF Answer, ResetAudioMode, CaptureLoop, Attach, LoopTop, Read, Deliver, elsewhere
<1> QED BY <1>3, <1>4, <1>5, <1>6, <1>7, <1>8, <1>9 DEF Next, Engine, vars

LEMMA NativeTypesKept ==
  ASSUME NativeTypes, Fits, [Next]_vars
  PROVE  NativeTypes'
<1>1. ThreadFits
  BY DEF Fits
<1> QED BY <1>1, QueueKept, CodecKept, NativeKept, DeviceKept DEF NativeTypes

LEMMA NativeAtFirst == Init => NativeTypes /\ Fits
<1> SUFFICES ASSUME Init PROVE NativeTypes /\ Fits
  OBVIOUS
<1>1. <<>> \in Seq(Numbers) /\ <<>> \in Seq(0..MaxSamples) /\ <<>> \in Seq(Events) /\ Len(<<>>) = 0
  OBVIOUS
<1>2. 0 % FrameSize = 0 /\ 0 \in 0..MaxBlock /\ 0 \in 0..MaxSamples /\ 0 <= 0
  BY Sizes
<1>3. QueueFits /\ CodecFits
  <2>1. wire = <<>> /\ Len(wire) = 0 /\ startup = <<>> /\ Len(startup) = 0
    BY <1>1 DEF Init
  <2>2. Len(wire) % FrameSize = 0
    BY <1>2, <2>1
  <2>3. 0 < LeadInFrames * FrameSize
    BY LeadIn
  <2> QED BY <1>1, <2>1, <2>2, <2>3 DEF Init, QueueFits, CodecFits, Clients
<1>4. NativeFits /\ DeviceFits
  BY <1>2 DEF Init, NativeFits, DeviceFits, Threads, Bluetooth
<1>5. todo \in Rest
  BY DEF Init, Rest
<1>6. CallsFit
  <2>1. /\ todo \in Todos
        /\ todo \notin HaltStop \union JoinStop \union DrainStop \union Opening \union Cleaning
    BY DEF Init, Todos, Rest, HaltStop, JoinStop, DrainStop, Opening, HaltOpen, JoinOpen, OpenNow,
      Cleaning
  <2> QED BY <2>1 DEF CallsFit, Init
<1>7. ThreadFits
  BY <1>6 DEF Init, ThreadFits, Live
<1>8. Hardware
  <2>1. todo \notin DrainStop \union Opening \union JoinStop
    BY DEF Init, JoinStop, DrainStop, Opening, HaltOpen, JoinOpen, OpenNow
  <2> QED BY <2>1 DEF Init, Hardware, Silent, Stopped
<1> QED BY <1>3, <1>4, <1>6, <1>7, <1>8 DEF NativeTypes, Fits

LEMMA FitsAlone ==
  ASSUME Fits, UNCHANGED <<todo, recording, native, device>>
  PROVE  Fits'
<1>1. CallsFit'
  BY DEF Fits, CallsFit, Todos
<1>2. ThreadFits'
  BY DEF Fits, ThreadFits, native
<1>3. Hardware'
  BY DEF Fits, Hardware, Silent, Stopped, Running, native, device
<1> QED BY <1>1, <1>2, <1>3 DEF Fits

\* The capture thread's steps.
LEMMA FitsInLoop ==
  ASSUME NativeTypes, Fits, CaptureLoop
  PROVE  Fits'
<1>1. UNCHANGED <<todo, recording, device>>
  BY DEF CaptureLoop, Attach, LoopTop, Read, Deliver, elsewhere, codec
<1>2. CallsFit /\ ThreadFits /\ Hardware
  BY DEF Fits
<1>3. CallsFit'
  BY <1>1, <1>2 DEF CallsFit, Todos
<1>4. stopAsked \in BOOLEAN /\ stopAfter \in BOOLEAN /\ capturing \in BOOLEAN /\ thread \in Threads
  BY DEF NativeTypes, NativeFits
<1>5. thread \in Live /\ capturing /\ recording /\ todo \notin DrainStop \union Opening
  BY <1>2, <1>4 DEF CaptureLoop, Attach, LoopTop, Read, Deliver, Live, ThreadFits
<1>6. ThreadFits'
  <2>1. UNCHANGED stopAsked
    BY DEF CaptureLoop, Attach, LoopTop, Read, Deliver
  <2>2. ~capturing' => thread' \notin Live
    BY <1>5 DEF CaptureLoop, Attach, LoopTop, Read, Deliver, Live
  <2>3. thread' # "read" => got' = 0
    BY <1>2, <1>4 DEF CaptureLoop, Attach, LoopTop, Read, Deliver, ThreadFits
  <2>4. stopAsked => todo \in JoinStop \union JoinOpen \union {<<"join", "free">>}
    BY <1>2 DEF ThreadFits
  <2> QED BY <1>1, <1>5, <2>1, <2>2, <2>3, <2>4 DEF ThreadFits
<1>7. todo \in Rest \union HaltStop => ~stopAsked
  <2>1. todo \in Rest \union HaltStop =>
          todo \notin JoinStop \union JoinOpen \union {<<"join", "free">>}
    BY Apart DEF Opening, Freeing
  <2> QED BY <1>2, <2>1 DEF ThreadFits
<1>8. Hardware'
  <2> SUFFICES ASSUME ~unattached' PROVE Hardware'
    BY DEF Hardware
  <2>1. ~unattached
    BY DEF CaptureLoop, Attach, LoopTop, Read, Deliver
  <2>2. todo \in JoinStop => Stopped'
    BY <1>1, <1>2, <2>1 DEF Hardware, Stopped, device
  <2>3. todo \in Rest \union HaltStop => Running'
    <3> SUFFICES ASSUME todo \in Rest \union HaltStop PROVE Running'
      OBVIOUS
    <3>1. Running /\ ~stopAsked
      BY <1>2, <1>5, <1>7, <2>1 DEF Hardware
    <3>2. CASE Attach
      BY <1>1, <3>1, <3>2 DEF Attach, Running, Live, device
    <3>3. CASE LoopTop
      BY <1>1, <3>1, <3>3 DEF LoopTop, Running, Live, device
    <3>4. CASE Read
      BY <1>1, <3>1, <3>4 DEF Read, Running, Live, device
    <3>5. CASE Deliver
      BY <1>1, <3>1, <3>5 DEF Deliver, Leaves, Running, Live, device
    <3> QED BY <3>2, <3>3, <3>4, <3>5 DEF CaptureLoop
  <2> QED BY <1>1, <1>5, <2>2, <2>3 DEF Hardware
<1> QED BY <1>3, <1>6, <1>8 DEF Fits

\* A call after which the engine is still between the sequences.
LEMMA FitsAtRest ==
  ASSUME Fits, todo \in Rest, todo' \in Rest, CallsFit', UNCHANGED <<recording, native>>,
         \/ UNCHANGED <<record, recordRoute, held, saved>>
         \/ ~recording /\ (record # "recording" => record' # "recording") /\ UNCHANGED <<held, saved>>,
         mode' = mode \/ mode' = "normal"
  PROVE  Fits'
<1>1. /\ todo' \notin HaltStop \union JoinStop \union DrainStop \union Opening
      /\ todo' \notin JoinStop \union JoinOpen \union {<<"join", "free">>}
  BY Apart DEF Opening, Freeing
<1>2. todo \notin JoinStop \union JoinOpen \union {<<"join", "free">>}
  BY Apart DEF Opening, Freeing
<1>3. ThreadFits'
  BY <1>1, <1>2 DEF Fits, ThreadFits, native
<1>4. Hardware'
  <2> SUFFICES ASSUME ~unattached PROVE Hardware'
    BY DEF Hardware, native
  <2>1. (~recording => Silent /\ mode = "normal") /\ (recording => Running)
    BY DEF Fits, Hardware
  <2>2. ~recording => Silent' /\ mode' = "normal"
    BY <2>1 DEF Silent, Stopped, native
  <2>3. recording => Running'
    BY <2>1 DEF Running, native
  <2> QED BY <1>1, <2>2, <2>3 DEF Hardware
<1> QED BY <1>3, <1>4 DEF Fits

LEMMA Cleared ==
  /\ <<"quiet">> \o <<>> \o <<"halt", "join", "free">> = <<"quiet", "halt", "join", "free">>
  /\ <<"quiet">> \o <<"stop">> \o <<"halt", "join", "free">>
       = <<"quiet", "stop", "halt", "join", "free">>
<1>1. <<"quiet">> \o <<>> = <<"quiet">>
  <2>1. ASSUME NEW a PROVE <<a>> \o <<>> = <<a>>
    OBVIOUS
  <2> QED BY <2>1
<1>2. ASSUME NEW a, NEW b PROVE <<a>> \o <<b>> = <<a, b>>
  <2> DEFINE s == <<a>> \o <<b>>
             t == <<a, b>>
  <2>1. s \in Seq({a, b}) /\ Len(s) = 2 /\ s[1] = a /\ s[2] = b
    OBVIOUS
  <2>2. t \in Seq({a, b}) /\ Len(t) = 2 /\ t[1] = a /\ t[2] = b
    OBVIOUS
  <2>3. \A i \in 1..2 : s[i] = t[i]
    BY <2>1, <2>2
  <2> HIDE DEF s, t
  <2>4. s = t
    BY <2>1, <2>2, <2>3
  <2> QED BY <2>4 DEF s, t
<1>3. ASSUME NEW a, NEW b, NEW c, NEW d PROVE <<a>> \o <<b, c, d>> = <<a, b, c, d>>
  <2> DEFINE s == <<a>> \o <<b, c, d>>
             t == <<a, b, c, d>>
  <2>1. /\ s \in Seq({a, b, c, d}) /\ Len(s) = 4
        /\ s[1] = a /\ s[2] = b /\ s[3] = c /\ s[4] = d
    OBVIOUS
  <2>2. /\ t \in Seq({a, b, c, d}) /\ Len(t) = 4
        /\ t[1] = a /\ t[2] = b /\ t[3] = c /\ t[4] = d
    OBVIOUS
  <2>3. \A i \in 1..4 : s[i] = t[i]
    BY <2>1, <2>2
  <2> HIDE DEF s, t
  <2>4. s = t
    BY <2>1, <2>2, <2>3
  <2> QED BY <2>4 DEF s, t
<1>4. ASSUME NEW a, NEW b, NEW c, NEW d, NEW e PROVE <<a, b>> \o <<c, d, e>> = <<a, b, c, d, e>>
  <2> DEFINE s == <<a, b>> \o <<c, d, e>>
             t == <<a, b, c, d, e>>
  <2>1. /\ s \in Seq({a, b, c, d, e}) /\ Len(s) = 5
        /\ s[1] = a /\ s[2] = b /\ s[3] = c /\ s[4] = d /\ s[5] = e
    OBVIOUS
  <2>2. /\ t \in Seq({a, b, c, d, e}) /\ Len(t) = 5
        /\ t[1] = a /\ t[2] = b /\ t[3] = c /\ t[4] = d /\ t[5] = e
    OBVIOUS
  <2>3. \A i \in 1..5 : s[i] = t[i]
    BY <2>1, <2>2
  <2> HIDE DEF s, t
  <2>4. s = t
    BY <2>1, <2>2, <2>3
  <2> QED BY <2>4 DEF s, t
<1>5. <<"quiet">> \o <<"halt", "join", "free">> = <<"quiet", "halt", "join", "free">>
  BY <1>3
<1>6. <<"quiet">> \o <<"stop">> = <<"quiet", "stop">>
  BY <1>2
<1>7. <<"quiet", "stop">> \o <<"halt", "join", "free">> = <<"quiet", "stop", "halt", "join", "free">>
  BY <1>4
<1> QED BY <1>1, <1>5, <1>6, <1>7

\* The event taken and the calls it stands for.
LEMMA Taken ==
  ASSUME QueueFits, TakeEvent
  PROVE  /\ todo = <<>> /\ queue # <<>> /\ queue' = Tail(queue)
         /\ UNCHANGED <<clientVars, native, device, route, routes>>
         /\ \/ /\ Head(queue).kind = "block" /\ Head(queue).samples \in Seq(Numbers)
               /\ ProcessCaptured(Head(queue).samples) /\ UNCHANGED <<todo, first>>
            \/ /\ UNCHANGED <<codec, faults>>
               /\ \/ /\ Head(queue).kind = "setup" /\ UNCHANGED first
                     /\ todo' \in {<<"warm", "ready">>, <<"ready">>}
                  \/ /\ Head(queue).kind = "warm" /\ UNCHANGED first
                     /\ todo' = <<"warm", "warmed">>
                  \/ /\ Head(queue).kind = "start" /\ first' = captured + 1
                     /\ todo' = <<"start", "answer">>
                  \/ Head(queue).kind = "stop" /\ UNCHANGED first /\ todo' = <<"stop">>
                  \/ /\ Head(queue).kind = "cleanup" /\ UNCHANGED first
                     /\ \/ recording /\ todo' = <<"quiet", "stop", "halt", "join", "free">>
                        \/ ~recording /\ todo' = <<"quiet", "halt", "join", "free">>
                  \/ /\ Head(queue).kind = "route" /\ UNCHANGED first
                     /\ \/ recording /\ todo' = <<"stop", "start">>
                        \/ ~recording /\ todo' = <<>>
<1>1. /\ todo = <<>> /\ queue # <<>> /\ queue' = Tail(queue)
      /\ UNCHANGED <<clientVars, native, device, route, routes>>
  BY DEF TakeEvent
<1>2. CASE Head(queue).kind = "block"
  <2>1. Head(queue).samples \in Seq(Numbers)
    BY <1>1, <1>2, FirstIs DEF QueueFits
  <2> QED BY <1>1, <1>2, <2>1 DEF TakeEvent
<1>3. CASE Head(queue).kind # "block"
  <2>1. /\ todo' \in Calls(Head(queue).kind) /\ UNCHANGED <<codec, faults>>
        /\ first' = IF Head(queue).kind = "start" THEN captured + 1 ELSE first
    BY <1>3 DEF TakeEvent
  <2>2. Head(queue).kind \in Orders
    BY <1>1, <1>3, FirstIs DEF QueueFits
  <2>3. Head(queue).kind = "cleanup" =>
          \/ recording /\ todo' = <<"quiet", "stop", "halt", "join", "free">>
          \/ ~recording /\ todo' = <<"quiet", "halt", "join", "free">>
    BY <2>1, Cleared DEF Calls
  <2>4. Head(queue).kind = "route" =>
          \/ recording /\ todo' = <<"stop", "start">>
          \/ ~recording /\ todo' = <<>>
    BY <2>1 DEF Calls
  <2>5. /\ Head(queue).kind = "setup" => todo' \in {<<"warm", "ready">>, <<"ready">>}
        /\ Head(queue).kind = "warm" => todo' = <<"warm", "warmed">>
        /\ Head(queue).kind = "start" => todo' = <<"start", "answer">>
        /\ Head(queue).kind = "stop" => todo' = <<"stop">>
    BY <2>1 DEF Calls
  <2>6. Head(queue).kind # "start" => UNCHANGED first
    BY <2>1
  <2> DEFINE kind == Head(queue).kind
  <2>7. kind \in {"setup", "warm", "start", "stop", "cleanup", "route"}
    BY <2>2 DEF Orders
  <2> HIDE DEF kind
  <2> QED BY <1>1, <2>1, <2>3, <2>4, <2>5, <2>6, <2>7 DEF kind
<1> QED BY <1>1, <1>2, <1>3

LEMMA FitsTaken ==
  ASSUME NativeTypes, Fits, TakeEvent,
         Head(queue).kind \in {"setup", "warm"} => ~recording
  PROVE  Fits'
<1>1. todo = <<>> /\ UNCHANGED <<native, device>>
  BY Taken DEF NativeTypes
<1>2. todo \in Rest
  BY <1>1 DEF Rest
<1>3. UNCHANGED recording
  BY DEF TakeEvent, ProcessCaptured, codec
<1>4. todo' \in Rest
  BY <1>1, Taken DEF NativeTypes, Rest, Warming, Cleaning
<1>5. CallsFit'
  <2>1. todo' \notin HaltStop \union JoinStop \union DrainStop \union Opening \union Freeing
    BY <1>4, Apart DEF Opening
  <2>2. todo' \in Cleaning => recording
    <3>1. /\ <<>> \notin Cleaning /\ <<"warm", "ready">> \notin Cleaning
          /\ <<"ready">> \notin Cleaning /\ <<"warm", "warmed">> \notin Cleaning
          /\ <<"start", "answer">> \notin Cleaning /\ <<"stop">> \notin Cleaning
          /\ <<"quiet", "halt", "join", "free">> \notin Cleaning
      BY DEF Cleaning
    <3>2. recording \/ todo' \in {<<>>, <<"warm", "ready">>, <<"ready">>, <<"warm", "warmed">>,
            <<"start", "answer">>, <<"stop">>, <<"quiet", "halt", "join", "free">>}
      BY <1>1, Taken DEF NativeTypes
    <3> QED BY <3>1, <3>2
  <2>3. todo' \in Warming \union {<<"quiet", "halt", "join", "free">>} => ~recording
    <3>1. CASE Head(queue).kind \in {"setup", "warm"}
      BY <3>1
    <3>2. CASE Head(queue).kind \notin {"setup", "warm"}
      <4> DEFINE these == Warming \union {<<"quiet", "halt", "join", "free">>}
      <4>1. /\ <<>> \notin these /\ <<"start", "answer">> \notin these /\ <<"stop">> \notin these
            /\ <<"quiet", "stop", "halt", "join", "free">> \notin these
            /\ <<"stop", "start">> \notin these
        BY DEF Warming
      <4>2. ~recording \/ todo' \in {<<>>, <<"start", "answer">>, <<"stop">>,
              <<"quiet", "stop", "halt", "join", "free">>, <<"stop", "start">>}
        BY <1>1, <3>2, Taken DEF NativeTypes
      <4> HIDE DEF these
      <4>3. todo' \in these => ~recording
        BY <4>1, <4>2
      <4> QED BY <4>3 DEF these
    <3> QED BY <3>1, <3>2
  <2> QED BY <1>3, <1>4, <2>1, <2>2, <2>3 DEF CallsFit, Todos
<1> QED BY <1>1, <1>2, <1>3, <1>4, <1>5, FitsAtRest DEF device

LEMMA RestFits ==
  ASSUME CallsFit, NEW t \in Rest, t \notin Cleaning \union Warming,
         t # <<"quiet", "halt", "join", "free">>, todo' = t
  PROVE  CallsFit' /\ todo' \in Rest
<1>1. t \notin HaltStop \union JoinStop \union DrainStop \union Opening \union Freeing
  BY Apart DEF Opening
<1> QED BY <1>1 DEF CallsFit, Todos

LEMMA FitsCalled ==
  ASSUME NativeTypes, Fits,
         SetupAudioInput \/ AskForRecording \/ AudioReady \/ Answer \/ ResetAudioMode
  PROVE  Fits'
<1>1. CallsFit /\ todo \in Todos
  BY DEF Fits, CallsFit
<1>2. CASE SetupAudioInput
  <2>1. /\ Call("warm") /\ todo' = Tail(todo)
        /\ UNCHANGED <<recording, native, held, saved, mode>>
        /\ record # "recording" => record' # "recording"
    BY <1>2 DEF SetupAudioInput, PrepareCapture, Done, codec
  <2>2. todo \in Warming /\ todo' \in {<<"ready">>, <<"warmed">>}
    BY <1>1, <2>1, CallWarm DEF Warming
  <2>3. ~recording
    BY <1>1, <2>2 DEF CallsFit
  <2>4. todo \in Rest /\ todo' \in Rest
    BY <2>2 DEF Rest, Warming
  <2>5. CallsFit'
    <3>1. <<"ready">> \in Rest /\ <<"warmed">> \in Rest
      BY DEF Rest, Warming
    <3>2. \A t \in {<<"ready">>, <<"warmed">>} :
            t \notin Cleaning \union HaltStop \union JoinStop \union DrainStop \union Opening
      BY <3>1, Apart DEF Cleaning, Opening
    <3> QED BY <2>1, <2>2, <2>3, <2>4, <3>2 DEF CallsFit, Todos
  <2> QED BY <2>1, <2>3, <2>4, <2>5, FitsAtRest
<1>3. CASE AskForRecording \/ AudioReady \/ Answer
  <2>1. todo' = Tail(todo) /\ UNCHANGED <<recording, native, device>>
    BY <1>3 DEF AskForRecording, AudioReady, Answer, Done, codec
  <2>2. todo \in {<<"warmed">>, <<"ready">>, <<"answer">>} /\ todo' = <<>>
    BY <1>1, <1>3, <2>1, CallAfterwards DEF AskForRecording, AudioReady, Answer
  <2>3. todo \in Rest /\ <<>> \in Rest /\ <<>> \notin Cleaning \union Warming
    BY <2>2 DEF Rest, Warming, Cleaning
  <2>4. CallsFit' /\ todo' \in Rest
    BY <1>1, <2>2, <2>3, RestFits
  <2> QED BY <2>1, <2>3, <2>4, FitsAtRest DEF device
<1>4. CASE ResetAudioMode
  <2>1. /\ Call("quiet") /\ todo' = Tail(todo) /\ mode' = "normal"
        /\ UNCHANGED <<recording, native, record, recordRoute, held, saved>>
    BY <1>4 DEF ResetAudioMode, Done, codec
  <2>2. CASE /\ todo = <<"quiet", "stop", "halt", "join", "free">>
             /\ todo' = <<"stop", "halt", "join", "free">>
    <3>1. todo \in Cleaning /\ todo' \in Cleaning
      BY <2>2 DEF Cleaning
    <3>2. todo \in Rest /\ todo' \in Rest
      BY <3>1 DEF Rest
    <3>3. recording
      BY <1>1, <3>1 DEF CallsFit
    <3>4. <<"stop", "halt", "join", "free">> \notin
            Freeing \union Warming \union {<<"quiet", "halt", "join", "free">>}
      BY DEF Freeing, Warming
    <3>5. CallsFit'
      BY <2>1, <2>2, <3>2, <3>3, <3>4 DEF CallsFit, Todos
    <3> QED BY <2>1, <3>2, <3>5, FitsAtRest
  <2>3. CASE /\ todo = <<"quiet", "halt", "join", "free">> /\ todo' = <<"halt", "join", "free">>
    <3>1. ~recording /\ todo \in Rest
      BY <1>1, <2>3 DEF CallsFit, Rest
    <3>2. todo' \in Freeing
      BY <2>3 DEF Freeing
    <3>3. todo' \notin HaltStop \union JoinStop \union DrainStop \union Opening \union Cleaning
      BY <3>2, Apart DEF Opening, Rest
    <3>4. CallsFit'
      BY <2>1, <3>1, <3>2, <3>3 DEF CallsFit, Todos
    <3>5. ThreadFits'
      <4>1. todo \notin JoinStop \union JoinOpen \union {<<"join", "free">>}
        BY <3>1, Apart DEF Opening, Freeing
      <4> QED BY <2>1, <3>1, <3>3, <4>1 DEF Fits, ThreadFits, native
    <3>6. todo' \notin Rest
      BY <3>2, Apart
    <3>7. Hardware'
      BY <2>1, <3>1, <3>3, <3>6 DEF Fits, Hardware, Silent, Stopped, native
    <3> QED BY <3>4, <3>5, <3>7 DEF Fits
  <2> QED BY <1>1, <2>1, <2>2, <2>3, CallQuiet
<1> QED BY <1>2, <1>3, <1>4

LEMMA FitsStarted ==
  ASSUME NativeTypes, Fits, StartRecording
  PROVE  Fits'
<1>1. CallsFit /\ ThreadFits /\ Hardware /\ todo \in Todos
  BY DEF Fits, CallsFit
<1>2. /\ Call("start")
      /\ UNCHANGED <<native, record, recordRoute, held, saved>>
  BY DEF StartRecording
<1>3. todo \in Rest
  BY <1>1, <1>2, CallOfRest
<1>4. CASE recording
  <2>1. todo' = Tail(todo) /\ UNCHANGED <<recording, mode>>
    BY <1>4 DEF StartRecording, Done, codec
  <2>2. todo' = <<>> \/ todo' = <<"answer">>
    BY <1>1, <1>2, <2>1, CallStart
  <2>3. \A t \in {<<>>, <<"answer">>} : /\ t \in Rest /\ t \notin Cleaning \union Warming
                                        /\ t # <<"quiet", "halt", "join", "free">>
    BY DEF Rest, Cleaning, Warming
  <2>4. CallsFit' /\ todo' \in Rest
    BY <1>1, <2>2, <2>3, RestFits
  <2> QED BY <1>2, <1>3, <2>1, <2>4, FitsAtRest
<1>5. CASE ~recording
  <2>1. todo' = <<"halt", "join", "open">> \o Tail(todo) /\ recording' = TRUE
    BY <1>5 DEF StartRecording, Then
  <2>2. todo' \in HaltOpen
    BY <1>1, <1>2, <2>1, CallStart DEF HaltOpen
  <2>3. /\ todo' \in Opening
        /\ todo' \notin HaltStop \union JoinStop \union DrainStop \union Rest \union Freeing \union JoinOpen
    BY <2>2, Apart DEF Opening
  <2>4. CallsFit'
    <3>1. todo' \notin Warming \union {<<"quiet", "halt", "join", "free">>}
      BY <2>3 DEF Rest
    <3> QED BY <2>1, <2>3, <3>1 DEF CallsFit, Todos
  <2>5. ThreadFits'
    <3>1. thread \notin Live /\ ~stopAsked
      <4>1. todo \notin JoinStop \union JoinOpen \union {<<"join", "free">>}
        BY <1>3, Apart DEF Opening, Freeing
      <4> QED BY <1>1, <1>5, <4>1 DEF ThreadFits
    <3> QED BY <1>1, <1>2, <2>1, <3>1 DEF ThreadFits, native
  <2>6. Hardware'
    <3> SUFFICES ASSUME ~unattached PROVE Hardware'
      BY <1>2 DEF Hardware, native
    <3>1. Silent'
      BY <1>1, <1>2, <1>5 DEF Hardware, Silent, Stopped, native
    <3> QED BY <2>1, <2>3, <3>1 DEF Hardware
  <2> QED BY <2>4, <2>5, <2>6 DEF Fits
<1> QED BY <1>4, <1>5

LEMMA FitsHalted ==
  ASSUME NativeTypes, Fits, Halt
  PROVE  Fits'
<1>1. CallsFit /\ ThreadFits /\ Hardware /\ todo \in Todos
  BY DEF Fits, CallsFit
<1>2. /\ Call("halt") /\ todo' = Tail(todo) /\ stopAsked' = TRUE
      /\ UNCHANGED <<recording, capturing, thread, got, unattached>>
  BY DEF Halt, Done, codec
<1>3. /\ record' = IF record = "recording" THEN "ready" ELSE record
      /\ mode' = IF recordRoute = Bluetooth THEN "normal"
                 ELSE IF saved # "none" THEN saved ELSE mode
      /\ held' = (held /\ recordRoute # Bluetooth)
      /\ saved' = "none"
  BY DEF Halt, StopCapture
<1>4. CASE todo \in HaltStop /\ todo' \in JoinStop
  <2>1. todo' \notin Rest \union DrainStop \union Opening \union Freeing \union HaltStop
    BY <1>4, Apart DEF Opening
  <2>2. todo \notin Rest \union JoinStop \union DrainStop \union Opening \union Freeing
    BY <1>4, Apart
  <2>3. recording
    BY <1>1, <1>4 DEF CallsFit
  <2>4. CallsFit'
    BY <1>2, <1>4, <2>1, <2>3 DEF CallsFit, Todos, Rest
  <2>5. ThreadFits'
    BY <1>1, <1>2, <1>4, <2>1, <2>3 DEF ThreadFits
  <2>6. Hardware'
    <3> SUFFICES ASSUME ~unattached PROVE Hardware'
      BY <1>2 DEF Hardware
    <3>1. held => recordRoute = Bluetooth
      BY <1>1, <1>4, <2>3 DEF Hardware, Running
    <3>2. Stopped'
      BY <1>3, <3>1 DEF Stopped
    <3> QED BY <1>2, <2>1, <2>3, <3>2 DEF Hardware
  <2> QED BY <2>4, <2>5, <2>6 DEF Fits
<1>5. CASE todo \in HaltOpen /\ todo' \in JoinOpen
  <2>1. /\ todo' \in Opening
        /\ todo' \notin Rest \union DrainStop \union JoinStop \union Freeing \union HaltStop
    BY <1>5, Apart DEF Opening
  <2>2. todo \in Opening /\ recording
    BY <1>1, <1>5 DEF CallsFit, Opening
  <2>3. CallsFit'
    BY <1>2, <2>1, <2>2 DEF CallsFit, Todos, Rest
  <2>4. ThreadFits'
    BY <1>1, <1>2, <1>5, <2>2 DEF ThreadFits
  <2>5. Hardware'
    <3> SUFFICES ASSUME ~unattached PROVE Hardware'
      BY <1>2 DEF Hardware
    <3>1. Silent
      BY <1>1, <2>2 DEF Hardware
    <3>2. Silent'
      BY <1>2, <1>3, <3>1 DEF Silent, Stopped
    <3> QED BY <1>2, <2>1, <2>2, <3>2 DEF Hardware
  <2> QED BY <2>3, <2>4, <2>5 DEF Fits
<1>6. CASE todo = <<"halt", "join", "free">> /\ todo' = <<"join", "free">>
  <2>1. todo \in Freeing /\ todo' \in Freeing
    BY <1>6 DEF Freeing
  <2>2. todo' \notin HaltStop \union JoinStop \union DrainStop \union Opening \union Rest
    BY <2>1, Apart DEF Opening
  <2>3. ~recording
    BY <1>1, <2>1 DEF CallsFit
  <2>4. CallsFit'
    BY <1>2, <2>1, <2>2, <2>3 DEF CallsFit, Todos, Rest
  <2>5. ThreadFits'
    BY <1>1, <1>2, <1>6, <2>3 DEF ThreadFits
  <2>6. Hardware'
    <3> SUFFICES ASSUME ~unattached PROVE Hardware'
      BY <1>2 DEF Hardware
    <3>1. Silent /\ mode = "normal"
      BY <1>1, <2>3 DEF Hardware
    <3>2. Silent' /\ mode' = "normal"
      BY <1>2, <1>3, <3>1 DEF Silent, Stopped
    <3> QED BY <1>2, <2>2, <2>3, <3>2 DEF Hardware
  <2> QED BY <2>4, <2>5, <2>6 DEF Fits
<1> QED BY <1>1, <1>2, <1>4, <1>5, <1>6, CallHalt

LEMMA FitsJoined ==
  ASSUME NativeTypes, Fits, Join
  PROVE  Fits'
<1>1. CallsFit /\ ThreadFits /\ Hardware /\ todo \in Todos
  BY DEF Fits, CallsFit
<1>2. /\ Call("join") /\ todo' = Tail(todo) /\ stopAsked' = FALSE /\ thread' = "none"
      /\ UNCHANGED <<recording, got, unattached, device>> /\ thread \in {"none", "ended"}
  BY DEF Join, Done, codec
<1>3. ThreadFits'
  BY <1>1, <1>2 DEF ThreadFits, Live
<1>4. CASE todo \in JoinStop /\ todo' \in DrainStop
  <2>1. todo' \notin Rest \union JoinStop \union Opening \union Freeing \union HaltStop
    BY <1>4, Apart DEF Opening
  <2>2. recording
    BY <1>1, <1>4 DEF CallsFit
  <2>3. CallsFit'
    BY <1>2, <1>4, <2>1, <2>2 DEF CallsFit, Todos, Rest
  <2>4. ~unattached => Silent'
    BY <1>1, <1>2, <1>4 DEF Hardware, Silent, Stopped, device
  <2>5. Hardware'
    BY <1>2, <2>1, <2>2, <2>4 DEF Hardware
  <2> QED BY <1>3, <2>3, <2>5 DEF Fits
<1>5. CASE todo \in JoinOpen /\ todo' \in OpenNow
  <2>1. /\ todo' \in Opening /\ todo \in Opening
        /\ todo' \notin Rest \union DrainStop \union JoinStop \union Freeing \union HaltStop
    BY <1>5, Apart DEF Opening
  <2>2. recording
    BY <1>1, <2>1 DEF CallsFit
  <2>3. CallsFit'
    BY <1>2, <2>1, <2>2 DEF CallsFit, Todos, Rest
  <2>4. ~unattached => Silent'
    BY <1>1, <1>2, <2>1 DEF Hardware, Silent, Stopped, device
  <2>5. Hardware'
    BY <1>2, <2>1, <2>2, <2>4 DEF Hardware
  <2> QED BY <1>3, <2>3, <2>5 DEF Fits
<1>6. CASE todo = <<"join", "free">> /\ todo' = <<"free">>
  <2>1. todo \in Freeing /\ todo' \in Freeing
    BY <1>6 DEF Freeing
  <2>2. todo' \notin HaltStop \union JoinStop \union DrainStop \union Opening \union Rest
    BY <2>1, Apart DEF Opening
  <2>3. ~recording
    BY <1>1, <2>1 DEF CallsFit
  <2>4. CallsFit'
    BY <1>2, <2>1, <2>2, <2>3 DEF CallsFit, Todos, Rest
  <2>5. ~unattached => Silent' /\ mode' = "normal"
    BY <1>1, <1>2, <2>3 DEF Hardware, Silent, Stopped, device
  <2>6. Hardware'
    BY <1>2, <2>2, <2>3, <2>5 DEF Hardware
  <2> QED BY <1>3, <2>4, <2>6 DEF Fits
<1> QED BY <1>1, <1>2, <1>4, <1>5, <1>6, CallJoin

LEMMA FitsOpened ==
  ASSUME NativeTypes, Fits, Open
  PROVE  Fits'
<1>1. CallsFit /\ ThreadFits /\ Hardware /\ todo \in Todos
  BY DEF Fits, CallsFit
<1>2. Call("open") /\ todo' = Tail(todo)
  BY DEF Open, Done
<1>3. todo \in Opening /\ todo' \in {<<>>, <<"answer">>}
  BY <1>1, <1>2, CallOpen DEF Opening, OpenNow
<1>4. /\ recording
      /\ todo \notin Rest \union DrainStop \union JoinStop \union Freeing \union HaltStop
  BY <1>1, <1>3, Apart DEF CallsFit, Opening
<1>5. thread \notin Live /\ got = 0
  BY <1>1, <1>3 DEF ThreadFits, Live
<1>6. \A t \in {<<>>, <<"answer">>} : /\ t \in Rest /\ t \notin Cleaning \union Warming
                                      /\ t # <<"quiet", "halt", "join", "free">>
  BY DEF Rest, Cleaning, Warming
<1>7. CallsFit' /\ todo' \in Rest
  BY <1>1, <1>3, <1>6, RestFits
<1>8. ~stopAsked
  <2>1. Call("open") => todo \in OpenNow
    BY <1>1, CallOpen DEF OpenNow
  <2>2. todo \notin JoinStop \union JoinOpen \union {<<"join", "free">>}
    BY <1>2, <2>1, Apart DEF Opening, Freeing
  <2> QED BY <1>1, <2>2 DEF ThreadFits
<1>9. todo' \notin DrainStop \union Opening \union JoinStop
  BY <1>7, Apart DEF Opening
<1>10. CASE StartAndroidCaptureInput /\ UNCHANGED codec
  <2>1. /\ recordRoute' = route /\ held' = (held \/ route = Bluetooth)
        /\ capturing' = TRUE /\ thread' = "attaching" /\ UNCHANGED <<stopAsked, unattached, recording>>
    BY <1>10 DEF StartAndroidCaptureInput, StartCapture, codec
  <2>2. UNCHANGED got
    BY DEF Open
  <2>3. ThreadFits'
    BY <1>4, <1>5, <1>8, <1>9, <2>1, <2>2 DEF ThreadFits
  <2>4. Hardware'
    <3> SUFFICES ASSUME ~unattached PROVE Hardware'
      BY <2>1 DEF Hardware
    <3>1. ~held
      BY <1>1, <1>3 DEF Hardware, Silent, Stopped
    <3>2. Running'
      BY <2>1, <3>1 DEF Running, Live
    <3> QED BY <1>4, <1>9, <2>1, <3>2 DEF Hardware
  <2> QED BY <1>7, <2>3, <2>4 DEF Fits
<1>11. CASE StartCaptureFails /\ recording' = FALSE
            /\ UNCHANGED <<capturing, stopAsked, thread, unattached>>
  <2>1. /\ record' \in {"none", record} /\ held' = (held /\ route # Bluetooth)
        /\ mode' = "normal" /\ saved' = "none"
    BY <1>11 DEF StartCaptureFails
  <2>2. UNCHANGED got
    BY DEF Open
  <2>3. ThreadFits'
    BY <1>1, <1>5, <1>8, <1>11, <2>2 DEF ThreadFits
  <2>4. ~unattached => Silent'
    BY <1>1, <1>3, <1>11, <2>1 DEF Hardware, Silent, Stopped
  <2>5. Hardware'
    BY <1>9, <1>11, <2>1, <2>4 DEF Hardware
  <2>6. CallsFit'
    <3>1. todo' \notin HaltStop \union JoinStop \union DrainStop \union Opening \union Cleaning
      BY <1>3, <1>6, <1>7, Apart DEF Opening
    <3> QED BY <1>7, <1>11, <3>1 DEF CallsFit
  <2> QED BY <2>3, <2>5, <2>6 DEF Fits
<1> QED BY <1>10, <1>11 DEF Open

LEMMA FitsStopped ==
  ASSUME NativeTypes, Fits, StopRecording
  PROVE  Fits'
<1>1. CallsFit /\ ThreadFits /\ Hardware /\ todo \in Todos
  BY DEF Fits, CallsFit
<1>2. Call("stop") /\ UNCHANGED <<native, device>>
  BY DEF StopRecording
<1>3. todo \in Rest
  BY <1>1, <1>2, CallOfRest
<1>4. todo \notin JoinStop \union JoinOpen \union {<<"join", "free">>}
  BY <1>3, Apart DEF Opening, Freeing
<1>5. CASE ~recording /\ todo' = Tail(todo) /\ UNCHANGED recording
  <2>1. todo \notin Cleaning
    BY <1>1, <1>5 DEF CallsFit
  <2>2. todo' \in {<<>>, <<"start">>}
    BY <1>1, <1>2, <1>5, <2>1, CallStop DEF Cleaning
  <2>3. \A t \in {<<>>, <<"start">>} : /\ t \in Rest /\ t \notin Cleaning \union Warming
                                       /\ t # <<"quiet", "halt", "join", "free">>
    BY DEF Rest, Cleaning, Warming
  <2>4. CallsFit' /\ todo' \in Rest
    BY <1>1, <2>2, <2>3, RestFits
  <2> QED BY <1>2, <1>3, <1>5, <2>4, FitsAtRest DEF device
<1>6. CASE recording /\ todo' = <<"halt", "join", "drain">> \o Tail(todo) /\ UNCHANGED recording
  <2>1. todo' \in HaltStop
    BY <1>1, <1>2, <1>6, CallStop DEF HaltStop
  <2>2. todo' \notin Rest \union DrainStop \union JoinStop \union Freeing \union Opening
    BY <2>1, Apart
  <2>3. CallsFit'
    BY <1>6, <2>1, <2>2 DEF CallsFit, Todos, Rest
  <2>4. ThreadFits'
    BY <1>1, <1>2, <1>4, <1>6, <2>2 DEF ThreadFits, native
  <2>5. Hardware'
    <3> SUFFICES ASSUME ~unattached PROVE Hardware'
      BY <1>2 DEF Hardware, native
    <3>1. Running
      BY <1>1, <1>3, <1>6 DEF Hardware
    <3>2. Running'
      BY <1>2, <3>1 DEF Running, native, device
    <3> QED BY <1>6, <2>2, <3>2 DEF Hardware
  <2> QED BY <2>3, <2>4, <2>5 DEF Fits
<1>7. CASE recording /\ ~capturing /\ todo' = Tail(todo) /\ recording' = FALSE
  <2>1. unattached
    BY <1>1, <1>3, <1>7 DEF Hardware, Running
  <2>2. todo' \in {<<>>, <<"start">>, <<"halt", "join", "free">>}
    BY <1>1, <1>2, <1>7, CallStop
  <2>3. CallsFit'
    <3>1. CASE todo' \in {<<>>, <<"start">>}
      <4>1. todo' \in Rest /\ todo' \notin Cleaning
        BY <3>1 DEF Rest, Cleaning
      <4>2. todo' \notin HaltStop \union JoinStop \union DrainStop \union Opening
        BY <4>1, Apart DEF Opening
      <4> QED BY <1>7, <4>1, <4>2 DEF CallsFit, Todos
    <3>2. CASE todo' = <<"halt", "join", "free">>
      <4>1. todo' \in Freeing
        BY <3>2 DEF Freeing
      <4>2. todo' \notin HaltStop \union JoinStop \union DrainStop \union Opening \union Cleaning
        BY <4>1, Apart DEF Opening, Rest
      <4> QED BY <1>7, <4>1, <4>2 DEF CallsFit, Todos
    <3> QED BY <2>2, <3>1, <3>2
  <2>4. ThreadFits'
    BY <1>1, <1>2, <1>4, <1>7 DEF ThreadFits, native
  <2>5. Hardware'
    BY <1>2, <2>1 DEF Hardware, native
  <2> QED BY <2>3, <2>4, <2>5 DEF Fits
<1> QED BY <1>5, <1>6, <1>7 DEF StopRecording, Done, Then, UsesAndroidNativeInput, codec

LEMMA FitsDrained ==
  ASSUME NativeTypes, Fits, Drain
  PROVE  Fits'
<1>1. CallsFit /\ ThreadFits /\ Hardware /\ todo \in Todos
  BY DEF Fits, CallsFit
<1>2. /\ Call("drain") /\ todo' = Tail(todo) /\ recording' = FALSE /\ mode' = "normal"
      /\ UNCHANGED <<native, record, held, saved>>
  BY DEF Drain, Done
<1>3. todo \in DrainStop /\ todo' \in Suffixes
  BY <1>1, <1>2, CallDrain
<1>4. todo \notin JoinStop \union JoinOpen \union {<<"join", "free">>}
  BY <1>3, Apart DEF Opening, Freeing
<1>5. todo' \in Todos /\ todo' \notin HaltStop \union JoinStop \union DrainStop \union Opening \union Cleaning
  <2>1. todo' \in Rest \union Freeing /\ todo' \notin Cleaning
    BY <1>3 DEF Suffixes, Rest, Freeing, Cleaning
  <2> QED BY <2>1, Apart DEF Opening, Todos
<1>6. CallsFit'
  BY <1>2, <1>5 DEF CallsFit
<1>7. ThreadFits'
  BY <1>1, <1>2, <1>3, <1>4 DEF ThreadFits, native
<1>8. Hardware'
  BY <1>1, <1>2, <1>3, <1>5 DEF Hardware, Silent, Stopped, native
<1> QED BY <1>6, <1>7, <1>8 DEF Fits

LEMMA FitsReleased ==
  ASSUME NativeTypes, Fits, ReleaseCapture
  PROVE  Fits'
<1>1. CallsFit /\ ThreadFits /\ Hardware /\ todo \in Todos
  BY DEF Fits, CallsFit
<1>2. /\ Call("free") /\ todo' = Tail(todo) /\ record' = "none"
      /\ UNCHANGED <<recording, native, recordRoute, held, saved, mode>>
  BY DEF ReleaseCapture, Done
<1>3. todo = <<"free">> /\ todo' = <<>>
  BY <1>1, <1>2, CallFree
<1>4. ~recording /\ todo \notin JoinStop \union JoinOpen \union {<<"join", "free">>}
  <2>1. <<"free">> \in Freeing
    BY DEF Freeing
  <2>2. <<"free">> \notin JoinStop \union JoinOpen \union {<<"join", "free">>}
    BY DEF JoinStop, JoinOpen
  <2> QED BY <1>1, <1>3, <2>1, <2>2 DEF CallsFit
<1>5. \A t \in {<<>>} : /\ t \in Rest /\ t \notin Cleaning \union Warming
                        /\ t # <<"quiet", "halt", "join", "free">>
  BY DEF Rest, Cleaning, Warming
<1>6. CallsFit' /\ todo' \in Rest
  BY <1>1, <1>3, <1>5, RestFits
<1>7. ThreadFits'
  BY <1>1, <1>2, <1>4 DEF ThreadFits, native
<1>8. todo' \notin HaltStop \union JoinStop \union DrainStop \union Opening
  BY <1>6, Apart DEF Opening
<1>9. Hardware'
  BY <1>1, <1>2, <1>4, <1>8 DEF Hardware, Silent, Stopped, native
<1> QED BY <1>6, <1>7, <1>9 DEF Fits

LEMMA FitsKept ==
  ASSUME NativeTypes, Fits, [Next]_vars,
         TakeEvent /\ Head(queue).kind \in {"setup", "warm"} => ~recording
  PROVE  Fits'
<1>1. CASE UNCHANGED <<todo, recording, native, device>>
  BY <1>1, FitsAlone
<1>2. CASE Client \/ RouteChanges
  BY <1>1, <1>2 DEF Client, Connects, StartTransmission, BeginImmediatePttRelease, Disconnected,
    RouteChanges, codec
<1>3. CASE TakeEvent
  BY <1>3, FitsTaken
<1>4. CASE SetupAudioInput \/ AskForRecording \/ AudioReady \/ Answer \/ ResetAudioMode
  BY <1>4, FitsCalled
<1>5. CASE StartRecording \/ Halt \/ Join \/ Open
  BY <1>5, FitsStarted, FitsHalted, FitsJoined, FitsOpened
<1>6. CASE StopRecording \/ Drain \/ ReleaseCapture
  BY <1>6, FitsStopped, FitsDrained, FitsReleased
<1>7. CASE CaptureLoop
  BY <1>7, FitsInLoop
<1> QED BY <1>1, <1>2, <1>3, <1>4, <1>5, <1>6, <1>7 DEF Next, Engine, vars, codec

LEMMA NotStarting ==
  \A t \in {<<>>, <<"ready">>, <<"answer">>, <<"stop">>, <<"warm", "ready">>, <<"warm", "warmed">>,
            <<"warmed">>} \union Cleaning \union Freeing
         \union {<<"quiet", "halt", "join", "free">>} : t \notin Starting
<1>1. \A t \in {<<>>, <<"ready">>, <<"answer">>, <<"stop">>, <<"warm", "ready">>,
                <<"warm", "warmed">>, <<"warmed">>} : t \notin Starting
  BY DEF Starting, Opening, HaltOpen, JoinOpen, OpenNow
<1>2. \A t \in Cleaning \union {<<"quiet", "halt", "join", "free">>} : t \notin Starting
  BY DEF Cleaning, Starting, Opening, HaltOpen, JoinOpen, OpenNow
<1>3. \A t \in Freeing : t \notin Starting
  BY DEF Freeing, Starting, Opening, HaltOpen, JoinOpen, OpenNow
<1> QED BY <1>1, <1>2, <1>3

LEMMA NotEnding ==
  \A t \in {<<>>, <<"ready">>, <<"answer">>} : t \notin Ending
BY DEF Ending, Cleaning

\* The calls of a stop: which of them end the recording and which begin it again.
LEMMA StopEnds ==
  ASSUME todo \in HaltStop \/ todo \in JoinStop \/ todo \in DrainStop,
         Call("halt") \/ Call("join") \/ Call("drain")
  PROVE  \/ todo \in Starting
         \/ /\ todo \in Ending
            /\ Tail(todo) \in Ending \union {<<>>} \union Freeing /\ Tail(todo) \notin Starting
            /\ ~Call("drain") => Tail(todo) \in Ending
<1>1. CASE todo \in HaltStop
  <2>1. \/ todo = <<"halt", "join", "drain", "start">>
        \/ todo \in Ending /\ Tail(todo) \in
          {<<"join", "drain">>, <<"join", "drain", "halt", "join", "free">>}
    BY <1>1, Tails DEF HaltStop, Ending
  <2>2. \A t \in {<<"join", "drain">>, <<"join", "drain", "halt", "join", "free">>} :
          t \in Ending /\ t \notin Starting
    BY DEF Ending, Starting, Opening, HaltOpen, JoinOpen, OpenNow
  <2> QED BY <2>1, <2>2 DEF Starting
<1>2. CASE todo \in JoinStop
  <2>1. \/ todo = <<"join", "drain", "start">>
        \/ todo \in Ending /\ Tail(todo) \in
          {<<"drain">>, <<"drain", "halt", "join", "free">>}
    BY <1>2, Tails DEF JoinStop, Ending
  <2>2. \A t \in {<<"drain">>, <<"drain", "halt", "join", "free">>} :
          t \in Ending /\ t \notin Starting
    BY DEF Ending, Starting, Opening, HaltOpen, JoinOpen, OpenNow
  <2> QED BY <2>1, <2>2 DEF Starting
<1>3. CASE todo \in DrainStop
  <2>1. \/ todo = <<"drain", "start">>
        \/ todo \in Ending /\ Tail(todo) \in {<<>>, <<"halt", "join", "free">>}
    BY <1>3, Tails DEF DrainStop, Ending
  <2>2. <<"halt", "join", "free">> \in Freeing
    BY DEF Freeing
  <2>3. Call("drain")
    BY <1>3 DEF DrainStop, Call
  <2> QED BY <2>1, <2>2, <2>3, NotStarting DEF Starting
<1> QED BY <1>1, <1>2, <1>3

\* The steps after which a recording is wanted that was not: only the request for it.
LEMMA WillOnlyStart ==
  ASSUME NativeTypes, Fits, [Next]_vars, WillRecord'
  PROVE  \/ WillRecord
         \/ TakeEvent /\ Head(queue).kind = "start"
<1> SUFFICES ASSUME ~WillRecord, ~(TakeEvent /\ Head(queue).kind = "start") PROVE FALSE
  OBVIOUS
<1>1. CallsFit /\ todo \in Todos
  BY DEF Fits, CallsFit
<1>2. todo \notin Starting /\ (recording => todo \in Ending)
  BY DEF WillRecord
<1>3. todo' \in Starting \/ (recording' /\ todo' \notin Ending)
  BY DEF WillRecord, Starting, Ending, Opening, HaltOpen, JoinOpen, OpenNow, Cleaning
<1>4. CASE UNCHANGED <<todo, recording>>
  BY <1>2, <1>3, <1>4
<1>5. CASE TakeEvent
  <2>1. todo = <<>> /\ UNCHANGED recording
    BY <1>5 DEF TakeEvent, ProcessCaptured, codec
  <2>2. ~recording
    BY <1>2, <2>1, NotEnding
  <2>3. todo' \in {<<>>, <<"warm", "ready">>, <<"ready">>, <<"warm", "warmed">>, <<"stop">>,
                   <<"quiet", "halt", "join", "free">>}
    BY <1>5, <2>1, <2>2, Taken DEF NativeTypes
  <2> QED BY <1>3, <2>1, <2>2, <2>3, NotStarting
<1>6. CASE SetupAudioInput \/ AskForRecording \/ AudioReady \/ Answer
  <2>1. UNCHANGED recording /\ todo' = Tail(todo)
    BY <1>6 DEF SetupAudioInput, AskForRecording, AudioReady, Answer, Done, codec
  <2>2. todo' \in {<<>>, <<"ready">>, <<"warmed">>} /\ todo \in Warming \union {<<"ready">>, <<"answer">>}
    BY <1>1, <1>6, <2>1, CallWarm, CallAfterwards
      DEF SetupAudioInput, AskForRecording, AudioReady, Answer, Warming
  <2>3. ~recording
    BY <1>1, <1>2, <2>2, NotEnding DEF CallsFit
  <2> QED BY <1>3, <2>1, <2>2, <2>3, NotStarting
<1>7. CASE ResetAudioMode
  <2>1. UNCHANGED recording /\ todo' = Tail(todo) /\ Call("quiet")
    BY <1>7 DEF ResetAudioMode, Done, codec
  <2>2. CASE todo' = <<"stop", "halt", "join", "free">>
    <3>1. todo' \in Cleaning
      BY <2>2 DEF Cleaning
    <3> QED BY <1>3, <3>1, NotStarting DEF Ending
  <2>3. CASE todo = <<"quiet", "halt", "join", "free">> /\ todo' = <<"halt", "join", "free">>
    <3>1. todo' \in Freeing /\ ~recording
      BY <1>1, <2>3 DEF CallsFit, Freeing
    <3> QED BY <1>3, <2>1, <3>1, NotStarting
  <2> QED BY <1>1, <2>1, <2>2, <2>3, CallQuiet
<1>8. CASE StartRecording
  <2>1. todo \in Rest /\ todo \in {<<"start">>, <<"start", "answer">>}
    BY <1>1, <1>8, CallStart, CallOfRest DEF StartRecording
  <2> QED BY <1>2, <2>1 DEF Starting
<1>9. CASE Open
  <2>1. todo \in Opening
    BY <1>1, <1>9, CallOpen DEF Open, Opening, OpenNow
  <2> QED BY <1>2, <2>1 DEF Starting
<1>10. CASE Halt \/ Join
  <2>1. /\ Call("halt") \/ Call("join")
        /\ ~Call("drain") /\ todo' = Tail(todo) /\ UNCHANGED recording
    BY <1>10 DEF Halt, Join, Done, Call, codec
  <2>2. CASE todo \in HaltStop \union JoinStop
    <3>1. todo' \in Ending /\ todo' \notin Starting
      BY <1>2, <2>1, <2>2, StopEnds
    <3> QED BY <1>3, <3>1
  <2>3. CASE todo \in HaltOpen \union JoinOpen
    BY <1>2, <2>3 DEF Starting, Opening
  <2>4. CASE todo \in {<<"halt", "join", "free">>, <<"join", "free">>} /\ todo' \in Freeing
    <3>1. ~recording
      BY <1>1, <2>4 DEF CallsFit, Freeing
    <3> QED BY <1>3, <2>1, <2>4, <3>1, NotStarting
  <2> QED BY <1>1, <2>1, <2>2, <2>3, <2>4, CallHalt, CallJoin DEF Freeing
<1>11. CASE Drain
  <2>1. Call("drain") /\ todo' = Tail(todo) /\ recording' = FALSE
    BY <1>11 DEF Drain, Done
  <2>2. todo \in DrainStop
    BY <1>1, <2>1, CallDrain
  <2>3. todo' \notin Starting
    BY <1>2, <2>1, <2>2, StopEnds
  <2> QED BY <1>3, <2>1, <2>3
<1>12. CASE StopRecording
  <2>1. Call("stop") /\ todo \notin {<<"stop", "start">>}
    BY <1>2, <1>12 DEF StopRecording, Starting
  <2>2. CASE ~recording /\ todo' = Tail(todo) /\ UNCHANGED recording
    <3>1. todo \notin Cleaning
      BY <1>1, <2>2 DEF CallsFit
    <3>2. todo' = <<>>
      BY <1>1, <2>1, <2>2, <3>1, CallStop DEF Cleaning
    <3> QED BY <1>3, <2>2, <3>2, NotStarting
  <2>3. CASE todo' = <<"halt", "join", "drain">> \o Tail(todo)
    <3>1. todo' \in {<<"halt", "join", "drain">>, <<"halt", "join", "drain", "halt", "join", "free">>}
      BY <1>1, <2>1, <2>3, CallStop
    <3>2. \A t \in {<<"halt", "join", "drain">>, <<"halt", "join", "drain", "halt", "join", "free">>} :
            t \in Ending /\ t \notin Starting
      BY DEF Ending, Starting, Opening, HaltOpen, JoinOpen, OpenNow
    <3> QED BY <1>3, <3>1, <3>2
  <2>4. CASE todo' = Tail(todo) /\ recording' = FALSE
    <3>1. todo' \in {<<>>, <<"halt", "join", "free">>}
      BY <1>1, <2>1, <2>4, CallStop
    <3>2. todo' \notin Starting
      BY <3>1, NotStarting DEF Freeing
    <3> QED BY <1>3, <2>4, <3>2
  <2> QED BY <1>12, <2>2, <2>3, <2>4 DEF StopRecording, Done, Then, codec
<1>13. CASE ReleaseCapture
  <2>1. todo = <<"free">> /\ todo' = <<>> /\ UNCHANGED recording
    BY <1>1, <1>13, CallFree DEF ReleaseCapture, Done
  <2>2. ~recording
    BY <1>1, <2>1 DEF CallsFit, Freeing
  <2> QED BY <1>3, <2>1, <2>2, NotStarting
<1>14. CASE Client \/ RouteChanges \/ CaptureLoop
  BY <1>4, <1>14 DEF Client, Connects, StartTransmission, BeginImmediatePttRelease, Disconnected,
    RouteChanges, CaptureLoop, Attach, LoopTop, Read, Deliver, elsewhere, codec
<1> QED BY <1>4, <1>5, <1>6, <1>7, <1>8, <1>9, <1>10, <1>11, <1>12, <1>13, <1>14
     DEF Next, Engine, vars, codec

\* An order to stop ends what is wanted.
LEMMA StopIsTaken ==
  ASSUME NativeTypes, TakeEvent, Head(queue).kind \in {"stop", "cleanup"}
  PROVE  ~WillRecord'
<1>1. UNCHANGED recording
  BY DEF TakeEvent, ProcessCaptured, codec
<1>2. \/ todo' = <<"stop">>
      \/ recording /\ todo' = <<"quiet", "stop", "halt", "join", "free">>
      \/ ~recording /\ todo' = <<"quiet", "halt", "join", "free">>
  BY Taken DEF NativeTypes
<1>3. <<"stop">> \in Ending /\ <<"quiet", "stop", "halt", "join", "free">> \in Ending
  BY DEF Ending, Cleaning
<1>4. todo' \notin Starting /\ (recording => todo' \in Ending)
  BY <1>2, <1>3, NotStarting DEF Cleaning
<1> QED BY <1>1, <1>4 DEF WillRecord, Starting, Ending, Opening, HaltOpen, JoinOpen, OpenNow, Cleaning

\* The queue grew by events of these kinds.
Longer(kinds) ==
  /\ \A i \in DOMAIN queue : i \in DOMAIN queue' /\ queue'[i] = queue[i]
  /\ \A i \in DOMAIN queue' \ DOMAIN queue :
       queue'[i].kind \in kinds /\ \A j \in DOMAIN queue : j < i
  /\ DOMAIN queue \subseteq Nat /\ DOMAIN queue' \subseteq Nat

LEMMA OneMore ==
  ASSUME queue \in Seq(Events), NEW kind \in Orders, Order(<<kind>>)
  PROVE  /\ Longer({kind})
         /\ Len(queue) + 1 \in DOMAIN queue' \ DOMAIN queue
         /\ \A i \in DOMAIN queue' \ DOMAIN queue : i = Len(queue) + 1
<1>1. <<kind>> \in Seq(Orders) /\ Len(<<kind>>) = 1 /\ DOMAIN <<kind>> = {1} /\ <<kind>>[1] = kind
  OBVIOUS
<1> DEFINE kinds == <<kind>>
<1> HIDE DEF kinds
<1>2. kinds \in Seq(Orders) /\ Len(kinds) = 1 /\ DOMAIN kinds = {1} /\ kinds[1] = kind /\ Order(kinds)
  BY <1>1 DEF kinds
<1>3. /\ queue' \in Seq(Events) /\ Len(queue') = Len(queue) + 1
      /\ \A i \in DOMAIN queue : queue'[i] = queue[i] /\ i \in DOMAIN queue'
      /\ \A i \in DOMAIN queue' \ DOMAIN queue :
           i - Len(queue) \in {1} /\ queue'[i] = Event(kinds[i - Len(queue)])
  BY <1>2, Ordered
<1>4. DOMAIN queue = 1..Len(queue) /\ DOMAIN queue' = 1..(Len(queue) + 1) /\ Len(queue) \in Nat
  BY <1>3
<1>5. ASSUME NEW i \in DOMAIN queue' \ DOMAIN queue
      PROVE  i = Len(queue) + 1 /\ queue'[i].kind = kind /\ \A j \in DOMAIN queue : j < i
  <2>1. i = Len(queue) + 1 /\ \A j \in DOMAIN queue : j < i
    BY <1>4
  <2>2. i - Len(queue) = 1
    BY <1>3
  <2> QED BY <1>2, <1>3, <2>1, <2>2 DEF Event
<1>6. Len(queue) + 1 \in DOMAIN queue' \ DOMAIN queue
  BY <1>4
<1>7. DOMAIN queue \subseteq Nat /\ DOMAIN queue' \subseteq Nat
  BY <1>4
<1> QED BY <1>3, <1>5, <1>6, <1>7 DEF Longer

LEMMA MaybeStop ==
  ASSUME queue \in Seq(Events), NEW kinds \in {<<>>, <<"stop">>, <<"cleanup">>, <<"cleanup", "stop">>},
         Order(kinds)
  PROVE  /\ Longer({"stop", "cleanup"})
         /\ kinds # <<>> => \E i \in DOMAIN queue' : queue'[i].kind \in {"stop", "cleanup"}
<1>1. /\ kinds \in Seq(Orders)
      /\ \A i \in DOMAIN kinds : kinds[i] \in {"stop", "cleanup"}
      /\ kinds # <<>> => 1 \in DOMAIN kinds
  <2>1. kinds \in Seq(Orders)
    BY BatchesAre DEF Batches
  <2>2. \A i \in DOMAIN kinds : kinds[i] \in {"stop", "cleanup"}
    <3>1. CASE kinds = <<>>
      BY <3>1
    <3>2. CASE kinds = <<"stop">>
      BY <3>2
    <3>3. CASE kinds = <<"cleanup">>
      BY <3>3
    <3>4. CASE kinds = <<"cleanup", "stop">>
      BY <3>4
    <3> QED BY <3>1, <3>2, <3>3, <3>4
  <2>3. kinds # <<>> => 1 \in DOMAIN kinds
    BY <2>1
  <2> QED BY <2>1, <2>2, <2>3
<1>2. /\ queue' \in Seq(Events) /\ Len(queue') = Len(queue) + Len(kinds)
      /\ \A i \in DOMAIN queue : queue'[i] = queue[i] /\ i \in DOMAIN queue'
      /\ \A i \in DOMAIN queue' \ DOMAIN queue :
           /\ i - Len(queue) \in DOMAIN kinds /\ i > Len(queue)
           /\ queue'[i] = Event(kinds[i - Len(queue)])
  BY <1>1, Ordered
<1>3. /\ DOMAIN queue = 1..Len(queue) /\ DOMAIN queue' = 1..(Len(queue) + Len(kinds))
      /\ DOMAIN kinds = 1..Len(kinds) /\ Len(queue) \in Nat /\ Len(kinds) \in Nat
  BY <1>1, <1>2
<1>4. ASSUME NEW i \in DOMAIN queue' \ DOMAIN queue
      PROVE  queue'[i].kind \in {"stop", "cleanup"} /\ \A j \in DOMAIN queue : j < i
  <2>1. \A j \in DOMAIN queue : j < i
    BY <1>3
  <2> QED BY <1>1, <1>2, <2>1 DEF Event
<1>5. kinds # <<>> => Len(queue) + 1 \in DOMAIN queue' \ DOMAIN queue
  BY <1>1, <1>3
<1>6. DOMAIN queue \subseteq Nat /\ DOMAIN queue' \subseteq Nat
  BY <1>3
<1> QED BY <1>2, <1>4, <1>5, <1>6 DEF Longer

LEMMA OneBlockMore ==
  ASSUME QueueFits, NativeFits, Deliver, queue' # queue
  PROVE  Longer({"block"})
<1>1. /\ queue' \in Seq(Events) /\ Len(queue') = Len(queue) + 1
      /\ \A i \in DOMAIN queue : i \in DOMAIN queue' /\ queue'[i] = queue[i]
      /\ \A i \in DOMAIN queue' \ DOMAIN queue :
           i = Len(queue) + 1 /\ queue'[i].kind = "block"
  BY Delivered
<1>2. DOMAIN queue = 1..Len(queue) /\ DOMAIN queue' = 1..(Len(queue) + 1) /\ Len(queue) \in Nat
  BY <1>1 DEF QueueFits
<1>3. \A i \in DOMAIN queue' \ DOMAIN queue : \A j \in DOMAIN queue : j < i
  BY <1>1, <1>2
<1>4. DOMAIN queue \subseteq Nat /\ DOMAIN queue' \subseteq Nat
  BY <1>2
<1> QED BY <1>1, <1>3, <1>4 DEF Longer

\* What is not about the client keeps while the queue grows.
LEMMA StopsKept ==
  ASSUME NEW kinds, Longer(kinds), WillRecord' => WillRecord, StopComesFirst,
         kinds \intersect {"setup", "warm"} = {} \/ (WillRecord => \E j \in DOMAIN queue : Stops(j))
  PROVE  /\ StopComesFirst'
         /\ \A j \in DOMAIN queue : Stops(j) => j \in DOMAIN queue' /\ Stops(j)'
<1>1. \A j \in DOMAIN queue : Stops(j) => j \in DOMAIN queue' /\ Stops(j)'
  BY DEF Longer, Stops, Kind
<1>2. ASSUME WillRecord', NEW i \in DOMAIN queue', Kind(i)' \in {"setup", "warm"}
      PROVE  \E j \in DOMAIN queue' : j < i /\ Stops(j)'
  <2>1. CASE i \in DOMAIN queue
    <3>1. Kind(i) \in {"setup", "warm"}
      BY <1>2, <2>1 DEF Longer, Kind
    <3>2. PICK j \in DOMAIN queue : j < i /\ Stops(j)
      BY <1>2, <2>1, <3>1 DEF StopComesFirst
    <3> QED BY <1>1, <3>2
  <2>2. CASE i \notin DOMAIN queue
    <3>1. Kind(i)' \in kinds /\ \A j \in DOMAIN queue : j < i
      BY <2>2 DEF Longer, Kind
    <3>2. PICK j \in DOMAIN queue : Stops(j)
      BY <1>2, <3>1
    <3> QED BY <1>1, <3>1, <3>2
  <2> QED BY <2>1, <2>2
<1>3. StopComesFirst'
  BY <1>2 DEF StopComesFirst
<1> QED BY <1>1, <1>3

\* The client's orders.
LEMMA NobodyPresses ==
  ASSUME Protocol, client # "pressing"
  PROVE  /\ \A i \in DOMAIN queue : Kind(i) \notin {"warm", "start"}
         /\ todo \notin Answering
BY DEF Protocol, WarmIsLast, StartIsAlone, AnswerIsAwaited

LEMMA ProtocolConnects ==
  ASSUME NativeTypes, Fits, Protocol, Connects
  PROVE  Protocol'
<1>1. client = "down" /\ client' = "setup" /\ Order(<<"setup">>) /\ UNCHANGED <<todo, recording>>
  BY DEF Connects, codec
<1>2. queue \in Seq(Events) /\ "setup" \in Orders
  BY DEF NativeTypes, QueueFits, Orders
<1>3. Longer({"setup"})
  BY <1>1, <1>2, OneMore
<1>4. WillRecord' => WillRecord
  BY <1>1 DEF WillRecord, Starting, Ending, Opening, HaltOpen, JoinOpen, OpenNow, Cleaning
<1>5. WillRecord => \E j \in DOMAIN queue : Stops(j)
  BY <1>1 DEF Protocol, StopIsComing
<1>6. StopComesFirst' /\ \A j \in DOMAIN queue : Stops(j) => j \in DOMAIN queue' /\ Stops(j)'
  BY <1>3, <1>4, <1>5, StopsKept DEF Protocol
<1>7. StopIsComing'
  BY <1>4, <1>5, <1>6 DEF StopIsComing
<1>8. \A i \in DOMAIN queue' : Kind(i)' \notin {"warm", "start"}
  BY <1>1, <1>3, NobodyPresses DEF Longer, Kind
<1>9. todo' \notin Answering
  BY <1>1, NobodyPresses
<1> QED BY <1>6, <1>7, <1>8, <1>9
     DEF Protocol, WarmIsLast, StartIsAlone, AnswerIsAwaited, NothingIsRead, Answering

LEMMA ProtocolStops ==
  ASSUME NativeTypes, Fits, Protocol, BeginImmediatePttRelease \/ Disconnected
  PROVE  Protocol'
<1>1. /\ client # "pressing" /\ client' \in {"draining", "down"} /\ UNCHANGED <<todo, recording>>
      /\ client \in {"talking", "setup", "ready", "draining"}
  BY DEF BeginImmediatePttRelease, Disconnected, codec
<1>2. \E kinds \in {<<>>, <<"stop">>, <<"cleanup">>, <<"cleanup", "stop">>} :
        Order(kinds) /\ (client \in {"talking", "draining"} => kinds # <<>>)
  <2>1. CASE BeginImmediatePttRelease
    <3>1. Order(<<"stop">>) /\ <<"stop">> # <<>>
      BY <2>1 DEF BeginImmediatePttRelease
    <3> QED BY <3>1
  <2>2. CASE Disconnected
    <3>1. <<"stop">> # <<>> /\ <<"cleanup", "stop">> # <<>>
      OBVIOUS
    <3> QED BY <2>2, <3>1, DisconnectedOrders
  <2> QED BY <2>1, <2>2
<1>3. PICK kinds \in {<<>>, <<"stop">>, <<"cleanup">>, <<"cleanup", "stop">>} :
        Order(kinds) /\ (client \in {"talking", "draining"} => kinds # <<>>)
  BY <1>2
<1>4. queue \in Seq(Events)
  BY DEF NativeTypes, QueueFits
<1>5. /\ Longer({"stop", "cleanup"})
      /\ kinds # <<>> => \E i \in DOMAIN queue' : queue'[i].kind \in {"stop", "cleanup"}
  BY <1>3, <1>4, MaybeStop
<1>6. WillRecord' => WillRecord
  BY <1>1 DEF WillRecord, Starting, Ending, Opening, HaltOpen, JoinOpen, OpenNow, Cleaning
<1>7. StopComesFirst' /\ \A j \in DOMAIN queue : Stops(j) => j \in DOMAIN queue' /\ Stops(j)'
  <2>1. {"stop", "cleanup"} \intersect {"setup", "warm"} = {}
    OBVIOUS
  <2> QED BY <1>5, <1>6, <2>1, StopsKept DEF Protocol
<1>8. StopIsComing'
  <2>1. CASE client \in {"talking", "draining"}
    BY <1>3, <1>5, <2>1 DEF StopIsComing, Stops, Kind
  <2>2. CASE client \in {"setup", "ready"}
    BY <1>6, <1>7, <2>2 DEF Protocol, StopIsComing
  <2> QED BY <1>1, <2>1, <2>2
<1>9. \A i \in DOMAIN queue' : Kind(i)' \notin {"warm", "start"}
  BY <1>1, <1>5, NobodyPresses DEF Longer, Kind
<1>10. todo' \notin Answering
  BY <1>1, NobodyPresses
<1> QED BY <1>7, <1>8, <1>9, <1>10
     DEF Protocol, WarmIsLast, StartIsAlone, AnswerIsAwaited, NothingIsRead, Answering

LEMMA ProtocolPresses ==
  ASSUME NativeTypes, Fits, Protocol, StartTransmission
  PROVE  Protocol'
<1>1. /\ client = "ready" /\ client' = "pressing" /\ Order(<<"warm">>)
      /\ UNCHANGED <<todo, recording>>
  BY DEF StartTransmission, codec
<1>2. queue \in Seq(Events) /\ "warm" \in Orders
  BY DEF NativeTypes, QueueFits, Orders
<1>3. /\ Longer({"warm"}) /\ \A i \in DOMAIN queue' \ DOMAIN queue : i = Len(queue) + 1
  BY <1>1, <1>2, OneMore
<1>4. WillRecord' => WillRecord
  BY <1>1 DEF WillRecord, Starting, Ending, Opening, HaltOpen, JoinOpen, OpenNow, Cleaning
<1>5. WillRecord => \E j \in DOMAIN queue : Stops(j)
  BY <1>1 DEF Protocol, StopIsComing
<1>6. StopComesFirst'
  BY <1>3, <1>4, <1>5, StopsKept DEF Protocol
<1>7. StopIsComing'
  BY <1>1 DEF StopIsComing
<1>8. \A i \in DOMAIN queue : Kind(i)' \notin {"warm", "start"}
  BY <1>1, <1>3, NobodyPresses DEF Longer, Kind
<1>9. todo' \notin Answering
  BY <1>1, NobodyPresses
<1>10. WarmIsLast'
  <2> SUFFICES ASSUME NEW i \in DOMAIN queue', Kind(i)' = "warm"
               PROVE  \A j \in DOMAIN queue' : ~(j > i)
    BY <1>1 DEF WarmIsLast
  <2>1. i \notin DOMAIN queue
    BY <1>8
  <2>2. \A j \in DOMAIN queue' : j < i \/ j = i
    BY <1>3, <2>1 DEF Longer
  <2>3. DOMAIN queue' \subseteq Nat
    BY <1>3 DEF Longer
  <2> QED BY <2>2, <2>3
<1>11. StartIsAlone'
  <2>1. \A i \in DOMAIN queue' : Kind(i)' # "start"
    BY <1>3, <1>8 DEF Longer, Kind
  <2> QED BY <2>1 DEF StartIsAlone
<1> QED BY <1>6, <1>7, <1>9, <1>10, <1>11
     DEF Protocol, AnswerIsAwaited, NothingIsRead, Answering

\* A change of the route, and what was read.
LEMMA ProtocolGrows ==
  ASSUME NativeTypes, Fits, Protocol, UNCHANGED <<client, todo, recording>>,
         \/ Longer({"route"})
         \/ Longer({"block"}) /\ recording /\ todo \notin Opening
  PROVE  Protocol'
<1>1. PICK kinds : /\ kinds \in {{"route"}, {"block"}} /\ Longer(kinds)
                   /\ kinds = {"block"} => recording /\ todo \notin Opening
  OBVIOUS
<1>2. WillRecord' => WillRecord
  BY DEF WillRecord, Starting, Ending, Opening, HaltOpen, JoinOpen, OpenNow, Cleaning
<1>3. kinds \intersect {"setup", "warm"} = {}
  BY <1>1
<1>4. StopComesFirst' /\ \A j \in DOMAIN queue : Stops(j) => j \in DOMAIN queue' /\ Stops(j)'
  BY <1>1, <1>2, <1>3, StopsKept DEF Protocol
<1>5. StopIsComing'
  BY <1>2, <1>4 DEF Protocol, StopIsComing
<1>6. /\ \A i \in DOMAIN queue : i \in DOMAIN queue' /\ Kind(i)' = Kind(i)
      /\ \A i \in DOMAIN queue' \ DOMAIN queue :
           Kind(i)' \in kinds /\ \A j \in DOMAIN queue : j < i
      /\ DOMAIN queue \subseteq Nat /\ DOMAIN queue' \subseteq Nat
  BY <1>1 DEF Longer, Kind
<1>7. WarmIsLast'
  <2> SUFFICES ASSUME NEW i \in DOMAIN queue', Kind(i)' = "warm"
               PROVE  /\ client = "pressing"
                      /\ \A j \in DOMAIN queue' : j > i => Kind(j)' \in {"route", "block"}
    BY DEF WarmIsLast
  <2>1. i \in DOMAIN queue /\ Kind(i) = "warm"
    BY <1>1, <1>6
  <2>2. /\ client = "pressing"
        /\ \A j \in DOMAIN queue : j > i => Kind(j) \in {"route", "block"}
    BY <2>1 DEF Protocol, WarmIsLast
  <2> QED BY <1>1, <1>6, <2>2
<1>8. StartIsAlone'
  <2> SUFFICES ASSUME NEW i \in DOMAIN queue', Kind(i)' = "start"
               PROVE  /\ client = "pressing" /\ ~recording /\ todo = <<>>
                      /\ \A j \in DOMAIN queue' : j > i => Kind(j)' = "route"
                      /\ \A j \in DOMAIN queue' : j < i => Kind(j)' \in {"route", "block"}
    BY DEF StartIsAlone
  <2>1. i \in DOMAIN queue /\ Kind(i) = "start"
    BY <1>1, <1>6
  <2>2. /\ client = "pressing" /\ ~recording /\ todo = <<>>
        /\ \A j \in DOMAIN queue : j > i => Kind(j) = "route"
        /\ \A j \in DOMAIN queue : j < i => Kind(j) \in {"route", "block"}
    BY <2>1 DEF Protocol, StartIsAlone
  <2>3. kinds = {"route"}
    BY <1>1, <2>2
  <2>4. \A j \in DOMAIN queue' \ DOMAIN queue : Kind(j)' = "route"
    BY <1>6, <2>3
  <2> QED BY <1>6, <2>2, <2>4
<1>9. AnswerIsAwaited'
  BY <1>1, <1>6 DEF Protocol, AnswerIsAwaited
<1>10. NothingIsRead'
  <2> SUFFICES ASSUME todo \in Asking
               PROVE  /\ \A i \in DOMAIN queue' : Kind(i)' = "route"
                      /\ todo = <<"start", "answer">> => ~recording
    BY DEF NothingIsRead
  <2>1. /\ \A i \in DOMAIN queue : Kind(i) = "route"
        /\ todo = <<"start", "answer">> => ~recording
    BY DEF Protocol, NothingIsRead
  <2>2. todo = <<"start", "answer">> \/ todo \in Opening
    BY DEF Asking, Opening, HaltOpen, JoinOpen, OpenNow
  <2>3. kinds = {"route"}
    BY <1>1, <2>1, <2>2
  <2> QED BY <1>6, <2>1, <2>3
<1> QED BY <1>4, <1>5, <1>7, <1>8, <1>9, <1>10 DEF Protocol

LEMMA AnsweringIs ==
  \A t \in Answering : t # <<>> /\ t[Len(t)] \in {"answer", "warmed"}
<1> DEFINE Last(t) == t # <<>> /\ t[Len(t)] \in {"answer", "warmed"}
<1>1. Last(<<"start", "answer">>) /\ Last(<<"warm", "warmed">>)
  OBVIOUS
<1>2. Last(<<"halt", "join", "open", "answer">>)
  OBVIOUS
<1>3. Last(<<"join", "open", "answer">>)
  OBVIOUS
<1>4. Last(<<"open", "answer">>)
  OBVIOUS
<1>5. Last(<<"warmed">>) /\ Last(<<"answer">>)
  OBVIOUS
<1> HIDE DEF Last
<1>6. \A t \in Answering : Last(t)
  BY <1>1, <1>2, <1>3, <1>4, <1>5, Zenon DEF Answering, Asking
<1> QED BY <1>6 DEF Last

\* The calls that an answer follows lead to one another.
LEMMA AnswersLast ==
  ASSUME todo \in Todos, NEW t,
         \/ t = Tail(todo)
         \/ Call("start") /\ t = <<"halt", "join", "open">> \o Tail(todo)
         \/ Call("stop") /\ t = <<"halt", "join", "drain">> \o Tail(todo),
         todo # <<>>
  PROVE  /\ t \in Answering => todo \in Answering
         /\ t \in Asking => todo \in Asking
<1> DEFINE ends == {<<>>, <<"ready">>, <<"start">>, <<"stop", "halt", "join", "free">>,
                    <<"halt", "join", "free">>, <<"join", "free">>, <<"free">>}
                   \union HaltStop \union JoinStop \union DrainStop
                   \union {<<"halt", "join", "open">>, <<"join", "open">>, <<"open">>}
<1>1. \A s \in ends : s \notin Answering
  <2>1. \A s \in {<<>>, <<"ready">>, <<"start">>, <<"stop", "halt", "join", "free">>,
                  <<"halt", "join", "free">>, <<"join", "free">>, <<"free">>} : s \notin Answering
    <3> DEFINE Other(s) == s = <<>> \/ s[Len(s)] \notin {"answer", "warmed"}
    <3>1. Other(<<>>) /\ Other(<<"ready">>) /\ Other(<<"start">>)
      OBVIOUS
    <3>2. Other(<<"stop", "halt", "join", "free">>)
      OBVIOUS
    <3>3. Other(<<"halt", "join", "free">>)
      OBVIOUS
    <3>4. Other(<<"join", "free">>) /\ Other(<<"free">>)
      OBVIOUS
    <3>5. \A s : Other(s) => s \notin Answering
      BY AnsweringIs
    <3> HIDE DEF Other
    <3> QED BY <3>1, <3>2, <3>3, <3>4, <3>5, Zenon
  <2>2. \A s \in {<<"halt", "join", "open">>, <<"join", "open">>, <<"open">>} : s \notin Answering
    BY AnsweringIs
  <2>3. \A s \in HaltStop \union JoinStop \union DrainStop : s \notin Answering
    <3>1. \A s \in HaltStop : s[1] = "halt" /\ s[3] = "drain"
      BY DEF HaltStop
    <3>2. \A s \in JoinStop : s[1] = "join" /\ s[2] = "drain"
      BY DEF JoinStop
    <3>3. \A s \in DrainStop : s[1] = "drain"
      BY DEF DrainStop
    <3>4. \A s \in Answering : /\ s[1] # "drain" /\ (s[1] = "halt" => s[3] = "open")
                               /\ s[1] = "join" => s[2] = "open"
      BY DEF Answering, Asking
    <3> QED BY <3>1, <3>2, <3>3, <3>4
  <2> QED BY <2>1, <2>2, <2>3
<1>2. t \in ends \/ (todo \in Answering /\ (t \in Asking => todo \in Asking))
  <2>1. CASE Call("start") /\ t # Tail(todo)
    <3>1. \/ t = <<"halt", "join", "open">>
          \/ todo = <<"start", "answer">>
      BY <2>1, CallStart, CallStop DEF Call
    <3> QED BY <3>1 DEF Asking, Answering
  <2>2. CASE Call("stop") /\ t # Tail(todo)
    <3>1. t \in HaltStop
      BY <2>2, CallStop, CallStart DEF Call, HaltStop
    <3> QED BY <3>1
  <2>3. CASE t = Tail(todo)
    <3>1. CASE todo \in {<<"warm", "warmed">>, <<"start", "answer">>, <<"warmed">>, <<"answer">>}
      <4>1. t \in {<<"warmed">>, <<"answer">>, <<>>}
        BY <2>3, <3>1, Tails
      <4>2. t \notin Asking
        BY <4>1 DEF Asking
      <4> QED BY <3>1, <4>2 DEF Answering, Asking
    <3>2. CASE todo \in {<<"ready">>, <<"stop">>, <<"start">>}
      <4>1. t = <<>>
        BY <2>3, <3>2, Tails
      <4> QED BY <4>1
    <3>3. CASE todo \in {<<"warm", "ready">>, <<"stop", "start">>} \union Cleaning
                        \union {<<"quiet", "halt", "join", "free">>}
      <4>1. t \in {<<"ready">>, <<"start">>, <<"stop", "halt", "join", "free">>,
                   <<"halt", "join", "free">>}
        BY <2>3, <3>3, Tails DEF Cleaning
      <4> QED BY <4>1
    <3>4. CASE todo \in Freeing
      <4>1. t \in {<<"join", "free">>, <<"free">>, <<>>}
        BY <2>3, <3>4, Tails DEF Freeing
      <4> QED BY <4>1
    <3>5. CASE todo \in HaltStop
      <4>1. t \in JoinStop
        BY <2>3, <3>5, Tails DEF HaltStop, JoinStop
      <4> QED BY <4>1
    <3>6. CASE todo \in JoinStop
      <4>1. t \in DrainStop
        BY <2>3, <3>6, Tails DEF JoinStop, DrainStop
      <4> QED BY <4>1
    <3>7. CASE todo \in DrainStop
      <4>1. t \in {<<>>, <<"start">>, <<"halt", "join", "free">>}
        BY <2>3, <3>7, Tails DEF DrainStop
      <4> QED BY <4>1
    <3>8. CASE todo \in {<<"halt", "join", "open">>, <<"join", "open">>, <<"open">>}
      <4>1. t \in {<<"join", "open">>, <<"open">>, <<>>}
        BY <2>3, <3>8, Tails
      <4> QED BY <4>1
    <3>9. CASE todo \in {<<"halt", "join", "open", "answer">>, <<"join", "open", "answer">>,
                         <<"open", "answer">>}
      BY <3>9 DEF Asking, Answering
    <3> QED BY <3>1, <3>2, <3>3, <3>4, <3>5, <3>6, <3>7, <3>8, <3>9
         DEF Todos, Rest, Warming, Opening, HaltOpen, JoinOpen, OpenNow
  <2> QED BY <2>1, <2>2, <2>3
<1>3. Asking \subseteq Answering
  BY DEF Answering
<1> HIDE DEF ends
<1> QED BY <1>1, <1>2, <1>3

\* The engine's calls and the capture thread's steps that post nothing.
LEMMA ProtocolCalled ==
  ASSUME NativeTypes, Fits, Protocol, [Next]_vars, UNCHANGED queue, ~TakeEvent,
         \/ UNCHANGED <<client, todo, recording>>
         \/ /\ todo # <<>>
            /\ \/ todo' = Tail(todo)
               \/ Call("start") /\ ~recording /\ todo' = <<"halt", "join", "open">> \o Tail(todo)
               \/ Call("stop") /\ recording /\ todo' = <<"halt", "join", "drain">> \o Tail(todo)
            /\ \/ UNCHANGED client
               \/ client \in {"setup", "draining"} /\ client' = "ready"
               \/ Call("answer") /\ UNCHANGED recording
                    /\ client' = IF recording THEN "talking" ELSE "ready"
  PROVE  Protocol'
<1>1. WillRecord' => WillRecord
  BY WillOnlyStart
<1>2. CASE UNCHANGED <<client, todo, recording>>
  <2>1. StopComesFirst' /\ StopIsComing'
    BY <1>1, <1>2 DEF Protocol, StopComesFirst, StopIsComing, Kind, Stops
  <2>2. WarmIsLast' /\ StartIsAlone'
    BY <1>2 DEF Protocol, WarmIsLast, StartIsAlone, Kind
  <2>3. AnswerIsAwaited' /\ NothingIsRead'
    BY <1>2 DEF Protocol, AnswerIsAwaited, NothingIsRead, Kind
  <2> QED BY <2>1, <2>2, <2>3 DEF Protocol
<1>3. CASE todo # <<>> /\ ~UNCHANGED <<client, todo, recording>>
  <2>1. todo \in Todos
    BY DEF Fits, CallsFit
  <2>2. (todo' \in Answering => todo \in Answering) /\ (todo' \in Asking => todo \in Asking)
    BY <1>2, <1>3, <2>1, AnswersLast
  <2>3. StopComesFirst'
    BY <1>1 DEF Protocol, StopComesFirst, Kind, Stops
  <2>4. Call("answer") => todo = <<"answer">> /\ Tail(todo) = <<>>
    BY <2>1, CallAfterwards
  <2>5. StopIsComing'
    <3> SUFFICES ASSUME client' \in {"down", "setup", "ready", "draining"}, WillRecord'
                 PROVE  \E j \in DOMAIN queue : Stops(j)
      BY DEF StopIsComing, Stops, Kind
    <3>1. CASE client \in {"down", "setup", "ready", "draining"}
      BY <1>1, <3>1 DEF Protocol, StopIsComing
    <3>2. CASE Call("answer") /\ UNCHANGED recording
                 /\ client' = IF recording THEN "talking" ELSE "ready"
      <4>1. ~recording /\ todo' = <<>>
        BY <1>3, <2>4, <3>2 DEF Call
      <4>2. ~WillRecord'
        BY <3>2, <4>1, NotStarting
          DEF WillRecord, Starting, Ending, Opening, HaltOpen, JoinOpen, OpenNow, Cleaning
      <4> QED BY <4>2
    <3> QED BY <1>3, <3>1, <3>2
  <2>6. \A i \in DOMAIN queue : Kind(i) # "start"
    BY <1>3 DEF Protocol, StartIsAlone
  <2>7. StartIsAlone'
    BY <2>6 DEF StartIsAlone, Kind
  <2>8. client' = client \/ (client # "pressing" /\ client' # "pressing")
          \/ (todo = <<"answer">> /\ todo' = <<>>)
    BY <1>3, <2>4 DEF Call
  <2>9. WarmIsLast'
    <3>1. CASE client' = client
      BY <3>1 DEF Protocol, WarmIsLast, Kind
    <3>2. CASE client # "pressing"
      BY <3>2, NobodyPresses DEF WarmIsLast, Kind
    <3>3. CASE todo = <<"answer">>
      <4>1. \A i \in DOMAIN queue : Kind(i) \in {"route", "block"}
        BY <3>3 DEF Protocol, AnswerIsAwaited, Answering
      <4> QED BY <4>1 DEF WarmIsLast, Kind
    <3> QED BY <2>8, <3>1, <3>2, <3>3
  <2>10. AnswerIsAwaited'
    <3> SUFFICES ASSUME todo' \in Answering
                 PROVE  client' = "pressing" /\ \A i \in DOMAIN queue : Kind(i) \in {"route", "block"}
      BY DEF AnswerIsAwaited, Kind
    <3>1. client = "pressing" /\ \A i \in DOMAIN queue : Kind(i) \in {"route", "block"}
      BY <2>2 DEF Protocol, AnswerIsAwaited
    <3>2. todo' # <<>>
      BY AnsweringIs
    <3> QED BY <2>8, <3>1, <3>2
  <2>11. NothingIsRead'
    <3> SUFFICES ASSUME todo' \in Asking
                 PROVE  /\ \A i \in DOMAIN queue : Kind(i) = "route"
                        /\ todo' # <<"start", "answer">>
      BY DEF NothingIsRead, Kind
    <3>1. \A i \in DOMAIN queue : Kind(i) = "route"
      BY <2>2 DEF Protocol, NothingIsRead
    <3>2. todo' # <<"start", "answer">>
      <4>1. todo \in Asking
        BY <2>2
      <4>2. Tail(todo) \in {<<"answer">>, <<"join", "open", "answer">>, <<"open", "answer">>}
        BY <4>1, Tails DEF Asking
      <4>3. Call("start") => <<"halt", "join", "open">> \o Tail(todo) # <<"start", "answer">>
        BY <2>1, CallStart
      <4>4. ~Call("stop")
        BY <4>1 DEF Asking, Call
      <4>5. /\ <<"answer">> # <<"start", "answer">>
            /\ <<"join", "open", "answer">> # <<"start", "answer">>
            /\ <<"open", "answer">> # <<"start", "answer">>
        OBVIOUS
      <4>6. Tail(todo) # <<"start", "answer">>
        BY <4>2, <4>5
      <4>7. \/ todo' = Tail(todo)
            \/ Call("start") /\ todo' = <<"halt", "join", "open">> \o Tail(todo)
        BY <1>3, <4>4
      <4> QED BY <4>3, <4>6, <4>7
    <3> QED BY <3>1, <3>2
  <2> QED BY <2>3, <2>5, <2>7, <2>9, <2>10, <2>11 DEF Protocol
<1> QED BY <1>2, <1>3

\* The request for the recording.
LEMMA ProtocolAsks ==
  ASSUME NativeTypes, Fits, Protocol, [Next]_vars, AskForRecording
  PROVE  Protocol'
<1>1. /\ Call("warmed") /\ todo' = Tail(todo) /\ Order(<<"start">>) /\ UNCHANGED <<client, recording>>
  BY DEF AskForRecording, Done, clientVars, codec
<1>2. todo \in Todos
  BY DEF Fits, CallsFit
<1>3. todo = <<"warmed">> /\ todo' = <<>>
  BY <1>1, <1>2, CallAfterwards
<1>4. ~recording
  BY <1>3 DEF Fits, CallsFit, Warming
<1>5. client = "pressing" /\ \A i \in DOMAIN queue : Kind(i) \in {"route", "block"}
  BY <1>3 DEF Protocol, AnswerIsAwaited, Answering
<1>6. queue \in Seq(Events) /\ "start" \in Orders
  BY DEF NativeTypes, QueueFits, Orders
<1>7. Longer({"start"}) /\ \A i \in DOMAIN queue' \ DOMAIN queue : i = Len(queue) + 1
  BY <1>1, <1>6, OneMore
<1>8. ~WillRecord'
  BY <1>1, <1>3, <1>4, NotStarting
    DEF WillRecord, Starting, Ending, Opening, HaltOpen, JoinOpen, OpenNow, Cleaning
<1>9. StopComesFirst' /\ StopIsComing'
  BY <1>8 DEF StopComesFirst, StopIsComing
<1>10. \A i \in DOMAIN queue : Kind(i)' \in {"route", "block"}
  BY <1>5, <1>7 DEF Longer, Kind
<1>11. \A i \in DOMAIN queue' \ DOMAIN queue : Kind(i)' = "start"
  BY <1>7 DEF Longer, Kind
<1>12. WarmIsLast'
  <2>1. \A i \in DOMAIN queue' : Kind(i)' # "warm"
    BY <1>10, <1>11
  <2> QED BY <2>1 DEF WarmIsLast
<1>13. StartIsAlone'
  <2> SUFFICES ASSUME NEW i \in DOMAIN queue', Kind(i)' = "start"
               PROVE  /\ \A j \in DOMAIN queue' : ~(j > i)
                      /\ \A j \in DOMAIN queue' : j < i => Kind(j)' \in {"route", "block"}
    BY <1>1, <1>3, <1>4, <1>5 DEF StartIsAlone
  <2>1. i \notin DOMAIN queue
    BY <1>10
  <2>2. \A j \in DOMAIN queue' : j \in DOMAIN queue \/ j = i
    BY <1>7, <2>1
  <2>3. \A j \in DOMAIN queue : j < i
    BY <1>7, <2>1 DEF Longer
  <2>4. DOMAIN queue' \subseteq Nat
    BY <1>7 DEF Longer
  <2>5. \A j \in DOMAIN queue' : j \notin DOMAIN queue => ~(j < i)
    BY <2>2, <2>4
  <2>6. \A j \in DOMAIN queue' : ~(j > i)
    BY <2>2, <2>3, <2>4
  <2> QED BY <1>10, <2>5, <2>6
<1>14. todo' \notin Answering
  BY <1>3, AnsweringIs
<1> QED BY <1>9, <1>12, <1>13, <1>14 DEF Protocol, AnswerIsAwaited, NothingIsRead, Answering

\* An event leaves the queue.
LEMMA ProtocolTaken ==
  ASSUME NativeTypes, Fits, Protocol, [Next]_vars, TakeEvent
  PROVE  Protocol'
<1>1. /\ todo = <<>> /\ queue # <<>> /\ queue' = Tail(queue) /\ UNCHANGED <<client, recording>>
  BY DEF TakeEvent, ProcessCaptured, codec, clientVars
<1>2. queue \in Seq(Events)
  BY DEF NativeTypes, QueueFits
<1>3. /\ 1 \in DOMAIN queue /\ Kind(1) = Head(queue).kind
      /\ \A i \in DOMAIN queue' : i + 1 \in DOMAIN queue /\ Kind(i)' = Kind(i + 1)
  BY <1>1, <1>2, FirstIs DEF Kind
<1>4. /\ DOMAIN queue = 1..Len(queue) /\ Len(queue) \in Nat
      /\ DOMAIN queue' = 1..(Len(queue) - 1)
  BY <1>1, <1>2, FirstIs
<1>5. ASSUME WillRecord', Kind(1) # "start" PROVE WillRecord /\ ~Stops(1)
  <2>1. WillRecord
    BY <1>3, <1>5, WillOnlyStart
  <2>2. ~Stops(1)
    BY <1>3, <1>5, StopIsTaken DEF Stops
  <2> QED BY <2>1, <2>2
<1>6. \A j \in DOMAIN queue : j # 1 => j - 1 \in DOMAIN queue' /\ Kind(j - 1)' = Kind(j)
  <2> SUFFICES ASSUME NEW j \in DOMAIN queue, j # 1
               PROVE  j - 1 \in DOMAIN queue' /\ Kind(j - 1)' = Kind(j)
    OBVIOUS
  <2>1. j - 1 \in DOMAIN queue' /\ (j - 1) + 1 = j
    BY <1>4
  <2> QED BY <1>3, <2>1
<1>7. StopComesFirst'
  <2> SUFFICES ASSUME NEW i \in DOMAIN queue', Kind(i)' \in {"setup", "warm"}, WillRecord'
               PROVE  \E j \in DOMAIN queue' : j < i /\ Stops(j)'
    BY DEF StopComesFirst
  <2>1. i + 1 \in DOMAIN queue /\ Kind(i + 1) \in {"setup", "warm"} /\ i \in Nat /\ i + 1 > 1
    BY <1>3, <1>4
  <2>2. Kind(1) # "start"
    BY <1>3, <2>1 DEF Protocol, StartIsAlone
  <2>3. PICK j \in DOMAIN queue : j < i + 1 /\ Stops(j)
    BY <1>5, <2>1, <2>2 DEF Protocol, StopComesFirst
  <2>4. j # 1
    BY <1>5, <2>2, <2>3
  <2>5. j - 1 \in DOMAIN queue' /\ Stops(j - 1)'
    BY <1>6, <2>3, <2>4 DEF Stops
  <2>6. j - 1 < i
    BY <1>4, <2>1, <2>3
  <2> QED BY <2>5, <2>6
<1>8. StopIsComing'
  <2> SUFFICES ASSUME client \in {"down", "setup", "ready", "draining"}, WillRecord'
               PROVE  \E j \in DOMAIN queue' : Stops(j)'
    BY <1>1 DEF StopIsComing
  <2>1. Kind(1) # "start"
    BY <1>3 DEF Protocol, StartIsAlone
  <2>2. PICK j \in DOMAIN queue : Stops(j)
    BY <1>5, <2>1 DEF Protocol, StopIsComing
  <2>3. j # 1
    BY <1>5, <2>1, <2>2
  <2> QED BY <1>6, <2>2, <2>3 DEF Stops
<1>9. WarmIsLast'
  <2> SUFFICES ASSUME NEW i \in DOMAIN queue', Kind(i)' = "warm"
               PROVE  /\ client = "pressing"
                      /\ \A j \in DOMAIN queue' : j > i => Kind(j)' \in {"route", "block"}
    BY <1>1 DEF WarmIsLast
  <2>1. i + 1 \in DOMAIN queue /\ Kind(i + 1) = "warm"
    BY <1>3
  <2>2. /\ client = "pressing"
        /\ \A j \in DOMAIN queue : j > i + 1 => Kind(j) \in {"route", "block"}
    BY <2>1 DEF Protocol, WarmIsLast
  <2>3. ASSUME NEW j \in DOMAIN queue', j > i PROVE Kind(j)' \in {"route", "block"}
    <3>1. j + 1 \in DOMAIN queue /\ Kind(j)' = Kind(j + 1) /\ j + 1 > i + 1
      BY <1>3, <1>4, <2>3
    <3> QED BY <2>2, <3>1
  <2> QED BY <2>2, <2>3
<1>10. StartIsAlone'
  <2> SUFFICES ASSUME NEW i \in DOMAIN queue', Kind(i)' = "start"
               PROVE  /\ client = "pressing" /\ ~recording /\ todo' = <<>>
                      /\ \A j \in DOMAIN queue' : j > i => Kind(j)' = "route"
                      /\ \A j \in DOMAIN queue' : j < i => Kind(j)' \in {"route", "block"}
    BY <1>1 DEF StartIsAlone
  <2>1. i + 1 \in DOMAIN queue /\ Kind(i + 1) = "start" /\ i \in Nat /\ 1 < i + 1
    BY <1>3, <1>4
  <2>2. /\ client = "pressing" /\ ~recording
        /\ \A j \in DOMAIN queue : j > i + 1 => Kind(j) = "route"
        /\ \A j \in DOMAIN queue : j < i + 1 => Kind(j) \in {"route", "block"}
    BY <2>1 DEF Protocol, StartIsAlone
  <2>3. Head(queue).kind \in {"route", "block"}
    BY <1>3, <2>1, <2>2
  <2>4. todo' = <<>>
    BY <1>1, <2>2, <2>3, Taken DEF NativeTypes
  <2>5. ASSUME NEW j \in DOMAIN queue', j > i PROVE Kind(j)' = "route"
    <3>1. j + 1 \in DOMAIN queue /\ Kind(j)' = Kind(j + 1) /\ j + 1 > i + 1
      BY <1>3, <1>4, <2>5
    <3> QED BY <2>2, <3>1
  <2>6. ASSUME NEW j \in DOMAIN queue', j < i PROVE Kind(j)' \in {"route", "block"}
    <3>1. j + 1 \in DOMAIN queue /\ Kind(j)' = Kind(j + 1) /\ j + 1 < i + 1
      BY <1>3, <1>4, <2>6
    <3> QED BY <2>2, <3>1
  <2> QED BY <2>2, <2>4, <2>5, <2>6
<1>11. todo' \in Answering => Head(queue).kind \in {"warm", "start"}
  <2>1. \A t \in {<<>>, <<"warm", "ready">>, <<"ready">>, <<"stop">>, <<"stop", "start">>,
                  <<"quiet", "halt", "join", "free">>,
                  <<"quiet", "stop", "halt", "join", "free">>} : t \notin Answering
    BY AnsweringIs
  <2>2. Head(queue).kind \in {"warm", "start"} \/ todo' \in
          {<<>>, <<"warm", "ready">>, <<"ready">>, <<"stop">>, <<"stop", "start">>,
           <<"quiet", "halt", "join", "free">>, <<"quiet", "stop", "halt", "join", "free">>}
    BY <1>1, Taken DEF NativeTypes
  <2> QED BY <2>1, <2>2
<1>12. AnswerIsAwaited'
  <2> SUFFICES ASSUME todo' \in Answering
               PROVE  /\ client = "pressing"
                      /\ \A i \in DOMAIN queue' : Kind(i)' \in {"route", "block"}
    BY <1>1 DEF AnswerIsAwaited
  <2>1. Kind(1) \in {"warm", "start"}
    BY <1>3, <1>11
  <2>2. /\ client = "pressing"
        /\ \A j \in DOMAIN queue : j > 1 => Kind(j) \in {"route", "block"}
    BY <1>3, <2>1 DEF Protocol, WarmIsLast, StartIsAlone
  <2>3. \A i \in DOMAIN queue' : i + 1 > 1
    BY <1>4
  <2> QED BY <1>3, <2>2, <2>3
<1>13. NothingIsRead'
  <2> SUFFICES ASSUME todo' \in Asking
               PROVE  /\ \A i \in DOMAIN queue' : Kind(i)' = "route"
                      /\ ~recording
    BY <1>1 DEF NothingIsRead
  <2>1. Kind(1) = "start"
    <3>1. Head(queue).kind \in {"warm", "start"}
      BY <1>11 DEF Answering
    <3>2. Head(queue).kind = "warm" => todo' = <<"warm", "warmed">>
      BY Taken DEF NativeTypes
    <3>3. <<"warm", "warmed">> \notin Asking
      BY DEF Asking
    <3> QED BY <1>3, <3>1, <3>2, <3>3
  <2>2. ~recording /\ \A j \in DOMAIN queue : j > 1 => Kind(j) = "route"
    BY <1>3, <2>1 DEF Protocol, StartIsAlone
  <2>3. \A i \in DOMAIN queue' : i + 1 > 1
    BY <1>4
  <2> QED BY <1>3, <2>2, <2>3
<1> QED BY <1>7, <1>8, <1>9, <1>10, <1>12, <1>13 DEF Protocol

LEMMA ProtocolKept ==
  ASSUME NativeTypes, Fits, Protocol, [Next]_vars
  PROVE  Protocol'
<1>1. CASE UNCHANGED <<client, queue, todo, recording>> /\ ~TakeEvent
  BY <1>1, ProtocolCalled
<1>2. CASE Client
  BY <1>2, ProtocolConnects, ProtocolStops, ProtocolPresses DEF Client
<1>3. CASE RouteChanges
  <2>1. Order(<<"route">>) /\ UNCHANGED <<client, todo, recording>>
    BY <1>3 DEF RouteChanges, clientVars, codec
  <2>2. "route" \in Orders /\ queue \in Seq(Events)
    BY DEF Orders, NativeTypes, QueueFits
  <2>3. Longer({"route"})
    BY <2>1, <2>2, OneMore
  <2> QED BY <2>1, <2>3, ProtocolGrows
<1>4. CASE TakeEvent
  BY <1>4, ProtocolTaken
<1>5. CASE AskForRecording
  BY <1>5, ProtocolAsks
<1>6. CASE SetupAudioInput \/ AudioReady \/ Halt \/ Join \/ Open \/ ResetAudioMode \/ ReleaseCapture
  <2>1. /\ todo # <<>> /\ todo' = Tail(todo) /\ UNCHANGED queue
        /\ UNCHANGED client \/ (client \in {"setup", "draining"} /\ client' = "ready")
    BY <1>6 DEF SetupAudioInput, AudioReady, Halt, Join, Open, ResetAudioMode, ReleaseCapture, Call,
      Done, clientVars
  <2>2. ~TakeEvent
    BY <2>1 DEF TakeEvent
  <2> QED BY <2>1, <2>2, ProtocolCalled
<1>7. CASE Answer
  <2>1. /\ Call("answer") /\ todo # <<>> /\ todo' = Tail(todo) /\ UNCHANGED <<queue, recording>>
        /\ client' = IF recording THEN "talking" ELSE "ready"
    BY <1>7 DEF Answer, Call, Done, codec
  <2>2. ~TakeEvent
    BY <2>1 DEF TakeEvent
  <2> QED BY <2>1, <2>2, ProtocolCalled
<1>8. CASE StartRecording
  <2>1. /\ Call("start") /\ todo # <<>> /\ UNCHANGED <<queue, client>>
        /\ \/ todo' = Tail(todo)
           \/ ~recording /\ todo' = <<"halt", "join", "open">> \o Tail(todo)
    BY <1>8 DEF StartRecording, Call, Done, Then, clientVars
  <2>2. ~TakeEvent
    BY <2>1 DEF TakeEvent
  <2> QED BY <2>1, <2>2, ProtocolCalled
<1>9. CASE StopRecording
  <2>1. /\ Call("stop") /\ todo # <<>> /\ UNCHANGED queue
        /\ UNCHANGED client \/ (client \in {"setup", "draining"} /\ client' = "ready")
        /\ \/ todo' = Tail(todo)
           \/ recording /\ todo' = <<"halt", "join", "drain">> \o Tail(todo)
    BY <1>9 DEF StopRecording, Call, Done, Then, TxDrainComplete
  <2>2. ~TakeEvent
    BY <2>1 DEF TakeEvent
  <2> QED BY <2>1, <2>2, ProtocolCalled
<1>10. CASE Drain
  <2>1. /\ todo # <<>> /\ UNCHANGED queue /\ todo' = Tail(todo)
        /\ UNCHANGED client \/ (client \in {"setup", "draining"} /\ client' = "ready")
    BY <1>10 DEF Drain, Call, Done, TxDrainComplete
  <2>2. ~TakeEvent
    BY <2>1 DEF TakeEvent
  <2> QED BY <2>1, <2>2, ProtocolCalled
<1>11. CASE Attach \/ LoopTop \/ Read \/ (Deliver /\ UNCHANGED queue)
  <2>1. UNCHANGED <<client, queue, todo, recording>>
    BY <1>11 DEF Attach, LoopTop, Read, Deliver, elsewhere, clientVars, codec
  <2>2. ~TakeEvent
    BY <1>11 DEF Attach, LoopTop, Read, Deliver, TakeEvent, native
  <2> QED BY <1>1, <2>1, <2>2
<1>12. CASE Deliver /\ queue' # queue
  <2>1. UNCHANGED <<client, todo, recording>> /\ thread = "read"
    BY <1>12 DEF Deliver, elsewhere, clientVars, codec
  <2>2. Longer({"block"})
    BY <1>12, OneBlockMore DEF NativeTypes
  <2>3. recording /\ todo \notin Opening
    BY <2>1 DEF Fits, ThreadFits, Live, NativeTypes, CodecFits
  <2> QED BY <2>1, <2>2, <2>3, ProtocolGrows
<1>13. CASE UNCHANGED vars
  <2>1. UNCHANGED <<client, queue, todo, recording>>
    BY <1>13 DEF vars, clientVars, codec
  <2>2. ~TakeEvent
    <3> SUFFICES ASSUME TakeEvent PROVE FALSE
      OBVIOUS
    <3>1. queue' = Tail(queue) /\ queue # <<>> /\ queue' = queue /\ queue \in Seq(Events)
      BY <1>13 DEF TakeEvent, vars, NativeTypes, QueueFits
    <3>2. Len(Tail(queue)) = Len(queue) - 1 /\ Len(queue) \in Nat
      BY <3>1, FirstIs
    <3> QED BY <3>1, <3>2
  <2> QED BY <1>1, <2>1, <2>2
<1> QED BY <1>2, <1>3, <1>4, <1>5, <1>6, <1>7, <1>8, <1>9, <1>10, <1>11, <1>12, <1>13
     DEF Next, Engine, CaptureLoop

\* Nothing is set up while a recording is wanted.
LEMMA NothingIsSetUp ==
  ASSUME NativeTypes, Protocol, TakeEvent, Head(queue).kind \in {"setup", "warm"}
  PROVE  ~recording
<1>1. queue # <<>> /\ todo = <<>> /\ queue \in Seq(Events)
  BY DEF TakeEvent, NativeTypes, QueueFits
<1>2. 1 \in DOMAIN queue /\ Kind(1) \in {"setup", "warm"} /\ DOMAIN queue \subseteq Nat \ {0}
  BY <1>1, FirstIs DEF Kind
<1>3. ~WillRecord
  BY <1>2 DEF Protocol, StopComesFirst
<1> QED BY <1>1, <1>3, NotEnding DEF WillRecord

LEMMA ProtocolAtFirst == Init => Protocol
<1> SUFFICES ASSUME Init PROVE Protocol
  OBVIOUS
<1>1. queue = <<>> /\ DOMAIN queue = {} /\ todo = <<>> /\ ~recording
  BY DEF Init
<1>2. ~WillRecord /\ todo \notin Answering
  BY <1>1, NotStarting, AnsweringIs DEF WillRecord
<1> QED BY <1>1, <1>2 DEF Protocol, StopComesFirst, StopIsComing, WarmIsLast, StartIsAlone,
     AnswerIsAwaited, NothingIsRead, Answering

\* What the engine, the capture thread and the client agree on.
CaptureAgrees == NativeTypes /\ Fits /\ Protocol

LEMMA AgreementKept == CaptureAgrees /\ [Next]_vars => CaptureAgrees'
<1> SUFFICES ASSUME NativeTypes, Fits, Protocol, [Next]_vars PROVE CaptureAgrees'
  BY DEF CaptureAgrees
<1>1. TakeEvent /\ Head(queue).kind \in {"setup", "warm"} => ~recording
  BY NothingIsSetUp
<1>2. Fits'
  BY <1>1, FitsKept
<1>3. NativeTypes'
  BY NativeTypesKept
<1>4. Protocol'
  BY ProtocolKept
<1> QED BY <1>2, <1>3, <1>4 DEF CaptureAgrees

\* Once the engine has nothing left to do and does not record, the AudioRecord is
\* stopped, its thread joined, the Bluetooth route given back and the audio mode
\* restored, whatever failed on the way, unless a thread could not attach to the JVM.
THEOREM MicrophoneReturns == Spec => []MicrophoneIsGivenBack
<1>1. Init => CaptureAgrees
  BY NativeAtFirst, ProtocolAtFirst DEF CaptureAgrees
<1>2. CaptureAgrees /\ [Next]_vars => CaptureAgrees'
  BY AgreementKept
<1>3. CaptureAgrees => MicrophoneIsGivenBack
  <2> SUFFICES ASSUME Fits, todo = <<>>, ~recording, ~unattached
               PROVE  record # "recording" /\ thread = "none" /\ ~held /\ mode = "normal"
    BY DEF CaptureAgrees, MicrophoneIsGivenBack
  <2> QED BY DEF Fits, Hardware, Silent, Stopped
<1> QED BY <1>1, <1>2, <1>3, PTL DEF Spec

-----------------------------------------------------------------------------
(* The samples. *)

El(s) == {s[i] : i \in DOMAIN s}
Below(A, B) == \A a \in A, b \in B : a < b
Rises(s) == \A i, j \in DOMAIN s : i < j => s[i] < s[j]
\* Zeros are padding.
Speaks(s) == \A i, j \in DOMAIN s : i < j /\ s[i] # 0 /\ s[j] # 0 => s[i] < s[j]

Waiting == El(pending) \union El(startup)
Blocks == {i \in DOMAIN queue : Kind(i) = "block"}
Said(i) == El(queue[i].samples)

\* What was sent comes before what waits to be encoded, that before what the queue
\* holds, and all of it before what the capture thread has just read.
WireFits == Speaks(wire) /\ Below(El(wire), Waiting)
WaitingFits ==
  /\ Rises(pending) /\ Rises(startup) /\ (recording \/ Waiting = {})
  /\ IF priming THEN pending = <<>> ELSE startup = <<>>
BlocksFit ==
  /\ \A i \in Blocks : Rises(queue[i].samples) /\ Below(El(wire) \union Waiting, Said(i))
  /\ \A i, j \in Blocks : i < j => Below(Said(i), Said(j))
ReadLast ==
  /\ Below(El(wire) \union Waiting, {captured - got + 1})
  /\ \A i \in Blocks : Below(Said(i), {captured - got + 1})
SamplesFit == WireFits /\ WaitingFits /\ BlocksFit /\ ReadLast

\* And nothing in the engine's hands is older than the transmission.
SinceFirst ==
  /\ \A s \in Waiting : s >= first
  /\ \A i \in Blocks : \A s \in Said(i) : s >= first
  /\ first <= captured - got + 1 /\ first \in Nat

LEMMA ElIn ==
  ASSUME NEW S, NEW s \in Seq(S)
  PROVE  El(s) \subseteq S /\ (s = <<>> => El(s) = {}) /\ (El(s) = {} => s = <<>>)
<1>1. DOMAIN s = 1..Len(s) /\ Len(s) \in Nat /\ \A i \in DOMAIN s : s[i] \in S
  OBVIOUS
<1>2. El(s) \subseteq S
  BY <1>1 DEF El
<1>3. ASSUME s = <<>> PROVE El(s) = {}
  <2>1. DOMAIN s = {}
    BY <1>3
  <2> QED BY <2>1 DEF El
<1>4. ASSUME El(s) = {} PROVE s = <<>>
  <2>1. DOMAIN s = {}
    BY <1>4 DEF El
  <2>2. Len(s) = 0
    BY <1>1, <2>1
  <2> QED BY <2>2
<1> QED BY <1>2, <1>3, <1>4

LEMMA ElOfNumbers ==
  /\ \A s \in Seq(Numbers) : El(s) \subseteq Nat \ {0}
  /\ \A s \in Seq(0..MaxSamples) : El(s) \subseteq Nat
<1>1. ASSUME NEW s \in Seq(Numbers) PROVE El(s) \subseteq Nat \ {0}
  <2>1. El(s) \subseteq Numbers
    BY ElIn
  <2> QED BY <2>1, Sizes DEF Numbers
<1>2. ASSUME NEW s \in Seq(0..MaxSamples) PROVE El(s) \subseteq Nat
  <2>1. ASSUME NEW S, s \in Seq(S) PROVE El(s) \subseteq S
    BY <2>1, ElIn
  <2>2. El(s) \subseteq 0..MaxSamples
    BY <2>1
  <2> QED BY <2>2, Sizes
<1> QED BY <1>1, <1>2

LEMMA ElJoined ==
  ASSUME NEW S, NEW s \in Seq(S), NEW t \in Seq(S)
  PROVE  El(s \o t) = El(s) \union El(t)
<1>1. /\ s \o t \in Seq(S) /\ Len(s \o t) = Len(s) + Len(t)
      /\ \A i \in 1..Len(s) : (s \o t)[i] = s[i]
      /\ \A i \in 1..Len(t) : (s \o t)[Len(s) + i] = t[i]
  BY Joining
<1> DEFINE both == s \o t
<1> HIDE DEF both
<1>2. /\ DOMAIN s = 1..Len(s) /\ DOMAIN t = 1..Len(t) /\ DOMAIN both = 1..Len(s) + Len(t)
      /\ Len(s) \in Nat /\ Len(t) \in Nat
  BY <1>1 DEF both
<1>3. ASSUME NEW x \in El(both) PROVE x \in El(s) \union El(t)
  <2>1. PICK i \in DOMAIN both : x = both[i]
    BY DEF El
  <2>2. CASE i <= Len(s)
    <3>1. i \in DOMAIN s /\ x = s[i]
      BY <1>1, <1>2, <2>1, <2>2 DEF both
    <3> QED BY <3>1 DEF El
  <2>3. CASE i > Len(s)
    <3>1. i - Len(s) \in 1..Len(t) /\ Len(s) + (i - Len(s)) = i
      BY <1>2, <2>3
    <3>2. i - Len(s) \in DOMAIN t /\ x = t[i - Len(s)]
      BY <1>1, <1>2, <2>1, <3>1 DEF both
    <3> QED BY <3>2 DEF El
  <2> QED BY <1>2, <2>2, <2>3
<1>4. ASSUME NEW x \in El(s) PROVE x \in El(both)
  <2>1. PICK i \in DOMAIN s : x = s[i]
    BY DEF El
  <2>2. i \in DOMAIN both /\ both[i] = x
    BY <1>1, <1>2, <2>1 DEF both
  <2> QED BY <2>2 DEF El
<1>5. ASSUME NEW x \in El(t) PROVE x \in El(both)
  <2>1. PICK i \in DOMAIN t : x = t[i]
    BY DEF El
  <2>2. Len(s) + i \in DOMAIN both /\ both[Len(s) + i] = x
    BY <1>1, <1>2, <2>1 DEF both
  <2> QED BY <2>2 DEF El
<1> QED BY <1>3, <1>4, <1>5 DEF both

LEMMA ElCut ==
  ASSUME NEW S, NEW s \in Seq(S), NEW k \in 0..Len(s)
  PROVE  El(SubSeq(s, 1, k)) \subseteq El(s) /\ El(SubSeq(s, k + 1, Len(s))) \subseteq El(s)
<1>1. /\ SubSeq(s, 1, k) \in Seq(S) /\ Len(SubSeq(s, 1, k)) = k
      /\ \A i \in 1..k : SubSeq(s, 1, k)[i] = s[i]
      /\ SubSeq(s, k + 1, Len(s)) \in Seq(S) /\ Len(SubSeq(s, k + 1, Len(s))) = Len(s) - k
      /\ \A i \in 1..(Len(s) - k) : SubSeq(s, k + 1, Len(s))[i] = s[k + i]
  BY Cut
<1> DEFINE a == SubSeq(s, 1, k)
           b == SubSeq(s, k + 1, Len(s))
<1> HIDE DEF a, b
<1>2. /\ DOMAIN s = 1..Len(s) /\ DOMAIN a = 1..k /\ DOMAIN b = 1..(Len(s) - k)
      /\ Len(s) \in Nat
  BY <1>1 DEF a, b
<1>3. ASSUME NEW i \in DOMAIN a PROVE i \in DOMAIN s /\ a[i] = s[i]
  <2>1. i \in 1..k /\ i \in 1..Len(s)
    BY <1>2
  <2>2. a[i] = s[i]
    BY <1>1, <2>1 DEF a
  <2> QED BY <1>2, <2>1, <2>2
<1>4. ASSUME NEW i \in DOMAIN b PROVE k + i \in DOMAIN s /\ b[i] = s[k + i]
  <2>1. i \in 1..(Len(s) - k) /\ k + i \in 1..Len(s)
    BY <1>2
  <2>2. b[i] = s[k + i]
    BY <1>1, <2>1 DEF b
  <2> QED BY <1>2, <2>1, <2>2
<1>5. El(a) \subseteq El(s)
  BY <1>3 DEF El
<1>6. El(b) \subseteq El(s)
  BY <1>4 DEF El
<1> QED BY <1>5, <1>6 DEF a, b

LEMMA SpeaksJoined ==
  ASSUME NEW S, S \subseteq Nat, NEW s \in Seq(S), NEW t \in Seq(S), Speaks(s), Speaks(t),
         \A a \in El(s), b \in El(t) : b # 0 => a < b
  PROVE  Speaks(s \o t)
<1>1. /\ s \o t \in Seq(S) /\ Len(s \o t) = Len(s) + Len(t)
      /\ \A i \in 1..Len(s) : (s \o t)[i] = s[i]
      /\ \A i \in 1..Len(t) : (s \o t)[Len(s) + i] = t[i]
  BY Joining
<1> DEFINE both == s \o t
<1> HIDE DEF both
<1>2. /\ DOMAIN s = 1..Len(s) /\ DOMAIN t = 1..Len(t) /\ DOMAIN both = 1..Len(s) + Len(t)
      /\ Len(s) \in Nat /\ Len(t) \in Nat
  BY <1>1 DEF both
<1>3. \A i \in DOMAIN both : i <= Len(s) => i \in DOMAIN s /\ both[i] = s[i]
  BY <1>1, <1>2 DEF both
<1>4. ASSUME NEW i \in DOMAIN both, ~(i <= Len(s))
      PROVE  i - Len(s) \in DOMAIN t /\ both[i] = t[i - Len(s)]
  <2>1. i - Len(s) \in 1..Len(t) /\ Len(s) + (i - Len(s)) = i
    BY <1>2, <1>4
  <2>2. both[Len(s) + (i - Len(s))] = t[i - Len(s)]
    BY <1>1, <2>1 DEF both
  <2> QED BY <1>2, <2>1, <2>2
<1>5. ASSUME NEW i \in DOMAIN both, NEW j \in DOMAIN both, i < j, both[i] # 0, both[j] # 0
      PROVE  both[i] < both[j]
  <2>1. CASE j <= Len(s)
    <3>1. i <= Len(s)
      BY <1>2, <1>5, <2>1
    <3>2. /\ i \in DOMAIN s /\ both[i] = s[i] /\ j \in DOMAIN s /\ both[j] = s[j]
      BY <1>3, <2>1, <3>1
    <3> QED BY <1>5, <3>2 DEF Speaks
  <2>2. CASE i <= Len(s) /\ ~(j <= Len(s))
    <3>1. i \in DOMAIN s /\ both[i] = s[i]
      BY <1>3, <2>2
    <3>2. j - Len(s) \in DOMAIN t /\ both[j] = t[j - Len(s)]
      BY <1>4, <2>2
    <3>3. both[i] \in El(s) /\ both[j] \in El(t)
      BY <3>1, <3>2 DEF El
    <3> QED BY <1>5, <3>3
  <2>3. CASE ~(i <= Len(s))
    <3>1. ~(j <= Len(s)) /\ i - Len(s) < j - Len(s)
      BY <1>2, <1>5, <2>3
    <3>2. /\ i - Len(s) \in DOMAIN t /\ both[i] = t[i - Len(s)]
          /\ j - Len(s) \in DOMAIN t /\ both[j] = t[j - Len(s)]
      BY <1>4, <2>3, <3>1
    <3> QED BY <1>5, <3>1, <3>2 DEF Speaks
  <2> QED BY <2>1, <2>2, <2>3
<1>6. Speaks(both)
  BY <1>5 DEF Speaks
<1> QED BY <1>6 DEF both

LEMMA RisesJoined ==
  ASSUME NEW S, S \subseteq Nat \ {0}, NEW s \in Seq(S), NEW t \in Seq(S), Rises(s), Rises(t),
         Below(El(s), El(t))
  PROVE  Rises(s \o t)
<1>1. Speaks(s) /\ Speaks(t)
  BY DEF Rises, Speaks
<1>2. S \subseteq Nat /\ \A a \in El(s), b \in El(t) : b # 0 => a < b
  BY DEF Below
<1>3. Speaks(s \o t)
  BY <1>1, <1>2, SpeaksJoined
<1>4. s \o t \in Seq(S)
  BY Joining
<1> DEFINE both == s \o t
<1> HIDE DEF both
<1>5. \A i \in DOMAIN both : both[i] # 0
  BY <1>4 DEF both
<1>6. Rises(both)
  BY <1>3, <1>5 DEF Rises, Speaks, both
<1> QED BY <1>6 DEF both

LEMMA SpeaksCut ==
  ASSUME NEW S, NEW s \in Seq(S), NEW k \in 0..Len(s), Speaks(s)
  PROVE  Speaks(SubSeq(s, 1, k))
<1>1. /\ SubSeq(s, 1, k) \in Seq(S) /\ Len(SubSeq(s, 1, k)) = k
      /\ \A i \in 1..k : SubSeq(s, 1, k)[i] = s[i]
  BY Cut
<1> DEFINE a == SubSeq(s, 1, k)
<1> HIDE DEF a
<1>2. DOMAIN s = 1..Len(s) /\ DOMAIN a = 1..k /\ Len(s) \in Nat
  BY <1>1 DEF a
<1>3. \A i \in DOMAIN a : i \in DOMAIN s /\ a[i] = s[i]
  BY <1>1, <1>2 DEF a
<1>4. Speaks(a)
  BY <1>3 DEF Speaks
<1> QED BY <1>4 DEF a

LEMMA RisesCut ==
  ASSUME NEW S, NEW s \in Seq(S), NEW k \in 0..Len(s), Rises(s)
  PROVE  /\ Rises(SubSeq(s, k + 1, Len(s)))
         /\ Below(El(SubSeq(s, 1, k)), El(SubSeq(s, k + 1, Len(s))))
<1>1. /\ SubSeq(s, 1, k) \in Seq(S) /\ Len(SubSeq(s, 1, k)) = k
      /\ \A i \in 1..k : SubSeq(s, 1, k)[i] = s[i]
      /\ SubSeq(s, k + 1, Len(s)) \in Seq(S) /\ Len(SubSeq(s, k + 1, Len(s))) = Len(s) - k
      /\ \A i \in 1..(Len(s) - k) : SubSeq(s, k + 1, Len(s))[i] = s[k + i]
  BY Cut
<1> DEFINE a == SubSeq(s, 1, k)
           b == SubSeq(s, k + 1, Len(s))
<1> HIDE DEF a, b
<1>2. DOMAIN s = 1..Len(s) /\ DOMAIN a = 1..k /\ DOMAIN b = 1..(Len(s) - k) /\ Len(s) \in Nat
  BY <1>1 DEF a, b
<1>3. ASSUME NEW i \in DOMAIN a PROVE i \in DOMAIN s /\ a[i] = s[i] /\ i <= k
  <2>1. i \in 1..k /\ i \in 1..Len(s) /\ i <= k
    BY <1>2
  <2>2. a[i] = s[i]
    BY <1>1, <2>1 DEF a
  <2> QED BY <1>2, <2>1, <2>2
<1>4. ASSUME NEW i \in DOMAIN b PROVE k + i \in DOMAIN s /\ b[i] = s[k + i] /\ k + i > k
  <2>1. i \in 1..(Len(s) - k) /\ k + i \in 1..Len(s) /\ k + i > k
    BY <1>2
  <2>2. b[i] = s[k + i]
    BY <1>1, <2>1 DEF b
  <2> QED BY <1>2, <2>1, <2>2
<1>5. Rises(b)
  <2> SUFFICES ASSUME NEW i \in DOMAIN b, NEW j \in DOMAIN b, i < j PROVE b[i] < b[j]
    BY DEF Rises
  <2>1. k + i < k + j
    BY <1>2
  <2> QED BY <1>4, <2>1 DEF Rises
<1>6. Below(El(a), El(b))
  <2> SUFFICES ASSUME NEW i \in DOMAIN a, NEW j \in DOMAIN b PROVE a[i] < b[j]
    BY DEF Below, El
  <2>1. i < k + j
    BY <1>2, <1>3, <1>4
  <2> QED BY <1>3, <1>4, <2>1 DEF Rises
<1> QED BY <1>5, <1>6 DEF a, b

\* What a step sends: the first of some samples that come after all that was sent.
Sends(s, k) ==
  /\ s \in Seq(0..MaxSamples) /\ k \in 0..Len(s) /\ wire' = wire \o SubSeq(s, 1, k)
  /\ Speaks(s) /\ \A a \in El(wire), b \in El(s) : b # 0 => a < b

LEMMA Sent ==
  ASSUME CodecFits, Speaks(wire), NEW s, NEW k, Sends(s, k)
  PROVE  /\ Speaks(wire') /\ El(wire') \subseteq El(wire) \union El(s)
         /\ El(wire') = El(wire) \union El(SubSeq(s, 1, k))
         /\ \A i \in DOMAIN wire' \ DOMAIN wire : wire'[i] \in El(s)
<1> DEFINE S == 0..MaxSamples
           a == SubSeq(s, 1, k)
<1>1. S \subseteq Nat /\ wire \in Seq(S) /\ s \in Seq(S) /\ k \in 0..Len(s)
  BY Sizes DEF CodecFits, Sends
<1> HIDE DEF S
<1>2. a \in Seq(S) /\ Speaks(a) /\ El(a) \subseteq El(s)
  BY <1>1, Cut, SpeaksCut, ElCut DEF Sends
<1> HIDE DEF a
<1>3. wire' = wire \o a
  BY DEF Sends, a
<1>4. \A x \in El(wire), y \in El(a) : y # 0 => x < y
  BY <1>2 DEF Sends
<1>5. Speaks(wire \o a) /\ El(wire \o a) = El(wire) \union El(a)
  BY <1>1, <1>2, <1>4, SpeaksJoined, ElJoined
<1>6. /\ Len(wire \o a) = Len(wire) + Len(a) /\ wire \o a \in Seq(S)
      /\ \A i \in 1..Len(a) : (wire \o a)[Len(wire) + i] = a[i]
  BY <1>1, <1>2, Joining
<1>7. ASSUME NEW i \in DOMAIN wire' \ DOMAIN wire PROVE wire'[i] \in El(s)
  <2>1. /\ DOMAIN wire = 1..Len(wire) /\ DOMAIN a = 1..Len(a) /\ Len(wire) \in Nat /\ Len(a) \in Nat
        /\ DOMAIN wire' = 1..Len(wire) + Len(a)
    BY <1>1, <1>2, <1>3, <1>6
  <2>2. i - Len(wire) \in 1..Len(a) /\ Len(wire) + (i - Len(wire)) = i
    BY <2>1
  <2>3. wire'[i] = a[i - Len(wire)] /\ i - Len(wire) \in DOMAIN a
    BY <1>3, <1>6, <2>1, <2>2
  <2>4. wire'[i] \in El(a)
    BY <2>3 DEF El
  <2> QED BY <1>2, <2>4
<1> QED BY <1>2, <1>3, <1>5, <1>7 DEF a

\* What waits, in its order.
LEMMA LeftRises ==
  ASSUME CodecFits, WaitingFits
  PROVE  /\ Left \in Seq(Numbers) /\ Rises(Left) /\ El(Left) = Waiting
         /\ Waiting \subseteq Nat \ {0}
<1>1. pending = <<>> \/ startup = <<>>
  BY DEF WaitingFits
<1>2. Numbers \subseteq Nat \ {0}
  BY Sizes DEF Numbers
<1>3. El(pending) = {} \/ El(startup) = {}
  BY <1>1, ElIn DEF CodecFits
<1>4. Below(El(pending), El(startup))
  BY <1>3 DEF Below
<1>5. pending \in Seq(Numbers) /\ startup \in Seq(Numbers) /\ Rises(pending) /\ Rises(startup)
  BY DEF CodecFits, WaitingFits
<1>6. Left \in Seq(Numbers) /\ Rises(Left) /\ El(Left) = Waiting
  BY <1>2, <1>4, <1>5, RisesJoined, ElJoined, Joining DEF Left, Waiting
<1> QED BY <1>6, ElOfNumbers

\* Padding follows them.
LEMMA PaddedSpeaks ==
  ASSUME CodecFits, WaitingFits
  PROVE  /\ Padded \in Seq(0..MaxSamples) /\ Speaks(Padded) /\ El(Padded) \subseteq Waiting \union {0}
<1>1. /\ Padded \in Seq(0..MaxSamples) /\ Len(Padded) >= Len(Left)
      /\ \A i \in 1..Len(Left) : Padded[i] = Left[i]
      /\ \A i \in 1..Len(Padded) : i > Len(Left) => Padded[i] = 0
  BY PaddedIs
<1>2. Left \in Seq(Numbers) /\ Rises(Left) /\ El(Left) = Waiting
  BY LeftRises
<1>3. /\ DOMAIN Padded = 1..Len(Padded) /\ DOMAIN Left = 1..Len(Left)
      /\ Len(Padded) \in Nat /\ Len(Left) \in Nat
  BY <1>1, <1>2
<1>4. ASSUME NEW i \in DOMAIN Padded, Padded[i] # 0
      PROVE  i \in DOMAIN Left /\ Padded[i] = Left[i]
  <2>1. i \in 1..Len(Left)
    BY <1>1, <1>3, <1>4
  <2> QED BY <1>1, <1>3, <2>1
<1>5. Speaks(Padded)
  BY <1>2, <1>4 DEF Speaks, Rises
<1>6. El(Padded) \subseteq Waiting \union {0}
  BY <1>2, <1>4 DEF El
<1> QED BY <1>1, <1>5, <1>6

LEMMA FlushSends ==
  ASSUME CodecFits, WireFits, WaitingFits, FlushPending
  PROVE  /\ \E k \in 0..Len(Padded) : Sends(Padded, k)
         /\ El(Padded) \subseteq Waiting \union {0}
         /\ pending' = <<>> /\ startup' = <<>> /\ priming' = FALSE
<1>1. PICK n \in 0..(Len(Padded) \div FrameSize) :
        wire' = wire \o SubSeq(Padded, 1, n * FrameSize)
  BY Flushed
<1>2. Padded \in Seq(0..MaxSamples) /\ Speaks(Padded) /\ El(Padded) \subseteq Waiting \union {0}
  BY PaddedSpeaks
<1>3. n * FrameSize \in 0..Len(Padded)
  <2>1. Len(Padded) \in Nat
    BY <1>2
  <2> QED BY <2>1, Whole, Sizes
<1>4. \A a \in El(wire), b \in El(Padded) : b # 0 => a < b
  BY <1>2 DEF WireFits, Below
<1>5. Sends(Padded, n * FrameSize)
  BY <1>1, <1>2, <1>3, <1>4 DEF Sends
<1> QED BY <1>2, <1>3, <1>5, Flushed

\* The blocks of the queue, which lost its first d events.
Shifts(d) ==
  /\ d \in {0, 1} /\ \A i \in Blocks' : i \in Nat /\ i + d \in Blocks /\ queue'[i] = queue[i + d]
\* Samples that come before the blocks left in the queue and before those to be read.
Early(A, d) ==
  /\ \A i \in Blocks' : Below(A, Said(i + d))
  /\ Below(A, {captured - got + 1})

LEMMA BlocksAre ==
  ASSUME QueueFits
  PROVE  \A i \in Blocks : /\ i \in DOMAIN queue /\ i \in Nat \ {0} /\ queue[i].samples \in Seq(Numbers)
                           /\ Said(i) \subseteq Nat \ {0}
<1> SUFFICES ASSUME NEW i \in Blocks
             PROVE  /\ i \in DOMAIN queue /\ i \in Nat \ {0} /\ queue[i].samples \in Seq(Numbers)
                    /\ Said(i) \subseteq Nat \ {0}
  OBVIOUS
<1>1. i \in DOMAIN queue /\ i \in Nat \ {0} /\ queue[i] \in Events
  BY DEF QueueFits, Blocks
<1>2. ASSUME NEW e \in [kind : Orders] PROVE e.kind \in Orders
  OBVIOUS
<1>3. "block" \notin Orders
  BY DEF Orders
<1>4. queue[i] \in Posted
  BY <1>1, <1>2, <1>3 DEF Events, Blocks, Kind
<1>5. queue[i].samples \in Seq(Numbers)
  BY <1>4 DEF Posted
<1> QED BY <1>1, <1>5, ElOfNumbers DEF Said

LEMMA BlocksShift ==
  ASSUME QueueFits, NativeFits, NativeFits', BlocksFit, ReadLast, NEW d, Shifts(d),
         NEW A \in SUBSET Nat, Early(A, d), El(wire') \union Waiting' \subseteq A,
         captured - got <= captured' - got'
  PROVE  BlocksFit' /\ ReadLast'
<1>0. /\ captured - got + 1 \in Int /\ captured' - got' + 1 \in Int
      /\ captured - got + 1 <= captured' - got' + 1
  <2>1. captured \in Nat /\ got \in Nat
    BY Sizes DEF NativeFits
  <2>2. captured' \in Nat /\ got' \in Nat
    BY Sizes DEF NativeFits
  <2>3. \A a, b, c, d1 \in Nat : a - b <= c - d1 =>
          a - b + 1 \in Int /\ c - d1 + 1 \in Int /\ a - b + 1 <= c - d1 + 1
    OBVIOUS
  <2> QED BY <2>1, <2>2, <2>3
<1>1. \A i \in Blocks' : i \in Nat /\ i + d \in Blocks /\ Said(i)' = Said(i + d)
  BY DEF Shifts, Said
<1>2. ASSUME NEW i \in Blocks'
      PROVE  /\ Rises(queue'[i].samples) /\ Below(El(wire') \union Waiting', Said(i)')
             /\ Below(Said(i)', {captured' - got' + 1})
  <2>1. Rises(queue'[i].samples)
    BY <1>2 DEF Shifts, BlocksFit
  <2>2. Below(A, Said(i)')
    BY <1>1, <1>2 DEF Early
  <2>3. Below(El(wire') \union Waiting', Said(i)')
    BY <2>2 DEF Below
  <2>4. Below(Said(i)', {captured' - got' + 1})
    <3>1. i + d \in Blocks /\ Said(i)' = Said(i + d)
      BY <1>1, <1>2
    <3>2. Said(i)' \subseteq Nat /\ Below(Said(i)', {captured - got + 1})
      BY <3>1, BlocksAre DEF ReadLast
    <3> QED BY <1>0, <3>2 DEF Below
  <2> QED BY <2>1, <2>3, <2>4
<1>3. ASSUME NEW i \in Blocks', NEW j \in Blocks', i < j PROVE Below(Said(i)', Said(j)')
  <2>1. i + d \in Blocks /\ j + d \in Blocks /\ i + d < j + d
    BY <1>1, <1>3 DEF Shifts
  <2> QED BY <1>1, <1>3, <2>1 DEF BlocksFit
<1>4. Below(El(wire') \union Waiting', {captured' - got' + 1})
  <2>1. Below(A, {captured - got + 1})
    BY DEF Early
  <2>2. \A a \in A : a < captured' - got' + 1
    BY <1>0, <2>1 DEF Below
  <2> QED BY <2>2 DEF Below
<1> QED BY <1>2, <1>3, <1>4 DEF BlocksFit, ReadLast

\* What was held and padding are early whatever left the queue.
LEMMA HeldIsEarly ==
  ASSUME QueueFits, NativeFits, BlocksFit, ReadLast, NEW d, Shifts(d)
  PROVE  Early(El(wire) \union Waiting \union {0}, d)
<1>1. ASSUME NEW i \in Blocks' PROVE Below(El(wire) \union Waiting \union {0}, Said(i + d))
  <2>1. i + d \in Blocks
    BY <1>1 DEF Shifts
  <2>2. Below(El(wire) \union Waiting, Said(i + d)) /\ Said(i + d) \subseteq Nat \ {0}
    BY <2>1, BlocksAre DEF BlocksFit
  <2> QED BY <2>2 DEF Below
<1>2. 0 < captured - got + 1
  BY Sizes DEF NativeFits
<1>3. Below(El(wire) \union Waiting \union {0}, {captured - got + 1})
  BY <1>2 DEF ReadLast, Below
<1> QED BY <1>1, <1>3 DEF Early

LEMMA LongerShifts ==
  ASSUME QueueFits, NEW kinds, Longer(kinds), "block" \notin kinds
  PROVE  Shifts(0)
<1> SUFFICES ASSUME NEW i \in Blocks'
             PROVE  i \in Nat /\ i + 0 \in Blocks /\ queue'[i] = queue[i + 0]
  BY DEF Shifts
<1>1. i \in DOMAIN queue' /\ queue'[i].kind = "block"
  BY DEF Blocks, Kind
<1>2. i \in DOMAIN queue /\ queue'[i] = queue[i] /\ i \in Nat
  BY <1>1 DEF Longer
<1>3. i + 0 = i
  BY <1>2
<1> QED BY <1>1, <1>2, <1>3 DEF Blocks, Kind

LEMMA SameShifts ==
  ASSUME QueueFits, UNCHANGED queue
  PROVE  Shifts(0)
<1>1. \A i \in Blocks' : i \in Blocks /\ i \in Nat /\ i + 0 = i
  BY BlocksAre DEF Blocks, Kind
<1> QED BY <1>1 DEF Shifts

LEMMA TakenShifts ==
  ASSUME QueueFits, TakeEvent
  PROVE  Shifts(1) /\ \A i \in Blocks' : i + 1 > 1
<1>1. queue \in Seq(Events) /\ queue # <<>> /\ queue' = Tail(queue)
  BY DEF QueueFits, TakeEvent
<1>2. /\ Tail(queue) \in Seq(Events)
      /\ \A i \in DOMAIN Tail(queue) : i + 1 \in DOMAIN queue /\ Tail(queue)[i] = queue[i + 1]
  BY <1>1, FirstIs
<1>3. DOMAIN Tail(queue) \subseteq Nat \ {0}
  BY <1>2
<1>4. \A i \in Blocks' : i \in DOMAIN queue' /\ queue'[i].kind = "block"
  BY DEF Blocks, Kind
<1>5. \A i \in Blocks' : i \in Nat \ {0} /\ i + 1 \in Blocks /\ queue'[i] = queue[i + 1]
  BY <1>1, <1>2, <1>3, <1>4 DEF Blocks, Kind
<1>6. \A i \in Blocks' : i + 1 > 1
  BY <1>5
<1> QED BY <1>5, <1>6 DEF Shifts

\* The queue in every step but the delivery of a block.
LEMMA QueueShifts ==
  ASSUME NativeTypes, [Next]_vars, ~TakeEvent, ~Deliver
  PROVE  Shifts(0)
<1> USE DEF NativeTypes
<1>1. queue \in Seq(Events)
  BY DEF QueueFits
<1>2. CASE UNCHANGED queue
  BY <1>2, SameShifts
<1>3. CASE \E kind \in Orders : Order(<<kind>>)
  <2>1. PICK kind \in Orders : Order(<<kind>>)
    BY <1>3
  <2>2. Longer({kind}) /\ "block" \notin {kind}
    BY <1>1, <2>1, OneMore DEF Orders
  <2> QED BY <2>2, LongerShifts
<1>4. CASE Connects \/ StartTransmission \/ RouteChanges \/ AskForRecording \/ BeginImmediatePttRelease
  <2>1. \E kind \in Orders : Order(<<kind>>)
    BY <1>4 DEF Connects, StartTransmission, RouteChanges, AskForRecording,
      BeginImmediatePttRelease, Orders
  <2> QED BY <1>3, <2>1
<1>5. CASE Disconnected
  <2>1. PICK kinds \in {<<>>, <<"stop">>, <<"cleanup">>, <<"cleanup", "stop">>} : Order(kinds)
    BY <1>5, DisconnectedOrders
  <2>2. Longer({"stop", "cleanup"})
    BY <1>1, <2>1, MaybeStop
  <2> QED BY <2>2, LongerShifts
<1>6. CASE SetupAudioInput \/ AudioReady \/ StartRecording \/ Halt \/ Join \/ Open \/ Answer
  BY <1>2, <1>6 DEF SetupAudioInput, AudioReady, StartRecording, Halt, Join, Open, Answer
<1>7. CASE StopRecording \/ Drain \/ ResetAudioMode \/ ReleaseCapture \/ Attach \/ LoopTop \/ Read
  BY <1>2, <1>7 DEF StopRecording, Drain, ResetAudioMode, ReleaseCapture, Attach, LoopTop, Read
<1> QED BY <1>2, <1>4, <1>5, <1>6, <1>7 DEF Next, Client, Engine, CaptureLoop, vars

LEMMA ReadMore ==
  ASSUME NEW c \in Nat, NEW m \in Nat
  PROVE  c - 0 = (c + m) - m /\ c - 0 <= (c + m) - m
OBVIOUS

\* What the capture thread has read and not posted only grows.
LEMMA ReadGrows ==
  ASSUME NativeTypes, ThreadFits, [Next]_vars
  PROVE  /\ captured - got <= captured' - got'
         /\ (~Deliver => captured - got = captured' - got')
<1> USE DEF NativeTypes
<1>1. captured \in Nat /\ got \in Nat
  BY Sizes DEF NativeFits
<1>2. CASE Read
  <2>1. got = 0 /\ captured' = captured + got'
    BY <1>2 DEF Read, ThreadFits
  <2>2. got' \in Nat
    BY NativeKept, Sizes DEF NativeFits
  <2>3. captured - 0 = (captured + got') - got' /\ captured - 0 <= (captured + got') - got'
    BY <1>1, <2>2, ReadMore
  <2> QED BY <2>1, <2>3, Zenon
<1>3. CASE Deliver
  <2>1. captured' = captured /\ got' = 0
    BY <1>3 DEF Deliver
  <2> QED BY <1>1, <1>3, <2>1
<1>4. CASE UNCHANGED <<captured, got>>
  BY <1>1, <1>4
<1>5. CASE UNCHANGED native
  BY <1>4, <1>5 DEF native
<1>6. CASE Client \/ RouteChanges \/ TakeEvent \/ SetupAudioInput \/ AskForRecording \/ AudioReady
  BY <1>5, <1>6 DEF Client, Connects, StartTransmission, BeginImmediatePttRelease, Disconnected,
    RouteChanges, TakeEvent, SetupAudioInput, AskForRecording, AudioReady
<1>7. CASE StartRecording \/ Answer \/ StopRecording \/ Drain \/ ResetAudioMode \/ ReleaseCapture
  BY <1>5, <1>7 DEF StartRecording, Answer, StopRecording, Drain, ResetAudioMode, ReleaseCapture
<1>8. CASE Halt \/ Join \/ Open \/ Attach \/ LoopTop
  BY <1>4, <1>8 DEF Halt, Join, Open, Attach, LoopTop
<1> QED BY <1>2, <1>3, <1>4, <1>5, <1>6, <1>7, <1>8 DEF Next, Engine, CaptureLoop, vars

Held == El(wire) \union Waiting \union {0}

LEMMA HeldAre ==
  ASSUME CodecFits
  PROVE  Held \subseteq Nat /\ Waiting \subseteq Nat \ {0} /\ Held \in SUBSET Nat
BY ElOfNumbers DEF CodecFits, Held, Waiting

LEMMA NothingWaits ==
  ASSUME pending = <<>>, startup = <<>>
  PROVE  Waiting = {}
<1>1. \A s : s = <<>> => El(s) = {}
  <2> SUFFICES ASSUME NEW s, s = <<>> PROVE El(s) = {}
    OBVIOUS
  <2>1. s \in Seq(Nat)
    OBVIOUS
  <2> QED BY <2>1, ElIn
<1> QED BY <1>1 DEF Waiting

\* The steps of the codec: it is left alone, what waits is dropped, or flushed.
LEMMA CodecQuiet ==
  ASSUME NativeTypes, NativeTypes', WireFits, WaitingFits,
         \/ UNCHANGED codec
         \/ /\ pending' = <<>> /\ startup' = <<>> /\ UNCHANGED wire
         \/ FlushPending
  PROVE  WireFits' /\ WaitingFits' /\ Held' \subseteq Held
<1> USE DEF NativeTypes
<1>1. CASE UNCHANGED codec
  <2>1. WireFits'
    BY <1>1 DEF WireFits, Waiting, codec, Speaks, El, Below
  <2>2. WaitingFits'
    BY <1>1 DEF WaitingFits, Waiting, codec, Rises, El
  <2>3. Held' \subseteq Held
    BY <1>1 DEF Held, Waiting, codec, El
  <2> QED BY <2>1, <2>2, <2>3
<1>2. ASSUME pending' = <<>>, startup' = <<>> PROVE WaitingFits' /\ Waiting' = {}
  <2>1. \A s : s = <<>> => El(s) = {} /\ Rises(s)
    <3> SUFFICES ASSUME NEW s, s = <<>> PROVE El(s) = {} /\ Rises(s)
      OBVIOUS
    <3>1. DOMAIN s = {}
      OBVIOUS
    <3> QED BY <3>1 DEF El, Rises
  <2>2. Waiting' = {}
    BY <1>2, <2>1 DEF Waiting
  <2> QED BY <1>2, <2>1, <2>2 DEF WaitingFits
<1>3. CASE pending' = <<>> /\ startup' = <<>> /\ UNCHANGED wire
  <2>1. WaitingFits' /\ Waiting' = {}
    BY <1>2, <1>3
  <2>2. WireFits'
    BY <1>3, <2>1 DEF WireFits, Below, Speaks
  <2>3. Held' \subseteq Held
    BY <1>3, <2>1 DEF Held, El
  <2> QED BY <2>1, <2>2, <2>3
<1>4. CASE FlushPending
  <2>1. PICK k \in 0..Len(Padded) : Sends(Padded, k)
    BY <1>4, FlushSends
  <2>2. El(Padded) \subseteq Waiting \union {0} /\ pending' = <<>> /\ startup' = <<>>
    BY <1>4, FlushSends
  <2>3. WaitingFits' /\ Waiting' = {}
    BY <1>2, <2>2
  <2>4. Speaks(wire') /\ El(wire') \subseteq El(wire) \union El(Padded)
    BY <2>1, Sent DEF WireFits
  <2>5. Speaks(wire)' /\ El(wire)' \subseteq El(wire) \union Waiting \union {0}
    BY <2>2, <2>4 DEF Speaks, El
  <2>6. WireFits'
    BY <2>3, <2>5 DEF WireFits, Below
  <2>7. Held' \subseteq Held
    BY <2>3, <2>5 DEF Held
  <2> QED BY <2>3, <2>6, <2>7
<1> QED BY <1>1, <1>3, <1>4

LEMMA StopsWithout ==
  ASSUME NativeTypes, WaitingFits, ~recording
  PROVE  pending = <<>> /\ startup = <<>>
<1>1. El(pending) = {} /\ El(startup) = {}
  BY DEF WaitingFits, Waiting
<1> QED BY <1>1, ElIn DEF NativeTypes, CodecFits

LEMMA CodecSteps ==
  ASSUME NativeTypes, WaitingFits, [Next]_vars, ~TakeEvent
  PROVE  \/ UNCHANGED codec
         \/ pending' = <<>> /\ startup' = <<>> /\ UNCHANGED wire
         \/ FlushPending
<1>1. CASE StopRecording
  <2>1. CASE ~recording /\ startup' = <<>> /\ UNCHANGED <<pending, wire>>
    BY <2>1, StopsWithout
  <2> QED BY <1>1, <2>1 DEF StopRecording
<1>2. CASE StartRecording \/ Open \/ ReleaseCapture \/ Drain
  BY <1>2 DEF StartRecording, Open, ReleaseCapture, Drain
<1>3. CASE Client \/ RouteChanges \/ SetupAudioInput \/ AskForRecording \/ AudioReady \/ Halt \/ Join
  BY <1>3 DEF Client, Connects, StartTransmission, BeginImmediatePttRelease, Disconnected,
    RouteChanges, SetupAudioInput, AskForRecording, AudioReady, Halt, Join
<1>4. CASE Answer \/ ResetAudioMode \/ CaptureLoop
  BY <1>4 DEF Answer, ResetAudioMode, CaptureLoop, Attach, LoopTop, Read, Deliver, elsewhere
<1> QED BY <1>1, <1>2, <1>3, <1>4 DEF Next, Engine, vars

\* The steps but the taking of an event and the delivery of a block.
LEMMA SamplesQuiet ==
  ASSUME NativeTypes, NativeTypes', ThreadFits, SamplesFit, [Next]_vars, ~TakeEvent, ~Deliver
  PROVE  SamplesFit' /\ Held' \subseteq Held
<1>1. Shifts(0) /\ captured - got <= captured' - got'
  BY QueueShifts, ReadGrows
<1>2. WireFits' /\ WaitingFits' /\ Held' \subseteq Held
  BY CodecSteps, CodecQuiet DEF SamplesFit
<1>3. Early(Held, 0) /\ Held \in SUBSET Nat
  BY <1>1, HeldIsEarly, HeldAre DEF Held, SamplesFit, NativeTypes
<1>4. El(wire') \union Waiting' \subseteq Held
  BY <1>2 DEF Held, El
<1>5. BlocksFit' /\ ReadLast'
  BY <1>1, <1>3, <1>4, BlocksShift DEF SamplesFit, NativeTypes
<1> QED BY <1>2, <1>5 DEF SamplesFit

\* A delivery makes what was read the last block.
LEMMA SamplesDelivered ==
  ASSUME NativeTypes, NativeTypes', ThreadFits, SamplesFit, Deliver
  PROVE  /\ SamplesFit' /\ Held' \subseteq Held
         /\ \A i \in Blocks' : \/ i \in Blocks /\ Said(i)' = Said(i)
                               \/ \A x \in Said(i)' : x >= captured - got + 1
<1> USE DEF NativeTypes
<1>1. UNCHANGED codec /\ UNCHANGED captured /\ got' = 0
  BY DEF Deliver, elsewhere
<1>2. WireFits' /\ WaitingFits' /\ Held' \subseteq Held
  BY <1>1, CodecQuiet DEF SamplesFit
<1>3. captured - got <= captured' - got'
  BY ReadGrows DEF Next, CaptureLoop
<1>4. El(wire') \union Waiting' \subseteq Held
  BY <1>2 DEF Held, El
<1>5. CASE UNCHANGED queue
  <2>1. Shifts(0)
    BY <1>5, SameShifts
  <2>2. Early(Held, 0) /\ Held \in SUBSET Nat
    BY <2>1, HeldIsEarly, HeldAre DEF Held, SamplesFit
  <2>3. BlocksFit' /\ ReadLast'
    BY <1>3, <1>4, <2>1, <2>2, BlocksShift DEF SamplesFit
  <2>4. \A i \in Blocks' : i \in Blocks /\ Said(i)' = Said(i)
    BY <1>5 DEF Blocks, Kind, Said
  <2> QED BY <1>2, <2>3, <2>4 DEF SamplesFit
<1>6. CASE queue' # queue
  <2> DEFINE n == Len(queue) + 1
             read == [k \in 1..got |-> captured - got + k]
  <2>1. /\ got > 0 /\ queue' \in Seq(Events) /\ Len(queue') = n
        /\ \A i \in DOMAIN queue : i \in DOMAIN queue' /\ queue'[i] = queue[i]
        /\ \A i \in DOMAIN queue' \ DOMAIN queue :
             i = n /\ queue'[i].kind = "block" /\ queue'[i].samples = read
    BY <1>6, Delivered
  <2>2. /\ Rises(read) /\ \A x \in El(read) : x >= captured - got + 1 /\ x < captured + 1 /\ x \in Nat
    <3>1. captured \in Nat /\ got \in Nat /\ got <= captured
      BY Sizes DEF NativeFits
    <3>2. DOMAIN read = 1..got /\ \A k \in 1..got : read[k] = captured - got + k
      OBVIOUS
    <3> HIDE DEF read
    <3>3. ASSUME NEW i \in DOMAIN read, NEW j \in DOMAIN read, i < j PROVE read[i] < read[j]
      BY <3>1, <3>2, <3>3
    <3>4. ASSUME NEW i \in DOMAIN read
          PROVE  read[i] >= captured - got + 1 /\ read[i] < captured + 1 /\ read[i] \in Nat
      BY <3>1, <3>2
    <3> QED BY <3>3, <3>4 DEF Rises, El
  <2> HIDE DEF read
  <2>3. DOMAIN queue = 1..Len(queue) /\ Len(queue) \in Nat /\ n \notin DOMAIN queue
    BY DEF QueueFits
  <2>4. ASSUME NEW i \in Blocks'
        PROVE  \/ i \in Blocks /\ i \in Nat /\ i < n /\ queue'[i] = queue[i] /\ Said(i)' = Said(i)
               \/ i = n /\ queue'[i].samples = read /\ Said(i)' = El(read)
    <3>1. i \in DOMAIN queue' /\ queue'[i].kind = "block"
      BY DEF Blocks, Kind
    <3>2. CASE i \in DOMAIN queue
      <4>1. queue'[i] = queue[i] /\ i \in Nat /\ i < n
        BY <2>1, <2>3, <3>2
      <4> QED BY <3>1, <3>2, <4>1 DEF Blocks, Kind, Said
    <3>3. CASE i \notin DOMAIN queue
      <4>1. i = n /\ queue'[i].samples = read
        BY <2>1, <3>1, <3>3
      <4> QED BY <4>1 DEF Said
    <3> QED BY <3>2, <3>3
  <2>5. captured - got \in Nat /\ captured' - got' = captured /\ captured \in Nat
    <3>1. captured \in Nat /\ got \in Nat /\ got <= captured
      BY Sizes DEF NativeFits
    <3> QED BY <1>1, <3>1
  <2> HIDE DEF n
  <2>6. /\ Waiting \in SUBSET Nat /\ El(wire) \in SUBSET Nat
        /\ UNCHANGED Waiting /\ El(wire') = El(wire)
    <3>1. UNCHANGED Waiting /\ El(wire') = El(wire)
      BY <1>1 DEF codec, Waiting, El
    <3>2. Waiting \subseteq Held /\ El(wire) \subseteq Held
      BY DEF Held
    <3> QED BY <3>1, <3>2, HeldAre
  <2>7. ASSUME NEW A \in SUBSET Nat, Below(A, {captured - got + 1})
        PROVE  Below(A, El(read)) /\ Below(A, {captured' - got' + 1})
    <3>1. \A a \in A : a < captured - got + 1
      BY <2>7 DEF Below
    <3>2. \A x \in El(read), a \in A : a < x
      BY <2>2, <2>5, <3>1
    <3>3. captured - got + 1 <= captured + 1
      <4>1. captured \in Nat /\ got \in Nat
        BY Sizes DEF NativeFits
      <4> QED BY <4>1
    <3>4. \A a \in A : a < captured' - got' + 1
      BY <2>5, <3>1, <3>3
    <3> QED BY <3>2, <3>4 DEF Below
  <2>8. ASSUME NEW i \in Blocks
        PROVE  /\ Said(i) \in SUBSET Nat /\ Below(Said(i), El(read))
               /\ Below(Said(i), {captured' - got' + 1})
    <3>1. Said(i) \in SUBSET Nat
      BY BlocksAre
    <3>2. Below(Said(i), {captured - got + 1})
      BY DEF SamplesFit, ReadLast
    <3> QED BY <2>7, <3>1, <3>2
  <2>9. Below(El(read), {captured' - got' + 1})
    BY <2>2, <2>5 DEF Below
  <2>10. /\ Below(El(wire) \union Waiting, El(read))
         /\ Below(El(wire) \union Waiting, {captured' - got' + 1})
    <3>1. El(wire) \union Waiting \in SUBSET Nat
      BY <2>6
    <3> QED BY <2>7, <3>1 DEF SamplesFit, ReadLast
  <2>11. ASSUME NEW i \in Blocks'
         PROVE  /\ Rises(queue'[i].samples) /\ Below(El(wire') \union Waiting', Said(i)')
                /\ Below(Said(i)', {captured' - got' + 1})
    <3>1. CASE i \in Blocks /\ queue'[i] = queue[i] /\ Said(i)' = Said(i)
      <4>1. Rises(queue[i].samples) /\ Below(El(wire) \union Waiting, Said(i))
        BY <3>1 DEF SamplesFit, BlocksFit
      <4> QED BY <2>6, <2>8, <3>1, <4>1
    <3>2. CASE queue'[i].samples = read /\ Said(i)' = El(read)
      BY <2>2, <2>6, <2>9, <2>10, <3>2
    <3> QED BY <2>4, <3>1, <3>2
  <2>12. ASSUME NEW i \in Blocks', NEW j \in Blocks', i < j PROVE Below(Said(i)', Said(j)')
    <3>1. i \in Blocks /\ Said(i)' = Said(i)
      <4>1. \A k \in Nat : ~(n < k) \/ ~(k < n)
        BY <2>3 DEF n
      <4>2. i = n => FALSE
        BY <2>3, <2>4, <2>12, <4>1 DEF n
      <4> QED BY <2>4, <4>2
    <3>2. CASE j \in Blocks /\ Said(j)' = Said(j)
      BY <2>12, <3>1, <3>2 DEF SamplesFit, BlocksFit
    <3>3. CASE Said(j)' = El(read)
      BY <2>8, <3>1, <3>3
    <3> QED BY <2>4, <3>2, <3>3
  <2>13. BlocksFit' /\ ReadLast'
    BY <2>6, <2>10, <2>11, <2>12 DEF BlocksFit, ReadLast
  <2>14. \A i \in Blocks' : \/ i \in Blocks /\ Said(i)' = Said(i)
                            \/ \A x \in Said(i)' : x >= captured - got + 1
    BY <2>2, <2>4
  <2> QED BY <1>2, <2>13, <2>14 DEF SamplesFit
<1> QED BY <1>5, <1>6

LEMMA EmptyIs == \A s : s = <<>> => El(s) = {} /\ Rises(s)
<1> SUFFICES ASSUME NEW s, s = <<>> PROVE El(s) = {} /\ Rises(s)
  OBVIOUS
<1>1. DOMAIN s = {}
  OBVIOUS
<1> QED BY <1>1 DEF El, Rises

\* A block that comes after all that is held is sent, or waits, behind it.
LEMMA BlockTaken ==
  ASSUME NativeTypes, NativeTypes', WireFits, WaitingFits, NEW block \in Seq(Numbers), Rises(block),
         Below(El(wire) \union Waiting, El(block)), ProcessCaptured(block)
  PROVE  /\ WireFits' /\ WaitingFits' /\ Waiting' \subseteq Waiting \union El(block)
         /\ El(wire') \subseteq El(wire) \union Waiting \union El(block)
         /\ \A i \in DOMAIN wire' \ DOMAIN wire : wire'[i] \in Waiting \union El(block)
<1> USE DEF NativeTypes
<1> DEFINE s == Left \o block
<1>1. /\ Left \in Seq(Numbers) /\ Rises(Left) /\ El(Left) = Waiting
      /\ Numbers \subseteq Nat \ {0} /\ Numbers \subseteq Nat
  <2>1. Numbers \subseteq Nat \ {0}
    BY Sizes DEF Numbers
  <2> QED BY <2>1, LeftRises
<1>2. s \in Seq(Numbers) /\ Rises(s) /\ El(s) = Waiting \union El(block)
  <2>1. Below(El(Left), El(block))
    BY <1>1 DEF Below
  <2> QED BY <1>1, <2>1, RisesJoined, ElJoined, Joining
<1>3. Below(El(wire), El(s))
  BY <1>2 DEF WireFits, Below
<1>4. CASE UNCHANGED codec
  <2>1. WireFits' /\ WaitingFits'
    BY <1>4, CodecQuiet
  <2>2. Waiting' = Waiting /\ El(wire') = El(wire) /\ wire' = wire
    BY <1>4 DEF codec, Waiting, El
  <2> QED BY <2>1, <2>2
<1>5. CASE recording /\ priming /\ startup' = startup \o block
           /\ UNCHANGED <<recording, priming, pending, wire>>
  <2>1. pending = <<>>
    BY <1>5 DEF WaitingFits
  <2>2. El(pending) = {}
    BY <2>1, EmptyIs
  <2>3. Below(El(startup), El(block)) /\ Rises(startup) /\ startup \in Seq(Numbers)
    BY DEF Below, Waiting, WaitingFits, CodecFits
  <2>4. Rises(startup \o block) /\ El(startup \o block) = El(startup) \union El(block)
    BY <1>1, <2>3, RisesJoined, ElJoined
  <2>5. Rises(startup') /\ El(startup') = El(startup) \union El(block)
    BY <1>5, <2>4
  <2>6. Rises(startup)' /\ El(startup)' = El(startup) \union El(block)
    BY <2>5 DEF Rises, El
  <2>7. Rises(pending)' /\ El(pending)' = El(pending) /\ El(wire)' = El(wire) /\ Speaks(wire)'
    BY <1>5 DEF El, Rises, Speaks, WaitingFits, WireFits
  <2>8. Waiting' = Waiting \union El(block)
    BY <2>6, <2>7 DEF Waiting
  <2>9. WireFits'
    <3>1. Below(El(wire), Waiting \union El(block))
      BY DEF WireFits, Below
    <3>2. Below(El(wire)', Waiting')
      BY <2>7, <2>8, <3>1
    <3> QED BY <2>7, <3>2 DEF WireFits, Below
  <2>10. WaitingFits'
    BY <1>5, <2>1, <2>6, <2>7 DEF WaitingFits
  <2>11. El(wire') = El(wire) /\ wire' = wire
    BY <1>5
  <2> QED BY <2>8, <2>9, <2>10, <2>11
<1>6. CASE /\ recording /\ UNCHANGED recording /\ priming' = FALSE /\ startup' = <<>>
           /\ EncodeReady(pending \o startup \o block)
  <2>1. EncodeReady(s)
    BY <1>6 DEF Left
  <2> HIDE DEF s
  <2>2. PICK n \in 0..(Len(s) \div FrameSize) :
          /\ wire' = wire \o SubSeq(s, 1, n * FrameSize)
          /\ pending' = SubSeq(s, n * FrameSize + 1, Len(s))
    BY <2>1 DEF EncodeReady
  <2> DEFINE k == n * FrameSize
             a == SubSeq(s, 1, k)
             b == SubSeq(s, k + 1, Len(s))
  <2>3. k \in 0..Len(s)
    <3>1. Len(s) \in Nat
      BY <1>2
    <3> QED BY <3>1, Whole, Sizes
  <2>4. wire' = wire \o SubSeq(s, 1, k) /\ wire' = wire \o a /\ pending' = b
    BY <2>2
  <2> HIDE DEF k
  <2>5. s \in Seq(0..MaxSamples) /\ Speaks(s)
    BY <1>2, NumbersAre DEF Rises, Speaks
  <2>6. \A x \in El(wire), y \in El(s) : y # 0 => x < y
    BY <1>3 DEF Below
  <2>7. Sends(s, k)
    BY <2>3, <2>4, <2>5, <2>6 DEF Sends
  <2>8. /\ Speaks(wire') /\ El(wire') = El(wire) \union El(a)
        /\ \A i \in DOMAIN wire' \ DOMAIN wire : wire'[i] \in El(s)
    BY <2>7, Sent DEF WireFits
  <2>9. Rises(b) /\ Below(El(a), El(b)) /\ El(a) \subseteq El(s) /\ El(b) \subseteq El(s)
    BY <1>2, <2>3, RisesCut, ElCut
  <2> HIDE DEF a, b
  <2>10. Rises(pending)' /\ El(pending)' = El(b) /\ El(startup)' = {} /\ Rises(startup)'
    <3>1. El(startup') = {} /\ Rises(startup')
      BY <1>6, EmptyIs
    <3>2. Rises(pending') /\ El(pending') = El(b)
      BY <2>4, <2>9
    <3> QED BY <3>1, <3>2 DEF Rises, El
  <2>11. Waiting' = El(b)
    BY <2>10 DEF Waiting
  <2>12. WireFits'
    <3>1. Below(El(wire) \union El(a), El(b))
      BY <1>3, <2>9 DEF Below
    <3>2. Below(El(wire'), Waiting')
      BY <2>8, <2>11, <3>1
    <3> QED BY <2>8, <3>2 DEF WireFits, Below, Speaks, El
  <2>13. WaitingFits'
    BY <1>6, <2>10 DEF WaitingFits
  <2> QED BY <1>2, <2>8, <2>9, <2>11, <2>12, <2>13
<1> QED BY <1>4, <1>5, <1>6 DEF ProcessCaptured

LEMMA SamplesTaken ==
  ASSUME NativeTypes, NativeTypes', ThreadFits, SamplesFit, TakeEvent
  PROVE  /\ SamplesFit'
         /\ \/ /\ UNCHANGED codec
               /\ Head(queue).kind # "block" \/ ~recording
            \/ /\ 1 \in Blocks /\ recording /\ UNCHANGED first
               /\ Waiting' \subseteq Waiting \union Said(1)
               /\ \A i \in DOMAIN wire' \ DOMAIN wire : wire'[i] \in Waiting \union Said(1)
<1> USE DEF NativeTypes
<1>1. Shifts(1) /\ (\A i \in Blocks' : i + 1 > 1) /\ captured - got <= captured' - got'
  <2>1. [Next]_vars
    BY DEF Next, Engine
  <2> QED BY <2>1, TakenShifts, ReadGrows
<1>2. Early(El(wire) \union Waiting \union {0}, 1) /\ Held \in SUBSET Nat
  BY <1>1, HeldIsEarly, HeldAre DEF SamplesFit
<1>3. CASE UNCHANGED codec /\ (Head(queue).kind # "block" \/ ~recording)
  <2>1. WireFits' /\ WaitingFits' /\ Held' \subseteq Held
    BY <1>3, CodecQuiet DEF SamplesFit
  <2>2. El(wire') \union Waiting' \subseteq Held
    BY <2>1 DEF Held, El
  <2>3. BlocksFit' /\ ReadLast'
    BY <1>1, <1>2, <2>2, BlocksShift DEF SamplesFit, Held
  <2> QED BY <1>3, <2>1, <2>3 DEF SamplesFit
<1>4. CASE Head(queue).kind = "block" /\ recording
  <2> DEFINE block == queue[1].samples
  <2>1. /\ Head(queue) = queue[1] /\ 1 \in DOMAIN queue /\ block \in Seq(Numbers)
        /\ ProcessCaptured(block) /\ UNCHANGED first
    BY <1>4, Taken, FirstIs DEF QueueFits
  <2>2. 1 \in Blocks /\ El(block) = Said(1)
    BY <1>4, <2>1 DEF Blocks, Kind, Said
  <2>3. Rises(block) /\ Below(El(wire) \union Waiting, El(block))
    BY <2>2 DEF SamplesFit, BlocksFit
  <2> HIDE DEF block
  <2>4. /\ WireFits' /\ WaitingFits' /\ Waiting' \subseteq Waiting \union El(block)
        /\ El(wire') \subseteq El(wire) \union Waiting \union El(block)
        /\ \A i \in DOMAIN wire' \ DOMAIN wire : wire'[i] \in Waiting \union El(block)
    BY <2>1, <2>3, BlockTaken DEF SamplesFit
  <2> DEFINE A == Held \union Said(1)
  <2>5. A \in SUBSET Nat
    BY <1>2, <2>2, BlocksAre
  <2>6. Early(A, 1)
    <3>1. ASSUME NEW i \in Blocks' PROVE Below(A, Said(i + 1))
      <4>1. Below(Held, Said(i + 1))
        BY <1>2 DEF Early, Held
      <4>2. i + 1 \in Blocks /\ 1 < i + 1
        <5>1. i + 1 \in Blocks /\ i + 1 > 1 /\ i + 1 \in Nat
          BY <1>1, BlocksAre DEF Shifts
        <5> QED BY <5>1
      <4>3. Below(Said(1), Said(i + 1))
        BY <2>2, <4>2 DEF SamplesFit, BlocksFit
      <4> QED BY <4>1, <4>3 DEF Below
    <3>2. Below(A, {captured - got + 1})
      <4>1. Below(Held, {captured - got + 1})
        BY <1>2 DEF Early, Held
      <4>2. Below(Said(1), {captured - got + 1})
        BY <2>2 DEF SamplesFit, ReadLast
      <4> QED BY <4>1, <4>2 DEF Below
    <3> QED BY <3>1, <3>2 DEF Early
  <2>7. El(wire') \union Waiting' \subseteq A
    BY <2>2, <2>4 DEF Held
  <2> HIDE DEF A
  <2>8. BlocksFit' /\ ReadLast'
    BY <1>1, <2>5, <2>6, <2>7, BlocksShift DEF SamplesFit
  <2> QED BY <1>4, <2>1, <2>2, <2>4, <2>8 DEF SamplesFit
<1>5. UNCHANGED codec \/ (Head(queue).kind = "block" /\ recording)
  BY DEF TakeEvent, ProcessCaptured
<1>6. (Head(queue).kind = "block" /\ recording) \/ Head(queue).kind # "block" \/ ~recording
  OBVIOUS
<1>7. Head(queue).kind # "block" \/ ~recording => UNCHANGED codec
  BY DEF TakeEvent, ProcessCaptured
<1> QED BY <1>3, <1>4, <1>6, <1>7

LEMMA FirstStays ==
  ASSUME [Next]_vars, ~TakeEvent
  PROVE  UNCHANGED first
<1>1. CASE Client \/ RouteChanges \/ SetupAudioInput \/ AskForRecording \/ AudioReady \/ Halt \/ Join
  BY <1>1 DEF Client, Connects, StartTransmission, BeginImmediatePttRelease, Disconnected,
    RouteChanges, SetupAudioInput, AskForRecording, AudioReady, Halt, Join
<1>2. CASE StartRecording \/ Open \/ Answer \/ StopRecording \/ Drain \/ ResetAudioMode \/ ReleaseCapture
  BY <1>2 DEF StartRecording, Open, Answer, StopRecording, Drain, ResetAudioMode, ReleaseCapture
<1>3. CASE CaptureLoop
  BY <1>3 DEF CaptureLoop, Attach, LoopTop, Read, Deliver, elsewhere
<1> QED BY <1>1, <1>2, <1>3 DEF Next, Engine, vars

\* The transmission begins with nothing of an earlier one left.
LEMMA SinceStarted ==
  ASSUME NativeTypes, NativeTypes', Fits, Protocol, SamplesFit, SamplesFit', TakeEvent,
         Head(queue).kind = "start"
  PROVE  SinceFirst'
<1>1. /\ first' = captured + 1 /\ UNCHANGED <<codec, native>> /\ queue' = Tail(queue)
      /\ queue # <<>> /\ queue \in Seq(Events)
  BY Taken DEF NativeTypes, QueueFits
<1>2. 1 \in DOMAIN queue /\ Kind(1) = "start" /\ DOMAIN queue \subseteq Nat \ {0}
  BY <1>1, FirstIs DEF Kind
<1>3. ~recording /\ \A j \in DOMAIN queue : j > 1 => Kind(j) = "route"
  BY <1>2 DEF Protocol, StartIsAlone
<1>4. got = 0 /\ captured \in Nat
  BY <1>3, Sizes DEF Fits, ThreadFits, Live, NativeTypes, NativeFits
<1>5. Waiting' = {}
  <2>1. Waiting = {}
    BY <1>3 DEF SamplesFit, WaitingFits
  <2> QED BY <1>1, <2>1 DEF Waiting, codec, El
<1>6. Blocks' = {}
  <2>1. ASSUME NEW i \in Blocks' PROVE FALSE
    <3>1. i \in Nat /\ i + 1 \in Blocks /\ i + 1 > 1
      BY TakenShifts DEF Shifts, NativeTypes
    <3>2. i + 1 \in DOMAIN queue /\ Kind(i + 1) = "block"
      BY <3>1 DEF Blocks
    <3> QED BY <1>3, <3>1, <3>2
  <2> QED BY <2>1
<1>7. first' <= captured' - got' + 1 /\ first' \in Nat
  <2>1. captured' = captured /\ got' = 0
    BY <1>1, <1>4 DEF native
  <2> QED BY <1>1, <1>4, <2>1
<1> QED BY <1>5, <1>6, <1>7 DEF SinceFirst

\* Else what a step leaves in the engine's hands was there, or has just been read.
LEMMA SinceStays ==
  ASSUME NativeTypes, NativeTypes', ThreadFits, SamplesFit, SinceFirst, [Next]_vars, UNCHANGED first,
         \A x \in Waiting' : x \in Waiting \/ \E i \in Blocks : x \in Said(i),
         \A i \in Blocks' : \/ \E j \in Blocks : Said(i)' = Said(j)
                            \/ \A x \in Said(i)' : x >= captured - got + 1
  PROVE  SinceFirst'
<1>1. \A x \in Waiting' : x >= first
  BY DEF SinceFirst
<1>2. ASSUME NEW i \in Blocks', NEW x \in Said(i)' PROVE x >= first
  <2>1. CASE \E j \in Blocks : Said(i)' = Said(j)
    BY <1>2, <2>1 DEF SinceFirst
  <2>2. CASE \A y \in Said(i)' : y >= captured - got + 1
    <3>1. x \in Nat
      <4>1. Said(i)' \subseteq Nat
        <5>1. i \in DOMAIN queue' /\ queue'[i].kind = "block" /\ queue' \in Seq(Events)
          BY DEF NativeTypes, QueueFits, Blocks, Kind
        <5>2. queue'[i] \in Events
          BY <5>1
        <5>3. queue'[i] \in Posted
          <6>1. ASSUME NEW e \in [kind : Orders] PROVE e.kind # "block"
            BY DEF Orders
          <6> QED BY <5>1, <5>2, <6>1 DEF Events
        <5>4. queue'[i].samples \in Seq(Numbers)
          BY <5>3 DEF Posted
        <5>5. El(queue'[i].samples) \subseteq Nat
          BY <5>4, ElOfNumbers
        <5> QED BY <5>5 DEF Said
      <4> QED BY <1>2, <4>1
    <3>2. x >= captured - got + 1 /\ first <= captured - got + 1 /\ first \in Nat
      BY <1>2, <2>2 DEF SinceFirst
    <3>3. captured \in Nat /\ got \in Nat
      BY Sizes DEF NativeTypes, NativeFits
    <3> QED BY <3>1, <3>2, <3>3
  <2> QED BY <1>2, <2>1, <2>2
<1>3. first <= captured' - got' + 1
  <2>1. captured - got <= captured' - got' /\ first <= captured - got + 1 /\ first \in Nat
    BY ReadGrows DEF SinceFirst
  <2>2. captured \in Nat /\ got \in Nat
    BY Sizes DEF NativeTypes, NativeFits
  <2>3. captured' \in Nat /\ got' \in Nat
    BY Sizes DEF NativeTypes, NativeFits
  <2>4. \A f, a, b, c, d \in Nat : a - b <= c - d /\ f <= a - b + 1 => f <= c - d + 1
    OBVIOUS
  <2> QED BY <2>1, <2>2, <2>3, <2>4
<1>4. first \in Nat
  BY DEF SinceFirst
<1> QED BY <1>1, <1>2, <1>3, <1>4 DEF SinceFirst

LEMMA SinceKept ==
  ASSUME NativeTypes, NativeTypes', Fits, Protocol, SamplesFit, SamplesFit', SinceFirst, [Next]_vars
  PROVE  SinceFirst'
<1>0. ThreadFits
  BY DEF Fits
<1>1. CASE TakeEvent /\ Head(queue).kind = "start"
  BY <1>1, SinceStarted
<1>2. CASE TakeEvent /\ Head(queue).kind # "start"
  <2>1. UNCHANGED first
    BY <1>2, Taken DEF NativeTypes
  <2>2. \A x \in Waiting' : x \in Waiting \/ \E i \in Blocks : x \in Said(i)
    <3>1. CASE UNCHANGED codec
      BY <3>1 DEF Waiting, codec, El
    <3>2. CASE 1 \in Blocks /\ Waiting' \subseteq Waiting \union Said(1)
      BY <3>2
    <3> QED BY <1>0, <1>2, <3>1, <3>2, SamplesTaken
  <2>3. \A i \in Blocks' : \E j \in Blocks : Said(i)' = Said(j)
    <3>1. Shifts(1)
      BY <1>2, TakenShifts DEF NativeTypes
    <3> QED BY <3>1 DEF Shifts, Said
  <2> QED BY <1>0, <2>1, <2>2, <2>3, SinceStays
<1>3. CASE ~TakeEvent
  <2>1. UNCHANGED first
    BY <1>3, FirstStays
  <2>2. Waiting' \subseteq Waiting
    <3>1. CASE UNCHANGED codec
      BY <3>1 DEF Waiting, codec, El
    <3>2. CASE pending' = <<>> /\ startup' = <<>>
      <4>1. El(pending') = {} /\ El(startup') = {}
        BY <3>2, EmptyIs
      <4> QED BY <4>1 DEF Waiting, El
    <3>3. FlushPending => pending' = <<>> /\ startup' = <<>>
      BY DEF FlushPending
    <3> QED BY <1>3, <3>1, <3>2, <3>3, CodecSteps DEF SamplesFit
  <2>3. \A i \in Blocks' : \/ \E j \in Blocks : Said(i)' = Said(j)
                           \/ \A x \in Said(i)' : x >= captured - got + 1
    <3>1. CASE Deliver
      BY <1>0, <3>1, SamplesDelivered
    <3>2. CASE ~Deliver
      <4>1. Shifts(0)
        BY <1>3, <3>2, QueueShifts
      <4> QED BY <4>1 DEF Shifts, Said
    <3> QED BY <3>1, <3>2
  <2> QED BY <1>0, <2>1, <2>2, <2>3, SinceStays
<1> QED BY <1>1, <1>2, <1>3

\* What a step sends was waiting, or was in the block it takes, or is padding.
LEMMA SentSince ==
  ASSUME NativeTypes, NativeTypes', ThreadFits, SamplesFit, SinceFirst, [Next]_vars,
         NEW i \in DOMAIN wire' \ DOMAIN wire, wire'[i] # 0
  PROVE  wire'[i] >= first
<1>1. CASE UNCHANGED wire
  BY <1>1
<1>2. CASE TakeEvent
  <2>1. CASE UNCHANGED codec
    BY <1>1, <2>1 DEF codec
  <2>2. CASE 1 \in Blocks /\ wire'[i] \in Waiting \union Said(1)
    BY <2>2 DEF SinceFirst
  <2> QED BY <1>2, <2>1, <2>2, SamplesTaken
<1>3. CASE FlushPending
  <2>1. PICK k \in 0..Len(Padded) : Sends(Padded, k)
    BY <1>3, FlushSends DEF NativeTypes, SamplesFit
  <2>2. El(Padded) \subseteq Waiting \union {0}
    BY <1>3, FlushSends DEF NativeTypes, SamplesFit
  <2>3. wire'[i] \in El(Padded)
    BY <2>1, Sent DEF NativeTypes, SamplesFit, WireFits
  <2> QED BY <2>2, <2>3 DEF SinceFirst
<1>4. UNCHANGED codec => UNCHANGED wire
  BY DEF codec
<1> QED BY <1>1, <1>2, <1>3, <1>4, CodecSteps DEF SamplesFit

LEMMA SamplesAtFirst == Init => SamplesFit /\ SinceFirst
<1> SUFFICES ASSUME Init PROVE SamplesFit /\ SinceFirst
  OBVIOUS
<1>1. /\ pending = <<>> /\ startup = <<>> /\ wire = <<>> /\ queue = <<>> /\ ~priming
      /\ captured = 0 /\ got = 0 /\ first = 1
  BY DEF Init
<1>2. Waiting = {} /\ El(wire) = {} /\ Rises(pending) /\ Rises(startup) /\ Rises(wire)
  BY <1>1, EmptyIs DEF Waiting
<1>3. Blocks = {}
  BY <1>1 DEF Blocks
<1>4. Speaks(wire)
  BY <1>2 DEF Rises, Speaks
<1>5. WireFits /\ WaitingFits /\ BlocksFit /\ ReadLast
  BY <1>1, <1>2, <1>3, <1>4 DEF WireFits, WaitingFits, BlocksFit, ReadLast, Below
<1>6. SinceFirst
  BY <1>1, <1>2, <1>3 DEF SinceFirst
<1> QED BY <1>5, <1>6 DEF SamplesFit

\* With what the parts agree on: the samples are in order, and of this transmission.
CaptureKeepsOrder == CaptureAgrees /\ SamplesFit /\ SinceFirst

LEMMA OrderAtFirst == Init => CaptureKeepsOrder
BY NativeAtFirst, ProtocolAtFirst, SamplesAtFirst DEF CaptureAgrees, CaptureKeepsOrder

LEMMA OrderKept == CaptureKeepsOrder /\ [Next]_vars => CaptureKeepsOrder'
<1> SUFFICES ASSUME CaptureAgrees, SamplesFit, SinceFirst, [Next]_vars PROVE CaptureKeepsOrder'
  BY DEF CaptureKeepsOrder
<1>1. CaptureAgrees'
  BY AgreementKept
<1>2. NativeTypes /\ NativeTypes' /\ Fits /\ ThreadFits /\ Protocol
  BY <1>1 DEF CaptureAgrees, Fits
<1>3. SamplesFit'
  <2>1. CASE TakeEvent
    BY <1>2, <2>1, SamplesTaken
  <2>2. CASE Deliver
    BY <1>2, <2>2, SamplesDelivered
  <2>3. CASE ~TakeEvent /\ ~Deliver
    BY <1>2, <2>3, SamplesQuiet
  <2> QED BY <2>1, <2>2, <2>3
<1>4. SinceFirst'
  BY <1>2, <1>3, SinceKept
<1> QED BY <1>1, <1>3, <1>4 DEF CaptureKeepsOrder

LEMMA TypesAreOK == NativeTypes => TypeOK
<1> SUFFICES ASSUME NativeTypes PROVE TypeOK
  OBVIOUS
<1> USE DEF NativeTypes
<1>1. \A i \in DOMAIN queue :
        queue[i].kind \in {"setup", "warm", "start", "stop", "cleanup", "route", "block"}
  <2> SUFFICES ASSUME NEW i \in DOMAIN queue
               PROVE  queue[i].kind \in {"setup", "warm", "start", "stop", "cleanup", "route", "block"}
    OBVIOUS
  <2>1. queue[i] \in Events
    BY DEF QueueFits
  <2>2. ASSUME NEW e \in [kind : Orders] PROVE e.kind \in Orders
    OBVIOUS
  <2>3. ASSUME NEW e \in Posted PROVE e.kind = "block"
    BY DEF Posted
  <2>4. queue[i].kind \in Orders \/ queue[i].kind = "block"
    BY <2>1, <2>2, <2>3 DEF Events
  <2> QED BY <2>4 DEF Orders
<1>2. startup \in Samples /\ pending \in Samples /\ wire \in Samples
  BY NumbersAre DEF CodecFits, Samples
<1>3. client \in {"down", "setup", "ready", "pressing", "talking", "draining"}
  BY DEF QueueFits, Clients
<1>4. {recording, priming, capturing, stopAsked, stopAfter, unattached} \subseteq BOOLEAN
  BY DEF CodecFits, NativeFits
<1>5. {held, mediaTek} \subseteq BOOLEAN /\ {route, recordRoute} \subseteq {"speaker", Bluetooth}
  BY DEF DeviceFits
<1>6. /\ Len(startup) < LeadInFrames * FrameSize
      /\ thread \in Threads /\ got \in 0..MaxBlock /\ captured \in 0..MaxSamples
  BY DEF CodecFits, NativeFits
<1>7. /\ record \in {"none", "ready", "recording"} /\ mode \in {"normal", "communication"}
      /\ saved \in {"none", "normal", "communication"}
  BY DEF DeviceFits
<1> QED BY <1>1, <1>2, <1>3, <1>4, <1>5, <1>6, <1>7 DEF TypeOK

\* The samples that encodeReadyTxFrames and flushPendingTxSamples sent follow each other
\* as they were captured, none twice, in whole frames, through lead-ins, restarts for a
\* route, failed reads and encodings and the padding at the end of a transmission.
THEOREM SpeechInOrder == Spec => []InOrder
<1>1. CaptureKeepsOrder => InOrder
  <2> SUFFICES ASSUME NativeTypes, Speaks(wire) PROVE InOrder
    BY DEF CaptureKeepsOrder, CaptureAgrees, SamplesFit, WireFits
  <2>1. Len(wire) % FrameSize = 0
    BY DEF NativeTypes, CodecFits
  <2> QED BY <2>1, TypesAreOK DEF InOrder, Speaks
<1> QED BY <1>1, OrderAtFirst, OrderKept, PTL DEF Spec

\* What the engine sends after it took startRecording's event was captured after it:
\* blocks a capture thread posted while it was being joined were taken before.
THEOREM NothingOldIsSpoken == Spec => NothingFromBefore
<1>1. CaptureKeepsOrder /\ CaptureKeepsOrder' /\ [Next]_vars =>
        [\A i \in DOMAIN wire' \ DOMAIN wire : wire'[i] # 0 => wire'[i] >= first]_vars
  <2> SUFFICES ASSUME CaptureKeepsOrder, CaptureKeepsOrder', [Next]_vars,
                      NEW i \in DOMAIN wire' \ DOMAIN wire, wire'[i] # 0
               PROVE  wire'[i] >= first
    OBVIOUS
  <2>1. NativeTypes /\ NativeTypes' /\ ThreadFits /\ SamplesFit /\ SinceFirst
    BY DEF CaptureKeepsOrder, CaptureAgrees, Fits
  <2> QED BY <2>1, SentSince
<1> QED BY <1>1, OrderAtFirst, OrderKept, PTL DEF Spec, NothingFromBefore
=============================================================================
