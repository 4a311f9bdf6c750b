-------------------------- MODULE PttTransmission --------------------------
(***************************************************************************)
(* Push-to-talk of the Android client: src/android/ReflectorClientPtt.cpp, *)
(* the transmit part of ReflectorClient.cpp and of the two ends of a       *)
(* session, and the recording side of the audio engine                     *)
(* (AudioEngine.cpp, AudioEngineRecording.cpp, AudioEngineFocus.cpp).      *)
(*                                                                         *)
(* Two threads: the Qt thread orders, the engine thread carries the orders *)
(* out and signals back.  Both directions are FIFO queues.  Starting a     *)
(* transmission is a blocking call: the Qt thread handles nothing until    *)
(* the engine has worked through the orders before it.                     *)
(* The session is the one of ReflectorSession, seen from here as up, down  *)
(* or being opened; a talkgroup is selected (TG 0 with no default talkgroup*)
(* only makes startTransmission return).                                   *)
(***************************************************************************)
EXTENDS Integers, Sequences

CONSTANTS
  Limits,      \* the transmit time limits the user may set, in seconds
  Grants,      \* what the microphone permission is, and is answered, to be
  AudioEvents, \* what Android may report of the audio devices
  MaxOrders,   \* bounds: orders and signals queued when the session or Android
  MaxSignals   \*   may add another

ASSUME LimitsAssumption ==
  Limits \subseteq Nat \ {0} /\ \E l \in Limits : \A k \in Limits : k <= l
ASSUME GrantsAssumption == Grants \subseteq BOOLEAN
ASSUME AudioEventsAssumption == AudioEvents \subseteq {"route", "focusLost", "resumed"}
ASSUME QueueAssumption == MaxOrders \in Nat \ {0} /\ MaxSignals \in Nat \ {0}

VARIABLES
  phase,             \* the session: "Down", "Opening" or "Up"
  refused,           \* the session was given up, its socket is still open
  audioReady,        \* m_audioReady of the client
  pttActive, pttReleasePending, txStopPending,   \* m_...
  resume,            \* m_resumeAndroidPttAfterReconnect
  resumeCall,        \* its singleShot(0) is due
  granted,           \* the microphone permission
  restartPending,    \* m_pttPermissionRestartPending
  requestPending,    \* the permission dialog is shown
  retryCall,         \* the 100 ms singleShot after a grant is due
  txTimer, txSeconds,
  txTimeoutSeconds,
  hangTime,          \* m_pttHangTimeMs > 0
  blocked,           \* the Qt thread waits for the engine
  orders,            \* calls queued for the engine thread
  signals,           \* signals queued for the Qt thread
  recording,         \* m_recording: the microphone is open
  output,            \* the playback output is running
  engineReady,       \* m_audioReady of the engine
  focusLost,         \* m_audioFocusLost
  rebuild,           \* the 100 ms singleShot to setupAudio is due
  released           \* history: the user has let go since the last press

session == <<phase, refused>>
ptt == <<pttActive, pttReleasePending, txStopPending>>
transmitTimer == <<txTimer, txSeconds>>
settings == <<txTimeoutSeconds, hangTime>>
permission == <<granted, restartPending, requestPending, retryCall>>
engine == <<recording, output, engineReady, focusLost, rebuild>>
vars == <<session, audioReady, ptt, resume, resumeCall, permission, transmitTimer,
          settings, blocked, orders, signals, engine, released>>

Orders == {"setup", "cleanup", "stop", "begin", "route", "focusLost", "resumed"}
Signals == {"ready", "notReady", "setupFinished", "drain"}

LongestLimit == CHOOSE l \in Limits : \A k \in Limits : k <= l

TypeOK ==
  /\ phase \in {"Down", "Opening", "Up"} /\ refused \in BOOLEAN
  /\ audioReady \in BOOLEAN
  /\ pttActive \in BOOLEAN /\ pttReleasePending \in BOOLEAN /\ txStopPending \in BOOLEAN
  /\ resume \in BOOLEAN /\ resumeCall \in BOOLEAN
  /\ granted \in BOOLEAN /\ restartPending \in BOOLEAN
  /\ requestPending \in BOOLEAN /\ retryCall \in BOOLEAN
  /\ txTimer \in BOOLEAN /\ txSeconds \in 0 .. LongestLimit
  /\ txTimeoutSeconds \in Limits /\ hangTime \in BOOLEAN
  /\ blocked \in BOOLEAN
  /\ orders \in Seq(Orders) /\ signals \in Seq(Signals)
  /\ recording \in BOOLEAN /\ output \in BOOLEAN /\ engineReady \in BOOLEAN
  /\ focusLost \in BOOLEAN /\ rebuild \in BOOLEAN
  /\ released \in BOOLEAN

Init ==
  /\ phase = "Down" /\ refused = FALSE /\ audioReady = FALSE
  /\ pttActive = FALSE /\ pttReleasePending = FALSE /\ txStopPending = FALSE
  /\ resume = FALSE /\ resumeCall = FALSE
  /\ granted \in Grants /\ restartPending = FALSE
  /\ requestPending = FALSE /\ retryCall = FALSE
  /\ txTimer = FALSE /\ txSeconds = 0
  /\ txTimeoutSeconds = LongestLimit /\ hangTime = TRUE
  /\ blocked = FALSE /\ orders = <<>> /\ signals = <<>>
  /\ recording = FALSE /\ output = FALSE /\ engineReady = FALSE
  /\ focusLost = FALSE /\ rebuild = FALSE
  /\ released = TRUE

-----------------------------------------------------------------------------
(* The Qt thread's procedures. *)

Room == Len(orders) < MaxOrders /\ Len(signals) < MaxSignals   \* bound

Order(what) == orders' = orders \o what

StartTransmissionUnchecked ==                               \* mutant
  /\ restartPending' = (restartPending \/ ~granted)
  /\ requestPending' = (requestPending \/ ~granted)
  /\ IF granted /\ audioReady /\ phase = "Up"
     THEN blocked' = TRUE /\ Order(<<"begin">>)
     ELSE UNCHANGED <<blocked, orders>>

\* startTransmission up to its blocking calls; without the permission it asks.
StartTransmission ==
  /\ restartPending' = (restartPending \/ ~granted)
  /\ requestPending' = (requestPending \/ ~granted)
  /\ IF granted /\ audioReady /\ phase = "Up" /\ ~pttActive /\ ~txStopPending
     THEN blocked' = TRUE /\ Order(<<"begin">>)
     ELSE UNCHANGED <<blocked, orders>>

PttPressed ==
  /\ IF pttReleasePending
     THEN /\ pttReleasePending' = FALSE
          /\ UNCHANGED <<restartPending, requestPending, blocked, orders>>
     ELSE /\ UNCHANGED pttReleasePending
          /\ IF restartPending \/ pttActive \/ txStopPending
             THEN UNCHANGED <<restartPending, requestPending, blocked, orders>>
             ELSE StartTransmission
  /\ UNCHANGED <<pttActive, txStopPending>>

\* beginImmediatePttRelease
BeginRelease ==
  IF pttActive /\ ~txStopPending
  THEN txStopPending' = TRUE /\ Order(<<"stop">>)
  ELSE UNCHANGED <<txStopPending, orders>>

PttReleased ==
  /\ resume' = FALSE
  /\ UNCHANGED pttActive
  /\ IF restartPending /\ ~pttActive
     THEN /\ restartPending' = FALSE
          /\ UNCHANGED <<pttReleasePending, txStopPending, orders>>
     ELSE /\ UNCHANGED restartPending
          /\ IF ~pttActive \/ txStopPending \/ pttReleasePending
             THEN UNCHANGED <<pttReleasePending, txStopPending, orders>>
             ELSE IF hangTime
             THEN pttReleasePending' = TRUE /\ UNCHANGED <<txStopPending, orders>>
             ELSE BeginRelease /\ UNCHANGED pttReleasePending

ForcePttRelease ==
  /\ resume' = FALSE /\ restartPending' = FALSE
  /\ pttReleasePending' = FALSE
  /\ BeginRelease
  /\ UNCHANGED pttActive

\* resumeAndroidPttAfterReconnectIfReady for an audio path that is ready
ResumeIfReady ==
  IF resume /\ phase' = "Up" /\ ~pttActive /\ ~pttReleasePending /\ ~txStopPending
  THEN resume' = FALSE /\ resumeCall' = TRUE
  ELSE UNCHANGED <<resume, resumeCall>>

TransmitWasActive == pttActive \/ pttReleasePending \/ txStopPending

StopCaptureForgotten == UNCHANGED orders                         \* mutant
StopCapture == IF TransmitWasActive THEN Order(<<"stop">>) ELSE UNCHANGED orders

\* transitionToDisconnectedState, but for what it orders and its resume flag
ResetTransmission ==
  /\ pttActive' = FALSE /\ pttReleasePending' = FALSE /\ txStopPending' = FALSE
  /\ txTimer' = FALSE /\ txSeconds' = 0
  /\ audioReady' = FALSE

-----------------------------------------------------------------------------
(* The session, as ReflectorSession drives it. *)

\* The due resume call runs before a new session can be set up.
SessionOpens ==
  /\ ~blocked /\ phase = "Down" /\ ~resumeCall /\ Room
  /\ phase' = "Opening"
  /\ UNCHANGED <<refused, audioReady, ptt, resume, resumeCall, permission,
                 transmitTimer, settings, blocked, orders, signals, engine, released>>

HandleServerInfo ==
  /\ ~blocked /\ phase = "Opening" /\ ~refused /\ Room
  /\ phase' = "Up"
  /\ Order(<<"setup">>)
  /\ IF audioReady THEN ResumeIfReady ELSE UNCHANGED <<resume, resumeCall>>
  /\ UNCHANGED <<refused, audioReady, ptt, permission, transmitTimer, settings,
                 blocked, signals, engine, released>>

\* ERROR and PROTO_VER_DOWNGRADE end the session and nothing else.
RefusalFrame ==
  /\ ~blocked /\ phase # "Down" /\ ~refused
  /\ phase' = "Down" /\ refused' = TRUE
  /\ UNCHANGED <<audioReady, ptt, resume, resumeCall, permission, transmitTimer,
                 settings, blocked, orders, signals, engine, released>>

\* The connection or the network is lost: transitionToDisconnectedState(_, true).
SessionLost ==
  /\ ~blocked
  /\ phase # "Down" \/ refused
  /\ phase' = "Down" /\ refused' = FALSE
  /\ resume' = (resume \/ TransmitWasActive)
  /\ StopCapture
  /\ ResetTransmission
  /\ UNCHANGED <<resumeCall, permission, settings, blocked, signals, engine, released>>

\* disconnectFromServer, after a forced release if so asked
Disconnect(forced) ==
  /\ phase' = "Down" /\ refused' = FALSE
  /\ resume' = FALSE
  /\ restartPending' = (restartPending /\ ~forced)
  /\ released' = (released \/ forced)
  /\ Order((IF forced /\ ~txStopPending THEN <<"stop">> ELSE <<>>)
           \o <<"cleanup">>
           \o (IF TransmitWasActive THEN <<"stop">> ELSE <<>>))
  /\ ResetTransmission

DisconnectFromServer ==
  /\ ~blocked /\ phase # "Down"
  /\ Disconnect(FALSE)
  /\ UNCHANGED <<resumeCall, granted, requestPending, retryCall, settings,
                 blocked, signals, engine>>

\* The Pause and Stop controls of the notification and the headset.
MediaPause ==
  /\ ~blocked
  /\ \/ phase # "Down" /\ Disconnect(pttActive)
     \/ /\ phase = "Down"
        /\ IF pttActive
           THEN ForcePttRelease /\ released' = TRUE
           ELSE resume' = FALSE /\ UNCHANGED <<ptt, restartPending, orders, released>>
        /\ UNCHANGED <<session, audioReady, transmitTimer>>
  /\ UNCHANGED <<resumeCall, granted, requestPending, retryCall, settings,
                 blocked, signals, engine>>

-----------------------------------------------------------------------------
(* The user. *)

\* A press of a hardware key, the headset or the notification remembers itself
\* while it cannot be served; the button of a serial (SPP) device does not.
Press ==
  /\ ~blocked
  /\ released' = FALSE
  /\ \/ /\ UNCHANGED resume
        /\ PttPressed
     \/ /\ resume' = (resume \/ phase # "Up" \/ ~audioReady)
        /\ IF pttReleasePending \/ ~pttActive
           THEN PttPressed
           ELSE UNCHANGED <<ptt, restartPending, requestPending, blocked, orders>>
  /\ UNCHANGED <<session, audioReady, resumeCall, granted, retryCall, transmitTimer,
                 settings, signals, engine>>

Release ==
  /\ ~blocked
  /\ released' = TRUE
  /\ PttReleased
  /\ UNCHANGED <<session, audioReady, resumeCall, granted, requestPending, retryCall,
                 transmitTimer, settings, blocked, signals, engine>>

\* The on-screen button.
TogglePtt ==
  /\ ~blocked
  /\ IF restartPending
     THEN /\ restartPending' = FALSE
          /\ released' = TRUE
          /\ UNCHANGED <<ptt, resume, requestPending, blocked, orders>>
     ELSE IF pttReleasePending
     THEN ForcePttRelease /\ released' = TRUE /\ UNCHANGED <<requestPending, blocked>>
     ELSE IF pttActive
     THEN PttReleased /\ released' = TRUE /\ UNCHANGED <<requestPending, blocked>>
     ELSE PttPressed /\ released' = FALSE /\ UNCHANGED resume
  /\ UNCHANGED <<session, audioReady, resumeCall, granted, retryCall, transmitTimer,
                 settings, signals, engine>>

\* The window loses the focus while transmitting.
WindowInactive ==
  /\ ~blocked /\ pttActive
  /\ ForcePttRelease
  /\ released' = TRUE
  /\ UNCHANGED <<session, audioReady, resumeCall, granted, requestPending, retryCall,
                 transmitTimer, settings, blocked, signals, engine>>

AnswerPermission ==
  /\ ~blocked /\ requestPending
  /\ requestPending' = FALSE /\ restartPending' = FALSE
  /\ \E authorized \in Grants :
       /\ granted' = authorized
       /\ retryCall' = (authorized /\ restartPending)
  /\ UNCHANGED <<session, audioReady, ptt, resume, resumeCall, transmitTimer, settings,
                 blocked, orders, signals, engine, released>>

SetPttHangTimeMs ==
  /\ ~blocked
  /\ hangTime' = ~hangTime
  /\ IF pttReleasePending /\ hangTime
     THEN ForcePttRelease
     ELSE UNCHANGED <<ptt, resume, restartPending, orders>>
  /\ UNCHANGED <<session, audioReady, resumeCall, granted, requestPending, retryCall,
                 transmitTimer, txTimeoutSeconds, blocked, signals, engine, released>>

SetTxTimeoutSecondsUnchecked ==                             \* mutant
  /\ ~blocked
  /\ txTimeoutSeconds' \in Limits
  /\ UNCHANGED <<session, audioReady, ptt, resume, resumeCall, permission, transmitTimer,
                 hangTime, blocked, orders, signals, engine, released>>

SetTxTimeoutSeconds ==
  /\ ~blocked
  /\ txTimeoutSeconds' \in Limits
  /\ IF pttActive /\ ~txStopPending /\ txSeconds >= txTimeoutSeconds'
     THEN ForcePttRelease
     ELSE UNCHANGED <<ptt, resume, restartPending, orders>>
  /\ UNCHANGED <<session, audioReady, resumeCall, granted, requestPending, retryCall,
                 transmitTimer, hangTime, blocked, signals, engine, released>>

-----------------------------------------------------------------------------
(* Timers of the Qt thread. *)

OnPttHangTimerTimeout ==
  /\ ~blocked /\ pttReleasePending
  /\ pttReleasePending' = FALSE
  /\ BeginRelease
  /\ UNCHANGED <<session, audioReady, pttActive, resume, resumeCall, permission,
                 transmitTimer, settings, blocked, signals, engine, released>>

\* Every second of a transmission; the count stops mattering at the longest limit.
OnTxTimerTimeout ==
  /\ ~blocked /\ txTimer /\ txSeconds < LongestLimit
  /\ txSeconds' = txSeconds + 1
  /\ IF pttActive /\ ~txStopPending /\ txSeconds' >= txTimeoutSeconds
     THEN ForcePttRelease
     ELSE UNCHANGED <<ptt, resume, restartPending, orders>>
  /\ UNCHANGED <<session, audioReady, resumeCall, granted, requestPending, retryCall,
                 txTimer, settings, blocked, signals, engine, released>>

\* The singleShot of resumeAndroidPttAfterReconnectIfReady.
ResumeCallRuns ==
  /\ ~blocked /\ resumeCall
  /\ resumeCall' = FALSE
  /\ IF phase = "Up" /\ audioReady /\ ~TransmitWasActive
     THEN PttPressed
     ELSE UNCHANGED <<ptt, restartPending, requestPending, blocked, orders>>
  /\ UNCHANGED <<session, audioReady, resume, granted, retryCall, transmitTimer, settings,
                 signals, engine, released>>

\* The singleShot of handleRecordAudioPermissionResult.
RetryCallRuns ==
  /\ ~blocked /\ retryCall
  /\ retryCall' = FALSE
  /\ StartTransmission
  /\ UNCHANGED <<session, audioReady, ptt, resume, resumeCall, granted, transmitTimer,
                 settings, signals, engine, released>>

-----------------------------------------------------------------------------
(* Signals of the engine, delivered to the Qt thread. *)

OnTxDrainComplete ==
  IF txStopPending
  THEN /\ txStopPending' = FALSE /\ pttActive' = FALSE
       /\ txTimer' = FALSE /\ txSeconds' = 0
       /\ UNCHANGED pttReleasePending
  ELSE UNCHANGED <<ptt, transmitTimer>>

DeliverSignal ==
  /\ ~blocked /\ signals # <<>>
  /\ signals' = Tail(signals)
  /\ UNCHANGED session
  /\ CASE Head(signals) \in {"ready", "setupFinished"} ->
            audioReady' = TRUE /\ ResumeIfReady /\ UNCHANGED <<ptt, transmitTimer>>
       [] Head(signals) = "notReady" ->
            audioReady' = FALSE /\ UNCHANGED <<ptt, transmitTimer, resume, resumeCall>>
       [] Head(signals) = "drain" ->
            OnTxDrainComplete /\ UNCHANGED <<audioReady, resume, resumeCall>>
  /\ UNCHANGED <<permission, settings, blocked, orders, engine, released>>

-----------------------------------------------------------------------------
(* The engine thread.  Each operator below is one order; it gives the new  *)
(* engine state and what is emitted.                                       *)

Emit(what) == signals' = signals \o what
If(condition, what) == IF condition THEN <<what>> ELSE <<>>

ReadySignals == If(~engineReady, "ready") \o <<"setupFinished">>

SetupAudioOnce ==                                           \* mutant
  \/ /\ engineReady' = TRUE /\ output' = TRUE
     /\ Emit(IF output THEN <<>> ELSE ReadySignals)
  \/ /\ ~output
     /\ UNCHANGED <<engineReady, output, signals>>

\* setupAudio: a failed playback output leaves everything as it was.
SetupAudio ==
  \/ /\ engineReady' = TRUE /\ output' = TRUE
     /\ Emit(ReadySignals)
  \/ /\ ~output
     /\ UNCHANGED <<engineReady, output, signals>>

StopRecordingQuietly == recording' = FALSE /\ Emit(If(recording, "drain"))  \* mutant
StopRecording == recording' = FALSE /\ Emit(<<"drain">>)

CleanupAudio ==
  /\ recording' = FALSE /\ output' = FALSE /\ engineReady' = FALSE
  /\ Emit(If(recording, "drain"))

BeginTransmissionUntimed ==                                 \* mutant
  \E started \in IF recording THEN {TRUE} ELSE BOOLEAN :
    /\ recording' = started /\ pttActive' = started
    /\ UNCHANGED transmitTimer

\* The blocking calls of startTransmission and what the caller does next: a
\* capture that does not start takes the transmission back.
BeginTransmission ==
  \E started \in IF recording THEN {TRUE} ELSE BOOLEAN :
    /\ recording' = started /\ pttActive' = started
    /\ txTimer' = (txTimer \/ started)
    /\ txSeconds' = IF started THEN 0 ELSE txSeconds

\* handleAudioRouteChanged: the capture is stopped and started again, and so is
\* an output that does not follow the route.  Both may fail.
HandleAudioRouteChanged ==
  IF ~output /\ ~recording
  THEN UNCHANGED <<recording, output, engineReady, signals>>
  ELSE /\ recording' \in IF recording THEN BOOLEAN ELSE {FALSE}
       /\ \/ /\ UNCHANGED <<output, engineReady>>
             /\ Emit(If(recording, "drain"))
          \/ /\ output
             /\ \E rebuilt \in BOOLEAN :
                  /\ output' = rebuilt /\ engineReady' = rebuilt
                  /\ Emit(If(recording, "drain") \o If(engineReady, "notReady")
                          \o (IF rebuilt THEN <<"ready", "setupFinished">> ELSE <<>>))

OnAudioFocusLost ==
  /\ focusLost' = TRUE /\ output' = FALSE /\ engineReady' = FALSE
  /\ Emit(If(engineReady, "notReady"))

OnActivityResumed ==
  IF focusLost /\ ~engineReady
  THEN focusLost' = FALSE /\ rebuild' = TRUE
  ELSE UNCHANGED <<focusLost, rebuild>>

EngineStep ==
  /\ orders # <<>>
  /\ orders' = Tail(orders)
  /\ LET order == Head(orders) IN
     \/ /\ order = "setup" /\ SetupAudio
        /\ UNCHANGED <<recording, focusLost, rebuild, pttActive, transmitTimer, blocked>>
     \/ /\ order = "stop" /\ StopRecording
        /\ UNCHANGED <<output, engineReady, focusLost, rebuild, pttActive, transmitTimer,
                       blocked>>
     \/ /\ order = "cleanup" /\ CleanupAudio
        /\ UNCHANGED <<focusLost, rebuild, pttActive, transmitTimer, blocked>>
     \/ /\ order = "begin" /\ BeginTransmission /\ blocked' = FALSE
        /\ UNCHANGED <<output, engineReady, focusLost, rebuild, signals>>
     \/ /\ order = "route" /\ HandleAudioRouteChanged
        /\ UNCHANGED <<focusLost, rebuild, pttActive, transmitTimer, blocked>>
     \/ /\ order = "focusLost" /\ OnAudioFocusLost
        /\ UNCHANGED <<recording, rebuild, pttActive, transmitTimer, blocked>>
     \/ /\ order = "resumed" /\ OnActivityResumed
        /\ UNCHANGED <<recording, output, engineReady, signals, pttActive,
                       transmitTimer, blocked>>
  /\ UNCHANGED <<session, audioReady, pttReleasePending, txStopPending, resume, resumeCall,
                 permission, settings, released>>

\* The rebuild that onActivityResumed put off.
RebuildRuns ==
  /\ rebuild
  /\ rebuild' = FALSE
  /\ SetupAudio
  /\ UNCHANGED <<session, audioReady, ptt, resume, resumeCall, permission, transmitTimer,
                 settings, blocked, orders, recording, focusLost, released>>

\* Android's audio events pass through the Qt thread to the engine.
AudioEvent ==
  /\ ~blocked /\ Room
  /\ \E event \in AudioEvents : Order(<<event>>)
  /\ UNCHANGED <<session, audioReady, ptt, resume, resumeCall, permission, transmitTimer,
                 settings, blocked, signals, engine, released>>

-----------------------------------------------------------------------------
Session == SessionOpens \/ HandleServerInfo \/ RefusalFrame \/ SessionLost
             \/ DisconnectFromServer \/ MediaPause

User == Press \/ Release \/ TogglePtt \/ WindowInactive \/ AnswerPermission
          \/ SetPttHangTimeMs \/ SetTxTimeoutSeconds

Timers == OnPttHangTimerTimeout \/ OnTxTimerTimeout \/ ResumeCallRuns \/ RetryCallRuns

Next == Session \/ User \/ Timers \/ DeliverSignal \/ EngineStep \/ RebuildRuns
          \/ AudioEvent

Spec == Init /\ [][Next]_vars

\* Both threads handle what is queued for them, and the second timer ticks.
Fairness ==
  /\ WF_vars(EngineStep)
  /\ WF_vars(DeliverSignal)
  /\ WF_vars(OnTxTimerTimeout)

FairSpec == Spec /\ Fairness

-----------------------------------------------------------------------------
(* Properties. *)

Ordered(what) == \E i \in 1 .. Len(orders) : orders[i] = what
Signalled(what) == \E i \in 1 .. Len(signals) : signals[i] = what

\* The microphone is open only for a transmission the client shows, or with the
\* order to close it on its way: a lost session, a disconnect or a route change
\* in the middle of a transmission never leaves it open unnoticed.
MicrophoneIsHeld == recording => pttActive \/ Ordered("stop")

\* A client that waits for the engine to drain (and refuses every press until
\* then) has its answer on the way, whatever happened to the recording since.
DrainIsComing == txStopPending => Ordered("stop") \/ Signalled("drain")

\* A transmission that is not being stopped is timed and below the limit, also
\* while it hangs after the release and after the limit was lowered (and the
\* variables keep their types).
TimeLimitHolds ==
  /\ TypeOK
  /\ pttActive /\ ~txStopPending => txTimer /\ txSeconds < txTimeoutSeconds

\* Once both threads have caught up, a connected client knows that the engine is
\* ready: no order of stale and fresh signals leaves its PTT refused.
ReadinessArrives ==
  phase = "Up" /\ engineReady /\ orders = <<>> /\ signals = <<>> => audioReady

\* A transmission starts from rest, in a session: no press, resumption or retry
\* after the permission dialog starts a second one on top of the first.
StartsFromRest == Ordered("begin") => ~TransmitWasActive /\ phase = "Up"

\* Every transmission ends, at the latest with the time limit, even if its capture
\* failed or its session was refused meanwhile.
TransmissionEnds == pttActive ~> ~pttActive

=============================================================================
