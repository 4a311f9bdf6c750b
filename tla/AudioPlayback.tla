--------------------------- MODULE AudioPlayback ---------------------------
(***************************************************************************)
(* Received audio, from the server's datagrams to the playback output of   *)
(* the Android build: ReflectorClientUdp.cpp, AudioEnginePlayback.cpp,     *)
(* AudioEngineFocus.cpp and the set-up and clean-up of AudioEngine.cpp.    *)
(*                                                                         *)
(* The server numbers what it sends in a session with a 16-bit counter that*)
(* starts at 0; the network loses, delays, duplicates and reorders.  The Qt*)
(* thread passes frames and orders to the engine thread through one queue. *)
(* The engine drops frames behind the last one it took, and forgets that   *)
(* one when a talk spurt is flushed or its health check finds it old.      *)
(* The microphone side of the same engine is PttTransmission; the samples  *)
(* between here and the output are JitterBuffer.                           *)
(***************************************************************************)
EXTENDS Integers, Sequences, FiniteSets

CONSTANTS
  Modulus,      \* of a sequence number: 2^16 in the code
  MaxSent,      \* bounds: datagrams the server sends in a session,
  MaxSessions,  \*   sessions,
  MaxAir,       \*   datagrams under way,
  MaxCalls,     \*   calls queued for the engine
  Events        \* what Android reports of audio focus, activity and devices

AllEvents == {"focusLost", "focusPaused", "focusGained", "activityPaused",
              "activityResumed", "route"}

ASSUME ModulusAssumption == Modulus \in Nat \ {0} /\ Modulus % 2 = 0
ASSUME BoundsAssumption ==
  MaxSent \in Nat /\ MaxSessions \in Nat /\ MaxAir \in Nat \ {0} /\ MaxCalls \in Nat \ {0}
ASSUME EventsAssumption == Events \subseteq AllEvents

VARIABLES
  connected,      \* the UDP socket is open in a session
  session,        \* its number
  sent,           \* datagrams the server has sent in it
  air,            \* datagrams under way
  receiving,      \* m_isReceivingAudio
  audioTimer,     \* m_audioTimeoutTimer is running
  calls,          \* calls queued for the engine thread
  engineReady,    \* m_audioReady of the engine
  trackOutput,    \* the track output: "off", "playing" or "paused"
  focusLost, focusPaused,   \* m_audioFocus...
  recovery,       \* m_audioRecoveryTimer is running
  later,          \* the engine's 100 ms singleShots that are due: "restart", "restarted",
                  \*   "rebuild"
  hasLast, last,  \* m_hasLastAudioSeq, m_lastAudioSeq
  written,        \* m_lastAudioWrite: "never", "lately" or more than 5 s ago
  newest          \* history: the newest frame taken since the engine last forgot

server == <<connected, session, sent, air>>
client == <<receiving, audioTimer>>
focus == <<focusLost, focusPaused, recovery>>
order == <<hasLast, last, written, newest>>
audioVars == <<server, client, calls, engineReady, trackOutput, focus, later, order>>

NoFrame == [kind |-> "none"]

AudioInit ==
  /\ connected = FALSE /\ session = 0 /\ sent = 0 /\ air = {}
  /\ receiving = FALSE /\ audioTimer = FALSE
  /\ calls = <<>>
  /\ engineReady = FALSE /\ trackOutput = "off"
  /\ focusLost = FALSE /\ focusPaused = FALSE /\ recovery = FALSE /\ later = {}
  /\ hasLast = FALSE /\ last = 0 /\ written = "never" /\ newest = NoFrame

Call(what) == calls' = Append(calls, what)
Room == Len(calls) < MaxCalls                               \* bound

-----------------------------------------------------------------------------
(* The server and the network. *)

\* A datagram is overtaken by less than half the sequence space: at 50 frames a
\* second that is eleven minutes.
ServerSends ==
  /\ connected /\ sent < MaxSent /\ Cardinality(air) < MaxAir
  /\ \A d \in air : sent - d.number < Modulus \div 2
  /\ \E kind \in {"audio", "flush"} :
       air' = air \cup {[kind |-> kind, session |-> session, number |-> sent]}
  /\ sent' = sent + 1
  /\ UNCHANGED <<connected, session, client, calls, engineReady, trackOutput, focus, later,
                 order>>

DatagramLost ==
  /\ \E d \in air : air' = air \ {d}
  /\ UNCHANGED <<connected, session, sent, client, calls, engineReady, trackOutput, focus,
                 later, order>>

-----------------------------------------------------------------------------
(* The client, on the Qt thread. *)

SetReceivingAudioState(on) ==
  /\ receiving' = on
  /\ audioTimer' = (on \/ (audioTimer /\ ~receiving))

\* A new session; the server's answer sets the audio up.
SessionStarts ==
  /\ ~connected /\ session < MaxSessions /\ Room
  /\ connected' = TRUE /\ session' = session + 1 /\ sent' = 0
  /\ SetReceivingAudioState(FALSE)
  /\ Call([kind |-> "setup"])
  /\ UNCHANGED <<air, engineReady, trackOutput, focus, later, order>>

\* The socket is closed; the next session binds another port, so that what is
\* under way never arrives.
TransitionToDisconnectedState ==
  /\ connected' = FALSE /\ air' = {}
  /\ audioTimer' = FALSE /\ receiving' = FALSE

SessionLost ==
  /\ connected
  /\ TransitionToDisconnectedState
  /\ UNCHANGED <<session, sent, calls, engineReady, trackOutput, focus, later, order>>

DisconnectFromServer ==
  /\ Room
  /\ TransitionToDisconnectedState
  /\ Call([kind |-> "cleanup"])
  /\ UNCHANGED <<session, sent, engineReady, trackOutput, focus, later, order>>

OnUdpReadyRead ==
  \E d \in air :
    /\ Room
    /\ air' \in {air, air \ {d}}
    /\ \/ /\ d.kind = "audio"
          /\ Call(d)
          /\ SetReceivingAudioState(TRUE)
       \/ /\ d.kind = "flush"
          /\ Call([kind |-> "flush"])
          /\ SetReceivingAudioState(FALSE)
    /\ UNCHANGED <<connected, session, sent, engineReady, trackOutput, focus, later, order>>

OnAudioTimeout ==
  /\ audioTimer
  /\ audioTimer' = FALSE /\ receiving' = FALSE
  /\ UNCHANGED <<server, calls, engineReady, trackOutput, focus, later, order>>

\* Focus, activity and route events reach the engine through the Qt thread.
AndroidReports ==
  /\ Room
  /\ \E event \in Events : Call([kind |-> event])
  /\ UNCHANGED <<server, client, engineReady, trackOutput, focus, later, order>>

-----------------------------------------------------------------------------
(* The engine: received audio. *)

Seq16(frame) == frame.number % Modulus
Ahead(frame) == (Seq16(frame) - (last + 1)) % Modulus

StaleFrameOffByOne(frame) == hasLast /\ Ahead(frame) > Modulus \div 2    \* mutant
StaleFrame(frame) == hasLast /\ Ahead(frame) >= Modulus \div 2

Forget == hasLast' = FALSE /\ last' = 0 /\ newest' = NoFrame

\* A frame that does not decode is remembered as the last one all the same.
ProcessReceivedAudio(frame) ==
  IF ~engineReady \/ StaleFrame(frame)
  THEN UNCHANGED order
  ELSE /\ hasLast' = TRUE /\ last' = Seq16(frame)
       /\ written' \in {written, "lately"}
       /\ newest' = frame

FlushAudioBuffers == Forget /\ UNCHANGED written

-----------------------------------------------------------------------------
(* The engine: its output. *)

ResumeOutput == trackOutput' = IF trackOutput = "paused" THEN "playing" ELSE trackOutput

RestartAudio ==
  IF trackOutput # "off"
  THEN /\ ResumeOutput
       /\ focusLost' = FALSE /\ focusPaused' = FALSE
       /\ engineReady' = TRUE
       /\ written' = "lately"
       /\ later' = later \ {"restart"}
  ELSE /\ later' = (later \ {"restart"}) \cup {"restarted"}
       /\ UNCHANGED <<trackOutput, focusLost, focusPaused, engineReady, written>>

\* The second half of restartAudio without a native output: there is no Qt output
\* in this build, and nothing is started.
RestartCompletes ==
  /\ "restarted" \in later
  /\ later' = later \ {"restarted"}
  /\ focusLost' = FALSE /\ focusPaused' = FALSE /\ engineReady' = TRUE
  /\ written' = "lately"
  /\ UNCHANGED <<server, client, calls, trackOutput, recovery, hasLast, last, newest>>

SetupAudio ==
  \/ trackOutput' = (IF trackOutput = "off" THEN "playing" ELSE trackOutput) /\ engineReady' = TRUE
  \/ trackOutput = "off" /\ UNCHANGED <<trackOutput, engineReady>>

CleanupAudio == trackOutput' = "off" /\ engineReady' = FALSE /\ recovery' = FALSE

OnAudioFocusLost ==
  /\ focusLost' = TRUE /\ focusPaused' = FALSE /\ recovery' = FALSE
  /\ trackOutput' = "off" /\ engineReady' = FALSE

OnAudioFocusPaused ==
  /\ focusPaused' = TRUE
  /\ trackOutput' = IF trackOutput = "playing" THEN "paused" ELSE trackOutput

OnAudioFocusGained ==
  /\ recovery' = TRUE
  /\ IF focusPaused /\ ~focusLost
     THEN RestartAudio
     ELSE UNCHANGED <<trackOutput, focusLost, focusPaused, engineReady, written, later>>

OnActivityResumedQuietly ==                                 \* mutant
  /\ recovery' = TRUE
  /\ focusLost' = FALSE /\ focusPaused' = FALSE
  /\ later' = later \cup (IF focusLost /\ ~engineReady THEN {"rebuild"} ELSE {})

OnActivityResumed ==
  /\ recovery' = TRUE
  /\ CASE focusPaused ->
            /\ focusLost' = FALSE /\ focusPaused' = FALSE
            /\ later' = later \cup {"restart"}
       [] ~focusPaused /\ focusLost /\ ~engineReady ->
            /\ focusLost' = FALSE /\ UNCHANGED focusPaused
            /\ later' = later \cup {"rebuild"}
       [] OTHER -> UNCHANGED <<focusLost, focusPaused, later>>

\* The route is applied to the running track, or the output is started again,
\* or, failing that, set up anew.
HandleAudioRouteChanged ==
  \/ UNCHANGED <<trackOutput, engineReady>>
  \/ trackOutput # "off" /\ trackOutput' = "playing" /\ UNCHANGED engineReady
  \/ /\ trackOutput # "off"
     /\ \E rebuilt \in BOOLEAN :
          engineReady' = rebuilt /\ trackOutput' = IF rebuilt THEN "playing" ELSE "off"

EngineStep ==
  /\ calls # <<>>
  /\ calls' = Tail(calls)
  /\ LET call == Head(calls) IN
     \/ /\ call.kind = "audio" /\ ProcessReceivedAudio(call)
        /\ UNCHANGED <<engineReady, trackOutput, focus, later>>
     \/ /\ call.kind = "flush" /\ FlushAudioBuffers
        /\ UNCHANGED <<engineReady, trackOutput, focus, later>>
     \/ /\ call.kind = "setup" /\ SetupAudio
        /\ UNCHANGED <<focus, later, order>>
     \/ /\ call.kind = "cleanup" /\ CleanupAudio
        /\ UNCHANGED <<focusLost, focusPaused, later, order>>
     \/ /\ call.kind = "focusLost" /\ OnAudioFocusLost
        /\ UNCHANGED <<later, order>>
     \/ /\ call.kind = "focusPaused" /\ OnAudioFocusPaused
        /\ UNCHANGED <<engineReady, focusLost, recovery, later, order>>
     \/ /\ call.kind = "focusGained" /\ OnAudioFocusGained
        /\ UNCHANGED <<hasLast, last, newest>>
     \/ /\ call.kind = "activityPaused" /\ recovery' = TRUE
        /\ UNCHANGED <<engineReady, trackOutput, focusLost, focusPaused, later, order>>
     \/ /\ call.kind = "activityResumed" /\ OnActivityResumed
        /\ UNCHANGED <<engineReady, trackOutput, order>>
     \/ /\ call.kind = "route" /\ HandleAudioRouteChanged
        /\ UNCHANGED <<focus, later, order>>
  /\ UNCHANGED <<server, client>>

RestartRuns ==
  /\ "restart" \in later
  /\ RestartAudio
  /\ UNCHANGED <<server, client, calls, recovery, hasLast, last, newest>>

RebuildRuns ==
  /\ "rebuild" \in later
  /\ later' = later \ {"rebuild"}
  /\ SetupAudio
  /\ UNCHANGED <<server, client, calls, focus, order>>

FiveSecondsPass ==
  /\ written = "lately" /\ written' = "old"
  /\ UNCHANGED <<server, client, calls, engineReady, trackOutput, focus, later, hasLast, last,
                 newest>>

\* onAudioRecoveryTimer and checkAudioHealth, without a Qt output.
CheckAudioHealth ==
  /\ recovery /\ engineReady /\ ~focusLost /\ written = "old"
  /\ Forget /\ written' = "never"
  /\ UNCHANGED <<server, client, calls, engineReady, trackOutput, focus, later>>

-----------------------------------------------------------------------------
Network == ServerSends \/ DatagramLost
Client == SessionStarts \/ SessionLost \/ DisconnectFromServer \/ OnUdpReadyRead
            \/ OnAudioTimeout \/ AndroidReports
Engine == EngineStep \/ RestartRuns \/ RestartCompletes \/ RebuildRuns
            \/ FiveSecondsPass \/ CheckAudioHealth

AudioNext == Network \/ Client \/ Engine

AudioSpec == AudioInit /\ [][AudioNext]_audioVars

-----------------------------------------------------------------------------
(* Properties. *)

\* Nothing is heard twice or out of order: a frame is taken after another of its
\* session only if the server sent it later, across the wrap of the 16-bit
\* numbers, until a flush or the health check lets the engine forget.
PlaysInOrder ==
  [][newest # NoFrame /\ newest' # NoFrame /\ newest' # newest
       /\ newest'.session = newest.session
     => newest'.number > newest.number]_audioVars

PauseNoted == trackOutput = "paused" => focusPaused \/ "restart" \in later
RestartFinds == "restarted" \in later /\ "restarted" \notin later'

\* A paused output is not forgotten: the pause stays noted, so that the focus or the
\* activity brings it back, or its restart is due, since onActivityResumed clears the
\* flags at once and restarts 100 ms later.  The one step that does forget it is a
\* restart completing 100 ms after it found no output, when another output was set up
\* and paused meanwhile.  A restart that is due plays over a newer pause: of that the
\* property says nothing.
PauseIsRemembered == [][PauseNoted => PauseNoted' \/ RestartFinds]_audioVars
=============================================================================
