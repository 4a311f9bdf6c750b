---------------------------- MODULE HardwarePtt ----------------------------
(* Hardware push-to-talk: the learning of a key (KeyLearning) and the serial  *)
(* button (SppLink), which share the client's learning mode.  A mode that     *)
(* starts on the Qt thread sets the bridge learning in the same step, its     *)
(* result reloads the bridge, and what the bridge has learned cancels the     *)
(* mode.  Whatever runs on the Qt thread waits for a cancelLearning in it.    *)
EXTENDS SppLink

VARIABLE passes  \* the startup's calls that are over: its queued one, its initial signals

vars == <<sppVars, keyVars, passes>>

Init == SppInit /\ KeyInit /\ passes = 0

OnlyKey == UNCHANGED <<sppVars, passes>>
OnlySpp == UNCHANGED <<keyVars, passes>>

keyExceptSpent == <<mode, passed, cancelling, poc, keypad, client, starts>>

\* What else the Qt thread runs comes after the controller's queued first call.
QtFree == passes > 0 /\ ~cancelling

-----------------------------------------------------------------------------
(* Steps of one of the two. *)

MainThread ==
  /\ \/ \E k \in Keys, viaActivity \in BOOLEAN :
          KeyDown(k, viaActivity) \/ KeyUp(k, viaActivity)
     \/ Capture \/ Timeout
     \/ \E s \in posted : TimeoutFires(s)
  /\ OnlyKey

UserCancels == QtFree /\ CancelHardwarePttLearning /\ OnlyKey

CancelGoesOn == Cancel /\ OnlyKey

ButtonOrRadio == (Press \/ Release \/ RangeChanges) /\ UNCHANGED <<keyExceptSpent, passes>>

SocketChanges ==
  QtFree /\ (OnSocketConnected \/ OnSocketError \/ OnSocketDisconnected) /\ OnlySpp

SocketRead == QtFree /\ OnSocketReadyRead /\ OnlySpp

SocketRetry == QtFree /\ RetryFires /\ OnlySpp

PermissionAnswered ==
  /\ QtFree /\ \E yes \in BOOLEAN : BluetoothAnswered(yes)
  /\ UNCHANGED <<keyExceptSpent, passes>>

PermissionGranted == GrantedElsewhere /\ UNCHANGED <<keyVars, passes>>

-----------------------------------------------------------------------------
(* Steps of both. *)

\* The controller's queued first call, then the client's initial signals, which
\* reload it twice.
StartUp ==
  /\ ~cancelling /\ passes < 2 /\ passes' = passes + 1
  /\ Reload(FALSE, passes')
  /\ UNCHANGED keyVars

\* The user opens the settings after the startup.
UserStarts ==
  /\ passes = 2 /\ StartHardwarePttLearning /\ StartLearning
  /\ UNCHANGED passes

\* cancelHardwarePttLearning at the end of onLearningComplete leaves a mode that
\* is over alone.
LearningComplete ==
  /\ QtFree /\ OnLearningComplete
  /\ \/ CancelHardwarePttLearning
     \/ ~(active /\ learning) /\ UNCHANGED keyVars
  /\ UNCHANGED passes

\* A result is a change of the mode; a captured key is also one of the settings,
\* like a detected key the client did not know.
Signals(e) ==
  CASE e.hops = 2 -> 0
    [] e.what = "captured" -> 2
    [] e.what = "detected" -> IF e.key = known THEN 0 ELSE 1
    [] OTHER -> 1

ClientHandles ==
  /\ passes > 0 /\ HandleEvent
  /\ LET n == Signals(Head(events)) IN
       IF n = 0 THEN UNCHANGED sppVars ELSE Reload(active', n)
  /\ UNCHANGED passes

\* hardwarePttSettingsChanged reaches the controller from every edit.
EditSettings ==
  /\ passes = 2
  /\ \/ SetHardwarePttEnabled
     \/ \E k \in Keys \union {NoKey} : SetLearnedHardwarePttKeyCode(k)
  /\ Reload(active, 1) /\ UNCHANGED passes

\* The clear button is disabled in a learning mode.
ClearSppDevice ==
  /\ passes = 2 /\ ~cancelling /\ ~active
  /\ Spend /\ ClearLearnedSppDevice
  /\ UNCHANGED <<keyExceptSpent, passes>>

Next ==
  \/ MainThread \/ UserCancels \/ CancelGoesOn
  \/ ButtonOrRadio \/ SocketChanges \/ SocketRead \/ SocketRetry
  \/ PermissionAnswered \/ PermissionGranted
  \/ StartUp \/ UserStarts \/ LearningComplete
  \/ ClientHandles \/ EditSettings \/ ClearSppDevice

Spec == Init /\ [][Next]_vars

-----------------------------------------------------------------------------
(* Properties. *)

\* A learning mode ends on both sides.  Keys are never swallowed without end:
\* whatever the two threads did to each other's fields, Java's mode has a timeout
\* posted or somebody ending it.  And the dialog closes: while the client is in a
\* learning mode Java is too, or its end is on the way to the client, whichever of
\* the key, the timeout, the user and the serial button ended it.
EndIsComing ==
  /\ learning => posted # {} \/ passed # Nothing \/ cancelling
  /\ active => learning \/ passed # Nothing \/ cancelling
               \/ \E i \in DOMAIN events : events[i].what \in Results

\* A press of the button that is to be learned does not transmit, whatever made
\* or replaced the bridge before the mode or in it.
LearningWithholdsPtt == [][~sppPtt /\ sppPtt' => ~(active /\ learning)]_vars

\* The link comes back: a bridge that knows its device and has no socket to it has a
\* retry under way or a question to be answered, whatever its controller, the radio
\* and the dialogs did.  Only a denied one rests, and says so; it does not come back
\* when the permission is granted elsewhere.
LinkIsComing ==
  bridge.address = Dev /\ socket \in {"none", "down"} => retries > 0 \/ asked > 0 \/ denied
=============================================================================
