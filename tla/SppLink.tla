------------------------------ MODULE SppLink ------------------------------
(* The Bluetooth serial push-to-talk button: SppPttController keeps the       *)
(* learned device, SppPttBridge its socket and what it reads.  Both live on   *)
(* the Qt thread; the button, the radio link, the permission dialog and the   *)
(* retry timers interleave.  HardwarePtt joins these operations with the      *)
(* client's learning mode, which starts and stops the bridge's.               *)
EXTENDS KeyLearning

CONSTANTS
  Dev,  \* the button's address
  NoDev

ASSUME SppAssumption == Dev # NoDev /\ "null" \notin {Dev, NoDev}

VARIABLES
  down, line, \* the button, and what it sent and nobody has read
  inRange,    \* the button answers
  store,      \* HardwarePttSettingsStore's device: address and patterns
  ctl,        \* the controller's copy, or the device it connects to learn from
  bridge,     \* the bridge's copy; NoBridge: m_bridge is null
  bridgeLearning, \* the bridge's m_learning
  first,      \* m_learnedPress
  socket,     \* "none", "connecting", "up", "down"
  rx,         \* m_rxBuffer
  retries,    \* singleShot timers under way
  granted,    \* the Bluetooth permission
  asked,      \* the bridge's questions for it
  denied,     \* m_status says that the last of them was denied
  sppPtt       \* the last signal to the client was a press

saved == <<store, ctl>>
bond == <<bridge, bridgeLearning, first>>
conn == <<socket, rx, line, retries, asked, denied>>
sppVars == <<saved, bond, conn, inRange, down, granted, sppPtt>>

Device(a, p, r) == [address |-> a, press |-> p, release |-> r]
NoDevice == Device(NoDev, <<>>, <<>>)
NoBridge == Device("null", <<>>, <<>>)

SppInit ==
  /\ down = FALSE /\ line = <<>> /\ inRange = TRUE
  /\ store \in {NoDevice, Device(Dev, <<"P">>, <<"R">>)} /\ ctl = NoDevice
  /\ bridge = NoBridge /\ bridgeLearning = FALSE /\ first = <<>>
  /\ socket = "none" /\ rx = <<>> /\ retries = 0
  /\ granted \in BOOLEAN /\ asked = 0 /\ denied = FALSE /\ sppPtt = FALSE

-----------------------------------------------------------------------------
(* The button and the radio. *)

Send(token) == line' = IF socket = "up" THEN Append(line, token) ELSE line

Press ==
  /\ ~down /\ down' = TRUE /\ Spend
  /\ Send("P")
  /\ UNCHANGED <<saved, bond, socket, rx, retries, asked, denied, inRange, granted, sppPtt>>

Release ==
  /\ down /\ down' = FALSE /\ Send("R")
  /\ UNCHANGED <<spent, saved, bond, socket, rx, retries, asked, denied, inRange, granted,
                 sppPtt>>

RangeChanges ==
  /\ inRange' = ~inRange
  /\ IF inRange THEN Spend ELSE UNCHANGED spent
  /\ UNCHANGED <<saved, bond, conn, down, granted, sppPtt>>

-----------------------------------------------------------------------------
(* SppPttBridge. *)

\* Closing the old socket and what it had not delivered; the close of a live
\* one may be reported as a disconnection, which schedules a retry.
DoConnectSocket ==
  /\ socket' = "connecting" /\ rx' = <<>> /\ line' = <<>> /\ denied' = FALSE
  /\ retries' \in IF socket = "up" THEN {retries, retries + 1} ELSE {retries}

\* connectToSavedDevice of a bridge that knows dev, called n times in a row:
\* a second connection replaces the first, a second question does not.
ConnectTo(dev, n) ==
  IF dev.address = NoDev THEN UNCHANGED conn
  ELSE IF granted THEN DoConnectSocket /\ UNCHANGED asked
  ELSE asked' = asked + n /\ denied' = FALSE /\ UNCHANGED <<socket, rx, line, retries>>

\* Deleting the bridge takes its timers and its dialogs' watchers along.
StopBridge ==
  /\ bridge' = NoBridge /\ bridgeLearning' = FALSE /\ first' = <<>>
  /\ socket' = "none" /\ rx' = <<>> /\ line' = <<>> /\ retries' = 0
  /\ asked' = 0 /\ denied' = FALSE

\* A denial is final for the bridge: it neither retries nor asks again.  Android
\* denies at once what is asked while another dialog is open.
BluetoothAnswered(yes) ==
  /\ asked > 0 /\ asked' = asked - 1
  /\ IF yes THEN granted' = TRUE /\ DoConnectSocket /\ UNCHANGED spent
     ELSE denied' = TRUE /\ Spend /\ UNCHANGED <<granted, socket, rx, line, retries>>
  /\ UNCHANGED <<saved, bond, inRange, down, sppPtt>>

\* The activity's own dialog, whose answer stays with the activity, or the system
\* settings: the bridge is not told.
GrantedElsewhere ==
  /\ ~granted /\ granted' = TRUE
  /\ UNCHANGED <<saved, bond, conn, inRange, down, sppPtt>>

OnSocketConnected ==
  /\ socket = "connecting" /\ inRange /\ socket' = "up" /\ denied' = FALSE
  /\ UNCHANGED <<saved, bond, rx, line, retries, asked, inRange, down, granted, sppPtt>>

ErrorForgotten ==  \* mutant
  /\ socket = "connecting" /\ ~inRange /\ socket' = "down" /\ denied' = FALSE
  /\ UNCHANGED <<saved, bond, rx, line, retries, asked, inRange, down, granted, sppPtt>>

OnSocketError ==
  /\ socket = "connecting" /\ ~inRange /\ socket' = "down"
  /\ retries' = retries + 1 /\ denied' = FALSE
  /\ UNCHANGED <<saved, bond, rx, line, asked, inRange, down, granted, sppPtt>>

OnSocketDisconnected ==
  /\ socket = "up" /\ ~inRange /\ socket' = "down" /\ line' = <<>>
  /\ retries' = retries + 1 /\ denied' = FALSE
  /\ UNCHANGED <<saved, bond, rx, asked, inRange, down, granted, sppPtt>>

RetryFires ==
  /\ retries > 0 /\ retries' = retries - 1
  /\ \/ /\ socket # "up" /\ bridge.address # NoDev /\ granted
        /\ socket' = "connecting" /\ rx' = <<>> /\ line' = <<>> /\ denied' = FALSE
        /\ UNCHANGED asked
     \/ /\ socket # "up" /\ bridge.address # NoDev /\ ~granted
        /\ asked' = asked + 1 /\ denied' = FALSE /\ UNCHANGED <<socket, rx, line>>
     \/ /\ socket = "up" \/ bridge.address = NoDev
        /\ UNCHANGED <<socket, rx, line, asked, denied>>
  /\ UNCHANGED <<saved, bond, inRange, down, granted, sppPtt>>

\* Where pattern p first ends in the buffer; 0: nowhere.
EndOf(p, buf) ==
  LET ends == {i \in Len(p)..Len(buf) : SubSeq(buf, i - Len(p) + 1, i) = p} IN
    IF p = <<>> \/ ends = {} THEN 0 ELSE CHOOSE i \in ends : \A j \in ends : i <= j

Keep(buf, end) == SubSeq(buf, end + 1, Len(buf))

\* The fallback for buttons that send no line ends: one press or one release.
ReadPattern(buf) ==
  LET p == EndOf(bridge.press, buf)  r == EndOf(bridge.release, buf) IN
    IF p > 0 THEN sppPtt' = TRUE /\ rx' = Keep(buf, p)
    ELSE IF r > 0 THEN sppPtt' = FALSE /\ rx' = Keep(buf, r)
    ELSE rx' = buf /\ UNCHANGED sppPtt

OnSocketReadyRead ==
  /\ socket = "up" /\ line # <<>> /\ line' = <<>>
  /\ \/ ~bridgeLearning /\ ReadPattern(rx \o line) /\ UNCHANGED first
     \/ /\ bridgeLearning /\ first \in {<<>>, rx \o line}
        /\ first' = rx \o line /\ rx' = <<>> /\ UNCHANGED sppPtt
  /\ UNCHANGED <<saved, bridge, bridgeLearning, socket, retries, asked, denied, inRange, down,
                 granted>>

\* What it read differs from the learned press: onLearningComplete saves the
\* device and connects anew.
OnLearningComplete ==
  /\ socket = "up" /\ line # <<>>
  /\ bridgeLearning /\ first \notin {<<>>, rx \o line}
  /\ bridgeLearning' = FALSE /\ first' = <<>>
  /\ LET dev == Device(ctl.address, first, rx \o line) IN
       /\ ctl' = dev /\ store' = dev /\ bridge' = dev
       /\ IF dev.address # NoDev /\ granted THEN DoConnectSocket /\ UNCHANGED asked
          ELSE /\ line' = <<>> /\ rx' = <<>> /\ UNCHANGED <<socket, retries>>
               /\ IF dev.address # NoDev THEN asked' = asked + 1 /\ denied' = FALSE
                  ELSE UNCHANGED <<asked, denied>>
  /\ UNCHANGED <<inRange, down, granted, sppPtt>>

-----------------------------------------------------------------------------
(* SppPttController. *)

\* startBridgeIfNeeded for the device dev, n times: a running bridge connects anew.
StartBridge(dev, learn, n) ==
  IF dev.address = NoDev THEN UNCHANGED <<bond, conn>>
  ELSE /\ bridge' = dev
       /\ bridgeLearning' = (bridgeLearning \/ learn)
       /\ first' = IF learn THEN <<>> ELSE first
       /\ ConnectTo(dev, n)

LoadLearnedDevice == ctl' = store /\ UNCHANGED store

\* onHardwarePttSettingsChanged, and the end of a learning mode; the bridge may
\* go on learning.
Reload(learn, n) ==
  /\ LoadLearnedDevice /\ StartBridge(store, learn, n)
  /\ UNCHANGED <<inRange, down, granted, sppPtt>>

ClearLearnedSppDevice ==
  /\ ctl.address # NoDev
  /\ store' = NoDevice /\ ctl' = NoDevice /\ StopBridge
  /\ UNCHANGED <<inRange, down, granted, sppPtt>>

LearnUnlessKnown ==  \* mutant
  /\ IF ctl.address # NoDev
     THEN UNCHANGED <<ctl, bond, conn>>
     ELSE /\ ctl' = Device(Dev, <<>>, <<>>)
          /\ bridge' = ctl' /\ bridgeLearning' = TRUE /\ first' = <<>>
          /\ DoConnectSocket /\ UNCHANGED asked
  /\ UNCHANGED <<store, inRange, down, granted, sppPtt>>

\* onHardwarePttLearningActiveChanged at the start of a mode: without a learned
\* device the bridge is made anew for a button the phone is connected to, if
\* there is one.
StartLearning ==
  /\ \/ /\ ctl.address # NoDev /\ UNCHANGED <<ctl, bridge, conn>>
        /\ bridgeLearning' = (bridge # NoBridge)
        /\ first' = IF bridge # NoBridge THEN <<>> ELSE first
     \/ /\ ctl.address = NoDev /\ inRange /\ granted
        /\ ctl' = Device(Dev, <<>>, <<>>)
        /\ bridge' = ctl' /\ bridgeLearning' = TRUE /\ first' = <<>>
        /\ socket' = "connecting" /\ rx' = <<>> /\ line' = <<>> /\ retries' = 0
        /\ asked' = 0 /\ denied' = FALSE
     \/ /\ ctl.address = NoDev /\ ~(inRange /\ granted)
        /\ StopBridge /\ UNCHANGED ctl
  /\ UNCHANGED <<store, inRange, down, granted, sppPtt>>
=============================================================================
