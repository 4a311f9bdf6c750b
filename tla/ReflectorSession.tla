-------------------------- MODULE ReflectorSession --------------------------
(***************************************************************************)
(* The TCP session of the Android client with a SvxLink reflector:         *)
(* src/android/ReflectorClientConnection.cpp, ReflectorClientRecovery.cpp  *)
(* and the session part of ReflectorClientProtocol.cpp.                    *)
(*                                                                         *)
(* One action is one event handled by the Qt thread, with every call it    *)
(* makes: Qt delivers socket signals synchronously, so abort() on a        *)
(* connected socket runs onTcpDisconnected inside the caller's step.       *)
(* The service lives on Android's main thread: a request to start it waits *)
(* there while the Qt thread goes on, but is stopped by a direct call.     *)
(* The socket, the server and the default network are the environment.     *)
(* Timers are untimed: an active timer may expire at any moment.           *)
(***************************************************************************)
EXTENDS Integers, Sequences, FiniteSets

CONSTANTS
  BackoffSteps,   \* entries of kReconnectBackoffScheduleMs; entry 0 is 0 ms
  MaxSnapshots,   \* bound: network snapshots queued for the Qt thread at once
  MaxStarts       \* bound: requests to start the service that wait at once

ASSUME BackoffAssumption == BackoffSteps \in Nat \ {0}
ASSUME SnapshotAssumption == MaxSnapshots \in Nat \ {0}
ASSUME StartsAssumption == MaxStarts \in Nat \ {0}

LastStep == BackoffSteps - 1
NoTimer == -1

VARIABLES
  state,            \* m_state
  status,           \* m_connectionStatus, by kind of text
  sock,             \* m_tcpSocket->state()
  ignoreError,      \* m_ignoreNextSocketError
  ignoreDisconnect, \* m_ignoreNextSocketDisconnect
  connectTimer,     \* m_connectTimer->isActive()
  reconnectTimer,   \* backoff entry m_reconnectTimer was started with, or NoTimer
  backoffStep,      \* m_reconnectBackoffStep
  waiting,          \* m_waitingForValidatedNetwork
  watchdog,         \* protocol liveness watchdog: no beat, one beat, armed
  network,          \* the last network snapshot the client was told of
  authKey,          \* the in-memory profile (host, key, ...) is complete
  saved,            \* the profile saved by Android is complete
  created,          \* the service's object exists
  starts,           \* requests to start the service that wait for the main
                    \* thread, FIFO: with (TRUE) or without monitoring
  monitoring,       \* the service's keep-alive and network monitor are on
  notes,            \* calls queued for the Qt thread by the service, FIFO
  peer,             \* what the server is doing on the established connection
  link,             \* a validated default network exists
  reported,         \* last network state the monitor delivered ("none" at first)
  calm,             \* the environment causes no further fault
  wanted,           \* history: the user's last request was to be connected
  called            \* history: a call of the service came since the user disconnected

client == <<state, status, ignoreError, ignoreDisconnect, connectTimer,
            reconnectTimer, backoffStep, waiting, watchdog, network, authKey>>
service == <<saved, created, starts, monitoring, reported>>
environment == <<link, calm>>
history == <<wanted, called>>
vars == <<client, sock, service, notes, peer, environment, history>>

States == {"Disconnected", "Connecting", "Authenticating", "Connected"}
Statuses == {"Disconnected", "Connecting", "Authenticating", "Connected",
             "Waiting", "Reconnecting", "ReconnectingIn", "Lost", "Refused"}
Sockets == {"Unconnected", "Connecting", "Connected", "Closing"}
Peers == {"none", "greeting", "serving", "silent", "refusing"}
Snapshot == [usable : BOOLEAN, restart : BOOLEAN]
Note == {[kind |-> "check"]} \cup [kind : {"network"}, snapshot : Snapshot]

TypeOK ==
  /\ state \in States
  /\ status \in Statuses
  /\ sock \in Sockets
  /\ ignoreError \in BOOLEAN
  /\ ignoreDisconnect \in BOOLEAN
  /\ connectTimer \in BOOLEAN
  /\ reconnectTimer \in NoTimer .. LastStep
  /\ backoffStep \in 0 .. LastStep
  /\ waiting \in BOOLEAN
  /\ watchdog \in {"off", "primed", "armed"}
  /\ network \in {"unknown", "usable", "unusable"}
  /\ authKey \in BOOLEAN
  /\ saved \in BOOLEAN
  /\ created \in BOOLEAN
  /\ starts \in Seq(BOOLEAN)
  /\ monitoring \in BOOLEAN
  /\ notes \in Seq(Note)
  /\ peer \in Peers
  /\ link \in BOOLEAN
  /\ reported \in {"none", "up", "down"}
  /\ calm \in BOOLEAN
  /\ wanted \in BOOLEAN
  /\ called \in BOOLEAN

\* A fresh process; a profile may have been saved by an earlier one, for which the
\* client then asks for the service, unless the service has started the process.
Init ==
  /\ state = "Disconnected" /\ status = "Disconnected"
  /\ sock = "Unconnected" /\ peer = "none"
  /\ ignoreError = FALSE /\ ignoreDisconnect = FALSE
  /\ connectTimer = FALSE /\ reconnectTimer = NoTimer /\ backoffStep = 0
  /\ waiting = FALSE /\ watchdog = "off" /\ network = "unknown"
  /\ authKey = FALSE /\ saved \in BOOLEAN
  /\ created \in BOOLEAN
  /\ starts = IF saved /\ ~created THEN <<FALSE>> ELSE <<>>
  /\ monitoring = FALSE /\ reported = "none" /\ notes = <<>>
  /\ link \in BOOLEAN /\ calm = FALSE
  /\ wanted = FALSE /\ called = FALSE

-----------------------------------------------------------------------------
(* The client's own procedures.  c is what the client's state, status,     *)
(* waiting flag, reconnect timer and backoff step are at the moment of the *)
(* call, and whether it has what a connection needs; n is the network it   *)
(* then knows.                                                             *)

HasContextInMemory == authKey                          \* mutant of HasContext

\* loadSavedAndroidReconnectProfile: the store gives every part of a profile.
LoadSavedProfile == saved

HasContext == authKey \/ LoadSavedProfile

Here == [state |-> state, status |-> status, waiting |-> waiting,
         timer |-> reconnectTimer, step |-> backoffStep, context |-> HasContext]

\* transitionToDisconnectedState(label, true): the reconnect context, the
\* waiting flag and a pending attempt stay.
Dropped(label) == [Here EXCEPT !.state = "Disconnected", !.status = label]
DropTimers == connectTimer' = FALSE /\ watchdog' = "off"

\* A network the client was never told about counts as validated.
NetworkValidated(n) == n # "unusable"

\* setWaitingForValidatedNetwork(true)
WaitForNetwork(c) ==
  /\ waiting' = TRUE
  /\ IF c.waiting /\ c.status = "Waiting"
     THEN /\ state' = c.state
          /\ status' = c.status
          /\ reconnectTimer' = c.timer
     ELSE /\ reconnectTimer' = NoTimer
          /\ state' = "Disconnected"
          /\ status' = "Waiting"

\* An attempt already pending stays if it comes no later than the new one
\* would.  Only a positive delay leaves a choice: some of it has elapsed, and
\* it carries random jitter.
PendingComesLater(c, step) ==
  IF c.timer > 0 /\ c.timer >= step THEN BOOLEAN ELSE {FALSE}

Keep(c) ==
  /\ state' = c.state /\ status' = c.status /\ reconnectTimer' = c.timer

NextStepUnclamped(step) == step + 1                     \* mutant of NextStep
NextStep(step) == IF step < LastStep THEN step + 1 ELSE step

ScheduleReconnectAttempt(c, n, immediate) ==
  LET step == IF immediate THEN 0 ELSE c.step IN
  IF ~c.context
  THEN Keep(c) /\ waiting' = c.waiting /\ backoffStep' = c.step
  ELSE IF ~NetworkValidated(n)
  THEN WaitForNetwork(c) /\ backoffStep' = c.step
  ELSE /\ waiting' = FALSE
       /\ backoffStep' = IF immediate THEN 0 ELSE NextStep(c.step)
       /\ \E later \in PendingComesLater(c, step) :
            IF c.timer # NoTimer /\ ~immediate /\ ~later
            THEN Keep(c)
            ELSE /\ reconnectTimer' = step
                 /\ state' = "Disconnected"
                 /\ status' = IF step = 0 THEN "Reconnecting" ELSE "ReconnectingIn"

\* abort() with both ignore flags raised: disconnected() comes back at once
\* from an established socket and clears them; an attempt still connecting
\* ends without a signal and leaves them raised.
AbortIgnoring ==
  /\ sock' = "Unconnected" /\ peer' = "none"
  /\ LET left == sock \in {"Unconnected", "Connecting"} IN
     ignoreError' = left /\ ignoreDisconnect' = left

\* The same where the caller raises the flags only for an active socket and
\* lowers them otherwise.
AbortActive ==
  /\ sock' = "Unconnected" /\ peer' = "none"
  /\ ignoreError' = (sock = "Connecting")
  /\ ignoreDisconnect' = (sock = "Connecting")

ClearReconnectScheduleSkipped == UNCHANGED reconnectTimer   \* mutant
ClearReconnectSchedule == reconnectTimer' = NoTimer

ResetReconnectBackoff == backoffStep' = 0

LowerIgnoreFlagsSkipped == UNCHANGED <<ignoreError, ignoreDisconnect>>  \* mutant
LowerIgnoreFlags == ignoreError' = FALSE /\ ignoreDisconnect' = FALSE

StartConnectTimerSkipped == UNCHANGED connectTimer          \* mutant
StartConnectTimer == connectTimer' = TRUE

StartServiceUnmonitored ==                                  \* mutant
  /\ starts' = Append(starts, FALSE) /\ saved' = TRUE
  /\ UNCHANGED <<created, monitoring>>

\* startVoipService(true) asks Android to start the service; the profile is saved
\* at once.
StartService ==
  /\ starts' = Append(starts, TRUE) /\ saved' = TRUE
  /\ UNCHANGED <<created, monitoring>>

OpenSocket ==
  /\ sock = "Unconnected" /\ sock' = "Connecting"
  /\ state' = "Connecting" /\ status' = "Connecting"
  /\ ClearReconnectSchedule /\ ResetReconnectBackoff /\ waiting' = FALSE
  /\ LowerIgnoreFlags
  /\ StartConnectTimer /\ watchdog' = "off"
  /\ UNCHANGED peer

\* connectToHost on a socket still open or closing fails at once: onTcpError runs
\* inside the call, its abort() brings disconnected() back and uses up the flag,
\* and the next attempt is scheduled with the backoff just reset.
SocketIsBusy ==
  /\ sock # "Unconnected" /\ sock' = "Unconnected" /\ peer' = "none"
  /\ ignoreError' = FALSE /\ ignoreDisconnect' = FALSE
  /\ DropTimers
  /\ ScheduleReconnectAttempt([state |-> "Disconnected", status |-> "Lost",
                               waiting |-> FALSE, timer |-> NoTimer, step |-> 0,
                               context |-> TRUE], network, FALSE)

\* connectToServer
BeginConnection ==
  /\ Len(starts) < MaxStarts
  /\ authKey' = TRUE
  /\ StartService
  /\ OpenSocket \/ SocketIsBusy
  /\ UNCHANGED <<network, reported>>

-----------------------------------------------------------------------------
(* The user. *)

\* The Connect button, or the Play control with the saved profile.
ConnectToServer ==
  /\ state = "Disconnected"
  /\ BeginConnection
  /\ wanted' = TRUE /\ called' = FALSE
  /\ UNCHANGED <<notes, environment>>

DisconnectFromHostUnannounced ==                            \* mutant
  /\ UNCHANGED <<ignoreError, ignoreDisconnect>> /\ peer' = "none"
  /\ sock' \in {"Closing", "Unconnected"}

\* The socket closes at once, with a disconnected() that uses up the flag, or
\* when its pending data is written.
DisconnectFromHost ==
  /\ ignoreError' = FALSE /\ peer' = "none"
  /\ \E pendingData \in BOOLEAN :
       /\ sock' = IF pendingData THEN "Closing" ELSE "Unconnected"
       /\ ignoreDisconnect' = pendingData

\* setServiceConnectionMonitoring(false) works on the service at once.  Without one
\* it asks Android, for a saved profile, for a service that does not monitor.
StopMonitoring ==
  /\ monitoring' = FALSE
  /\ IF created \/ ~saved
     THEN UNCHANGED starts
     ELSE Len(starts) < MaxStarts /\ starts' = Append(starts, FALSE)

\* The Disconnect button, the Pause and Stop controls, a profile switch.
DisconnectFromServer ==
  /\ state # "Disconnected"
  /\ StopMonitoring
  /\ state' = "Disconnected" /\ status' = "Disconnected"
  /\ reconnectTimer' = NoTimer /\ backoffStep' = 0 /\ waiting' = FALSE
  /\ DropTimers
  /\ authKey' = FALSE
  /\ CASE sock = "Unconnected" ->
            /\ ignoreError' = FALSE /\ ignoreDisconnect' = FALSE
            /\ UNCHANGED <<sock, peer>>
       [] sock # "Unconnected" /\ state = "Connecting" -> AbortIgnoring
       [] OTHER -> DisconnectFromHost
  /\ wanted' = FALSE /\ called' = FALSE
  /\ UNCHANGED <<saved, created, reported, notes, network, environment>>

-----------------------------------------------------------------------------
(* Socket signals. *)

OnTcpConnected ==
  /\ sock = "Connecting" /\ link
  /\ sock' = "Connected" /\ peer' = "greeting"
  /\ ignoreError' = FALSE /\ ignoreDisconnect' = FALSE
  /\ connectTimer' = FALSE
  /\ state' = "Authenticating" /\ status' = "Authenticating"
  /\ UNCHANGED <<reconnectTimer, backoffStep, waiting, watchdog, network,
                 authKey, service, notes, environment, history>>

\* onTcpError for a failed attempt: the socket is already unconnected, so the
\* handler's abort() does nothing and its ignore flag stays raised.
ConnectionRefused ==
  /\ sock = "Connecting"
  /\ ~calm \/ ~link
  /\ sock' = "Unconnected"
  /\ IF ignoreError \/ state = "Disconnected"
     THEN /\ ignoreError' = FALSE
          /\ UNCHANGED <<state, status, ignoreDisconnect, connectTimer,
                         reconnectTimer, backoffStep, waiting, watchdog>>
     ELSE /\ ignoreDisconnect' = TRUE
          /\ UNCHANGED ignoreError
          /\ DropTimers
          /\ ScheduleReconnectAttempt(Dropped("Lost"), network, FALSE)
  /\ UNCHANGED <<network, authKey, peer, service, notes, environment, history>>

OnTcpDisconnectedGivesUp ==                                 \* mutant
  /\ ignoreDisconnect' = FALSE
  /\ UNCHANGED <<reconnectTimer, backoffStep, waiting>>
  /\ IF ignoreDisconnect
     THEN ignoreError' = FALSE /\ UNCHANGED <<state, status, connectTimer, watchdog>>
     ELSE /\ UNCHANGED ignoreError /\ DropTimers
          /\ state' = "Disconnected" /\ status' = "Disconnected"

OnTcpDisconnected ==
  /\ ignoreDisconnect' = FALSE
  /\ IF ignoreDisconnect
     THEN /\ ignoreError' = FALSE
          /\ UNCHANGED <<state, status, connectTimer, reconnectTimer,
                         backoffStep, waiting, watchdog>>
     ELSE /\ UNCHANGED ignoreError
          /\ DropTimers
          /\ ScheduleReconnectAttempt(Dropped("Disconnected"), network, FALSE)

\* disconnectFromHost has written its pending data.
ClosingFinished ==
  /\ sock = "Closing"
  /\ sock' = "Unconnected"
  /\ OnTcpDisconnected
  /\ UNCHANGED <<network, authKey, peer, service, notes, environment, history>>

\* An established socket fails: errorOccurred, with the socket still open, then
\* disconnected.  onTcpError aborts a live session itself, and the disconnected
\* that this causes is ignored.
EstablishedSocketFails ==
  /\ sock' = "Unconnected" /\ peer' = "none"
  /\ IF state # "Disconnected" /\ ~ignoreError
     THEN /\ ignoreError' = FALSE /\ ignoreDisconnect' = FALSE
          /\ DropTimers
          /\ ScheduleReconnectAttempt(Dropped("Lost"), network, FALSE)
     ELSE OnTcpDisconnected
  /\ UNCHANGED <<network, authKey, service, notes, environment, history>>

\* The path or the server is lost; closing sockets may fail as well.
ConnectionLost ==
  /\ sock \in {"Connected", "Closing"}
  /\ ~calm \/ ~link
  /\ EstablishedSocketFails

\* The server closes after an error or a downgrade, or gives up silently.
PeerCloses ==
  /\ sock = "Connected" /\ peer \in {"refusing", "silent"}
  /\ EstablishedSocketFails

-----------------------------------------------------------------------------
(* Timers. *)

\* A calm environment answers an attempt within the timer's 5 s.
OnConnectTimeout ==
  /\ connectTimer
  /\ calm => sock # "Connecting" \/ ~link
  /\ IF state = "Disconnected"
     THEN /\ connectTimer' = FALSE
          /\ UNCHANGED <<state, status, sock, peer, ignoreError, watchdog,
                         ignoreDisconnect, reconnectTimer, backoffStep, waiting>>
     ELSE /\ AbortIgnoring
          /\ DropTimers
          /\ ScheduleReconnectAttempt(Dropped("Lost"), network, FALSE)
  /\ UNCHANGED <<network, authKey, service, notes, environment, history>>

OnReconnectBackoffTimeout ==
  /\ reconnectTimer # NoTimer
  /\ CASE HasContext /\ NetworkValidated(network) /\ state = "Disconnected" ->
            BeginConnection
       [] HasContext /\ ~NetworkValidated(network) ->
            /\ WaitForNetwork([Here EXCEPT !.timer = NoTimer])
            /\ UNCHANGED <<sock, peer, ignoreError, ignoreDisconnect, service,
                           connectTimer, backoffStep, watchdog, network, authKey>>
       [] OTHER ->
            /\ reconnectTimer' = NoTimer
            /\ UNCHANGED <<state, status, sock, peer, ignoreError, waiting, service,
                           ignoreDisconnect, connectTimer, backoffStep, watchdog,
                           network, authKey>>
  /\ UNCHANGED <<notes, environment, history>>

\* No beat came for the learned interval; a refused session leaves it running.
OnProtocolLivenessTimeout ==
  /\ watchdog = "armed"
  /\ peer \in {"silent", "refusing"}
  /\ IF state = "Disconnected"
     THEN /\ watchdog' = "off"
          /\ UNCHANGED <<state, status, sock, peer, ignoreError, ignoreDisconnect,
                         connectTimer, reconnectTimer, backoffStep, waiting>>
     ELSE /\ AbortActive
          /\ DropTimers
          /\ ScheduleReconnectAttempt(Dropped("Lost"), network, TRUE)
  /\ UNCHANGED <<network, authKey, service, notes, environment, history>>

-----------------------------------------------------------------------------
(* Frames of the server.  PROTO_VER, AUTH_CHALLENGE and AUTH_OK only make  *)
(* the client answer and leave this state alone.                           *)

HandleServerInfo ==
  /\ sock = "Connected" /\ peer = "greeting"
  /\ peer' = "serving"
  /\ state' = "Connected" /\ status' = "Connected"
  /\ backoffStep' = 0 /\ waiting' = FALSE /\ watchdog' = "off"
  /\ UNCHANGED <<sock, ignoreError, ignoreDisconnect, connectTimer, network,
                 reconnectTimer, authKey, service, notes, environment, history>>

\* ERROR, which may deny the key, and PROTO_VER_DOWNGRADE: the session is given
\* up without closing the socket, stopping a timer or scheduling anything.
RefusalFrame(denied) ==
  /\ sock = "Connected" /\ peer \in {"greeting", "serving"}
  /\ ~calm
  /\ denied => peer = "greeting"
  /\ peer' = "refusing"
  /\ state' = "Disconnected" /\ status' = "Refused"
  /\ authKey' = (authKey /\ ~denied)
  /\ UNCHANGED <<sock, ignoreError, ignoreDisconnect, connectTimer, network, watchdog,
                 reconnectTimer, backoffStep, waiting, service, notes, environment,
                 history>>

\* Beats that arrive in the same millisecond measure no interval.
NoteInboundProtocolHeartbeat ==
  /\ sock = "Connected" /\ peer = "serving"
  /\ state = "Connected"
  /\ \E measured \in BOOLEAN :
       watchdog' = CASE watchdog = "off" -> "primed"
                     [] watchdog = "primed" /\ measured -> "armed"
                     [] OTHER -> watchdog
  /\ UNCHANGED <<state, status, ignoreError, ignoreDisconnect, connectTimer,
                 reconnectTimer, backoffStep, waiting, network, authKey, sock,
                 service, notes, peer, environment, history>>

-----------------------------------------------------------------------------
(* Calls queued by the service's thread, handled in order. *)

CheckAndReconnect ==
  /\ Head(notes).kind = "check"
  /\ IF sock \in {"Unconnected", "Closing"} \/ state = "Disconnected"
     THEN ScheduleReconnectAttempt(Here, network, FALSE)
     ELSE UNCHANGED <<state, status, waiting, reconnectTimer, backoffStep>>
  /\ UNCHANGED <<sock, peer, ignoreError, ignoreDisconnect, connectTimer,
                 watchdog, network, authKey>>

Live == state # "Disconnected"

\* The network is lost: a live session or an open socket is dropped, without
\* raising the waiting flag; otherwise the client starts to wait.
NetworkLost ==
  IF sock # "Unconnected" \/ Live
  THEN /\ AbortActive
       /\ DropTimers
       /\ Keep(Dropped("Waiting"))
       /\ UNCHANGED <<waiting, backoffStep>>
  ELSE /\ WaitForNetwork(Here)
       /\ UNCHANGED <<sock, peer, ignoreError, ignoreDisconnect, connectTimer,
                      watchdog, backoffStep>>

ShouldReconnectOnlyIfWaiting == waiting                    \* mutant
ShouldReconnect == waiting \/ state = "Disconnected"

NetworkAvailable(routeChanged) ==
  LET woken == [Here EXCEPT !.waiting = FALSE] IN
  IF routeChanged /\ network # "unknown" /\ Live
  THEN /\ AbortActive
       /\ DropTimers
       /\ ScheduleReconnectAttempt([Dropped("Lost") EXCEPT !.waiting = FALSE],
                                   "usable", TRUE)
  ELSE /\ UNCHANGED <<sock, peer, ignoreError, ignoreDisconnect, connectTimer, watchdog>>
       /\ IF ShouldReconnect
          THEN ScheduleReconnectAttempt(woken, "usable", TRUE)
          ELSE Keep(woken) /\ waiting' = FALSE /\ UNCHANGED backoffStep

HandleAndroidNetworkStateChanged ==
  /\ Head(notes).kind = "network"
  /\ LET snapshot == Head(notes).snapshot IN
     IF snapshot.usable
     THEN network' = "usable" /\ NetworkAvailable(snapshot.restart)
     ELSE network' = "unusable" /\ NetworkLost
  /\ UNCHANGED authKey

HandleNote ==
  /\ notes # <<>>
  /\ notes' = Tail(notes)
  /\ CheckAndReconnect \/ HandleAndroidNetworkStateChanged
  /\ called' = (called \/ ~wanted)
  /\ UNCHANGED <<service, environment, wanted>>

-----------------------------------------------------------------------------
(* The service and the network (Java). *)

\* The first request makes Android create the service.
OnCreate ==
  /\ ~created /\ starts # <<>>
  /\ created' = TRUE
  /\ UNCHANGED <<client, sock, saved, starts, monitoring, reported, notes, peer,
                 environment, history>>

\* Whatever the Qt thread has told the service since the request was made.
OnStartCommand ==
  /\ created /\ starts # <<>>
  /\ monitoring' = Head(starts) /\ starts' = Tail(starts)
  /\ UNCHANGED <<client, sock, saved, created, reported, notes, peer, environment,
                 history>>

Queued(kind) == {i \in 1 .. Len(notes) : notes[i].kind = kind}

\* The 15 s keep-alive tick; a second check behind a queued one is left out.
KeepAliveTick ==
  /\ monitoring
  /\ Queued("check") = {}
  /\ notes' = Append(notes, [kind |-> "check"])
  /\ UNCHANGED <<client, sock, service, peer, environment, history>>

PostSnapshot(restart) ==
  /\ monitoring
  /\ Cardinality(Queued("network")) < MaxSnapshots
  /\ notes' = Append(notes, [kind |-> "network",
                             snapshot |-> [usable |-> link, restart |-> restart]])
  /\ reported' = IF link THEN "up" ELSE "down"
  /\ UNCHANGED <<client, sock, saved, created, starts, monitoring, peer, environment,
                 history>>

\* The default network has become usable or unusable since the last delivery.
\* The first snapshot ever never says that the route changed.
ReportLink ==
  /\ reported # (IF link THEN "up" ELSE "down")
  /\ \E restart \in (IF reported = "none" THEN {FALSE} ELSE BOOLEAN) :
       PostSnapshot(restart)

\* Another usable default network: a handover, or the difference from the last
\* delivery of a monitor that was stopped and started again.
ReportHandover ==
  /\ ~calm
  /\ link /\ reported = "up"
  /\ PostSnapshot(TRUE)

LinkDown ==
  /\ link /\ ~calm
  /\ link' = FALSE
  /\ UNCHANGED <<client, sock, service, notes, peer, calm, history>>

LinkUp ==
  /\ ~link
  /\ link' = TRUE
  /\ UNCHANGED <<client, sock, service, notes, peer, calm, history>>

\* The server or the path stops answering without closing the connection.
GoSilent ==
  /\ ~calm
  /\ peer \in {"greeting", "serving"}
  /\ peer' = "silent"
  /\ UNCHANGED <<client, sock, service, notes, environment, history>>

BecomeCalm ==
  /\ ~calm
  /\ calm' = TRUE
  /\ UNCHANGED <<client, sock, service, notes, peer, link, history>>

-----------------------------------------------------------------------------
User == ConnectToServer \/ DisconnectFromServer

Socket == \/ OnTcpConnected \/ ConnectionRefused \/ ClosingFinished
          \/ ConnectionLost \/ PeerCloses

Timers == OnConnectTimeout \/ OnReconnectBackoffTimeout \/ OnProtocolLivenessTimeout

Frames == \/ HandleServerInfo
          \/ \E denied \in BOOLEAN : RefusalFrame(denied)
          \/ NoteInboundProtocolHeartbeat

Service == OnCreate \/ OnStartCommand \/ KeepAliveTick \/ ReportLink \/ ReportHandover

World == LinkDown \/ LinkUp \/ GoSilent \/ BecomeCalm

Next == User \/ Socket \/ Timers \/ Frames \/ HandleNote \/ Service \/ World

Spec == Init /\ [][Next]_vars

\* The Qt event loop delivers what is due; the sockets report what happens to
\* them; the main thread handles its requests; the service ticks and reports; a
\* calm server answers a greeting, and a refusing or silent connection is closed
\* in the end.
Fairness ==
  /\ WF_vars(HandleNote)
  /\ WF_vars(OnTcpConnected)
  /\ WF_vars(ClosingFinished)
  /\ WF_vars(PeerCloses)
  /\ WF_vars(OnConnectTimeout)
  /\ WF_vars(OnReconnectBackoffTimeout)
  /\ WF_vars(HandleServerInfo)
  /\ WF_vars(OnCreate)
  /\ WF_vars(OnStartCommand)
  /\ WF_vars(KeepAliveTick)
  /\ WF_vars(ReportLink)
  /\ WF_vars(LinkUp)
  /\ WF_vars(BecomeCalm)

FairSpec == Spec /\ Fairness

-----------------------------------------------------------------------------
(* Properties. *)

\* An ignore flag is for the signal of a socket that is being abandoned: none is
\* up while a session is being set up or used, where it would swallow the report
\* of a real loss and leave the client believing in a dead connection
\* (onTcpDisconnected and onTcpError return early on them).
NoStaleIgnore == state # "Disconnected" => ~ignoreError /\ ~ignoreDisconnect

\* Every phase of a session has something that ends it: an attempt has its 5 s
\* timer, an authenticated session has an open socket, and an attempt in
\* progress is never left behind by the client.
SessionIsAnchored ==
  /\ state = "Connecting" => connectTimer
  /\ state \in {"Authenticating", "Connected"} => sock = "Connected" /\ ~connectTimer
  /\ sock = "Connecting" => state = "Connecting"

\* A reconnect is pending only for a client that is down, so the timer cannot
\* hit a session the user or the network restored first.
PendingOnlyWhenDown == reconnectTimer # NoTimer => state = "Disconnected"

\* connectToServer resets the backoff and every attempt goes through it, so the
\* table never gets past its first entry: all reconnects are immediate, and a
\* refusing server is retried without a pause.
ReconnectsAreImmediate == reconnectTimer \in {NoTimer, 0}

\* The client waits, and shows that it waits, only for a network it was told is
\* unusable: once told otherwise it has left the waiting state.
WaitsOnlyWithoutNetwork ==
  waiting \/ status = "Waiting" => network = "unusable" /\ state = "Disconnected"

\* What the service will do once it has handled every request it was sent.
Due == IF starts = <<>> THEN monitoring ELSE starts[Len(starts)]

\* A client whose user wants to be connected is, or will be, kept by the service,
\* and while it is down it has a reason to come back that does not depend on the
\* 15 s keep-alive check: a pending attempt, a network it waits for, a socket
\* still to close or a queued call.  No order of user, socket, timers and the
\* main thread's late starts loses either.
NotForgotten ==
  wanted =>
    /\ Due
    /\ state = "Disconnected" =>
         reconnectTimer # NoTimer \/ network = "unusable" \/ sock # "Unconnected"
           \/ notes # <<>>

\* What the invariants above rest on.
PeerFollowsState ==
  /\ peer = "greeting" => state = "Authenticating"
  /\ peer = "serving" => state = "Connected"
  /\ peer # "none" => sock = "Connected"

ProfileIsSaved ==
  \/ monitoring \/ starts # <<>> \/ notes # <<>> \/ reconnectTimer # NoTimer
  \/ authKey \/ network # "unknown"
  => saved

BackoffIsSpent ==
  backoffStep > 0 =>
    state = "Disconnected" /\ (reconnectTimer = 0 \/ network = "unusable")

IInv ==
  /\ TypeOK
  /\ NoStaleIgnore /\ SessionIsAnchored /\ PendingOnlyWhenDown
  /\ ReconnectsAreImmediate /\ WaitsOnlyWithoutNetwork
  /\ PeerFollowsState /\ ProfileIsSaved /\ BackoffIsSpent

\* Since the user's disconnect no call of the service has come: nothing is up and
\* nothing is coming, neither from the socket still to close nor from a timer.
Quiet == ~wanted /\ ~called => state = "Disconnected" /\ reconnectTimer = NoTimer

\* The disconnect overtook no request to monitor and no queued call.
Resting ==
  /\ ~wanted /\ ~monitoring /\ \A i \in DOMAIN starts : ~starts[i]
  /\ notes = <<>>
  /\ state = "Disconnected" /\ reconnectTimer = NoTimer

\* Only two things wake a client the user has disconnected: the user's connect,
\* and a call of the service, which was queued before the disconnect or comes
\* from a start handled after it.  Without such a start or call none follows.
StaysQuiet == [][Quiet' /\ (Resting => Resting' \/ wanted')]_vars

\* A client whose user wants to be connected and whose environment has stopped
\* failing gets connected (or the user gives up).
EventuallyConnected == calm /\ wanted ~> state = "Connected" \/ ~wanted

\* The text "Waiting for validated network..." comes with the waiting flag, as
\* the test validatedNetworkLossMovesClientToWaitingState says of a live session
\* that loses its network.  The code drops that session without the flag.
WaitingIsFlagged == status = "Waiting" => waiting

-----------------------------------------------------------------------------
(* The session as its users see it. *)

Promise == INSTANCE SessionPromise WITH
  phase <- CASE state = "Disconnected" -> "Down"
             [] state = "Connecting" -> "Opening"
             [] state = "Authenticating" -> "Greeting"
             [] state = "Connected" -> "Up",
  kept <- monitoring,
  asked <- starts # <<>>,
  due <- Due

\* The client's session implements the promise its other parts rely on.
KeepsPromise == Promise!Spec
=============================================================================
