----------------------- MODULE ReflectorSessionProofs -----------------------
(***************************************************************************)
(* Proofs about ReflectorSession, for any number of backoff entries and    *)
(* any bounds on the queued snapshots and on the waiting start requests.   *)
(***************************************************************************)
EXTENDS ReflectorSession, SequenceTheorems, TLAPS

Networks == {"unknown", "usable", "unusable"}

\* What a call of ScheduleReconnectAttempt does when the invariant held before
\* it: nothing without a context, wait without a network, or have an immediate
\* attempt pending.
Outcome(c, n, immediate) ==
  \/ /\ ~HasContext
     /\ state' = c.state /\ status' = c.status /\ waiting' = c.waiting
     /\ reconnectTimer' = reconnectTimer /\ backoffStep' = backoffStep
  \/ /\ HasContext /\ n = "unusable"
     /\ status' = "Waiting" /\ waiting' = TRUE
     /\ \/ state' = "Disconnected" /\ reconnectTimer' = NoTimer
        \/ c.waiting /\ state' = c.state /\ reconnectTimer' = reconnectTimer
     /\ backoffStep' = backoffStep
  \/ /\ HasContext /\ n # "unusable"
     /\ waiting' = FALSE /\ reconnectTimer' = 0
     /\ backoffStep' \in 0 .. LastStep
     /\ immediate => backoffStep' = 0
     /\ \/ state' = "Disconnected" /\ status' = "Reconnecting"
        \/ /\ reconnectTimer = 0 /\ ~immediate
           /\ state' = c.state /\ status' = c.status

LEMMA ScheduleOutcome ==
  ASSUME TypeOK, ReconnectsAreImmediate, BackoffIsSpent,
         NEW n \in Networks, NEW immediate \in BOOLEAN, immediate \/ n = network,
         NEW c, c.timer = reconnectTimer,
         c.step = backoffStep, c.context = HasContext,
         ScheduleReconnectAttempt(c, n, immediate)
  PROVE  Outcome(c, n, immediate)
<1> USE BackoffAssumption DEF NoTimer, LastStep
<1>1. CASE ~HasContext
  BY <1>1 DEF ScheduleReconnectAttempt, Keep, Outcome
<1>2. CASE HasContext /\ n = "unusable"
  BY <1>2 DEF ScheduleReconnectAttempt, NetworkValidated, WaitForNetwork, Outcome
<1>3. CASE HasContext /\ n # "unusable"
  <2> DEFINE step == IF immediate THEN 0 ELSE backoffStep
  <2>1. /\ waiting' = FALSE
        /\ backoffStep' = IF immediate THEN 0 ELSE NextStep(backoffStep)
        /\ \E later \in PendingComesLater(c, step) :
             IF c.timer # NoTimer /\ ~immediate /\ ~later
             THEN Keep(c)
             ELSE /\ reconnectTimer' = step
                  /\ state' = "Disconnected"
                  /\ status' = IF step = 0 THEN "Reconnecting" ELSE "ReconnectingIn"
    BY <1>3 DEF ScheduleReconnectAttempt, NetworkValidated
  <2>2. backoffStep' \in 0 .. LastStep /\ (immediate => backoffStep' = 0)
    BY <2>1 DEF NextStep, TypeOK
  <2>3. step = 0 \/ (reconnectTimer = 0 /\ ~immediate)
    BY <1>3 DEF BackoffIsSpent, TypeOK
  <2>4. reconnectTimer = NoTimer \/ reconnectTimer = 0
    BY DEF ReconnectsAreImmediate
  <2>5. PendingComesLater(c, step) = {FALSE}
    <3>1. c.timer \in Int /\ ~(c.timer > 0)
      BY <2>4
    <3> HIDE DEF step
    <3> QED BY <3>1 DEF PendingComesLater
  <2>6. IF reconnectTimer # NoTimer /\ ~immediate
        THEN Keep(c)
        ELSE /\ reconnectTimer' = step
             /\ state' = "Disconnected"
             /\ status' = IF step = 0 THEN "Reconnecting" ELSE "ReconnectingIn"
    BY <2>1, <2>5
  <2>7. CASE reconnectTimer = 0 /\ ~immediate
    BY <1>3, <2>1, <2>2, <2>6, <2>7 DEF Keep, Outcome
  <2>8. CASE ~(reconnectTimer = 0 /\ ~immediate)
    <3>1. step = 0
      BY <2>3, <2>8
    <3>2. reconnectTimer' = 0 /\ state' = "Disconnected" /\ status' = "Reconnecting"
      BY <2>4, <2>6, <2>8, <3>1
    <3> QED BY <1>3, <2>1, <2>2, <3>2 DEF Outcome
  <2> QED BY <2>7, <2>8
<1> QED BY <1>1, <1>2, <1>3

-----------------------------------------------------------------------------
(* The inductive invariant, one lemma per group of actions. *)

\* A socket still in use: the client is down again, and comes back at once or
\* waits for the network.
BusyOutcome ==
  /\ state' = "Disconnected" /\ sock' = "Unconnected" /\ peer' = "none"
  /\ ignoreError' = FALSE /\ ignoreDisconnect' = FALSE
  /\ connectTimer' = FALSE /\ watchdog' = "off"
  /\ \/ /\ network = "unusable" /\ status' = "Waiting" /\ waiting' = TRUE
        /\ reconnectTimer' = NoTimer /\ backoffStep' = 0
     \/ /\ network # "unusable" /\ status' = "Reconnecting" /\ waiting' = FALSE
        /\ reconnectTimer' = 0 /\ backoffStep' \in 0 .. LastStep

LEMMA BusySocketOutcome ==
  ASSUME SocketIsBusy
  PROVE  BusyOutcome
<1> USE BackoffAssumption DEF NoTimer, LastStep
<1> DEFINE c == [state |-> "Disconnected", status |-> "Lost", waiting |-> FALSE,
                 timer |-> NoTimer, step |-> 0, context |-> TRUE]
<1>1. /\ sock' = "Unconnected" /\ peer' = "none"
      /\ ignoreError' = FALSE /\ ignoreDisconnect' = FALSE
      /\ connectTimer' = FALSE /\ watchdog' = "off"
      /\ ScheduleReconnectAttempt(c, network, FALSE)
  BY DEF SocketIsBusy, DropTimers
<1>2. /\ c.state = "Disconnected" /\ c.status = "Lost" /\ c.waiting = FALSE
      /\ c.timer = NoTimer /\ c.step = 0 /\ c.context = TRUE
  OBVIOUS
<1> HIDE DEF c
<1>3. CASE network = "unusable"
  BY <1>1, <1>2, <1>3
  DEF ScheduleReconnectAttempt, NetworkValidated, WaitForNetwork, BusyOutcome
<1>4. CASE network # "unusable"
  <2>1. /\ waiting' = FALSE /\ backoffStep' = NextStep(0)
        /\ \E later \in PendingComesLater(c, 0) :
             /\ reconnectTimer' = 0 /\ state' = "Disconnected"
             /\ status' = "Reconnecting"
    BY <1>1, <1>2, <1>4 DEF ScheduleReconnectAttempt, NetworkValidated
  <2>2. NextStep(0) \in 0 .. LastStep
    BY DEF NextStep
  <2> QED BY <1>1, <1>4, <2>1, <2>2 DEF BusyOutcome
<1> QED BY <1>3, <1>4

LEMMA ConnectKeepsIInv ==
  ASSUME IInv, BeginConnection, state = "Disconnected", UNCHANGED <<notes, environment>>,
         wanted' \in BOOLEAN, called' \in BOOLEAN
  PROVE  IInv'
<1> USE BackoffAssumption DEF NoTimer, LastStep
<1>0. /\ authKey' = TRUE /\ saved' = TRUE /\ monitoring' = monitoring
      /\ starts' = Append(starts, TRUE) /\ created' = created
      /\ UNCHANGED <<network, reported, notes, link, calm>>
  BY DEF BeginConnection, StartService, environment
<1>1. /\ authKey' \in BOOLEAN /\ saved' \in BOOLEAN /\ monitoring' \in BOOLEAN
      /\ created' \in BOOLEAN /\ starts' \in Seq(BOOLEAN)
      /\ network' \in {"unknown", "usable", "unusable"}
      /\ notes' \in Seq(Note) /\ link' \in BOOLEAN
      /\ reported' \in {"none", "up", "down"} /\ calm' \in BOOLEAN
  BY <1>0 DEF IInv, TypeOK
<1>2. ProfileIsSaved'
  BY <1>0 DEF ProfileIsSaved
<1>3. CASE OpenSocket
  <2>0. /\ state' = "Connecting" /\ status' = "Connecting" /\ sock' = "Connecting"
        /\ reconnectTimer' = NoTimer /\ backoffStep' = 0 /\ waiting' = FALSE
        /\ ignoreError' = FALSE /\ ignoreDisconnect' = FALSE
        /\ connectTimer' = TRUE /\ watchdog' = "off" /\ peer' = peer
        /\ sock = "Unconnected"
    BY <1>3 DEF OpenSocket, ClearReconnectSchedule, ResetReconnectBackoff,
      LowerIgnoreFlags, StartConnectTimer
  <2>1. peer' = "none"
    BY <2>0 DEF IInv, PeerFollowsState
  <2>2. TypeOK'
    <3>1. /\ state' \in States /\ status' \in Statuses /\ sock' \in Sockets
          /\ peer' \in Peers /\ ignoreError' \in BOOLEAN /\ ignoreDisconnect' \in BOOLEAN
          /\ connectTimer' \in BOOLEAN /\ waiting' \in BOOLEAN
          /\ watchdog' \in {"off", "primed", "armed"}
      BY <2>0, <2>1 DEF States, Statuses, Sockets, Peers
    <3>2. reconnectTimer' \in NoTimer .. LastStep /\ backoffStep' \in 0 .. LastStep
      BY <2>0
    <3> QED BY <1>1, <3>1, <3>2 DEF TypeOK
  <2>3. NoStaleIgnore' /\ ReconnectsAreImmediate' /\ WaitsOnlyWithoutNetwork' /\ BackoffIsSpent'
    BY <2>0 DEF NoStaleIgnore, ReconnectsAreImmediate, WaitsOnlyWithoutNetwork, BackoffIsSpent
  <2>4. SessionIsAnchored' /\ PendingOnlyWhenDown' /\ PeerFollowsState'
    BY <2>0, <2>1 DEF SessionIsAnchored, PendingOnlyWhenDown, PeerFollowsState
  <2> QED BY <1>2, <2>2, <2>3, <2>4 DEF IInv
<1>4. CASE SocketIsBusy
  <2>0. BusyOutcome
    BY <1>4, BusySocketOutcome
  <2>1. TypeOK'
    <3>1. /\ state' \in States /\ status' \in Statuses /\ sock' \in Sockets
          /\ peer' \in Peers /\ ignoreError' \in BOOLEAN /\ ignoreDisconnect' \in BOOLEAN
          /\ connectTimer' \in BOOLEAN /\ waiting' \in BOOLEAN
          /\ watchdog' \in {"off", "primed", "armed"}
      BY <2>0 DEF BusyOutcome, States, Statuses, Sockets, Peers
    <3>2. reconnectTimer' \in NoTimer .. LastStep /\ backoffStep' \in 0 .. LastStep
      BY <2>0 DEF BusyOutcome
    <3> QED BY <1>1, <3>1, <3>2 DEF TypeOK
  <2>2. NoStaleIgnore' /\ ReconnectsAreImmediate' /\ WaitsOnlyWithoutNetwork' /\ BackoffIsSpent'
    BY <1>0, <2>0 DEF BusyOutcome, NoStaleIgnore, ReconnectsAreImmediate,
      WaitsOnlyWithoutNetwork, BackoffIsSpent
  <2>3. SessionIsAnchored' /\ PendingOnlyWhenDown' /\ PeerFollowsState'
    BY <2>0 DEF BusyOutcome, SessionIsAnchored, PendingOnlyWhenDown, PeerFollowsState
  <2> QED BY <1>2, <2>1, <2>2, <2>3 DEF IInv
<1> QED BY <1>3, <1>4 DEF BeginConnection

\* What handling a queued call records.
CallNoted == wanted' = wanted /\ called' \in BOOLEAN

\* A step that drops the session and asks for a reconnect.
LEMMA DropKeepsIInv ==
  ASSUME IInv, NEW label \in Statuses \ {"Waiting"}, NEW n \in Networks,
         NEW immediate \in BOOLEAN, immediate \/ n = network,
         NEW c, c.state = "Disconnected", c.status = label, c.timer = reconnectTimer,
         c.step = backoffStep, c.context = HasContext,
         c.waiting \in {waiting, FALSE}, n = "usable" => c.waiting = FALSE,
         ScheduleReconnectAttempt(c, n, immediate), network' = n,
         HasContext \/ n = network,
         DropTimers, sock' = "Unconnected", peer' = "none",
         ignoreError' \in BOOLEAN, ignoreDisconnect' \in BOOLEAN,
         UNCHANGED <<authKey, service, environment>>, UNCHANGED history \/ CallNoted,
         notes' = notes \/ (notes # <<>> /\ notes' = Tail(notes))
  PROVE  IInv'
<1> USE DEF IInv, NoTimer, LastStep
<1>1. c.waiting \in BOOLEAN /\ (c.waiting => waiting)
  BY DEF TypeOK
<1> HIDE DEF IInv
<1>a. TypeOK /\ ReconnectsAreImmediate /\ BackoffIsSpent
  BY DEF IInv
<1>b. Outcome(c, n, immediate)
  BY <1>1, <1>a, ScheduleOutcome
<1> USE DEF IInv
<1>2. \/ /\ ~HasContext /\ status' = label /\ waiting' = c.waiting
         /\ reconnectTimer' = reconnectTimer /\ backoffStep' = backoffStep
      \/ /\ HasContext /\ n = "unusable" /\ status' = "Waiting" /\ waiting' = TRUE
         /\ reconnectTimer' \in {NoTimer, reconnectTimer}
         /\ backoffStep' = backoffStep
      \/ /\ HasContext /\ n # "unusable" /\ waiting' = FALSE /\ reconnectTimer' = 0
         /\ backoffStep' \in 0 .. LastStep
         /\ status' \in {"Reconnecting", label}
  BY <1>1, <1>b DEF Outcome
<1>3. state' = "Disconnected"
  BY <1>1, <1>b DEF Outcome
<1>4. notes' \in Seq(Note)
  BY DEF TypeOK
<1>5. TypeOK'
  <2>1. state' \in States /\ status' \in Statuses /\ waiting' \in BOOLEAN
    BY <1>1, <1>2, <1>3 DEF States, Statuses
  <2>2. reconnectTimer' \in NoTimer .. LastStep /\ backoffStep' \in 0 .. LastStep
    BY <1>2, BackoffAssumption DEF TypeOK
  <2>3. /\ sock' \in Sockets /\ peer' \in Peers /\ connectTimer' \in BOOLEAN
        /\ watchdog' \in {"off", "primed", "armed"}
        /\ network' \in {"unknown", "usable", "unusable"}
    BY DEF Sockets, Peers, DropTimers, Networks
  <2>4. /\ authKey' \in BOOLEAN /\ saved' \in BOOLEAN /\ monitoring' \in BOOLEAN
        /\ reported' \in {"none", "up", "down"} /\ link' \in BOOLEAN
        /\ calm' \in BOOLEAN /\ wanted' \in BOOLEAN /\ called' \in BOOLEAN
        /\ created' \in BOOLEAN /\ starts' \in Seq(BOOLEAN)
    BY DEF TypeOK, service, environment, history, CallNoted
  <2> QED BY <1>4, <2>1, <2>2, <2>3, <2>4 DEF TypeOK
<1>6. NoStaleIgnore' /\ SessionIsAnchored' /\ PendingOnlyWhenDown' /\ PeerFollowsState'
  BY <1>3 DEF NoStaleIgnore, SessionIsAnchored, PendingOnlyWhenDown, PeerFollowsState
<1>7. ReconnectsAreImmediate' /\ WaitsOnlyWithoutNetwork'
  BY <1>1, <1>2, <1>3 DEF ReconnectsAreImmediate, WaitsOnlyWithoutNetwork
<1>8. BackoffIsSpent'
  BY <1>2, <1>3 DEF BackoffIsSpent, TypeOK
<1>9. ProfileIsSaved'
  BY <1>2 DEF ProfileIsSaved, service, HasContext, LoadSavedProfile
<1> QED BY <1>5, <1>6, <1>7, <1>8, <1>9

\* A queued call that asks for a reconnect of a client that is down, or whose
\* socket is not open, and leaves the socket alone.
LEMMA CallKeepsIInv ==
  ASSUME IInv, NEW n \in Networks, NEW immediate \in BOOLEAN, immediate \/ n = network,
         NEW c, c.state = state, c.status = status, c.timer = reconnectTimer,
         c.step = backoffStep, c.context = HasContext,
         c.waiting \in {waiting, FALSE}, n = "usable" => c.waiting = FALSE \/ n = network,
         state = "Disconnected" \/ sock \in {"Unconnected", "Closing"},
         ScheduleReconnectAttempt(c, n, immediate), network' = n,
         notes # <<>>, notes' = Tail(notes),
         UNCHANGED <<sock, peer, ignoreError, ignoreDisconnect, connectTimer, watchdog,
                     authKey, service, environment>>, UNCHANGED history \/ CallNoted
  PROVE  IInv'
<1> USE DEF NoTimer, LastStep
<1>0. TypeOK /\ ReconnectsAreImmediate /\ BackoffIsSpent /\ WaitsOnlyWithoutNetwork
      /\ NoStaleIgnore /\ SessionIsAnchored /\ PendingOnlyWhenDown /\ PeerFollowsState
      /\ ProfileIsSaved
  BY DEF IInv
<1>1. HasContext
  BY <1>0 DEF ProfileIsSaved, HasContext, LoadSavedProfile
<1>2. Outcome(c, n, immediate)
  BY <1>0, ScheduleOutcome
<1>3. c.waiting => waiting /\ state = "Disconnected"
  BY <1>0 DEF WaitsOnlyWithoutNetwork, TypeOK
<1>4. state' = "Disconnected"
  BY <1>0, <1>1, <1>2, <1>3 DEF Outcome, PendingOnlyWhenDown
<1>5. \/ /\ n = "unusable" /\ status' = "Waiting" /\ waiting' = TRUE
         /\ reconnectTimer' \in {NoTimer, reconnectTimer}
         /\ backoffStep' = backoffStep
      \/ /\ n # "unusable" /\ waiting' = FALSE /\ reconnectTimer' = 0
         /\ backoffStep' \in 0 .. LastStep
         /\ status' = "Reconnecting" \/ (status' = status /\ ~immediate)
  BY <1>1, <1>2 DEF Outcome
<1>6. TypeOK'
  <2>1. state' \in States /\ status' \in Statuses /\ waiting' \in BOOLEAN
    BY <1>0, <1>4, <1>5 DEF States, Statuses, TypeOK
  <2>2. reconnectTimer' \in NoTimer .. LastStep /\ backoffStep' \in 0 .. LastStep
    BY <1>0, <1>5, BackoffAssumption DEF TypeOK
  <2>3. /\ sock' \in Sockets /\ peer' \in Peers /\ connectTimer' \in BOOLEAN
        /\ ignoreError' \in BOOLEAN /\ ignoreDisconnect' \in BOOLEAN
        /\ watchdog' \in {"off", "primed", "armed"}
        /\ network' \in {"unknown", "usable", "unusable"}
    BY <1>0 DEF TypeOK, Networks
  <2>4. /\ authKey' \in BOOLEAN /\ saved' \in BOOLEAN /\ monitoring' \in BOOLEAN
        /\ reported' \in {"none", "up", "down"} /\ link' \in BOOLEAN
        /\ calm' \in BOOLEAN /\ wanted' \in BOOLEAN /\ called' \in BOOLEAN
        /\ created' \in BOOLEAN /\ starts' \in Seq(BOOLEAN)
    BY <1>0 DEF TypeOK, service, environment, history, CallNoted
  <2>5. notes' \in Seq(Note)
    BY <1>0 DEF TypeOK
  <2> QED BY <2>1, <2>2, <2>3, <2>4, <2>5 DEF TypeOK
<1>7. NoStaleIgnore' /\ PendingOnlyWhenDown'
  BY <1>4 DEF NoStaleIgnore, PendingOnlyWhenDown
<1>8. SessionIsAnchored' /\ PeerFollowsState'
  BY <1>0, <1>4 DEF SessionIsAnchored, PeerFollowsState
<1>9. ReconnectsAreImmediate' /\ WaitsOnlyWithoutNetwork'
  BY <1>0, <1>4, <1>5 DEF ReconnectsAreImmediate, WaitsOnlyWithoutNetwork
<1>10. BackoffIsSpent' /\ ProfileIsSaved'
  BY <1>0, <1>1, <1>4, <1>5 DEF BackoffIsSpent, ProfileIsSaved, HasContext, LoadSavedProfile, TypeOK, service
<1> QED BY <1>6, <1>7, <1>8, <1>9, <1>10 DEF IInv

LEMMA MonitoringIsStopped ==
  ASSUME StopMonitoring, starts \in Seq(BOOLEAN)
  PROVE  /\ monitoring' = FALSE /\ starts' \in Seq(BOOLEAN)
         /\ starts' # <<>> => starts # <<>> \/ saved
<1>1. CASE created \/ ~saved
  BY <1>1 DEF StopMonitoring
<1>2. CASE ~(created \/ ~saved)
  <2>1. Append(starts, FALSE) \in Seq(BOOLEAN)
    OBVIOUS
  <2> QED BY <1>2, <2>1 DEF StopMonitoring
<1> QED BY <1>1, <1>2

LEMMA DisconnectKeepsIInv ==
  ASSUME IInv, DisconnectFromServer
  PROVE  IInv'
<1> USE BackoffAssumption DEF IInv, NoTimer, LastStep
<1>0. /\ state' = "Disconnected" /\ status' = "Disconnected" /\ StopMonitoring
      /\ reconnectTimer' = NoTimer /\ backoffStep' = 0 /\ waiting' = FALSE
      /\ connectTimer' = FALSE /\ watchdog' = "off" /\ authKey' = FALSE /\ wanted' = FALSE
      /\ called' = FALSE
      /\ UNCHANGED <<created, saved, reported, notes, network, link, calm>>
  BY DEF DisconnectFromServer, DropTimers, environment
<1>a. /\ monitoring' = FALSE /\ starts' \in Seq(BOOLEAN)
      /\ starts' # <<>> => starts # <<>> \/ saved
  BY <1>0, MonitoringIsStopped DEF TypeOK
<1>2. /\ sock' \in {"Unconnected", "Closing"}
      /\ ignoreError' \in BOOLEAN /\ ignoreDisconnect' \in BOOLEAN
      /\ peer' = "none"
  <2>1. CASE sock = "Unconnected"
    BY <2>1 DEF DisconnectFromServer, PeerFollowsState
  <2>2. CASE sock # "Unconnected" /\ state = "Connecting"
    BY <2>2 DEF DisconnectFromServer, AbortIgnoring
  <2>3. CASE ~(sock = "Unconnected") /\ ~(sock # "Unconnected" /\ state = "Connecting")
    <3>1. DisconnectFromHost
      BY <2>3 DEF DisconnectFromServer
    <3> QED BY <3>1 DEF DisconnectFromHost
  <2> QED BY <2>1, <2>2, <2>3
<1>1. TypeOK'
  <2>1. /\ state' \in States /\ status' \in Statuses /\ sock' \in Sockets
        /\ ignoreError' \in BOOLEAN /\ ignoreDisconnect' \in BOOLEAN
        /\ connectTimer' \in BOOLEAN /\ waiting' \in BOOLEAN
    BY <1>0, <1>2 DEF TypeOK, States, Statuses, Sockets
  <2>2. /\ reconnectTimer' \in NoTimer .. LastStep /\ backoffStep' \in 0 .. LastStep
        /\ watchdog' \in {"off", "primed", "armed"} /\ peer' \in Peers
        /\ network' \in {"unknown", "usable", "unusable"}
    BY <1>0, <1>2 DEF TypeOK, Peers
  <2>3. /\ authKey' \in BOOLEAN /\ saved' \in BOOLEAN /\ monitoring' \in BOOLEAN
        /\ notes' \in Seq(Note) /\ link' \in BOOLEAN
        /\ reported' \in {"none", "up", "down"} /\ calm' \in BOOLEAN
        /\ wanted' \in BOOLEAN /\ called' \in BOOLEAN
        /\ created' \in BOOLEAN /\ starts' \in Seq(BOOLEAN)
    BY <1>0, <1>a DEF TypeOK
  <2> QED BY <2>1, <2>2, <2>3 DEF TypeOK
<1>3. NoStaleIgnore' /\ ReconnectsAreImmediate' /\ WaitsOnlyWithoutNetwork' /\ BackoffIsSpent'
  BY <1>0 DEF NoStaleIgnore, ReconnectsAreImmediate, WaitsOnlyWithoutNetwork, BackoffIsSpent
<1>4. SessionIsAnchored' /\ PendingOnlyWhenDown' /\ PeerFollowsState' /\ ProfileIsSaved'
  BY <1>0, <1>a, <1>2 DEF SessionIsAnchored, PendingOnlyWhenDown, PeerFollowsState, ProfileIsSaved
<1> QED BY <1>1, <1>3, <1>4

LEMMA TcpConnectedKeepsIInv ==
  ASSUME IInv, OnTcpConnected
  PROVE  IInv'
<1> USE BackoffAssumption DEF IInv, NoTimer, LastStep, OnTcpConnected
<1>1. TypeOK'
  <2>1. /\ state' \in States /\ status' \in Statuses /\ sock' \in Sockets
        /\ ignoreError' \in BOOLEAN /\ ignoreDisconnect' \in BOOLEAN
        /\ connectTimer' \in BOOLEAN /\ waiting' \in BOOLEAN
    BY DEF TypeOK, States, Statuses, Sockets
  <2>2. /\ reconnectTimer' \in NoTimer .. LastStep /\ backoffStep' \in 0 .. LastStep
        /\ watchdog' \in {"off", "primed", "armed"} /\ peer' \in Peers
        /\ network' \in {"unknown", "usable", "unusable"}
    BY DEF TypeOK, Peers
  <2>3. /\ authKey' \in BOOLEAN /\ saved' \in BOOLEAN /\ monitoring' \in BOOLEAN
        /\ notes' \in Seq(Note) /\ link' \in BOOLEAN
        /\ reported' \in {"none", "up", "down"} /\ calm' \in BOOLEAN
        /\ wanted' \in BOOLEAN /\ called' \in BOOLEAN
        /\ created' \in BOOLEAN /\ starts' \in Seq(BOOLEAN)
    BY DEF TypeOK, service, environment, history
  <2> QED BY <2>1, <2>2, <2>3 DEF TypeOK
<1>2. NoStaleIgnore' /\ ReconnectsAreImmediate' /\ WaitsOnlyWithoutNetwork'
  BY DEF NoStaleIgnore, ReconnectsAreImmediate, WaitsOnlyWithoutNetwork, SessionIsAnchored
<1>3. SessionIsAnchored' /\ PendingOnlyWhenDown' /\ PeerFollowsState'
  BY DEF SessionIsAnchored, PendingOnlyWhenDown, PeerFollowsState
<1>4. ProfileIsSaved' /\ BackoffIsSpent'
  BY DEF ProfileIsSaved, BackoffIsSpent, SessionIsAnchored, service
<1> QED BY <1>1, <1>2, <1>3, <1>4

\* disconnected() of a socket that was open or closing.
LEMMA TcpDisconnectedKeepsIInv ==
  ASSUME IInv, OnTcpDisconnected, sock # "Connecting",
         sock' = "Unconnected", peer' = "none",
         UNCHANGED <<network, authKey, service, notes, environment, history>>
  PROVE  IInv'
<1> USE DEF IInv, NoTimer, LastStep
<1>1. CASE ignoreDisconnect
  <2> USE <1>1
  <2>0. /\ ignoreDisconnect' = FALSE /\ ignoreError' = FALSE /\ state = "Disconnected"
        /\ UNCHANGED <<state, status, connectTimer, reconnectTimer, backoffStep, waiting,
                       watchdog>>
    BY DEF OnTcpDisconnected, NoStaleIgnore
  <2>1. TypeOK'
    <3>1. /\ state' \in States /\ status' \in Statuses /\ sock' \in Sockets
          /\ ignoreError' \in BOOLEAN /\ ignoreDisconnect' \in BOOLEAN
          /\ connectTimer' \in BOOLEAN /\ waiting' \in BOOLEAN
      BY <2>0 DEF TypeOK, Sockets
    <3>2. /\ reconnectTimer' \in NoTimer .. LastStep /\ backoffStep' \in 0 .. LastStep
          /\ watchdog' \in {"off", "primed", "armed"} /\ peer' \in Peers
          /\ network' \in {"unknown", "usable", "unusable"}
      BY <2>0 DEF TypeOK, Peers
    <3>3. /\ authKey' \in BOOLEAN /\ saved' \in BOOLEAN /\ monitoring' \in BOOLEAN
          /\ notes' \in Seq(Note) /\ link' \in BOOLEAN
          /\ reported' \in {"none", "up", "down"} /\ calm' \in BOOLEAN
          /\ wanted' \in BOOLEAN /\ called' \in BOOLEAN
          /\ created' \in BOOLEAN /\ starts' \in Seq(BOOLEAN)
      BY DEF TypeOK, service, environment, history
    <3> QED BY <3>1, <3>2, <3>3 DEF TypeOK
  <2>2. NoStaleIgnore' /\ ReconnectsAreImmediate' /\ WaitsOnlyWithoutNetwork' /\ BackoffIsSpent'
    BY <2>0 DEF NoStaleIgnore, ReconnectsAreImmediate, WaitsOnlyWithoutNetwork, BackoffIsSpent
  <2>3. SessionIsAnchored' /\ PendingOnlyWhenDown' /\ PeerFollowsState' /\ ProfileIsSaved'
    BY <2>0 DEF SessionIsAnchored, PendingOnlyWhenDown, PeerFollowsState, ProfileIsSaved, service
  <2> QED BY <2>1, <2>2, <2>3
<1>2. CASE ~ignoreDisconnect
  <2> DEFINE c == Dropped("Disconnected")
  <2>1. /\ c.state = "Disconnected" /\ c.status = "Disconnected" /\ c.waiting = waiting
        /\ c.timer = reconnectTimer /\ c.step = backoffStep /\ c.context = HasContext
    BY DEF Dropped, Here
  <2>2. /\ ScheduleReconnectAttempt(c, network, FALSE) /\ DropTimers
        /\ ignoreError' = ignoreError /\ ignoreDisconnect' = FALSE
    BY <1>2 DEF OnTcpDisconnected
  <2>3. network \in Networks /\ (network = "usable" => waiting = FALSE)
    BY DEF Networks, TypeOK, WaitsOnlyWithoutNetwork
  <2>4. ignoreError' \in BOOLEAN
    BY <2>2 DEF TypeOK
  <2> HIDE DEF IInv, c
  <2> QED BY <2>1, <2>2, <2>3, <2>4, DropKeepsIInv DEF Statuses
<1> QED BY <1>1, <1>2

LEMMA RefusedKeepsIInv ==
  ASSUME IInv, ConnectionRefused
  PROVE  IInv'
<1> USE DEF IInv
<1> DEFINE c == Dropped("Lost")
<1>1. /\ c.state = "Disconnected" /\ c.status = "Lost" /\ c.waiting = waiting
      /\ c.timer = reconnectTimer /\ c.step = backoffStep /\ c.context = HasContext
  BY DEF Dropped, Here
<1>2. state = "Connecting" /\ ~ignoreError /\ peer = "none"
  BY DEF ConnectionRefused, SessionIsAnchored, NoStaleIgnore, PeerFollowsState
<1>3. /\ ScheduleReconnectAttempt(c, network, FALSE) /\ DropTimers
      /\ sock' = "Unconnected" /\ peer' = "none" /\ network' = network
      /\ ignoreError' = ignoreError /\ ignoreDisconnect' = TRUE
      /\ UNCHANGED <<authKey, service, notes, environment, history>>
  BY <1>2 DEF ConnectionRefused
<1>4. network \in Networks /\ (network = "usable" => waiting = FALSE)
      /\ ignoreError' \in BOOLEAN
  BY <1>3 DEF Networks, TypeOK, WaitsOnlyWithoutNetwork
<1> HIDE DEF IInv, c
<1> QED BY <1>1, <1>3, <1>4, DropKeepsIInv DEF Statuses

LEMMA SocketFailureKeepsIInv ==
  ASSUME IInv, EstablishedSocketFails, sock # "Connecting"
  PROVE  IInv'
<1>1. CASE state # "Disconnected" /\ ~ignoreError
  <2> USE DEF IInv
  <2> DEFINE c == Dropped("Lost")
  <2>1. /\ c.state = "Disconnected" /\ c.status = "Lost" /\ c.waiting = waiting
        /\ c.timer = reconnectTimer /\ c.step = backoffStep /\ c.context = HasContext
    BY DEF Dropped, Here
  <2>2. /\ ScheduleReconnectAttempt(c, network, FALSE) /\ DropTimers
        /\ sock' = "Unconnected" /\ peer' = "none" /\ network' = network
        /\ ignoreError' = FALSE /\ ignoreDisconnect' = FALSE
        /\ UNCHANGED <<authKey, service, notes, environment, history>>
    BY <1>1 DEF EstablishedSocketFails
  <2>3. network \in Networks /\ (network = "usable" => waiting = FALSE)
    BY DEF Networks, TypeOK, WaitsOnlyWithoutNetwork
  <2> HIDE DEF IInv, c
  <2> QED BY <2>1, <2>2, <2>3, DropKeepsIInv DEF Statuses
<1>2. CASE ~(state # "Disconnected" /\ ~ignoreError)
  BY <1>2, TcpDisconnectedKeepsIInv DEF EstablishedSocketFails
<1> QED BY <1>1, <1>2

LEMMA SocketKeepsIInv ==
  ASSUME IInv, Socket
  PROVE  IInv'
<1>1. CASE OnTcpConnected
  BY <1>1, TcpConnectedKeepsIInv
<1>2. CASE ConnectionRefused
  BY <1>2, RefusedKeepsIInv
<1>3. CASE ClosingFinished
  <2>1. peer' = "none" /\ sock # "Connecting"
    BY <1>3 DEF ClosingFinished, IInv, PeerFollowsState
  <2> QED BY <1>3, <2>1, TcpDisconnectedKeepsIInv DEF ClosingFinished
<1>4. CASE ConnectionLost
  BY <1>4, SocketFailureKeepsIInv DEF ConnectionLost
<1>5. CASE PeerCloses
  BY <1>5, SocketFailureKeepsIInv DEF PeerCloses
<1> QED BY <1>1, <1>2, <1>3, <1>4, <1>5 DEF Socket

LEMMA ConnectTimeoutKeepsIInv ==
  ASSUME IInv, OnConnectTimeout
  PROVE  IInv'
<1> USE DEF IInv, NoTimer, LastStep
<1>1. CASE state # "Disconnected"
  <2> DEFINE c == Dropped("Lost")
  <2>1. /\ c.state = "Disconnected" /\ c.status = "Lost" /\ c.waiting = waiting
        /\ c.timer = reconnectTimer /\ c.step = backoffStep /\ c.context = HasContext
    BY DEF Dropped, Here
  <2>2. /\ ScheduleReconnectAttempt(c, network, FALSE) /\ DropTimers
        /\ sock' = "Unconnected" /\ peer' = "none" /\ network' = network
        /\ ignoreError' \in BOOLEAN /\ ignoreDisconnect' \in BOOLEAN
        /\ UNCHANGED <<authKey, service, notes, environment, history>>
    <3>1. AbortIgnoring
      BY <1>1 DEF OnConnectTimeout
    <3>2. ignoreError' \in BOOLEAN /\ ignoreDisconnect' \in BOOLEAN
      BY <3>1 DEF AbortIgnoring
    <3>3. sock' = "Unconnected" /\ peer' = "none"
      BY <3>1 DEF AbortIgnoring
    <3> QED BY <1>1, <3>2, <3>3 DEF OnConnectTimeout
  <2>3. network \in Networks /\ (network = "usable" => waiting = FALSE)
    BY DEF Networks, TypeOK, WaitsOnlyWithoutNetwork
  <2> HIDE DEF IInv, c
  <2> QED BY <2>1, <2>2, <2>3, DropKeepsIInv DEF Statuses
<1>2. CASE state = "Disconnected"
  <2>0. /\ connectTimer' = FALSE
        /\ UNCHANGED <<state, status, sock, peer, ignoreError, watchdog, ignoreDisconnect,
                       reconnectTimer, backoffStep, waiting, network, authKey, service,
                       notes, environment, history>>
    BY <1>2 DEF OnConnectTimeout
  <2>1. TypeOK'
    <3>1. /\ state' \in States /\ status' \in Statuses /\ sock' \in Sockets
          /\ ignoreError' \in BOOLEAN /\ ignoreDisconnect' \in BOOLEAN
          /\ connectTimer' \in BOOLEAN /\ waiting' \in BOOLEAN
      BY <2>0 DEF TypeOK, States, Statuses, Sockets
    <3>2. /\ reconnectTimer' \in NoTimer .. LastStep /\ backoffStep' \in 0 .. LastStep
          /\ watchdog' \in {"off", "primed", "armed"} /\ peer' \in Peers
          /\ network' \in {"unknown", "usable", "unusable"}
      BY <2>0 DEF TypeOK, Peers
    <3>3. /\ authKey' \in BOOLEAN /\ saved' \in BOOLEAN /\ monitoring' \in BOOLEAN
          /\ notes' \in Seq(Note) /\ link' \in BOOLEAN
          /\ reported' \in {"none", "up", "down"} /\ calm' \in BOOLEAN
          /\ wanted' \in BOOLEAN /\ called' \in BOOLEAN
          /\ created' \in BOOLEAN /\ starts' \in Seq(BOOLEAN)
      BY <2>0 DEF TypeOK, service, environment, history
    <3> QED BY <3>1, <3>2, <3>3 DEF TypeOK
  <2>2. NoStaleIgnore' /\ ReconnectsAreImmediate' /\ WaitsOnlyWithoutNetwork' /\ BackoffIsSpent'
    BY <2>0 DEF NoStaleIgnore, ReconnectsAreImmediate, WaitsOnlyWithoutNetwork, BackoffIsSpent
  <2>3. SessionIsAnchored' /\ PendingOnlyWhenDown' /\ PeerFollowsState' /\ ProfileIsSaved'
    BY <1>2, <2>0 DEF SessionIsAnchored, PendingOnlyWhenDown, PeerFollowsState, ProfileIsSaved,
      service
  <2> QED BY <2>1, <2>2, <2>3
<1> QED BY <1>1, <1>2

LEMMA BackoffTimeoutKeepsIInv ==
  ASSUME IInv, OnReconnectBackoffTimeout
  PROVE  IInv'
<1> USE BackoffAssumption DEF NoTimer, LastStep
<1>0. reconnectTimer # NoTimer
  BY DEF OnReconnectBackoffTimeout
<1>1. HasContext /\ state = "Disconnected"
  BY <1>0 DEF IInv, ProfileIsSaved, HasContext, LoadSavedProfile, PendingOnlyWhenDown
<1>2. CASE NetworkValidated(network)
  <2>1. BeginConnection /\ UNCHANGED <<notes, environment, history>>
    BY <1>1, <1>2 DEF OnReconnectBackoffTimeout
  <2>2. wanted' \in BOOLEAN /\ called' \in BOOLEAN
    BY <2>1 DEF history, IInv, TypeOK
  <2> QED BY <1>1, <2>1, <2>2, ConnectKeepsIInv
<1>3. CASE ~NetworkValidated(network)
  <2> USE DEF IInv
  <2> DEFINE c == [Here EXCEPT !.timer = NoTimer]
  <2>1. c.state = state /\ c.status = status /\ c.waiting = waiting /\ c.timer = NoTimer
    BY DEF Here
  <2>2. /\ WaitForNetwork(c)
        /\ UNCHANGED <<sock, peer, ignoreError, ignoreDisconnect, service, connectTimer,
                       backoffStep, watchdog, network, authKey, notes, environment, history>>
    BY <1>1, <1>3 DEF OnReconnectBackoffTimeout
  <2>3. /\ state' = "Disconnected" /\ status' = "Waiting" /\ waiting' = TRUE
        /\ reconnectTimer' = NoTimer
    BY <1>1, <2>1, <2>2 DEF WaitForNetwork
  <2> HIDE DEF c
  <2>4. TypeOK'
    <3>1. /\ state' \in States /\ status' \in Statuses /\ sock' \in Sockets
          /\ ignoreError' \in BOOLEAN /\ ignoreDisconnect' \in BOOLEAN
          /\ connectTimer' \in BOOLEAN /\ waiting' \in BOOLEAN
      BY <2>2, <2>3 DEF TypeOK, States, Statuses, Sockets
    <3>2. /\ reconnectTimer' \in NoTimer .. LastStep /\ backoffStep' \in 0 .. LastStep
          /\ watchdog' \in {"off", "primed", "armed"} /\ peer' \in Peers
          /\ network' \in {"unknown", "usable", "unusable"}
      BY <2>2, <2>3 DEF TypeOK, Peers
    <3>3. /\ authKey' \in BOOLEAN /\ saved' \in BOOLEAN /\ monitoring' \in BOOLEAN
          /\ notes' \in Seq(Note) /\ link' \in BOOLEAN
          /\ reported' \in {"none", "up", "down"} /\ calm' \in BOOLEAN
          /\ wanted' \in BOOLEAN /\ called' \in BOOLEAN
          /\ created' \in BOOLEAN /\ starts' \in Seq(BOOLEAN)
      BY <2>2, <2>3 DEF TypeOK, service, environment, history
    <3> QED BY <3>1, <3>2, <3>3 DEF TypeOK
  <2>5. NoStaleIgnore' /\ ReconnectsAreImmediate' /\ WaitsOnlyWithoutNetwork' /\ BackoffIsSpent'
    BY <1>3, <2>2, <2>3 DEF NoStaleIgnore, ReconnectsAreImmediate, WaitsOnlyWithoutNetwork,
      BackoffIsSpent, NetworkValidated
  <2>6. SessionIsAnchored' /\ PendingOnlyWhenDown' /\ PeerFollowsState' /\ ProfileIsSaved'
    BY <1>1, <2>2, <2>3 DEF SessionIsAnchored, PendingOnlyWhenDown, PeerFollowsState,
      ProfileIsSaved, service
  <2> QED BY <2>4, <2>5, <2>6
<1> QED BY <1>2, <1>3

LEMMA AbortActiveFacts ==
  ASSUME AbortActive
  PROVE  /\ sock' = "Unconnected" /\ peer' = "none"
         /\ ignoreError' \in BOOLEAN /\ ignoreDisconnect' \in BOOLEAN
<1>1. ignoreError' \in BOOLEAN /\ ignoreDisconnect' \in BOOLEAN
  BY DEF AbortActive
<1> QED BY <1>1 DEF AbortActive

LEMMA LivenessTimeoutKeepsIInv ==
  ASSUME IInv, OnProtocolLivenessTimeout
  PROVE  IInv'
<1> USE DEF IInv, NoTimer, LastStep
<1>1. CASE state # "Disconnected"
  <2> DEFINE c == Dropped("Lost")
  <2>1. /\ c.state = "Disconnected" /\ c.status = "Lost" /\ c.waiting = waiting
        /\ c.timer = reconnectTimer /\ c.step = backoffStep /\ c.context = HasContext
    BY DEF Dropped, Here
  <2>2. /\ AbortActive /\ DropTimers /\ ScheduleReconnectAttempt(c, network, TRUE)
        /\ UNCHANGED <<network, authKey, service, notes, environment, history>>
    BY <1>1 DEF OnProtocolLivenessTimeout
  <2>3. network \in Networks /\ (network = "usable" => waiting = FALSE)
    BY DEF Networks, TypeOK, WaitsOnlyWithoutNetwork
  <2> HIDE DEF IInv, c
  <2> QED BY <2>1, <2>2, <2>3, AbortActiveFacts, DropKeepsIInv DEF Statuses
<1>2. CASE state = "Disconnected"
  <2>0. /\ watchdog' = "off"
        /\ UNCHANGED <<state, status, sock, peer, ignoreError, connectTimer, ignoreDisconnect,
                       reconnectTimer, backoffStep, waiting, network, authKey, service,
                       notes, environment, history>>
    BY <1>2 DEF OnProtocolLivenessTimeout
  <2>1. TypeOK'
    <3>1. /\ state' \in States /\ status' \in Statuses /\ sock' \in Sockets
          /\ ignoreError' \in BOOLEAN /\ ignoreDisconnect' \in BOOLEAN
          /\ connectTimer' \in BOOLEAN /\ waiting' \in BOOLEAN
      BY <2>0 DEF TypeOK, States, Statuses, Sockets
    <3>2. /\ reconnectTimer' \in NoTimer .. LastStep /\ backoffStep' \in 0 .. LastStep
          /\ watchdog' \in {"off", "primed", "armed"} /\ peer' \in Peers
          /\ network' \in {"unknown", "usable", "unusable"}
      BY <2>0 DEF TypeOK, Peers
    <3>3. /\ authKey' \in BOOLEAN /\ saved' \in BOOLEAN /\ monitoring' \in BOOLEAN
          /\ notes' \in Seq(Note) /\ link' \in BOOLEAN
          /\ reported' \in {"none", "up", "down"} /\ calm' \in BOOLEAN
          /\ wanted' \in BOOLEAN /\ called' \in BOOLEAN
          /\ created' \in BOOLEAN /\ starts' \in Seq(BOOLEAN)
      BY <2>0 DEF TypeOK, service, environment, history
    <3> QED BY <3>1, <3>2, <3>3 DEF TypeOK
  <2>2. NoStaleIgnore' /\ ReconnectsAreImmediate' /\ WaitsOnlyWithoutNetwork' /\ BackoffIsSpent'
    BY <2>0 DEF NoStaleIgnore, ReconnectsAreImmediate, WaitsOnlyWithoutNetwork, BackoffIsSpent
  <2>3. SessionIsAnchored' /\ PendingOnlyWhenDown' /\ PeerFollowsState' /\ ProfileIsSaved'
    BY <2>0 DEF SessionIsAnchored, PendingOnlyWhenDown, PeerFollowsState, ProfileIsSaved, service
  <2> QED BY <2>1, <2>2, <2>3
<1> QED BY <1>1, <1>2

LEMMA ServerInfoKeepsIInv ==
  ASSUME IInv, HandleServerInfo
  PROVE  IInv'
<1> USE BackoffAssumption DEF IInv, NoTimer, LastStep, HandleServerInfo
<1>0. state = "Authenticating"
  BY DEF PeerFollowsState
<1>1. TypeOK'
  <2>1. /\ state' \in States /\ status' \in Statuses /\ sock' \in Sockets
        /\ ignoreError' \in BOOLEAN /\ ignoreDisconnect' \in BOOLEAN
        /\ connectTimer' \in BOOLEAN /\ waiting' \in BOOLEAN
    BY DEF TypeOK, States, Statuses, Sockets
  <2>2. /\ reconnectTimer' \in NoTimer .. LastStep /\ backoffStep' \in 0 .. LastStep
        /\ watchdog' \in {"off", "primed", "armed"} /\ peer' \in Peers
        /\ network' \in {"unknown", "usable", "unusable"}
    BY DEF TypeOK, Peers
  <2>3. /\ authKey' \in BOOLEAN /\ saved' \in BOOLEAN /\ monitoring' \in BOOLEAN
        /\ notes' \in Seq(Note) /\ link' \in BOOLEAN
        /\ reported' \in {"none", "up", "down"} /\ calm' \in BOOLEAN
        /\ wanted' \in BOOLEAN /\ called' \in BOOLEAN
        /\ created' \in BOOLEAN /\ starts' \in Seq(BOOLEAN)
    BY DEF TypeOK, service, environment, history
  <2> QED BY <2>1, <2>2, <2>3 DEF TypeOK
<1>2. NoStaleIgnore' /\ ReconnectsAreImmediate' /\ WaitsOnlyWithoutNetwork' /\ BackoffIsSpent'
  BY <1>0 DEF NoStaleIgnore, ReconnectsAreImmediate, WaitsOnlyWithoutNetwork, BackoffIsSpent
<1>3. SessionIsAnchored' /\ PendingOnlyWhenDown' /\ PeerFollowsState' /\ ProfileIsSaved'
  BY <1>0 DEF SessionIsAnchored, PendingOnlyWhenDown, PeerFollowsState, ProfileIsSaved, service
<1> QED BY <1>1, <1>2, <1>3

LEMMA RefusalKeepsIInv ==
  ASSUME IInv, NEW denied \in BOOLEAN, RefusalFrame(denied)
  PROVE  IInv'
<1> USE BackoffAssumption DEF IInv, NoTimer, LastStep
<1>0. /\ sock = "Connected" /\ state # "Disconnected" /\ peer' = "refusing"
      /\ state' = "Disconnected" /\ status' = "Refused"
      /\ authKey' \in BOOLEAN /\ (authKey' => authKey)
      /\ UNCHANGED <<sock, ignoreError, ignoreDisconnect, connectTimer, network, watchdog,
                     reconnectTimer, backoffStep, waiting, service, notes, environment, history>>
  <2>1. /\ sock = "Connected" /\ state # "Disconnected" /\ peer' = "refusing"
        /\ state' = "Disconnected" /\ status' = "Refused"
        /\ UNCHANGED <<sock, ignoreError, ignoreDisconnect, connectTimer, network, watchdog,
                       reconnectTimer, backoffStep, waiting, service, notes, environment,
                       history>>
    BY DEF RefusalFrame, PeerFollowsState
  <2>2. authKey' = (authKey /\ ~denied)
    BY DEF RefusalFrame
  <2>3. authKey' \in BOOLEAN /\ (authKey' => authKey)
    BY <2>2
  <2> QED BY <2>1, <2>3
<1>1. TypeOK'
  <2>1. /\ state' \in States /\ status' \in Statuses /\ sock' \in Sockets
        /\ ignoreError' \in BOOLEAN /\ ignoreDisconnect' \in BOOLEAN
        /\ connectTimer' \in BOOLEAN /\ waiting' \in BOOLEAN
    BY <1>0 DEF TypeOK, States, Statuses, Sockets
  <2>2. /\ reconnectTimer' \in NoTimer .. LastStep /\ backoffStep' \in 0 .. LastStep
        /\ watchdog' \in {"off", "primed", "armed"} /\ peer' \in Peers
        /\ network' \in {"unknown", "usable", "unusable"}
    BY <1>0 DEF TypeOK, Peers
  <2>3. /\ authKey' \in BOOLEAN /\ saved' \in BOOLEAN /\ monitoring' \in BOOLEAN
        /\ notes' \in Seq(Note) /\ link' \in BOOLEAN
        /\ reported' \in {"none", "up", "down"} /\ calm' \in BOOLEAN
        /\ wanted' \in BOOLEAN /\ called' \in BOOLEAN
        /\ created' \in BOOLEAN /\ starts' \in Seq(BOOLEAN)
    BY <1>0 DEF TypeOK, service, environment, history
  <2> QED BY <2>1, <2>2, <2>3 DEF TypeOK
<1>2. NoStaleIgnore' /\ ReconnectsAreImmediate' /\ WaitsOnlyWithoutNetwork' /\ BackoffIsSpent'
  BY <1>0 DEF NoStaleIgnore, ReconnectsAreImmediate, WaitsOnlyWithoutNetwork, BackoffIsSpent
<1>3. SessionIsAnchored' /\ PendingOnlyWhenDown' /\ PeerFollowsState'
  BY <1>0 DEF SessionIsAnchored, PendingOnlyWhenDown, PeerFollowsState
<1>4. ProfileIsSaved'
  BY <1>0 DEF ProfileIsSaved, service
<1> QED BY <1>1, <1>2, <1>3, <1>4

LEMMA HeartbeatKeepsIInv ==
  ASSUME IInv, NoteInboundProtocolHeartbeat
  PROVE  IInv'
<1> USE BackoffAssumption DEF IInv, NoTimer, LastStep
<1>0. /\ watchdog' \in {"off", "primed", "armed"}
      /\ UNCHANGED <<state, status, ignoreError, ignoreDisconnect, connectTimer,
                     reconnectTimer, backoffStep, waiting, network, authKey, sock,
                     service, notes, peer, environment, history>>
  <2>1. \E measured \in BOOLEAN :
          watchdog' = CASE watchdog = "off" -> "primed"
                        [] watchdog = "primed" /\ measured -> "armed"
                        [] OTHER -> watchdog
    BY DEF NoteInboundProtocolHeartbeat
  <2>2. watchdog' \in {"off", "primed", "armed"}
    <3>1. PICK measured \in BOOLEAN :
            watchdog' = CASE watchdog = "off" -> "primed"
                          [] watchdog = "primed" /\ measured -> "armed"
                          [] OTHER -> watchdog
      BY <2>1
    <3> QED BY <3>1 DEF TypeOK
  <2> QED BY <2>2 DEF NoteInboundProtocolHeartbeat
<1>1. TypeOK'
  <2>1. /\ state' \in States /\ status' \in Statuses /\ sock' \in Sockets
        /\ ignoreError' \in BOOLEAN /\ ignoreDisconnect' \in BOOLEAN
        /\ connectTimer' \in BOOLEAN /\ waiting' \in BOOLEAN
    BY <1>0 DEF TypeOK, States, Statuses, Sockets
  <2>2. /\ reconnectTimer' \in NoTimer .. LastStep /\ backoffStep' \in 0 .. LastStep
        /\ watchdog' \in {"off", "primed", "armed"} /\ peer' \in Peers
        /\ network' \in {"unknown", "usable", "unusable"}
    BY <1>0 DEF TypeOK, Peers
  <2>3. /\ authKey' \in BOOLEAN /\ saved' \in BOOLEAN /\ monitoring' \in BOOLEAN
        /\ notes' \in Seq(Note) /\ link' \in BOOLEAN
        /\ reported' \in {"none", "up", "down"} /\ calm' \in BOOLEAN
        /\ wanted' \in BOOLEAN /\ called' \in BOOLEAN
        /\ created' \in BOOLEAN /\ starts' \in Seq(BOOLEAN)
    BY <1>0 DEF TypeOK, service, environment, history
  <2> QED BY <2>1, <2>2, <2>3 DEF TypeOK
<1>2. NoStaleIgnore' /\ ReconnectsAreImmediate' /\ WaitsOnlyWithoutNetwork' /\ BackoffIsSpent'
  BY <1>0 DEF NoStaleIgnore, ReconnectsAreImmediate, WaitsOnlyWithoutNetwork, BackoffIsSpent
<1>3. SessionIsAnchored' /\ PendingOnlyWhenDown' /\ PeerFollowsState' /\ ProfileIsSaved'
  BY <1>0 DEF SessionIsAnchored, PendingOnlyWhenDown, PeerFollowsState, ProfileIsSaved, service
<1> QED BY <1>1, <1>2, <1>3

LEMMA CheckKeepsIInv ==
  ASSUME IInv, notes # <<>>, notes' = Tail(notes), CheckAndReconnect,
         UNCHANGED <<service, environment>>, UNCHANGED history \/ CallNoted
  PROVE  IInv'
<1> USE DEF IInv, NoTimer, LastStep
<1>0. UNCHANGED <<sock, peer, ignoreError, ignoreDisconnect, connectTimer, watchdog, network,
                  authKey, service, environment>>
  BY DEF CheckAndReconnect
<1>1. CASE sock \in {"Unconnected", "Closing"} \/ state = "Disconnected"
  <2> DEFINE c == Here
  <2>1. c.state = state /\ c.status = status /\ c.waiting = waiting /\ c.timer = reconnectTimer
        /\ c.step = backoffStep /\ c.context = HasContext
    BY DEF Here
  <2>2. ScheduleReconnectAttempt(c, network, FALSE) /\ network \in Networks
    BY <1>1 DEF CheckAndReconnect, Networks, TypeOK
  <2> HIDE DEF IInv, c
  <2> QED BY <1>0, <1>1, <2>1, <2>2, CallKeepsIInv
<1>2. CASE ~(sock \in {"Unconnected", "Closing"} \/ state = "Disconnected")
  <2>0. UNCHANGED <<state, status, waiting, reconnectTimer, backoffStep>>
    BY <1>2 DEF CheckAndReconnect
  <2>1. TypeOK'
    <3>1. /\ state' \in States /\ status' \in Statuses /\ sock' \in Sockets
          /\ ignoreError' \in BOOLEAN /\ ignoreDisconnect' \in BOOLEAN
          /\ connectTimer' \in BOOLEAN /\ waiting' \in BOOLEAN
      BY <1>0, <2>0 DEF TypeOK, States, Statuses, Sockets
    <3>2. /\ reconnectTimer' \in NoTimer .. LastStep /\ backoffStep' \in 0 .. LastStep
          /\ watchdog' \in {"off", "primed", "armed"} /\ peer' \in Peers
          /\ network' \in {"unknown", "usable", "unusable"}
      BY <1>0, <2>0 DEF TypeOK, Peers
    <3>3. /\ authKey' \in BOOLEAN /\ saved' \in BOOLEAN /\ monitoring' \in BOOLEAN
          /\ notes' \in Seq(Note) /\ link' \in BOOLEAN
          /\ reported' \in {"none", "up", "down"} /\ calm' \in BOOLEAN
          /\ wanted' \in BOOLEAN /\ called' \in BOOLEAN
          /\ created' \in BOOLEAN /\ starts' \in Seq(BOOLEAN)
      BY <1>0, <2>0 DEF TypeOK, service, environment, history, CallNoted
    <3> QED BY <3>1, <3>2, <3>3 DEF TypeOK
  <2>2. NoStaleIgnore' /\ ReconnectsAreImmediate' /\ WaitsOnlyWithoutNetwork' /\ BackoffIsSpent'
    BY <1>0, <2>0 DEF NoStaleIgnore, ReconnectsAreImmediate, WaitsOnlyWithoutNetwork, BackoffIsSpent
  <2>3. SessionIsAnchored' /\ PendingOnlyWhenDown' /\ PeerFollowsState' /\ ProfileIsSaved'
    BY <1>0, <2>0 DEF SessionIsAnchored, PendingOnlyWhenDown, PeerFollowsState, ProfileIsSaved, service
  <2> QED BY <2>1, <2>2, <2>3
<1> QED BY <1>1, <1>2

LEMMA NetworkLostKeepsIInv ==
  ASSUME IInv, notes # <<>>, notes' = Tail(notes), NetworkLost, network' = "unusable",
         UNCHANGED <<authKey, service, environment>>, UNCHANGED history \/ CallNoted
  PROVE  IInv'
<1> USE DEF IInv, NoTimer, LastStep
<1>1. /\ state' = "Disconnected" /\ status' = "Waiting" /\ waiting' \in BOOLEAN
      /\ reconnectTimer' \in {NoTimer, reconnectTimer} /\ backoffStep' = backoffStep
      /\ peer' \in {"none", peer} /\ sock' \in {"Unconnected", sock}
      /\ ignoreError' \in BOOLEAN /\ ignoreDisconnect' \in BOOLEAN
      /\ connectTimer' \in BOOLEAN /\ watchdog' \in {"off", watchdog}
  <2>1. CASE sock # "Unconnected" \/ Live
    <3>1. AbortActive /\ DropTimers /\ Keep(Dropped("Waiting"))
          /\ UNCHANGED <<waiting, backoffStep>>
      BY <2>1 DEF NetworkLost
    <3>2. state' = "Disconnected" /\ status' = "Waiting" /\ reconnectTimer' = reconnectTimer
      BY <3>1 DEF Keep, Dropped, Here
    <3> QED BY <3>1, <3>2, AbortActiveFacts DEF DropTimers, TypeOK
  <2>2. CASE ~(sock # "Unconnected" \/ Live)
    <3>1. /\ WaitForNetwork(Here)
          /\ UNCHANGED <<sock, peer, ignoreError, ignoreDisconnect, connectTimer, watchdog,
                         backoffStep>>
      BY <2>2 DEF NetworkLost
    <3>2. /\ state' = "Disconnected" /\ status' = "Waiting" /\ waiting' = TRUE
          /\ reconnectTimer' \in {NoTimer, reconnectTimer}
      BY <2>2, <3>1 DEF WaitForNetwork, Here, Live
    <3> QED BY <3>1, <3>2 DEF TypeOK
  <2> QED BY <2>1, <2>2
<1>2. sock' = "Connecting" => state = "Connecting" /\ sock # "Unconnected"
  BY <1>1 DEF SessionIsAnchored
<1>3. sock' = "Unconnected" /\ peer' = "none"
  <2>1. CASE sock # "Unconnected" \/ Live
    BY <2>1 DEF NetworkLost, AbortActive
  <2>2. CASE ~(sock # "Unconnected" \/ Live)
    BY <2>2 DEF NetworkLost, PeerFollowsState
  <2> QED BY <2>1, <2>2
<1>4. TypeOK'
  <2>1. /\ state' \in States /\ status' \in Statuses /\ sock' \in Sockets
        /\ ignoreError' \in BOOLEAN /\ ignoreDisconnect' \in BOOLEAN
        /\ connectTimer' \in BOOLEAN /\ waiting' \in BOOLEAN
    BY <1>1, BackoffAssumption DEF TypeOK, States, Statuses, Sockets
  <2>2. /\ reconnectTimer' \in NoTimer .. LastStep /\ backoffStep' \in 0 .. LastStep
        /\ watchdog' \in {"off", "primed", "armed"} /\ peer' \in Peers
        /\ network' \in {"unknown", "usable", "unusable"}
    BY <1>1, BackoffAssumption DEF TypeOK, Peers
  <2>3. /\ authKey' \in BOOLEAN /\ saved' \in BOOLEAN /\ monitoring' \in BOOLEAN
        /\ notes' \in Seq(Note) /\ link' \in BOOLEAN
        /\ reported' \in {"none", "up", "down"} /\ calm' \in BOOLEAN
        /\ wanted' \in BOOLEAN /\ called' \in BOOLEAN
        /\ created' \in BOOLEAN /\ starts' \in Seq(BOOLEAN)
    BY <1>1, BackoffAssumption DEF TypeOK, service, environment, history, CallNoted
  <2> QED BY <2>1, <2>2, <2>3 DEF TypeOK
<1>5. NoStaleIgnore' /\ ReconnectsAreImmediate' /\ WaitsOnlyWithoutNetwork' /\ BackoffIsSpent'
  BY <1>1 DEF NoStaleIgnore, ReconnectsAreImmediate, WaitsOnlyWithoutNetwork, BackoffIsSpent
<1>6. SessionIsAnchored' /\ PendingOnlyWhenDown' /\ PeerFollowsState'
  BY <1>1, <1>3 DEF SessionIsAnchored, PendingOnlyWhenDown, PeerFollowsState
<1>7. ProfileIsSaved'
  BY DEF ProfileIsSaved, service
<1> QED BY <1>4, <1>5, <1>6, <1>7

LEMMA NetworkAvailableKeepsIInv ==
  ASSUME IInv, notes # <<>>, notes' = Tail(notes), NEW routeChanged \in BOOLEAN,
         NetworkAvailable(routeChanged), network' = "usable",
         UNCHANGED <<authKey, service, environment>>, UNCHANGED history \/ CallNoted
  PROVE  IInv'
<1> USE DEF IInv, NoTimer, LastStep
<1>0. HasContext
  BY DEF ProfileIsSaved, HasContext, LoadSavedProfile
<1>1. CASE routeChanged /\ network # "unknown" /\ Live
  <2> DEFINE c == [Dropped("Lost") EXCEPT !.waiting = FALSE]
  <2>1. /\ c.state = "Disconnected" /\ c.status = "Lost" /\ c.waiting = FALSE
        /\ c.timer = reconnectTimer /\ c.step = backoffStep /\ c.context = HasContext
    BY DEF Dropped, Here
  <2>2. AbortActive /\ DropTimers /\ ScheduleReconnectAttempt(c, "usable", TRUE)
    BY <1>1 DEF NetworkAvailable
  <2> HIDE DEF IInv, c
  <2> QED BY <1>0, <2>1, <2>2, AbortActiveFacts, DropKeepsIInv DEF Statuses, Networks
<1>2. CASE ~(routeChanged /\ network # "unknown" /\ Live)
  <2> DEFINE c == [Here EXCEPT !.waiting = FALSE]
  <2>1. c.state = state /\ c.status = status /\ c.waiting = FALSE /\ c.timer = reconnectTimer
        /\ c.step = backoffStep /\ c.context = HasContext
    BY DEF Here
  <2>2. /\ UNCHANGED <<sock, peer, ignoreError, ignoreDisconnect, connectTimer, watchdog>>
        /\ IF ShouldReconnect
           THEN ScheduleReconnectAttempt(c, "usable", TRUE)
           ELSE Keep(c) /\ waiting' = FALSE /\ UNCHANGED backoffStep
    BY <1>2 DEF NetworkAvailable
  <2>3. CASE ShouldReconnect
    <3>1. state = "Disconnected"
      BY <2>3 DEF ShouldReconnect, WaitsOnlyWithoutNetwork
    <3> HIDE DEF IInv, c
    <3> QED BY <2>1, <2>2, <2>3, <3>1, CallKeepsIInv DEF Networks
  <2>4. CASE ~ShouldReconnect
    <3>0. /\ state # "Disconnected"
          /\ UNCHANGED <<state, status, reconnectTimer, backoffStep>> /\ waiting' = FALSE
      BY <2>1, <2>2, <2>4 DEF ShouldReconnect, Keep
    <3> HIDE DEF c
    <3>1. TypeOK'
      <4>1. /\ state' \in States /\ status' \in Statuses /\ sock' \in Sockets
            /\ ignoreError' \in BOOLEAN /\ ignoreDisconnect' \in BOOLEAN
            /\ connectTimer' \in BOOLEAN /\ waiting' \in BOOLEAN
        BY <2>2, <3>0 DEF TypeOK, States, Statuses, Sockets
      <4>2. /\ reconnectTimer' \in NoTimer .. LastStep /\ backoffStep' \in 0 .. LastStep
            /\ watchdog' \in {"off", "primed", "armed"} /\ peer' \in Peers
            /\ network' \in {"unknown", "usable", "unusable"}
        BY <2>2, <3>0 DEF TypeOK, Peers
      <4>3. /\ authKey' \in BOOLEAN /\ saved' \in BOOLEAN /\ monitoring' \in BOOLEAN
            /\ notes' \in Seq(Note) /\ link' \in BOOLEAN
            /\ reported' \in {"none", "up", "down"} /\ calm' \in BOOLEAN
            /\ wanted' \in BOOLEAN /\ called' \in BOOLEAN
            /\ created' \in BOOLEAN /\ starts' \in Seq(BOOLEAN)
        BY <2>2, <3>0 DEF TypeOK, service, environment, history, CallNoted
      <4> QED BY <4>1, <4>2, <4>3 DEF TypeOK
    <3>2. NoStaleIgnore' /\ ReconnectsAreImmediate' /\ WaitsOnlyWithoutNetwork' /\ BackoffIsSpent'
      BY <2>2, <3>0 DEF NoStaleIgnore, ReconnectsAreImmediate, WaitsOnlyWithoutNetwork, BackoffIsSpent
    <3>3. SessionIsAnchored' /\ PendingOnlyWhenDown' /\ PeerFollowsState' /\ ProfileIsSaved'
      BY <2>2, <3>0 DEF SessionIsAnchored, PendingOnlyWhenDown, PeerFollowsState, ProfileIsSaved, service
    <3> QED BY <3>1, <3>2, <3>3
  <2> QED BY <2>3, <2>4
<1> QED BY <1>1, <1>2

LEMMA NoteKeepsIInv ==
  ASSUME IInv, HandleNote
  PROVE  IInv'
<1>1. notes # <<>> /\ notes' = Tail(notes) /\ UNCHANGED <<service, environment>> /\ CallNoted
  <2>1. called' = (called \/ ~wanted) /\ wanted' = wanted
    BY DEF HandleNote
  <2>2. CallNoted
    BY <2>1 DEF CallNoted
  <2> QED BY <2>2 DEF HandleNote
<1>2. CASE CheckAndReconnect
  BY <1>1, <1>2, CheckKeepsIInv
<1>3. CASE HandleAndroidNetworkStateChanged
  <2>1. notes \in Seq(Note) /\ Head(notes) \in Note
    BY <1>1 DEF IInv, TypeOK
  <2>2. Head(notes).snapshot.restart \in BOOLEAN
    BY <1>3, <2>1 DEF HandleAndroidNetworkStateChanged, Note, Snapshot
  <2>3. UNCHANGED authKey
    BY <1>3 DEF HandleAndroidNetworkStateChanged
  <2>4. CASE Head(notes).snapshot.usable
    BY <1>1, <1>3, <2>2, <2>3, <2>4, NetworkAvailableKeepsIInv
      DEF HandleAndroidNetworkStateChanged
  <2>5. CASE ~Head(notes).snapshot.usable
    BY <1>1, <1>3, <2>3, <2>5, NetworkLostKeepsIInv DEF HandleAndroidNetworkStateChanged
  <2> QED BY <2>4, <2>5
<1> QED BY <1>2, <1>3 DEF HandleNote

\* Steps of the service, the network and the server leave the client alone.
LEMMA QuietKeepsIInv ==
  ASSUME IInv, UNCHANGED <<client, sock, saved, history>>,
         created' \in BOOLEAN, starts' \in Seq(BOOLEAN), monitoring' \in BOOLEAN,
         notes' \in Seq(Note),
         starts' # <<>> \/ monitoring' \/ notes' # <<>> =>
           starts # <<>> \/ monitoring \/ notes # <<>>,
         reported' \in {"none", "up", "down"}, link' \in BOOLEAN, calm' \in BOOLEAN,
         peer' \in {peer, "silent"}, peer' # "none" => peer # "none"
  PROVE  IInv'
<1> USE DEF IInv, NoTimer, LastStep, client
<1>1. TypeOK'
  <2>1. /\ state' \in States /\ status' \in Statuses /\ sock' \in Sockets
        /\ ignoreError' \in BOOLEAN /\ ignoreDisconnect' \in BOOLEAN
        /\ connectTimer' \in BOOLEAN /\ waiting' \in BOOLEAN
    BY DEF TypeOK, States, Statuses, Sockets
  <2>2. /\ reconnectTimer' \in NoTimer .. LastStep /\ backoffStep' \in 0 .. LastStep
        /\ watchdog' \in {"off", "primed", "armed"} /\ peer' \in Peers
        /\ network' \in {"unknown", "usable", "unusable"}
    BY DEF TypeOK, Peers
  <2>3. /\ authKey' \in BOOLEAN /\ saved' \in BOOLEAN /\ monitoring' \in BOOLEAN
        /\ notes' \in Seq(Note) /\ link' \in BOOLEAN
        /\ reported' \in {"none", "up", "down"} /\ calm' \in BOOLEAN
        /\ wanted' \in BOOLEAN /\ called' \in BOOLEAN
        /\ created' \in BOOLEAN /\ starts' \in Seq(BOOLEAN)
    BY DEF TypeOK, service, environment, history
  <2> QED BY <2>1, <2>2, <2>3 DEF TypeOK
<1>2. NoStaleIgnore' /\ ReconnectsAreImmediate' /\ WaitsOnlyWithoutNetwork' /\ BackoffIsSpent'
  BY DEF NoStaleIgnore, ReconnectsAreImmediate, WaitsOnlyWithoutNetwork, BackoffIsSpent
<1>3. SessionIsAnchored' /\ PendingOnlyWhenDown' /\ PeerFollowsState' /\ ProfileIsSaved'
  BY DEF SessionIsAnchored, PendingOnlyWhenDown, PeerFollowsState, ProfileIsSaved
<1> QED BY <1>1, <1>2, <1>3

LEMMA WorldKeepsIInv ==
  ASSUME IInv, Service \/ World
  PROVE  IInv'
<1>0. TypeOK
  BY DEF IInv
<1>1. CASE KeepAliveTick
  <2>1. notes' \in Seq(Note)
    BY <1>0, <1>1 DEF KeepAliveTick, TypeOK, Note
  <2> QED BY <1>0, <1>1, <2>1, QuietKeepsIInv
    DEF KeepAliveTick, TypeOK, service, environment
<1>2. ASSUME NEW restart \in BOOLEAN, PostSnapshot(restart)
      PROVE  IInv'
  <2>1. notes' \in Seq(Note)
    BY <1>0, <1>2 DEF PostSnapshot, TypeOK, Note, Snapshot
  <2>2. reported' \in {"none", "up", "down"}
    BY <1>2 DEF PostSnapshot
  <2> QED BY <1>0, <1>2, <2>1, <2>2, QuietKeepsIInv DEF PostSnapshot, TypeOK, environment
<1>6. CASE OnCreate
  BY <1>0, <1>6, QuietKeepsIInv DEF OnCreate, TypeOK, environment
<1>7. CASE OnStartCommand
  <2>1. Head(starts) \in BOOLEAN /\ Tail(starts) \in Seq(BOOLEAN)
    BY <1>0, <1>7 DEF OnStartCommand, TypeOK
  <2> QED BY <1>0, <1>7, <2>1, QuietKeepsIInv DEF OnStartCommand, TypeOK, environment
<1>3. CASE ReportLink
  <2>1. PICK restart \in BOOLEAN : PostSnapshot(restart)
    BY <1>3 DEF ReportLink
  <2> QED BY <2>1, <1>2
<1>4. CASE ReportHandover
  BY <1>2, <1>4 DEF ReportHandover
<1>5. CASE World
  <2>1. /\ UNCHANGED <<client, sock, service, notes, history>>
        /\ link' \in BOOLEAN /\ calm' \in BOOLEAN /\ peer' \in {peer, "silent"}
        /\ peer' # "none" => peer # "none"
    BY <1>0, <1>5 DEF World, LinkDown, LinkUp, GoSilent, BecomeCalm, environment, TypeOK
  <2> QED BY <1>0, <2>1, QuietKeepsIInv DEF TypeOK, service
<1> QED BY <1>1, <1>3, <1>4, <1>5, <1>6, <1>7 DEF Service

LEMMA StepKeepsIInv ==
  ASSUME IInv, [Next]_vars
  PROVE  IInv'
<1>1. CASE ConnectToServer
  BY <1>1, ConnectKeepsIInv DEF ConnectToServer
<1>2. CASE DisconnectFromServer
  BY <1>2, DisconnectKeepsIInv
<1>3. CASE Socket
  BY <1>3, SocketKeepsIInv
<1>4. CASE Timers
  BY <1>4, ConnectTimeoutKeepsIInv, BackoffTimeoutKeepsIInv, LivenessTimeoutKeepsIInv DEF Timers
<1>5. CASE Frames
  BY <1>5, ServerInfoKeepsIInv, RefusalKeepsIInv, HeartbeatKeepsIInv DEF Frames
<1>6. CASE HandleNote
  BY <1>6, NoteKeepsIInv
<1>7. CASE Service \/ World
  BY <1>7, WorldKeepsIInv
<1>8. CASE UNCHANGED vars
  <2>1. UNCHANGED <<client, sock, saved, history>>
        /\ UNCHANGED <<created, starts, monitoring, notes, reported, link, calm, peer>>
    BY <1>8 DEF vars, service, environment
  <2>2. TypeOK
    BY DEF IInv
  <2> QED BY <2>1, <2>2, QuietKeepsIInv DEF TypeOK
<1> QED BY <1>1, <1>2, <1>3, <1>4, <1>5, <1>6, <1>7, <1>8 DEF Next, User

LEMMA InitIInv == Init => IInv
<1> SUFFICES ASSUME Init PROVE IInv
  OBVIOUS
<1> USE BackoffAssumption DEF Init, NoTimer, LastStep
<1>1. TypeOK
  <2>1. /\ state \in States /\ status \in Statuses /\ sock \in Sockets
        /\ ignoreError \in BOOLEAN /\ ignoreDisconnect \in BOOLEAN
        /\ connectTimer \in BOOLEAN /\ waiting \in BOOLEAN
    BY DEF States, Statuses, Sockets
  <2>2. /\ reconnectTimer \in NoTimer .. LastStep /\ backoffStep \in 0 .. LastStep
        /\ watchdog \in {"off", "primed", "armed"} /\ peer \in Peers
        /\ network \in {"unknown", "usable", "unusable"}
    BY DEF Peers
  <2>3. notes \in Seq(Note)
    OBVIOUS
  <2>4. /\ authKey \in BOOLEAN /\ saved \in BOOLEAN /\ monitoring \in BOOLEAN
        /\ link \in BOOLEAN /\ reported \in {"none", "up", "down"} /\ calm \in BOOLEAN
        /\ wanted \in BOOLEAN /\ called \in BOOLEAN
        /\ created \in BOOLEAN /\ starts \in Seq(BOOLEAN)
    <3>1. <<FALSE>> \in Seq(BOOLEAN) /\ <<>> \in Seq(BOOLEAN)
      OBVIOUS
    <3>2. starts = <<FALSE>> \/ starts = <<>>
      OBVIOUS
    <3>3. starts \in Seq(BOOLEAN)
      BY ONLY <3>1, <3>2
    <3> QED BY <3>3
  <2> QED BY <2>1, <2>2, <2>3, <2>4 DEF TypeOK
<1>2. NoStaleIgnore /\ SessionIsAnchored /\ PendingOnlyWhenDown /\ ReconnectsAreImmediate
  BY DEF NoStaleIgnore, SessionIsAnchored, PendingOnlyWhenDown, ReconnectsAreImmediate
<1>3. WaitsOnlyWithoutNetwork /\ PeerFollowsState /\ ProfileIsSaved /\ BackoffIsSpent
  BY DEF WaitsOnlyWithoutNetwork, PeerFollowsState, ProfileIsSaved, BackoffIsSpent
<1> QED BY <1>1, <1>2, <1>3 DEF IInv

-----------------------------------------------------------------------------
(* The theorems. *)

\* Every reachable state of the session, whatever the backoff table's length
\* and however many snapshots are queued, satisfies the inductive invariant.
THEOREM Invariance == Spec => []IInv
  BY InitIInv, StepKeepsIInv, PTL DEF Spec

\* The members and the queue hold values of their types: in particular the
\* backoff index never leaves its table (scheduleReconnectAttempt reads it).
THEOREM TypeCorrect == Spec => []TypeOK
  BY Invariance, PTL DEF IInv

\* No ignore flag is up while a session is set up or used.
THEOREM FlagsAreSafe == Spec => []NoStaleIgnore
  BY Invariance, PTL DEF IInv

\* An attempt has its timer and an authenticated session its open socket.
THEOREM Anchored == Spec => []SessionIsAnchored
  BY Invariance, PTL DEF IInv

\* A pending reconnect never coexists with a session.
THEOREM NoReconnectOfLiveSession == Spec => []PendingOnlyWhenDown
  BY Invariance, PTL DEF IInv

\* The backoff table is never used past its first entry, however long it is.
THEOREM BackoffIsUnused == Spec => []ReconnectsAreImmediate
  BY Invariance, PTL DEF IInv

\* The client waits only for a network it was told is unusable.
THEOREM WaitingIsJustified == Spec => []WaitsOnlyWithoutNetwork
  BY Invariance, PTL DEF IInv

-----------------------------------------------------------------------------
(* A client that is kept is not forgotten, one that is not stays quiet. *)

\* A client that was dropped hears of the end of the socket it has left.
ClosingIsHeard ==
  wanted /\ state = "Disconnected" /\ sock # "Unconnected" => ~ignoreDisconnect

\* A client the service will not keep has no session, and ignores the end of the
\* last socket.
UndueIsDown ==
  ~Due => /\ state = "Disconnected"
          /\ sock # "Unconnected" => sock = "Closing" /\ ignoreDisconnect

Watched == NotForgotten /\ ClosingIsHeard /\ UndueIsDown

\* The last of the requests, when one is added or the first is taken.
LEMMA LastOfAppend ==
  ASSUME NEW S, NEW s \in Seq(S), NEW x \in S
  PROVE  Append(s, x) # <<>> /\ Append(s, x)[Len(Append(s, x))] = x
  BY AppendProperties

LEMMA TailShifts ==
  ASSUME NEW S, NEW s \in Seq(S), s # <<>>
  PROVE  /\ Head(s) = s[1] /\ 1 \in DOMAIN s
         /\ \A i \in DOMAIN Tail(s) : i + 1 \in DOMAIN s /\ Tail(s)[i] = s[i + 1]
         /\ Tail(s) = <<>> => s[Len(s)] = Head(s)
         /\ Tail(s) # <<>> => Tail(s)[Len(Tail(s))] = s[Len(s)]
<1>1. Len(s) \in Nat \ {0} /\ DOMAIN s = 1 .. Len(s)
  BY EmptySeq, LenProperties
<1>2. Len(Tail(s)) = Len(s) - 1 /\ DOMAIN Tail(s) = 1 .. Len(s) - 1 /\ Tail(s) \in Seq(S)
  BY HeadTailProperties, LenProperties
<1>3. Head(s) = s[1]
  OBVIOUS
<1>4. \A i \in 1 .. Len(s) - 1 : Tail(s)[i] = s[i + 1]
  BY <1>2, HeadTailProperties
<1>5. \A i \in DOMAIN Tail(s) : i + 1 \in DOMAIN s /\ Tail(s)[i] = s[i + 1]
  BY <1>1, <1>2, <1>4
<1>6. ASSUME Tail(s) = <<>> PROVE s[Len(s)] = Head(s)
  <2>1. Len(Tail(s)) = 0
    BY <1>6, EmptySeq
  <2>2. Len(s) = 1
    <3>1. Len(s) \in Nat /\ Len(s) - 1 = 0
      BY ONLY <1>1, <1>2, <2>1
    <3> QED BY ONLY <3>1
  <2> QED BY <1>3, <2>2
<1>7. ASSUME Tail(s) # <<>> PROVE Tail(s)[Len(Tail(s))] = s[Len(s)]
  <2>1. Len(Tail(s)) \in Nat \ {0}
    BY <1>2, <1>7, EmptySeq
  <2>2. Len(s) - 1 \in 1 .. Len(s) - 1 /\ (Len(s) - 1) + 1 = Len(s)
    BY <1>1, <1>2, <2>1
  <2> QED BY <1>2, <1>4, <2>2
<1> QED BY <1>1, <1>3, <1>5, <1>6, <1>7

\* The service's care is that of its requests and its flag.
LEMMA DueIsKept ==
  ASSUME UNCHANGED service
  PROVE  Due' = Due
  BY DEF service, Due

LEMMA DueHasContext ==
  ASSUME IInv, Due
  PROVE  HasContext
<1>1. monitoring \/ starts # <<>>
  BY DEF Due
<1> QED BY <1>1 DEF IInv, ProfileIsSaved, HasContext, LoadSavedProfile

LEMMA StartIsDue ==
  ASSUME IInv, StartService
  PROVE  Due' = TRUE /\ starts' # <<>> /\ UNCHANGED monitoring
<1>1. starts \in Seq(BOOLEAN) /\ starts' = Append(starts, TRUE) /\ UNCHANGED monitoring
  BY DEF IInv, TypeOK, StartService
<1>2. /\ Append(starts, TRUE) # <<>>
      /\ Append(starts, TRUE)[Len(Append(starts, TRUE))] = TRUE
  BY <1>1, LastOfAppend
<1>3. starts' # <<>> /\ starts'[Len(starts')] = TRUE
  BY <1>1, <1>2
<1> QED BY <1>1, <1>3 DEF Due

\* Handling a request brings the service nearer to what is due, and changes it not.
LEMMA HandlingKeepsDue ==
  ASSUME IInv, OnStartCommand
  PROVE  /\ Due' = Due
         /\ starts' = <<>> => monitoring' = Due
<1>1. /\ starts \in Seq(BOOLEAN) /\ starts # <<>>
      /\ monitoring' = Head(starts) /\ starts' = Tail(starts)
  BY DEF IInv, TypeOK, OnStartCommand
<1>2. CASE Tail(starts) = <<>>
  <2>1. starts[Len(starts)] = Head(starts)
    BY <1>1, <1>2, TailShifts
  <2> QED BY <1>1, <1>2, <2>1 DEF Due
<1>3. CASE Tail(starts) # <<>>
  <2>1. Tail(starts)[Len(Tail(starts))] = starts[Len(starts)]
    BY <1>1, <1>3, TailShifts
  <2> QED BY <1>1, <1>3, <2>1 DEF Due
<1> QED BY <1>2, <1>3

\* A reconnect asked for a client that is down and wanted: it comes, or its network
\* is awaited.
LEMMA ScheduleReminds ==
  ASSUME IInv, Watched,
         NEW n \in Networks, NEW immediate \in BOOLEAN, immediate \/ n = network,
         NEW c, c.timer = reconnectTimer, c.state = "Disconnected",
         c.step = backoffStep, c.context = HasContext,
         ScheduleReconnectAttempt(c, n, immediate), network' = n
  PROVE  /\ state' = "Disconnected"
         /\ wanted => reconnectTimer' # NoTimer \/ network' = "unusable"
<1>1. Outcome(c, n, immediate)
  BY ScheduleOutcome DEF IInv
<1>2. wanted => HasContext
  BY DueHasContext DEF Watched, NotForgotten
<1> QED BY <1>1, <1>2 DEF Outcome, NoTimer

\* A step that ends the client's use of its socket and asks for a reconnect.
LEMMA DropIsWatched ==
  ASSUME Watched, sock' = "Unconnected", state' = "Disconnected",
         wanted' = wanted, Due' = Due,
         wanted => reconnectTimer' # NoTimer \/ network' = "unusable"
  PROVE  Watched'
  BY DEF Watched, NotForgotten, ClosingIsHeard, UndueIsDown

\* A step that leaves the client as it is and forgets no call.
LEMMA CalmIsWatched ==
  ASSUME Watched, notes # <<>> => notes' # <<>>, Due' = Due,
         UNCHANGED <<state, sock, ignoreDisconnect, wanted, reconnectTimer, network>>
  PROVE  Watched'
  BY DEF Watched, NotForgotten, ClosingIsHeard, UndueIsDown

\* A step within a session, which is kept or will be.
LEMMA SessionIsWatched ==
  ASSUME Watched, state' # "Disconnected", Due'
  PROVE  Watched'
  BY DEF Watched, NotForgotten, ClosingIsHeard, UndueIsDown

LEMMA DroppedIsDown ==
  ASSUME NEW label
  PROVE  /\ Dropped(label).state = "Disconnected"
         /\ Dropped(label).timer = reconnectTimer
         /\ Dropped(label).step = backoffStep /\ Dropped(label).context = HasContext
  BY DEF Dropped, Here

LEMMA NetworkIsKnown == IInv => network \in Networks
  BY DEF IInv, TypeOK, Networks

\* The end of a socket that the client has given up or not.
LEMMA SocketEndIsWatched ==
  ASSUME IInv, Watched, sock # "Unconnected", sock' = "Unconnected",
         UNCHANGED <<network, service, history>>,
         \/ OnTcpDisconnected
         \/ ScheduleReconnectAttempt(Dropped("Lost"), network, FALSE)
  PROVE  Watched'
<1>1. ASSUME NEW label, ScheduleReconnectAttempt(Dropped(label), network, FALSE)
      PROVE  Watched'
  <2>1. network' = network
    OBVIOUS
  <2>2. /\ state' = "Disconnected"
        /\ wanted => reconnectTimer' # NoTimer \/ network' = "unusable"
    BY <1>1, <2>1, DroppedIsDown, NetworkIsKnown, ScheduleReminds
  <2> QED BY <2>2, DueIsKept, DropIsWatched DEF history
<1>2. CASE OnTcpDisconnected /\ ~ignoreDisconnect
  BY <1>1, <1>2 DEF OnTcpDisconnected
<1>3. CASE OnTcpDisconnected /\ ignoreDisconnect
  <2>1. state = "Disconnected" /\ state' = "Disconnected"
    BY <1>3 DEF OnTcpDisconnected, IInv, NoStaleIgnore
  <2>2. ~wanted
    BY <1>3, <2>1 DEF Watched, ClosingIsHeard
  <2> QED BY <2>1, <2>2, DueIsKept, DropIsWatched DEF history
<1> QED BY <1>1, <1>2, <1>3

LEMMA ConnectIsWatched ==
  ASSUME IInv, Watched, BeginConnection
  PROVE  Watched'
<1>1. Due' = TRUE /\ network' = network
  BY StartIsDue DEF BeginConnection
<1>2. CASE OpenSocket
  BY <1>1, <1>2, SessionIsWatched DEF OpenSocket
<1>3. CASE SocketIsBusy
  <2>1. BusyOutcome
    BY <1>3, BusySocketOutcome
  <2>2. sock' = "Unconnected" /\ (reconnectTimer' # NoTimer \/ network' = "unusable")
    BY <1>1, <2>1 DEF BusyOutcome, NoTimer
  <2>3. NotForgotten'
    BY <1>1, <2>2 DEF NotForgotten
  <2>4. ClosingIsHeard' /\ UndueIsDown'
    BY <1>1, <2>2 DEF ClosingIsHeard, UndueIsDown
  <2> QED BY <2>3, <2>4 DEF Watched
<1> QED BY <1>2, <1>3 DEF BeginConnection

LEMMA UserIsWatched ==
  ASSUME IInv, Watched, User
  PROVE  Watched'
<1>1. CASE ConnectToServer
  BY <1>1, ConnectIsWatched DEF ConnectToServer
<1>2. CASE DisconnectFromServer
  <2>1. ~wanted' /\ state' = "Disconnected"
    BY <1>2 DEF DisconnectFromServer
  <2>2. sock' # "Unconnected" => sock' = "Closing" /\ ignoreDisconnect'
    BY <1>2 DEF DisconnectFromServer, AbortIgnoring, DisconnectFromHost
  <2> QED BY <2>1, <2>2 DEF Watched, NotForgotten, ClosingIsHeard, UndueIsDown
<1> QED BY <1>1, <1>2 DEF User

LEMMA SocketIsWatched ==
  ASSUME IInv, Watched, Socket
  PROVE  Watched'
<1>1. CASE OnTcpConnected
  <2>1. Due
    BY <1>1 DEF OnTcpConnected, Watched, UndueIsDown
  <2>2. Due' = Due /\ state' # "Disconnected"
    BY <1>1, DueIsKept DEF OnTcpConnected
  <2> QED BY <2>1, <2>2, SessionIsWatched
<1>2. CASE ConnectionRefused
  <2>1. state = "Connecting" /\ ~ignoreError
    BY <1>2 DEF ConnectionRefused, IInv, SessionIsAnchored, NoStaleIgnore
  <2> QED BY <1>2, <2>1, SocketEndIsWatched DEF ConnectionRefused
<1>3. CASE ClosingFinished
  BY <1>3, SocketEndIsWatched DEF ClosingFinished
<1>4. CASE ConnectionLost
  BY <1>4, SocketEndIsWatched DEF ConnectionLost, EstablishedSocketFails
<1>5. CASE PeerCloses
  BY <1>5, SocketEndIsWatched DEF PeerCloses, EstablishedSocketFails
<1> QED BY <1>1, <1>2, <1>3, <1>4, <1>5 DEF Socket

LEMMA TimersAreWatched ==
  ASSUME IInv, Watched, Timers
  PROVE  Watched'
<1>0. /\ Dropped("Lost").state = "Disconnected" /\ Dropped("Lost").timer = reconnectTimer
      /\ Dropped("Lost").step = backoffStep /\ Dropped("Lost").context = HasContext
  BY DroppedIsDown
<1>1. CASE OnConnectTimeout
  <2>1. UNCHANGED <<network, wanted, notes>> /\ Due' = Due
    BY <1>1, DueIsKept DEF OnConnectTimeout, history
  <2>2. CASE state = "Disconnected"
    BY <1>1, <2>1, <2>2, CalmIsWatched DEF OnConnectTimeout
  <2>3. CASE state # "Disconnected"
    <3>1. sock' = "Unconnected" /\ ScheduleReconnectAttempt(Dropped("Lost"), network, FALSE)
      BY <1>1, <2>3 DEF OnConnectTimeout, AbortIgnoring
    <3>2. /\ state' = "Disconnected"
          /\ wanted => reconnectTimer' # NoTimer \/ network' = "unusable"
      BY <1>0, <2>1, <3>1, NetworkIsKnown, ScheduleReminds
    <3> QED BY <2>1, <3>1, <3>2, DropIsWatched
  <2> QED BY <2>2, <2>3
<1>2. CASE OnReconnectBackoffTimeout
  <2>1. state = "Disconnected"
    BY <1>2 DEF OnReconnectBackoffTimeout, IInv, PendingOnlyWhenDown
  <2>2. CASE BeginConnection
    BY <2>2, ConnectIsWatched
  <2>3. CASE ~BeginConnection
    <3>1. UNCHANGED <<sock, ignoreDisconnect, network, wanted>> /\ Due' = Due
      BY <1>2, <2>3, DueIsKept DEF OnReconnectBackoffTimeout, history
    <3>2. state' = "Disconnected"
      BY <1>2, <2>1, <2>3 DEF OnReconnectBackoffTimeout, WaitForNetwork, Here
    <3>3. wanted => network = "unusable"
      <4>1. wanted => HasContext
        BY DueHasContext DEF Watched, NotForgotten
      <4> QED BY <1>2, <2>1, <2>3, <4>1 DEF OnReconnectBackoffTimeout, NetworkValidated
    <3> QED BY <2>1, <3>1, <3>2, <3>3
        DEF Watched, NotForgotten, ClosingIsHeard, UndueIsDown
  <2> QED BY <2>2, <2>3
<1>3. CASE OnProtocolLivenessTimeout
  <2>1. UNCHANGED <<network, wanted, notes>> /\ Due' = Due
    BY <1>3, DueIsKept DEF OnProtocolLivenessTimeout, history
  <2>2. CASE state = "Disconnected"
    BY <1>3, <2>1, <2>2, CalmIsWatched DEF OnProtocolLivenessTimeout
  <2>3. CASE state # "Disconnected"
    <3>1. sock' = "Unconnected" /\ ScheduleReconnectAttempt(Dropped("Lost"), network, TRUE)
      BY <1>3, <2>3 DEF OnProtocolLivenessTimeout, AbortActive
    <3>2. /\ state' = "Disconnected"
          /\ wanted => reconnectTimer' # NoTimer \/ network' = "unusable"
      BY <1>0, <2>1, <3>1, NetworkIsKnown, ScheduleReminds
    <3> QED BY <2>1, <3>1, <3>2, DropIsWatched
  <2> QED BY <2>2, <2>3
<1> QED BY <1>1, <1>2, <1>3 DEF Timers

LEMMA FramesAreWatched ==
  ASSUME IInv, Watched, Frames
  PROVE  Watched'
<1>1. sock = "Connected" => Due
  BY DEF Watched, UndueIsDown
<1>2. CASE HandleServerInfo
  <2>1. Due' = Due /\ state' # "Disconnected"
    BY <1>2, DueIsKept DEF HandleServerInfo
  <2> QED BY <1>1, <1>2, <2>1, SessionIsWatched DEF HandleServerInfo
<1>3. ASSUME NEW denied \in BOOLEAN, RefusalFrame(denied)
      PROVE  Watched'
  <2>1. Due' = Due /\ sock = "Connected" /\ sock' = "Connected"
        /\ ignoreDisconnect' = ignoreDisconnect
    BY <1>3, DueIsKept DEF RefusalFrame
  <2>2. ~ignoreDisconnect
    BY <1>3 DEF RefusalFrame, IInv, PeerFollowsState, NoStaleIgnore
  <2> QED BY <1>1, <2>1, <2>2 DEF Watched, NotForgotten, ClosingIsHeard, UndueIsDown
<1>4. CASE NoteInboundProtocolHeartbeat
  BY <1>4, DueIsKept, CalmIsWatched DEF NoteInboundProtocolHeartbeat, history
<1> QED BY <1>2, <1>3, <1>4 DEF Frames

\* A call of the service, where the client's socket stays as it is: a wanted client
\* that is down afterwards has a reconnect coming or waits.
LEMMA CallIsWatched ==
  ASSUME IInv, Watched, UNCHANGED <<sock, ignoreDisconnect, wanted>>, Due' = Due,
         state' \in {state, "Disconnected"},
         wanted /\ state' = "Disconnected" =>
           reconnectTimer' # NoTimer \/ network' = "unusable"
  PROVE  Watched'
<1>1. NotForgotten'
  BY DEF Watched, NotForgotten
<1>2. ClosingIsHeard'
  BY DEF Watched, ClosingIsHeard, IInv, NoStaleIgnore
<1>3. UndueIsDown'
  BY DEF Watched, UndueIsDown
<1> QED BY <1>1, <1>2, <1>3 DEF Watched

LEMMA NotesAreWatched ==
  ASSUME IInv, Watched, HandleNote
  PROVE  Watched'
<1>0. wanted' = wanted /\ Due' = Due /\ network \in Networks
  BY NetworkIsKnown, DueIsKept DEF HandleNote
<1>1. CASE CheckAndReconnect
  <2>1. UNCHANGED <<sock, ignoreDisconnect, network>>
    BY <1>1 DEF CheckAndReconnect
  <2>2. CASE state = "Disconnected"
    <3>1. ScheduleReconnectAttempt(Here, network, FALSE)
      BY <1>1, <2>2 DEF CheckAndReconnect
    <3>2. Here.state = "Disconnected" /\ Here.timer = reconnectTimer
          /\ Here.step = backoffStep /\ Here.context = HasContext
      BY <2>2 DEF Here
    <3> QED BY <1>0, <2>1, <3>1, <3>2, ScheduleReminds, CallIsWatched
  <2>3. CASE state # "Disconnected" /\ UNCHANGED state
    BY <1>0, <2>1, <2>3, CallIsWatched
  <2>4. CASE state # "Disconnected" /\ ScheduleReconnectAttempt(Here, network, FALSE)
    <3>1. Here.state = state /\ Here.timer = reconnectTimer /\ Here.waiting = waiting
          /\ Here.step = backoffStep /\ Here.context = HasContext
      BY DEF Here
    <3>2. Outcome(Here, network, FALSE)
      BY <1>0, <2>4, <3>1, ScheduleOutcome DEF IInv
    <3>3. wanted => HasContext
      BY DueHasContext DEF Watched, NotForgotten
    <3>4. /\ state' \in {state, "Disconnected"}
          /\ wanted => network = "unusable" \/ reconnectTimer' = 0
      BY <3>1, <3>2, <3>3 DEF Outcome
    <3> QED BY <1>0, <2>1, <3>4, CallIsWatched DEF NoTimer
  <2> QED BY <1>1, <2>2, <2>3, <2>4 DEF CheckAndReconnect
<1>2. CASE NetworkLost /\ network' = "unusable"
  <2>1. CASE sock # "Unconnected" \/ Live
    <3>1. sock' = "Unconnected" /\ state' = "Disconnected"
      BY <1>2, <2>1 DEF NetworkLost, AbortActive, Keep, Dropped, Here
    <3> QED BY <1>0, <1>2, <3>1, DropIsWatched
  <2>2. CASE ~(sock # "Unconnected" \/ Live)
    <3>1. UNCHANGED <<sock, ignoreDisconnect>> /\ state' \in {state, "Disconnected"}
      BY <1>2, <2>2 DEF NetworkLost, WaitForNetwork, Here
    <3> QED BY <1>0, <1>2, <3>1, CallIsWatched
  <2> QED BY <2>1, <2>2
<1>3. ASSUME NEW restart \in BOOLEAN, NetworkAvailable(restart), network' = "usable"
      PROVE  Watched'
  <2>0. "usable" \in Networks
    BY DEF Networks
  <2>1. CASE restart /\ network # "unknown" /\ Live
    <3> DEFINE c == [Dropped("Lost") EXCEPT !.waiting = FALSE]
    <3>1. /\ c.state = "Disconnected" /\ c.timer = reconnectTimer
          /\ c.step = backoffStep /\ c.context = HasContext
      BY DEF Dropped, Here
    <3>2. sock' = "Unconnected" /\ ScheduleReconnectAttempt(c, "usable", TRUE)
      BY <1>3, <2>1 DEF NetworkAvailable, AbortActive
    <3> HIDE DEF c
    <3>3. /\ state' = "Disconnected"
          /\ wanted => reconnectTimer' # NoTimer \/ network' = "unusable"
      BY <1>3, <2>0, <3>1, <3>2, ScheduleReminds
    <3> QED BY <1>0, <3>2, <3>3, DropIsWatched
  <2>2. CASE ~(restart /\ network # "unknown" /\ Live)
    <3> DEFINE c == [Here EXCEPT !.waiting = FALSE]
    <3>1. /\ c.state = state /\ c.timer = reconnectTimer
          /\ c.step = backoffStep /\ c.context = HasContext
      BY DEF Here
    <3>2. /\ UNCHANGED <<sock, ignoreDisconnect>>
          /\ IF ShouldReconnect THEN ScheduleReconnectAttempt(c, "usable", TRUE) ELSE Keep(c)
      BY <1>3, <2>2 DEF NetworkAvailable
    <3> HIDE DEF c
    <3>3. CASE ShouldReconnect
      <4>1. state = "Disconnected"
        BY <3>3 DEF ShouldReconnect, IInv, WaitsOnlyWithoutNetwork
      <4>2. /\ state' = "Disconnected"
            /\ wanted => reconnectTimer' # NoTimer \/ network' = "unusable"
        BY <1>3, <2>0, <3>1, <3>2, <3>3, <4>1, ScheduleReminds
      <4> QED BY <1>0, <3>2, <4>2, CallIsWatched
    <3>4. CASE ~ShouldReconnect
      <4>1. state # "Disconnected" /\ state' = state
        BY <3>1, <3>2, <3>4 DEF ShouldReconnect, Keep
      <4> QED BY <1>0, <3>2, <4>1, CallIsWatched
    <3> QED BY <3>3, <3>4
  <2> QED BY <2>1, <2>2
<1>4. CASE HandleAndroidNetworkStateChanged
  <2>1. CASE Head(notes).snapshot.usable
    <3>1. notes # <<>> /\ notes \in Seq(Note)
      BY DEF HandleNote, IInv, TypeOK
    <3>2. Head(notes).snapshot.restart \in BOOLEAN
      <4>1. Head(notes) \in Note
        BY <3>1
      <4> QED BY <1>4, <4>1 DEF HandleAndroidNetworkStateChanged, Note, Snapshot
    <3> QED BY <1>3, <1>4, <2>1, <3>2 DEF HandleAndroidNetworkStateChanged
  <2>2. CASE ~Head(notes).snapshot.usable
    BY <1>2, <1>4, <2>2 DEF HandleAndroidNetworkStateChanged
  <2> QED BY <2>1, <2>2
<1> QED BY <1>1, <1>4 DEF HandleNote

LEMMA StepIsWatched ==
  ASSUME IInv, Watched, [Next]_vars
  PROVE  Watched'
<1>1. CASE User \/ Socket \/ Timers \/ Frames \/ HandleNote
  BY <1>1, UserIsWatched, SocketIsWatched, TimersAreWatched, FramesAreWatched, NotesAreWatched
<1>2. CASE KeepAliveTick \/ ReportLink \/ ReportHandover
  <2>1. ASSUME NEW note, notes' = Append(notes, note),
               UNCHANGED <<client, sock, wanted>>, Due' = Due
        PROVE  Watched'
    <3>1. notes' # <<>>
      BY <2>1 DEF IInv, TypeOK
    <3> QED BY <2>1, <3>1, CalmIsWatched DEF client
  <2>2. UNCHANGED <<client, sock, wanted>> /\ Due' = Due
    BY <1>2 DEF KeepAliveTick, ReportLink, ReportHandover, PostSnapshot, service, history, Due
  <2>3. \E note : notes' = Append(notes, note)
    BY <1>2 DEF KeepAliveTick, ReportLink, ReportHandover, PostSnapshot
  <2> QED BY <2>1, <2>2, <2>3
<1>3. CASE OnCreate
  <2>1. Due' = Due
    BY <1>3 DEF OnCreate, Due
  <2> QED BY <1>3, <2>1, CalmIsWatched DEF OnCreate, client, history
<1>4. CASE OnStartCommand
  BY <1>4, HandlingKeepsDue, CalmIsWatched DEF OnStartCommand, client, history
<1>5. CASE World
  <2>1. UNCHANGED <<client, sock, service, notes, history>>
    BY <1>5 DEF World, LinkDown, LinkUp, GoSilent, BecomeCalm
  <2> QED BY <2>1, DueIsKept, CalmIsWatched DEF client, history
<1>6. CASE UNCHANGED vars
  <2>1. UNCHANGED <<client, sock, service, notes, history>>
    BY <1>6 DEF vars
  <2> QED BY <2>1, DueIsKept, CalmIsWatched DEF client, history
<1> QED BY <1>1, <1>2, <1>3, <1>4, <1>5, <1>6 DEF Next, Service

LEMMA InitIsWatched == Init => Watched
  BY DEF Init, Watched, NotForgotten, ClosingIsHeard, UndueIsDown

\* The client and the service watch over the session in every reachable state: a
\* dropped client hears its socket's end, and one that is not to be kept is down.
THEOREM Watchfulness == Spec => []Watched
  BY Invariance, InitIsWatched, StepIsWatched, PTL DEF Spec

\* A client whose user wants to be connected is kept or about to be, and has a
\* reason to come back other than the keep-alive check, whatever the order of
\* losses, reports, requests and the main thread's handling of them.
THEOREM NoClientForgotten == Spec => []NotForgotten
  BY Watchfulness, PTL DEF Watched

\* A client the user has disconnected, whose last socket may still have to close.
Left ==
  /\ state = "Disconnected" /\ reconnectTimer = NoTimer
  /\ sock # "Unconnected" => sock = "Closing" /\ ignoreDisconnect

\* Nothing but the user and the service's calls acts on such a client: the end of
\* its socket is ignored and no timer is left that reconnects.
LEMMA LeftStaysLeft ==
  ASSUME Left, [Next]_vars, ~ConnectToServer, ~HandleNote
  PROVE  /\ Left' /\ UNCHANGED history
         /\ Service \/ UNCHANGED <<service, notes>>
<1>0. /\ state = "Disconnected" /\ reconnectTimer = NoTimer
      /\ sock # "Unconnected" => sock = "Closing" /\ ignoreDisconnect
  BY DEF Left
<1>1. ASSUME UNCHANGED <<state, reconnectTimer, sock, ignoreDisconnect>>
      PROVE  Left'
  BY <1>0, <1>1 DEF Left
<1>2. CASE User
  BY <1>0, <1>2 DEF User, DisconnectFromServer
<1>3. CASE Socket
  <2>1. sock = "Closing" /\ ignoreDisconnect
    BY <1>0, <1>3
    DEF Socket, OnTcpConnected, ConnectionRefused, ClosingFinished, ConnectionLost, PeerCloses
  <2>2. OnTcpDisconnected /\ sock' = "Unconnected" /\ UNCHANGED <<service, notes, history>>
    BY <1>0, <1>3, <2>1
    DEF Socket, OnTcpConnected, ConnectionRefused, ClosingFinished, ConnectionLost, PeerCloses,
        EstablishedSocketFails
  <2> QED BY <1>0, <2>1, <2>2 DEF OnTcpDisconnected, Left
<1>4. CASE Timers
  BY <1>0, <1>1, <1>4
  DEF Timers, OnConnectTimeout, OnReconnectBackoffTimeout, OnProtocolLivenessTimeout
<1>5. CASE Frames
  BY <1>0, <1>5
  DEF Frames, HandleServerInfo, RefusalFrame, NoteInboundProtocolHeartbeat
<1>6. CASE Service
  <2>1. UNCHANGED <<client, sock, history>>
    BY <1>6 DEF Service, OnCreate, OnStartCommand, KeepAliveTick, ReportLink, ReportHandover,
      PostSnapshot
  <2> QED BY <1>1, <1>6, <2>1 DEF client
<1>7. CASE World
  <2>1. UNCHANGED <<client, sock, service, notes, history>>
    BY <1>7 DEF World, LinkDown, LinkUp, GoSilent, BecomeCalm
  <2> QED BY <1>1, <2>1 DEF client
<1>8. CASE UNCHANGED vars
  <2>1. UNCHANGED <<client, sock, service, notes, history>>
    BY <1>8 DEF vars
  <2> QED BY <1>1, <2>1 DEF client
<1> QED BY <1>2, <1>3, <1>4, <1>5, <1>6, <1>7, <1>8 DEF Next

\* No call of the service came since the user's disconnect.
UntilCalled == ~wanted /\ ~called => Left

LEMMA StepUntilCalled ==
  ASSUME UntilCalled, [Next]_vars
  PROVE  UntilCalled'
<1>1. CASE ConnectToServer
  BY <1>1 DEF ConnectToServer, UntilCalled
<1>2. CASE DisconnectFromServer
  <2>1. sock' # "Unconnected" => sock' = "Closing" /\ ignoreDisconnect'
    BY <1>2 DEF DisconnectFromServer, AbortIgnoring, DisconnectFromHost
  <2> QED BY <1>2, <2>1 DEF DisconnectFromServer, UntilCalled, Left
<1>3. CASE HandleNote
  <2>1. called' = (called \/ ~wanted) /\ wanted' = wanted
    BY <1>3 DEF HandleNote
  <2>2. wanted' \/ called'
    BY <2>1
  <2> QED BY <2>2 DEF UntilCalled
<1>4. CASE ~ConnectToServer /\ ~DisconnectFromServer /\ ~HandleNote
  <2>1. UNCHANGED history
    BY <1>4
    DEF Next, User, Socket, OnTcpConnected, ConnectionRefused, ClosingFinished, ConnectionLost,
        PeerCloses, EstablishedSocketFails, Timers, OnConnectTimeout,
        OnReconnectBackoffTimeout, OnProtocolLivenessTimeout, Frames, HandleServerInfo,
        RefusalFrame, NoteInboundProtocolHeartbeat, Service, OnCreate, OnStartCommand,
        KeepAliveTick, ReportLink, ReportHandover, PostSnapshot, World, LinkDown, LinkUp,
        GoSilent, BecomeCalm, vars
  <2> QED BY <1>4, <2>1, LeftStaysLeft DEF UntilCalled, history
<1> QED BY <1>1, <1>2, <1>3, <1>4

LEMMA RestingIsLeft ==
  ASSUME IInv, Watched, Resting
  PROVE  Left /\ notes = <<>> /\ ~wanted
<1>1. starts # <<>> => ~starts[Len(starts)]
  <2>1. starts \in Seq(BOOLEAN) /\ \A i \in DOMAIN starts : ~starts[i]
    BY DEF IInv, TypeOK, Resting
  <2> QED BY <2>1
<1>2. ~Due
  BY <1>1 DEF Due, Resting
<1> QED BY <1>2 DEF Watched, UndueIsDown, Resting, Left

LEMMA RestingStays ==
  ASSUME IInv, Watched, Resting, [Next]_vars
  PROVE  Resting' \/ wanted'
<1>1. CASE ConnectToServer
  BY <1>1 DEF ConnectToServer
<1>2. CASE ~ConnectToServer
  <2>0. ~HandleNote
    BY DEF HandleNote, Resting
  <2>1. Left' /\ ~wanted' /\ (Service \/ UNCHANGED <<service, notes>>)
    BY <1>2, <2>0, RestingIsLeft, LeftStaysLeft DEF history
  <2>2. ASSUME ~monitoring', \A i \in DOMAIN starts' : ~starts'[i], notes' = <<>>
        PROVE  Resting'
    BY <2>1, <2>2 DEF Resting, Left
  <2>3. CASE UNCHANGED <<service, notes>>
    BY <2>2, <2>3 DEF Resting, service
  <2>4. CASE OnCreate
    BY <2>2, <2>4 DEF OnCreate, Resting
  <2>5. CASE OnStartCommand
    <3>1. /\ starts \in Seq(BOOLEAN) /\ starts # <<>> /\ \A i \in DOMAIN starts : ~starts[i]
          /\ notes' = <<>>
          /\ monitoring' = Head(starts) /\ starts' = Tail(starts)
      BY <2>5 DEF OnStartCommand, IInv, TypeOK, Resting
    <3>2. ~Head(starts) /\ \A i \in DOMAIN Tail(starts) : ~Tail(starts)[i]
      <4>1. /\ Head(starts) = starts[1] /\ 1 \in DOMAIN starts
            /\ \A i \in DOMAIN Tail(starts) :
                 i + 1 \in DOMAIN starts /\ Tail(starts)[i] = starts[i + 1]
        BY <3>1, TailShifts
      <4> QED BY <3>1, <4>1
    <3> QED BY <2>2, <3>1, <3>2
  <2>6. CASE KeepAliveTick \/ ReportLink \/ ReportHandover
    BY <2>6 DEF KeepAliveTick, ReportLink, ReportHandover, PostSnapshot, Resting
  <2> QED BY <2>1, <2>3, <2>4, <2>5, <2>6 DEF Service
<1> QED BY <1>1, <1>2

\* After the user's disconnect only the user's connect or a call of the service
\* brings the session back, and with no request to monitor under way no such call
\* follows.
THEOREM QuietIsKept == Spec => StaysQuiet
<1>1. Init => UntilCalled
  BY DEF Init, UntilCalled, Left
<1>2. UntilCalled /\ [Next]_vars => UntilCalled'
  BY StepUntilCalled
<1>3. UntilCalled' => Quiet'
  BY DEF UntilCalled, Left, Quiet
<1>4. IInv /\ Watched /\ [Next]_vars => (Resting => Resting' \/ wanted')
  BY RestingStays
<1>5. IInv /\ Watched /\ UntilCalled /\ [Next]_vars =>
        [Quiet' /\ (Resting => Resting' \/ wanted')]_vars
  BY <1>2, <1>3, <1>4
<1> QED BY <1>1, <1>2, <1>5, Invariance, Watchfulness, PTL DEF Spec, StaysQuiet

-----------------------------------------------------------------------------
(* The refinement: what a step means to the users of the session. *)

\* A procedure that may schedule a reconnect leaves the session or ends it.
LEMMA ScheduleEndsAtMost ==
  ASSUME NEW c, NEW n, NEW immediate, ScheduleReconnectAttempt(c, n, immediate)
  PROVE  state' = c.state \/ state' = "Disconnected"
  BY DEF ScheduleReconnectAttempt, Keep, WaitForNetwork

LEMMA DisconnectedEndsAtMost ==
  ASSUME OnTcpDisconnected
  PROVE  state' \in {state, "Disconnected"}
  BY ScheduleEndsAtMost DEF OnTcpDisconnected, Dropped, Here

EndsAtMost == state' \in {state, "Disconnected"} /\ UNCHANGED <<monitoring, starts>>

LEMMA NoteEndsAtMost ==
  ASSUME HandleNote
  PROVE  EndsAtMost
<1>1. UNCHANGED <<monitoring, starts>>
  BY DEF HandleNote, service
<1>2. CASE CheckAndReconnect
  BY <1>1, <1>2, ScheduleEndsAtMost DEF CheckAndReconnect, EndsAtMost, Here
<1>3. CASE NetworkLost
  BY <1>1, <1>3 DEF NetworkLost, Keep, WaitForNetwork, Dropped, Here, EndsAtMost
<1>4. ASSUME NEW restart, NetworkAvailable(restart)
      PROVE  EndsAtMost
  <2> DEFINE c == [Dropped("Lost") EXCEPT !.waiting = FALSE]
             d == [Here EXCEPT !.waiting = FALSE]
  <2>1. c.state = "Disconnected" /\ d.state = state
    BY DEF Dropped, Here
  <2>2. \/ ScheduleReconnectAttempt(c, "usable", TRUE)
        \/ ScheduleReconnectAttempt(d, "usable", TRUE)
        \/ Keep(d)
    BY <1>4 DEF NetworkAvailable
  <2> HIDE DEF c, d
  <2> QED BY <1>1, <2>1, <2>2, ScheduleEndsAtMost DEF Keep, EndsAtMost
<1> QED BY <1>2, <1>3, <1>4 DEF HandleNote, HandleAndroidNetworkStateChanged

Handles ==
  /\ state' = state
  /\ starts # <<>> /\ monitoring' = Head(starts) /\ starts' = Tail(starts)

\* What a step does to the session and to the service's care for it.
LEMMA StepOfSession ==
  ASSUME IInv, [Next]_vars
  PROVE  \/ EndsAtMost
         \/ state = "Disconnected" /\ state' \in {"Connecting", "Disconnected"} /\ StartService
         \/ state = "Connecting" /\ state' = "Authenticating" /\ UNCHANGED <<monitoring, starts>>
         \/ state = "Authenticating" /\ state' = "Connected" /\ UNCHANGED <<monitoring, starts>>
         \/ state # "Disconnected" /\ state' = "Disconnected" /\ StopMonitoring
         \/ OnStartCommand /\ Handles
<1>0. \A label : Dropped(label).state = "Disconnected"
  BY DEF Dropped, Here
<1>a. BeginConnection => state' \in {"Connecting", "Disconnected"} /\ StartService
  BY BusySocketOutcome DEF BeginConnection, OpenSocket, BusyOutcome
<1>1. CASE User
  BY <1>a, <1>1 DEF User, ConnectToServer, DisconnectFromServer
<1>2. CASE OnTcpConnected
  <2>1. state = "Connecting"
    BY <1>2 DEF OnTcpConnected, IInv, SessionIsAnchored
  <2> QED BY <1>2, <2>1 DEF OnTcpConnected, service
<1>3. CASE ConnectionRefused \/ ClosingFinished \/ ConnectionLost \/ PeerCloses
  BY <1>0, <1>3, ScheduleEndsAtMost, DisconnectedEndsAtMost
  DEF ConnectionRefused, ClosingFinished, ConnectionLost, PeerCloses, EstablishedSocketFails,
      service, EndsAtMost
<1>4. CASE OnConnectTimeout \/ OnProtocolLivenessTimeout
  BY <1>0, <1>4, ScheduleEndsAtMost
  DEF OnConnectTimeout, OnProtocolLivenessTimeout, service, EndsAtMost
<1>5. CASE OnReconnectBackoffTimeout
  <2>1. state = "Disconnected"
    BY <1>5 DEF OnReconnectBackoffTimeout, IInv, PendingOnlyWhenDown
  <2>2. CASE BeginConnection
    BY <1>a, <2>1, <2>2
  <2>3. CASE ~BeginConnection
    BY <1>5, <2>1, <2>3
    DEF OnReconnectBackoffTimeout, WaitForNetwork, Here, service, EndsAtMost
  <2> QED BY <2>2, <2>3
<1>6. CASE HandleServerInfo
  <2>1. state = "Authenticating"
    BY <1>6 DEF HandleServerInfo, IInv, PeerFollowsState
  <2> QED BY <1>6, <2>1 DEF HandleServerInfo, service
<1>7. CASE (\E denied \in BOOLEAN : RefusalFrame(denied)) \/ NoteInboundProtocolHeartbeat
  BY <1>7 DEF RefusalFrame, NoteInboundProtocolHeartbeat, service, EndsAtMost
<1>8. CASE HandleNote
  BY <1>8, NoteEndsAtMost
<1>9. CASE OnStartCommand
  BY <1>9 DEF OnStartCommand, Handles, client
<1>10. CASE OnCreate \/ KeepAliveTick \/ ReportLink \/ ReportHandover \/ World
  BY <1>10
  DEF OnCreate, KeepAliveTick, ReportLink, ReportHandover, PostSnapshot, World, LinkDown,
      LinkUp, GoSilent, BecomeCalm, client, service, EndsAtMost
<1>11. CASE UNCHANGED vars
  BY <1>11 DEF vars, client, service, EndsAtMost
<1> QED BY <1>1, <1>2, <1>3, <1>4, <1>5, <1>6, <1>7, <1>8, <1>9, <1>10, <1>11
        DEF Next, Socket, Timers, Frames, Service

Phase == CASE state = "Disconnected" -> "Down"
           [] state = "Connecting" -> "Opening"
           [] state = "Authenticating" -> "Greeting"
           [] state = "Connected" -> "Up"

Asked == starts # <<>>

LEMMA StopAbandons ==
  ASSUME IInv, StopMonitoring
  PROVE  /\ monitoring' = FALSE
         /\ Asked => Asked'
         /\ Due' => Asked
<1>0. starts \in Seq(BOOLEAN) /\ monitoring' = FALSE
  BY DEF IInv, TypeOK, StopMonitoring
<1>1. CASE created \/ ~saved
  BY <1>0, <1>1 DEF StopMonitoring, Asked, Due
<1>2. CASE ~(created \/ ~saved)
  <2>1. starts' = Append(starts, FALSE)
    BY <1>2 DEF StopMonitoring
  <2>2. /\ Append(starts, FALSE) # <<>>
        /\ Append(starts, FALSE)[Len(Append(starts, FALSE))] = FALSE
    BY <1>0, LastOfAppend
  <2>3. starts' # <<>> /\ starts'[Len(starts')] = FALSE
    BY <2>1, <2>2
  <2> QED BY <1>0, <2>3 DEF Asked, Due
<1> QED BY <1>1, <1>2

LEMMA StepRefines ==
  ASSUME IInv, IInv', [Next]_vars
  PROVE  [Promise!Next]_<<Phase, <<monitoring, Asked, Due>>>>
<1>1. state \in States /\ state' \in States
  BY DEF IInv, TypeOK
<1>2. /\ Phase = "Down" <=> state = "Disconnected"
      /\ Phase = "Opening" <=> state = "Connecting"
      /\ Phase = "Greeting" <=> state = "Authenticating"
      /\ Phase = "Up" <=> state = "Connected"
      /\ Phase' = "Down" <=> state' = "Disconnected"
      /\ Phase' = "Opening" <=> state' = "Connecting"
      /\ Phase' = "Greeting" <=> state' = "Authenticating"
      /\ Phase' = "Up" <=> state' = "Connected"
      /\ state' = state => Phase' = Phase
  BY <1>1 DEF Phase, States
<1>3. UNCHANGED <<monitoring, starts>> => UNCHANGED <<monitoring, Asked, Due>>
  BY DEF Asked, Due
<1>4. CASE EndsAtMost
  <2>1. state' \in {state, "Disconnected"} /\ UNCHANGED <<monitoring, Asked, Due>>
    BY <1>3, <1>4 DEF EndsAtMost
  <2> QED BY <1>2, <2>1 DEF Promise!Next, Promise!Lose, Promise!care, Phase, Asked
<1>5. CASE state = "Disconnected" /\ state' \in {"Connecting", "Disconnected"} /\ StartService
  <2>1. UNCHANGED monitoring /\ Asked' = TRUE /\ Due' = TRUE
    BY <1>5, StartIsDue DEF Asked
  <2> QED BY <1>2, <1>5, <2>1
          DEF Promise!Next, Promise!Open, Promise!OpenInVain, Promise!Ask, Phase, Asked
<1>6. CASE /\ UNCHANGED <<monitoring, starts>>
           /\ \/ state = "Connecting" /\ state' = "Authenticating"
              \/ state = "Authenticating" /\ state' = "Connected"
  BY <1>2, <1>3, <1>6
  DEF Promise!Next, Promise!Greet, Promise!GoUp, Promise!care, Phase, Asked
<1>7. CASE state # "Disconnected" /\ state' = "Disconnected" /\ StopMonitoring
  BY <1>2, <1>7, StopAbandons DEF Promise!Next, Promise!Abandon, Phase, Asked
<1>8. CASE OnStartCommand /\ Handles
  <2>1. Phase' = Phase /\ Due' = Due /\ Asked /\ (~Asked' => monitoring' = Due)
    BY <1>2, <1>8, HandlingKeepsDue DEF Handles, Asked
  <2> QED BY <2>1 DEF Promise!Next, Promise!Serve, Phase, Asked
<1> QED BY <1>4, <1>5, <1>6, <1>7, <1>8, StepOfSession

\* The session keeps the promise the other parts of the client rely on.
THEOREM ImplementsPromise == Spec => KeepsPromise
<1>1. Init => Promise!Init
  BY DEF Init, Promise!Init, Due
<1>2. IInv /\ IInv' /\ [Next]_vars => [Promise!Next]_<<Phase, <<monitoring, Asked, Due>>>>
  BY StepRefines
<1> QED BY <1>1, <1>2, Invariance, PTL
        DEF Spec, KeepsPromise, Promise!Spec, Promise!care, Phase, Asked
=============================================================================
