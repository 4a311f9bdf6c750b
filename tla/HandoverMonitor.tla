-------------------------- MODULE HandoverMonitor --------------------------
(* NetworkHandoverMonitor and the client it reports to.  Android calls the    *)
(* monitor on the main thread whenever the default network changes; a call is *)
(* answered by looking at the network of that moment, a snapshot waits for    *)
(* its debounce timer, and what is delivered crosses to the Qt thread.  The   *)
(* client's disconnection stops the monitor from the Qt thread, its every     *)
(* connection requests a start from the main thread.                          *)
EXTENDS Integers, Sequences

CONSTANTS
  Routes,     \* networks, with their addresses and routes, that may be the default
  Cellular,   \* those of them that are not Wi-Fi
  None,       \* no default network, no snapshot
  MaxChanges, \* bound: changes of the default network
  MaxConnects,\* bound: attempts to connect
  MaxDisconnects \* bound: disconnections by the user

ASSUME MonitorAssumption ==
  /\ Cellular \subseteq Routes /\ None \notin Routes
  /\ {MaxChanges, MaxConnects, MaxDisconnects} \subseteq Nat

VARIABLES
  net,        \* the default network: its route and whether it is validated
  news,       \* callbacks of Android the main thread has still to run
  requests,   \* start requests it has still to run
  draft,      \* the snapshot scheduleCurrentSnapshot is about to post
  registered, generation,
  last,       \* lastDeliveredSnapshot
  pending,    \* pendingSnapshot
  posted,     \* emitRunnable is posted
  told,       \* the snapshots on their way to the Qt thread
  state,      \* "off", "waiting" for a network, "due" to connect, "up"
  via,        \* the route of the client's session
  known,      \* m_androidNetworkStateKnown
  view,       \* the client's validated network
  late,       \* snapshots delivered since the monitor was stopped
  changes, connects, disconnects

monitor == <<draft, registered, generation, last, pending, posted>>
clientVars == <<state, via, known, view>>
monitorCounts == <<changes, connects, disconnects>>
monitorVars == <<net, news, requests, monitor, told, clientVars, late, monitorCounts>>

Nets == [route : Routes, good : BOOLEAN] \union {[route |-> None, good |-> FALSE]}

MonitorInit ==
  /\ net \in Nets /\ news = 0 /\ requests = 0 /\ draft = None
  /\ registered = FALSE /\ generation = 0 /\ last = None /\ pending = None
  /\ posted = FALSE /\ told = <<>>
  /\ state = "off" /\ via = None /\ known = FALSE /\ view = FALSE
  /\ late = 0 /\ changes = 0 /\ connects = 0 /\ disconnects = 0

-----------------------------------------------------------------------------
(* Android. *)

NetworkChanges ==
  /\ changes < MaxChanges /\ changes' = changes + 1
  /\ net' \in Nets \ {net}
  /\ news' = IF registered THEN news + 1 ELSE news
  /\ UNCHANGED <<requests, monitor, told, clientVars, late, connects, disconnects>>

-----------------------------------------------------------------------------
(* The monitor, on the main thread. *)

RouteChanged(reason) ==
  last # None /\ reason # "initial" /\ net.route # last.route

HadDefault == last # None /\ last.route # None

NextGeneration(reason) ==
  IF generation = 0 THEN 1
  ELSE IF RouteChanged(reason) \/ (net.route # None) # HadDefault
       THEN generation + 1 ELSE generation

BuildSnapshot(reason) ==
  [generation |-> NextGeneration(reason), reason |-> reason, route |-> net.route,
   good |-> net.good, changed |-> RouteChanged(reason)]

Transport(route) ==
  IF route = None THEN "unknown" ELSE IF route \in Cellular THEN "cellular" ELSE "wifi"

IsMeaningfulChange(s, base) ==
  \/ base = None
  \/ s.generation # base.generation \/ s.changed # base.changed
  \/ s.good # base.good
  \/ Transport(s.route) # Transport(base.route)

\* scheduleCurrentSnapshot looks at the network, then posts what it saw.
Look(reason) ==
  /\ draft = None
  /\ draft' = BuildSnapshot(reason) /\ generation' = NextGeneration(reason)

ScheduleKeepingFirst ==  \* mutant
  /\ draft # None /\ draft' = None
  /\ IF pending = None /\ IsMeaningfulChange(draft, last)
     THEN pending' = draft /\ posted' = TRUE
     ELSE UNCHANGED <<pending, posted>>
  /\ UNCHANGED <<net, news, requests, registered, generation, last, told, clientVars,
                 late, monitorCounts>>

ScheduleCurrentSnapshot ==
  /\ draft # None /\ draft' = None
  /\ IF IsMeaningfulChange(draft, IF pending # None THEN pending ELSE last)
     THEN pending' = draft /\ posted' = TRUE
     ELSE UNCHANGED <<pending, posted>>
  /\ UNCHANGED <<net, news, requests, registered, generation, last, told, clientVars,
                 late, monitorCounts>>

OnNetworkCallback ==
  /\ news > 0 /\ Look("change") /\ news' = news - 1
  /\ UNCHANGED <<net, requests, registered, last, pending, posted, told, clientVars, late,
                 monitorCounts>>

\* A callback that is newly registered is told of the present network.
Start ==
  /\ requests > 0 /\ Look("initial") /\ requests' = requests - 1
  /\ registered' = TRUE
  /\ IF registered THEN UNCHANGED <<news, late>> ELSE news' = news + 1 /\ late' = 0
  /\ UNCHANGED <<net, last, pending, posted, told, clientVars, monitorCounts>>

EmitPendingSnapshot ==
  /\ draft = None /\ posted /\ posted' = FALSE /\ pending' = None
  /\ IF pending # None /\ IsMeaningfulChange(pending, last)
     THEN /\ last' = pending /\ told' = Append(told, pending)
          /\ late' = IF registered THEN 0 ELSE late + 1
     ELSE UNCHANGED <<last, told, late>>
  /\ UNCHANGED <<net, news, requests, draft, registered, generation, clientVars, monitorCounts>>

-----------------------------------------------------------------------------
(* The client, on the Qt thread. *)

HasValidatedNetwork == ~known \/ view

\* connectToServer, which the user's wish or a reconnection's timer calls.
\* What it requests of the main thread includes a start of the monitor.
Connect ==
  /\ connects < MaxConnects /\ connects' = connects + 1
  /\ \/ state = "off"
     \/ state = "due" /\ HasValidatedNetwork
  /\ requests' = requests + 1
  /\ IF net.route # None THEN state' = "up" /\ via' = net.route
     ELSE state' = "due" /\ via' = None
  /\ UNCHANGED <<net, news, monitor, told, known, view, late, changes, disconnects>>

ReconnectWaits ==
  /\ state = "due" /\ ~HasValidatedNetwork
  /\ state' = "waiting"
  /\ UNCHANGED <<net, news, requests, monitor, told, via, known, view, late, monitorCounts>>

\* The socket fails or the heartbeat's watchdog does.
SessionLost ==
  /\ state = "up" /\ (via # net.route \/ ~net.good)
  /\ state' = (IF HasValidatedNetwork THEN "due" ELSE "waiting") /\ via' = None
  /\ UNCHANGED <<net, news, requests, monitor, told, known, view, late, monitorCounts>>

StopLeavingCallback ==  \* mutant
  /\ registered' = FALSE
  /\ pending' = None /\ posted' = FALSE
  /\ UNCHANGED <<news, draft, generation, last>>

Stop ==
  /\ registered' = FALSE /\ news' = 0
  /\ pending' = None /\ posted' = FALSE
  /\ UNCHANGED <<draft, generation, last>>

Disconnect ==
  /\ state # "off" /\ disconnects < MaxDisconnects /\ disconnects' = disconnects + 1
  /\ state' = "off" /\ via' = None
  /\ Stop
  /\ UNCHANGED <<net, requests, told, known, view, late, changes, connects>>

HandleAndroidNetworkStateChanged ==
  /\ told # <<>> /\ told' = Tail(told)
  /\ known' = TRUE /\ view' = Head(told).good
  /\ LET restart == known /\ Head(told).reason # "initial" /\ Head(told).changed IN
       IF ~Head(told).good
       THEN state' = "waiting" /\ via' = None
       ELSE IF state = "up" /\ ~restart
       THEN UNCHANGED <<state, via>>
       ELSE state' = "due" /\ via' = None
  /\ UNCHANGED <<net, news, requests, monitor, late, monitorCounts>>

MonitorNext ==
  \/ NetworkChanges
  \/ ScheduleCurrentSnapshot \/ OnNetworkCallback \/ Start \/ EmitPendingSnapshot
  \/ Connect \/ ReconnectWaits \/ SessionLost \/ Disconnect
  \/ HandleAndroidNetworkStateChanged

MonitorSpec == MonitorInit /\ [][MonitorNext]_monitorVars

\* The main thread runs what waits for it, and so does the Qt thread.
Fairness ==
  /\ WF_monitorVars(ScheduleCurrentSnapshot) /\ WF_monitorVars(OnNetworkCallback)
  /\ WF_monitorVars(Start) /\ WF_monitorVars(EmitPendingSnapshot)
  /\ WF_monitorVars(HandleAndroidNetworkStateChanged)

FairSpec == MonitorSpec /\ Fairness

-----------------------------------------------------------------------------
(* Properties. *)

Snapshots ==
  [generation : 1..generation, reason : {"initial", "change"},
   route : Routes \union {None}, good : BOOLEAN, changed : BOOLEAN]

\* The variables keep their types; no snapshot waits without its timer.
MonitorTypes ==
  /\ net \in Nets /\ news \in Nat /\ requests \in Nat
  /\ {draft, last, pending} \subseteq Snapshots \union {None}
  /\ registered \in BOOLEAN /\ generation \in Nat /\ posted \in BOOLEAN
  /\ told \in Seq(Snapshots)
  /\ state \in {"off", "waiting", "due", "up"} /\ via \in Routes \union {None}
  /\ known \in BOOLEAN /\ view \in BOOLEAN
  /\ pending # None => posted

\* A stopped monitor is done: the snapshot that the main thread was posting when
\* the Qt thread stopped it may still be delivered, and nothing after that (and the
\* variables keep their types).
AtMostOneAfterStop == MonitorTypes /\ late <= 1

\* However the callbacks, the debounce and the restarts fall together, the last
\* snapshot delivered while the monitor stays registered tells of the network
\* that holds still whether it is validated and what it is.
LastDescribesNetwork ==
  <>[]registered =>
    <>[](/\ last # None /\ last.good = net.good
         /\ Transport(last.route) = Transport(net.route))
=============================================================================
