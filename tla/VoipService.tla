---------------------------- MODULE VoipService ----------------------------
(* The life of VoipBackgroundService.  Two threads act on it: the main        *)
(* thread, which runs its callbacks and its keep-alive, and the Qt thread,    *)
(* whose client calls its methods directly.  What a thread is running is the  *)
(* sequence of the steps left of it; the steps of one interleave with those   *)
(* of the other, as nothing in the service is synchronised.  The start and    *)
(* stop requests wait in the main thread's queue, and the process may be      *)
(* killed and its service restarted by Android.                               *)
EXTENDS Integers, Sequences

CONSTANT
  MaxEvents  \* bound: connections the client makes, push-to-talk keys that reach the
             \* service, kills of the process, and times the activity comes or goes

ASSUME VoipServiceAssumption == MaxEvents \in Nat

VARIABLES
  service,    \* the fields of the service that its methods read and write
  instance,   \* the number of the object in the static field, 0 for null
  created,    \* how many objects there have been
  session,    \* what the media session shows
  main, qt,   \* the steps left of what each thread runs
  held,       \* the object on which the Qt thread is in a method
  inbox,      \* the main thread's queue
  up,         \* whether Android counts the service as started
  delivered,  \* the start requests Android will deliver again after a kill
  sticky,     \* whether it restarts the service for the last request's answer
  asked,      \* the service has told the client to look at its connection
  client,     \* "none" before the application runs, "off", "due" to reconnect,
              \* "connecting", "connected"
  saved,      \* was_connected of ConnectionProfileStore: the user connected and
              \* did not disconnect since
  profile,    \* whether a connection profile is saved
  visible,    \* LatryActivity.activityVisible
  killed,     \* history: the process was killed
  events

platform == <<inbox, up, delivered, sticky>>
user == <<client, saved, profile>>
counters == <<killed, events>>
vars == <<service, instance, created, session, main, qt, held, platform, asked,
          user, visible, counters>>

Activities == {"connected", "receiving", "transmitting"}

Fresh ==
  [running |-> FALSE, monitoring |-> FALSE, active |-> {}, foreground |-> FALSE,
   network |-> FALSE, ticking |-> FALSE, wakeLock |-> FALSE, wifiLock |-> FALSE]

Init ==
  /\ service = Fresh /\ instance = 0 /\ created = 0 /\ session = {}
  /\ main = <<>> /\ qt = <<>> /\ held = 0
  /\ inbox = <<>> /\ up = FALSE /\ delivered = <<>> /\ sticky = FALSE
  /\ asked = FALSE /\ client = "none" /\ saved = FALSE
  /\ profile \in BOOLEAN /\ visible = TRUE
  /\ killed = FALSE /\ events = 0

-----------------------------------------------------------------------------
(* The steps of the service's methods. *)

Event == events < MaxEvents /\ events' = events + 1

Do(op, on) == [op |-> op, on |-> on]

\* The media session is told after the service's own flags.
Show(what, on) == [op |-> "show", what |-> what, on |-> on]

Sync == <<Do("judge", TRUE)>>
Configure(on) == <<Do("enable", on), Do("network", on), Do("keep", on)>>
Update(what, on) == <<Do(what, on), Show(what, on)>> \o Sync

AcquireSystemLocks == <<Do("wakeLock", TRUE), Do("wifiLock", TRUE)>>

ReleaseSystemLocks == <<Do("wakeLock", FALSE), Do("wifiLock", FALSE)>>

StartVoipService ==
  <<Do("run", TRUE), Do("status", FALSE), Show("status", FALSE)>>
  \o AcquireSystemLocks
  \o <<Do("foreground", TRUE), Do("configure", TRUE)>> \o Sync

StopKeepingLocks ==  \* mutant
  <<Do("run", FALSE), Do("status", FALSE), Show("status", FALSE)>>
  \o Configure(FALSE) \o <<Do("foreground", FALSE), Do("stopSelf", TRUE)>>

StopVoipServiceInternal ==
  <<Do("run", FALSE), Do("status", FALSE), Show("status", FALSE)>>
  \o Configure(FALSE) \o ReleaseSystemLocks
  \o <<Do("foreground", FALSE), Do("stopSelf", TRUE)>>

OnDestroy ==
  <<Do("keep", FALSE), Do("network", FALSE), Do("foreground", FALSE)>>
  \o ReleaseSystemLocks \o <<Do("clear", TRUE)>>

SetConnectionMonitoring(on) ==
  Configure(on) \o (IF on THEN <<>> ELSE <<Do("idle", TRUE)>>)

KeepAliveTick ==
  <<Do("renew", TRUE), Do("check", TRUE)>> \o Sync \o <<Do("repost", TRUE)>>

\* How the three flags follow from each other, in the service and in the
\* media session alike.
Marked(what, on, flags) ==
  CASE what = "status" ->
         IF on THEN flags \union {"connected"} ELSE {}
    [] what = "receive" ->
         IF on THEN flags \union {"receiving"} ELSE flags \ {"receiving"}
    [] what = "transmit" ->
         IF on THEN (flags \ {"receiving"}) \union {"transmitting"}
         ELSE flags \ {"transmitting"}

ShouldRemainForeground(active, shown) == active # {} \/ ~shown

\* A check and the act it decides are two steps.
Follows(do) ==
  CASE do.op = "judge" /\ service.running ->
         IF ShouldRemainForeground(service.active, visible)
         THEN <<Do("foreground", TRUE)>> ELSE <<Do("foreground", FALSE)>>
    [] do.op = "configure" -> Configure(service.monitoring)
    [] do.op = "idle" /\ "connected" \notin service.active -> Sync
    [] OTHER -> <<>>

\* startKeepAlive looks at the flag again; the other steps only write.
Written(do) ==
  CASE do.op = "run" -> [service EXCEPT !.running = do.on]
    [] do.op \in {"status", "receive", "transmit"} ->
         [service EXCEPT !.active = Marked(do.op, do.on, @)]
    [] do.op \in {"wakeLock", "renew"} -> [service EXCEPT !.wakeLock = do.on]
    [] do.op = "wifiLock" -> [service EXCEPT !.wifiLock = do.on]
    [] do.op = "foreground" -> [service EXCEPT !.foreground = do.on]
    [] do.op = "enable" -> [service EXCEPT !.monitoring = do.on]
    [] do.op = "network" -> [service EXCEPT !.network = do.on]
    [] do.op = "keep" ->
         [service EXCEPT !.ticking = do.on /\ (service.monitoring \/ @)]
    [] do.op = "repost" -> [service EXCEPT !.ticking = TRUE]
    [] do.op = "clear" ->
         [service EXCEPT !.running = FALSE, !.monitoring = FALSE, !.active = {},
                         !.foreground = FALSE]
    [] OTHER -> service

Shown(do) ==
  IF do.op = "show" THEN Marked(do.what, do.on, session)
  ELSE IF do.op = "clear" THEN {} ELSE session

-----------------------------------------------------------------------------
(* Android's side: requests for the service and what it does with them. *)

Request(message) ==
  /\ up' = TRUE
  /\ inbox' = inbox \o (IF up THEN <<message>> ELSE <<Do("create", TRUE), message>>)
  /\ UNCHANGED <<delivered, sticky>>

StopSelf ==
  /\ up' = FALSE /\ delivered' = <<>> /\ sticky' = FALSE
  /\ inbox' = IF up THEN Append(inbox, Do("destroy", TRUE)) ELSE inbox

\* The main thread takes the next of its messages.
Takes(op) ==
  /\ main = <<>> /\ inbox # <<>> /\ Head(inbox).op = op
  /\ inbox' = Tail(inbox)

OnCreate ==
  /\ Takes("create")
  /\ created' = created + 1 /\ instance' = created + 1
  /\ service' = [service EXCEPT !.foreground = TRUE]
  /\ UNCHANGED <<session, main, qt, held, up, delivered, sticky, asked, user,
                 visible, counters>>

OnStartCommandOnce ==  \* mutant
  /\ Takes("start")
  /\ IF service.running THEN UNCHANGED <<service, main>>
     ELSE /\ service' = [service EXCEPT !.monitoring = Head(inbox).on]
          /\ main' = StartVoipService
  /\ delivered' = Append(delivered, Head(inbox)) /\ sticky' = TRUE
  /\ UNCHANGED <<instance, created, session, qt, held, up, asked, user, visible,
                 counters>>

OnStartCommandStart ==
  /\ Takes("start")
  /\ service' = [service EXCEPT !.monitoring = Head(inbox).on]
  /\ main' = StartVoipService
  /\ delivered' = Append(delivered, Head(inbox)) /\ sticky' = TRUE
  /\ UNCHANGED <<instance, created, session, qt, held, up, asked, user, visible,
                 counters>>

OnStartCommandPtt ==
  /\ Takes("ptt")
  /\ main' = IF service.running THEN <<>> ELSE StartVoipService
  /\ sticky' = TRUE
  /\ UNCHANGED <<service, instance, created, session, qt, held, up, delivered,
                 asked, user, visible, counters>>

OnStartCommandNull ==
  /\ Takes("null")
  /\ main' = <<Do("stopSelf", TRUE)>>
  /\ UNCHANGED <<service, instance, created, session, qt, held, up, delivered,
                 sticky, asked, user, visible, counters>>

\* The stop a Qt thread posted is for the object it saw.
RunStop ==
  /\ Takes("stop")
  /\ main' = IF Head(inbox).of = instance THEN StopVoipServiceInternal ELSE <<>>
  /\ UNCHANGED <<service, instance, created, session, qt, held, up, delivered,
                 sticky, asked, user, visible, counters>>

Destroy ==
  /\ Takes("destroy")
  /\ main' = OnDestroy
  /\ UNCHANGED <<service, instance, created, session, qt, held, up, delivered,
                 sticky, asked, user, visible, counters>>

RunKeepAlive ==
  /\ main = <<>> /\ service.ticking
  /\ service' = [service EXCEPT !.ticking = FALSE]
  /\ main' = IF service.running /\ service.monitoring THEN KeepAliveTick ELSE <<>>
  /\ UNCHANGED <<instance, created, session, qt, held, platform, asked, user,
                 visible, counters>>

StepMain ==
  /\ main # <<>>
  /\ LET do == Head(main) IN
       /\ main' = Follows(do) \o Tail(main)
       /\ service' = Written(do)
       /\ session' = Shown(do)
       /\ instance' = IF do.op = "clear" THEN 0 ELSE instance
       /\ asked' = (asked \/ do.op = "check")
       /\ IF do.op = "stopSelf" THEN StopSelf ELSE UNCHANGED platform
  /\ UNCHANGED <<created, qt, held, user, visible, counters>>

\* A snapshot of the monitor reaches the client as the keep-alive's check does.
NetworkSnapshot ==
  /\ main = <<>> /\ service.network /\ ~asked
  /\ asked' = TRUE
  /\ UNCHANGED <<service, instance, created, session, main, qt, held, platform,
                 user, visible, counters>>

-----------------------------------------------------------------------------
(* The client, on the Qt thread. *)

\* Each call looks up the object anew; what it was to do to a null reference
\* is passed over, and what it does to a destroyed one shows nowhere.
StepQt ==
  /\ qt # <<>> /\ Head(qt).op # "monitor"
  /\ LET do == Head(qt)
         object == IF do.op \in {"status", "receive", "transmit"} THEN instance ELSE held
         works == object = instance /\ instance # 0
         left == (IF works THEN Follows(do) ELSE <<>>) \o Tail(qt) IN
       /\ qt' = left
       /\ held' = IF left = <<>> THEN 0 ELSE object
       /\ service' = IF works THEN Written(do) ELSE service
       /\ session' = IF works THEN Shown(do) ELSE session
  /\ UNCHANGED <<instance, created, main, platform, asked, user, visible, counters>>

Calls(steps) ==
  /\ qt = <<>>
  /\ qt' = steps
  /\ UNCHANGED <<service, instance, created, session, main, held, visible>>

StartService(monitor) == Request(Do("start", monitor))

EnsureControllerService ==
  IF profile /\ (instance = 0 \/ ~service.running)
  THEN StartService(FALSE) ELSE UNCHANGED platform

StopService ==
  IF instance = 0 THEN StopSelf
  ELSE /\ inbox' = Append(inbox, [op |-> "stop", of |-> instance])
       /\ UNCHANGED <<up, delivered, sticky>>

SaveConnectionState == saved' = TRUE /\ profile' = TRUE

\* The profile outlives the wish to be connected.
ClearConnectionState == saved' = FALSE /\ UNCHANGED profile

\* The application starts inside the service or with the activity, whose
\* client makes sure of the service.
Launch ==
  /\ client = "none" /\ Calls(<<>>)
  /\ client' = "off"
  /\ \/ instance # 0 /\ UNCHANGED platform
     \/ visible /\ EnsureControllerService
  /\ UNCHANGED <<asked, saved, profile, counters>>

Disconnected == client \in {"off", "due"}

\* By the user, by the timer of a reconnection or by MediaPlay.
ConnectToServer ==
  /\ Disconnected /\ Event
  /\ Calls(Update("receive", FALSE) \o Update("transmit", FALSE)
           \o Update("status", FALSE))
  /\ StartService(TRUE)
  /\ client' = "connecting" /\ SaveConnectionState
  /\ UNCHANGED <<asked, killed>>

Reaches(state, steps) ==
  /\ Calls(steps)
  /\ client' = state
  /\ UNCHANGED <<platform, asked, saved, profile, counters>>

\* What transitionToDisconnectedState tells the service.
TransitionToDisconnectedState ==
  Update("status", FALSE) \o Update("receive", FALSE) \o Update("transmit", FALSE)

SetupReady == client = "connecting" /\ Reaches("connected", Update("status", TRUE))

ConnectionLost ==
  /\ client \in {"connecting", "connected"}
  /\ Reaches("due", TransitionToDisconnectedState)

Hears ==
  /\ client = "connected"
  /\ \E on \in BOOLEAN : Calls(Update("receive", on))
  /\ UNCHANGED <<platform, asked, user, counters>>

Transmits ==
  /\ client = "connected"
  /\ \E on \in BOOLEAN : Calls(Update("transmit", on))
  /\ UNCHANGED <<platform, asked, user, counters>>

DisconnectFromServer ==
  /\ client \in {"due", "connecting", "connected"}
  /\ Calls(Update("transmit", FALSE) \o Update("receive", FALSE)
           \o Update("status", FALSE) \o <<Do("monitor", FALSE)>>
           \o TransitionToDisconnectedState)
  /\ client' = "off" /\ ClearConnectionState
  /\ UNCHANGED <<platform, asked, counters>>

\* The keys of a headset or a car reach the client the way the user's do: one
\* connects with the profile saved, the other ends a connection.
MediaPlay == profile /\ ConnectToServer

MediaStop == ~Disconnected /\ DisconnectFromServer

\* setServiceConnectionMonitoring(false), the last of a disconnection's calls.
SetServiceConnectionMonitoring ==
  /\ qt # <<>> /\ Head(qt).op = "monitor"
  /\ IF instance = 0
     THEN EnsureControllerService /\ qt' = Tail(qt) /\ UNCHANGED held
     ELSE /\ held' = instance
          /\ qt' = SetConnectionMonitoring(FALSE) \o Tail(qt)
          /\ UNCHANGED platform
  /\ UNCHANGED <<service, instance, created, session, main, asked, user, visible,
                 counters>>

\* checkAndReconnect, and handleAndroidNetworkStateChanged while disconnected.
CheckAndReconnect ==
  /\ asked /\ client # "none" /\ asked' = FALSE
  /\ IF client = "off" /\ profile
     THEN client' = "due" /\ Calls(Update("status", FALSE))
     ELSE UNCHANGED client /\ Calls(<<>>)
  /\ UNCHANGED <<platform, saved, profile, counters>>

\* prepareForShutdown, behind a disconnection.  The process is at its end and
\* starts nothing more.
Shutdown ==
  /\ client = "off" /\ Calls(<<>>)
  /\ client' = "gone" /\ ClearConnectionState
  /\ StopService
  /\ UNCHANGED <<asked, counters>>

-----------------------------------------------------------------------------
(* The user's keys, the activity and the end of the process. *)

PttKey ==
  /\ Event
  /\ Request(Do("ptt", TRUE))
  /\ UNCHANGED <<service, instance, created, session, main, qt, held, asked, user,
                 visible, killed>>

ActivityComesOrGoes ==
  /\ main = <<>> /\ Event
  /\ visible' = ~visible
  /\ UNCHANGED <<service, instance, created, session, main, qt, held, platform,
                 asked, user, killed>>

\* Its timeout, or a release forced on a frozen process.
WakeLockExpires ==
  /\ service.wakeLock
  /\ service' = [service EXCEPT !.wakeLock = FALSE]
  /\ UNCHANGED <<instance, created, session, main, qt, held, platform, asked, user,
                 visible, counters>>

\* The requests among the messages of a queue, in their order.
Undelivered(queue) ==
  LET upto[n \in 0..Len(queue)] ==
        IF n = 0 THEN <<>>
        ELSE IF queue[n].op \in {"start", "ptt"} THEN Append(upto[n - 1], queue[n])
        ELSE upto[n - 1]
  IN upto[Len(queue)]

Again ==
  LET pending == Undelivered(inbox) IN
  IF delivered \o pending # <<>> THEN delivered \o pending
  ELSE IF sticky THEN <<Do("null", TRUE)>> ELSE <<>>

Kill ==
  /\ Event /\ killed' = TRUE
  /\ client # "gone"
  /\ LET again == IF up THEN Again ELSE <<>> IN
       /\ up' = (again # <<>>)
       /\ inbox' = IF again = <<>> THEN <<>> ELSE <<Do("create", TRUE)>> \o again
  /\ delivered' = <<>> /\ sticky' = FALSE
  /\ service' = Fresh /\ instance' = 0 /\ session' = {} /\ main' = <<>> /\ qt' = <<>>
  /\ held' = 0 /\ asked' = FALSE /\ client' = "none" /\ visible' = FALSE
  /\ UNCHANGED <<created, saved, profile>>

HandlesMessage ==
  \/ OnCreate \/ OnStartCommandStart \/ OnStartCommandPtt \/ OnStartCommandNull
  \/ RunStop \/ Destroy

Next ==
  \/ HandlesMessage \/ RunKeepAlive \/ StepMain
  \/ StepQt \/ SetServiceConnectionMonitoring \/ CheckAndReconnect
  \/ Launch \/ ConnectToServer \/ SetupReady \/ ConnectionLost \/ Hears \/ Transmits
  \/ DisconnectFromServer \/ MediaPlay \/ MediaStop \/ Shutdown \/ PttKey \/ ActivityComesOrGoes
  \/ NetworkSnapshot \/ WakeLockExpires \/ Kill

Spec == Init /\ [][Next]_vars

-----------------------------------------------------------------------------
(* Properties. *)

\* The variables keep their types.
TypeOK ==
  /\ service \in [running : BOOLEAN, monitoring : BOOLEAN,
                  active : SUBSET Activities, foreground : BOOLEAN,
                  network : BOOLEAN, ticking : BOOLEAN, wakeLock : BOOLEAN,
                  wifiLock : BOOLEAN]
  /\ instance \in {0, created} /\ held \in 0..created /\ session \subseteq Activities
  /\ up \in BOOLEAN /\ sticky \in BOOLEAN /\ asked \in BOOLEAN
  /\ saved \in BOOLEAN /\ profile \in BOOLEAN /\ visible \in BOOLEAN
  /\ client \in {"none", "off", "due", "connecting", "connected", "gone"}
  /\ delivered \in Seq([op : {"start"}, on : BOOLEAN])

\* A service that stopped, or was destroyed and perhaps replaced, holds no lock,
\* listens to no network and has no timer left that would wake it (and the
\* variables keep their types).
StoppedHoldsNothing ==
  /\ TypeOK
  /\ main = <<>> /\ ~service.running =>
       ~service.wakeLock /\ ~service.wifiLock /\ ~service.network /\ ~service.ticking

Settled == main = <<>> /\ qt = <<>> /\ inbox = <<>> /\ ~asked

\* While the process lives, whatever order the requests for the service, the
\* direct calls and the timer come in, a connection the user asked for has in the
\* end a running service that watches it: a disconnection before it, or a key,
\* or the client's wish for a controller, undoes nothing.
WatchIsKept ==
  Settled /\ ~killed /\ saved /\ client # "none" =>
    /\ instance # 0 /\ service.running /\ service.monitoring
    /\ service.ticking /\ service.network /\ service.wifiLock
=============================================================================
