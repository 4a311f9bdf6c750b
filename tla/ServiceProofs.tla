--------------------------- MODULE ServiceProofs ---------------------------
(* Theorems about VoipService and about HandoverMonitor, for any number of    *)
(* events, networks, changes, connections and disconnections.                 *)
EXTENDS VoipService, HandoverMonitor, WellFoundedInduction, TLAPS


\* The type invariant in parts.
SomeRoute == Routes \union {None}
Upto(g) ==
  [generation : 1..g, reason : {"initial", "change"}, route : SomeRoute,
   good : BOOLEAN, changed : BOOLEAN]

NetOK ==
  /\ net.route \in SomeRoute /\ net.good \in BOOLEAN
  /\ news \in Nat /\ requests \in Nat

MonitorOK ==
  /\ draft \in Upto(generation) \union {None} /\ last \in Upto(generation) \union {None}
  /\ pending \in Upto(generation) \union {None}
  /\ registered \in BOOLEAN /\ generation \in Nat /\ posted \in BOOLEAN
  /\ pending # None => posted

ToldOK == told \in Seq(Upto(generation))

ClientOK ==
  /\ state \in {"off", "waiting", "due", "up"} /\ via \in SomeRoute
  /\ known \in BOOLEAN /\ view \in BOOLEAN

\* What a monitor that is not registered may still deliver, with what it has: one
\* snapshot in all, drafted or posted or told of.  It is called back no more.
AtMostOneLeft ==
  /\ late \in {0, 1}
  /\ registered => late = 0
  /\ ~registered =>
       /\ news = 0
       /\ late = 1 => draft = None /\ ~posted
       /\ posted => draft = None

IInv == net \in Nets /\ NetOK /\ MonitorOK /\ ToldOK /\ ClientOK /\ AtMostOneLeft

LEMMA IInvIsEnough == IInv => AtMostOneAfterStop
<1> SUFFICES ASSUME IInv PROVE AtMostOneAfterStop
  OBVIOUS
<1>1. Snapshots = Upto(generation)
  BY DEF Snapshots, Upto, SomeRoute
<1>2. {draft, last, pending} \subseteq Snapshots \union {None} /\ told \in Seq(Snapshots)
  BY <1>1 DEF IInv, MonitorOK, ToldOK
<1>3. late <= 1
  BY DEF IInv, AtMostOneLeft
<1>4. MonitorTypes
  BY <1>2 DEF IInv, NetOK, MonitorOK, ClientOK, SomeRoute, MonitorTypes
<1> QED BY <1>3, <1>4 DEF AtMostOneAfterStop

\* A snapshot of an earlier generation is one of a later.
LEMMA UptoGrows ==
  ASSUME NEW g \in Nat, NEW h \in Nat, g <= h
  PROVE  Upto(g) \subseteq Upto(h) /\ Seq(Upto(g)) \subseteq Seq(Upto(h))
<1>1. Upto(g) \subseteq Upto(h)
  BY DEF Upto
<1>2. ASSUME NEW s \in Seq(Upto(g)) PROVE s \in Seq(Upto(h))
  <2> DEFINE G == Upto(g)  H == Upto(h)
  <2>1. G \subseteq H /\ s \in Seq(G)
    BY <1>1
  <2> HIDE DEF G, H
  <2>2. s \in Seq(H)
    BY <2>1
  <2> QED BY <2>2 DEF H
<1> QED BY <1>1, <1>2

\* The network of the moment, as the monitor sees it.
LEMMA SnapshotIsTyped ==
  ASSUME IInv, NEW reason \in {"initial", "change"}
  PROVE  /\ NextGeneration(reason) \in Nat /\ generation <= NextGeneration(reason)
         /\ BuildSnapshot(reason) \in Upto(NextGeneration(reason))
<1>1. generation \in Nat /\ net.route \in SomeRoute /\ net.good \in BOOLEAN
  BY DEF IInv, MonitorOK, NetOK
<1>2. /\ NextGeneration(reason) \in Nat \ {0} /\ generation <= NextGeneration(reason)
  BY <1>1 DEF NextGeneration
<1>3. RouteChanged(reason) \in BOOLEAN
  BY DEF RouteChanged
<1> QED BY <1>1, <1>2, <1>3 DEF BuildSnapshot, Upto

\* Looking keeps what the monitor has.
LEMMA LookKeeps ==
  ASSUME IInv, NEW reason \in {"initial", "change"}, Look(reason),
         UNCHANGED <<last, pending, posted, told>>, registered' \in BOOLEAN
  PROVE  MonitorOK' /\ ToldOK'
<1> DEFINE g == generation  h == NextGeneration(reason)
<1>1. /\ g \in Nat /\ h \in Nat /\ g <= h /\ generation' = h
      /\ draft' = BuildSnapshot(reason) /\ draft' \in Upto(h)
  BY SnapshotIsTyped DEF Look, IInv, MonitorOK
<1>2. Upto(g) \subseteq Upto(h) /\ Seq(Upto(g)) \subseteq Seq(Upto(h))
  BY <1>1, UptoGrows
<1>3. /\ last \in Upto(g) \union {None} /\ pending \in Upto(g) \union {None}
      /\ told \in Seq(Upto(g)) /\ posted \in BOOLEAN /\ (pending # None => posted)
  BY DEF IInv, MonitorOK, ToldOK
<1> HIDE DEF g, h
<1> QED BY <1>1, <1>2, <1>3 DEF MonitorOK, ToldOK
-----------------------------------------------------------------------------
(* The invariant. *)

LEMMA NetsAreTyped ==
  ASSUME NEW n \in Nets
  PROVE  n.route \in SomeRoute /\ n.good \in BOOLEAN
<1>1. CASE n \in [route : Routes, good : BOOLEAN]
  BY <1>1 DEF SomeRoute
<1>2. CASE n = [route |-> None, good |-> FALSE]
  BY <1>2 DEF SomeRoute
<1> QED BY <1>1, <1>2 DEF Nets

LEMMA InitHolds == MonitorInit => IInv
<1> SUFFICES ASSUME MonitorInit PROVE IInv
  OBVIOUS
<1>1. net \in Nets /\ NetOK
  <2>1. net \in Nets /\ news = 0 /\ requests = 0
    BY DEF MonitorInit
  <2> QED BY <2>1, NetsAreTyped DEF NetOK
<1>2. MonitorOK
  BY DEF MonitorInit, MonitorOK
<1>3. ToldOK /\ ClientOK /\ AtMostOneLeft
  <2>1. ToldOK
    BY DEF MonitorInit, ToldOK
  <2>2. ClientOK
    BY DEF MonitorInit, ClientOK, SomeRoute
  <2>3. AtMostOneLeft
    BY DEF MonitorInit, AtMostOneLeft
  <2> QED BY <2>1, <2>2, <2>3
<1> QED BY <1>1, <1>2, <1>3 DEF IInv

\* The default network changes; who is not registered is not called.
LEMMA NetworkKeepsIInv ==
  ASSUME IInv, NetworkChanges
  PROVE  IInv'
<1>0. NetOK /\ MonitorOK /\ ToldOK /\ ClientOK /\ AtMostOneLeft
  BY DEF IInv
<1>1. UNCHANGED <<requests, draft, registered, generation, last, pending, posted, told,
                  state, via, known, view, late>>
  BY DEF NetworkChanges, monitor, clientVars
<1>2. net' \in Nets /\ news' = IF registered THEN news + 1 ELSE news
  BY DEF NetworkChanges
<1>3. NetOK'
  <2>1. net'.route \in SomeRoute /\ net'.good \in BOOLEAN
    BY <1>2, NetsAreTyped
  <2>2. news' \in Nat /\ requests' \in Nat
    BY <1>0, <1>1, <1>2 DEF NetOK
  <2> QED BY <2>1, <2>2 DEF NetOK
<1>4. MonitorOK' /\ ToldOK' /\ ClientOK'
  BY <1>0, <1>1 DEF MonitorOK, ToldOK, ClientOK
<1>5. AtMostOneLeft'
  BY <1>0, <1>1, <1>2 DEF AtMostOneLeft
<1> QED BY <1>2, <1>3, <1>4, <1>5 DEF IInv

\* The monitor's steps on the main thread.
LEMMA MonitorKeepsIInv ==
  ASSUME IInv,
         ScheduleCurrentSnapshot \/ OnNetworkCallback \/ Start \/ EmitPendingSnapshot
  PROVE  IInv'
<1>0. /\ net \in Nets /\ NetOK /\ MonitorOK /\ ToldOK /\ ClientOK /\ AtMostOneLeft
      /\ registered \in BOOLEAN /\ posted \in BOOLEAN
  BY DEF IInv, MonitorOK
<1>1. net' = net /\ UNCHANGED <<state, via, known, view>>
  BY DEF ScheduleCurrentSnapshot, OnNetworkCallback, Start, EmitPendingSnapshot, clientVars
<1>2. net' \in Nets /\ ClientOK'
  BY <1>0, <1>1 DEF ClientOK
<1>3. NetOK'
  <2>1. news' \in Nat /\ requests' \in Nat
    BY <1>0 DEF NetOK, ScheduleCurrentSnapshot, OnNetworkCallback, Start, EmitPendingSnapshot
  <2> QED BY <1>0, <1>1, <2>1 DEF NetOK
<1>4. ASSUME ScheduleCurrentSnapshot
      PROVE  MonitorOK' /\ ToldOK' /\ AtMostOneLeft'
  <2>1. /\ draft # None /\ draft' = None
        /\ UNCHANGED <<news, registered, generation, last, told, late>>
        /\ \/ pending' = draft /\ posted' = TRUE
           \/ UNCHANGED <<pending, posted>>
    BY <1>4 DEF ScheduleCurrentSnapshot
  <2>2. MonitorOK' /\ ToldOK'
    <3>1. /\ draft' \in Upto(generation) \union {None}
          /\ pending' \in Upto(generation) \union {None}
      BY <1>0, <2>1 DEF MonitorOK
    <3>2. posted' \in BOOLEAN /\ (pending' # None => posted')
      <4>1. CASE posted' = TRUE
        BY <4>1
      <4>2. CASE UNCHANGED <<pending, posted>>
        BY <1>0, <4>2 DEF MonitorOK
      <4> QED BY <2>1, <4>1, <4>2
    <3>3. MonitorOK'
      BY <1>0, <2>1, <3>1, <3>2 DEF MonitorOK
    <3>4. ToldOK'
      BY <1>0, <2>1 DEF ToldOK
    <3> QED BY <3>3, <3>4
  <2>3. AtMostOneLeft'
    BY <1>0, <2>1 DEF AtMostOneLeft
  <2> QED BY <2>2, <2>3
<1>5. ASSUME OnNetworkCallback
      PROVE  MonitorOK' /\ ToldOK' /\ AtMostOneLeft'
  <2>1. /\ news > 0 /\ Look("change")
        /\ UNCHANGED <<registered, last, pending, posted, told, late>>
    BY <1>5 DEF OnNetworkCallback
  <2>2. registered = TRUE
    BY <1>0, <2>1 DEF AtMostOneLeft
  <2>3. AtMostOneLeft'
    BY <1>0, <2>1, <2>2 DEF AtMostOneLeft
  <2> QED BY <1>0, <2>1, <2>3, LookKeeps
<1>6. ASSUME Start
      PROVE  MonitorOK' /\ ToldOK' /\ AtMostOneLeft'
  <2>1. /\ Look("initial") /\ registered' = TRUE
        /\ UNCHANGED <<last, pending, posted, told>>
        /\ IF registered THEN late' = late ELSE late' = 0
    BY <1>6 DEF Start
  <2>2. AtMostOneLeft'
    BY <1>0, <2>1 DEF AtMostOneLeft
  <2> QED BY <2>1, <2>2, LookKeeps
<1>7. ASSUME EmitPendingSnapshot
      PROVE  MonitorOK' /\ ToldOK' /\ AtMostOneLeft'
  <2>1. /\ draft = None /\ posted /\ posted' = FALSE /\ pending' = None
        /\ UNCHANGED <<news, draft, registered, generation>>
    BY <1>7 DEF EmitPendingSnapshot
  <2>2. \/ /\ pending # None /\ last' = pending /\ told' = Append(told, pending)
           /\ late' = IF registered THEN 0 ELSE late + 1
        \/ UNCHANGED <<last, told, late>>
    BY <1>7 DEF EmitPendingSnapshot
  <2>3. MonitorOK'
    BY <1>0, <2>1, <2>2 DEF MonitorOK
  <2>4. ToldOK'
    <3> DEFINE S == Upto(generation)
    <3>1. told \in Seq(S) /\ pending \in S \union {None}
      BY <1>0 DEF MonitorOK, ToldOK
    <3> HIDE DEF S
    <3>2. told' \in Seq(S)
      BY <2>2, <3>1
    <3> QED BY <2>1, <3>2 DEF S, ToldOK
  <2>5. AtMostOneLeft'
    <3>1. CASE registered
      BY <1>0, <2>1, <2>2, <3>1 DEF AtMostOneLeft
    <3>2. CASE ~registered
      <4>1. late = 0 /\ news = 0
        BY <1>0, <2>1, <3>2 DEF AtMostOneLeft
      <4>2. late' \in {0, 1}
        BY <2>2, <3>2, <4>1
      <4> QED BY <2>1, <3>2, <4>1, <4>2 DEF AtMostOneLeft
    <3> QED BY <3>1, <3>2
  <2> QED BY <2>3, <2>4, <2>5
<1>8. MonitorOK' /\ ToldOK' /\ AtMostOneLeft'
  BY <1>4, <1>5, <1>6, <1>7
<1> QED BY <1>2, <1>3, <1>8 DEF IInv

\* The client's steps: a disconnection stops the monitor.
LEMMA ClientKeepsIInv ==
  ASSUME IInv,
         \/ Connect \/ ReconnectWaits \/ SessionLost \/ Disconnect
         \/ HandleAndroidNetworkStateChanged
  PROVE  IInv'
<1>0. /\ net \in Nets /\ NetOK /\ MonitorOK /\ ToldOK /\ ClientOK /\ AtMostOneLeft
      /\ net.route \in SomeRoute /\ None \in SomeRoute
  BY DEF IInv, NetOK, SomeRoute
<1>1. net' = net /\ UNCHANGED <<draft, generation, last, late>>
  BY DEF Connect, ReconnectWaits, SessionLost, Disconnect, Stop,
         HandleAndroidNetworkStateChanged, monitor
<1>2. NetOK'
  <2>1. news' \in Nat /\ requests' \in Nat
    BY <1>0
    DEF NetOK, Connect, ReconnectWaits, SessionLost, Disconnect, Stop,
        HandleAndroidNetworkStateChanged
  <2> QED BY <1>0, <1>1, <2>1 DEF NetOK
<1>3. \/ UNCHANGED <<news, registered, pending, posted>>
      \/ registered' = FALSE /\ news' = 0 /\ pending' = None /\ posted' = FALSE
  BY DEF Connect, ReconnectWaits, SessionLost, Disconnect, Stop,
         HandleAndroidNetworkStateChanged, monitor
<1>4. MonitorOK'
  BY <1>0, <1>1, <1>3 DEF MonitorOK
<1>5. AtMostOneLeft'
  <2>1. CASE UNCHANGED <<news, registered, pending, posted>>
    BY <1>0, <1>1, <2>1 DEF AtMostOneLeft
  <2>2. CASE registered' = FALSE /\ news' = 0 /\ pending' = None /\ posted' = FALSE
    <3>1. late = 1 => draft = None
      BY <1>0 DEF AtMostOneLeft, MonitorOK
    <3> QED BY <1>0, <1>1, <2>2, <3>1 DEF AtMostOneLeft
  <2> QED BY <1>3, <2>1, <2>2
<1>6. ToldOK' /\ (told # <<>> => Head(told).good \in BOOLEAN)
  <2> DEFINE S == Upto(generation)
  <2>1. told \in Seq(S)
    BY <1>0 DEF ToldOK
  <2>2. told' = told \/ (told # <<>> /\ told' = Tail(told))
    BY DEF Connect, ReconnectWaits, SessionLost, Disconnect, HandleAndroidNetworkStateChanged
  <2>3. \A r \in S : r.good \in BOOLEAN
    BY DEF Upto
  <2> HIDE DEF S
  <2>4. told' \in Seq(S) /\ (told # <<>> => Head(told) \in S)
    BY <2>1, <2>2
  <2> QED BY <1>1, <2>3, <2>4 DEF S, ToldOK
<1>7. ClientOK'
  <2>1. state' \in {"off", "waiting", "due", "up"} /\ via' \in SomeRoute
    BY <1>0
    DEF ClientOK, Connect, ReconnectWaits, SessionLost, Disconnect,
        HandleAndroidNetworkStateChanged
  <2>2. known' \in BOOLEAN
    BY <1>0
    DEF ClientOK, Connect, ReconnectWaits, SessionLost, Disconnect,
        HandleAndroidNetworkStateChanged
  <2>3. view' \in BOOLEAN
    BY <1>0, <1>6
    DEF ClientOK, Connect, ReconnectWaits, SessionLost, Disconnect,
        HandleAndroidNetworkStateChanged
  <2> QED BY <2>1, <2>2, <2>3 DEF ClientOK
<1> QED BY <1>0, <1>1, <1>2, <1>4, <1>5, <1>6, <1>7 DEF IInv

LEMMA StepKeepsIInv == IInv /\ [MonitorNext]_monitorVars => IInv'
<1> SUFFICES ASSUME IInv, [MonitorNext]_monitorVars PROVE IInv'
  OBVIOUS
<1>1. CASE MonitorNext
  BY <1>1, NetworkKeepsIInv, MonitorKeepsIInv, ClientKeepsIInv DEF MonitorNext
<1>2. CASE UNCHANGED monitorVars
  BY <1>2 DEF monitorVars, monitor, clientVars, IInv, NetOK, MonitorOK, ToldOK, ClientOK, AtMostOneLeft
<1> QED BY <1>1, <1>2

\* The inductive invariant holds in every behaviour of Android, the monitor and
\* the client.
THEOREM Invariance == MonitorSpec => []IInv
  BY InitHolds, StepKeepsIInv, PTL DEF MonitorSpec

\* A stopped monitor delivers the snapshot it was posting, if any, and no other.
THEOREM StoppedMonitorEnds == MonitorSpec => []AtMostOneAfterStop
  BY Invariance, IInvIsEnough, PTL

-----------------------------------------------------------------------------
(* VoipService.  What a thread has left to do counts as the set of its steps: *)
(* apart from the step that begins a start or a stop, their order does not    *)
(* matter to what is proved of them.                                          *)

El(s) == {s[i] : i \in DOMAIN s}

LEMMA Join2 ==
  ASSUME NEW S, NEW s \in Seq(S), NEW t \in Seq(S)
  PROVE  s \o t \in Seq(S) /\ El(s \o t) = El(s) \union El(t)
<1>1. s \o t \in Seq(S) /\ Len(s \o t) = Len(s) + Len(t)
  OBVIOUS
<1>2. ASSUME NEW i \in 1..Len(s \o t) PROVE (s \o t)[i] \in El(s) \union El(t)
  <2>1. CASE i <= Len(s)
    <3>1. (s \o t)[i] = s[i] /\ i \in DOMAIN s
      BY <1>1, <1>2, <2>1
    <3> QED BY <3>1 DEF El
  <2>2. CASE i > Len(s)
    <3>1. (s \o t)[i] = t[i - Len(s)] /\ i - Len(s) \in DOMAIN t
      BY <1>1, <1>2, <2>2
    <3> QED BY <3>1 DEF El
  <2> QED BY <1>1, <1>2, <2>1, <2>2
<1>3. ASSUME NEW i \in DOMAIN s PROVE s[i] \in El(s \o t)
  <2>1. (s \o t)[i] = s[i] /\ i \in DOMAIN (s \o t)
    BY <1>1, <1>3
  <2> QED BY <2>1 DEF El
<1>4. ASSUME NEW i \in DOMAIN t PROVE t[i] \in El(s \o t)
  <2>1. (s \o t)[i + Len(s)] = t[i] /\ i + Len(s) \in DOMAIN (s \o t)
    BY <1>1, <1>4
  <2> QED BY <2>1 DEF El
<1>5. El(s \o t) \subseteq El(s) \union El(t)
  BY <1>1, <1>2 DEF El
<1>6. El(s) \subseteq El(s \o t) /\ El(t) \subseteq El(s \o t)
  BY <1>3, <1>4 DEF El
<1> QED BY <1>1, <1>5, <1>6

LEMMA HeadAndTail ==
  ASSUME NEW S, NEW s \in Seq(S), s # <<>>
  PROVE  /\ Head(s) \in S /\ Tail(s) \in Seq(S)
         /\ El(s) = {Head(s)} \union El(Tail(s))
<1>1. Head(s) \in S /\ Tail(s) \in Seq(S) /\ Len(Tail(s)) = Len(s) - 1 /\ Len(s) \in Nat \ {0}
  OBVIOUS
<1>2. Head(s) = s[1] /\ 1 \in DOMAIN s
  BY <1>1
<1>3. ASSUME NEW i \in DOMAIN Tail(s) PROVE Tail(s)[i] \in El(s)
  <2>1. Tail(s)[i] = s[i + 1] /\ i + 1 \in DOMAIN s
    BY <1>1, <1>3
  <2> QED BY <2>1 DEF El
<1>4. ASSUME NEW i \in DOMAIN s, i # 1 PROVE s[i] \in El(Tail(s))
  <2>1. Tail(s)[i - 1] = s[i] /\ i - 1 \in DOMAIN Tail(s)
    BY <1>1, <1>4
  <2> QED BY <2>1 DEF El
<1>5. El(s) \subseteq {Head(s)} \union El(Tail(s))
  BY <1>2, <1>4 DEF El
<1>6. El(Tail(s)) \subseteq El(s) /\ Head(s) \in El(s)
  BY <1>2, <1>3 DEF El
<1> QED BY <1>1, <1>5, <1>6

LEMMA Joins ==
  ASSUME NEW S, NEW s \in Seq(S), NEW t \in Seq(S)
  PROVE  /\ s \o t \in Seq(S) /\ El(s \o t) = El(s) \union El(t)
         /\ s # <<>> => s \o t # <<>> /\ Head(s \o t) = Head(s)
         /\ s # <<>> => Tail(s \o t) = Tail(s) \o t
<1>1. s \o t \in Seq(S) /\ El(s \o t) = El(s) \union El(t)
  BY Join2
<1>2. s # <<>> => s \o t # <<>> /\ Head(s \o t) = Head(s)
  OBVIOUS
<1>3. s # <<>> => Tail(s \o t) = Tail(s) \o t
  OBVIOUS
<1> QED BY <1>1, <1>2, <1>3

LEMMA NoStep == ASSUME NEW S PROVE <<>> \in Seq(S) /\ El(<<>>) = {}
  BY DEF El

LEMMA OneStep ==
  ASSUME NEW S, NEW a \in S
  PROVE  <<a>> \in Seq(S) /\ El(<<a>>) = {a}
<1>1. DOMAIN <<a>> = {1}
  OBVIOUS
<1> QED BY <1>1 DEF El

LEMMA TwoSteps ==
  ASSUME NEW S, NEW a \in S, NEW b \in S
  PROVE  <<a, b>> \in Seq(S) /\ El(<<a, b>>) = {a, b}
<1>1. DOMAIN <<a, b>> = {1, 2}
  OBVIOUS
<1> QED BY <1>1 DEF El

LEMMA ThreeSteps ==
  ASSUME NEW S, NEW a \in S, NEW b \in S, NEW c \in S
  PROVE  <<a, b, c>> \in Seq(S) /\ El(<<a, b, c>>) = {a, b, c}
<1>1. DOMAIN <<a, b, c>> = {1, 2, 3}
  OBVIOUS
<1> QED BY <1>1 DEF El


\* What each thread may have left to do.
What == {"status", "receive", "transmit"}
PlainSteps ==
  [op : What \union {"judge", "foreground"}, on : BOOLEAN]
    \union [op : {"show"}, what : What, on : BOOLEAN]
QtSteps ==
  PlainSteps \union {Do("monitor", FALSE), Do("enable", FALSE), Do("network", FALSE),
                     Do("keep", FALSE), Do("idle", TRUE)}
MainSteps ==
  PlainSteps
    \union [op : {"enable", "run", "wakeLock", "wifiLock", "network", "keep"}, on : BOOLEAN]
    \union [op : {"renew", "repost", "configure", "check", "stopSelf", "clear"}, on : {TRUE}]

Acquiring ==
  {Do("wakeLock", TRUE), Do("wifiLock", TRUE), Do("network", TRUE), Do("keep", TRUE),
   Do("renew", TRUE), Do("repost", TRUE), Do("configure", TRUE)}
Releasing ==
  {Do("wakeLock", FALSE), Do("wifiLock", FALSE), Do("network", FALSE), Do("keep", FALSE)}

LEMMA DoIsPlain ==
  /\ \A op \in What \union {"judge", "foreground"}, on \in BOOLEAN : Do(op, on) \in PlainSteps
  /\ \A what \in What, on \in BOOLEAN : Show(what, on) \in PlainSteps
  BY DEF Do, Show, PlainSteps

LEMMA DoIsMain ==
  /\ PlainSteps \subseteq MainSteps
  /\ \A op \in {"enable", "run", "wakeLock", "wifiLock", "network", "keep"}, on \in BOOLEAN :
       Do(op, on) \in MainSteps
  /\ \A op \in {"renew", "repost", "configure", "check", "stopSelf", "clear"} :
       Do(op, TRUE) \in MainSteps
  BY DEF Do, MainSteps

LEMMA MainJoins ==
  /\ \A s, t \in Seq(MainSteps) :
       s \o t \in Seq(MainSteps) /\ El(s \o t) = El(s) \union El(t)
  /\ \A s, t \in Seq(MainSteps) :
       s # <<>> => s \o t # <<>> /\ Head(s \o t) = Head(s) /\ Tail(s \o t) = Tail(s) \o t
  BY Joins

LEMMA PlainJoins ==
  \A s, t \in Seq(PlainSteps) :
    s \o t \in Seq(PlainSteps) /\ El(s \o t) = El(s) \union El(t)
  BY Joins

LEMMA SyncIs == Sync \in Seq(PlainSteps) /\ El(Sync) = {Do("judge", TRUE)}
<1>1. Do("judge", TRUE) \in PlainSteps
  BY DoIsPlain DEF What
<1> QED BY <1>1, OneStep DEF Sync

LEMMA ConfigureIs ==
  ASSUME NEW on \in BOOLEAN, NEW S,
         Do("enable", on) \in S, Do("network", on) \in S, Do("keep", on) \in S
  PROVE  /\ Configure(on) \in Seq(S)
         /\ El(Configure(on)) = {Do("enable", on), Do("network", on), Do("keep", on)}
  BY ThreeSteps DEF Configure

LEMMA UpdateIs ==
  ASSUME NEW what \in What, NEW on \in BOOLEAN
  PROVE  /\ Update(what, on) \in Seq(PlainSteps)
         /\ El(Update(what, on)) = {Do(what, on), Show(what, on), Do("judge", TRUE)}
<1>1. Do(what, on) \in PlainSteps /\ Show(what, on) \in PlainSteps
  BY DoIsPlain
<1>2. /\ <<Do(what, on), Show(what, on)>> \in Seq(PlainSteps)
      /\ El(<<Do(what, on), Show(what, on)>>) = {Do(what, on), Show(what, on)}
  BY <1>1, OneStep, TwoSteps, ThreeSteps
<1> QED BY <1>2, SyncIs, PlainJoins DEF Update

LEMMA StartIs ==
  /\ StartVoipService \in Seq(MainSteps) /\ StartVoipService # <<>>
  /\ Head(StartVoipService) = Do("run", TRUE)
  /\ El(StartVoipService) =
       {Do("run", TRUE), Do("status", FALSE), Show("status", FALSE), Do("wakeLock", TRUE),
        Do("wifiLock", TRUE), Do("foreground", TRUE), Do("configure", TRUE), Do("judge", TRUE)}
<1> DEFINE A == <<Do("run", TRUE), Do("status", FALSE), Show("status", FALSE)>>
           B == <<Do("foreground", TRUE), Do("configure", TRUE)>>
<1>1. /\ Do("run", TRUE) \in MainSteps /\ Do("status", FALSE) \in MainSteps
      /\ Show("status", FALSE) \in MainSteps /\ Do("wakeLock", TRUE) \in MainSteps
      /\ Do("wifiLock", TRUE) \in MainSteps /\ Do("foreground", TRUE) \in MainSteps
      /\ Do("configure", TRUE) \in MainSteps /\ Do("judge", TRUE) \in MainSteps
  BY DoIsPlain, DoIsMain DEF What
<1>2. /\ A \in Seq(MainSteps) /\ A # <<>> /\ Head(A) = Do("run", TRUE)
      /\ El(A) = {Do("run", TRUE), Do("status", FALSE), Show("status", FALSE)}
  <2>1. /\ A \in Seq(MainSteps)
        /\ El(A) = {Do("run", TRUE), Do("status", FALSE), Show("status", FALSE)}
    BY <1>1, ThreeSteps
  <2>2. A # <<>> /\ Head(A) = Do("run", TRUE)
    OBVIOUS
  <2> QED BY <2>1, <2>2
<1>3. /\ AcquireSystemLocks \in Seq(MainSteps)
      /\ El(AcquireSystemLocks) = {Do("wakeLock", TRUE), Do("wifiLock", TRUE)}
  BY <1>1, TwoSteps DEF AcquireSystemLocks
<1>4. B \in Seq(MainSteps) /\ El(B) = {Do("foreground", TRUE), Do("configure", TRUE)}
  BY <1>1, OneStep, TwoSteps, ThreeSteps
<1>5. Sync \in Seq(MainSteps) /\ El(Sync) = {Do("judge", TRUE)}
  BY <1>1, OneStep DEF Sync
<1> HIDE DEF A, B
<1>6. /\ A \o AcquireSystemLocks \in Seq(MainSteps) /\ A \o AcquireSystemLocks # <<>>
      /\ Head(A \o AcquireSystemLocks) = Head(A)
      /\ El(A \o AcquireSystemLocks) = El(A) \union El(AcquireSystemLocks)
  BY <1>2, <1>3, MainJoins
<1>7. /\ A \o AcquireSystemLocks \o B \in Seq(MainSteps) /\ A \o AcquireSystemLocks \o B # <<>>
      /\ Head(A \o AcquireSystemLocks \o B) = Head(A)
      /\ El(A \o AcquireSystemLocks \o B) = El(A) \union El(AcquireSystemLocks) \union El(B)
  BY <1>4, <1>6, MainJoins
<1>8. /\ A \o AcquireSystemLocks \o B \o Sync \in Seq(MainSteps)
      /\ A \o AcquireSystemLocks \o B \o Sync # <<>>
      /\ Head(A \o AcquireSystemLocks \o B \o Sync) = Head(A)
      /\ El(A \o AcquireSystemLocks \o B \o Sync)
           = El(A) \union El(AcquireSystemLocks) \union El(B) \union El(Sync)
  BY <1>5, <1>7, MainJoins
<1>9. StartVoipService = A \o AcquireSystemLocks \o B \o Sync
  BY DEF StartVoipService, A, B
<1> QED BY <1>2, <1>3, <1>4, <1>5, <1>8, <1>9

LEMMA StopIs ==
  /\ StopVoipServiceInternal \in Seq(MainSteps) /\ StopVoipServiceInternal # <<>>
  /\ Head(StopVoipServiceInternal) = Do("run", FALSE)
  /\ El(Tail(StopVoipServiceInternal)) =
       {Do("status", FALSE), Show("status", FALSE), Do("enable", FALSE), Do("network", FALSE),
        Do("keep", FALSE), Do("wakeLock", FALSE), Do("wifiLock", FALSE),
        Do("foreground", FALSE), Do("stopSelf", TRUE)}
<1> DEFINE A == <<Do("run", FALSE), Do("status", FALSE), Show("status", FALSE)>>
           B == <<Do("foreground", FALSE), Do("stopSelf", TRUE)>>
           T == <<Do("status", FALSE), Show("status", FALSE)>>
           F == Configure(FALSE)
           R == ReleaseSystemLocks
<1>1. /\ Do("run", FALSE) \in MainSteps /\ Do("status", FALSE) \in MainSteps
      /\ Show("status", FALSE) \in MainSteps /\ Do("wakeLock", FALSE) \in MainSteps
      /\ Do("wifiLock", FALSE) \in MainSteps /\ Do("foreground", FALSE) \in MainSteps
      /\ Do("stopSelf", TRUE) \in MainSteps /\ Do("enable", FALSE) \in MainSteps
      /\ Do("network", FALSE) \in MainSteps /\ Do("keep", FALSE) \in MainSteps
  BY DoIsPlain, DoIsMain DEF What
<1>2. /\ A \in Seq(MainSteps) /\ A # <<>> /\ Head(A) = Do("run", FALSE) /\ Tail(A) = T
      /\ T \in Seq(MainSteps) /\ El(T) = {Do("status", FALSE), Show("status", FALSE)}
  <2>1. A \in Seq(MainSteps)
    BY <1>1, ThreeSteps
  <2>2. A # <<>> /\ Head(A) = Do("run", FALSE)
    OBVIOUS
  <2>4. Tail(A) = T
    <3>1. ASSUME NEW a, NEW b, NEW c PROVE Tail(<<a, b, c>>) = <<b, c>>
      OBVIOUS
    <3> QED BY <3>1
  <2>3. T \in Seq(MainSteps) /\ El(T) = {Do("status", FALSE), Show("status", FALSE)}
    BY <1>1, TwoSteps
  <2> QED BY <2>1, <2>2, <2>3, <2>4
<1>3. R \in Seq(MainSteps) /\ El(R) = {Do("wakeLock", FALSE), Do("wifiLock", FALSE)}
  BY <1>1, TwoSteps DEF ReleaseSystemLocks
<1>4. B \in Seq(MainSteps) /\ El(B) = {Do("foreground", FALSE), Do("stopSelf", TRUE)}
  BY <1>1, OneStep, TwoSteps, ThreeSteps
<1>5. /\ F \in Seq(MainSteps)
      /\ El(F) = {Do("enable", FALSE), Do("network", FALSE), Do("keep", FALSE)}
  BY <1>1, ConfigureIs
<1>0. StopVoipServiceInternal = A \o F \o R \o B
  BY DEF StopVoipServiceInternal
<1> HIDE DEF A, B, T, F, R
<1>6. /\ A \o F \in Seq(MainSteps) /\ A \o F # <<>> /\ Head(A \o F) = Head(A)
      /\ Tail(A \o F) = T \o F /\ T \o F \in Seq(MainSteps) /\ El(T \o F) = El(T) \union El(F)
  BY <1>2, <1>5, MainJoins
<1>7. /\ A \o F \o R \in Seq(MainSteps) /\ A \o F \o R # <<>> /\ Head(A \o F \o R) = Head(A)
      /\ Tail(A \o F \o R) = T \o F \o R /\ T \o F \o R \in Seq(MainSteps)
      /\ El(T \o F \o R) = El(T) \union El(F) \union El(R)
  <2> DEFINE X == A \o F  Y == T \o F
  <2>1. X \in Seq(MainSteps) /\ X # <<>> /\ Y \in Seq(MainSteps)
    BY <1>6
  <2> HIDE DEF X, Y
  <2>2. X \o R \in Seq(MainSteps) /\ X \o R # <<>> /\ Head(X \o R) = Head(X)
    BY <1>3, <2>1, MainJoins
  <2>3. Tail(X \o R) = Tail(X) \o R
    BY <1>3, <2>1, MainJoins
  <2>4. Y \o R \in Seq(MainSteps) /\ El(Y \o R) = El(Y) \union El(R)
    BY <1>3, <2>1, MainJoins
  <2> QED BY <1>6, <2>2, <2>3, <2>4 DEF X, Y
<1>8. /\ A \o F \o R \o B \in Seq(MainSteps) /\ A \o F \o R \o B # <<>>
      /\ Head(A \o F \o R \o B) = Head(A)
      /\ Tail(A \o F \o R \o B) = T \o F \o R \o B
      /\ El(T \o F \o R \o B) = El(T) \union El(F) \union El(R) \union El(B)
  <2> DEFINE X == A \o F \o R  Y == T \o F \o R
  <2>1. X \in Seq(MainSteps) /\ X # <<>> /\ Y \in Seq(MainSteps)
    BY <1>7
  <2> HIDE DEF X, Y
  <2>2. X \o B \in Seq(MainSteps) /\ X \o B # <<>> /\ Head(X \o B) = Head(X)
    BY <1>4, <2>1, MainJoins
  <2>3. Tail(X \o B) = Tail(X) \o B
    BY <1>4, <2>1, MainJoins
  <2>4. Y \o B \in Seq(MainSteps) /\ El(Y \o B) = El(Y) \union El(B)
    BY <1>4, <2>1, MainJoins
  <2> QED BY <1>7, <2>2, <2>3, <2>4 DEF X, Y
<1> QED BY <1>0, <1>2, <1>3, <1>4, <1>5, <1>8

LEMMA DestroyIs ==
  /\ OnDestroy \in Seq(MainSteps)
  /\ El(OnDestroy) =
       {Do("keep", FALSE), Do("network", FALSE), Do("foreground", FALSE),
        Do("wakeLock", FALSE), Do("wifiLock", FALSE), Do("clear", TRUE)}
<1>1. /\ Do("wakeLock", FALSE) \in MainSteps /\ Do("wifiLock", FALSE) \in MainSteps
      /\ Do("foreground", FALSE) \in MainSteps /\ Do("clear", TRUE) \in MainSteps
      /\ Do("network", FALSE) \in MainSteps /\ Do("keep", FALSE) \in MainSteps
  BY DoIsPlain, DoIsMain DEF What
<1> DEFINE A == <<Do("keep", FALSE), Do("network", FALSE), Do("foreground", FALSE)>>
           C == <<Do("clear", TRUE)>>
<1>2. /\ A \in Seq(MainSteps)
      /\ El(A) = {Do("keep", FALSE), Do("network", FALSE), Do("foreground", FALSE)}
  BY <1>1, ThreeSteps
<1>3. /\ ReleaseSystemLocks \in Seq(MainSteps)
      /\ El(ReleaseSystemLocks) = {Do("wakeLock", FALSE), Do("wifiLock", FALSE)}
  BY <1>1, TwoSteps DEF ReleaseSystemLocks
<1>4. C \in Seq(MainSteps) /\ El(C) = {Do("clear", TRUE)}
  BY <1>1, OneStep, TwoSteps, ThreeSteps
<1>5. OnDestroy = A \o ReleaseSystemLocks \o C
  BY DEF OnDestroy
<1> HIDE DEF A, C
<1>6. /\ A \o ReleaseSystemLocks \in Seq(MainSteps)
      /\ El(A \o ReleaseSystemLocks) = El(A) \union El(ReleaseSystemLocks)
  BY <1>2, <1>3, MainJoins
<1>7. /\ A \o ReleaseSystemLocks \o C \in Seq(MainSteps)
      /\ El(A \o ReleaseSystemLocks \o C) = El(A) \union El(ReleaseSystemLocks) \union El(C)
  BY <1>4, <1>6, MainJoins
<1> QED BY <1>2, <1>3, <1>4, <1>5, <1>7

LEMMA TickIs ==
  /\ KeepAliveTick \in Seq(MainSteps)
  /\ El(KeepAliveTick) =
       {Do("renew", TRUE), Do("check", TRUE), Do("judge", TRUE), Do("repost", TRUE)}
<1>1. /\ Do("renew", TRUE) \in MainSteps /\ Do("check", TRUE) \in MainSteps
      /\ Do("judge", TRUE) \in MainSteps /\ Do("repost", TRUE) \in MainSteps
  BY DoIsPlain, DoIsMain DEF What
<1> DEFINE A == <<Do("renew", TRUE), Do("check", TRUE)>>
           C == <<Do("repost", TRUE)>>
<1>2. A \in Seq(MainSteps) /\ El(A) = {Do("renew", TRUE), Do("check", TRUE)}
  BY <1>1, OneStep, TwoSteps, ThreeSteps
<1>3. Sync \in Seq(MainSteps) /\ El(Sync) = {Do("judge", TRUE)}
  BY <1>1, OneStep DEF Sync
<1>4. C \in Seq(MainSteps) /\ El(C) = {Do("repost", TRUE)}
  BY <1>1, OneStep, TwoSteps, ThreeSteps
<1>5. KeepAliveTick = A \o Sync \o C
  BY DEF KeepAliveTick
<1> HIDE DEF A, C
<1>6. A \o Sync \in Seq(MainSteps) /\ El(A \o Sync) = El(A) \union El(Sync)
  BY <1>2, <1>3, MainJoins
<1>7. /\ A \o Sync \o C \in Seq(MainSteps)
      /\ El(A \o Sync \o C) = El(A) \union El(Sync) \union El(C)
  BY <1>4, <1>6, MainJoins
<1> QED BY <1>2, <1>3, <1>4, <1>5, <1>7


Services ==
  [running : BOOLEAN, monitoring : BOOLEAN, active : SUBSET Activities,
   foreground : BOOLEAN, network : BOOLEAN, ticking : BOOLEAN, wakeLock : BOOLEAN,
   wifiLock : BOOLEAN]
StartRequests == [op : {"start"}, on : BOOLEAN]
Requests == [op : {"start", "ptt"}, on : BOOLEAN]
Messages ==
  [op : {"create", "start", "ptt", "null", "destroy"}, on : BOOLEAN]
    \union [op : {"stop"}, of : Nat]

FieldsOK ==
  /\ service \in Services /\ created \in Nat
  /\ instance \in {0, created} /\ held \in 0..created /\ session \subseteq Activities
UserOK ==
  /\ asked \in BOOLEAN /\ saved \in BOOLEAN /\ profile \in BOOLEAN /\ visible \in BOOLEAN
  /\ client \in {"none", "off", "due", "connecting", "connected", "gone"}
StepsOK == main \in Seq(MainSteps) /\ qt \in Seq(QtSteps)
PlatformOK ==
  /\ up \in BOOLEAN /\ sticky \in BOOLEAN
  /\ inbox \in Seq(Messages) /\ delivered \in Seq(StartRequests)
ServiceTypes == FieldsOK /\ UserOK /\ StepsOK /\ PlatformOK

LEMMA MarkedIs ==
  ASSUME NEW what \in What, NEW on \in BOOLEAN, NEW flags \in SUBSET Activities
  PROVE  Marked(what, on, flags) \subseteq Activities
<1>1. CASE what = "status"
  BY <1>1 DEF Marked, Activities
<1>2. CASE what = "receive"
  BY <1>2 DEF Marked, Activities
<1>3. CASE what = "transmit"
  BY <1>3 DEF Marked, Activities
<1> QED BY <1>1, <1>2, <1>3 DEF What

LEMMA DoIs == \A op, on : Do(op, on).op = op /\ Do(op, on).on = on
  BY DEF Do

LEMMA StepShapes ==
  ASSUME NEW do \in MainSteps \union QtSteps
  PROVE  /\ do.on \in BOOLEAN
         /\ do.op \in What \union {"judge", "foreground", "show", "monitor", "enable",
              "network", "keep", "idle", "run", "wakeLock", "wifiLock", "renew", "repost",
              "configure", "check", "stopSelf", "clear"}
         /\ do.op = "show" => do.what \in What
         /\ do.op # "show" => do = Do(do.op, do.on)
<1>1. CASE do \in PlainSteps
  BY <1>1 DEF PlainSteps, Do, What
<1>2. CASE do \in QtSteps \ PlainSteps
  <2>1. \E op \in {"monitor", "enable", "network", "keep", "idle"}, on \in BOOLEAN :
          do = Do(op, on)
    BY <1>2 DEF QtSteps
  <2> QED BY <2>1, DoIs
<1>3. CASE do \in MainSteps \ PlainSteps
  BY <1>3 DEF MainSteps, Do, What
<1> QED BY <1>1, <1>2, <1>3

\* What a step writes, by the step.
LEMMA WrittenIs ==
  ASSUME NEW do, service \in Services
  PROVE  /\ do.op = "run" => Written(do) = [service EXCEPT !.running = do.on]
         /\ do.op \in What =>
              Written(do) = [service EXCEPT !.active = Marked(do.op, do.on, service.active)]
         /\ do.op \in {"wakeLock", "renew"} => Written(do) = [service EXCEPT !.wakeLock = do.on]
         /\ do.op = "wifiLock" => Written(do) = [service EXCEPT !.wifiLock = do.on]
         /\ do.op = "foreground" => Written(do) = [service EXCEPT !.foreground = do.on]
         /\ do.op = "enable" => Written(do) = [service EXCEPT !.monitoring = do.on]
         /\ do.op = "network" => Written(do) = [service EXCEPT !.network = do.on]
         /\ do.op = "keep" =>
              Written(do) = [service EXCEPT !.ticking =
                               do.on /\ (service.monitoring \/ service.ticking)]
         /\ do.op = "repost" => Written(do) = [service EXCEPT !.ticking = TRUE]
         /\ do.op = "clear" =>
              Written(do) = [service EXCEPT !.running = FALSE, !.monitoring = FALSE,
                                            !.active = {}, !.foreground = FALSE]
         /\ do.op \in {"judge", "show", "monitor", "idle", "configure", "check", "stopSelf"} =>
              Written(do) = service
<1>1. do.op = "run" => Written(do) = [service EXCEPT !.running = do.on]
  BY DEF Written
<1>2. do.op \in What =>
        Written(do) = [service EXCEPT !.active = Marked(do.op, do.on, service.active)]
  BY DEF Written, What, Services
<1>3. /\ do.op \in {"wakeLock", "renew"} => Written(do) = [service EXCEPT !.wakeLock = do.on]
      /\ do.op = "wifiLock" => Written(do) = [service EXCEPT !.wifiLock = do.on]
  BY DEF Written
<1>4. /\ do.op = "foreground" => Written(do) = [service EXCEPT !.foreground = do.on]
      /\ do.op = "enable" => Written(do) = [service EXCEPT !.monitoring = do.on]
      /\ do.op = "network" => Written(do) = [service EXCEPT !.network = do.on]
  BY DEF Written
<1>5. do.op = "keep" =>
        Written(do) = [service EXCEPT !.ticking =
                         do.on /\ (service.monitoring \/ service.ticking)]
  BY DEF Written, Services
<1>6. /\ do.op = "repost" => Written(do) = [service EXCEPT !.ticking = TRUE]
      /\ do.op = "clear" =>
           Written(do) = [service EXCEPT !.running = FALSE, !.monitoring = FALSE,
                                         !.active = {}, !.foreground = FALSE]
  BY DEF Written
<1>7. do.op \in {"judge", "show", "monitor", "idle", "configure", "check", "stopSelf"} =>
        Written(do) = service
  BY DEF Written
<1> QED BY <1>1, <1>2, <1>3, <1>4, <1>5, <1>6, <1>7

LEMMA WrittenIsTyped ==
  ASSUME service \in Services, NEW do \in MainSteps \union QtSteps
  PROVE  Written(do) \in Services
<1>0. do.on \in BOOLEAN
  BY StepShapes
<1>1. CASE do.op \in What
  <2>1. Marked(do.op, do.on, service.active) \subseteq Activities
    BY <1>0, <1>1, MarkedIs DEF Services
  <2> QED BY <1>1, <2>1, WrittenIs DEF Services
<1>2. CASE do.op = "run"
  BY <1>0, <1>2, WrittenIs DEF Services
<1>3. CASE do.op \in {"wakeLock", "renew"}
  BY <1>0, <1>3, WrittenIs DEF Services
<1>4. CASE do.op = "wifiLock"
  BY <1>0, <1>4, WrittenIs DEF Services
<1>5. CASE do.op = "foreground"
  BY <1>0, <1>5, WrittenIs DEF Services
<1>6. CASE do.op = "enable"
  BY <1>0, <1>6, WrittenIs DEF Services
<1>7. CASE do.op = "network"
  BY <1>0, <1>7, WrittenIs DEF Services
<1>8. CASE do.op = "keep"
  <2> DEFINE t == do.on /\ (service.monitoring \/ service.ticking)
  <2>1. t \in BOOLEAN
    OBVIOUS
  <2>2. Written(do) = [service EXCEPT !.ticking = t]
    BY <1>8, WrittenIs
  <2> HIDE DEF t
  <2> QED BY <2>1, <2>2 DEF Services
<1>9. CASE do.op = "repost"
  <2> DEFINE yes == TRUE
  <2>1. yes \in BOOLEAN /\ Written(do) = [service EXCEPT !.ticking = yes]
    BY <1>9, WrittenIs
  <2> HIDE DEF yes
  <2> QED BY <2>1 DEF Services
<1>11. CASE do.op = "clear"
  <2> DEFINE no == FALSE  none == {}
  <2>1. /\ no \in BOOLEAN /\ none \in SUBSET Activities
        /\ Written(do) = [service EXCEPT !.running = no, !.monitoring = no, !.active = none,
                                         !.foreground = no]
    BY <1>11, WrittenIs
  <2> HIDE DEF no, none
  <2> QED BY <2>1 DEF Services
<1>10. CASE do.op \in {"judge", "show", "monitor", "idle", "configure", "check", "stopSelf"}
  BY <1>10, WrittenIs
<1> QED BY <1>1, <1>2, <1>3, <1>4, <1>5, <1>6, <1>7, <1>8, <1>9, <1>10, <1>11, StepShapes

\* What a step leaves to do in its own place.
LEMMA FollowsIs ==
  ASSUME service \in Services, NEW do \in MainSteps \union QtSteps
  PROVE  /\ do.op = "configure" => Follows(do) = Configure(service.monitoring)
         /\ do.op = "judge" =>
              Follows(do) \in {<<>>, <<Do("foreground", TRUE)>>, <<Do("foreground", FALSE)>>}
         /\ do.op = "idle" => Follows(do) \in {<<>>, Sync}
         /\ do.op \notin {"judge", "configure", "idle"} => Follows(do) = <<>>
<1>1. do.op = "configure" => Follows(do) = Configure(service.monitoring)
  BY DEF Follows
<1>2. do.op = "judge" =>
        Follows(do) \in {<<>>, <<Do("foreground", TRUE)>>, <<Do("foreground", FALSE)>>}
  BY DEF Follows
<1>3. do.op = "idle" => Follows(do) \in {<<>>, Sync}
  BY DEF Follows
<1>4. do.op \notin {"judge", "configure", "idle"} => Follows(do) = <<>>
  BY DEF Follows
<1> QED BY <1>1, <1>2, <1>3, <1>4

LEMMA ShownIs ==
  ASSUME session \subseteq Activities, NEW do \in MainSteps \union QtSteps
  PROVE  Shown(do) \subseteq Activities
<1>1. CASE do.op = "show"
  <2>1. Marked(do.what, do.on, session) \subseteq Activities
    BY <1>1, StepShapes, MarkedIs
  <2> QED BY <1>1, <2>1 DEF Shown
<1>2. CASE do.op # "show"
  BY <1>2 DEF Shown
<1> QED BY <1>1, <1>2


\* A set of numbers has a least one.
LEMMA LeastExists ==
  ASSUME NEW T \in SUBSET Nat, T # {}
  PROVE  \E i \in T : \A j \in T : i <= j
<1>1. \E i \in T : \A j \in T : ~ (<<j, i>> \in OpToRel(<, Nat))
  BY NatLessThanWellFounded, WFMin
<1>2. \A i, j \in Nat : ~ (<<j, i>> \in OpToRel(<, Nat)) => i <= j
  BY DEF OpToRel
<1> QED BY <1>1, <1>2

\* The recursion in Undelivered has a solution, and what it gives is requests.
LEMMA UndeliveredIs ==
  ASSUME NEW q \in Seq(Messages)
  PROVE  Undelivered(q) \in Seq(Requests)
<1> DEFINE Asked(n) == q[n].op \in {"start", "ptt"}
           Part(g, n) == IF n = 0 THEN <<>>
                         ELSE IF Asked(n) THEN Append(g[n - 1], q[n]) ELSE g[n - 1]
           Solves(g, k) == g = [n \in 0..k |-> Part(g, n)]
           Bad == {k \in 0..Len(q) : ~ \E g : Solves(g, k)}
<1>0. Len(q) \in Nat /\ \A n \in 1..Len(q) : Asked(n) => q[n] \in Requests
  BY DEF Messages, Requests
<1>1. Bad = {}
  <2> SUFFICES ASSUME Bad # {} PROVE FALSE
    OBVIOUS
  <2>1. Bad \in SUBSET Nat
    BY <1>0
  <2>2. PICK k \in Bad : \A j \in Bad : k <= j
    BY <2>1, LeastExists
  <2>3. k \in Nat /\ k <= Len(q)
    BY <1>0, <2>2
  <2>4. CASE k = 0
    <3> DEFINE g == [n \in 0..0 |-> <<>>]
    <3>1. Solves(g, 0)
      OBVIOUS
    <3> QED BY <2>2, <2>4, <3>1
  <2>5. CASE k # 0
    <3>0. k - 1 \in 0..Len(q)
      BY <1>0, <2>3, <2>5
    <3>1. k - 1 \notin Bad
      <4> HIDE DEF Bad
      <4> QED BY <2>2, <2>3
    <3>2. PICK g : Solves(g, k - 1)
      BY <3>0, <3>1
    <3> DEFINE h == [n \in 0..k |-> IF n = k THEN Part(g, k) ELSE g[n]]
    <3>3. ASSUME NEW n \in 0..k PROVE h[n] = Part(h, n)
      <4>1. CASE n = 0
        BY <2>5, <3>2, <4>1
      <4>2. CASE n # 0
        <5>1. n \in Nat /\ n - 1 \in 0..k /\ n - 1 # k
          BY <2>3, <4>2
        <5>2. h[n - 1] = g[n - 1]
          BY <5>1
        <5>3. Part(h, n) = Part(g, n)
          BY <5>2
        <5>4. CASE n = k
          BY <5>3, <5>4
        <5>5. CASE n # k
          <6>1. n \in 0..(k - 1)
            BY <2>3, <5>5
          <6>2. g[n] = Part(g, n)
            BY <3>2, <6>1
          <6> QED BY <5>3, <5>5, <6>2
        <5> QED BY <5>4, <5>5
      <4> QED BY <4>1, <4>2
    <3>4. Solves(h, k)
      <4> DEFINE H == [n \in 0..k |-> Part(h, n)]
      <4>1. \A n \in 0..k : h[n] = H[n]
        BY <3>3
      <4> QED BY <4>1
    <3> QED BY <2>2, <3>4
  <2> QED BY <2>4, <2>5
<1>2. \E g : Solves(g, Len(q))
  <2>1. Len(q) \in 0..Len(q)
    BY <1>0
  <2> QED BY <1>1, <2>1
<1> DEFINE F == CHOOSE g : Solves(g, Len(q))
<1>3. Solves(F, Len(q))
  BY <1>2, Zenon
<1>4. Undelivered(q) = F[Len(q)]
  BY Zenon DEF Undelivered
<1> HIDE DEF F
<1>5. \A n \in 0..Len(q) : F[n] \in Seq(Requests)
  <2> DEFINE Wrong == {n \in 0..Len(q) : F[n] \notin Seq(Requests)}
  <2> SUFFICES ASSUME Wrong # {} PROVE FALSE
    OBVIOUS
  <2>1. Wrong \in SUBSET Nat
    BY <1>0
  <2>2. PICK k \in Wrong : \A j \in Wrong : k <= j
    BY <2>1, LeastExists
  <2>3. k \in 0..Len(q) /\ F[k] = Part(F, k)
    BY <1>3, <2>2
  <2>4. CASE k = 0
    <3>1. F[k] = <<>> /\ <<>> \in Seq(Requests)
      BY <2>3, <2>4
    <3> QED BY <2>2, <3>1
  <2>5. CASE k # 0
    <3>1. k - 1 \in 0..Len(q) /\ k \in 1..Len(q)
      BY <1>0, <2>3, <2>5
    <3>2. F[k - 1] \in Seq(Requests)
      BY <2>2, <3>1
    <3>3. CASE Asked(k)
      <4>1. q[k] \in Requests
        BY <1>0, <3>1, <3>3
      <4>2. Append(F[k - 1], q[k]) \in Seq(Requests)
        BY <3>2, <4>1
      <4> QED BY <2>2, <2>3, <2>5, <3>3, <4>2
    <3>4. CASE ~Asked(k)
      BY <2>2, <2>3, <2>5, <3>2, <3>4
    <3> QED BY <3>3, <3>4
  <2> QED BY <2>4, <2>5
<1>6. Len(q) \in 0..Len(q)
  BY <1>0
<1> QED BY <1>4, <1>5, <1>6


-----------------------------------------------------------------------------
(* The types are kept. *)

LEMMA PlainIsQt == PlainSteps \subseteq QtSteps /\ Seq(PlainSteps) \subseteq Seq(QtSteps)
<1>1. PlainSteps \subseteq QtSteps
  BY DEF QtSteps
<1>2. ASSUME NEW s \in Seq(PlainSteps) PROVE s \in Seq(QtSteps)
  <2> DEFINE P == PlainSteps  Q == QtSteps
  <2>1. P \subseteq Q /\ s \in Seq(P)
    BY <1>1
  <2> HIDE DEF P, Q
  <2>2. s \in Seq(Q)
    BY <2>1
  <2> QED BY <2>2 DEF Q
<1> QED BY <1>1, <1>2

LEMMA QtJoins ==
  \A s, t \in Seq(QtSteps) : s \o t \in Seq(QtSteps)
  BY Joins

\* What the client's calls leave for the Qt thread.
LEMMA UpdatesArePlain ==
  /\ \A what \in What, on \in BOOLEAN : Update(what, on) \in Seq(PlainSteps)
  /\ TransitionToDisconnectedState \in Seq(PlainSteps)
  /\ Update("receive", FALSE) \o Update("transmit", FALSE) \o Update("status", FALSE)
       \in Seq(PlainSteps)
  /\ <<>> \in Seq(PlainSteps)
<1>1. \A what \in What, on \in BOOLEAN : Update(what, on) \in Seq(PlainSteps)
  BY UpdateIs
<1>2. /\ Update("receive", FALSE) \in Seq(PlainSteps)
      /\ Update("transmit", FALSE) \in Seq(PlainSteps)
      /\ Update("status", FALSE) \in Seq(PlainSteps)
  BY <1>1 DEF What
<1>3. TransitionToDisconnectedState \in Seq(PlainSteps)
  BY <1>2, PlainJoins DEF TransitionToDisconnectedState
<1>4. Update("receive", FALSE) \o Update("transmit", FALSE) \o Update("status", FALSE)
        \in Seq(PlainSteps)
  BY <1>2, PlainJoins
<1> QED BY <1>1, <1>3, <1>4, NoStep

LEMMA DisconnectionIs ==
  Update("transmit", FALSE) \o Update("receive", FALSE) \o Update("status", FALSE)
    \o <<Do("monitor", FALSE)>> \o TransitionToDisconnectedState \in Seq(QtSteps)
<1>1. /\ Update("receive", FALSE) \in Seq(QtSteps)
      /\ Update("transmit", FALSE) \in Seq(QtSteps)
      /\ Update("status", FALSE) \in Seq(QtSteps)
      /\ TransitionToDisconnectedState \in Seq(QtSteps)
  BY UpdatesArePlain, PlainIsQt DEF What
<1>2. Do("monitor", FALSE) \in QtSteps
  BY DEF QtSteps
<1>3. <<Do("monitor", FALSE)>> \in Seq(QtSteps)
  BY <1>2, OneStep
<1> QED BY <1>1, <1>3, QtJoins

LEMMA MonitoringEndsIs == SetConnectionMonitoring(FALSE) \in Seq(QtSteps)
<1>1. /\ Do("enable", FALSE) \in QtSteps /\ Do("network", FALSE) \in QtSteps
      /\ Do("keep", FALSE) \in QtSteps /\ Do("idle", TRUE) \in QtSteps
  BY DEF QtSteps
<1>2. Configure(FALSE) \in Seq(QtSteps) /\ <<Do("idle", TRUE)>> \in Seq(QtSteps)
  BY <1>1, ConfigureIs, OneStep
<1> QED BY <1>2, QtJoins DEF SetConnectionMonitoring

LEMMA QtFollows ==
  ASSUME service \in Services, NEW do \in QtSteps
  PROVE  Follows(do) \in Seq(PlainSteps)
<1>1. do.op # "configure"
  <2>1. CASE do \in PlainSteps
    BY <2>1 DEF PlainSteps, What
  <2>2. CASE do \notin PlainSteps
    <3>1. \E op \in {"monitor", "enable", "network", "keep", "idle"}, on \in BOOLEAN :
            do = Do(op, on)
      BY <2>2 DEF QtSteps
    <3> QED BY <3>1, DoIs
  <2> QED BY <2>1, <2>2
<1>2. Do("foreground", TRUE) \in PlainSteps /\ Do("foreground", FALSE) \in PlainSteps
  BY DoIsPlain
<1>3. /\ <<Do("foreground", TRUE)>> \in Seq(PlainSteps)
      /\ <<Do("foreground", FALSE)>> \in Seq(PlainSteps)
      /\ <<>> \in Seq(PlainSteps) /\ Sync \in Seq(PlainSteps)
  BY <1>2, OneStep, NoStep, SyncIs
<1> QED BY <1>1, <1>3, FollowsIs

LEMMA MainFollows ==
  ASSUME service \in Services, NEW do \in MainSteps
  PROVE  /\ Follows(do) \in Seq(MainSteps)
         /\ do.op # "configure" =>
              El(Follows(do)) \subseteq {Do("foreground", TRUE), Do("foreground", FALSE)}
         /\ do.op = "configure" =>
              El(Follows(do)) = {Do("enable", service.monitoring),
                Do("network", service.monitoring), Do("keep", service.monitoring)}
<1>1. do.op # "idle"
  <2>1. CASE do \in PlainSteps
    BY <2>1 DEF PlainSteps, What
  <2>2. CASE do \notin PlainSteps
    BY <2>2 DEF MainSteps
  <2> QED BY <2>1, <2>2
<1>2. CASE do.op = "configure"
  <2>1. service.monitoring \in BOOLEAN
    BY DEF Services
  <2>2. \A on \in BOOLEAN : /\ Do("enable", on) \in MainSteps /\ Do("network", on) \in MainSteps
                            /\ Do("keep", on) \in MainSteps
    BY DoIsMain
  <2> QED BY <1>2, <2>1, <2>2, ConfigureIs, FollowsIs
<1>3. CASE do.op = "judge"
  <2>1. Do("foreground", TRUE) \in MainSteps /\ Do("foreground", FALSE) \in MainSteps
    BY DoIsPlain, DoIsMain
  <2>2. /\ <<Do("foreground", TRUE)>> \in Seq(MainSteps)
        /\ El(<<Do("foreground", TRUE)>>) = {Do("foreground", TRUE)}
        /\ <<Do("foreground", FALSE)>> \in Seq(MainSteps)
        /\ El(<<Do("foreground", FALSE)>>) = {Do("foreground", FALSE)}
    BY <2>1, OneStep
  <2>3. <<>> \in Seq(MainSteps) /\ El(<<>>) = {}
    BY NoStep
  <2>4. Follows(do) \in {<<>>, <<Do("foreground", TRUE)>>, <<Do("foreground", FALSE)>>}
    BY <1>3, FollowsIs
  <2> QED BY <1>3, <2>2, <2>3, <2>4
<1>4. CASE do.op \notin {"configure", "judge"}
  <2>1. Follows(do) = <<>>
    BY <1>1, <1>4, FollowsIs
  <2> QED BY <1>4, <2>1, NoStep
<1> QED BY <1>2, <1>3, <1>4

LEMMA RequestKeeps ==
  ASSUME PlatformOK, NEW m \in Messages, Request(m)
  PROVE  PlatformOK'
<1>1. Do("create", TRUE) \in Messages
  BY DEF Do, Messages
<1>2. <<m>> \in Seq(Messages) /\ <<Do("create", TRUE), m>> \in Seq(Messages)
  BY <1>1, OneStep, TwoSteps
<1>3. inbox' \in Seq(Messages)
  BY <1>2, Joins DEF Request, PlatformOK
<1> QED BY <1>3 DEF Request, PlatformOK

LEMMA StopSelfKeeps ==
  ASSUME PlatformOK, StopSelf
  PROVE  PlatformOK'
<1>1. Do("destroy", TRUE) \in Messages
  BY DEF Do, Messages
<1>2. inbox' \in Seq(Messages)
  <2>1. \A s \in Seq(Messages) : Append(s, Do("destroy", TRUE)) \in Seq(Messages)
    <3> DEFINE d == Do("destroy", TRUE)  M == Messages
    <3>1. d \in M
      BY <1>1
    <3> HIDE DEF d, M
    <3>2. \A s \in Seq(M) : Append(s, d) \in Seq(M)
      BY <3>1
    <3> QED BY <3>2 DEF d, M
  <2>2. inbox \in Seq(Messages)
    BY DEF PlatformOK
  <2>3. CASE up
    BY <2>1, <2>2, <2>3 DEF StopSelf
  <2>4. CASE ~up
    BY <2>2, <2>4 DEF StopSelf
  <2> QED BY <2>3, <2>4
<1>3. <<>> \in Seq(StartRequests)
  OBVIOUS
<1> QED BY <1>2, <1>3 DEF StopSelf, PlatformOK

LEMMA TakesIs ==
  ASSUME PlatformOK, NEW op, Takes(op)
  PROVE  /\ inbox' \in Seq(Messages) /\ Head(inbox) \in Messages /\ Head(inbox).op = op
         /\ main = <<>> /\ inbox # <<>>
         /\ El(inbox) = {Head(inbox)} \union El(inbox') /\ inbox' = Tail(inbox)
<1>1. inbox # <<>> /\ inbox \in Seq(Messages)
  BY DEF Takes, PlatformOK
<1> QED BY <1>1, HeadAndTail DEF Takes


LEMMA TypesAtFirst == Init => ServiceTypes
<1> SUFFICES ASSUME Init PROVE ServiceTypes
  OBVIOUS
<1>1. FieldsOK
  <2>1. service \in Services
    BY DEF Init, Fresh, Services
  <2> QED BY <2>1 DEF Init, FieldsOK
<1>2. UserOK
  BY DEF Init, UserOK
<1>3. StepsOK
  BY NoStep DEF Init, StepsOK
<1>4. PlatformOK
  BY NoStep DEF Init, PlatformOK
<1> QED BY <1>1, <1>2, <1>3, <1>4 DEF ServiceTypes

\* A request for the service is a message.
LEMMA RequestIs ==
  /\ \A on \in BOOLEAN : Do("start", on) \in Messages
  /\ Do("ptt", TRUE) \in Messages /\ Do("create", TRUE) \in Messages
  /\ Do("null", TRUE) \in Messages /\ Requests \subseteq Messages
  /\ \A n \in Nat : [op |-> "stop", of |-> n] \in Messages
  BY DEF Do, Messages, Requests

LEMMA EnsureKeeps ==
  ASSUME PlatformOK, EnsureControllerService
  PROVE  PlatformOK'
<1>1. CASE profile /\ (instance = 0 \/ ~service.running)
  BY <1>1, RequestIs, RequestKeeps DEF EnsureControllerService, StartService
<1>2. CASE ~(profile /\ (instance = 0 \/ ~service.running))
  BY <1>2 DEF EnsureControllerService, platform, PlatformOK
<1> QED BY <1>1, <1>2

LEMMA StopServiceKeeps ==
  ASSUME ServiceTypes, StopService
  PROVE  PlatformOK'
<1>0. PlatformOK /\ instance \in Nat
  BY DEF ServiceTypes, FieldsOK
<1>1. CASE instance = 0
  BY <1>0, <1>1, StopSelfKeeps DEF StopService
<1>2. CASE instance # 0
  <2> DEFINE d == [op |-> "stop", of |-> instance]  M == Messages
  <2>1. d \in M /\ inbox \in Seq(M)
    BY <1>0, RequestIs DEF PlatformOK
  <2>2. inbox' = Append(inbox, d) /\ UNCHANGED <<up, delivered, sticky>>
    BY <1>2 DEF StopService
  <2> HIDE DEF d, M
  <2>3. inbox' \in Seq(M)
    BY <2>1, <2>2
  <2> QED BY <1>0, <2>2, <2>3 DEF PlatformOK, M
<1> QED BY <1>1, <1>2

\* The main thread's messages.
LEMMA HandlesMessageTypes == ServiceTypes /\ HandlesMessage => ServiceTypes'
<1> SUFFICES ASSUME ServiceTypes, HandlesMessage PROVE ServiceTypes'
  OBVIOUS
<1>0. FieldsOK /\ UserOK /\ StepsOK /\ PlatformOK
  BY DEF ServiceTypes
<1>1. CASE OnCreate
  <2>1. inbox' \in Seq(Messages)
    BY <1>0, <1>1, TakesIs DEF OnCreate
  <2>2. service' \in Services
    <3> DEFINE yes == TRUE
    <3>1. yes \in BOOLEAN /\ service' = [service EXCEPT !.foreground = yes]
      BY <1>1 DEF OnCreate
    <3> HIDE DEF yes
    <3> QED BY <1>0, <3>1 DEF FieldsOK, Services
  <2>3. FieldsOK'
    BY <1>0, <1>1, <2>2 DEF OnCreate, FieldsOK
  <2> QED BY <1>0, <1>1, <2>1, <2>3
        DEF OnCreate, ServiceTypes, UserOK, StepsOK, PlatformOK, user, counters
<1>2. CASE OnStartCommandStart
  <2>1. inbox' \in Seq(Messages) /\ Head(inbox) \in Messages /\ Head(inbox).op = "start"
    BY <1>0, <1>2, TakesIs DEF OnStartCommandStart
  <2>2. Head(inbox) \in StartRequests
    BY <2>1 DEF Messages, StartRequests
  <2>3. delivered' \in Seq(StartRequests)
    <3> DEFINE h == Head(inbox)
    <3>1. h \in StartRequests /\ delivered' = Append(delivered, h)
      BY <1>2, <2>2 DEF OnStartCommandStart
    <3> HIDE DEF h
    <3> QED BY <1>0, <3>1 DEF PlatformOK
  <2>4. service' \in Services
    <3> DEFINE on == Head(inbox).on
    <3>1. on \in BOOLEAN /\ service' = [service EXCEPT !.monitoring = on]
      BY <1>2, <2>2 DEF OnStartCommandStart, StartRequests
    <3> HIDE DEF on
    <3> QED BY <1>0, <3>1 DEF FieldsOK, Services
  <2>5. StepsOK'
    BY <1>0, <1>2, StartIs DEF OnStartCommandStart, StepsOK
  <2>6. FieldsOK' /\ UserOK'
    BY <1>0, <1>2, <2>4 DEF OnStartCommandStart, FieldsOK, UserOK, user
  <2>7. PlatformOK'
    BY <1>0, <1>2, <2>1, <2>3 DEF OnStartCommandStart, PlatformOK
  <2> QED BY <2>5, <2>6, <2>7 DEF ServiceTypes
<1>3. CASE OnStartCommandPtt
  <2>1. inbox' \in Seq(Messages)
    BY <1>0, <1>3, TakesIs DEF OnStartCommandPtt
  <2>2. StepsOK'
    BY <1>0, <1>3, StartIs, NoStep DEF OnStartCommandPtt, StepsOK
  <2> QED BY <1>0, <1>3, <2>1, <2>2
        DEF OnStartCommandPtt, ServiceTypes, FieldsOK, UserOK, PlatformOK, user
<1>4. CASE OnStartCommandNull
  <2>1. inbox' \in Seq(Messages)
    BY <1>0, <1>4, TakesIs DEF OnStartCommandNull
  <2>2. Do("stopSelf", TRUE) \in MainSteps
    BY DoIsMain
  <2>3. <<Do("stopSelf", TRUE)>> \in Seq(MainSteps)
    BY <2>2, OneStep
  <2>4. StepsOK'
    BY <1>0, <1>4, <2>3 DEF OnStartCommandNull, StepsOK
  <2> QED BY <1>0, <1>4, <2>1, <2>4
        DEF OnStartCommandNull, ServiceTypes, FieldsOK, UserOK, PlatformOK, user
<1>5. CASE RunStop
  <2>1. inbox' \in Seq(Messages)
    BY <1>0, <1>5, TakesIs DEF RunStop
  <2>2. StepsOK'
    BY <1>0, <1>5, StopIs, NoStep DEF RunStop, StepsOK
  <2> QED BY <1>0, <1>5, <2>1, <2>2
        DEF RunStop, ServiceTypes, FieldsOK, UserOK, PlatformOK, user
<1>6. CASE Destroy
  <2>1. inbox' \in Seq(Messages)
    BY <1>0, <1>6, TakesIs DEF Destroy
  <2>2. StepsOK'
    BY <1>0, <1>6, DestroyIs DEF Destroy, StepsOK
  <2> QED BY <1>0, <1>6, <2>1, <2>2
        DEF Destroy, ServiceTypes, FieldsOK, UserOK, PlatformOK, user
<1> QED BY <1>1, <1>2, <1>3, <1>4, <1>5, <1>6 DEF HandlesMessage

\* The main thread's timer and its steps.
LEMMA MainThreadTypes == ServiceTypes /\ (RunKeepAlive \/ StepMain) => ServiceTypes'
<1> SUFFICES ASSUME ServiceTypes, RunKeepAlive \/ StepMain PROVE ServiceTypes'
  OBVIOUS
<1>0. FieldsOK /\ UserOK /\ StepsOK /\ PlatformOK
  BY DEF ServiceTypes
<1>1. CASE RunKeepAlive
  <2>1. service' \in Services
    <3> DEFINE no == FALSE
    <3>1. no \in BOOLEAN /\ service' = [service EXCEPT !.ticking = no]
      BY <1>1 DEF RunKeepAlive
    <3> HIDE DEF no
    <3> QED BY <1>0, <3>1 DEF FieldsOK, Services
  <2>2. StepsOK'
    BY <1>0, <1>1, TickIs, NoStep DEF RunKeepAlive, StepsOK
  <2> QED BY <1>0, <1>1, <2>1, <2>2
        DEF RunKeepAlive, ServiceTypes, FieldsOK, UserOK, PlatformOK, user, platform
<1>2. CASE StepMain
  <2> DEFINE do == Head(main)  rest == Tail(main)
  <2>1. do \in MainSteps /\ rest \in Seq(MainSteps)
    BY <1>0, <1>2, HeadAndTail DEF StepMain, StepsOK
  <2>2. /\ main' = Follows(do) \o rest /\ service' = Written(do) /\ session' = Shown(do)
        /\ instance' = IF do.op = "clear" THEN 0 ELSE instance
        /\ asked' = (asked \/ do.op = "check")
        /\ IF do.op = "stopSelf" THEN StopSelf ELSE UNCHANGED platform
        /\ UNCHANGED <<created, qt, held, user, visible, counters>>
    BY <1>2 DEF StepMain
  <2> HIDE DEF do, rest
  <2>3. main' \in Seq(MainSteps)
    <3>1. Follows(do) \in Seq(MainSteps)
      BY <1>0, <2>1, MainFollows DEF FieldsOK
    <3> QED BY <2>1, <2>2, <3>1, MainJoins
  <2>4. service' \in Services /\ session' \subseteq Activities
    <3>1. Written(do) \in Services
      BY <1>0, <2>1, WrittenIsTyped DEF FieldsOK
    <3>2. Shown(do) \subseteq Activities
      BY <1>0, <2>1, ShownIs DEF FieldsOK
    <3> QED BY <2>2, <3>1, <3>2
  <2>5. FieldsOK'
    BY <1>0, <2>2, <2>4 DEF FieldsOK
  <2>6. UserOK' /\ StepsOK'
    BY <1>0, <2>2, <2>3 DEF UserOK, StepsOK, user
  <2>7. PlatformOK'
    <3>1. CASE do.op = "stopSelf"
      BY <1>0, <2>2, <3>1, StopSelfKeeps
    <3>2. CASE do.op # "stopSelf"
      BY <1>0, <2>2, <3>2 DEF PlatformOK, platform
    <3> QED BY <3>1, <3>2
  <2> QED BY <2>5, <2>6, <2>7 DEF ServiceTypes
<1> QED BY <1>1, <1>2


\* The Qt thread's steps.
LEMMA StepQtTypes == ServiceTypes /\ StepQt => ServiceTypes'
<1> SUFFICES ASSUME ServiceTypes, StepQt PROVE ServiceTypes'
  OBVIOUS
<1>0. FieldsOK /\ UserOK /\ StepsOK /\ PlatformOK
  BY DEF ServiceTypes
<1> DEFINE do == Head(qt)  rest == Tail(qt)
           object == IF do.op \in {"status", "receive", "transmit"} THEN instance ELSE held
           works == object = instance /\ instance # 0
           left == (IF works THEN Follows(do) ELSE <<>>) \o rest
<1>1. do \in QtSteps /\ rest \in Seq(QtSteps)
  BY <1>0, HeadAndTail DEF StepQt, StepsOK
<1>2. /\ qt' = left /\ held' = (IF left = <<>> THEN 0 ELSE object)
      /\ service' = (IF works THEN Written(do) ELSE service)
      /\ session' = (IF works THEN Shown(do) ELSE session)
      /\ UNCHANGED <<instance, created, main, platform, asked, user, visible, counters>>
  BY DEF StepQt
<1> HIDE DEF do, rest
<1>3. left \in Seq(QtSteps)
  <2>1. Follows(do) \in Seq(QtSteps) /\ <<>> \in Seq(QtSteps)
    BY <1>0, <1>1, QtFollows, PlainIsQt, NoStep DEF FieldsOK
  <2>2. CASE works
    BY <1>1, <2>1, <2>2, QtJoins
  <2>3. CASE ~works
    BY <1>1, <2>1, <2>3, QtJoins
  <2> QED BY <2>2, <2>3
<1>4. Written(do) \in Services /\ Shown(do) \subseteq Activities
  BY <1>0, <1>1, WrittenIsTyped, ShownIs DEF FieldsOK
<1>5. object \in 0..created
  BY <1>0 DEF FieldsOK
<1> HIDE DEF left, works, object
<1>6. StepsOK'
  BY <1>0, <1>2, <1>3 DEF StepsOK
<1>7. service' \in Services /\ session' \subseteq Activities /\ held' \in 0..created
  BY <1>0, <1>2, <1>4, <1>5 DEF FieldsOK
<1>8. FieldsOK'
  BY <1>0, <1>2, <1>7 DEF FieldsOK
<1>9. UserOK' /\ PlatformOK'
  BY <1>0, <1>2 DEF UserOK, PlatformOK, user, platform
<1> QED BY <1>6, <1>8, <1>9 DEF ServiceTypes

\* What the client's calls leave, and to whom.
LEMMA ConnectToServerTypes == ServiceTypes /\ ConnectToServer => ServiceTypes'
<1> SUFFICES ASSUME ServiceTypes, ConnectToServer PROVE ServiceTypes'
  OBVIOUS
<1> DEFINE steps == Update("receive", FALSE) \o Update("transmit", FALSE)
                      \o Update("status", FALSE)
<1>1. steps \in Seq(QtSteps)
  BY UpdatesArePlain, PlainIsQt
<1>2. /\ Calls(steps) /\ StartService(TRUE) /\ client' = "connecting" /\ SaveConnectionState
      /\ UNCHANGED <<asked, killed>>
  BY DEF ConnectToServer
<1> HIDE DEF steps
<1>3. FieldsOK' /\ StepsOK'
  BY <1>1, <1>2 DEF ServiceTypes, Calls, FieldsOK, StepsOK
<1>4. UserOK'
  BY <1>2 DEF ServiceTypes, Calls, UserOK, SaveConnectionState
<1>5. PlatformOK'
  BY <1>2, RequestIs, RequestKeeps DEF ServiceTypes, StartService
<1> QED BY <1>3, <1>4, <1>5 DEF ServiceTypes

LEMMA DisconnectFromServerTypes == ServiceTypes /\ DisconnectFromServer => ServiceTypes'
<1> SUFFICES ASSUME ServiceTypes, DisconnectFromServer PROVE ServiceTypes'
  OBVIOUS
<1> DEFINE steps == Update("transmit", FALSE) \o Update("receive", FALSE)
                      \o Update("status", FALSE) \o <<Do("monitor", FALSE)>>
                      \o TransitionToDisconnectedState
<1>1. steps \in Seq(QtSteps)
  BY DisconnectionIs
<1>2. /\ Calls(steps) /\ client' = "off" /\ ClearConnectionState
      /\ UNCHANGED <<platform, asked, counters>>
  BY DEF DisconnectFromServer
<1> HIDE DEF steps
<1>3. FieldsOK' /\ StepsOK'
  BY <1>1, <1>2 DEF ServiceTypes, Calls, FieldsOK, StepsOK
<1>4. UserOK' /\ PlatformOK'
  BY <1>2 DEF ServiceTypes, Calls, UserOK, PlatformOK, platform, ClearConnectionState
<1> QED BY <1>3, <1>4 DEF ServiceTypes

\* The calls of a connection and of its traffic.
LEMMA ClientTypes ==
  ServiceTypes /\ (SetupReady \/ ConnectionLost \/ Hears \/ Transmits \/ CheckAndReconnect)
    => ServiceTypes'
<1> SUFFICES ASSUME ServiceTypes,
                    SetupReady \/ ConnectionLost \/ Hears \/ Transmits \/ CheckAndReconnect
             PROVE  ServiceTypes'
  OBVIOUS
<1>1. PICK steps \in Seq(QtSteps) : Calls(steps)
  <2>1. CASE SetupReady
    BY <2>1, UpdatesArePlain, PlainIsQt DEF SetupReady, Reaches, What
  <2>2. CASE ConnectionLost
    BY <2>2, UpdatesArePlain, PlainIsQt DEF ConnectionLost, Reaches
  <2>3. CASE Hears
    BY <2>3, UpdatesArePlain, PlainIsQt DEF Hears, What
  <2>4. CASE Transmits
    BY <2>4, UpdatesArePlain, PlainIsQt DEF Transmits, What
  <2>5. CASE CheckAndReconnect
    BY <2>5, UpdatesArePlain, PlainIsQt DEF CheckAndReconnect, What
  <2> QED BY <2>1, <2>2, <2>3, <2>4, <2>5
<1>2. /\ UNCHANGED <<platform, saved, profile>> /\ asked' \in BOOLEAN
      /\ client' \in {client, "due", "connected"}
  BY DEF SetupReady, ConnectionLost, Hears, Transmits, CheckAndReconnect, Reaches, user,
         ServiceTypes, UserOK
<1>3. FieldsOK' /\ StepsOK'
  BY <1>1 DEF ServiceTypes, Calls, FieldsOK, StepsOK
<1>4. UserOK' /\ PlatformOK'
  BY <1>1, <1>2 DEF ServiceTypes, Calls, UserOK, PlatformOK, platform
<1> QED BY <1>3, <1>4 DEF ServiceTypes

\* The launch, the end of the application and the service's monitoring.
LEMMA LaunchTypes ==
  ServiceTypes /\ (Launch \/ Shutdown \/ SetServiceConnectionMonitoring) => ServiceTypes'
<1> SUFFICES ASSUME ServiceTypes, Launch \/ Shutdown \/ SetServiceConnectionMonitoring
             PROVE  ServiceTypes'
  OBVIOUS
<1>0. FieldsOK /\ UserOK /\ StepsOK /\ PlatformOK
  BY DEF ServiceTypes
<1>1. CASE Launch
  <2>1. PlatformOK'
    <3>1. CASE UNCHANGED platform
      BY <1>0, <3>1 DEF PlatformOK, platform
    <3>2. CASE EnsureControllerService
      BY <1>0, <3>2, EnsureKeeps
    <3> QED BY <1>1, <3>1, <3>2 DEF Launch
  <2>2. FieldsOK' /\ UserOK' /\ StepsOK'
    BY <1>0, <1>1, NoStep DEF Launch, Calls, FieldsOK, UserOK, StepsOK
  <2> QED BY <2>1, <2>2 DEF ServiceTypes
<1>2. CASE Shutdown
  <2>1. PlatformOK'
    BY <1>2, StopServiceKeeps DEF Shutdown
  <2>2. FieldsOK' /\ UserOK' /\ StepsOK'
    BY <1>0, <1>2, NoStep DEF Shutdown, Calls, FieldsOK, UserOK, StepsOK, ClearConnectionState
  <2> QED BY <2>1, <2>2 DEF ServiceTypes
<1>3. CASE SetServiceConnectionMonitoring
  <2>0. qt # <<>> /\ Tail(qt) \in Seq(QtSteps)
    BY <1>0, <1>3, HeadAndTail DEF SetServiceConnectionMonitoring, StepsOK
  <2>1. PlatformOK'
    BY <1>0, <1>3, EnsureKeeps DEF SetServiceConnectionMonitoring, PlatformOK, platform
  <2>2. qt' \in Seq(QtSteps)
    BY <1>3, <2>0, MonitoringEndsIs, QtJoins DEF SetServiceConnectionMonitoring
  <2>3. held' \in 0..created
    <3>1. held' \in {held, instance}
      BY <1>3 DEF SetServiceConnectionMonitoring
    <3> QED BY <1>0, <3>1 DEF FieldsOK
  <2>4. UNCHANGED <<service, instance, created, session, main, asked, user, visible>>
    BY <1>3 DEF SetServiceConnectionMonitoring
  <2>5. FieldsOK' /\ UserOK' /\ StepsOK'
    BY <1>0, <2>2, <2>3, <2>4 DEF FieldsOK, UserOK, StepsOK, user
  <2> QED BY <2>1, <2>5 DEF ServiceTypes
<1> QED BY <1>1, <1>2, <1>3

LEMMA AgainIs ==
  ASSUME PlatformOK
  PROVE  /\ Again \in Seq(Messages)
         /\ <<Do("create", TRUE)>> \o Again \in Seq(Messages)
<1>1. Undelivered(inbox) \in Seq(Requests)
  BY UndeliveredIs DEF PlatformOK
<1>2. delivered \in Seq(Requests)
  <2>1. StartRequests \subseteq Requests
    BY DEF StartRequests, Requests
  <2> DEFINE A == StartRequests  B == Requests
  <2>2. A \subseteq B /\ delivered \in Seq(A)
    BY <2>1 DEF PlatformOK
  <2> HIDE DEF A, B
  <2>3. delivered \in Seq(B)
    BY <2>2
  <2> QED BY <2>3 DEF B
<1>3. delivered \o Undelivered(inbox) \in Seq(Messages)
  <2> DEFINE B == Requests  M == Messages  u == Undelivered(inbox)
  <2>1. B \subseteq M /\ delivered \in Seq(B) /\ u \in Seq(B)
    BY <1>1, <1>2, RequestIs
  <2> HIDE DEF B, M, u
  <2>2. delivered \o u \in Seq(M)
    BY <2>1
  <2> QED BY <2>2 DEF M, u
<1>4. /\ <<>> \in Seq(Messages) /\ <<Do("null", TRUE)>> \in Seq(Messages)
      /\ <<Do("create", TRUE)>> \in Seq(Messages)
  BY RequestIs, OneStep, NoStep
<1>5. Again \in Seq(Messages)
  BY <1>3, <1>4 DEF Again
<1> QED BY <1>4, <1>5, Joins

LEMMA KillTypes == ServiceTypes /\ Kill => ServiceTypes'
<1> SUFFICES ASSUME ServiceTypes, Kill PROVE ServiceTypes'
  OBVIOUS
<1>1. inbox' \in Seq(Messages) /\ up' \in BOOLEAN
  <2>1. PlatformOK
    BY DEF ServiceTypes
  <2>2. <<>> \in Seq(Messages)
    BY NoStep
  <2> QED BY <2>1, <2>2, AgainIs DEF Kill
<1>2. /\ service' = Fresh /\ instance' = 0 /\ session' = {} /\ main' = <<>> /\ qt' = <<>>
      /\ held' = 0 /\ asked' = FALSE /\ client' = "none" /\ visible' = FALSE
      /\ delivered' = <<>> /\ sticky' = FALSE
      /\ UNCHANGED <<created, saved, profile>>
  BY DEF Kill
<1>3. Fresh \in Services
  BY DEF Fresh, Services
<1>4. FieldsOK'
  BY <1>2, <1>3 DEF FieldsOK, ServiceTypes
<1>5. UserOK'
  BY <1>2 DEF UserOK, ServiceTypes
<1>6. StepsOK' /\ PlatformOK'
  BY <1>1, <1>2, NoStep DEF StepsOK, PlatformOK
<1> QED BY <1>4, <1>5, <1>6 DEF ServiceTypes

\* The keys, the activity, the network and the wake lock.
LEMMA WorldTypes ==
  ServiceTypes /\ (PttKey \/ ActivityComesOrGoes \/ NetworkSnapshot \/ WakeLockExpires)
    => ServiceTypes'
<1> SUFFICES ASSUME ServiceTypes,
                    PttKey \/ ActivityComesOrGoes \/ NetworkSnapshot \/ WakeLockExpires
             PROVE  ServiceTypes'
  OBVIOUS
<1>0. FieldsOK /\ UserOK /\ StepsOK /\ PlatformOK
  BY DEF ServiceTypes
<1>1. CASE PttKey
  <2>1. PlatformOK'
    BY <1>0, <1>1, RequestIs, RequestKeeps DEF PttKey
  <2> QED BY <1>0, <1>1, <2>1 DEF PttKey, ServiceTypes, FieldsOK, UserOK, StepsOK, user
<1>2. CASE ActivityComesOrGoes
  BY <1>0, <1>2
     DEF ActivityComesOrGoes, ServiceTypes, FieldsOK, UserOK, StepsOK, PlatformOK, user, platform
<1>3. CASE NetworkSnapshot
  BY <1>0, <1>3
     DEF NetworkSnapshot, ServiceTypes, FieldsOK, UserOK, StepsOK, PlatformOK, user, platform
<1>4. CASE WakeLockExpires
  <2>1. service' \in Services
    <3> DEFINE no == FALSE
    <3>1. no \in BOOLEAN /\ service' = [service EXCEPT !.wakeLock = no]
      BY <1>4 DEF WakeLockExpires
    <3> HIDE DEF no
    <3> QED BY <1>0, <3>1 DEF FieldsOK, Services
  <2> QED BY <1>0, <1>4, <2>1
          DEF WakeLockExpires, ServiceTypes, FieldsOK, UserOK, StepsOK, PlatformOK, user, platform
<1> QED BY <1>1, <1>2, <1>3, <1>4

LEMMA TypesKept == ServiceTypes /\ [Next]_vars => ServiceTypes'
<1> SUFFICES ASSUME ServiceTypes, [Next]_vars PROVE ServiceTypes'
  OBVIOUS
<1>1. CASE UNCHANGED vars
  BY <1>1 DEF vars, ServiceTypes, FieldsOK, UserOK, StepsOK, PlatformOK, user, platform
<1>2. CASE Next
  BY <1>2, HandlesMessageTypes, MainThreadTypes, StepQtTypes, ConnectToServerTypes,
     DisconnectFromServerTypes, ClientTypes, LaunchTypes, KillTypes, WorldTypes
     DEF Next, MediaPlay, MediaStop
<1> QED BY <1>1, <1>2


-----------------------------------------------------------------------------
(* What a service that stops gives back. *)

\* Whatever is held, the step that gives it back is still to come.
LetsGo ==
  /\ service.wakeLock => Do("wakeLock", FALSE) \in El(main)
  /\ service.wifiLock => Do("wifiLock", FALSE) \in El(main)
  /\ service.network => Do("network", FALSE) \in El(main)
  /\ service.ticking => Do("keep", FALSE) \in El(main)

\* Nothing the main thread has left to do takes anything.
Idle == Acquiring \intersect El(main) = {}

HeldWhileRunning ==
  /\ ~service.running => LetsGo
  /\ service.running \/ Idle \/ Head(main) = Do("run", TRUE)

\* A stop has everything to give back before it, and no start within it.
StopReleases ==
  main # <<>> =>
    /\ Do("run", FALSE) \notin El(Tail(main))
    /\ Head(main) = Do("run", FALSE) => Releasing \subseteq El(main) /\ Idle

\* So has the end of an object.
DestroyReleases == Do("clear", TRUE) \in El(main) => LetsGo /\ Idle

Releases == HeldWhileRunning /\ StopReleases /\ DestroyReleases

LEMMA DoTrueIs == \A op : Do(op, TRUE).op = op /\ Do(op, TRUE).on = TRUE
  BY DEF Do

LEMMA DoFalseIs == \A op : Do(op, FALSE).op = op /\ Do(op, FALSE).on = FALSE
  BY DEF Do

LEMMA DoDiffers ==
  \A op, p, on, q : Do(op, on) = Do(p, q) => op = p /\ on = q
  BY DoIs

\* The flags a step leaves.
LEMMA FlagsAre ==
  ASSUME service \in Services, NEW do \in MainSteps \union QtSteps
  PROVE  /\ Written(do).running =
              (IF do.op = "run" THEN do.on ELSE IF do.op = "clear" THEN FALSE
               ELSE service.running)
         /\ Written(do).monitoring =
              (IF do.op = "enable" THEN do.on ELSE IF do.op = "clear" THEN FALSE
               ELSE service.monitoring)
         /\ Written(do).wakeLock =
              (IF do.op \in {"wakeLock", "renew"} THEN do.on ELSE service.wakeLock)
         /\ Written(do).wifiLock = (IF do.op = "wifiLock" THEN do.on ELSE service.wifiLock)
         /\ Written(do).network = (IF do.op = "network" THEN do.on ELSE service.network)
         /\ do.op = "repost" => Written(do).ticking = TRUE
         /\ do.op = "keep" =>
              Written(do).ticking = (do.on /\ (service.monitoring \/ service.ticking))
         /\ do.op \notin {"keep", "repost"} => Written(do).ticking = service.ticking
<1>1. CASE do.op \in What
  <2> DEFINE a == Marked(do.op, do.on, service.active)
  <2>1. Written(do) = [service EXCEPT !.active = a]
    BY <1>1, WrittenIs
  <2> HIDE DEF a
  <2>2. /\ Written(do).running = service.running
        /\ Written(do).monitoring = service.monitoring
        /\ Written(do).wakeLock = service.wakeLock
        /\ Written(do).wifiLock = service.wifiLock
        /\ Written(do).network = service.network
        /\ Written(do).ticking = service.ticking
    BY <2>1 DEF Services
  <2> QED BY <1>1, <2>2 DEF What
<1>2. CASE do.op = "run"
  BY <1>2, WrittenIs DEF Services
<1>3. CASE do.op \in {"wakeLock", "renew"}
  <2>1. Written(do) = [service EXCEPT !.wakeLock = do.on]
    BY <1>3, WrittenIs
  <2> QED BY <1>3, <2>1 DEF Services
<1>4. CASE do.op = "wifiLock"
  BY <1>4, WrittenIs DEF Services
<1>5. CASE do.op = "foreground"
  BY <1>5, WrittenIs DEF Services
<1>6. CASE do.op = "enable"
  BY <1>6, WrittenIs DEF Services
<1>7. CASE do.op = "network"
  BY <1>7, WrittenIs DEF Services
<1>8. CASE do.op = "keep"
  <2> DEFINE t == do.on /\ (service.monitoring \/ service.ticking)
  <2>1. Written(do) = [service EXCEPT !.ticking = t]
    BY <1>8, WrittenIs
  <2> HIDE DEF t
  <2>2. Written(do).ticking = t
    BY <2>1 DEF Services
  <2>3. /\ Written(do).running = service.running
        /\ Written(do).monitoring = service.monitoring
        /\ Written(do).wakeLock = service.wakeLock
        /\ Written(do).wifiLock = service.wifiLock
        /\ Written(do).network = service.network
    BY <2>1 DEF Services
  <2> QED BY <1>8, <2>2, <2>3 DEF t
<1>9. CASE do.op = "repost"
  BY <1>9, WrittenIs DEF Services
<1>10. CASE do.op = "clear"
  <2>1. Written(do) = [service EXCEPT !.running = FALSE, !.monitoring = FALSE, !.active = {},
                                      !.foreground = FALSE]
    BY <1>10, WrittenIs
  <2>2. /\ Written(do).running = FALSE /\ Written(do).monitoring = FALSE
        /\ Written(do).wakeLock = service.wakeLock
        /\ Written(do).wifiLock = service.wifiLock
        /\ Written(do).network = service.network
        /\ Written(do).ticking = service.ticking
    BY <2>1 DEF Services
  <2> QED BY <1>10, <2>2
<1>11. CASE do.op \in {"judge", "show", "monitor", "idle", "configure", "check", "stopSelf"}
  BY <1>11, WrittenIs
<1> QED BY <1>1, <1>2, <1>3, <1>4, <1>5, <1>6, <1>7, <1>8, <1>9, <1>10, <1>11, StepShapes

\* While the main thread's steps stay and the service gains nothing.
Falls ==
  /\ service'.running = service.running
  /\ service'.wakeLock => service.wakeLock
  /\ service'.wifiLock => service.wifiLock
  /\ service'.network => service.network
  /\ service'.ticking => service.ticking

LEMMA FallsKeeps == Releases /\ main' = main /\ Falls => Releases'
  BY DEF Releases, Falls, HeldWhileRunning, StopReleases, DestroyReleases, LetsGo, Idle

LEMMA SameFalls == UNCHANGED service => Falls
  BY DEF Falls

\* What the Qt thread's steps write.
LEMMA QtFalls ==
  ASSUME ServiceTypes, StepQt
  PROVE  main' = main /\ Falls
<1> DEFINE do == Head(qt)
<1>1. qt # <<>> /\ qt \in Seq(QtSteps) /\ service \in Services
  BY DEF StepQt, ServiceTypes, StepsOK, FieldsOK
<1>2. do \in QtSteps
  BY <1>1, HeadAndTail
<1>3. service' \in {service, Written(do)} /\ main' = main
  BY DEF StepQt
<1> HIDE DEF do
<1>4. /\ do.op \in What \union {"judge", "foreground", "show", "monitor", "enable", "network",
                                "keep", "idle"}
      /\ do.op \in {"network", "keep"} => do.on = FALSE
  <2>1. CASE do \in PlainSteps
    BY <2>1 DEF PlainSteps, What
  <2>2. CASE do \notin PlainSteps
    <3>1. \/ \E op \in {"monitor", "enable", "network", "keep"} : do = Do(op, FALSE)
          \/ do = Do("idle", TRUE)
      BY <1>2, <2>2 DEF QtSteps
    <3>2. CASE do = Do("idle", TRUE)
      <4>1. do.op = "idle" /\ do.on = TRUE
        BY <3>2, DoTrueIs
      <4> QED BY <4>1
    <3>3. CASE \E op \in {"monitor", "enable", "network", "keep"} : do = Do(op, FALSE)
      BY <3>3, DoFalseIs
    <3> QED BY <3>1, <3>2, <3>3
  <2> QED BY <2>1, <2>2
<1>5. Falls
  <2>1. CASE service' = service
    BY <2>1, SameFalls
  <2>2. CASE service' = Written(do)
    BY <1>1, <1>2, <1>4, <2>2, FlagsAre DEF Falls, What
  <2> QED BY <1>3, <2>1, <2>2
<1> QED BY <1>3, <1>5

\* A callback of the main thread begins with nothing left of the last.
LEMMA BeginKeeps ==
  ASSUME Releases, main = <<>>, Falls, main' \in Seq(MainSteps),
         Do("run", FALSE) \notin El(Tail(main')) \/ main' = <<>>,
         main' # <<>> /\ Head(main') = Do("run", FALSE) =>
           Releasing \subseteq El(main') /\ Acquiring \intersect El(main') = {},
         Do("clear", TRUE) \in El(main') =>
           Releasing \subseteq El(main') /\ Acquiring \intersect El(main') = {},
         \/ service.running \/ Acquiring \intersect El(main') = {}
         \/ Head(main') = Do("run", TRUE)
  PROVE  Releases'
<1>1. El(main) = {}
  BY NoStep
<1>2. ~service.running =>
        ~service.wakeLock /\ ~service.wifiLock /\ ~service.network /\ ~service.ticking
  BY <1>1 DEF Releases, HeldWhileRunning, LetsGo
<1>3. HeldWhileRunning'
  BY <1>2 DEF HeldWhileRunning, LetsGo, Idle, Falls
<1>4. StopReleases'
  BY DEF StopReleases, Idle
<1>5. DestroyReleases'
  BY DEF DestroyReleases, LetsGo, Idle, Releasing
<1> QED BY <1>3, <1>4, <1>5 DEF Releases

\* What does not occur in a start, in a stop and in the end of an object.
LEMMA StartShape ==
  \A m \in El(StartVoipService) : m.op # "clear" /\ (m.op = "run" => m.on)
<1>1. Show("status", FALSE).op = "show"
  BY DEF Show
<1>2. ASSUME NEW m \in El(StartVoipService) PROVE m.op # "clear" /\ (m.op = "run" => m.on)
  <2>1. CASE m = Show("status", FALSE)
    BY <1>1, <2>1
  <2>2. CASE m # Show("status", FALSE)
    <3>1. \/ m = Do("run", TRUE)
          \/ \E op \in {"status", "wakeLock", "wifiLock", "foreground", "configure", "judge"},
               on \in BOOLEAN : m = Do(op, on)
      BY <2>2, StartIs
    <3>2. CASE m = Do("run", TRUE)
      <4>1. m.op = "run" /\ m.on = TRUE
        BY <3>2, DoTrueIs
      <4> QED BY <4>1
    <3>3. CASE m # Do("run", TRUE)
      BY <3>1, <3>3, DoIs, DoTrueIs, DoFalseIs
    <3> QED BY <3>2, <3>3
  <2> QED BY <2>1, <2>2
<1> QED BY <1>2

LEMMA StopShape ==
  \A m \in El(Tail(StopVoipServiceInternal)) :
    m.op \notin {"clear", "run"} /\ (m.op # "stopSelf" => ~m.on)
<1>1. Show("status", FALSE).op = "show" /\ Show("status", FALSE).on = FALSE
  BY DEF Show
<1>2. ASSUME NEW m \in El(Tail(StopVoipServiceInternal))
      PROVE  m.op \notin {"clear", "run"} /\ (m.op # "stopSelf" => ~m.on)
  <2>1. CASE m = Show("status", FALSE)
    BY <1>1, <2>1
  <2>2. CASE m # Show("status", FALSE)
    <3>1. \/ m = Do("stopSelf", TRUE)
          \/ \E op \in {"status", "enable", "network", "keep", "wakeLock", "wifiLock",
                         "foreground"} : m = Do(op, FALSE)
      BY <2>2, StopIs
    <3>2. CASE m = Do("stopSelf", TRUE)
      <4>1. m.op = "stopSelf" /\ m.on = TRUE
        BY <3>2, DoTrueIs
      <4> QED BY <4>1
    <3>3. CASE m # Do("stopSelf", TRUE)
      BY <3>1, <3>3, DoIs, DoTrueIs, DoFalseIs
    <3> QED BY <3>2, <3>3
  <2> QED BY <2>1, <2>2
<1> QED BY <1>2

LEMMA DestroyShape ==
  \A m \in El(OnDestroy) : m.op # "run" /\ (m.op # "clear" => ~m.on)
<1>1. ASSUME NEW m \in El(OnDestroy) PROVE m.op # "run" /\ (m.op # "clear" => ~m.on)
  <2>1. \/ m = Do("clear", TRUE)
        \/ \E op \in {"keep", "network", "foreground", "wakeLock", "wifiLock"} :
             m = Do(op, FALSE)
    BY DestroyIs
  <2>2. CASE m = Do("clear", TRUE)
    <3>1. m.op = "clear" /\ m.on = TRUE
      BY <2>2, DoTrueIs
    <3> QED BY <3>1
  <2>3. CASE m # Do("clear", TRUE)
    BY <2>1, <2>3, DoIs, DoTrueIs, DoFalseIs
  <2> QED BY <2>2, <2>3
<1> QED BY <1>1

LEMMA AcquiringIs ==
  \A a \in Acquiring :
    /\ a.on = TRUE
    /\ a.op \in {"wakeLock", "wifiLock", "network", "keep", "renew", "repost", "configure"}
<1>1. ASSUME NEW a \in Acquiring
      PROVE  /\ a.on = TRUE
             /\ a.op \in {"wakeLock", "wifiLock", "network", "keep", "renew", "repost",
                          "configure"}
  <2>1. \E op \in {"wakeLock", "wifiLock", "network", "keep", "renew", "repost", "configure"} :
          a = Do(op, TRUE)
    BY DEF Acquiring
  <2> QED BY <2>1, DoIs, DoTrueIs, DoFalseIs
<1> QED BY <1>1

LEMMA HandlesMessageReleases == ServiceTypes /\ Releases /\ HandlesMessage => Releases'
<1> SUFFICES ASSUME ServiceTypes, Releases, HandlesMessage PROVE Releases'
  OBVIOUS
<1>0. service \in Services /\ PlatformOK
  BY DEF ServiceTypes, FieldsOK
<1>1. CASE OnCreate
  <2>1. main' = main /\ service' = [service EXCEPT !.foreground = TRUE]
    BY <1>1 DEF OnCreate
  <2>2. Falls
    BY <1>0, <2>1 DEF Falls, Services
  <2> QED BY <2>1, <2>2, FallsKeeps
<1>2. CASE main = <<>> /\ main' = StartVoipService /\ Falls
  <2>1. /\ main' \in Seq(MainSteps) /\ main' # <<>> /\ Head(main') = Do("run", TRUE)
        /\ Do("run", FALSE) \notin El(main') /\ Do("clear", TRUE) \notin El(main')
    <3>1. Do("run", FALSE).op = "run" /\ Do("run", FALSE).on = FALSE
          /\ Do("clear", TRUE).op = "clear"
      BY DoIs, DoTrueIs, DoFalseIs
    <3> QED BY <1>2, <3>1, StartIs, StartShape
  <2>2. El(Tail(main')) \subseteq El(main')
    BY <2>1, HeadAndTail
  <2>3. Head(main') # Do("run", FALSE)
    BY <2>1, DoDiffers
  <2> QED BY <1>2, <2>1, <2>2, <2>3, BeginKeeps
<1>3. CASE main = <<>> /\ main' = <<>> /\ Falls
  <2>1. main' \in Seq(MainSteps) /\ El(main') = {}
    BY <1>3, NoStep
  <2> QED BY <1>3, <2>1, BeginKeeps
<1>4. CASE OnStartCommandStart
  <2>1. main = <<>> /\ service' = [service EXCEPT !.monitoring = Head(inbox).on]
    BY <1>4 DEF OnStartCommandStart, Takes
  <2>2. Falls
    BY <1>0, <2>1 DEF Falls, Services
  <2> QED BY <1>2, <1>4, <2>1, <2>2 DEF OnStartCommandStart
<1>5. CASE OnStartCommandPtt
  BY <1>2, <1>3, <1>5, SameFalls DEF OnStartCommandPtt, Takes
<1>6. CASE OnStartCommandNull
  <2>1. main' = <<Do("stopSelf", TRUE)>> /\ main = <<>> /\ Falls
    BY <1>6, SameFalls DEF OnStartCommandNull, Takes
  <2>2. Do("stopSelf", TRUE) \in MainSteps
    BY DoIsMain
  <2>3. main' \in Seq(MainSteps) /\ El(main') = {Do("stopSelf", TRUE)} /\ main' # <<>>
    BY <2>1, <2>2, OneStep
  <2>4. El(Tail(main')) \subseteq El(main') /\ Head(main') \in El(main')
    BY <2>3, HeadAndTail
  <2>5. /\ Do("run", FALSE) # Do("stopSelf", TRUE) /\ Do("clear", TRUE) # Do("stopSelf", TRUE)
        /\ Do("stopSelf", TRUE) \notin Acquiring
    BY DoDiffers DEF Acquiring
  <2> QED BY <2>1, <2>3, <2>4, <2>5, BeginKeeps
<1>7. CASE RunStop
  <2>1. main = <<>> /\ main' \in {StopVoipServiceInternal, <<>>} /\ Falls
    BY <1>7, SameFalls DEF RunStop, Takes
  <2>2. CASE main' = StopVoipServiceInternal
    <3> DEFINE E == El(Tail(main'))
    <3>1. /\ main' \in Seq(MainSteps) /\ main' # <<>> /\ Head(main') = Do("run", FALSE)
          /\ E = {Do("status", FALSE), Show("status", FALSE), Do("enable", FALSE),
                  Do("network", FALSE), Do("keep", FALSE), Do("wakeLock", FALSE),
                  Do("wifiLock", FALSE), Do("foreground", FALSE), Do("stopSelf", TRUE)}
      BY <2>2, StopIs
    <3>2. El(main') = {Do("run", FALSE)} \union E
      BY <3>1, HeadAndTail
    <3> HIDE DEF E
    <3>3. \A m \in E : m.op \notin {"clear", "run"} /\ (m.op # "stopSelf" => ~m.on)
      BY <2>2, StopShape DEF E
    <3>4. Releasing \subseteq El(main')
      BY <3>1, <3>2 DEF Releasing
    <3>5. Do("run", FALSE) \notin E /\ Do("clear", TRUE) \notin El(main')
      <4>1. Do("run", FALSE).op = "run" /\ Do("clear", TRUE).op = "clear"
        BY DoIs, DoTrueIs, DoFalseIs
      <4> QED BY <3>2, <3>3, <4>1
    <3>6. ASSUME NEW a \in Acquiring PROVE a \notin El(main')
      <4>1. Do("run", FALSE).op = "run"
        BY DoIs, DoTrueIs, DoFalseIs
      <4> QED BY <3>2, <3>3, <4>1, AcquiringIs
    <3> QED BY <2>1, <3>1, <3>4, <3>5, <3>6, BeginKeeps DEF E
  <2> QED BY <1>3, <2>1, <2>2
<1>8. CASE Destroy
  <2>1. main = <<>> /\ main' = OnDestroy /\ Falls
    BY <1>8, SameFalls DEF Destroy, Takes
  <2>2. /\ main' \in Seq(MainSteps)
        /\ El(main') = {Do("keep", FALSE), Do("network", FALSE), Do("foreground", FALSE),
                        Do("wakeLock", FALSE), Do("wifiLock", FALSE), Do("clear", TRUE)}
    BY <2>1, DestroyIs
  <2>3. Releasing \subseteq El(main') /\ Do("run", FALSE) \notin El(main')
    <3>1. Releasing \subseteq El(main')
      BY <2>2 DEF Releasing
    <3>2. Do("run", FALSE).op = "run"
      BY DoIs, DoTrueIs, DoFalseIs
    <3> QED BY <2>1, <3>1, <3>2, DestroyShape
  <2>4. ASSUME NEW a \in Acquiring PROVE a \notin El(main')
    BY <2>1, AcquiringIs, DestroyShape
  <2>5. main' # <<>> => El(Tail(main')) \subseteq El(main')
    BY <2>2, HeadAndTail
  <2> QED BY <2>1, <2>2, <2>3, <2>4, <2>5, BeginKeeps
<1> QED BY <1>1, <1>4, <1>5, <1>6, <1>7, <1>8 DEF HandlesMessage


LEMMA TickShape == \A m \in El(KeepAliveTick) : m.op \notin {"clear", "run"}
<1>1. ASSUME NEW m \in El(KeepAliveTick) PROVE m.op \notin {"clear", "run"}
  <2>1. \E op \in {"renew", "check", "judge", "repost"} : m = Do(op, TRUE)
    BY TickIs
  <2>2. m.op \in {"renew", "check", "judge", "repost"}
    BY <2>1, DoTrueIs
  <2> QED BY <2>2
<1> QED BY <1>1

LEMMA RunKeepAliveReleases == ServiceTypes /\ Releases /\ RunKeepAlive => Releases'
<1> SUFFICES ASSUME ServiceTypes, Releases, RunKeepAlive PROVE Releases'
  OBVIOUS
<1>1. /\ main = <<>> /\ service \in Services /\ service' = [service EXCEPT !.ticking = FALSE]
      /\ main' = IF service.running /\ service.monitoring THEN KeepAliveTick ELSE <<>>
  BY DEF RunKeepAlive, ServiceTypes, FieldsOK
<1>2. Falls
  BY <1>1 DEF Falls, Services
<1>3. CASE service.running /\ service.monitoring
  <2>1. /\ main' \in Seq(MainSteps) /\ \A m \in El(main') : m.op \notin {"clear", "run"}
    BY <1>1, <1>3, TickIs, TickShape
  <2>2. main' # <<>> => El(main') = {Head(main')} \union El(Tail(main'))
    BY <2>1, HeadAndTail
  <2>3. Do("run", FALSE).op = "run" /\ Do("clear", TRUE).op = "clear"
    BY DoIs
  <2> QED BY <1>1, <1>2, <1>3, <2>1, <2>2, <2>3, BeginKeeps
<1>4. CASE ~(service.running /\ service.monitoring)
  <2>1. main' = <<>> /\ main' \in Seq(MainSteps) /\ El(main') = {}
    BY <1>1, <1>4, NoStep
  <2> QED BY <1>1, <1>2, <2>1, BeginKeeps
<1> QED BY <1>3, <1>4

\* What a step of the main thread does to what is left of its steps.
LEMMA StepMainIs ==
  ASSUME ServiceTypes, StepMain
  PROVE  LET do == Head(main)
             rest == Tail(main)
         IN /\ main # <<>> /\ do \in MainSteps /\ rest \in Seq(MainSteps)
            /\ El(main) = {do} \union El(rest)
            /\ main' = Follows(do) \o rest /\ main' \in Seq(MainSteps)
            /\ El(main') = El(Follows(do)) \union El(rest)
            /\ service' = Written(do) /\ service \in Services
<1> DEFINE do == Head(main)  rest == Tail(main)
<1>1. main # <<>> /\ main \in Seq(MainSteps) /\ service \in Services
  BY DEF StepMain, ServiceTypes, StepsOK, FieldsOK
<1>2. do \in MainSteps /\ rest \in Seq(MainSteps) /\ El(main) = {do} \union El(rest)
  BY <1>1, HeadAndTail
<1>3. main' = Follows(do) \o rest /\ service' = Written(do)
  BY DEF StepMain
<1> HIDE DEF do, rest
<1>4. Follows(do) \in Seq(MainSteps)
  BY <1>1, <1>2, MainFollows
<1>5. main' \in Seq(MainSteps) /\ El(main') = El(Follows(do)) \union El(rest)
  BY <1>2, <1>3, <1>4, MainJoins
<1> QED BY <1>1, <1>2, <1>3, <1>5 DEF do, rest

\* Each step gives back what it is to give back, and takes nothing while the
\* service is not running.
LEMMA StepMainReleases == ServiceTypes /\ Releases /\ StepMain => Releases'
<1> SUFFICES ASSUME ServiceTypes, Releases, StepMain PROVE Releases'
  OBVIOUS
<1> DEFINE do == Head(main)  R == El(Tail(main))  F == El(Follows(do))
<1>1. /\ main # <<>> /\ do \in MainSteps /\ El(main) = {do} \union R
      /\ main' \in Seq(MainSteps) /\ El(main') = F \union R
      /\ service' = Written(do) /\ service \in Services
  BY StepMainIs
<1>2. /\ do.op # "configure" => F \subseteq {Do("foreground", TRUE), Do("foreground", FALSE)}
      /\ do.op = "configure" => F = {Do("enable", service.monitoring),
                                     Do("network", service.monitoring),
                                     Do("keep", service.monitoring)}
  BY <1>1, MainFollows
<1>3. /\ ~service.running => LetsGo
      /\ service.running \/ Idle \/ do = Do("run", TRUE)
      /\ Do("run", FALSE) \notin R
      /\ do = Do("run", FALSE) => Releasing \subseteq El(main) /\ Idle
      /\ Do("clear", TRUE) \in El(main) => LetsGo /\ Idle
  BY <1>1 DEF Releases, HeldWhileRunning, StopReleases, DestroyReleases
<1>4. do.on \in BOOLEAN /\ (do.op # "show" => do = Do(do.op, do.on))
  BY <1>1, StepShapes
<1> HIDE DEF do, R, F
<1>5. \A f \in F : f.op \in {"foreground", "enable", "network", "keep"}
  <2>1. \A on : Do("foreground", on).op = "foreground" /\ Do("enable", on).op = "enable"
                /\ Do("network", on).op = "network" /\ Do("keep", on).op = "keep"
    BY DoIs
  <2>2. CASE do.op = "configure"
    BY <1>2, <2>1, <2>2
  <2>3. CASE do.op # "configure"
    <3>1. ASSUME NEW f \in F PROVE f.op = "foreground"
      <4>1. \E on \in BOOLEAN : f = Do("foreground", on)
        BY <1>2, <2>3
      <4> QED BY <2>1, <4>1
    <3> QED BY <3>1
  <2> QED BY <2>2, <2>3
<1>6. StopReleases'
  <2>1. Do("run", FALSE).op = "run"
    BY DoIs
  <2>2. Do("run", FALSE) \notin El(main')
    BY <1>1, <1>3, <1>5, <2>1
  <2>3. main' # <<>> => El(main') = {Head(main')} \union El(Tail(main'))
    BY <1>1, HeadAndTail
  <2> QED BY <2>2, <2>3 DEF StopReleases
<1>7. \A a \in Acquiring : a \in F => do.op = "configure"
  <2>1. ASSUME NEW a \in Acquiring, a \in F, do.op # "configure" PROVE FALSE
    <3>1. a.op \in {"wakeLock", "wifiLock", "network", "keep", "renew", "repost", "configure"}
      BY AcquiringIs
    <3>2. Do("foreground", TRUE).op = "foreground" /\ Do("foreground", FALSE).op = "foreground"
      BY DoIs
    <3> QED BY <1>2, <2>1, <3>1, <3>2
  <2> QED BY <2>1
<1>8. CASE do \in Acquiring
  <2>1. do.on = TRUE
        /\ do.op \in {"wakeLock", "wifiLock", "network", "keep", "renew", "repost", "configure"}
    BY <1>8, AcquiringIs
  <2>2. ~Idle
    BY <1>1, <1>8 DEF Idle
  <2>3. service.running
    <3>1. Do("run", TRUE).op = "run"
      BY DoIs
    <3> QED BY <1>3, <2>1, <2>2, <3>1
  <2>4. service'.running
    BY <1>1, <2>1, <2>3, FlagsAre
  <2>5. Do("clear", TRUE) \notin El(main')
    <3>1. Do("clear", TRUE).op = "clear"
      BY DoIs
    <3> QED BY <1>1, <1>3, <1>5, <2>2, <3>1
  <2> QED BY <1>6, <2>4, <2>5 DEF Releases, HeldWhileRunning, DestroyReleases
<1>9. CASE do \notin Acquiring
  <2>1. do.op \in {"wakeLock", "wifiLock", "network", "keep"} => do = Do(do.op, FALSE)
    <3>1. CASE do.on = TRUE
      BY <1>4, <1>9, <3>1 DEF Acquiring
    <3>2. CASE do.on = FALSE
      BY <1>4, <3>2
    <3> QED BY <1>4, <3>1, <3>2
  <2>2. do.op \notin {"renew", "repost", "configure"}
    <3>1. do.op \in {"renew", "repost", "configure"} => do.on = TRUE
      <4>1. CASE do \in PlainSteps
        BY <4>1 DEF PlainSteps, What
      <4>2. CASE do \notin PlainSteps
        BY <1>1, <4>2 DEF MainSteps
      <4> QED BY <4>1, <4>2
    <3> QED BY <1>4, <1>9, <3>1 DEF Acquiring
  <2>3. Idle => Idle'
    BY <1>1, <1>7, <2>2 DEF Idle
  <2>4. LetsGo => LetsGo'
    <3>1. do.op \in {"wakeLock", "wifiLock", "network", "keep"} => do.on = FALSE
      BY <2>1, DoIs
    <3>2. /\ service'.wakeLock => service.wakeLock /\ do.op # "wakeLock"
          /\ service'.wifiLock => service.wifiLock /\ do.op # "wifiLock"
          /\ service'.network => service.network /\ do.op # "network"
      BY <1>1, <2>2, <3>1, FlagsAre
    <3>3. service'.ticking => service.ticking /\ do.op # "keep"
      BY <1>1, <2>2, <3>1, FlagsAre
    <3>4. /\ Do("wakeLock", FALSE).op = "wakeLock" /\ Do("wifiLock", FALSE).op = "wifiLock"
          /\ Do("network", FALSE).op = "network" /\ Do("keep", FALSE).op = "keep"
      BY DoIs
    <3> QED BY <1>1, <3>2, <3>3, <3>4 DEF LetsGo
  <2>5. DestroyReleases'
    <3>1. Do("clear", TRUE).op = "clear"
      BY DoIs
    <3>2. Do("clear", TRUE) \in El(main') => Do("clear", TRUE) \in El(main)
      BY <1>1, <1>5, <3>1
    <3> QED BY <1>3, <2>3, <2>4, <3>2 DEF DestroyReleases
  <2>6. HeldWhileRunning'
    <3>1. CASE do = Do("run", TRUE)
      <4>1. do.op = "run" /\ do.on = TRUE
        BY <3>1, DoTrueIs
      <4>2. service'.running
        BY <1>1, <4>1, FlagsAre
      <4> QED BY <4>2 DEF HeldWhileRunning
    <3>2. CASE do = Do("run", FALSE)
      <4>0. do.op = "run"
        BY <3>2, DoIs
      <4>1. Idle'
        BY <1>3, <2>3, <3>2
      <4>2. LetsGo'
        <5>1. /\ Do("wakeLock", FALSE).op = "wakeLock" /\ Do("wifiLock", FALSE).op = "wifiLock"
              /\ Do("network", FALSE).op = "network" /\ Do("keep", FALSE).op = "keep"
          BY DoIs
        <5> QED BY <1>1, <1>3, <3>2, <4>0, <5>1 DEF LetsGo, Releasing
      <4> QED BY <4>1, <4>2 DEF HeldWhileRunning
    <3>3. CASE do.op = "clear"
      <4>1. do = Do("clear", TRUE)
        <5>1. do.on = TRUE
          <6>1. CASE do \in PlainSteps
            BY <3>3, <6>1 DEF PlainSteps, What
          <6>2. CASE do \notin PlainSteps
            BY <1>1, <3>3, <6>2 DEF MainSteps
          <6> QED BY <6>1, <6>2
        <5> QED BY <1>4, <3>3, <5>1
      <4> QED BY <1>1, <1>3, <2>3, <2>4, <4>1 DEF HeldWhileRunning
    <3>4. CASE do.op \notin {"run", "clear"}
      <4>1. service'.running = service.running
        BY <1>1, <3>4, FlagsAre
      <4>2. do # Do("run", TRUE)
        BY <3>4, DoTrueIs
      <4> QED BY <1>3, <2>3, <2>4, <4>1, <4>2 DEF HeldWhileRunning
    <3>5. do.op = "run" => do \in {Do("run", TRUE), Do("run", FALSE)}
      <4>1. CASE do.on = TRUE
        BY <1>4, <4>1
      <4>2. CASE do.on = FALSE
        BY <1>4, <4>2
      <4> QED BY <1>4, <4>1, <4>2
    <3> QED BY <3>1, <3>2, <3>3, <3>4, <3>5
  <2> QED BY <1>6, <2>5, <2>6 DEF Releases
<1> QED BY <1>8, <1>9

LEMMA WorldReleases ==
  ServiceTypes /\ Releases
    /\ (\/ StepQt \/ SetServiceConnectionMonitoring \/ CheckAndReconnect \/ Launch
        \/ ConnectToServer \/ SetupReady \/ ConnectionLost \/ Hears \/ Transmits
        \/ DisconnectFromServer \/ Shutdown \/ PttKey \/ ActivityComesOrGoes
        \/ NetworkSnapshot \/ WakeLockExpires)
    => Releases'
<1> SUFFICES ASSUME ServiceTypes, Releases,
                    \/ StepQt \/ SetServiceConnectionMonitoring \/ CheckAndReconnect \/ Launch
                    \/ ConnectToServer \/ SetupReady \/ ConnectionLost \/ Hears \/ Transmits
                    \/ DisconnectFromServer \/ Shutdown \/ PttKey \/ ActivityComesOrGoes
                    \/ NetworkSnapshot \/ WakeLockExpires
             PROVE  main' = main /\ Falls
  BY FallsKeeps
<1>1. CASE StepQt
  BY <1>1, QtFalls
<1>2. CASE WakeLockExpires
  <2>1. service \in Services /\ service' = [service EXCEPT !.wakeLock = FALSE] /\ main' = main
    BY <1>2 DEF WakeLockExpires, ServiceTypes, FieldsOK
  <2> QED BY <2>1 DEF Falls, Services
<1>3. CASE SetServiceConnectionMonitoring \/ PttKey \/ ActivityComesOrGoes \/ NetworkSnapshot
  BY <1>3, SameFalls
     DEF SetServiceConnectionMonitoring, PttKey, ActivityComesOrGoes, NetworkSnapshot
<1>4. CASE \/ CheckAndReconnect \/ Launch \/ ConnectToServer \/ SetupReady \/ ConnectionLost
           \/ Hears \/ Transmits \/ DisconnectFromServer \/ Shutdown
  <2>1. \E steps : Calls(steps)
    BY <1>4 DEF CheckAndReconnect, Launch, ConnectToServer, SetupReady, ConnectionLost, Hears,
                Transmits, DisconnectFromServer, Shutdown, Reaches
  <2>2. UNCHANGED <<service, main>>
    BY <2>1 DEF Calls
  <2> QED BY <2>2, SameFalls
<1> QED BY <1>1, <1>2, <1>3, <1>4

LEMMA BareReleases ==
  ASSUME service = Fresh, main = <<>>
  PROVE  Releases
<1>1. El(main) = {}
  BY NoStep
<1> QED BY <1>1 DEF Fresh, Releases, HeldWhileRunning, StopReleases, DestroyReleases, LetsGo, Idle

LEMMA KillReleases == Kill => Releases'
<1> SUFFICES ASSUME Kill PROVE Releases'
  OBVIOUS
<1>1. service' = Fresh /\ main' = <<>>
  BY DEF Kill
<1>2. El(main') = {}
  BY <1>1, NoStep
<1> QED BY <1>1, <1>2
        DEF Fresh, Releases, HeldWhileRunning, StopReleases, DestroyReleases, LetsGo, Idle

LEMMA ReleasesKept == ServiceTypes /\ Releases /\ [Next]_vars => Releases'
<1> SUFFICES ASSUME ServiceTypes, Releases, [Next]_vars PROVE Releases'
  OBVIOUS
<1>1. CASE UNCHANGED vars
  BY <1>1, FallsKeeps, SameFalls DEF vars
<1>2. CASE Next
  BY <1>2, HandlesMessageReleases, RunKeepAliveReleases, StepMainReleases, WorldReleases,
     KillReleases DEF Next, MediaPlay, MediaStop
<1> QED BY <1>1, <1>2

\* The types and what a service holds, in every state of the program.
LEMMA ServiceHolds == Spec => [](ServiceTypes /\ Releases)
<1>1. Init => ServiceTypes /\ Releases
  BY TypesAtFirst, BareReleases DEF Init
<1>2. ServiceTypes /\ Releases /\ [Next]_vars => (ServiceTypes /\ Releases)'
  BY TypesKept, ReleasesKept
<1> QED BY <1>1, <1>2, PTL DEF Spec

\* A service that stopped, or was destroyed and perhaps replaced while a direct
\* call of the Qt thread was half through, holds no lock, listens to no network
\* and has no timer left.
THEOREM ServiceReleases == Spec => []StoppedHoldsNothing
<1>1. ServiceTypes /\ Releases => StoppedHoldsNothing
  <2> SUFFICES ASSUME ServiceTypes, Releases PROVE StoppedHoldsNothing
    OBVIOUS
  <2>1. TypeOK
    BY DEF ServiceTypes, FieldsOK, UserOK, PlatformOK, TypeOK, Services, StartRequests
  <2>2. ASSUME main = <<>>, ~service.running
        PROVE  ~service.wakeLock /\ ~service.wifiLock /\ ~service.network /\ ~service.ticking
    <3>1. El(main) = {}
      BY <2>2, NoStep
    <3> QED BY <2>2, <3>1 DEF Releases, HeldWhileRunning, LetsGo
  <2> QED BY <2>1, <2>2 DEF StoppedHoldsNothing
<1> QED BY <1>1, ServiceHolds, PTL


-----------------------------------------------------------------------------
(* What keeps a connection's watch. *)

\* Until the process is killed or the application ends, nothing ends the
\* service, ...
Alive == ~killed /\ client # "gone"

NoEnd ==
  Alive =>
    /\ \A m \in El(inbox) : m.op \in {"create", "start", "ptt"}
    /\ \A m \in El(main) : /\ m.op \notin {"stopSelf", "clear"}
                           /\ m.op \in {"run", "wifiLock"} => m.on = TRUE

\* ... once it is asked for there is one or one is about to be created, ...
Exists ==
  /\ client = "gone" => ~saved
  /\ Alive =>
       /\ up => instance # 0 \/ (inbox # <<>> /\ Head(inbox).op = "create")
       /\ ~up => inbox = <<>>
       /\ main # <<>> \/ service.running => instance # 0
       /\ client = "none" => ~saved
       /\ saved => up /\ \A m \in El(qt) : m \in PlainSteps

\* ... and the connection the user asked for has its request in the queue, with
\* no other start behind it, or has been given its watch, all of it done or left
\* to do.
Asks(q) ==
  \E i \in DOMAIN q :
    q[i] = Do("start", TRUE) /\ \A j \in DOMAIN q : j > i => q[j].op # "start"

Watching ==
  /\ \A m \in El(inbox) : m.op # "start"
  /\ service.monitoring
  /\ service.running \/ Do("run", TRUE) \in El(main)
  /\ service.wifiLock \/ Do("wifiLock", TRUE) \in El(main)
  /\ \/ service.network \/ Do("network", TRUE) \in El(main)
     \/ Do("configure", TRUE) \in El(main)
  /\ \/ service.ticking \/ Do("keep", TRUE) \in El(main)
     \/ Do("configure", TRUE) \in El(main) \/ Do("repost", TRUE) \in El(main)
  /\ \A m \in El(main) : m.op \in {"enable", "network", "keep"} => m.on = TRUE

Watch == Alive /\ saved => Asks(inbox) \/ Watching

Kept == NoEnd /\ Exists /\ Watch

LEMMA AsksStays ==
  ASSUME NEW q \in Seq(Messages), NEW t \in Seq(Messages), Asks(q),
         \A m \in El(t) : m.op # "start"
  PROVE  Asks(q \o t)
<1>1. PICK i \in DOMAIN q :
        q[i] = Do("start", TRUE) /\ \A j \in DOMAIN q : j > i => q[j].op # "start"
  BY DEF Asks
<1>2. i \in DOMAIN (q \o t) /\ (q \o t)[i] = q[i]
  OBVIOUS
<1>3. ASSUME NEW j \in DOMAIN (q \o t), j > i PROVE (q \o t)[j].op # "start"
  <2>1. CASE j <= Len(q)
    <3>1. j \in DOMAIN q /\ (q \o t)[j] = q[j]
      BY <1>3, <2>1
    <3> QED BY <1>1, <1>3, <3>1
  <2>2. CASE j > Len(q)
    <3>1. (q \o t)[j] = t[j - Len(q)] /\ j - Len(q) \in DOMAIN t
      BY <1>3, <2>2
    <3> QED BY <3>1 DEF El
  <2> QED BY <1>3, <2>1, <2>2
<1> QED BY <1>1, <1>2, <1>3 DEF Asks

LEMMA AsksNow ==
  ASSUME NEW q \in Seq(Messages), NEW t \in Seq(Messages), t # <<>>,
         t[Len(t)] = Do("start", TRUE)
  PROVE  Asks(q \o t)
<1> DEFINE i == Len(q) + Len(t)
<1>0. Len(q) \in Nat /\ Len(t) \in Nat \ {0} /\ Len(q \o t) = Len(q) + Len(t)
  OBVIOUS
<1>1. i \in DOMAIN (q \o t) /\ (q \o t)[i] = t[Len(t)]
  <2>1. i \in 1..(Len(q) + Len(t)) /\ i > Len(q) /\ i - Len(q) = Len(t)
    BY <1>0
  <2>2. \A k \in 1..(Len(q) + Len(t)) : k > Len(q) => (q \o t)[k] = t[k - Len(q)]
    OBVIOUS
  <2>3. DOMAIN (q \o t) = 1..(Len(q) + Len(t))
    OBVIOUS
  <2> QED BY <2>1, <2>2, <2>3
<1>2. \A j \in DOMAIN (q \o t) : ~(j > i)
  OBVIOUS
<1> QED BY <1>1, <1>2 DEF Asks

LEMMA AsksBehind ==
  ASSUME NEW q \in Seq(Messages), q # <<>>, Asks(q)
  PROVE  \/ Asks(Tail(q))
         \/ Head(q) = Do("start", TRUE) /\ \A m \in El(Tail(q)) : m.op # "start"
<1>0. /\ Len(q) \in Nat \ {0} /\ DOMAIN q = 1..Len(q) /\ Head(q) = q[1]
      /\ Tail(q) \in Seq(Messages) /\ DOMAIN Tail(q) = 1..(Len(q) - 1)
      /\ \A j \in DOMAIN Tail(q) : Tail(q)[j] = q[j + 1]
  OBVIOUS
<1>1. PICK i \in DOMAIN q :
        q[i] = Do("start", TRUE) /\ \A j \in DOMAIN q : j > i => q[j].op # "start"
  BY DEF Asks
<1>2. CASE i = 1
  <2>1. ASSUME NEW j \in DOMAIN Tail(q) PROVE Tail(q)[j].op # "start"
    <3>1. j + 1 \in DOMAIN q /\ j + 1 > i
      BY <1>0, <1>2
    <3> QED BY <1>0, <1>1, <3>1
  <2> QED BY <1>0, <1>1, <1>2, <2>1 DEF El
<1>3. CASE i # 1
  <2>1. i - 1 \in DOMAIN Tail(q) /\ Tail(q)[i - 1] = q[i]
    BY <1>0, <1>3
  <2>2. ASSUME NEW j \in DOMAIN Tail(q), j > i - 1 PROVE Tail(q)[j].op # "start"
    <3>1. j + 1 \in DOMAIN q /\ j + 1 > i
      BY <1>0, <2>2
    <3> QED BY <1>0, <1>1, <3>1
  <2> QED BY <1>1, <2>1, <2>2 DEF Asks
<1> QED BY <1>2, <1>3

\* A request leaves the others where they are.
LEMMA RequestIsKept ==
  ASSUME ServiceTypes, NEW m \in Messages, m.op \in {"start", "ptt"}, Request(m), NoEnd, Exists,
         Alive
  PROVE  /\ up' /\ inbox' # <<>> /\ \A n \in El(inbox') : n.op \in {"create", "start", "ptt"}
         /\ instance # 0 \/ Head(inbox').op = "create"
         /\ m = Do("start", TRUE) => Asks(inbox')
         /\ m.op = "ptt" /\ Asks(inbox) => Asks(inbox')
         /\ m.op = "ptt" /\ (\A n \in El(inbox) : n.op # "start")
              => \A n \in El(inbox') : n.op # "start"
<1> DEFINE c == Do("create", TRUE)  t == IF up THEN <<m>> ELSE <<c, m>>
<1>1. c \in Messages /\ c.op = "create" /\ inbox \in Seq(Messages)
  BY RequestIs, DoIs DEF ServiceTypes, PlatformOK
<1>2. /\ <<m>> \in Seq(Messages) /\ El(<<m>>) = {m}
      /\ <<c, m>> \in Seq(Messages) /\ El(<<c, m>>) = {c, m}
  <2> DEFINE M == Messages  d == c
  <2>1. m \in M /\ d \in M
    BY <1>1
  <2> HIDE DEF M, d
  <2>2. <<m>> \in Seq(M) /\ El(<<m>>) = {m}
    BY <2>1, OneStep
  <2>3. <<d, m>> \in Seq(M) /\ El(<<d, m>>) = {d, m}
    BY <2>1, TwoSteps
  <2> QED BY <2>2, <2>3 DEF M, d
<1>3. inbox' = inbox \o t /\ up'
  BY DEF Request
<1>4. /\ t \in Seq(Messages) /\ m \in El(t) /\ El(t) \subseteq {c, m}
      /\ t # <<>> /\ t[Len(t)] = m
  BY <1>2
<1>5. up \/ (inbox = <<>> /\ Head(t) = c)
  <2>1. up \/ inbox = <<>>
    BY DEF Exists
  <2>2. ~up => Head(t) = c
    <3>1. \A a, b : Head(<<a, b>>) = a
      OBVIOUS
    <3> QED BY <3>1
  <2> QED BY <2>1, <2>2
<1>6. up => instance # 0 \/ (inbox # <<>> /\ Head(inbox).op = "create")
  BY DEF Exists
<1>7. \A n \in El(inbox) : n.op \in {"create", "start", "ptt"}
  BY DEF NoEnd
<1> HIDE DEF c, t
<1>8. El(inbox') = El(inbox) \union El(t) /\ inbox' \in Seq(Messages)
  BY <1>1, <1>3, <1>4, Joins
<1>9. inbox' # <<>> /\ (inbox # <<>> => Head(inbox') = Head(inbox))
  <2>1. inbox' # <<>>
    <3>1. m \in El(inbox')
      BY <1>4, <1>8
    <3> QED BY <3>1, NoStep
  <2>2. inbox # <<>> => Head(inbox') = Head(inbox)
    BY <1>1, <1>3, <1>4, Joins
  <2> QED BY <2>1, <2>2
<1>10. inbox = <<>> => inbox' = t
  BY <1>3, <1>4
<1>11. m = Do("start", TRUE) => Asks(inbox')
  BY <1>1, <1>3, <1>4, AsksNow
<1>12. m.op = "ptt" => \A n \in El(t) : n.op # "start"
  BY <1>1, <1>4
<1>13. m.op = "ptt" /\ Asks(inbox) => Asks(inbox')
  BY <1>1, <1>3, <1>4, <1>12, AsksStays
<1>14. \A n \in El(inbox') : n.op \in {"create", "start", "ptt"}
  BY <1>1, <1>4, <1>7, <1>8
<1>15. instance # 0 \/ Head(inbox').op = "create"
  BY <1>1, <1>5, <1>6, <1>9, <1>10
<1> QED BY <1>3, <1>8, <1>9, <1>11, <1>12, <1>13, <1>14, <1>15


\* Without a process, or with the application at its end, only the wish counts.
LEMMA DeadKeeps ==
  ASSUME ~Alive', client' = "gone" => ~saved'
  PROVE  Kept'
  BY DEF Kept, NoEnd, Exists, Watch

LEMMA StaysKept ==
  ASSUME Kept, UNCHANGED <<main, inbox, up, instance, killed>>,
         client' = "gone" <=> client = "gone", client' = "none" => client = "none",
         saved' => saved,
         service'.running = service.running,
         Alive /\ saved' =>
           /\ \A m \in El(qt') : m \in PlainSteps
           /\ service'.monitoring = service.monitoring /\ service'.wifiLock = service.wifiLock
           /\ service'.network = service.network /\ service'.ticking = service.ticking
  PROVE  Kept'
<1>1. Alive' <=> Alive
  BY DEF Alive
<1>2. NoEnd' /\ Exists'
  BY <1>1 DEF Kept, NoEnd, Exists
<1>3. Watch'
  BY <1>1 DEF Kept, Watch, Watching
<1> QED BY <1>2, <1>3 DEF Kept

LEMMA RequestKeepsKept ==
  ASSUME ServiceTypes, Kept, Alive, NEW m \in Messages, m.op \in {"start", "ptt"}, Request(m),
         UNCHANGED <<main, service, instance, killed>>,
         client' # "gone", client' = "none" => ~saved',
         saved' => /\ \A n \in El(qt') : n \in PlainSteps
                   /\ m = Do("start", TRUE) \/ (m.op = "ptt" /\ saved)
  PROVE  Kept'
<1>1. Alive'
  BY DEF Alive
<1>2. /\ up' /\ inbox' # <<>> /\ \A n \in El(inbox') : n.op \in {"create", "start", "ptt"}
      /\ instance # 0 \/ Head(inbox').op = "create"
      /\ m = Do("start", TRUE) => Asks(inbox')
      /\ m.op = "ptt" /\ Asks(inbox) => Asks(inbox')
      /\ m.op = "ptt" /\ (\A n \in El(inbox) : n.op # "start")
           => \A n \in El(inbox') : n.op # "start"
  BY RequestIsKept DEF Kept
<1>3. NoEnd'
  BY <1>2 DEF Kept, NoEnd
<1>4. Exists'
  BY <1>2 DEF Kept, Exists
<1>5. Watch'
  <2> SUFFICES ASSUME saved' PROVE Asks(inbox') \/ Watching'
    BY DEF Watch
  <2>1. CASE m = Do("start", TRUE)
    BY <1>2, <2>1
  <2>2. CASE m.op = "ptt" /\ saved
    <3>1. Asks(inbox) \/ Watching
      BY <2>2 DEF Kept, Watch
    <3>2. CASE Asks(inbox)
      BY <1>2, <2>2, <3>2
    <3>3. CASE Watching
      BY <1>2, <2>2, <3>3 DEF Watching
    <3> QED BY <3>1, <3>2, <3>3
  <2> QED BY <2>1, <2>2
<1> QED BY <1>3, <1>4, <1>5 DEF Kept

\* The main thread's messages.
LEMMA OnCreateKept == ServiceTypes /\ Kept /\ OnCreate => Kept'
<1> SUFFICES ASSUME ServiceTypes, Kept, OnCreate PROVE Kept'
  OBVIOUS
<1>0. /\ service \in Services /\ PlatformOK /\ created \in Nat /\ inbox \in Seq(Messages)
  BY DEF ServiceTypes, FieldsOK, PlatformOK
<1>1. /\ inbox # <<>> /\ inbox' = Tail(inbox) /\ Head(inbox).op = "create"
      /\ El(inbox) = {Head(inbox)} \union El(inbox')
  BY <1>0, TakesIs DEF OnCreate
<1>2. /\ instance' # 0 /\ service' = [service EXCEPT !.foreground = TRUE]
      /\ UNCHANGED <<main, qt, up, user, counters>>
  BY <1>0 DEF OnCreate
<1>3. /\ service'.running = service.running /\ service'.monitoring = service.monitoring
      /\ service'.wifiLock = service.wifiLock /\ service'.network = service.network
      /\ service'.ticking = service.ticking
  BY <1>0, <1>2 DEF Services
<1>4. Alive' <=> Alive
  BY <1>2 DEF Alive, user, counters
<1>5. NoEnd'
  BY <1>1, <1>2, <1>4 DEF Kept, NoEnd
<1>6. Exists'
  BY <1>1, <1>2, <1>4 DEF Kept, Exists, user
<1>7. Watch'
  <2> SUFFICES ASSUME Alive', saved' PROVE Asks(inbox') \/ Watching'
    BY DEF Watch
  <2>1. Asks(inbox) \/ Watching
    BY <1>2, <1>4 DEF Kept, Watch, user
  <2>2. CASE Asks(inbox)
    <3>1. Head(inbox) # Do("start", TRUE)
      <4>1. Do("start", TRUE).op = "start"
        BY DoTrueIs
      <4> QED BY <1>1, <4>1
    <3>2. Asks(Tail(inbox))
      BY <1>0, <1>1, <2>2, <3>1, AsksBehind
    <3> QED BY <1>1, <3>2
  <2>3. CASE Watching
    BY <1>1, <1>2, <1>3, <2>3 DEF Watching
  <2> QED BY <2>1, <2>2, <2>3
<1> QED BY <1>5, <1>6, <1>7 DEF Kept

\* What a start begins is what a watch needs.
LEMMA StartWatches ==
  ASSUME service' \in Services, service'.monitoring, main' = StartVoipService,
         \A m \in El(inbox') : m.op # "start"
  PROVE  Watching'
<1>1. /\ Do("run", TRUE) \in El(main') /\ Do("wifiLock", TRUE) \in El(main')
      /\ Do("configure", TRUE) \in El(main')
  BY StartIs
<1>2. ASSUME NEW m \in El(main') PROVE m.op \in {"enable", "network", "keep"} => m.on = TRUE
  <2>1. CASE m = Show("status", FALSE)
    BY <2>1 DEF Show
  <2>2. CASE m # Show("status", FALSE)
    <3>1. \E op \in {"run", "status", "wakeLock", "wifiLock", "foreground", "configure", "judge"},
             on \in BOOLEAN : m = Do(op, on)
      BY <1>2, <2>2, StartIs
    <3>2. m.op \in {"run", "status", "wakeLock", "wifiLock", "foreground", "configure", "judge"}
      BY <3>1, DoIs
    <3> QED BY <3>2
  <2> QED BY <2>1, <2>2
<1> QED BY <1>1, <1>2 DEF Watching

\* A start ends nothing.
LEMMA StartEndsNothing ==
  \A m \in El(StartVoipService) : /\ m.op \notin {"stopSelf", "clear"}
                                  /\ m.op \in {"run", "wifiLock"} => m.on = TRUE
<1>1. ASSUME NEW m \in El(StartVoipService)
      PROVE  m.op \notin {"stopSelf", "clear"} /\ (m.op \in {"run", "wifiLock"} => m.on = TRUE)
  <2>1. CASE m = Show("status", FALSE)
    BY <2>1 DEF Show
  <2>2. CASE m # Show("status", FALSE)
    <3>1. \/ \E op \in {"run", "wakeLock", "wifiLock", "foreground", "configure", "judge"} :
               m = Do(op, TRUE)
          \/ m = Do("status", FALSE)
      BY <1>1, <2>2, StartIs
    <3>2. CASE m = Do("status", FALSE)
      <4>1. m.op = "status"
        BY <3>2, DoFalseIs
      <4> QED BY <4>1
    <3>3. CASE \E op \in {"run", "wakeLock", "wifiLock", "foreground", "configure", "judge"} :
                 m = Do(op, TRUE)
      <4>1. /\ m.op \in {"run", "wakeLock", "wifiLock", "foreground", "configure", "judge"}
            /\ m.on = TRUE
        BY <3>3, DoTrueIs
      <4> QED BY <4>1
    <3> QED BY <3>1, <3>2, <3>3
  <2> QED BY <2>1, <2>2
<1> QED BY <1>1

LEMMA OnStartCommandStartKept == ServiceTypes /\ Kept /\ OnStartCommandStart => Kept'
<1> SUFFICES ASSUME ServiceTypes, Kept, OnStartCommandStart PROVE Kept'
  OBVIOUS
<1>0. service \in Services /\ PlatformOK /\ inbox \in Seq(Messages)
  BY DEF ServiceTypes, FieldsOK, PlatformOK
<1>1. /\ inbox # <<>> /\ inbox' = Tail(inbox) /\ Head(inbox).op = "start"
      /\ Head(inbox) \in Messages /\ El(inbox) = {Head(inbox)} \union El(inbox')
  BY <1>0, TakesIs DEF OnStartCommandStart
<1>2. /\ service' = [service EXCEPT !.monitoring = Head(inbox).on]
      /\ main' = StartVoipService
      /\ UNCHANGED <<instance, qt, up, user, counters>>
  BY DEF OnStartCommandStart
<1>3. Head(inbox).on \in BOOLEAN
  BY <1>1 DEF Messages
<1>4. service' \in Services /\ service'.running = service.running
      /\ service'.monitoring = Head(inbox).on
  <2> DEFINE on == Head(inbox).on
  <2>1. on \in BOOLEAN /\ service' = [service EXCEPT !.monitoring = on]
    BY <1>2, <1>3
  <2> HIDE DEF on
  <2>2. service' \in Services /\ service'.running = service.running /\ service'.monitoring = on
    BY <1>0, <2>1 DEF Services
  <2> QED BY <2>2 DEF on
<1>5. Alive' <=> Alive
  BY <1>2 DEF Alive, user, counters
<1>6. NoEnd'
  BY <1>1, <1>2, <1>5, StartEndsNothing DEF Kept, NoEnd
<1>7. Exists'
  BY <1>1, <1>2, <1>4, <1>5 DEF Kept, Exists, user
<1>8. Watch'
  <2> SUFFICES ASSUME Alive', saved' PROVE Asks(inbox') \/ Watching'
    BY DEF Watch
  <2>1. Asks(inbox)
    <3>1. Asks(inbox) \/ Watching
      BY <1>2, <1>5 DEF Kept, Watch, user
    <3>2. ~Watching
      BY <1>1 DEF Watching
    <3> QED BY <3>1, <3>2
  <2>2. \/ Asks(Tail(inbox))
        \/ Head(inbox) = Do("start", TRUE) /\ \A m \in El(Tail(inbox)) : m.op # "start"
    BY <1>0, <1>1, <2>1, AsksBehind
  <2>3. CASE Head(inbox) = Do("start", TRUE) /\ \A m \in El(Tail(inbox)) : m.op # "start"
    <3>1. Head(inbox).on = TRUE
      BY <2>3, DoTrueIs
    <3> QED BY <1>1, <1>2, <1>4, <2>3, <3>1, StartWatches
  <2> QED BY <1>1, <2>2, <2>3
<1> QED BY <1>6, <1>7, <1>8 DEF Kept

LEMMA OnStartCommandPttKept == ServiceTypes /\ Kept /\ OnStartCommandPtt => Kept'
<1> SUFFICES ASSUME ServiceTypes, Kept, OnStartCommandPtt PROVE Kept'
  OBVIOUS
<1>0. PlatformOK /\ inbox \in Seq(Messages)
  BY DEF ServiceTypes, PlatformOK
<1>1. /\ inbox # <<>> /\ inbox' = Tail(inbox) /\ Head(inbox).op = "ptt" /\ main = <<>>
      /\ El(inbox) = {Head(inbox)} \union El(inbox')
  BY <1>0, TakesIs DEF OnStartCommandPtt
<1>2. /\ main' = (IF service.running THEN <<>> ELSE StartVoipService)
      /\ UNCHANGED <<service, instance, qt, up, user, counters>>
  BY DEF OnStartCommandPtt
<1>3. El(main) = {}
  BY <1>1, NoStep
<1>4. Alive' <=> Alive
  BY <1>2 DEF Alive, user, counters
<1>5. NoEnd'
  <2>1. \A m \in El(main') : /\ m.op \notin {"stopSelf", "clear"}
                             /\ m.op \in {"run", "wifiLock"} => m.on = TRUE
    BY <1>2, StartEndsNothing, NoStep
  <2> QED BY <1>1, <1>4, <2>1 DEF Kept, NoEnd
<1>6. Exists'
  BY <1>1, <1>2, <1>4 DEF Kept, Exists, user
<1>7. Watch'
  <2> SUFFICES ASSUME Alive', saved' PROVE Asks(inbox') \/ Watching'
    BY DEF Watch
  <2>1. Asks(inbox) \/ Watching
    BY <1>2, <1>4 DEF Kept, Watch, user
  <2>2. CASE Asks(inbox)
    <3>1. Head(inbox) # Do("start", TRUE)
      <4>1. Do("start", TRUE).op = "start"
        BY DoTrueIs
      <4> QED BY <1>1, <4>1
    <3> QED BY <1>0, <1>1, <2>2, <3>1, AsksBehind
  <2>3. CASE Watching
    <3>1. service.running
      BY <1>3, <2>3 DEF Watching
    <3> QED BY <1>1, <1>2, <2>3, <3>1 DEF Watching
  <2> QED BY <2>1, <2>2, <2>3
<1> QED BY <1>5, <1>6, <1>7 DEF Kept

LEMMA HandlesMessageKept == ServiceTypes /\ Kept /\ HandlesMessage => Kept'
<1> SUFFICES ASSUME ServiceTypes, Kept, HandlesMessage PROVE Kept'
  OBVIOUS
<1>1. CASE OnStartCommandNull \/ RunStop \/ Destroy
  <2>0. PlatformOK
    BY DEF ServiceTypes
  <2>1. Head(inbox).op \in {"null", "stop", "destroy"} /\ Head(inbox) \in El(inbox)
    <3>1. CASE OnStartCommandNull
      BY <2>0, <3>1, TakesIs DEF OnStartCommandNull
    <3>2. CASE RunStop
      BY <2>0, <3>2, TakesIs DEF RunStop
    <3>3. CASE Destroy
      BY <2>0, <3>3, TakesIs DEF Destroy
    <3> QED BY <1>1, <3>1, <3>2, <3>3
  <2>2. ~Alive
    BY <2>1 DEF Kept, NoEnd
  <2>3. UNCHANGED <<user, counters>>
    BY <1>1 DEF OnStartCommandNull, RunStop, Destroy
  <2>4. ~Alive' /\ (client' = "gone" => ~saved')
    BY <2>2, <2>3 DEF Alive, user, counters, Kept, Exists
  <2> QED BY <2>4, DeadKeeps
<1> QED BY <1>1, OnCreateKept, OnStartCommandStartKept, OnStartCommandPttKept DEF HandlesMessage


LEMMA RunKeepAliveKept == ServiceTypes /\ Kept /\ RunKeepAlive => Kept'
<1> SUFFICES ASSUME ServiceTypes, Kept, RunKeepAlive PROVE Kept'
  OBVIOUS
<1>1. /\ main = <<>> /\ service \in Services /\ service' = [service EXCEPT !.ticking = FALSE]
      /\ main' = (IF service.running /\ service.monitoring THEN KeepAliveTick ELSE <<>>)
      /\ UNCHANGED <<instance, qt, inbox, up, user, counters>>
  BY DEF RunKeepAlive, ServiceTypes, FieldsOK, platform
<1>2. /\ service'.running = service.running /\ service'.monitoring = service.monitoring
      /\ service'.wifiLock = service.wifiLock /\ service'.network = service.network
  BY <1>1 DEF Services
<1>3. El(main) = {}
  BY <1>1, NoStep
<1>4. \A m \in El(main') : m.op \in {"renew", "check", "judge", "repost"}
  <2>1. ASSUME NEW m \in El(KeepAliveTick) PROVE m.op \in {"renew", "check", "judge", "repost"}
    <3>1. \E op \in {"renew", "check", "judge", "repost"} : m = Do(op, TRUE)
      BY TickIs
    <3> QED BY <3>1, DoTrueIs
  <2> QED BY <1>1, <2>1, NoStep
<1>5. Alive' <=> Alive
  BY <1>1 DEF Alive, user, counters
<1>6. NoEnd'
  BY <1>1, <1>4, <1>5 DEF Kept, NoEnd
<1>7. Exists'
  BY <1>1, <1>2, <1>5 DEF Kept, Exists, user
<1>8. Watch'
  <2> SUFFICES ASSUME Alive', saved' PROVE Asks(inbox') \/ Watching'
    BY DEF Watch
  <2>1. Asks(inbox) \/ Watching
    BY <1>1, <1>5 DEF Kept, Watch, user
  <2>2. CASE Watching
    <3>1. service.running /\ service.monitoring
      BY <1>3, <2>2 DEF Watching
    <3>2. Do("repost", TRUE) \in El(main')
      BY <1>1, <3>1, TickIs
    <3> QED BY <1>1, <1>2, <1>3, <1>4, <2>2, <3>1, <3>2 DEF Watching
  <2> QED BY <1>1, <2>1, <2>2
<1> QED BY <1>6, <1>7, <1>8 DEF Kept

\* A step of the main thread, while nothing ends the service.
LEMMA StepMainKept == ServiceTypes /\ Kept /\ StepMain => Kept'
<1> SUFFICES ASSUME ServiceTypes, Kept, StepMain PROVE Kept'
  OBVIOUS
<1> DEFINE do == Head(main)  R == El(Tail(main))  F == El(Follows(do))
<1>1. /\ main # <<>> /\ do \in MainSteps /\ El(main) = {do} \union R
      /\ El(main') = F \union R
      /\ service' = Written(do) /\ service \in Services
  BY StepMainIs
<1>2. /\ do.op # "configure" => F \subseteq {Do("foreground", TRUE), Do("foreground", FALSE)}
      /\ do.op = "configure" => F = {Do("enable", service.monitoring),
                                     Do("network", service.monitoring),
                                     Do("keep", service.monitoring)}
  BY <1>1, MainFollows
<1>3. /\ instance' = (IF do.op = "clear" THEN 0 ELSE instance)
      /\ do.op # "stopSelf" => UNCHANGED platform
      /\ UNCHANGED <<qt, user, counters>>
  BY DEF StepMain
<1>4. do.on \in BOOLEAN /\ (do.op # "show" => do = Do(do.op, do.on))
  BY <1>1, StepShapes
<1> HIDE DEF do, R, F
<1>5. CASE ~Alive
  <2>1. ~Alive' /\ (client' = "gone" => ~saved')
    BY <1>3, <1>5 DEF Alive, user, counters, Kept, Exists
  <2> QED BY <2>1, DeadKeeps
<1>6. CASE Alive
  <2>1. /\ do.op \notin {"stopSelf", "clear"}
        /\ do.op \in {"run", "wifiLock"} => do.on = TRUE
    BY <1>1, <1>6 DEF Kept, NoEnd
  <2>2. UNCHANGED <<instance, inbox, up, delivered, sticky, qt, client, saved, killed>>
    BY <1>3, <2>1 DEF platform, user, counters
  <2>3. Alive'
    BY <1>6, <2>2 DEF Alive
  <2>4. ASSUME NEW f \in F
        PROVE  /\ f.op \in {"foreground", "enable", "network", "keep"}
               /\ f.op \in {"enable", "network", "keep"} => f.on = service.monitoring
    <3>1. \A on : /\ Do("foreground", on).op = "foreground"
                  /\ Do("enable", on).op = "enable" /\ Do("enable", on).on = on
                  /\ Do("network", on).op = "network" /\ Do("network", on).on = on
                  /\ Do("keep", on).op = "keep" /\ Do("keep", on).on = on
      BY DoIs
    <3>2. CASE do.op = "configure"
      BY <1>2, <3>1, <3>2
    <3>3. CASE do.op # "configure"
      <4>1. \E on \in BOOLEAN : f = Do("foreground", on)
        BY <1>2, <3>3
      <4>2. f.op = "foreground"
        BY <3>1, <4>1
      <4> QED BY <4>2
    <3> QED BY <3>2, <3>3
  <2>5. NoEnd'
    BY <1>1, <1>6, <2>2, <2>3, <2>4 DEF Kept, NoEnd
  <2>6. instance # 0
    BY <1>1, <1>6 DEF Kept, Exists
  <2>7. Exists'
    BY <1>6, <2>2, <2>3, <2>6 DEF Kept, Exists
  <2>8. Watch'
    <3> SUFFICES ASSUME saved' PROVE Asks(inbox') \/ Watching'
      BY DEF Watch
    <3>1. Asks(inbox) \/ Watching
      BY <1>6, <2>2 DEF Kept, Watch
    <3>2. CASE Watching
      <4>0. service.monitoring
        BY <3>2 DEF Watching
      <4>1. do.op \in {"enable", "network", "keep"} => do.on = TRUE
        BY <1>1, <3>2 DEF Watching
      <4>2. do.op # "show" /\ do.on = TRUE => do = Do(do.op, TRUE)
        BY <1>4
      <4>3. \A op : Do(op, TRUE).op = op
        BY DoTrueIs
      <4>4. service'.monitoring
        BY <1>1, <2>1, <4>0, <4>1, FlagsAre
      <4>5. service'.running \/ Do("run", TRUE) \in El(main')
        <5>1. CASE do.op = "run"
          BY <1>1, <2>1, <5>1, FlagsAre
        <5>2. CASE do.op # "run"
          <6>1. service'.running = service.running
            BY <1>1, <2>1, <5>2, FlagsAre
          <6>2. Do("run", TRUE) \in El(main) => Do("run", TRUE) \in R
            BY <1>1, <4>3, <5>2
          <6> QED BY <1>1, <3>2, <6>1, <6>2 DEF Watching
        <5> QED BY <5>1, <5>2
      <4>6. service'.wifiLock \/ Do("wifiLock", TRUE) \in El(main')
        <5>1. CASE do.op = "wifiLock"
          BY <1>1, <2>1, <5>1, FlagsAre
        <5>2. CASE do.op # "wifiLock"
          <6>1. service'.wifiLock = service.wifiLock
            BY <1>1, <5>2, FlagsAre
          <6>2. Do("wifiLock", TRUE) \in El(main) => Do("wifiLock", TRUE) \in R
            BY <1>1, <4>3, <5>2
          <6> QED BY <1>1, <3>2, <6>1, <6>2 DEF Watching
        <5> QED BY <5>1, <5>2
      <4>7. do.op = "configure" =>
              Do("network", TRUE) \in El(main') /\ Do("keep", TRUE) \in El(main')
        <5>1. service.monitoring = TRUE
          BY <1>1, <4>0 DEF Services
        <5> QED BY <1>1, <1>2, <5>1
      <4>8. \/ service'.network \/ Do("network", TRUE) \in El(main')
            \/ Do("configure", TRUE) \in El(main')
        <5>1. CASE do.op = "network"
          BY <1>1, <4>1, <5>1, FlagsAre
        <5>2. CASE do.op \notin {"network", "configure"}
          <6>1. service'.network = service.network
            BY <1>1, <5>2, FlagsAre
          <6>2. /\ Do("network", TRUE) \in El(main) => Do("network", TRUE) \in R
                /\ Do("configure", TRUE) \in El(main) => Do("configure", TRUE) \in R
            BY <1>1, <4>3, <5>2
          <6> QED BY <1>1, <3>2, <6>1, <6>2 DEF Watching
        <5> QED BY <4>7, <5>1, <5>2
      <4>9. \/ service'.ticking \/ Do("keep", TRUE) \in El(main')
            \/ Do("configure", TRUE) \in El(main') \/ Do("repost", TRUE) \in El(main')
        <5>1. CASE do.op = "keep"
          <6>1. do.on = TRUE
            BY <4>1, <5>1
          <6>2. service'.ticking = (do.on /\ (service.monitoring \/ service.ticking))
            BY <1>1, <5>1, FlagsAre
          <6> QED BY <4>0, <6>1, <6>2
        <5>2. CASE do.op = "repost"
          BY <1>1, <5>2, FlagsAre
        <5>3. CASE do.op \notin {"keep", "repost", "configure"}
          <6>1. service'.ticking = service.ticking
            BY <1>1, <5>3, FlagsAre
          <6>2. /\ Do("keep", TRUE) \in El(main) => Do("keep", TRUE) \in R
                /\ Do("configure", TRUE) \in El(main) => Do("configure", TRUE) \in R
                /\ Do("repost", TRUE) \in El(main) => Do("repost", TRUE) \in R
            BY <1>1, <4>3, <5>3
          <6> QED BY <1>1, <3>2, <6>1, <6>2 DEF Watching
        <5> QED BY <4>7, <5>1, <5>2, <5>3
      <4>10. ASSUME NEW m \in El(main'), m.op \in {"enable", "network", "keep"}
             PROVE  m.on = TRUE
        <5>1. CASE m \in R
          BY <1>1, <3>2, <4>10, <5>1 DEF Watching
        <5>2. CASE m \in F
          <6>1. service.monitoring = TRUE
            BY <1>1, <4>0 DEF Services
          <6> QED BY <2>4, <4>10, <5>2, <6>1
        <5> QED BY <1>1, <4>10, <5>1, <5>2
      <4>11. \A m \in El(inbox') : m.op # "start"
        BY <2>2, <3>2 DEF Watching
      <4> QED BY <4>4, <4>5, <4>6, <4>8, <4>9, <4>10, <4>11 DEF Watching
    <3> QED BY <2>2, <3>1, <3>2
  <2> QED BY <2>5, <2>7, <2>8 DEF Kept
<1> QED BY <1>5, <1>6

\* The Qt thread's steps: what is left of a disconnection is run with the wish
\* gone, and the rest changes nothing that is watched.
LEMMA StepQtKept == ServiceTypes /\ Kept /\ StepQt => Kept'
<1> SUFFICES ASSUME ServiceTypes, Kept, StepQt PROVE Kept'
  OBVIOUS
<1> DEFINE do == Head(qt)  rest == Tail(qt)
<1>1. qt # <<>> /\ qt \in Seq(QtSteps) /\ service \in Services
  BY DEF StepQt, ServiceTypes, StepsOK, FieldsOK
<1>2. do \in QtSteps /\ rest \in Seq(QtSteps) /\ El(qt) = {do} \union El(rest)
  BY <1>1, HeadAndTail
<1>3. /\ qt' \in {Follows(do) \o rest, <<>> \o rest}
      /\ service' \in {service, Written(do)}
      /\ UNCHANGED <<main, inbox, up, instance, client, saved, killed>>
  BY DEF StepQt, platform, user, counters
<1> HIDE DEF do, rest
<1>4. Follows(do) \in Seq(PlainSteps) /\ Follows(do) \in Seq(QtSteps)
  BY <1>1, <1>2, QtFollows, PlainIsQt
<1>5. El(qt') \subseteq El(Follows(do)) \union El(rest)
  <2>1. <<>> \in Seq(QtSteps) /\ El(<<>>) = {}
    BY NoStep
  <2>2. \A s, t \in Seq(QtSteps) : El(s \o t) = El(s) \union El(t)
    BY Joins
  <2> QED BY <1>2, <1>3, <1>4, <2>1, <2>2
<1>6. \A m \in El(Follows(do)) : m \in PlainSteps
  <2>1. ASSUME NEW s \in Seq(PlainSteps) PROVE \A m \in El(s) : m \in PlainSteps
    BY DEF El
  <2> QED BY <1>4, <2>1
<1>7. service'.running = service.running
  <2>1. do.op \notin {"run", "clear"}
    <3>1. CASE do \in PlainSteps
      BY <3>1 DEF PlainSteps, What
    <3>2. CASE do \notin PlainSteps
      <4>1. \E op \in {"monitor", "enable", "network", "keep", "idle"}, on \in BOOLEAN :
              do = Do(op, on)
        BY <1>2, <3>2 DEF QtSteps
      <4> QED BY <4>1, DoIs
    <3> QED BY <3>1, <3>2
  <2> QED BY <1>1, <1>2, <1>3, <2>1, FlagsAre
<1>8. ASSUME Alive, saved'
      PROVE  /\ \A m \in El(qt') : m \in PlainSteps
             /\ service'.monitoring = service.monitoring /\ service'.wifiLock = service.wifiLock
             /\ service'.network = service.network /\ service'.ticking = service.ticking
  <2>1. \A m \in El(qt) : m \in PlainSteps
    BY <1>3, <1>8 DEF Kept, Exists
  <2>2. do \in PlainSteps /\ \A m \in El(rest) : m \in PlainSteps
    BY <1>2, <2>1
  <2>3. do.op \in What \union {"judge", "foreground", "show"}
    BY <2>2 DEF PlainSteps
  <2>4. /\ Written(do).monitoring = service.monitoring
        /\ Written(do).wifiLock = service.wifiLock
        /\ Written(do).network = service.network /\ Written(do).ticking = service.ticking
    BY <1>1, <1>2, <2>3, FlagsAre DEF What
  <2> QED BY <1>3, <1>5, <1>6, <2>2, <2>4
<1> QED BY <1>3, <1>7, <1>8, StaysKept

LEMMA PlainIs == \A s \in Seq(PlainSteps) : \A m \in El(s) : m \in PlainSteps
<1>1. ASSUME NEW s \in Seq(PlainSteps) PROVE \A m \in El(s) : m \in PlainSteps
  BY DEF El
<1> QED BY <1>1

\* The calls of a connection and of its traffic leave plain steps.
LEMMA ClientKept ==
  ServiceTypes /\ Kept
    /\ (SetupReady \/ ConnectionLost \/ Hears \/ Transmits \/ CheckAndReconnect) => Kept'
<1> SUFFICES ASSUME ServiceTypes, Kept,
                    SetupReady \/ ConnectionLost \/ Hears \/ Transmits \/ CheckAndReconnect
             PROVE  Kept'
  OBVIOUS
<1>1. PICK steps \in Seq(PlainSteps) : Calls(steps)
  <2>1. CASE SetupReady
    BY <2>1, UpdatesArePlain DEF SetupReady, Reaches, What
  <2>2. CASE ConnectionLost
    BY <2>2, UpdatesArePlain DEF ConnectionLost, Reaches
  <2>3. CASE Hears
    BY <2>3, UpdatesArePlain DEF Hears, What
  <2>4. CASE Transmits
    BY <2>4, UpdatesArePlain DEF Transmits, What
  <2>5. CASE CheckAndReconnect
    BY <2>5, UpdatesArePlain DEF CheckAndReconnect, What
  <2> QED BY <2>1, <2>2, <2>3, <2>4, <2>5
<1>2. /\ UNCHANGED <<platform, saved, killed>>
      /\ client' = client \/ (client' \notin {"gone", "none"} /\ client \notin {"gone", "none"})
  BY DEF SetupReady, ConnectionLost, Hears, Transmits, CheckAndReconnect, Reaches, user, counters
<1>3. UNCHANGED <<main, inbox, up, instance, service>> /\ \A m \in El(qt') : m \in PlainSteps
  BY <1>1, <1>2, PlainIs DEF Calls, platform
<1> QED BY <1>2, <1>3, StaysKept

LEMMA DisconnectFromServerKept == Kept /\ DisconnectFromServer => Kept'
<1> SUFFICES ASSUME Kept, DisconnectFromServer PROVE Kept'
  OBVIOUS
<1>1. \E steps : Calls(steps)
  BY DEF DisconnectFromServer
<1>2. /\ UNCHANGED <<main, inbox, up, instance, service, killed>> /\ ~saved'
      /\ client' = "off" /\ client \notin {"gone", "none"}
  BY <1>1 DEF DisconnectFromServer, Calls, platform, counters, ClearConnectionState
<1> QED BY <1>2, StaysKept

LEMMA ConnectToServerKept == ServiceTypes /\ Kept /\ ConnectToServer => Kept'
<1> SUFFICES ASSUME ServiceTypes, Kept, ConnectToServer PROVE Kept'
  OBVIOUS
<1> DEFINE steps == Update("receive", FALSE) \o Update("transmit", FALSE)
                      \o Update("status", FALSE)
<1>1. steps \in Seq(PlainSteps)
  BY UpdatesArePlain
<1>2. /\ Calls(steps) /\ Request(Do("start", TRUE)) /\ client' = "connecting"
      /\ UNCHANGED killed /\ client \notin {"gone", "none"}
  BY DEF ConnectToServer, StartService, Disconnected
<1> HIDE DEF steps
<1>3. /\ UNCHANGED <<main, instance, service>> /\ \A m \in El(qt') : m \in PlainSteps
  BY <1>1, <1>2, PlainIs DEF Calls
<1>4. Do("start", TRUE) \in Messages /\ Do("start", TRUE).op = "start"
  BY RequestIs, DoTrueIs
<1>5. CASE Alive
  BY <1>2, <1>3, <1>4, <1>5, RequestKeepsKept
<1>6. CASE ~Alive
  <2>1. ~Alive' /\ client' # "gone"
    BY <1>2, <1>6 DEF Alive
  <2> QED BY <2>1, DeadKeeps
<1> QED BY <1>5, <1>6

\* The client's own look at the service asks for it without a watch; it is made
\* only while the user's wish is not to be connected.
LEMMA EnsureKept ==
  ServiceTypes /\ Kept /\ (Launch \/ SetServiceConnectionMonitoring) => Kept'
<1> SUFFICES ASSUME ServiceTypes, Kept, Launch \/ SetServiceConnectionMonitoring PROVE Kept'
  OBVIOUS
<1>1. /\ UNCHANGED <<main, service, instance, killed, saved>>
      /\ client' = client \/ (client = "none" /\ client' = "off")
  BY DEF Launch, SetServiceConnectionMonitoring, Calls, user, counters
<1>2. Alive' <=> Alive
  BY <1>1 DEF Alive
<1>3. CASE ~Alive
  <2>1. client' = "gone" => ~saved'
    BY <1>1 DEF Kept, Exists
  <2> QED BY <1>2, <1>3, <2>1, DeadKeeps
<1>4. CASE Alive
  <2>1. ~saved
    <3>1. CASE Launch
      BY <1>4, <3>1 DEF Launch, Kept, Exists
    <3>2. CASE SetServiceConnectionMonitoring
      <4>1. qt # <<>> /\ qt \in Seq(QtSteps) /\ Head(qt).op = "monitor"
        BY <3>2 DEF SetServiceConnectionMonitoring, ServiceTypes, StepsOK
      <4>2. Head(qt) \in El(qt)
        BY <4>1, HeadAndTail
      <4>3. Head(qt) \notin PlainSteps
        BY <4>1 DEF PlainSteps, What
      <4> QED BY <1>4, <4>2, <4>3 DEF Kept, Exists
    <3> QED BY <3>1, <3>2
  <2>2. CASE UNCHANGED platform
    <3>1. UNCHANGED <<inbox, up>>
      BY <2>2 DEF platform
    <3>2. client' = "gone" <=> client = "gone"
      BY <1>1
    <3> QED BY <1>1, <2>1, <3>1, <3>2, StaysKept
  <2>3. CASE Request(Do("start", FALSE))
    <3>1. Do("start", FALSE) \in Messages /\ Do("start", FALSE).op = "start"
      BY RequestIs, DoFalseIs
    <3>2. client' # "gone"
      BY <1>2, <1>4 DEF Alive
    <3>3. ~saved'
      BY <1>1, <2>1
    <3> HIDE DEF Request
    <3> QED BY <1>1, <1>4, <2>3, <3>1, <3>2, <3>3, RequestKeepsKept
  <2> QED BY <2>2, <2>3
          DEF Launch, SetServiceConnectionMonitoring, EnsureControllerService, StartService
<1> QED BY <1>3, <1>4

LEMMA WorldKept ==
  ServiceTypes /\ Kept
    /\ (PttKey \/ ActivityComesOrGoes \/ NetworkSnapshot \/ WakeLockExpires) => Kept'
<1> SUFFICES ASSUME ServiceTypes, Kept,
                    PttKey \/ ActivityComesOrGoes \/ NetworkSnapshot \/ WakeLockExpires
             PROVE  Kept'
  OBVIOUS
<1>1. CASE PttKey
  <2>1. /\ Request(Do("ptt", TRUE))
        /\ UNCHANGED <<main, qt, service, instance, killed, client, saved>>
    BY <1>1 DEF PttKey, user
  <2>2. Do("ptt", TRUE) \in Messages /\ Do("ptt", TRUE).op = "ptt"
    BY RequestIs, DoTrueIs
  <2>3. CASE Alive
    <3>1. client' # "gone" /\ (client' = "none" => ~saved')
      BY <2>1, <2>3 DEF Alive, Kept, Exists
    <3>2. saved' => saved /\ \A n \in El(qt') : n \in PlainSteps
      BY <2>1, <2>3 DEF Kept, Exists
    <3> QED BY <2>1, <2>2, <2>3, <3>1, <3>2, RequestKeepsKept
  <2>4. CASE ~Alive
    <3>1. ~Alive' /\ (client' = "gone" => ~saved')
      BY <2>1, <2>4 DEF Alive, Kept, Exists
    <3> QED BY <3>1, DeadKeeps
  <2> QED BY <2>3, <2>4
<1>2. CASE ActivityComesOrGoes \/ NetworkSnapshot \/ WakeLockExpires
  <2>1. UNCHANGED <<main, inbox, up, instance, killed, client, saved, qt>>
    BY <1>2 DEF ActivityComesOrGoes, NetworkSnapshot, WakeLockExpires, platform, user, counters
  <2>2. /\ service'.running = service.running /\ service'.monitoring = service.monitoring
        /\ service'.wifiLock = service.wifiLock /\ service'.network = service.network
        /\ service'.ticking = service.ticking
    <3>1. CASE UNCHANGED service
      BY <3>1
    <3>2. CASE WakeLockExpires
      <4>1. service \in Services /\ service' = [service EXCEPT !.wakeLock = FALSE]
        BY <3>2 DEF WakeLockExpires, ServiceTypes, FieldsOK
      <4> QED BY <4>1 DEF Services
    <3> QED BY <1>2, <3>1, <3>2 DEF ActivityComesOrGoes, NetworkSnapshot
  <2>3. Alive /\ saved' => \A m \in El(qt') : m \in PlainSteps
    BY <2>1 DEF Kept, Exists
  <2> QED BY <2>1, <2>2, <2>3, StaysKept
<1> QED BY <1>1, <1>2

LEMMA EndKept == Kept /\ (Shutdown \/ Kill) => Kept'
<1> SUFFICES ASSUME Kept, Shutdown \/ Kill PROVE Kept'
  OBVIOUS
<1>1. ~Alive' /\ (client' = "gone" => ~saved')
  BY DEF Shutdown, Kill, ClearConnectionState, Alive
<1> QED BY <1>1, DeadKeeps

LEMMA KeptAtFirst == Init => Kept
<1> SUFFICES ASSUME Init PROVE Kept
  OBVIOUS
<1>1. El(<<>>) = {}
  BY NoStep
<1>2. inbox = <<>> /\ main = <<>> /\ ~saved /\ ~up /\ ~service.running /\ client = "none"
  BY DEF Init, Fresh
<1> QED BY <1>1, <1>2 DEF Kept, NoEnd, Exists, Watch

LEMMA KeptKept == ServiceTypes /\ Kept /\ [Next]_vars => Kept'
<1> SUFFICES ASSUME ServiceTypes, Kept, [Next]_vars PROVE Kept'
  OBVIOUS
<1>1. CASE UNCHANGED vars
  <2>1. UNCHANGED <<main, inbox, up, instance, killed, client, saved, qt, service>>
    BY <1>1 DEF vars, platform, user, counters
  <2>2. Alive /\ saved' => \A m \in El(qt') : m \in PlainSteps
    BY <2>1 DEF Kept, Exists
  <2> QED BY <2>1, <2>2, StaysKept
<1>2. CASE Next
  BY <1>2, HandlesMessageKept, RunKeepAliveKept, StepMainKept, StepQtKept, ClientKept,
     DisconnectFromServerKept, ConnectToServerKept, EnsureKept, WorldKept, EndKept
     DEF Next, MediaPlay, MediaStop
<1> QED BY <1>1, <1>2

\* While the process lives, whatever order the requests for the service, the
\* direct calls of the Qt thread and the keep-alive come in, a connection the
\* user asked for has in the end a running service that watches it.
THEOREM WatchKept == Spec => []WatchIsKept
<1>1. Init => ServiceTypes /\ Kept
  BY TypesAtFirst, KeptAtFirst
<1>2. ServiceTypes /\ Kept /\ [Next]_vars => (ServiceTypes /\ Kept)'
  BY TypesKept, KeptKept
<1>3. ServiceTypes /\ Kept => WatchIsKept
  <2> SUFFICES ASSUME ServiceTypes, Kept, Settled, ~killed, saved, client # "none"
               PROVE  /\ instance # 0 /\ service.running /\ service.monitoring
                      /\ service.ticking /\ service.network /\ service.wifiLock
    BY DEF WatchIsKept
  <2>1. main = <<>> /\ inbox = <<>>
    BY DEF Settled
  <2>2. El(main) = {} /\ ~Asks(inbox)
    BY <2>1, NoStep DEF Asks
  <2>3. Alive
    BY DEF Alive, Kept, Exists
  <2>4. Watching
    BY <2>2, <2>3 DEF Kept, Watch
  <2>5. instance # 0
    BY <2>1, <2>3 DEF Kept, Exists
  <2> QED BY <2>2, <2>4, <2>5 DEF Watching
<1> QED BY <1>1, <1>2, <1>3, PTL DEF Spec
=============================================================================
