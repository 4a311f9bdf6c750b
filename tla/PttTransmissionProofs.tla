----------------------- MODULE PttTransmissionProofs -----------------------
(* Theorems about PttTransmission, for any time limits, answers to the        *)
(* permission dialog, audio events and lengths of the queues.                 *)
EXTENDS PttTransmission, TLAPS

\* The type invariant in parts: what the other parts speak of, and the rest.
SessionOK == phase \in {"Down", "Opening", "Up"} /\ audioReady \in BOOLEAN

PttOK ==
  /\ pttActive \in BOOLEAN /\ pttReleasePending \in BOOLEAN /\ txStopPending \in BOOLEAN
  /\ blocked \in BOOLEAN

TimerOK ==
  /\ txTimer \in BOOLEAN /\ txSeconds \in Nat /\ txSeconds <= LongestLimit
  /\ txTimeoutSeconds \in Limits

EngineOK ==
  /\ recording \in BOOLEAN /\ output \in BOOLEAN /\ engineReady \in BOOLEAN

OthersOK ==
  /\ refused \in BOOLEAN /\ resume \in BOOLEAN /\ resumeCall \in BOOLEAN
  /\ granted \in BOOLEAN /\ restartPending \in BOOLEAN
  /\ requestPending \in BOOLEAN /\ retryCall \in BOOLEAN /\ hangTime \in BOOLEAN
  /\ focusLost \in BOOLEAN /\ rebuild \in BOOLEAN /\ released \in BOOLEAN

QueuesOK == orders \in Seq(Orders) /\ signals \in Seq(Signals)

\* A release waits out its hang time in a transmission that is not being stopped.
HangsInTransmission == pttReleasePending => pttActive /\ ~txStopPending

\* The Qt thread waits only for a start it ordered last, from rest and in a session.
WaitsForBegin ==
  /\ blocked => ~pttActive /\ ~txStopPending /\ phase = "Up"
  /\ \A i \in 1 .. Len(orders) : orders[i] = "begin" => blocked /\ i = Len(orders)

\* An open microphone belongs to a transmission that is not being stopped, or the
\* order to close it is queued.
StopIsOrdered == recording => Ordered("stop") \/ (pttActive /\ ~txStopPending)

Timed == pttActive /\ ~txStopPending => txTimer /\ txSeconds < txTimeoutSeconds

\* What the client will know of the engine once it has handled what is queued.
WillBeReady ==
  \/ audioReady /\ ~Signalled("notReady")
  \/ \E i \in 1 .. Len(signals) :
       /\ signals[i] \in {"ready", "setupFinished"}
       /\ \A j \in 1 .. Len(signals) : j > i => signals[j] # "notReady"

\* The engine is ready as long as its output runs, and a client in a session knows
\* it in the end, if not by what is queued then by the setup it ordered.
ReadyIsTold ==
  /\ output = engineReady
  /\ phase = "Up" /\ engineReady => Ordered("setup") \/ WillBeReady

Types == SessionOK /\ PttOK /\ TimerOK /\ EngineOK /\ OthersOK /\ QueuesOK

IInv ==
  /\ Types
  /\ HangsInTransmission /\ WaitsForBegin /\ StopIsOrdered /\ DrainIsComing
  /\ Timed /\ ReadyIsTold

-----------------------------------------------------------------------------
(* Constants and queues. *)

\* The longest limit is one of them.
LEMMA LongestIsLimit ==
  /\ LongestLimit \in Nat /\ LongestLimit > 0
  /\ \A l \in Limits : l \in Nat /\ l > 0 /\ l <= LongestLimit
<1>1. LongestLimit \in Limits /\ \A k \in Limits : k <= LongestLimit
  BY LimitsAssumption DEF LongestLimit
<1> QED BY <1>1, LimitsAssumption

LEMMA TypesAreTypeOK == Types => TypeOK
<1> SUFFICES ASSUME Types PROVE TypeOK
  OBVIOUS
<1>1. txSeconds \in 0 .. LongestLimit
  BY LongestIsLimit DEF Types, TimerOK
<1> QED BY <1>1 DEF Types, SessionOK, PttOK, TimerOK, EngineOK, OthersOK, QueuesOK, TypeOK

Has(q, x) == \E i \in 1 .. Len(q) : q[i] = x

\* What a queue has after something was added, and after its head was taken.
LEMMA Added ==
  ASSUME NEW S, NEW q \in Seq(S), NEW t \in Seq(S)
  PROVE  /\ q \o t \in Seq(S)
         /\ \A x : Has(q \o t, x) <=> Has(q, x) \/ Has(t, x)
<1>1. /\ q \o t \in Seq(S) /\ Len(q \o t) = Len(q) + Len(t)
      /\ Len(q) \in Nat /\ Len(t) \in Nat
      /\ \A i \in 1 .. Len(q) : (q \o t)[i] = q[i]
      /\ \A i \in 1 .. Len(t) : (q \o t)[Len(q) + i] = t[i]
  OBVIOUS
<1>2. ASSUME NEW x, Has(q \o t, x) PROVE Has(q, x) \/ Has(t, x)
  <2>1. PICK i \in 1 .. Len(q) + Len(t) : (q \o t)[i] = x
    BY <1>1, <1>2 DEF Has
  <2>2. CASE i <= Len(q)
    BY <1>1, <2>1, <2>2 DEF Has
  <2>3. CASE i > Len(q)
    <3>1. i - Len(q) \in 1 .. Len(t) /\ Len(q) + (i - Len(q)) = i
      BY <1>1, <2>3
    <3> QED BY <1>1, <2>1, <3>1 DEF Has
  <2> QED BY <1>1, <2>2, <2>3
<1>3. ASSUME NEW x, Has(q, x) PROVE Has(q \o t, x)
  BY <1>1, <1>3 DEF Has
<1>4. ASSUME NEW x, Has(t, x) PROVE Has(q \o t, x)
  <2>1. PICK i \in 1 .. Len(t) : t[i] = x
    BY <1>4 DEF Has
  <2>2. Len(q) + i \in 1 .. Len(q \o t) /\ (q \o t)[Len(q) + i] = x
    BY <1>1, <2>1
  <2> QED BY <2>2 DEF Has
<1> QED BY <1>1, <1>2, <1>3, <1>4

LEMMA Taken ==
  ASSUME NEW S, NEW q \in Seq(S), q # <<>>
  PROVE  /\ Tail(q) \in Seq(S) /\ Head(q) \in S
         /\ \A x : Has(q, x) <=> x = Head(q) \/ Has(Tail(q), x)
<1>1. /\ Tail(q) \in Seq(S) /\ Head(q) \in S /\ Head(q) = q[1]
      /\ Len(q) \in Nat \ {0} /\ Len(Tail(q)) = Len(q) - 1
      /\ \A i \in 1 .. Len(Tail(q)) : Tail(q)[i] = q[i + 1]
  OBVIOUS
<1>2. ASSUME NEW x, Has(q, x) PROVE x = Head(q) \/ Has(Tail(q), x)
  <2>1. PICK i \in 1 .. Len(q) : q[i] = x
    BY <1>2 DEF Has
  <2>2. CASE i # 1
    <3>1. i - 1 \in 1 .. Len(Tail(q)) /\ (i - 1) + 1 = i
      BY <1>1, <2>1, <2>2
    <3> QED BY <1>1, <2>1, <3>1 DEF Has
  <2> QED BY <1>1, <2>1, <2>2
<1>3. ASSUME NEW x, Has(Tail(q), x) PROVE Has(q, x)
  <2>1. PICK i \in 1 .. Len(Tail(q)) : Tail(q)[i] = x
    BY <1>3 DEF Has
  <2>2. i + 1 \in 1 .. Len(q) /\ q[i + 1] = x
    BY <1>1, <2>1
  <2> QED BY <2>2 DEF Has
<1>4. Has(q, Head(q))
  BY <1>1 DEF Has
<1> QED BY <1>1, <1>2, <1>3, <1>4

LEMMA Few ==
  /\ \A x : ~ Has(<<>>, x)
  /\ \A a, x : Has(<<a>>, x) <=> x = a
  BY DEF Has

LEMMA HasIsQueued ==
  \A x : (Ordered(x) <=> Has(orders, x)) /\ (Signalled(x) <=> Has(signals, x))
  BY DEF Ordered, Signalled, Has
LEMMA HasIsQueuedNext ==
  \A x : (Ordered(x)' <=> Has(orders', x)) /\ (Signalled(x)' <=> Has(signals', x))
  BY DEF Ordered, Signalled, Has

-----------------------------------------------------------------------------
(* Steps of the Qt thread. *)

Related ==
  /\ HangsInTransmission /\ WaitsForBegin /\ StopIsOrdered /\ DrainIsComing /\ ReadyIsTold

LEMMA Split == IInv => Types /\ Related /\ Timed
  BY DEF IInv, Related

LEMMA Join == Types' /\ Related' /\ Timed' => IInv'
  BY DEF IInv, Related

LEMMA WillBeReadyStays ==
  ASSUME UNCHANGED <<signals, audioReady>>
  PROVE  WillBeReady' <=> WillBeReady
  BY DEF WillBeReady, Signalled

\* A thread that does not wait and orders the actions t: what it stops it orders
\* to be stopped, and where it enters a session it orders the setup.
LEMMA QtStep ==
  ASSUME IInv, blocked = FALSE, blocked' = FALSE,
         NEW t \in Seq(Orders), ~ Has(t, "begin"), orders' = orders \o t,
         UNCHANGED <<signals, recording, output, engineReady>>,
         pttReleasePending' => pttActive' /\ ~txStopPending',
         pttActive /\ ~txStopPending => (pttActive' /\ ~txStopPending') \/ Has(t, "stop"),
         txStopPending' => txStopPending \/ Has(t, "stop"),
         phase' = "Up" => (phase = "Up" /\ audioReady' = audioReady) \/ Has(t, "setup")
  PROVE  Related' /\ QueuesOK'
<1>0. Related /\ QueuesOK
  BY Split DEF Types
<1>1. orders' \in Seq(Orders) /\ \A x : Has(orders', x) <=> Has(orders, x) \/ Has(t, x)
  BY <1>0, Added DEF QueuesOK
<1>2. \A x : Ordered(x)' <=> Ordered(x) \/ Has(t, x)
  BY <1>1, HasIsQueued, HasIsQueuedNext
<1>3. \A x : Signalled(x)' <=> Signalled(x)
  BY DEF Signalled
<1>4. QueuesOK' /\ HangsInTransmission'
  BY <1>0, <1>1 DEF QueuesOK, HangsInTransmission
<1>5. WaitsForBegin'
  <2>1. ~ Has(orders, "begin")
    BY <1>0 DEF Related, WaitsForBegin, Has
  <2>2. ~ Has(orders', "begin")
    BY <1>1, <2>1
  <2> QED BY <2>2 DEF WaitsForBegin, Has
<1>6. StopIsOrdered'
  BY <1>0, <1>2 DEF Related, StopIsOrdered
<1>7. DrainIsComing'
  BY <1>0, <1>2, <1>3 DEF Related, DrainIsComing
<1>8. ReadyIsTold'
  <2>1. CASE phase' = "Up" /\ Has(t, "setup")
    BY <1>0, <1>2, <2>1 DEF Related, ReadyIsTold
  <2>2. CASE phase' = "Up" /\ phase = "Up" /\ audioReady' = audioReady
    BY <1>0, <1>2, <2>2, WillBeReadyStays DEF Related, ReadyIsTold
  <2>3. CASE phase' # "Up"
    BY <1>0, <2>3 DEF Related, ReadyIsTold
  <2> QED BY <2>1, <2>2, <2>3
<1> QED BY <1>4, <1>5, <1>6, <1>7, <1>8 DEF Related

\* A thread that orders nothing.
LEMMA QtRests ==
  ASSUME IInv, blocked = FALSE, blocked' = FALSE, orders' = orders,
         UNCHANGED <<signals, recording, output, engineReady>>,
         pttReleasePending' => pttActive' /\ ~txStopPending',
         pttActive /\ ~txStopPending => pttActive' /\ ~txStopPending',
         txStopPending' => txStopPending,
         phase' = "Up" => phase = "Up" /\ audioReady' = audioReady
  PROVE  Related' /\ QueuesOK'
<1>1. orders' = orders \o <<>> /\ <<>> \in Seq(Orders)
  BY Split DEF Types, QueuesOK
<1>2. \A x : ~ Has(<<>>, x)
  BY Few
<1> QED BY <1>1, <1>2, QtStep

\* A thread that orders one action of a release, a session or Android.
LEMMA QtOrders ==
  ASSUME IInv, blocked = FALSE, blocked' = FALSE,
         NEW a \in Orders \ {"begin"}, orders' = orders \o <<a>>,
         UNCHANGED <<signals, recording, output, engineReady>>,
         pttReleasePending' => pttActive' /\ ~txStopPending',
         pttActive /\ ~txStopPending => (pttActive' /\ ~txStopPending') \/ a = "stop",
         txStopPending' => txStopPending \/ a = "stop",
         phase' = "Up" => (phase = "Up" /\ audioReady' = audioReady) \/ a = "setup"
  PROVE  Related' /\ QueuesOK'
<1>1. <<a>> \in Seq(Orders)
  OBVIOUS
<1>2. \A x : Has(<<a>>, x) <=> x = a
  BY Few
<1> QED BY <1>1, <1>2, QtStep

\* A thread that orders a start, and waits for it.
LEMMA QtBegins ==
  ASSUME IInv, blocked = FALSE, blocked' = TRUE, orders' = orders \o <<"begin">>,
         UNCHANGED <<signals, recording, output, engineReady>>,
         UNCHANGED <<pttActive, txStopPending, pttReleasePending, phase, audioReady>>,
         pttActive = FALSE, txStopPending = FALSE, phase = "Up"
  PROVE  Related' /\ QueuesOK'
<1>0. Related /\ QueuesOK
  BY Split DEF Types
<1>1. <<"begin">> \in Seq(Orders) /\ \A x : Has(<<"begin">>, x) <=> x = "begin"
  BY Few DEF Orders
<1>2. orders' \in Seq(Orders) /\ \A x : Has(orders', x) <=> Has(orders, x) \/ x = "begin"
  BY <1>0, <1>1, Added DEF QueuesOK
<1>3. \A x : Ordered(x)' <=> Ordered(x) \/ x = "begin"
  BY <1>2, HasIsQueued, HasIsQueuedNext
<1>4. QueuesOK' /\ HangsInTransmission' /\ StopIsOrdered' /\ DrainIsComing'
  BY <1>0, <1>2, <1>3
  DEF Related, QueuesOK, HangsInTransmission, StopIsOrdered, DrainIsComing, Signalled
<1>5. WaitsForBegin'
  <2> SUFFICES ASSUME NEW i \in 1 .. Len(orders'), orders'[i] = "begin"
               PROVE  i = Len(orders')
    BY DEF WaitsForBegin
  <2>1. /\ Len(orders') = Len(orders) + 1 /\ Len(orders) \in Nat
        /\ \A k \in 1 .. Len(orders) : orders'[k] = orders[k]
    BY <1>0 DEF QueuesOK
  <2>2. \A k \in 1 .. Len(orders) : orders[k] # "begin"
    BY <1>0 DEF Related, WaitsForBegin
  <2> QED BY <2>1, <2>2
<1>6. ReadyIsTold'
  BY <1>0, <1>3, WillBeReadyStays DEF Related, ReadyIsTold
<1> QED BY <1>4, <1>5, <1>6 DEF Related

\* A release: nothing, the beginning of the hang time, or a stop.
Releases ==
  /\ UNCHANGED pttActive
  /\ \/ /\ UNCHANGED <<txStopPending, orders>>
        /\ pttReleasePending' => pttReleasePending \/ (pttActive /\ ~txStopPending)
     \/ /\ pttActive /\ ~txStopPending
        /\ txStopPending' = TRUE /\ pttReleasePending' = FALSE
        /\ orders' = orders \o <<"stop">>

LEMMA ReleaseStep ==
  ASSUME IInv, blocked = FALSE, blocked' = FALSE, Releases,
         UNCHANGED <<signals, recording, output, engineReady, phase, audioReady>>
  PROVE  Related' /\ QueuesOK'
<1>1. CASE /\ UNCHANGED <<txStopPending, orders>>
           /\ pttReleasePending' => pttReleasePending \/ (pttActive /\ ~txStopPending)
  <2>1. pttReleasePending' => pttActive' /\ ~txStopPending'
    BY <1>1, Split DEF Releases, Related, HangsInTransmission
  <2> QED BY <1>1, <2>1, QtRests DEF Releases
<1>2. CASE /\ pttActive /\ ~txStopPending
           /\ txStopPending' = TRUE /\ pttReleasePending' = FALSE
           /\ orders' = orders \o <<"stop">>
  <2>1. "stop" \in Orders \ {"begin"}
    BY DEF Orders
  <2> QED BY <1>2, <2>1, QtOrders
<1> QED BY <1>1, <1>2 DEF Releases

LEMMA PttReleasedReleases ==
  ASSUME PttReleased
  PROVE  Releases
  BY DEF PttReleased, BeginRelease, Order, Releases

\* A forced release leaves no transmission that is not being stopped.
LEMMA ForcedReleases ==
  ASSUME ForcePttRelease, PttOK
  PROVE  Releases /\ (pttActive' => txStopPending')
<1>1. Releases
  BY DEF ForcePttRelease, BeginRelease, Order, Releases
<1>2. pttActive' => txStopPending'
  BY DEF ForcePttRelease, BeginRelease, PttOK
<1> QED BY <1>1, <1>2

\* A press: nothing, or the order to start.
Presses ==
  /\ UNCHANGED <<pttActive, txStopPending>>
  /\ \/ /\ UNCHANGED <<blocked, orders>>
        /\ pttReleasePending' => pttReleasePending
     \/ /\ ~pttActive /\ ~txStopPending /\ phase = "Up"
        /\ UNCHANGED pttReleasePending
        /\ blocked' = TRUE /\ orders' = orders \o <<"begin">>

LEMMA PressStep ==
  ASSUME IInv, blocked = FALSE, Presses,
         UNCHANGED <<signals, recording, output, engineReady, phase, audioReady>>
  PROVE  Related' /\ QueuesOK' /\ blocked' \in BOOLEAN
<1>0. Related /\ PttOK
  BY Split DEF Types
<1>1. CASE UNCHANGED <<blocked, orders>> /\ (pttReleasePending' => pttReleasePending)
  <2>1. pttReleasePending' => pttActive' /\ ~txStopPending'
    BY <1>0, <1>1 DEF Presses, Related, HangsInTransmission
  <2>2. blocked' = FALSE
    BY <1>1
  <2> QED BY <1>1, <2>1, <2>2, QtRests DEF Presses
<1>2. CASE /\ ~pttActive /\ ~txStopPending /\ phase = "Up"
           /\ UNCHANGED pttReleasePending
           /\ blocked' = TRUE /\ orders' = orders \o <<"begin">>
  <2>1. pttActive = FALSE /\ txStopPending = FALSE
    BY <1>0, <1>2 DEF PttOK
  <2> QED BY <1>2, <2>1, QtBegins DEF Presses
<1> QED BY <1>1, <1>2 DEF Presses

LEMMA PressedPresses ==
  ASSUME PttPressed
  PROVE  Presses
  BY DEF PttPressed, StartTransmission, Order, Presses

LEMMA StartPresses ==
  ASSUME StartTransmission, UNCHANGED <<pttActive, txStopPending, pttReleasePending>>
  PROVE  Presses
  BY DEF StartTransmission, Order, Presses

\* Where neither the timer nor the transmission changes, it stays timed.
LEMMA TimedStays ==
  ASSUME Timed, UNCHANGED <<txTimer, txSeconds, txTimeoutSeconds>>,
         pttActive' /\ ~txStopPending' => pttActive /\ ~txStopPending
  PROVE  Timed'
  BY DEF Timed

Flat == SessionOK /\ PttOK /\ TimerOK /\ EngineOK /\ OthersOK

LEMMA JoinFlat ==
  /\ IInv => Flat
  /\ Flat' /\ QueuesOK' /\ Related' /\ Timed' => IInv'
  BY DEF IInv, Flat, Types, Related

-----------------------------------------------------------------------------
(* One lemma for each group of actions. *)

LEMMA PressesKeepIInv ==
  ASSUME IInv, Press \/ ResumeCallRuns \/ RetryCallRuns
  PROVE  IInv'
<1>0. Flat /\ Related /\ Timed /\ blocked = FALSE
  BY JoinFlat, Split
  DEF Flat, PttOK, Press, ResumeCallRuns, RetryCallRuns
<1>1. /\ UNCHANGED <<phase, audioReady, txTimer, txSeconds, txTimeoutSeconds, signals,
                     recording, output, engineReady>>
  BY DEF Press, ResumeCallRuns, RetryCallRuns, session, transmitTimer, settings, engine
<1>2. Presses
  <2>1. CASE PttPressed
    BY <2>1, PressedPresses
  <2>2. CASE StartTransmission /\ UNCHANGED ptt
    BY <2>2, StartPresses DEF ptt
  <2>3. CASE UNCHANGED <<ptt, blocked, orders>>
    BY <2>3 DEF ptt, Presses
  <2> QED BY <2>1, <2>2, <2>3 DEF Press, ResumeCallRuns, RetryCallRuns
<1>3. Related' /\ QueuesOK' /\ blocked' \in BOOLEAN
  BY <1>0, <1>1, <1>2, PressStep
<1>4. Timed'
  BY <1>0, <1>1, <1>2, TimedStays DEF Presses
<1>5. PttOK'
  <2>1. pttReleasePending' \in BOOLEAN
    BY <1>0
    DEF Flat, PttOK, Press, ResumeCallRuns, RetryCallRuns, PttPressed, ptt
  <2> QED BY <1>0, <1>2, <1>3, <2>1 DEF Flat, PttOK, Presses
<1>6. SessionOK' /\ TimerOK' /\ EngineOK'
  BY <1>0, <1>1 DEF Flat, SessionOK, TimerOK, EngineOK
<1>7. OthersOK'
  <2>1. UNCHANGED <<refused, granted, hangTime, focusLost, rebuild>>
    BY DEF Press, ResumeCallRuns, RetryCallRuns, session, settings, engine
  <2>2. restartPending' \in BOOLEAN /\ requestPending' \in BOOLEAN
    BY <1>0
    DEF Flat, OthersOK, Press, ResumeCallRuns, RetryCallRuns, PttPressed, StartTransmission
  <2>3. /\ resume' \in BOOLEAN /\ resumeCall' \in BOOLEAN /\ retryCall' \in BOOLEAN
        /\ released' \in BOOLEAN
    BY <1>0 DEF Flat, OthersOK, Press, ResumeCallRuns, RetryCallRuns
  <2> QED BY <1>0, <2>1, <2>2, <2>3 DEF Flat, OthersOK
<1> QED BY <1>3, <1>4, <1>5, <1>6, <1>7, JoinFlat DEF Flat
\* Releases by the user, by the window, by the hang time and by a limit.
LEMMA ReleasesKeepIInv ==
  ASSUME IInv,
         \/ Release \/ WindowInactive \/ SetPttHangTimeMs
         \/ SetTxTimeoutSeconds \/ OnPttHangTimerTimeout \/ OnTxTimerTimeout
  PROVE  IInv'
<1>0. Flat /\ Related /\ Timed /\ PttOK /\ blocked = FALSE /\ blocked' = FALSE
  BY JoinFlat, Split
  DEF Flat, PttOK, Release, WindowInactive, SetPttHangTimeMs, SetTxTimeoutSeconds,
      OnPttHangTimerTimeout, OnTxTimerTimeout
<1>1. UNCHANGED <<refused, phase, audioReady, resumeCall, granted, requestPending, retryCall,
                  txTimer, signals, recording, output, engineReady, focusLost, rebuild>>
  BY DEF Release, WindowInactive, SetPttHangTimeMs, SetTxTimeoutSeconds,
         OnPttHangTimerTimeout, OnTxTimerTimeout, session, transmitTimer, permission, engine
<1>2. UNCHANGED <<ptt, orders>> => Releases
  BY DEF ptt, Releases
<1>3. Releases
  <2>1. OnPttHangTimerTimeout => Releases
    BY DEF OnPttHangTimerTimeout, BeginRelease, Order, Releases
  <2>2. PttReleased \/ ForcePttRelease => Releases
    BY <1>0, PttReleasedReleases, ForcedReleases
  <2> QED BY <1>2, <2>1, <2>2
      DEF Release, WindowInactive, SetPttHangTimeMs, SetTxTimeoutSeconds, OnTxTimerTimeout
<1>4. Related' /\ QueuesOK'
  BY <1>0, <1>1, <1>3, ReleaseStep
<1>5. Timed'
  <2>1. pttActive' /\ ~txStopPending' => pttActive /\ ~txStopPending
    BY <1>3 DEF Releases
  <2>2. CASE Release \/ WindowInactive \/ SetPttHangTimeMs \/ OnPttHangTimerTimeout
    <3>1. UNCHANGED <<txSeconds, txTimeoutSeconds>>
      BY <2>2
      DEF Release, WindowInactive, SetPttHangTimeMs, OnPttHangTimerTimeout, transmitTimer,
          settings
    <3> QED BY <1>0, <1>1, <2>1, <3>1, TimedStays
  <2>3. CASE SetTxTimeoutSeconds
    <3>1. CASE ForcePttRelease
      BY <1>0, <3>1, ForcedReleases DEF Timed
    <3>2. CASE ~(pttActive /\ ~txStopPending /\ txSeconds >= txTimeoutSeconds')
      <4>1. txSeconds' = txSeconds /\ txSeconds \in Nat /\ txTimeoutSeconds' \in Nat
        BY <1>0, <2>3, LongestIsLimit DEF SetTxTimeoutSeconds, transmitTimer, Flat, TimerOK
      <4>2. pttActive' /\ ~txStopPending' => txSeconds' < txTimeoutSeconds'
        BY <2>1, <3>2, <4>1
      <4> QED BY <1>0, <1>1, <2>1, <4>2 DEF Timed
    <3> QED BY <2>3, <3>1, <3>2 DEF SetTxTimeoutSeconds
  <2>4. CASE OnTxTimerTimeout
    <3>1. CASE ForcePttRelease
      BY <1>0, <3>1, ForcedReleases DEF Timed
    <3>2. CASE ~(pttActive /\ ~txStopPending /\ txSeconds' >= txTimeoutSeconds)
      <4>1. /\ txTimeoutSeconds' = txTimeoutSeconds /\ txSeconds' \in Nat
            /\ txTimeoutSeconds \in Nat
        BY <1>0, <2>4, LongestIsLimit DEF OnTxTimerTimeout, settings, Flat, TimerOK
      <4>2. pttActive' /\ ~txStopPending' => txSeconds' < txTimeoutSeconds'
        BY <2>1, <3>2, <4>1
      <4> QED BY <1>0, <1>1, <2>1, <4>2 DEF Timed
    <3> QED BY <2>4, <3>1, <3>2 DEF OnTxTimerTimeout
  <2> QED BY <2>2, <2>3, <2>4
<1>6. SessionOK' /\ EngineOK'
  BY <1>0, <1>1 DEF Flat, SessionOK, EngineOK
<1>7. TimerOK'
  <2>1. txSeconds' \in Nat /\ txSeconds' <= LongestLimit
    BY <1>0, LongestIsLimit
    DEF Flat, TimerOK, Release, WindowInactive, SetPttHangTimeMs, SetTxTimeoutSeconds,
        OnPttHangTimerTimeout, OnTxTimerTimeout, transmitTimer
  <2>2. txTimeoutSeconds' \in Limits
    BY <1>0
    DEF Flat, TimerOK, Release, WindowInactive, SetPttHangTimeMs, SetTxTimeoutSeconds,
        OnPttHangTimerTimeout, OnTxTimerTimeout, settings
  <2> QED BY <1>0, <1>1, <2>1, <2>2 DEF Flat, TimerOK
<1>8. PttOK'
  <2>1. pttReleasePending' \in BOOLEAN
    BY <1>0
    DEF PttOK, Release, WindowInactive, SetPttHangTimeMs, SetTxTimeoutSeconds,
        OnPttHangTimerTimeout, OnTxTimerTimeout, PttReleased, ForcePttRelease, ptt
  <2> QED BY <1>0, <1>3, <2>1 DEF PttOK, Releases
<1>9. OthersOK'
  <2>1. resume' \in BOOLEAN
    BY <1>0
    DEF Flat, OthersOK, Release, WindowInactive, SetPttHangTimeMs, SetTxTimeoutSeconds,
        OnPttHangTimerTimeout, OnTxTimerTimeout, PttReleased, ForcePttRelease
  <2>2. restartPending' \in BOOLEAN
    BY <1>0
    DEF Flat, OthersOK, Release, WindowInactive, SetPttHangTimeMs, SetTxTimeoutSeconds,
        OnPttHangTimerTimeout, OnTxTimerTimeout, PttReleased, ForcePttRelease, permission
  <2>3. hangTime' \in BOOLEAN /\ released' \in BOOLEAN
    BY <1>0
    DEF Flat, OthersOK, Release, WindowInactive, SetPttHangTimeMs, SetTxTimeoutSeconds,
        OnPttHangTimerTimeout, OnTxTimerTimeout, settings
  <2> QED BY <1>0, <1>1, <2>1, <2>2, <2>3 DEF Flat, OthersOK
<1> QED BY <1>4, <1>5, <1>6, <1>7, <1>8, <1>9, JoinFlat DEF Flat

\* The on-screen button is any of the two.
LEMMA ToggleKeepsIInv ==
  ASSUME IInv, TogglePtt
  PROVE  IInv'
<1>0. Flat /\ Related /\ Timed /\ PttOK /\ blocked = FALSE
  BY JoinFlat, Split DEF Flat, PttOK, TogglePtt
<1>1. /\ UNCHANGED <<refused, phase, audioReady, resumeCall, granted, retryCall,
                     txTimer, txSeconds, txTimeoutSeconds, hangTime, signals,
                     recording, output, engineReady, focusLost, rebuild>>
  BY DEF TogglePtt, session, transmitTimer, settings, engine
<1>2. \/ /\ UNCHANGED <<ptt, requestPending, blocked, orders, resume>>
         /\ restartPending' = FALSE /\ released' = TRUE
      \/ /\ PttReleased \/ ForcePttRelease
         /\ released' = TRUE /\ UNCHANGED <<requestPending, blocked>>
      \/ PttPressed /\ released' = FALSE /\ UNCHANGED resume
  BY DEF TogglePtt
<1>3. Presses \/ (Releases /\ blocked' = FALSE)
  <2>1. UNCHANGED <<ptt, blocked, orders>> => Presses
    BY DEF ptt, Presses
  <2> QED BY <1>0, <1>2, <2>1, PttReleasedReleases, ForcedReleases, PressedPresses
<1>4. Related' /\ QueuesOK' /\ blocked' \in BOOLEAN
  BY <1>0, <1>1, <1>3, PressStep, ReleaseStep
<1>5. Timed'
  <2>1. pttActive' /\ ~txStopPending' => pttActive /\ ~txStopPending
    BY <1>3 DEF Presses, Releases
  <2> QED BY <1>0, <1>1, <2>1, TimedStays
<1>6. PttOK'
  <2>1. pttReleasePending' \in BOOLEAN
    BY <1>0, <1>2 DEF PttOK, PttReleased, ForcePttRelease, PttPressed, ptt
  <2>2. pttActive' \in BOOLEAN /\ txStopPending' \in BOOLEAN
    BY <1>0, <1>3 DEF PttOK, Presses, Releases
  <2> QED BY <1>4, <2>1, <2>2 DEF PttOK
<1>7. SessionOK' /\ TimerOK' /\ EngineOK'
  BY <1>0, <1>1 DEF Flat, SessionOK, TimerOK, EngineOK
<1>8. OthersOK'
  <2>1. resume' \in BOOLEAN /\ released' \in BOOLEAN
    BY <1>0, <1>2 DEF Flat, OthersOK, PttReleased, ForcePttRelease
  <2>2. restartPending' \in BOOLEAN /\ requestPending' \in BOOLEAN
    BY <1>0, <1>2
    DEF Flat, OthersOK, PttReleased, ForcePttRelease, PttPressed, StartTransmission
  <2> QED BY <1>0, <1>1, <2>1, <2>2 DEF Flat, OthersOK
<1> QED BY <1>4, <1>5, <1>6, <1>7, <1>8, JoinFlat DEF Flat
\* Steps that leave the transmission alone.
LEMMA QuietKeepsIInv ==
  ASSUME IInv,
         \/ SessionOpens \/ RefusalFrame \/ HandleServerInfo
         \/ AnswerPermission \/ AudioEvent
  PROVE  IInv'
<1>0. Flat /\ Related /\ Timed /\ PttOK /\ blocked = FALSE /\ blocked' = FALSE
  BY JoinFlat, Split
  DEF Flat, PttOK, SessionOpens, RefusalFrame, HandleServerInfo, AnswerPermission, AudioEvent
<1>1. UNCHANGED <<audioReady, pttActive, pttReleasePending, txStopPending, txTimer, txSeconds,
                  txTimeoutSeconds, signals, recording, output, engineReady>>
  BY DEF SessionOpens, RefusalFrame, HandleServerInfo, AnswerPermission, AudioEvent, ptt,
         transmitTimer, settings, engine
<1>2. pttReleasePending' => pttActive' /\ ~txStopPending'
  BY <1>0, <1>1 DEF Related, HangsInTransmission
<1>3. Related' /\ QueuesOK'
  <2>1. CASE SessionOpens \/ RefusalFrame \/ AnswerPermission
    <3>1. orders' = orders /\ (phase' = "Up" => phase = "Up")
      BY <2>1 DEF SessionOpens, RefusalFrame, AnswerPermission, session
    <3> QED BY <1>0, <1>1, <1>2, <3>1, QtRests
  <2>2. CASE HandleServerInfo
    <3>1. "setup" \in Orders \ {"begin"} /\ orders' = orders \o <<"setup">>
      BY <2>2 DEF HandleServerInfo, Order, Orders
    <3> QED BY <1>0, <1>1, <1>2, <3>1, QtOrders
  <2>3. CASE AudioEvent
    <3>1. PICK event \in AudioEvents : orders' = orders \o <<event>>
      BY <2>3 DEF AudioEvent, Order
    <3>2. event \in Orders \ {"begin"}
      BY AudioEventsAssumption DEF Orders
    <3>3. phase' = phase
      BY <2>3 DEF AudioEvent, session
    <3> QED BY <1>0, <1>1, <1>2, <3>1, <3>2, <3>3, QtOrders
  <2> QED BY <2>1, <2>2, <2>3
<1>4. Timed'
  BY <1>0, <1>1, TimedStays
<1>5. SessionOK' /\ TimerOK' /\ EngineOK' /\ PttOK'
  <2>1. phase' \in {"Down", "Opening", "Up"}
    BY <1>0
    DEF Flat, SessionOK, SessionOpens, RefusalFrame, HandleServerInfo, AnswerPermission,
        AudioEvent, session
  <2> QED BY <1>0, <1>1, <2>1 DEF Flat, SessionOK, TimerOK, EngineOK, PttOK
<1>6. OthersOK'
  <2>1. UNCHANGED <<hangTime, focusLost, rebuild, released>>
    BY DEF SessionOpens, RefusalFrame, HandleServerInfo, AnswerPermission, AudioEvent,
           settings, engine
  <2>2. refused' \in BOOLEAN
    BY <1>0
    DEF Flat, OthersOK, SessionOpens, RefusalFrame, HandleServerInfo, AnswerPermission,
        AudioEvent, session
  <2>3. resume' \in BOOLEAN /\ resumeCall' \in BOOLEAN
    BY <1>0
    DEF Flat, OthersOK, SessionOpens, RefusalFrame, HandleServerInfo, AnswerPermission,
        AudioEvent, ResumeIfReady
  <2>4. /\ granted' \in BOOLEAN /\ restartPending' \in BOOLEAN
        /\ requestPending' \in BOOLEAN /\ retryCall' \in BOOLEAN
    <3>1. CASE AnswerPermission
      <4>1. PICK authorized \in Grants :
              granted' = authorized /\ retryCall' = (authorized /\ restartPending)
        BY <3>1 DEF AnswerPermission
      <4>2. authorized \in BOOLEAN /\ requestPending' = FALSE /\ restartPending' = FALSE
        BY <3>1, GrantsAssumption DEF AnswerPermission
      <4>3. retryCall' \in BOOLEAN
        BY <4>1
      <4> QED BY <4>1, <4>2, <4>3
    <3>2. CASE UNCHANGED permission
      BY <1>0, <3>2 DEF Flat, OthersOK, permission
    <3> QED BY <3>1, <3>2 DEF SessionOpens, RefusalFrame, HandleServerInfo, AudioEvent
  <2> QED BY <1>0, <2>1, <2>2, <2>3, <2>4 DEF Flat, OthersOK
<1> QED BY <1>3, <1>4, <1>5, <1>6, JoinFlat DEF Flat

\* A session's end resets the transmission and orders the capture to be stopped.
LEMMA EndStep ==
  ASSUME IInv, blocked = FALSE, blocked' = FALSE, ResetTransmission, phase' = "Down",
         NEW t \in Seq(Orders), ~ Has(t, "begin"), orders' = orders \o t,
         TransmitWasActive => Has(t, "stop"),
         UNCHANGED <<signals, recording, output, engineReady, txTimeoutSeconds>>
  PROVE  /\ Related' /\ QueuesOK' /\ Timed'
         /\ SessionOK' /\ PttOK' /\ TimerOK' /\ EngineOK'
<1>0. Flat
  BY JoinFlat
<1>1. /\ pttActive' = FALSE /\ pttReleasePending' = FALSE /\ txStopPending' = FALSE
      /\ txTimer' = FALSE /\ txSeconds' = 0 /\ audioReady' = FALSE
  BY DEF ResetTransmission
<1>2. pttActive /\ ~txStopPending => Has(t, "stop")
  BY DEF TransmitWasActive
<1>3. Related' /\ QueuesOK'
  BY <1>1, <1>2, QtStep
<1>4. Timed' /\ SessionOK' /\ PttOK' /\ EngineOK'
  BY <1>0, <1>1 DEF Timed, Flat, SessionOK, PttOK, EngineOK
<1>5. TimerOK'
  <2>1. txTimer' \in BOOLEAN /\ txTimeoutSeconds' \in Limits
    BY <1>0, <1>1 DEF Flat, TimerOK
  <2>2. txSeconds' \in Nat /\ txSeconds' <= LongestLimit
    BY <1>1, LongestIsLimit
  <2> QED BY <2>1, <2>2 DEF TimerOK
<1> QED BY <1>3, <1>4, <1>5

LEMMA ShortAreOrders ==
  <<>> \in Seq(Orders) /\ <<"stop">> \in Seq(Orders) /\ <<"cleanup">> \in Seq(Orders)
<1>1. "stop" \in Orders /\ "cleanup" \in Orders
  BY DEF Orders
<1> QED BY <1>1

\* What a disconnection orders.
Farewell(forced) ==
  (IF forced /\ ~txStopPending THEN <<"stop">> ELSE <<>>)
  \o <<"cleanup">>
  \o (IF TransmitWasActive THEN <<"stop">> ELSE <<>>)

LEMMA FarewellStops ==
  ASSUME NEW forced \in BOOLEAN
  PROVE  /\ Farewell(forced) \in Seq(Orders)
         /\ ~ Has(Farewell(forced), "begin")
         /\ TransmitWasActive => Has(Farewell(forced), "stop")
<1> DEFINE a == IF forced /\ ~txStopPending THEN <<"stop">> ELSE <<>>
           c == IF TransmitWasActive THEN <<"stop">> ELSE <<>>
<1>1. a \in Seq(Orders) /\ c \in Seq(Orders) /\ <<"cleanup">> \in Seq(Orders)
  BY ShortAreOrders
<1>2. /\ ~ Has(a, "begin") /\ ~ Has(c, "begin") /\ ~ Has(<<"cleanup">>, "begin")
      /\ TransmitWasActive => Has(c, "stop")
  BY Few
<1> HIDE DEF a, c
<1> DEFINE b == a \o <<"cleanup">>
<1>3. b \in Seq(Orders) /\ \A x : Has(b, x) <=> Has(a, x) \/ Has(<<"cleanup">>, x)
  BY <1>1, Added
<1>4. Farewell(forced) = b \o c
  BY DEF Farewell, a, c
<1> HIDE DEF b
<1>5. b \o c \in Seq(Orders) /\ \A x : Has(b \o c, x) <=> Has(b, x) \/ Has(c, x)
  BY <1>1, <1>3, Added
<1> QED BY <1>2, <1>3, <1>4, <1>5

LEMMA EndsKeepIInv ==
  ASSUME IInv, SessionLost \/ DisconnectFromServer \/ MediaPause
  PROVE  IInv'
<1>0. Flat /\ Related /\ Timed /\ PttOK /\ blocked = FALSE /\ blocked' = FALSE
  BY JoinFlat, Split DEF Flat, PttOK, SessionLost, DisconnectFromServer, MediaPause
<1>1. UNCHANGED <<resumeCall, granted, requestPending, retryCall, txTimeoutSeconds, hangTime,
                  signals, recording, output, engineReady, focusLost, rebuild>>
  BY DEF SessionLost, DisconnectFromServer, MediaPause, permission, settings, engine
<1>2. OthersOK'
  <2>1. refused' \in BOOLEAN /\ released' \in BOOLEAN
    BY <1>0
    DEF Flat, PttOK, OthersOK, SessionLost, DisconnectFromServer, MediaPause, Disconnect, session
  <2>2. resume' \in BOOLEAN
    BY <1>0
    DEF Flat, OthersOK, SessionLost, DisconnectFromServer, MediaPause, Disconnect,
        ForcePttRelease
  <2>3. restartPending' \in BOOLEAN
    BY <1>0
    DEF Flat, OthersOK, SessionLost, DisconnectFromServer, MediaPause, Disconnect,
        ForcePttRelease, permission
  <2> QED BY <1>0, <1>1, <2>1, <2>2, <2>3 DEF Flat, OthersOK
<1>3. CASE SessionLost
  <2> DEFINE t == IF TransmitWasActive THEN <<"stop">> ELSE <<>>
  <2>1. t \in Seq(Orders) /\ ~ Has(t, "begin") /\ (TransmitWasActive => Has(t, "stop"))
    BY Few, ShortAreOrders
  <2>2. orders \in Seq(Orders)
    BY Split DEF Types, QueuesOK
  <2>3. orders' = orders \o t
    BY <1>3, <2>2 DEF SessionLost, StopCapture, Order
  <2>4. ResetTransmission /\ phase' = "Down"
    BY <1>3 DEF SessionLost
  <2> HIDE DEF t
  <2> QED BY <1>0, <1>1, <1>2, <2>1, <2>3, <2>4, EndStep, JoinFlat DEF Flat
<1>4. ASSUME NEW forced \in BOOLEAN, Disconnect(forced)
      PROVE  IInv'
  <2>1. orders' = orders \o Farewell(forced) /\ ResetTransmission /\ phase' = "Down"
    BY <1>4 DEF Disconnect, Order, Farewell
  <2> QED BY <1>0, <1>1, <1>2, <2>1, FarewellStops, EndStep, JoinFlat DEF Flat
<1>5. CASE /\ ForcePttRelease
           /\ UNCHANGED <<session, audioReady, transmitTimer>>
  <2>1. UNCHANGED <<phase, audioReady, txTimer, txSeconds>>
    BY <1>5 DEF session, transmitTimer
  <2>2. Releases /\ (pttActive' => txStopPending')
    BY <1>0, <1>5, ForcedReleases
  <2>3. Related' /\ QueuesOK'
    BY <1>0, <1>1, <2>1, <2>2, ReleaseStep
  <2>4. Timed'
    BY <2>2 DEF Timed
  <2>5. PttOK'
    BY <1>0, <1>5, <2>2 DEF PttOK, Releases, ForcePttRelease
  <2>6. SessionOK' /\ TimerOK' /\ EngineOK'
    BY <1>0, <1>1, <2>1 DEF Flat, SessionOK, TimerOK, EngineOK
  <2> QED BY <1>2, <2>3, <2>4, <2>5, <2>6, JoinFlat DEF Flat
<1>6. CASE UNCHANGED <<session, audioReady, ptt, orders, transmitTimer>>
  <2>1. UNCHANGED <<phase, audioReady, pttActive, pttReleasePending, txStopPending, orders,
                    txTimer, txSeconds>>
    BY <1>6 DEF session, ptt, transmitTimer
  <2>2. pttReleasePending' => pttActive' /\ ~txStopPending'
    BY <1>0, <2>1 DEF Related, HangsInTransmission
  <2>3. Related' /\ QueuesOK'
    BY <1>0, <1>1, <2>1, <2>2, QtRests
  <2>4. Timed'
    BY <1>0, <1>1, <2>1, TimedStays
  <2>5. SessionOK' /\ PttOK' /\ TimerOK' /\ EngineOK'
    BY <1>0, <1>1, <2>1 DEF Flat, SessionOK, PttOK, TimerOK, EngineOK
  <2> QED BY <1>2, <2>3, <2>4, <2>5, JoinFlat DEF Flat
<1>7. CASE DisconnectFromServer
  BY <1>4, <1>7 DEF DisconnectFromServer
<1>8. CASE MediaPause
  BY <1>0, <1>4, <1>5, <1>6, <1>8 DEF MediaPause, PttOK
<1> QED BY <1>3, <1>7, <1>8
-----------------------------------------------------------------------------
(* The engine's signals. *)

LEMMA SignalsAdded ==
  ASSUME QueuesOK, NEW t \in Seq(Signals), signals' = signals \o t
  PROVE  /\ signals' \in Seq(Signals)
         /\ \A x : Signalled(x)' <=> Signalled(x) \/ Has(t, x)
<1>1. signals' \in Seq(Signals) /\ \A x : Has(signals', x) <=> Has(signals, x) \/ Has(t, x)
  BY Added DEF QueuesOK
<1> QED BY <1>1, HasIsQueued, HasIsQueuedNext

\* What follows without taking the readiness back keeps it.
LEMMA WillBeReadyKept ==
  ASSUME QueuesOK, WillBeReady, audioReady' = audioReady,
         NEW t \in Seq(Signals), ~ Has(t, "notReady"), signals' = signals \o t
  PROVE  WillBeReady'
<1>0. /\ signals \in Seq(Signals) /\ Len(signals) \in Nat /\ Len(t) \in Nat
      /\ Len(signals') = Len(signals) + Len(t)
      /\ \A k \in 1 .. Len(signals) : signals'[k] = signals[k]
      /\ \A k \in 1 .. Len(t) : signals'[Len(signals) + k] = t[k]
  BY DEF QueuesOK
<1>1. CASE audioReady /\ ~ Signalled("notReady")
  <2>1. ~ Signalled("notReady")'
    BY <1>1, SignalsAdded
  <2> QED BY <1>1, <2>1 DEF WillBeReady
<1>2. CASE \E i \in 1 .. Len(signals) :
             /\ signals[i] \in {"ready", "setupFinished"}
             /\ \A j \in 1 .. Len(signals) : j > i => signals[j] # "notReady"
  <2>1. PICK i \in 1 .. Len(signals) :
             /\ signals[i] \in {"ready", "setupFinished"}
             /\ \A j \in 1 .. Len(signals) : j > i => signals[j] # "notReady"
    BY <1>2
  <2>2. i \in 1 .. Len(signals') /\ signals'[i] \in {"ready", "setupFinished"}
    BY <1>0, <2>1
  <2>3. ASSUME NEW j \in 1 .. Len(signals'), j > i
        PROVE  signals'[j] # "notReady"
    <3>1. CASE j <= Len(signals)
      BY <1>0, <2>1, <2>3, <3>1
    <3>2. CASE j > Len(signals)
      <4>1. j - Len(signals) \in 1 .. Len(t) /\ Len(signals) + (j - Len(signals)) = j
        BY <1>0, <3>2
      <4>2. t[j - Len(signals)] # "notReady"
        BY <4>1 DEF Has
      <4> QED BY <1>0, <4>1, <4>2
    <3> QED BY <1>0, <3>1, <3>2
  <2> QED BY <2>2, <2>3 DEF WillBeReady
<1> QED BY <1>1, <1>2 DEF WillBeReady

\* A setup that succeeded is told last.
LEMMA WillBeReadyTold ==
  ASSUME NEW q \in Seq(Signals), signals' = Append(q, "setupFinished")
  PROVE  WillBeReady'
<1>1. /\ Len(signals') \in Nat /\ Len(signals') >= 1
      /\ signals'[Len(signals')] = "setupFinished"
  OBVIOUS
<1> QED BY <1>1 DEF WillBeReady

\* Taking a signal and knowing what it says changes nothing of what will be known.
LEMMA WillBeReadyTaken ==
  ASSUME QueuesOK, WillBeReady, signals # <<>>, signals' = Tail(signals),
         Head(signals) \in {"ready", "setupFinished"} => audioReady' = TRUE,
         Head(signals) \notin {"ready", "setupFinished", "notReady"} => audioReady' = audioReady
  PROVE  WillBeReady'
<1>0. /\ Len(signals) \in Nat \ {0} /\ Len(signals') = Len(signals) - 1
      /\ Head(signals) = signals[1]
      /\ \A k \in 1 .. Len(signals') : k + 1 \in 1 .. Len(signals) /\ signals'[k] = signals[k + 1]
  BY DEF QueuesOK
<1>1. CASE audioReady /\ ~ Signalled("notReady")
  <2>1. Head(signals) # "notReady" /\ ~ Signalled("notReady")'
    BY <1>0, <1>1 DEF Signalled
  <2>2. audioReady'
    BY <1>1, <2>1
  <2> QED BY <2>1, <2>2 DEF WillBeReady
<1>2. ASSUME NEW i \in 1 .. Len(signals),
             signals[i] \in {"ready", "setupFinished"},
             \A j \in 1 .. Len(signals) : j > i => signals[j] # "notReady"
      PROVE  WillBeReady'
  <2>1. CASE i = 1
    <3>1. audioReady' = TRUE
      BY <1>0, <1>2, <2>1
    <3>2. \A k \in 1 .. Len(signals') : signals'[k] # "notReady"
      BY <1>0, <1>2, <2>1
    <3>3. ~ Signalled("notReady")'
      BY <3>2 DEF Signalled
    <3> QED BY <3>1, <3>3 DEF WillBeReady
  <2>2. CASE i # 1
    <3>1. i - 1 \in 1 .. Len(signals') /\ signals'[i - 1] \in {"ready", "setupFinished"}
      BY <1>0, <1>2, <2>2
    <3>2. \A k \in 1 .. Len(signals') : k > i - 1 => signals'[k] # "notReady"
      BY <1>0, <1>2
    <3> QED BY <3>1, <3>2 DEF WillBeReady
  <2> QED BY <2>1, <2>2
<1> QED BY <1>1, <1>2 DEF WillBeReady

\* The Qt thread handles a signal: a drain ends a transmission whose capture is
\* closed, or is about to be.
LEMMA SignalsKeepIInv ==
  ASSUME IInv, DeliverSignal
  PROVE  IInv'
<1>0. Flat /\ Related /\ Timed /\ PttOK /\ QueuesOK /\ blocked = FALSE /\ blocked' = FALSE
  BY JoinFlat, Split DEF Flat, Types, PttOK, DeliverSignal
<1>1. /\ UNCHANGED <<phase, refused, granted, restartPending, requestPending, retryCall,
                     txTimeoutSeconds, hangTime, orders, recording, output, engineReady,
                     focusLost, rebuild, released>>
      /\ signals # <<>> /\ signals' = Tail(signals)
  BY DEF DeliverSignal, session, permission, settings, engine
<1>2. /\ signals' \in Seq(Signals) /\ Head(signals) \in Signals
      /\ \A x : Signalled(x) <=> x = Head(signals) \/ Signalled(x)'
  <2>1. /\ Tail(signals) \in Seq(Signals) /\ Head(signals) \in Signals
        /\ \A x : Has(signals, x) <=> x = Head(signals) \/ Has(Tail(signals), x)
    BY <1>0, <1>1, Taken DEF QueuesOK
  <2> QED BY <1>1, <2>1, HasIsQueued, HasIsQueuedNext
<1>3. \/ /\ Head(signals) \in {"ready", "setupFinished"}
         /\ audioReady' = TRUE /\ ResumeIfReady /\ UNCHANGED <<ptt, transmitTimer>>
      \/ /\ Head(signals) = "notReady"
         /\ audioReady' = FALSE /\ UNCHANGED <<ptt, transmitTimer, resume, resumeCall>>
      \/ /\ Head(signals) = "drain"
         /\ OnTxDrainComplete /\ UNCHANGED <<audioReady, resume, resumeCall>>
  BY <1>2 DEF DeliverSignal, Signals
<1>4. \/ /\ UNCHANGED <<pttActive, pttReleasePending, txStopPending, txTimer, txSeconds>>
         /\ Head(signals) = "drain" => ~txStopPending
      \/ /\ txStopPending /\ txStopPending' = FALSE /\ pttActive' = FALSE
         /\ txTimer' = FALSE /\ txSeconds' = 0 /\ UNCHANGED pttReleasePending
  BY <1>3 DEF OnTxDrainComplete, ptt, transmitTimer
<1>5. HangsInTransmission' /\ StopIsOrdered' /\ DrainIsComing'
  <2>1. UNCHANGED <<recording, orders>> /\ \A x : Ordered(x)' <=> Ordered(x)
    BY <1>1 DEF Ordered
  <2>2. HangsInTransmission'
    BY <1>0, <1>4 DEF Related, HangsInTransmission
  <2>3. StopIsOrdered'
    BY <1>0, <1>4, <2>1 DEF Related, StopIsOrdered
  <2>4. DrainIsComing'
    BY <1>0, <1>2, <1>4, <2>1 DEF Related, DrainIsComing
  <2> QED BY <2>2, <2>3, <2>4
<1>6. WaitsForBegin' /\ Timed'
  <2>1. WaitsForBegin'
    BY <1>0, <1>1 DEF Related, WaitsForBegin
  <2>2. Timed'
    BY <1>0, <1>1, <1>4 DEF Timed
  <2> QED BY <2>1, <2>2
<1>7. ReadyIsTold'
  <2>1. WillBeReady => WillBeReady'
    BY <1>0, <1>1, <1>3, WillBeReadyTaken
  <2> QED BY <1>0, <1>1, <2>1 DEF Related, ReadyIsTold, Ordered
<1>8. SessionOK' /\ EngineOK' /\ PttOK' /\ TimerOK'
  <2>1. audioReady' \in BOOLEAN
    BY <1>0, <1>3 DEF Flat, SessionOK
  <2>2. txSeconds' \in Nat /\ txSeconds' <= LongestLimit
    BY <1>0, <1>4, LongestIsLimit DEF Flat, TimerOK
  <2>3. PttOK'
    BY <1>0, <1>4 DEF PttOK
  <2>4. txTimer' \in BOOLEAN /\ txTimeoutSeconds' \in Limits
    BY <1>0, <1>1, <1>4 DEF Flat, TimerOK
  <2>5. TimerOK'
    BY <2>2, <2>4 DEF TimerOK
  <2> QED BY <1>0, <1>1, <2>1, <2>3, <2>5 DEF Flat, SessionOK, EngineOK
<1>9. OthersOK'
  <2>1. resume' \in BOOLEAN /\ resumeCall' \in BOOLEAN
    BY <1>0, <1>3 DEF Flat, OthersOK, ResumeIfReady
  <2> QED BY <1>0, <1>1, <2>1 DEF Flat, OthersOK
<1>10. QueuesOK'
  BY <1>0, <1>1, <1>2 DEF QueuesOK
<1> QED BY <1>5, <1>6, <1>7, <1>8, <1>9, <1>10, JoinFlat DEF Flat, Related
-----------------------------------------------------------------------------
(* Steps of the engine. *)

LEMMA OrderTaken ==
  ASSUME QueuesOK, orders # <<>>, orders' = Tail(orders)
  PROVE  /\ orders' \in Seq(Orders) /\ Head(orders) \in Orders
         /\ \A x : Ordered(x) <=> x = Head(orders) \/ Ordered(x)'
<1>1. /\ Tail(orders) \in Seq(Orders) /\ Head(orders) \in Orders
      /\ \A x : Has(orders, x) <=> x = Head(orders) \/ Has(Tail(orders), x)
  BY Taken DEF QueuesOK
<1> QED BY <1>1, HasIsQueued, HasIsQueuedNext

LEMMA BeginStaysLast ==
  ASSUME QueuesOK, WaitsForBegin, orders # <<>>, orders' = Tail(orders),
         UNCHANGED <<blocked, pttActive, txStopPending, phase>>
  PROVE  WaitsForBegin'
<1>1. /\ Len(orders) \in Nat \ {0} /\ Len(orders') = Len(orders) - 1
      /\ \A k \in 1 .. Len(orders') : k + 1 \in 1 .. Len(orders) /\ orders'[k] = orders[k + 1]
  BY DEF QueuesOK
<1>2. ASSUME NEW k \in 1 .. Len(orders'), orders'[k] = "begin"
      PROVE  blocked' /\ k = Len(orders')
  <2>1. blocked /\ k + 1 = Len(orders)
    BY <1>1, <1>2 DEF WaitsForBegin
  <2>2. ASSUME NEW n \in Nat, NEW m, m = n - 1, NEW j \in 1 .. m, j + 1 = n
        PROVE  j = m
    BY <2>2
  <2>3. k = Len(orders')
    BY <1>1, <2>1, <2>2
  <2> QED BY <2>1, <2>3
<1> QED BY <1>2 DEF WaitsForBegin

\* A start is the last order: none is left behind it.
LEMMA BeginIsLast ==
  ASSUME QueuesOK, WaitsForBegin, orders # <<>>, Head(orders) = "begin",
         orders' = Tail(orders)
  PROVE  /\ orders' = <<>> /\ blocked
         /\ ~pttActive /\ ~txStopPending /\ phase = "Up"
<1>1. /\ Len(orders) \in Nat \ {0} /\ Head(orders) = orders[1] /\ 1 \in 1 .. Len(orders)
      /\ orders' \in Seq(Orders) /\ Len(orders') = Len(orders) - 1
  BY DEF QueuesOK
<1>2. blocked /\ 1 = Len(orders)
  BY <1>1 DEF WaitsForBegin
<1>3. orders' = <<>>
  BY <1>1, <1>2
<1> QED BY <1>2, <1>3 DEF WaitsForBegin

\* The engine carries out o, which is no start, and signals t: it opens no
\* microphone, tells the drain when it was told to stop, and what it says of its
\* readiness is what its output does.
LEMMA EngineAffects ==
  ASSUME Related, QueuesOK, WaitsForBegin', NEW o, NEW t \in Seq(Signals),
         \A x : Ordered(x) => x = o \/ Ordered(x)',
         signals' = signals \o t,
         UNCHANGED <<phase, audioReady, pttActive, pttReleasePending, txStopPending>>,
         recording' => recording /\ o # "stop",
         o = "stop" => Has(t, "drain"),
         output' = engineReady',
         engineReady' => WillBeReady' \/ (engineReady /\ ~ Has(t, "notReady") /\ o # "setup")
  PROVE  Related'
<1>1. \A x : Signalled(x)' <=> Signalled(x) \/ Has(t, x)
  BY SignalsAdded
<1>2. HangsInTransmission' /\ StopIsOrdered' /\ DrainIsComing'
  BY <1>1 DEF Related, HangsInTransmission, StopIsOrdered, DrainIsComing
<1>3. ReadyIsTold'
  <2>1. CASE engineReady /\ ~ Has(t, "notReady") /\ o # "setup" /\ phase = "Up"
    <3>1. CASE WillBeReady
      <4>1. WillBeReady'
        BY <2>1, <3>1, WillBeReadyKept
      <4> QED BY <4>1 DEF ReadyIsTold
    <3>2. CASE Ordered("setup")
      BY <2>1, <3>2 DEF ReadyIsTold
    <3> QED BY <2>1, <3>1, <3>2 DEF Related, ReadyIsTold
  <2>2. CASE WillBeReady' \/ ~engineReady' \/ phase # "Up"
    BY <2>2 DEF ReadyIsTold
  <2> QED BY <2>1, <2>2
<1> QED BY <1>2, <1>3 DEF Related

LEMMA ShortAreSignals ==
  ASSUME NEW c
  PROVE  /\ <<>> \in Seq(Signals)
         /\ If(c, "ready") \in Seq(Signals) /\ If(c, "notReady") \in Seq(Signals)
         /\ If(c, "drain") \in Seq(Signals) /\ <<"setupFinished">> \in Seq(Signals)
         /\ <<"ready", "setupFinished">> \in Seq(Signals)
<1>1. /\ "ready" \in Signals /\ "notReady" \in Signals
      /\ "drain" \in Signals /\ "setupFinished" \in Signals
  BY DEF Signals
<1>2. \A x \in Signals : <<x>> \in Seq(Signals)
  OBVIOUS
<1>3. <<>> \in Seq(Signals)
  OBVIOUS
<1>4. <<"ready", "setupFinished">> \in Seq(Signals)
  BY <1>1
<1> QED BY <1>1, <1>2, <1>3, <1>4 DEF If

\* A queue that was extended by what ends with a finished setup.
LEMMA LastTold ==
  ASSUME QueuesOK, NEW a \in Seq(Signals), NEW b \in Seq(Signals), Len(b) > 0,
         b[Len(b)] = "setupFinished", signals' = signals \o (a \o b)
  PROVE  WillBeReady'
<1>1. /\ Len(a \o b) = Len(a) + Len(b) /\ Len(a) \in Nat /\ Len(b) \in Nat
      /\ (a \o b)[Len(a) + Len(b)] = b[Len(b)] /\ a \o b \in Seq(Signals)
  OBVIOUS
<1> DEFINE c == a \o b
<1>2. c \in Seq(Signals) /\ Len(c) \in Nat \ {0} /\ c[Len(c)] = "setupFinished"
  BY <1>1
<1>3. signals' = signals \o c
  OBVIOUS
<1> HIDE DEF c
<1>4. /\ Len(signals') = Len(signals) + Len(c) /\ Len(signals) \in Nat
      /\ signals'[Len(signals) + Len(c)] = c[Len(c)]
  BY <1>2, <1>3 DEF QueuesOK
<1>5. Len(signals') \in 1 .. Len(signals') /\ signals'[Len(signals')] = "setupFinished"
  BY <1>2, <1>4
<1> QED BY <1>5 DEF WillBeReady

LEMMA SetupTells ==
  ASSUME QueuesOK, EngineOK, output = engineReady, SetupAudio
  PROVE  /\ output' = engineReady' /\ output' \in BOOLEAN
         /\ \E t \in Seq(Signals) : signals' = signals \o t
         /\ engineReady' => WillBeReady'
<1>1. CASE engineReady' = TRUE /\ output' = TRUE /\ Emit(ReadySignals)
  <2> DEFINE a == If(~engineReady, "ready")
             b == <<"setupFinished">>
  <2>1. a \in Seq(Signals) /\ b \in Seq(Signals)
    BY ShortAreSignals
  <2>2. Len(b) > 0 /\ b[Len(b)] = "setupFinished"
    OBVIOUS
  <2>3. signals' = signals \o (a \o b)
    BY <1>1 DEF Emit, ReadySignals
  <2> HIDE DEF a, b
  <2>4. WillBeReady'
    BY <2>1, <2>2, <2>3, LastTold
  <2>5. a \o b \in Seq(Signals)
    BY <2>1
  <2> QED BY <1>1, <2>3, <2>4, <2>5
<1>2. CASE ~output /\ UNCHANGED <<engineReady, output, signals>>
  <2>1. <<>> \in Seq(Signals) /\ signals' = signals \o <<>>
    BY <1>2 DEF QueuesOK
  <2> QED BY <1>2, <2>1 DEF EngineOK
<1> QED BY <1>1, <1>2 DEF SetupAudio

\* A route change tells what it takes back and, last, what it restored.
LEMMA RouteTells ==
  ASSUME QueuesOK, EngineOK, output = engineReady, HandleAudioRouteChanged
  PROVE  /\ output' = engineReady' /\ output' \in BOOLEAN
         /\ recording' \in BOOLEAN /\ (recording' => recording)
         /\ \E t \in Seq(Signals) :
              /\ signals' = signals \o t
              /\ engineReady' => WillBeReady' \/ (engineReady /\ ~ Has(t, "notReady"))
<1>1. CASE UNCHANGED <<recording, output, engineReady, signals>>
  <2>1. <<>> \in Seq(Signals) /\ signals' = signals \o <<>>
    BY <1>1 DEF QueuesOK
  <2> QED BY <1>1, <2>1, Few DEF EngineOK
<1>2. CASE UNCHANGED <<output, engineReady>> /\ Emit(If(recording, "drain"))
           /\ recording' \in (IF recording THEN BOOLEAN ELSE {FALSE})
  <2>1. If(recording, "drain") \in Seq(Signals) /\ ~ Has(If(recording, "drain"), "notReady")
    BY ShortAreSignals, Few DEF If
  <2>2. signals' = signals \o If(recording, "drain")
    BY <1>2 DEF Emit
  <2> QED BY <1>2, <2>1, <2>2 DEF EngineOK
<1>3. ASSUME NEW rebuilt \in BOOLEAN, output' = rebuilt, engineReady' = rebuilt,
             Emit(If(recording, "drain") \o If(engineReady, "notReady")
                  \o (IF rebuilt THEN <<"ready", "setupFinished">> ELSE <<>>)),
             recording' \in (IF recording THEN BOOLEAN ELSE {FALSE})
      PROVE  /\ \E t \in Seq(Signals) : signals' = signals \o t
             /\ engineReady' => WillBeReady'
  <2> DEFINE a == If(recording, "drain") \o If(engineReady, "notReady")
             b == IF rebuilt THEN <<"ready", "setupFinished">> ELSE <<>>
  <2>1. If(recording, "drain") \in Seq(Signals) /\ If(engineReady, "notReady") \in Seq(Signals)
    BY ShortAreSignals
  <2>2. a \in Seq(Signals)
    BY <2>1
  <2>3. b \in Seq(Signals)
    BY ShortAreSignals
  <2>4. rebuilt => Len(b) > 0 /\ b[Len(b)] = "setupFinished"
    OBVIOUS
  <2>5. signals' = signals \o (a \o b)
    BY <1>3 DEF Emit
  <2> HIDE DEF a, b
  <2>6. engineReady' => WillBeReady'
    BY <1>3, <2>2, <2>3, <2>4, <2>5, LastTold
  <2>7. a \o b \in Seq(Signals)
    BY <2>2, <2>3
  <2> QED BY <2>5, <2>6, <2>7
<1>4. \/ UNCHANGED <<recording, output, engineReady, signals>>
      \/ /\ recording' \in (IF recording THEN BOOLEAN ELSE {FALSE})
         /\ \/ UNCHANGED <<output, engineReady>> /\ Emit(If(recording, "drain"))
            \/ \E rebuilt \in BOOLEAN :
                 /\ output' = rebuilt /\ engineReady' = rebuilt
                 /\ Emit(If(recording, "drain") \o If(engineReady, "notReady")
                         \o (IF rebuilt THEN <<"ready", "setupFinished">> ELSE <<>>))
  BY DEF HandleAudioRouteChanged
<1>5. CASE /\ recording' \in (IF recording THEN BOOLEAN ELSE {FALSE})
           /\ \E rebuilt \in BOOLEAN :
                /\ output' = rebuilt /\ engineReady' = rebuilt
                /\ Emit(If(recording, "drain") \o If(engineReady, "notReady")
                        \o (IF rebuilt THEN <<"ready", "setupFinished">> ELSE <<>>))
  BY <1>3, <1>5 DEF EngineOK
<1> QED BY <1>1, <1>2, <1>4, <1>5

\* What carrying out any order but a start keeps.
LEMMA EngineKeeps ==
  ASSUME IInv, NEW o, NEW t \in Seq(Signals),
         orders' \in Seq(Orders), WaitsForBegin',
         \A x : Ordered(x) => x = o \/ Ordered(x)',
         signals' = signals \o t,
         UNCHANGED <<phase, refused, audioReady, pttActive, pttReleasePending, txStopPending,
                     resume, resumeCall, granted, restartPending, requestPending, retryCall,
                     txTimer, txSeconds, txTimeoutSeconds, hangTime, blocked, released>>,
         recording' \in BOOLEAN, output' \in BOOLEAN, focusLost' \in BOOLEAN,
         rebuild' \in BOOLEAN,
         recording' => recording /\ o # "stop",
         o = "stop" => Has(t, "drain"),
         output' = engineReady',
         engineReady' => WillBeReady' \/ (engineReady /\ ~ Has(t, "notReady") /\ o # "setup")
  PROVE  IInv'
<1>0. Flat /\ Related /\ Timed /\ QueuesOK
  BY JoinFlat, Split DEF Types
<1>1. Related'
  BY <1>0, EngineAffects
<1>2. Timed'
  BY <1>0, TimedStays
<1>3. QueuesOK'
  BY <1>0, SignalsAdded DEF QueuesOK
<1>4. EngineOK'
  BY <1>0 DEF Flat, EngineOK
<1>5. SessionOK' /\ PttOK' /\ TimerOK' /\ OthersOK'
  BY <1>0 DEF Flat, SessionOK, PttOK, TimerOK, OthersOK
<1> QED BY <1>1, <1>2, <1>3, <1>4, <1>5, JoinFlat DEF Flat

LEMMA RebuildKeepsIInv ==
  ASSUME IInv, RebuildRuns
  PROVE  IInv'
<1>0. /\ QueuesOK /\ EngineOK /\ OthersOK /\ WaitsForBegin /\ output = engineReady
  BY Split DEF Types, Related, ReadyIsTold
<1>1. /\ UNCHANGED <<phase, refused, audioReady, pttActive, pttReleasePending, txStopPending,
                     resume, resumeCall, granted, restartPending, requestPending, retryCall,
                     txTimer, txSeconds, txTimeoutSeconds, hangTime, blocked, released,
                     recording, focusLost, orders>>
      /\ rebuild' = FALSE /\ SetupAudio
  BY DEF RebuildRuns, session, ptt, permission, transmitTimer, settings
<1>2. /\ orders' \in Seq(Orders) /\ WaitsForBegin'
      /\ \A x : Ordered(x) => x = "none" \/ Ordered(x)'
  BY <1>0, <1>1 DEF QueuesOK, WaitsForBegin, Ordered
<1>3. PICK t \in Seq(Signals) : signals' = signals \o t
  BY <1>0, <1>1, SetupTells
<1>4. output' = engineReady' /\ output' \in BOOLEAN /\ (engineReady' => WillBeReady')
  BY <1>0, <1>1, SetupTells
<1>5. recording' \in BOOLEAN /\ focusLost' \in BOOLEAN
  BY <1>0, <1>1 DEF EngineOK, OthersOK
<1>6. rebuild' \in BOOLEAN /\ (recording' => recording)
  BY <1>1
<1>7. ASSUME NEW o, o = "none" PROVE IInv'
  <2>1. /\ \A x : Ordered(x) => x = o \/ Ordered(x)'
        /\ recording' => recording /\ o # "stop"
        /\ o = "stop" => Has(t, "drain")
        /\ engineReady' => WillBeReady' \/ (engineReady /\ ~ Has(t, "notReady") /\ o # "setup")
    BY <1>2, <1>4, <1>6, <1>7
  <2> QED BY <1>1, <1>2, <1>3, <1>4, <1>5, <1>6, <2>1, EngineKeeps
<1> QED BY <1>7

\* The engine carries out a start: the transmission begins timed, or not at all.
LEMMA BeginKeepsIInv ==
  ASSUME IInv, EngineStep, Head(orders) = "begin"
  PROVE  IInv'
<1>0. Flat /\ Related /\ QueuesOK
  BY JoinFlat, Split DEF Types
<1>1. /\ UNCHANGED <<phase, refused, audioReady, pttReleasePending, txStopPending,
                     resume, resumeCall, granted, restartPending, requestPending, retryCall,
                     txTimeoutSeconds, hangTime, released, output, engineReady, focusLost,
                     rebuild, signals>>
      /\ orders # <<>> /\ orders' = Tail(orders)
      /\ BeginTransmission /\ blocked' = FALSE
  BY DEF EngineStep, session, permission, settings
<1>2. orders' = <<>> /\ blocked /\ ~pttActive /\ ~txStopPending /\ phase = "Up"
  BY <1>0, <1>1, BeginIsLast DEF Related
<1>3. PICK started \in BOOLEAN :
        /\ recording' = started /\ pttActive' = started
        /\ txTimer' = (txTimer \/ started)
        /\ txSeconds' = (IF started THEN 0 ELSE txSeconds)
  BY <1>1 DEF BeginTransmission
<1>4. \A x : Ordered(x) <=> x = "begin" \/ Ordered(x)'
  BY <1>0, <1>1, OrderTaken
<1>5. \A x : Signalled(x)' <=> Signalled(x)
  BY <1>1 DEF Signalled
<1>6. ~ txStopPending' /\ ~ pttReleasePending'
  BY <1>0, <1>1, <1>2 DEF Related, HangsInTransmission
<1>7. Related'
  <2>1. HangsInTransmission' /\ StopIsOrdered' /\ DrainIsComing'
    BY <1>3, <1>6 DEF HangsInTransmission, StopIsOrdered, DrainIsComing
  <2>2. WaitsForBegin'
    <3>1. Len(orders') = 0 /\ blocked' = FALSE
      BY <1>1, <1>2
    <3> QED BY <3>1 DEF WaitsForBegin
  <2>3. ReadyIsTold'
    <3>1. WillBeReady' <=> WillBeReady
      BY <1>1, WillBeReadyStays
    <3>2. Ordered("setup") => Ordered("setup")'
      BY <1>4
    <3> QED BY <1>0, <1>1, <3>1, <3>2 DEF Related, ReadyIsTold
  <2> QED BY <2>1, <2>2, <2>3 DEF Related
<1>8. Timed' /\ TimerOK'
  <2>1. txTimer' \in BOOLEAN
    BY <1>0, <1>3 DEF Flat, TimerOK
  <2>2. txSeconds' \in Nat /\ txSeconds' <= LongestLimit
    BY <1>0, <1>3, LongestIsLimit DEF Flat, TimerOK
  <2>3. pttActive' => txTimer' /\ txSeconds' = 0
    BY <1>3
  <2>4. txTimeoutSeconds' \in Limits /\ txTimeoutSeconds' > 0
    BY <1>0, <1>1, LongestIsLimit DEF Flat, TimerOK
  <2>5. Timed'
    <3>1. pttActive' => txSeconds' < txTimeoutSeconds'
      BY <2>3, <2>4, LongestIsLimit
    <3> QED BY <2>3, <3>1 DEF Timed
  <2> QED BY <2>1, <2>2, <2>4, <2>5 DEF TimerOK
<1>9. QueuesOK'
  BY <1>0, <1>1, <1>2 DEF QueuesOK
<1>10. PttOK' /\ EngineOK'
  BY <1>0, <1>1, <1>3 DEF Flat, PttOK, EngineOK
<1>11. SessionOK' /\ OthersOK'
  BY <1>0, <1>1 DEF Flat, SessionOK, OthersOK
<1> QED BY <1>7, <1>8, <1>9, <1>10, <1>11, JoinFlat DEF Flat

\* The engine carries out any other order.
LEMMA OthersKeepIInv ==
  ASSUME IInv, EngineStep, Head(orders) # "begin"
  PROVE  IInv'
<1>0. /\ QueuesOK /\ EngineOK /\ OthersOK /\ WaitsForBegin /\ output = engineReady
  BY Split DEF Types, Related, ReadyIsTold
<1>1. /\ UNCHANGED <<phase, refused, audioReady, pttActive, pttReleasePending, txStopPending,
                     resume, resumeCall, granted, restartPending, requestPending, retryCall,
                     txTimer, txSeconds, txTimeoutSeconds, hangTime, blocked, released>>
      /\ orders # <<>> /\ orders' = Tail(orders)
  BY DEF EngineStep, session, permission, transmitTimer, settings
<1>2. /\ orders' \in Seq(Orders) /\ WaitsForBegin'
      /\ \A x : Ordered(x) => x = Head(orders) \/ Ordered(x)'
  BY <1>0, <1>1, OrderTaken, BeginStaysLast
<1>3. ASSUME NEW t \in Seq(Signals), signals' = signals \o t,
             recording' \in BOOLEAN, output' \in BOOLEAN,
             focusLost' \in BOOLEAN, rebuild' \in BOOLEAN,
             recording' => recording /\ Head(orders) # "stop",
             Head(orders) = "stop" => Has(t, "drain"),
             output' = engineReady',
             engineReady' => \/ WillBeReady'
                             \/ engineReady /\ ~ Has(t, "notReady") /\ Head(orders) # "setup"
      PROVE  IInv'
  BY <1>1, <1>2, <1>3, EngineKeeps
<1>4. <<>> \in Seq(Signals) /\ signals = signals \o <<>> /\ ~ Has(<<>>, "notReady")
  BY <1>0, Few DEF QueuesOK
<1>5. CASE Head(orders) = "setup"
  <2>1. SetupAudio /\ UNCHANGED <<recording, focusLost, rebuild>>
    BY <1>5 DEF EngineStep
  <2>2. PICK t \in Seq(Signals) : signals' = signals \o t
    BY <1>0, <2>1, SetupTells
  <2>3. output' = engineReady' /\ output' \in BOOLEAN /\ (engineReady' => WillBeReady')
    BY <1>0, <2>1, SetupTells
  <2> QED BY <1>0, <1>3, <1>5, <2>1, <2>2, <2>3 DEF EngineOK, OthersOK
<1>6. CASE Head(orders) = "stop"
  <2>1. StopRecording /\ UNCHANGED <<output, engineReady, focusLost, rebuild>>
    BY <1>6 DEF EngineStep
  <2>2. /\ recording' = FALSE /\ signals' = signals \o <<"drain">>
        /\ <<"drain">> \in Seq(Signals)
        /\ Has(<<"drain">>, "drain") /\ ~ Has(<<"drain">>, "notReady")
    BY <2>1, Few DEF StopRecording, Emit, Signals
  <2> QED BY <1>0, <1>3, <1>6, <2>1, <2>2 DEF EngineOK, OthersOK
<1>7. CASE Head(orders) = "cleanup"
  <2>1. CleanupAudio /\ UNCHANGED <<focusLost, rebuild>>
    BY <1>7 DEF EngineStep
  <2>2. /\ recording' = FALSE /\ output' = FALSE /\ engineReady' = FALSE
        /\ signals' = signals \o If(recording, "drain") /\ If(recording, "drain") \in Seq(Signals)
    BY <2>1, ShortAreSignals DEF CleanupAudio, Emit
  <2> QED BY <1>0, <1>3, <1>7, <2>1, <2>2 DEF EngineOK, OthersOK
<1>8. CASE Head(orders) = "route"
  <2>1. HandleAudioRouteChanged /\ UNCHANGED <<focusLost, rebuild>>
    BY <1>8 DEF EngineStep
  <2>2. PICK t \in Seq(Signals) :
           /\ signals' = signals \o t
           /\ engineReady' => WillBeReady' \/ (engineReady /\ ~ Has(t, "notReady"))
    BY <1>0, <2>1, RouteTells
  <2>3. /\ output' = engineReady' /\ output' \in BOOLEAN
        /\ recording' \in BOOLEAN /\ (recording' => recording)
    BY <1>0, <2>1, RouteTells
  <2> QED BY <1>0, <1>3, <1>8, <2>1, <2>2, <2>3 DEF OthersOK
<1>9. CASE Head(orders) = "focusLost"
  <2>1. OnAudioFocusLost /\ UNCHANGED <<recording, rebuild>>
    BY <1>9 DEF EngineStep
  <2>2. /\ focusLost' = TRUE /\ output' = FALSE /\ engineReady' = FALSE
        /\ signals' = signals \o If(engineReady, "notReady")
        /\ If(engineReady, "notReady") \in Seq(Signals)
    BY <2>1, ShortAreSignals DEF OnAudioFocusLost, Emit
  <2> QED BY <1>0, <1>3, <1>9, <2>1, <2>2 DEF EngineOK, OthersOK
<1>10. CASE Head(orders) = "resumed"
  <2>1. OnActivityResumed /\ UNCHANGED <<recording, output, engineReady, signals>>
    BY <1>10 DEF EngineStep
  <2>2. focusLost' \in BOOLEAN /\ rebuild' \in BOOLEAN
    BY <1>0, <2>1 DEF OnActivityResumed, OthersOK
  <2> QED BY <1>0, <1>3, <1>4, <1>10, <2>1, <2>2 DEF EngineOK
<1>11. Head(orders) \in {"setup", "cleanup", "stop", "route", "focusLost", "resumed"}
  BY <1>0, <1>1, OrderTaken DEF Orders
<1> QED BY <1>5, <1>6, <1>7, <1>8, <1>9, <1>10, <1>11

-----------------------------------------------------------------------------
(* The invariant, and what it says. *)

LEMMA InitHolds == Init => IInv
<1> SUFFICES ASSUME Init PROVE IInv
  OBVIOUS
<1>1. orders = <<>> /\ signals = <<>> /\ Len(orders) = 0
  BY DEF Init
<1>2. SessionOK /\ PttOK /\ EngineOK
  BY DEF Init, SessionOK, PttOK, EngineOK
<1>3. OthersOK
  BY GrantsAssumption DEF Init, OthersOK
<1>4. QueuesOK
  <2>1. <<>> \in Seq(Orders) /\ <<>> \in Seq(Signals)
    OBVIOUS
  <2> QED BY <1>1, <2>1 DEF QueuesOK
<1>5. TimerOK
  <2>1. LongestLimit \in Limits
    BY LimitsAssumption DEF LongestLimit
  <2>2. txSeconds \in Nat /\ txSeconds <= LongestLimit
    BY LongestIsLimit DEF Init
  <2> QED BY <2>1, <2>2 DEF Init, TimerOK
<1>6. HangsInTransmission /\ StopIsOrdered /\ DrainIsComing /\ Timed
  BY DEF Init, HangsInTransmission, StopIsOrdered, DrainIsComing, Timed
<1>7. WaitsForBegin
  BY <1>1 DEF Init, WaitsForBegin
<1>8. ReadyIsTold
  BY DEF Init, ReadyIsTold
<1> QED BY <1>2, <1>3, <1>4, <1>5, <1>6, <1>7, <1>8 DEF IInv, Types

LEMMA StepKeepsIInv == IInv /\ [Next]_vars => IInv'
<1> SUFFICES ASSUME IInv, [Next]_vars PROVE IInv'
  OBVIOUS
<1>1. CASE Session
  BY <1>1, QuietKeepsIInv, EndsKeepIInv DEF Session
<1>2. CASE User
  BY <1>2, PressesKeepIInv, ReleasesKeepIInv, ToggleKeepsIInv, QuietKeepsIInv DEF User
<1>3. CASE Timers
  BY <1>3, PressesKeepIInv, ReleasesKeepIInv DEF Timers
<1>4. CASE DeliverSignal
  BY <1>4, SignalsKeepIInv
<1>5. CASE EngineStep
  BY <1>5, BeginKeepsIInv, OthersKeepIInv
<1>6. CASE RebuildRuns
  BY <1>6, RebuildKeepsIInv
<1>7. CASE AudioEvent
  BY <1>7, QuietKeepsIInv
<1>8. CASE UNCHANGED vars
  <2>1. UNCHANGED <<phase, refused, audioReady, pttActive, pttReleasePending, txStopPending,
                    resume, resumeCall, granted, restartPending, requestPending, retryCall,
                    txTimer, txSeconds, txTimeoutSeconds, hangTime, blocked, orders, signals,
                    recording, output, engineReady, focusLost, rebuild, released>>
    BY <1>8 DEF vars, session, ptt, permission, transmitTimer, settings, engine
  <2>2. Flat' /\ QueuesOK'
    BY <2>1, JoinFlat, Split
    DEF Types, Flat, SessionOK, PttOK, TimerOK, EngineOK, OthersOK, QueuesOK
  <2>3. Timed'
    BY <2>1, Split, TimedStays
  <2>4. ReadyIsTold'
    BY <2>1, Split, WillBeReadyStays DEF Related, ReadyIsTold, Ordered
  <2>5. HangsInTransmission' /\ WaitsForBegin' /\ StopIsOrdered' /\ DrainIsComing'
    BY <2>1, Split
    DEF Related, HangsInTransmission, WaitsForBegin, StopIsOrdered, DrainIsComing,
        Ordered, Signalled
  <2> QED BY <2>2, <2>3, <2>4, <2>5, JoinFlat DEF Related
<1> QED BY <1>1, <1>2, <1>3, <1>4, <1>5, <1>6, <1>7, <1>8 DEF Next

\* In every behaviour, whatever the order of the calls and signals between the Qt
\* thread and the engine, the parts of the inductive invariant hold together.
THEOREM Invariance == Spec => []IInv
<1>1. Init => IInv
  BY InitHolds
<1>2. IInv /\ [Next]_vars => IInv'
  BY StepKeepsIInv
<1> QED BY <1>1, <1>2, PTL DEF Spec

\* The microphone is open only for a transmission the client shows, or with the
\* order to close it on its way.
THEOREM MicrophoneHeld == Spec => []MicrophoneIsHeld
<1>1. IInv => MicrophoneIsHeld
  BY DEF IInv, StopIsOrdered, MicrophoneIsHeld
<1> QED BY <1>1, Invariance, PTL

\* A client that refuses presses until the engine has drained has the answer on
\* its way: in the engine's order to stop, or in the signal of the drain.
THEOREM DrainComes == Spec => []DrainIsComing
<1>1. IInv => DrainIsComing
  BY DEF IInv
<1> QED BY <1>1, Invariance, PTL

\* A transmission that is not being stopped is timed and below the limit in
\* force, for any limits and any change of them.
THEOREM LimitHolds == Spec => []TimeLimitHolds
<1>1. IInv => TimeLimitHolds
  BY TypesAreTypeOK DEF IInv, Timed, TimeLimitHolds
<1> QED BY <1>1, Invariance, PTL

\* Once both threads have caught up, a connected client knows that the engine is
\* ready, for queues of any length.
THEOREM ReadinessKnown == Spec => []ReadinessArrives
<1>1. ASSUME IInv PROVE ReadinessArrives
  <2> SUFFICES ASSUME phase = "Up", engineReady, orders = <<>>, signals = <<>>
               PROVE  audioReady
    BY DEF ReadinessArrives
  <2>1. Len(orders) = 0 /\ Len(signals) = 0
    OBVIOUS
  <2>2. ~ Ordered("setup")
    BY <2>1 DEF Ordered
  <2>3. WillBeReady
    BY <1>1, <2>2 DEF IInv, ReadyIsTold
  <2> QED BY <2>1, <2>3 DEF WillBeReady
<1> QED BY <1>1, Invariance, PTL

\* A transmission starts from rest and in a session, whoever asked for it.
THEOREM FromRest == Spec => []StartsFromRest
<1>1. ASSUME IInv, Ordered("begin")
      PROVE  ~ TransmitWasActive /\ phase = "Up"
  <2>1. blocked
    BY <1>1 DEF IInv, WaitsForBegin, Ordered
  <2>2. ~pttActive /\ ~txStopPending /\ phase = "Up"
    BY <1>1, <2>1 DEF IInv, WaitsForBegin
  <2>3. ~pttReleasePending
    BY <1>1, <2>2 DEF IInv, HangsInTransmission
  <2> QED BY <2>2, <2>3 DEF TransmitWasActive
<1>2. IInv => StartsFromRest
  BY <1>1 DEF StartsFromRest
<1> QED BY <1>2, Invariance, PTL

=============================================================================
