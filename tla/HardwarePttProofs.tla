-------------------------- MODULE HardwarePttProofs --------------------------
(* Theorems about HardwarePtt, for any keys, device and number of learning    *)
(* modes and events.                                                          *)
EXTENDS HardwarePtt, TLAPS

Notes == [what : {"detected", "captured", "timeout", "cancelled"},
          key : Keys \union {NoKey}, hops : {1, 2}]

KeyTypes ==
  /\ learning \in BOOLEAN /\ cancelling \in BOOLEAN /\ active \in BOOLEAN
  /\ passed \in [what : {"nothing", "captured", "timeout"}, key : Keys \union {NoKey}]
  /\ events \in Seq(Notes)

SppTypes ==
  /\ bridgeLearning \in BOOLEAN /\ granted \in BOOLEAN
  /\ retries \in Nat /\ asked \in Nat

HasResult == \E i \in DOMAIN events : events[i].what \in Results

\* Java's mode is ended by something, ...
ModeEnds == learning => posted # {} \/ passed # Nothing \/ cancelling

\* ... and so is the client's.
DialogCloses == active => learning \/ passed # Nothing \/ cancelling \/ HasResult

\* While both are in the mode, the bridge learns, or has learned and is ending the
\* mode, or knows no press.
BridgeLearns == active /\ learning => bridgeLearning \/ cancelling \/ bridge.press = <<>>

\* The client learns only after its startup.
StartedUp == passes \in 0 .. 2 /\ (active => passes = 2)

IInv ==
  /\ KeyTypes /\ SppTypes
  /\ ModeEnds /\ DialogCloses /\ LinkIsComing /\ BridgeLearns /\ StartedUp

-----------------------------------------------------------------------------
(* The client's queue. *)

LEMMA NoteAdded ==
  ASSUME events \in Seq(Notes), NEW e \in Notes, events' = Append(events, e)
  PROVE  /\ events' \in Seq(Notes)
         /\ HasResult => HasResult'
         /\ e.what \in Results => HasResult'
<1>1. /\ Len(events) \in Nat /\ Len(events') = Len(events) + 1
      /\ DOMAIN events = 1 .. Len(events) /\ DOMAIN events' = 1 .. Len(events')
      /\ \A i \in 1 .. Len(events) : events'[i] = events[i]
      /\ events'[Len(events) + 1] = e
      /\ events' \in Seq(Notes)
  OBVIOUS
<1>2. Len(events) + 1 \in DOMAIN events'
  BY <1>1
<1>3. ASSUME HasResult PROVE HasResult'
  <2>1. PICK i \in DOMAIN events : events[i].what \in Results
    BY <1>3 DEF HasResult
  <2>2. i \in DOMAIN events' /\ events'[i] = events[i]
    BY <1>1
  <2> QED BY <2>1, <2>2 DEF HasResult
<1>4. ASSUME e.what \in Results PROVE HasResult'
  BY <1>1, <1>2, <1>4 DEF HasResult
<1> QED BY <1>1, <1>3, <1>4

\* A note that was taken is either the result or leaves it.
LEMMA NoteTaken ==
  ASSUME events \in Seq(Notes), events # <<>>, events' = Tail(events)
  PROVE  /\ events' \in Seq(Notes) /\ Head(events) \in Notes
         /\ HasResult => HasResult' \/ Head(events).what \in Results
<1>1. /\ Len(events) \in Nat \ {0} /\ Len(events') = Len(events) - 1
      /\ DOMAIN events = 1 .. Len(events) /\ DOMAIN events' = 1 .. Len(events')
      /\ \A i \in 1 .. Len(events') : events'[i] = events[i + 1]
      /\ Head(events) = events[1]
      /\ events' \in Seq(Notes) /\ Head(events) \in Notes
  OBVIOUS
<1>2. ASSUME HasResult, Head(events).what \notin Results PROVE HasResult'
  <2>1. PICK i \in DOMAIN events : events[i].what \in Results
    BY <1>2 DEF HasResult
  <2>2. i # 1
    BY <1>1, <1>2, <2>1
  <2>3. i - 1 \in DOMAIN events' /\ events'[i - 1] = events[i]
    BY <1>1, <2>1, <2>2
  <2> QED BY <2>1, <2>3 DEF HasResult
<1> QED BY <1>1, <1>2

\* A note from the main thread goes to the end of the queue once.
LEMMA NoteMoved ==
  ASSUME events \in Seq(Notes), events # <<>>, NEW e \in Notes, e.what = Head(events).what,
         events' = Append(Tail(events), e)
  PROVE  events' \in Seq(Notes) /\ (HasResult => HasResult')
<1>1. /\ Len(events) \in Nat \ {0} /\ Len(events') = Len(events)
      /\ DOMAIN events = 1 .. Len(events) /\ DOMAIN events' = 1 .. Len(events)
      /\ \A i \in 1 .. Len(events) - 1 : events'[i] = events[i + 1]
      /\ events'[Len(events)] = e /\ Head(events) = events[1]
      /\ events' \in Seq(Notes)
  OBVIOUS
<1>2. ASSUME HasResult PROVE HasResult'
  <2>1. PICK i \in DOMAIN events : events[i].what \in Results
    BY <1>2 DEF HasResult
  <2>2. CASE i = 1
    <3>1. Len(events) \in DOMAIN events' /\ events'[Len(events)].what \in Results
      BY <1>1, <2>1, <2>2
    <3> QED BY <3>1 DEF HasResult
  <2>3. CASE i # 1
    <3>1. i - 1 \in DOMAIN events' /\ events'[i - 1] = events[i]
      BY <1>1, <2>1, <2>3
    <3> QED BY <2>1, <3>1 DEF HasResult
  <2> QED BY <2>2, <2>3
<1> QED BY <1>1, <1>2

\* The three ways the queue changes keep a result that is in it.
Extends ==
  /\ events' \in Seq(Notes)
  /\ HasResult => HasResult'

LEMMA QueueStays ==
  ASSUME events \in Seq(Notes), UNCHANGED events
  PROVE  Extends
  BY DEF Extends, HasResult

-----------------------------------------------------------------------------
(* The steps of the learning mode. *)

KeyInv == KeyTypes /\ ModeEnds /\ DialogCloses

\* A note with the result ends the mode for both sides.
LEMMA ResultKeepsKeyInv ==
  ASSUME KeyInv, NEW e \in Notes, e.what \in Results, events' = Append(events, e),
         passed' = Nothing, ~learning', learning' \in BOOLEAN,
         UNCHANGED <<active, cancelling>>
  PROVE  KeyInv'
<1>1. events' \in Seq(Notes) /\ HasResult'
  BY NoteAdded DEF KeyInv, KeyTypes
<1>2. passed' \in [what : {"nothing", "captured", "timeout"}, key : Keys \union {NoKey}]
  BY DEF Nothing
<1>3. active' \in BOOLEAN /\ cancelling' \in BOOLEAN
  BY DEF KeyInv, KeyTypes
<1> QED BY <1>1, <1>2, <1>3 DEF KeyInv, KeyTypes, ModeEnds, DialogCloses

LEMMA MainThreadKeepsKeyInv ==
  ASSUME KeyInv, MainThread
  PROVE  KeyInv' /\ (learning' => learning) /\ UNCHANGED <<active, cancelling, sppVars, passes>>
<1>0. UNCHANGED <<sppVars, passes>>
  BY DEF MainThread, OnlyKey
<1>1. ASSUME NEW k \in Keys, NEW down2 \in BOOLEAN, NEW viaActivity \in BOOLEAN,
             Dispatch(k, down2, viaActivity)
      PROVE  Extends
  <2>1. Note("detected", k, 2) \in Notes
    BY DEF Note, Notes
  <2> QED BY <1>1, <2>1, NoteAdded, QueueStays DEF Dispatch, Extends, KeyInv, KeyTypes
<1>2. ASSUME NEW k \in Keys, NEW viaActivity \in BOOLEAN, KeyDown(k, viaActivity)
      PROVE  KeyInv' /\ UNCHANGED <<learning, active, cancelling>>
  <2>1. /\ UNCHANGED <<learning, posted, active, cancelling>> /\ passed = Nothing
    BY <1>2 DEF KeyDown, mode
  <2>2. CASE learning
    <3>1. passed' = [what |-> "captured", key |-> k] /\ UNCHANGED events
      BY <1>2, <2>2 DEF KeyDown
    <3>2. passed' # Nothing /\ KeyTypes'
      BY <2>1, <3>1 DEF Nothing, KeyInv, KeyTypes
    <3> QED BY <2>1, <2>2, <3>2 DEF KeyInv, ModeEnds, DialogCloses
  <2>3. CASE ~learning
    <3>1. Extends /\ passed' = passed
      BY <1>1, <1>2, <2>3 DEF KeyDown
    <3> QED BY <2>1, <3>1 DEF KeyInv, KeyTypes, ModeEnds, DialogCloses, Extends
  <2> QED BY <2>1, <2>2, <2>3
<1>3. ASSUME NEW k \in Keys, NEW viaActivity \in BOOLEAN, KeyUp(k, viaActivity)
      PROVE  KeyInv' /\ UNCHANGED <<learning, active, cancelling>>
  <2>1. UNCHANGED <<learning, posted, active, cancelling, passed>>
    BY <1>3 DEF KeyUp, mode
  <2>2. Extends
    BY <1>1, <1>3, QueueStays DEF KeyUp, KeyInv, KeyTypes
  <2> QED BY <2>1, <2>2 DEF KeyInv, KeyTypes, ModeEnds, DialogCloses, Extends
<1>5. CASE Capture
  <2> DEFINE e == Note("captured", passed.key, 2)
  <2>1. passed.key \in Keys \union {NoKey}
    BY DEF KeyInv, KeyTypes
  <2>2. e \in Notes /\ e.what \in Results
    BY <2>1 DEF Note, Notes, Results
  <2>3. /\ events' = Append(events, e) /\ passed' = Nothing
        /\ learning' = FALSE /\ active' = active /\ cancelling' = cancelling
    BY <1>5 DEF Capture
  <2> HIDE DEF e
  <2>4. KeyInv'
    BY <2>2, <2>3, ResultKeepsKeyInv
  <2> QED BY <1>0, <2>3, <2>4
<1>6. CASE Timeout
  <2> DEFINE e == Note("timeout", NoKey, 2)
  <2>1. e \in Notes /\ e.what \in Results
    BY DEF Note, Notes, Results
  <2>2. /\ events' = Append(events, e) /\ passed' = Nothing
        /\ learning' = FALSE /\ active' = active /\ cancelling' = cancelling
    BY <1>6 DEF Timeout
  <2> HIDE DEF e
  <2>3. KeyInv'
    BY <2>1, <2>2, ResultKeepsKeyInv
  <2> QED BY <1>0, <2>2, <2>3
<1>7. ASSUME NEW s, TimeoutFires(s)
      PROVE  KeyInv' /\ UNCHANGED <<learning, active, cancelling>>
  <2>1. UNCHANGED <<learning, active, cancelling, events>> /\ passed = Nothing
    BY <1>7 DEF TimeoutFires, client
  <2>2. CASE learning
    <3>1. passed' = [what |-> "timeout", key |-> NoKey]
      BY <1>7, <2>2 DEF TimeoutFires
    <3>2. passed' # Nothing /\ KeyTypes'
      BY <2>1, <3>1 DEF Nothing, KeyInv, KeyTypes
    <3> QED BY <2>1, <2>2, <3>2 DEF KeyInv, ModeEnds, DialogCloses
  <2>3. CASE ~learning
    <3>1. passed' = passed
      BY <1>7, <2>1, <2>3 DEF TimeoutFires
    <3> QED BY <2>1, <2>3, <3>1 DEF KeyInv, KeyTypes, ModeEnds, DialogCloses, HasResult
  <2> QED BY <2>1, <2>2, <2>3
<1>8. CASE Capture \/ Timeout
  BY <1>0, <1>5, <1>6, <1>8 DEF Capture, Timeout, client
<1> QED BY <1>0, <1>2, <1>3, <1>7, <1>8 DEF MainThread

LEMMA StartKeepsKeyInv ==
  ASSUME KeyInv, StartHardwarePttLearning
  PROVE  KeyInv'
  BY QueueStays
  DEF KeyInv, KeyTypes, ModeEnds, DialogCloses, StartHardwarePttLearning, Extends

LEMMA CancelBeginsKeepsKeyInv ==
  ASSUME KeyInv, CancelHardwarePttLearning
  PROVE  KeyInv' /\ cancelling' = TRUE
  BY QueueStays
  DEF KeyInv, KeyTypes, ModeEnds, DialogCloses, CancelHardwarePttLearning, Extends, client, mode

LEMMA CancelKeepsKeyInv ==
  ASSUME KeyInv, Cancel
  PROVE  KeyInv' /\ learning' = FALSE /\ active' = active
<1>1. Note("cancelled", NoKey, 1) \in Notes /\ Note("cancelled", NoKey, 1).what \in Results
  BY DEF Note, Notes, Results
<1>2. events' \in Seq(Notes) /\ HasResult'
  BY <1>1, NoteAdded DEF Cancel, KeyInv, KeyTypes
<1>3. learning' = FALSE /\ cancelling' = FALSE /\ UNCHANGED <<active, passed>>
  BY DEF Cancel
<1> QED BY <1>2, <1>3 DEF KeyInv, KeyTypes, ModeEnds, DialogCloses

\* The client's mode ends with a result, and with nothing else.
LEMMA EventKeepsKeyInv ==
  ASSUME KeyInv, HandleEvent
  PROVE  /\ KeyInv' /\ (active' => active)
         /\ UNCHANGED <<learning, cancelling>> /\ Head(events) \in Notes
<1>0. /\ events \in Seq(Notes) /\ events # <<>>
      /\ UNCHANGED <<learning, posted, passed, cancelling>>
  BY DEF KeyInv, KeyTypes, HandleEvent, mode
<1>1. Head(events) \in Notes
  BY <1>0
<1>2. CASE Head(events).hops = 2
  <2>1. /\ events' = Append(Tail(events), Note(Head(events).what, Head(events).key, 1))
        /\ UNCHANGED active
    BY <1>2 DEF HandleEvent
  <2>2. /\ Note(Head(events).what, Head(events).key, 1) \in Notes
        /\ Note(Head(events).what, Head(events).key, 1).what = Head(events).what
    BY <1>1 DEF Notes, Note
  <2>3. Extends
    BY <1>0, <2>1, <2>2, NoteMoved DEF Extends
  <2> QED BY <1>0, <1>1, <2>1, <2>3 DEF KeyInv, KeyTypes, ModeEnds, DialogCloses, Extends
<1>3. CASE Head(events).hops # 2
  <2>1. events' = Tail(events) /\ active' = (active /\ Head(events).what \notin Results)
    BY <1>3 DEF HandleEvent
  <2>2. /\ events' \in Seq(Notes)
        /\ HasResult => HasResult' \/ Head(events).what \in Results
    BY <1>0, <2>1, NoteTaken
  <2> QED BY <1>0, <1>1, <2>1, <2>2 DEF KeyInv, KeyTypes, ModeEnds, DialogCloses
<1> QED BY <1>2, <1>3

LEMMA IdleKeepsKeyInv ==
  ASSUME KeyInv, UNCHANGED <<learning, posted, passed, cancelling, active, events>>
  PROVE  KeyInv'
  BY QueueStays DEF KeyInv, KeyTypes, ModeEnds, DialogCloses, Extends

-----------------------------------------------------------------------------
(* The steps of the serial button. *)

SppInv == SppTypes /\ LinkIsComing

LEMMA AddressesDiffer == Dev # NoDev /\ Dev # NoBridge.address
  BY SppAssumption DEF NoBridge, Device

LEMMA IdleKeepsSppInv ==
  ASSUME SppInv, UNCHANGED <<bridge, bridgeLearning, granted, socket, retries, asked, denied>>
  PROVE  SppInv'
  BY DEF SppInv, SppTypes, LinkIsComing

LEMMA ConnectingKeepsSppInv ==
  ASSUME SppInv, DoConnectSocket, bridgeLearning' \in BOOLEAN, granted' \in BOOLEAN,
         asked' \in Nat
  PROVE  SppInv'
<1>1. retries' \in Nat /\ socket' = "connecting"
  BY DEF DoConnectSocket, SppInv, SppTypes
<1> QED BY <1>1 DEF SppInv, SppTypes, LinkIsComing

LEMMA StopKeepsSppInv ==
  ASSUME SppInv, StopBridge, UNCHANGED granted
  PROVE  SppInv'
<1>1. bridge'.address # Dev
  BY AddressesDiffer DEF StopBridge
<1> QED BY <1>1 DEF StopBridge, SppInv, SppTypes, LinkIsComing

\* Starting the bridge for a device, as often as it is signalled.
LEMMA StartBridgeKeepsSppInv ==
  ASSUME SppInv, NEW dev, NEW learn \in BOOLEAN, NEW n \in Nat \ {0}, StartBridge(dev, learn, n),
         UNCHANGED granted
  PROVE  SppInv'
<1>1. CASE dev.address = NoDev
  BY <1>1, IdleKeepsSppInv DEF StartBridge, bond, conn
<1>2. CASE dev.address # NoDev
  <2>1. bridgeLearning' \in BOOLEAN /\ ConnectTo(dev, n)
    BY <1>2 DEF StartBridge, SppInv, SppTypes
  <2>2. CASE granted
    BY <1>2, <2>1, <2>2, ConnectingKeepsSppInv DEF ConnectTo, SppInv, SppTypes
  <2>3. CASE ~granted
    <3>1. asked' = asked + n /\ denied' = FALSE /\ UNCHANGED retries
      BY <1>2, <2>1, <2>3 DEF ConnectTo
    <3>2. asked' \in Nat \ {0} /\ retries' \in Nat
      BY <3>1 DEF SppInv, SppTypes
    <3> QED BY <2>1, <2>3, <3>2 DEF SppInv, SppTypes, LinkIsComing
  <2> QED BY <2>2, <2>3
<1> QED BY <1>1, <1>2

LEMMA SocketKeepsSppInv ==
  ASSUME SppInv, OnSocketConnected \/ OnSocketError \/ OnSocketDisconnected
  PROVE  SppInv' /\ UNCHANGED <<bridge, bridgeLearning, sppPtt>>
<1>1. UNCHANGED <<bridge, bridgeLearning, granted, asked, sppPtt>>
  BY DEF OnSocketConnected, OnSocketError, OnSocketDisconnected, bond
<1>2. CASE OnSocketConnected
  BY <1>1, <1>2 DEF OnSocketConnected, SppInv, SppTypes, LinkIsComing
<1>3. CASE OnSocketError \/ OnSocketDisconnected
  <2>1. retries' = retries + 1 /\ denied' = FALSE
    BY <1>3 DEF OnSocketError, OnSocketDisconnected
  <2>2. retries' \in Nat /\ retries' > 0
    BY <2>1 DEF SppInv, SppTypes
  <2> QED BY <1>1, <2>2 DEF SppInv, SppTypes, LinkIsComing
<1> QED BY <1>1, <1>2, <1>3

LEMMA RetryKeepsSppInv ==
  ASSUME SppInv, RetryFires
  PROVE  SppInv' /\ UNCHANGED <<bridge, bridgeLearning, sppPtt>>
<1>1. /\ UNCHANGED <<bridge, bridgeLearning, granted, sppPtt>>
      /\ retries > 0 /\ retries' = retries - 1
  BY DEF RetryFires, bond
<1>2. retries' \in Nat
  BY <1>1 DEF SppInv, SppTypes
<1>3. CASE socket' = "connecting" /\ denied' = FALSE /\ UNCHANGED asked
  BY <1>1, <1>2, <1>3 DEF SppInv, SppTypes, LinkIsComing
<1>4. CASE asked' = asked + 1 /\ denied' = FALSE
  <2>1. asked' \in Nat \ {0}
    BY <1>4 DEF SppInv, SppTypes
  <2> QED BY <1>1, <1>2, <1>4, <2>1 DEF SppInv, SppTypes, LinkIsComing
<1>5. CASE (socket = "up" \/ bridge.address = NoDev) /\ UNCHANGED <<socket, asked, denied>>
  BY <1>1, <1>2, <1>5, AddressesDiffer DEF SppInv, SppTypes, LinkIsComing
<1> QED BY <1>1, <1>3, <1>4, <1>5 DEF RetryFires

LEMMA AnswerKeepsSppInv ==
  ASSUME SppInv, NEW yes \in BOOLEAN, BluetoothAnswered(yes)
  PROVE  SppInv' /\ UNCHANGED <<bridge, bridgeLearning, sppPtt>>
<1>1. UNCHANGED <<bridge, bridgeLearning, sppPtt>> /\ asked > 0 /\ asked' = asked - 1
  BY DEF BluetoothAnswered, bond
<1>2. asked' \in Nat /\ bridgeLearning' \in BOOLEAN
  BY <1>1 DEF SppInv, SppTypes
<1>3. CASE yes
  BY <1>1, <1>2, <1>3, ConnectingKeepsSppInv DEF BluetoothAnswered
<1>4. CASE ~yes
  <2>1. UNCHANGED <<granted, retries>> /\ denied' = TRUE
    BY <1>4 DEF BluetoothAnswered
  <2> QED BY <1>1, <1>2, <2>1 DEF SppInv, SppTypes, LinkIsComing
<1> QED BY <1>3, <1>4

LEMMA LearnedKeepsSppInv ==
  ASSUME SppInv, OnLearningComplete
  PROVE  SppInv' /\ sppPtt' = sppPtt
<1> DEFINE dev == Device(ctl.address, first, rx \o line)
<1>1. /\ bridgeLearning' = FALSE /\ UNCHANGED <<granted, sppPtt>> /\ bridge' = dev
      /\ IF dev.address # NoDev /\ granted THEN DoConnectSocket /\ UNCHANGED asked
         ELSE /\ UNCHANGED <<socket, retries>>
              /\ IF dev.address # NoDev THEN asked' = asked + 1 /\ denied' = FALSE
                 ELSE UNCHANGED <<asked, denied>>
  BY DEF OnLearningComplete
<1> HIDE DEF dev
<1>2. CASE dev.address # NoDev /\ granted
  BY <1>1, <1>2, ConnectingKeepsSppInv DEF SppInv, SppTypes
<1>3. CASE dev.address # NoDev /\ ~granted
  <2>1. asked' = asked + 1 /\ denied' = FALSE /\ UNCHANGED retries
    BY <1>1, <1>3
  <2>2. asked' \in Nat \ {0}
    BY <2>1 DEF SppInv, SppTypes
  <2>3. SppTypes'
    BY <1>1, <2>1, <2>2 DEF SppInv, SppTypes
  <2>4. LinkIsComing'
    BY <2>2 DEF LinkIsComing
  <2> QED BY <1>1, <2>3, <2>4 DEF SppInv
<1>4. CASE dev.address = NoDev
  <2>1. bridge'.address # Dev
    BY <1>1, <1>4, AddressesDiffer
  <2> QED BY <1>1, <1>4, <2>1 DEF SppInv, SppTypes, LinkIsComing
<1> QED BY <1>2, <1>3, <1>4

LEMMA LearningKeepsSppInv ==
  ASSUME SppInv, StartLearning
  PROVE  SppInv' /\ sppPtt' = sppPtt /\ (bridgeLearning' \/ bridge' = NoBridge)
<1>1. UNCHANGED <<granted, sppPtt>>
  BY DEF StartLearning
<1>2. CASE /\ UNCHANGED <<bridge, conn>> /\ bridgeLearning' = (bridge # NoBridge)
  BY <1>1, <1>2 DEF conn, SppInv, SppTypes, LinkIsComing
<1>3. CASE /\ bridgeLearning' = TRUE /\ socket' = "connecting" /\ retries' = 0 /\ asked' = 0
           /\ denied' = FALSE
  BY <1>1, <1>3 DEF SppInv, SppTypes, LinkIsComing
<1>4. CASE StopBridge
  BY <1>1, <1>4, StopKeepsSppInv DEF StopBridge
<1> QED BY <1>1, <1>2, <1>3, <1>4 DEF StartLearning

-----------------------------------------------------------------------------
(* The steps of both. *)

LEMMA Split == IInv <=> KeyInv /\ SppInv /\ BridgeLearns /\ StartedUp
  BY DEF IInv, KeyInv, SppInv
LEMMA Join == IInv' <=> KeyInv' /\ SppInv' /\ BridgeLearns' /\ StartedUp'
  BY DEF IInv, KeyInv, SppInv

\* A step that leaves the learning of the bridge alone and starts no mode.
LEMMA BridgeStays ==
  ASSUME IInv, UNCHANGED <<bridge, bridgeLearning, passes>>,
         active' => active, learning' => learning, cancelling => cancelling' \/ ~learning'
  PROVE  BridgeLearns' /\ StartedUp'
  BY DEF IInv, BridgeLearns, StartedUp

\* A press is heard only by a bridge that does not learn.
LEMMA ReadIsNoLearning ==
  ASSUME IInv, SocketRead, ~sppPtt, sppPtt'
  PROVE  ~(active /\ learning)
<1>1. ~cancelling /\ ~bridgeLearning
  BY DEF SocketRead, QtFree, OnSocketReadyRead
<1>2. bridge.press # <<>>
  <2>1. PICK buf : ReadPattern(buf)
    BY DEF SocketRead, OnSocketReadyRead
  <2>2. EndOf(bridge.press, buf) > 0
    BY <2>1 DEF ReadPattern
  <2>3. ASSUME bridge.press = <<>> PROVE FALSE
    <3>1. EndOf(bridge.press, buf) = 0
      BY <2>3 DEF EndOf
    <3> QED BY <2>2, <3>1
  <2> QED BY <2>3
<1> QED BY <1>1, <1>2 DEF IInv, BridgeLearns

\* A step reloads the device in a mode of the client only with the bridge set to
\* learn.
LEMMA ReloadStep ==
  ASSUME IInv, KeyInv', NEW n \in Nat \ {0}, Reload(active', n), active' \in BOOLEAN,
         UNCHANGED <<learning, cancelling, passes>>, active' => active
  PROVE  IInv' /\ sppPtt' = sppPtt
<1>1. StartBridge(store, active', n) /\ UNCHANGED <<granted, sppPtt>>
  BY DEF Reload
<1>2. SppInv'
  BY <1>1, Split, StartBridgeKeepsSppInv
<1>3. BridgeLearns'
  <2>1. CASE store.address = NoDev
    BY <1>1, <2>1 DEF StartBridge, bond, IInv, BridgeLearns
  <2>2. CASE store.address # NoDev
    BY <1>1, <2>2 DEF StartBridge, BridgeLearns
  <2> QED BY <2>1, <2>2
<1>4. StartedUp'
  BY DEF IInv, StartedUp
<1> QED BY <1>1, <1>2, <1>3, <1>4, Join

\* What every step does: the invariant stays, and no press is heard in a mode.
Holds == IInv' /\ (~sppPtt /\ sppPtt' => ~(active /\ learning))

LEMMA KeyStepsHold ==
  ASSUME IInv, MainThread \/ UserCancels \/ CancelGoesOn
  PROVE  Holds
<1>1. CASE MainThread
  <2>1. /\ KeyInv' /\ (learning' => learning)
        /\ UNCHANGED <<active, cancelling, sppVars, passes>>
    BY <1>1, Split, MainThreadKeepsKeyInv
  <2>2. UNCHANGED <<bridge, bridgeLearning, granted, socket, retries, asked, denied, sppPtt>>
    BY <2>1 DEF sppVars, bond, conn
  <2>3. SppInv'
    BY <2>2, Split, IdleKeepsSppInv
  <2> QED BY <2>1, <2>2, <2>3, BridgeStays, Join DEF Holds
<1>2. CASE UserCancels
  <2>1. KeyInv' /\ cancelling' = TRUE /\ UNCHANGED <<learning, active>>
    BY <1>2, Split, CancelBeginsKeepsKeyInv
    DEF UserCancels, CancelHardwarePttLearning, mode, client
  <2>2. UNCHANGED <<bridge, bridgeLearning, granted, socket, retries, asked, denied, sppPtt,
                    passes>>
    BY <1>2 DEF UserCancels, OnlyKey, sppVars, bond, conn
  <2>3. SppInv'
    BY <2>2, Split, IdleKeepsSppInv
  <2> QED BY <2>1, <2>2, <2>3, BridgeStays, Join DEF Holds
<1>3. CASE CancelGoesOn
  <2>1. KeyInv' /\ learning' = FALSE /\ active' = active
    BY <1>3, Split, CancelKeepsKeyInv DEF CancelGoesOn
  <2>2. UNCHANGED <<bridge, bridgeLearning, granted, socket, retries, asked, denied, sppPtt,
                    passes>>
    BY <1>3 DEF CancelGoesOn, OnlyKey, sppVars, bond, conn
  <2>3. SppInv'
    BY <2>2, Split, IdleKeepsSppInv
  <2> QED BY <2>1, <2>2, <2>3, BridgeStays, Join DEF Holds
<1> QED BY <1>1, <1>2, <1>3

LEMMA SppStepsHold ==
  ASSUME IInv,
         ButtonOrRadio \/ SocketChanges \/ SocketRead \/ SocketRetry \/ PermissionAnswered
           \/ PermissionGranted
  PROVE  Holds
<1>1. /\ UNCHANGED <<learning, posted, passed, cancelling, active, events, passes>>
      /\ UNCHANGED <<bridge, bridgeLearning>>
  BY DEF ButtonOrRadio, SocketChanges, SocketRead, SocketRetry, PermissionAnswered,
         PermissionGranted, GrantedElsewhere, OnlySpp, keyVars, keyExceptSpent, mode, client, Press, Release, RangeChanges, bond,
         OnSocketConnected, OnSocketError, OnSocketDisconnected, OnSocketReadyRead, RetryFires,
         BluetoothAnswered
<1>2. KeyInv' /\ BridgeLearns' /\ StartedUp'
  BY <1>1, Split, IdleKeepsKeyInv, BridgeStays
<1>3. CASE ButtonOrRadio
  <2>1. UNCHANGED <<granted, socket, retries, asked, denied, sppPtt>>
    BY <1>3 DEF ButtonOrRadio, Press, Release, RangeChanges, conn
  <2> QED BY <1>1, <1>2, <2>1, Split, IdleKeepsSppInv, Join DEF Holds
<1>4. CASE SocketChanges
  BY <1>2, <1>4, Split, SocketKeepsSppInv, Join DEF Holds, SocketChanges
<1>5. CASE SocketRead
  <2>1. UNCHANGED <<granted, socket, retries, asked, denied>>
    BY <1>5 DEF SocketRead, OnSocketReadyRead
  <2>2. SppInv'
    BY <1>1, <2>1, Split, IdleKeepsSppInv
  <2> QED BY <1>2, <1>5, <2>2, ReadIsNoLearning, Join DEF Holds
<1>6. CASE SocketRetry
  BY <1>2, <1>6, Split, RetryKeepsSppInv, Join DEF Holds, SocketRetry
<1>7. CASE PermissionAnswered
  BY <1>2, <1>7, Split, AnswerKeepsSppInv, Join DEF Holds, PermissionAnswered
<1>8. CASE PermissionGranted
  <2>1. /\ granted' \in BOOLEAN
        /\ UNCHANGED <<bridge, bridgeLearning, socket, retries, asked, denied, sppPtt>>
    BY <1>8 DEF PermissionGranted, GrantedElsewhere, bond, conn
  <2>2. SppInv'
    BY <2>1, Split DEF SppInv, SppTypes, LinkIsComing
  <2> QED BY <1>2, <2>1, <2>2, Join DEF Holds
<1> QED BY <1>3, <1>4, <1>5, <1>6, <1>7, <1>8

LEMMA JointStepsHold ==
  ASSUME IInv,
         StartUp \/ UserStarts \/ LearningComplete \/ ClientHandles \/ EditSettings
           \/ ClearSppDevice
  PROVE  Holds
<1>0. active \in BOOLEAN /\ KeyInv /\ SppInv
  BY Split DEF KeyInv, KeyTypes
<1>1. CASE StartUp
  <2>1. /\ UNCHANGED <<learning, posted, passed, cancelling, active, events>>
        /\ passes < 2 /\ passes' = passes + 1 /\ Reload(FALSE, passes')
    BY <1>1 DEF StartUp, keyVars, mode, client
  <2>2. passes' \in 0 .. 2 /\ passes' \in Nat \ {0} /\ ~active /\ ~active'
    BY <2>1 DEF IInv, StartedUp
  <2>3. StartBridge(store, FALSE, passes') /\ UNCHANGED <<granted, sppPtt>>
    BY <2>1 DEF Reload
  <2>4. KeyInv' /\ SppInv'
    BY <1>0, <2>1, <2>2, <2>3, IdleKeepsKeyInv, StartBridgeKeepsSppInv
  <2>5. BridgeLearns' /\ StartedUp'
    BY <2>2 DEF BridgeLearns, StartedUp
  <2> QED BY <2>3, <2>4, <2>5, Join DEF Holds
<1>2. CASE UserStarts
  <2>1. KeyInv' /\ passes' = 2
    BY <1>0, <1>2, StartKeepsKeyInv DEF UserStarts
  <2>2. SppInv' /\ sppPtt' = sppPtt /\ (bridgeLearning' \/ bridge' = NoBridge)
    BY <1>0, <1>2, LearningKeepsSppInv DEF UserStarts
  <2>3. BridgeLearns' /\ StartedUp'
    BY <2>1, <2>2 DEF BridgeLearns, StartedUp, NoBridge, Device
  <2> QED BY <2>1, <2>2, <2>3, Join DEF Holds
<1>3. CASE LearningComplete
  <2>1. SppInv' /\ sppPtt' = sppPtt /\ passes' = passes
    BY <1>0, <1>3, LearnedKeepsSppInv DEF LearningComplete
  <2>2. CASE CancelHardwarePttLearning
    <3>1. KeyInv' /\ cancelling' = TRUE /\ active' = active
      BY <1>0, <2>2, CancelBeginsKeepsKeyInv DEF CancelHardwarePttLearning, client
    <3>2. BridgeLearns' /\ StartedUp'
      BY <2>1, <3>1 DEF IInv, BridgeLearns, StartedUp
    <3> QED BY <2>1, <3>1, <3>2, Join DEF Holds
  <2>3. CASE ~(active /\ learning) /\ UNCHANGED keyVars
    <3>1. UNCHANGED <<learning, posted, passed, cancelling, active, events>>
      BY <2>3 DEF keyVars, mode, client
    <3>2. KeyInv'
      BY <1>0, <3>1, IdleKeepsKeyInv
    <3>3. BridgeLearns' /\ StartedUp'
      BY <2>1, <2>3, <3>1 DEF IInv, BridgeLearns, StartedUp
    <3> QED BY <2>1, <3>2, <3>3, Join DEF Holds
  <2> QED BY <1>3, <2>2, <2>3 DEF LearningComplete
<1>4. CASE ClientHandles
  <2>1. /\ KeyInv' /\ (active' => active) /\ UNCHANGED <<learning, cancelling, passes>>
        /\ Head(events) \in Notes
    BY <1>0, <1>4, EventKeepsKeyInv DEF ClientHandles
  <2>2. Signals(Head(events)) \in Nat
    BY DEF Signals
  <2>3. CASE UNCHANGED sppVars
    <3>1. UNCHANGED <<bridge, bridgeLearning, granted, socket, retries, asked, denied, sppPtt>>
      BY <2>3 DEF sppVars, bond, conn
    <3>2. SppInv'
      BY <1>0, <3>1, IdleKeepsSppInv
    <3> QED BY <2>1, <3>1, <3>2, BridgeStays, Join DEF Holds
  <2>4. CASE Signals(Head(events)) # 0 /\ Reload(active', Signals(Head(events)))
    <3>1. active' \in BOOLEAN
      BY <2>1 DEF KeyInv, KeyTypes
    <3> QED BY <2>1, <2>2, <2>4, <3>1, ReloadStep DEF Holds
  <2> QED BY <1>4, <2>3, <2>4 DEF ClientHandles
<1>5. CASE EditSettings
  <2>1. UNCHANGED <<learning, posted, passed, cancelling, active, events, passes>>
    BY <1>5
    DEF EditSettings, SetHardwarePttEnabled, SetLearnedHardwarePttKeyCode, mode, client
  <2>2. KeyInv' /\ Reload(active', 1)
    BY <1>0, <1>5, <2>1, IdleKeepsKeyInv DEF EditSettings
  <2> QED BY <1>0, <2>1, <2>2, ReloadStep DEF Holds
<1>6. CASE ClearSppDevice
  <2>1. /\ UNCHANGED <<learning, posted, passed, cancelling, active, events, passes>>
        /\ ~active /\ StopBridge /\ UNCHANGED <<granted, sppPtt>>
    BY <1>6 DEF ClearSppDevice, keyExceptSpent, mode, client, ClearLearnedSppDevice
  <2>2. KeyInv' /\ SppInv'
    BY <1>0, <2>1, IdleKeepsKeyInv, StopKeepsSppInv
  <2>3. BridgeLearns' /\ StartedUp'
    BY <2>1 DEF IInv, BridgeLearns, StartedUp
  <2> QED BY <2>1, <2>2, <2>3, Join DEF Holds
<1> QED BY <1>1, <1>2, <1>3, <1>4, <1>5, <1>6

LEMMA StepHolds ==
  ASSUME IInv, [Next]_vars
  PROVE  Holds
<1>1. CASE UNCHANGED vars
  <2>1. UNCHANGED <<learning, posted, passed, cancelling, active, events, passes, bridge,
                    bridgeLearning, granted, socket, retries, asked, denied, sppPtt>>
    BY <1>1 DEF vars, sppVars, keyVars, mode, client, bond, conn
  <2>2. KeyInv' /\ SppInv'
    BY <2>1, Split, IdleKeepsKeyInv, IdleKeepsSppInv
  <2> QED BY <2>1, <2>2, BridgeStays, Join DEF Holds
<1> QED BY <1>1, KeyStepsHold, SppStepsHold, JointStepsHold DEF Next

LEMMA InitHolds == Init => IInv
<1> SUFFICES ASSUME Init PROVE IInv
  OBVIOUS
<1>1. KeyTypes
  <2>1. /\ learning = FALSE /\ cancelling = FALSE /\ active = FALSE
        /\ passed = Nothing /\ events = <<>>
    BY DEF Init, KeyInit
  <2>2. passed \in [what : {"nothing", "captured", "timeout"}, key : Keys \union {NoKey}]
    BY <2>1 DEF Nothing
  <2>3. events \in Seq(Notes)
    BY <2>1
  <2> QED BY <2>1, <2>2, <2>3 DEF KeyTypes
<1>2. SppTypes
  BY DEF Init, SppInit, SppTypes
<1>3. ModeEnds /\ DialogCloses /\ BridgeLearns /\ StartedUp
  BY DEF Init, KeyInit, ModeEnds, DialogCloses, BridgeLearns, StartedUp
<1>4. LinkIsComing
  <2>1. bridge.address # Dev
    BY AddressesDiffer DEF Init, SppInit
  <2> QED BY <2>1 DEF LinkIsComing
<1> QED BY <1>1, <1>2, <1>3, <1>4 DEF IInv

\* In every behaviour the parts of the inductive invariant hold together.
THEOREM Invariance == Spec => []IInv
<1>1. IInv /\ [Next]_vars => IInv'
  BY StepHolds DEF Holds
<1> QED BY <1>1, InitHolds, PTL DEF Spec

\* A learning mode ends on both sides, for any keys and however the main thread and
\* the Qt thread interleave on the coordinator's fields.
THEOREM ModesEnd == Spec => []EndIsComing
<1>1. IInv => EndIsComing
  BY DEF IInv, ModeEnds, DialogCloses, HasResult, EndIsComing
<1> QED BY <1>1, Invariance, PTL

\* A bridge without a socket to its device has a retry under way or a question to be
\* answered, or was denied the permission and says so, for any number of timers and
\* questions and wherever the permission is granted.
THEOREM LinkComes == Spec => []LinkIsComing
<1>1. IInv => LinkIsComing
  BY DEF IInv
<1> QED BY <1>1, Invariance, PTL

\* A press of the button that is to be learned does not transmit.
THEOREM LearningIsSilent == Spec => LearningWithholdsPtt
<1>1. IInv /\ [Next]_vars => [~sppPtt /\ sppPtt' => ~(active /\ learning)]_vars
  BY StepHolds DEF Holds
<1> QED BY <1>1, Invariance, PTL DEF Spec, LearningWithholdsPtt
=============================================================================
