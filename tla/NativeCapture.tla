---------------------------- MODULE NativeCapture ----------------------------
(* The microphone's path on Android: the engine thread that starts, restarts  *)
(* and drains a recording, the native thread that reads the AudioRecord and   *)
(* posts what it read to the engine, the AudioRecord with its Bluetooth route *)
(* and the device's audio mode, and the framing of the samples for the codec. *)
(* A sample is the number it was captured under; a frame has FrameSize of     *)
(* them and 0 stands for padding; the silence sent before the lead-in is left *)
(* out.  One step of the engine is one call it makes, so that the capture     *)
(* thread runs between the calls; the client is reduced to the orders it      *)
(* gives.                                                                     *)
EXTENDS Integers, Sequences

CONSTANTS
  FrameSize,     \* FRAME_SIZE_SAMPLES
  LeadInFrames,  \* kTxStartupLeadInFrames
  MaxBlock,      \* the most samples one read returns
  MaxSamples,    \* bound: samples captured
  MaxTakes,      \* bound: orders the client begins
  MaxRoutes,     \* bound: changes of the route
  MaxFaults      \* bound: allocations, reads and encodings that fail

ASSUME CaptureAssumption ==
  /\ FrameSize \in Nat \ {0} /\ LeadInFrames \in Nat \ {0} /\ MaxBlock \in Nat \ {0}
  /\ {MaxSamples, MaxTakes, MaxRoutes, MaxFaults} \subseteq Nat

VARIABLES
  client,      \* what the client is at
  queue,       \* the engine thread's events
  todo,        \* the calls left of the event it handles
  recording,   \* m_recording
  priming,     \* m_txStartupPrimingActive
  startup,     \* m_txStartupBuffer
  pending,     \* m_pendingInputSamples
  wire,        \* the samples of all frames sent
  capturing,   \* m_capturing
  stopAsked,   \* m_stopRequested
  thread,      \* where the capture thread is
  stopAfter,   \* its stopAfterRead
  got,         \* samplesRead
  captured,    \* the last sample captured
  record,      \* the AudioRecord: "none", "ready", "recording"
  recordRoute, \* currentRouteId
  held,        \* the Bluetooth communication route is held
  mode,        \* the device's audio mode
  saved,       \* savedAudioMode, of a device that captures in MODE_NORMAL
  mediaTek,    \* it is such a device
  route,       \* the route manager's current route
  first,       \* the first sample of the transmission, of which only properties speak
  unattached,  \* history: a capture thread could not attach to the JVM
  takes, routes, faults

clientVars == <<client, takes>>
codec == <<recording, priming, startup, pending, wire>>
native == <<capturing, stopAsked, thread, stopAfter, got, captured, unattached>>
device == <<record, recordRoute, held, mode, saved, mediaTek>>
vars == <<clientVars, queue, todo, codec, native, device, route, first, routes, faults>>

Bluetooth == "bluetooth"
Event(kind) == [kind |-> kind]

Init ==
  /\ client = "down" /\ queue = <<>> /\ todo = <<>>
  /\ recording = FALSE /\ priming = FALSE /\ startup = <<>> /\ pending = <<>> /\ wire = <<>>
  /\ capturing = FALSE /\ stopAsked = FALSE /\ thread = "none" /\ stopAfter = FALSE
  /\ got = 0 /\ captured = 0 /\ unattached = FALSE
  /\ record = "none" /\ recordRoute = "speaker" /\ held = FALSE
  /\ mode = "normal" /\ saved = "none" /\ mediaTek \in BOOLEAN
  /\ route \in {"speaker", Bluetooth}
  /\ first = 1 /\ takes = 0 /\ routes = 0 /\ faults = 0

Fails == faults < MaxFaults /\ faults' = faults + 1

-----------------------------------------------------------------------------
(* The client's orders; it starts again only once the engine was ready and the *)
(* drain of its last transmission complete.                                    *)

OrderAtOnce(kinds) == queue' = [i \in DOMAIN kinds |-> Event(kinds[i])] \o queue  \* mutant

Order(kinds) == queue' = queue \o [i \in DOMAIN kinds |-> Event(kinds[i])]

Connects ==
  /\ client = "down" /\ takes < MaxTakes /\ takes' = takes + 1
  /\ client' = "setup" /\ Order(<<"setup">>)
  /\ UNCHANGED <<todo, codec, native, device, route, first, routes, faults>>

\* startTransmission waits for the engine's answers.
StartTransmission ==
  /\ client = "ready" /\ takes < MaxTakes /\ takes' = takes + 1
  /\ client' = "pressing" /\ Order(<<"warm">>)
  /\ UNCHANGED <<todo, codec, native, device, route, first, routes, faults>>

BeginImmediatePttRelease ==
  /\ client = "talking" /\ client' = "draining" /\ Order(<<"stop">>)
  /\ UNCHANGED <<takes, todo, codec, native, device, route, first, routes, faults>>

\* A lost session only stops the recording, the user's disconnect cleans up first.
Disconnected ==
  /\ client \in {"setup", "ready", "talking", "draining"} /\ client' = "down"
  /\ \E stop \in IF client \in {"talking", "draining"} THEN {<<"stop">>} ELSE {<<>>} :
       Order(stop) \/ Order(<<"cleanup">> \o stop)
  /\ UNCHANGED <<takes, todo, codec, native, device, route, first, routes, faults>>

\* handleAudioRouteChanged is posted for every change of the current route.
RouteChanges ==
  /\ routes < MaxRoutes /\ routes' = routes + 1
  /\ route' = IF route = Bluetooth THEN "speaker" ELSE Bluetooth
  /\ Order(<<"route">>)
  /\ UNCHANGED <<clientVars, todo, codec, native, device, first, faults>>

-----------------------------------------------------------------------------
(* Framing. *)

EncodeReadyKeeping(samples) ==  \* mutant
  /\ wire' = wire \o SubSeq(samples, 1, (Len(samples) \div FrameSize) * FrameSize)
  /\ pending' = samples /\ UNCHANGED faults

\* encodeReadyTxFrames: whole frames, until one does not encode.
EncodeReady(samples) ==
  \E frames \in 0..(Len(samples) \div FrameSize) :
    /\ IF frames = Len(samples) \div FrameSize THEN UNCHANGED faults ELSE Fails
    /\ wire' = wire \o SubSeq(samples, 1, frames * FrameSize)
    /\ pending' = SubSeq(samples, frames * FrameSize + 1, Len(samples))

\* processCapturedFloatSamples: the first samples are held back for the lead-in.
ProcessCaptured(block) ==
  IF ~recording THEN UNCHANGED <<codec, faults>>
  ELSE /\ UNCHANGED recording
       /\ IF priming /\ Len(startup) + Len(block) < LeadInFrames * FrameSize
          THEN startup' = startup \o block /\ UNCHANGED <<priming, pending, wire, faults>>
          ELSE /\ priming' = FALSE /\ startup' = <<>>
               /\ EncodeReady(pending \o startup \o block)

\* flushPendingTxSamples pads what is less than one frame, and clears the rest.
FlushPending ==
  LET left == pending \o startup
      short == FrameSize - Len(left)
      frames == IF left # <<>> /\ short > 0 THEN left \o [i \in 1..short |-> 0] ELSE left
  IN \E sent \in 0..(Len(frames) \div FrameSize) :
       /\ IF sent = Len(frames) \div FrameSize THEN UNCHANGED faults ELSE Fails
       /\ wire' = wire \o SubSeq(frames, 1, sent * FrameSize)
       /\ pending' = <<>> /\ startup' = <<>> /\ priming' = FALSE

-----------------------------------------------------------------------------
(* The AudioRecord, under its lock. *)

StopCaptureForgetful ==  \* mutant
  /\ record' = IF record = "recording" THEN "ready" ELSE record
  /\ mode' = IF saved # "none" THEN saved ELSE mode
  /\ held' = (held /\ route # Bluetooth)
  /\ saved' = "none"
  /\ UNCHANGED <<recordRoute, mediaTek>>

\* stopCapture restores a mode it saved and lets go of a Bluetooth route.
StopCapture ==
  /\ record' = IF record = "recording" THEN "ready" ELSE record
  /\ mode' = IF recordRoute = Bluetooth THEN "normal"
             ELSE IF saved # "none" THEN saved ELSE mode
  /\ held' = (held /\ recordRoute # Bluetooth)
  /\ saved' = "none"
  /\ UNCHANGED <<recordRoute, mediaTek>>

\* prepareCapture makes a record, or keeps the one there is; it may be refused.
PrepareCapture ==
  /\ recordRoute' = route
  /\ record' \in IF record = "none" THEN {"none", "ready"} ELSE {record}

\* startCapture takes the Bluetooth route and the mode a device wants.
StartCapture ==
  /\ record' = "recording" /\ recordRoute' = route
  /\ held' = (held \/ route = Bluetooth)
  /\ LET current == IF route = Bluetooth THEN "communication" ELSE mode IN
     IF mediaTek THEN saved' = current /\ mode' = "normal"
     ELSE mode' = current /\ UNCHANGED saved
  /\ UNCHANGED mediaTek

\* On its way out a start that fails lets the route go and releases a record it made.
StartCaptureFails ==
  /\ record' \in {"none", record} /\ recordRoute' = route
  /\ held' = (held /\ route # Bluetooth)
  /\ mode' = "normal" /\ saved' = "none" /\ UNCHANGED mediaTek

-----------------------------------------------------------------------------
(* The engine. *)

Call(name) == todo # <<>> /\ Head(todo) = name
Done == todo' = Tail(todo)
Then(calls) == todo' = calls \o Tail(todo)

\* The calls each event stands for.
Calls(kind) ==
  CASE kind = "setup" -> {<<"warm", "ready">>, <<"ready">>}   \* the output may be there
    [] kind = "warm" -> {<<"warm", "warmed">>}
    [] kind = "start" -> {<<"start", "answer">>}
    [] kind = "stop" -> {<<"stop">>}
    [] kind = "cleanup" ->
         {<<"quiet">> \o (IF recording THEN <<"stop">> ELSE <<>>) \o <<"halt", "join", "free">>}
    [] kind = "route" -> {IF recording THEN <<"stop", "start">> ELSE <<>>}

TakeEvent ==
  /\ todo = <<>> /\ queue # <<>> /\ queue' = Tail(queue)
  /\ IF Head(queue).kind = "block"
     THEN ProcessCaptured(Head(queue).samples) /\ UNCHANGED <<todo, first>>
     ELSE /\ todo' \in Calls(Head(queue).kind)
          /\ first' = IF Head(queue).kind = "start" THEN captured + 1 ELSE first
          /\ UNCHANGED <<codec, faults>>
  /\ UNCHANGED <<clientVars, native, device, route, routes>>

SetupAudioInput ==
  /\ Call("warm") /\ Done
  /\ PrepareCapture
  /\ UNCHANGED <<clientVars, queue, codec, native, held, mode, saved, mediaTek, route, first,
                 routes, faults>>

\* The input is prepared: startTransmission goes on with the recording.
AskForRecording ==
  /\ Call("warmed") /\ Done /\ Order(<<"start">>)
  /\ UNCHANGED <<clientVars, codec, native, device, route, first, routes, faults>>

AudioReady ==
  /\ Call("ready") /\ Done
  /\ client' = IF client = "setup" THEN "ready" ELSE client
  /\ UNCHANGED <<takes, queue, codec, native, device, route, first, routes, faults>>

\* startRecording, up to the native input's start.
StartRecording ==
  /\ Call("start")
  /\ IF recording THEN Done /\ UNCHANGED <<codec, mode>>
     ELSE /\ Then(<<"halt", "join", "open">>)
          /\ mode' = "communication"
          /\ recording' = TRUE /\ priming' = TRUE /\ startup' = <<>> /\ pending' = <<>>
          /\ UNCHANGED wire
  /\ UNCHANGED <<clientVars, queue, native, record, recordRoute, held, saved, mediaTek, route,
                 first, routes, faults>>

\* The native input's stop, up to the join.
Halt ==
  /\ Call("halt") /\ Done
  /\ stopAsked' = TRUE
  /\ StopCapture
  /\ UNCHANGED <<clientVars, queue, codec, capturing, thread, stopAfter, got, captured,
                 unattached, route, first, routes, faults>>

Join ==
  /\ Call("join") /\ Done
  /\ thread \in {"none", "ended"} /\ thread' = "none"
  /\ capturing' = FALSE /\ stopAsked' = FALSE
  /\ UNCHANGED <<clientVars, queue, codec, stopAfter, got, captured, unattached, device, route,
                 first, routes, faults>>

StartAndroidCaptureInput ==
  /\ StartCapture
  /\ capturing' = TRUE /\ thread' = "attaching"
  /\ UNCHANGED <<stopAsked, unattached>>

\* The native input's start after its stop, with startRecording's answer to a failure.
Open ==
  /\ Call("open") /\ Done
  /\ \/ StartAndroidCaptureInput /\ UNCHANGED codec
     \/ /\ StartCaptureFails
        /\ recording' = FALSE /\ priming' = FALSE /\ startup' = <<>> /\ pending' = <<>>
        /\ UNCHANGED <<wire, capturing, stopAsked, thread, unattached>>
  /\ UNCHANGED <<clientVars, queue, stopAfter, got, captured, route, first, routes, faults>>

Answer ==
  /\ Call("answer") /\ Done
  /\ client' = IF recording THEN "talking" ELSE "ready"
  /\ UNCHANGED <<takes, queue, codec, native, device, route, first, routes, faults>>

TxDrainComplete == client' = IF client = "draining" THEN "ready" ELSE client

UsesAndroidNativeInput == capturing

\* stopRecording: without a recording, with a native input that captures, and with
\* none that does, where it takes the path of an input of Qt.
StopRecording ==
  /\ Call("stop")
  /\ \/ /\ ~recording /\ Done /\ TxDrainComplete
        /\ priming' = FALSE /\ startup' = <<>>
        /\ UNCHANGED <<recording, pending, wire, faults>>
     \/ /\ recording /\ UsesAndroidNativeInput /\ Then(<<"halt", "join", "drain">>)
        /\ UNCHANGED <<client, codec, faults>>
     \/ /\ recording /\ ~UsesAndroidNativeInput /\ Done /\ TxDrainComplete
        /\ recording' = FALSE /\ FlushPending
  /\ UNCHANGED <<takes, queue, native, device, route, first, routes>>

Drain ==
  /\ Call("drain") /\ Done /\ TxDrainComplete
  /\ recording' = FALSE /\ FlushPending
  /\ mode' = "normal"
  /\ UNCHANGED <<takes, queue, native, record, recordRoute, held, saved, mediaTek, route,
                 first, routes>>

\* cleanupAudio's first call, and the release of the record at its end.
ResetAudioMode ==
  /\ Call("quiet") /\ Done /\ mode' = "normal"
  /\ UNCHANGED <<clientVars, queue, codec, native, record, recordRoute, held, saved, mediaTek,
                 route, first, routes, faults>>

ReleaseCapture ==
  /\ Call("free") /\ Done
  /\ record' = "none" /\ pending' = <<>> /\ priming' = FALSE /\ startup' = <<>>
  /\ UNCHANGED <<clientVars, queue, recording, wire, native, recordRoute, held, mode, saved,
                 mediaTek, route, first, routes, faults>>

-----------------------------------------------------------------------------
(* The capture thread. *)

elsewhere == <<clientVars, todo, codec, device, route, first, routes>>

Attach ==
  /\ thread = "attaching"
  /\ \/ thread' = "top" /\ UNCHANGED <<capturing, unattached>>
     \/ thread' = "ended" /\ capturing' = FALSE /\ unattached' = TRUE
  /\ UNCHANGED <<elsewhere, queue, stopAsked, stopAfter, got, captured, faults>>

\* An array that cannot be had is tried for again.
LoopTop ==
  /\ thread = "top"
  /\ stopAfter' = stopAsked
  /\ \/ thread' = "reading" /\ UNCHANGED faults
     \/ Fails /\ UNCHANGED thread
  /\ UNCHANGED <<elsewhere, queue, capturing, stopAsked, got, captured, unattached>>

Read ==
  /\ thread = "reading"
  /\ \/ /\ thread' = "read" /\ UNCHANGED faults
        /\ got' \in 0..(IF captured + MaxBlock <= MaxSamples THEN MaxBlock ELSE 0)
     \/ Fails /\ thread' = "top" /\ UNCHANGED got
  /\ captured' = captured + got'
  /\ UNCHANGED <<elsewhere, queue, capturing, stopAsked, stopAfter, unattached>>

Leaves == IF stopAfter \/ stopAsked THEN "ended" ELSE "top"

\* What was read is posted; the loop ends once it knew before or after the read
\* that it should, unless the samples cannot be fetched.
Deliver ==
  /\ thread = "read"
  /\ \/ /\ got > 0
        /\ queue' = Append(queue, [kind |-> "block",
                                   samples |-> [i \in 1..got |-> captured - got + i]])
        /\ thread' = Leaves /\ UNCHANGED faults
     \/ /\ got > 0 /\ Fails /\ thread' = "top" /\ UNCHANGED queue
     \/ /\ got = 0 /\ thread' = Leaves /\ UNCHANGED <<queue, faults>>
  /\ got' = 0
  /\ UNCHANGED <<elsewhere, capturing, stopAsked, stopAfter, captured, unattached>>

-----------------------------------------------------------------------------
Client == Connects \/ StartTransmission \/ BeginImmediatePttRelease \/ Disconnected
Engine == TakeEvent \/ SetupAudioInput \/ AskForRecording \/ AudioReady \/ StartRecording \/ Halt
            \/ Join \/ Open \/ Answer \/ StopRecording \/ Drain \/ ResetAudioMode \/ ReleaseCapture
CaptureLoop == Attach \/ LoopTop \/ Read \/ Deliver

Next == Client \/ RouteChanges \/ Engine \/ CaptureLoop

Spec == Init /\ [][Next]_vars

-----------------------------------------------------------------------------
(* Properties. *)

Threads == {"none", "attaching", "top", "reading", "read", "ended"}
Samples == Seq(0..MaxSamples)

TypeOK ==
  /\ client \in {"down", "setup", "ready", "pressing", "talking", "draining"}
  /\ \A i \in DOMAIN queue :
       queue[i].kind \in {"setup", "warm", "start", "stop", "cleanup", "route", "block"}
  /\ {recording, priming, capturing, stopAsked, stopAfter, unattached} \subseteq BOOLEAN
  /\ {held, mediaTek} \subseteq BOOLEAN
  /\ startup \in Samples /\ pending \in Samples /\ wire \in Samples
  /\ Len(startup) < LeadInFrames * FrameSize
  /\ thread \in Threads /\ got \in 0..MaxBlock /\ captured \in 0..MaxSamples
  /\ record \in {"none", "ready", "recording"}
  /\ {route, recordRoute} \subseteq {"speaker", Bluetooth}
  /\ mode \in {"normal", "communication"} /\ saved \in {"none", "normal", "communication"}

\* Speech leaves in the order it was captured, no sample twice, in whole frames:
\* through the lead-in, restarts for a route, failed encodings and the padding; and
\* the variables keep their types.
InOrder ==
  /\ TypeOK
  /\ Len(wire) % FrameSize = 0
  /\ \A i, j \in DOMAIN wire : i < j /\ wire[i] # 0 /\ wire[j] # 0 => wire[i] < wire[j]

\* A transmission sends nothing captured before it began: what the capture thread
\* of an earlier one still posted while it was joined is not spoken later, not even
\* when the drain of a restart for the route answers a release early.
NothingFromBefore ==
  [][\A i \in DOMAIN wire' \ DOMAIN wire : wire'[i] # 0 => wire'[i] >= first]_vars

\* When the engine is at rest and not recording, nothing of a recording is left: the
\* microphone, its thread, the Bluetooth route and the audio mode are given back,
\* through failed starts, lost sessions, clean-ups and changes of the route.  A thread
\* that could not attach to the JVM is the exception: stopRecording then takes the path
\* of an input of Qt and leaves all this behind, the Bluetooth route for good if the
\* route changes before the next recording.
MicrophoneIsGivenBack ==
  todo = <<>> /\ ~recording /\ ~unattached =>
    record # "recording" /\ thread = "none" /\ ~held /\ mode = "normal"
=============================================================================
