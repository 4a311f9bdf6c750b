# Latry: a verification project

Latry is a mobile client for SvxLink reflectors: it keeps a TCP session with a
server, exchanges Opus audio with it over UDP, and lets its user talk by
push-to-talk (PTT). The Android client (`src/android`, Qt/C++ with a Java service
and QML pages) is the subject here. `src/iOS` is an older port of the same client
without the recovery machinery.

This directory models the parts of the client where order matters, checks them
with TLC on small instances, and proves the most important facts for every value
of the constants with TLAPS. `PROJECT.json` lists components, runs, mutants, the
source lines behind every definition, hazards, findings and theorems.

## 1. The system

### Threads and queues

| Actor | What it runs | How it is reached |
|---|---|---|
| Qt main thread | `ReflectorClient*.cpp`, the SPP bridge, QML | Qt event loop, one handler at a time; a few calls into Java run on it, on fields the main thread uses too, and some of them block |
| engine thread | `AudioEngine*.cpp` | queued calls; `startTransmission` alone blocks on it |
| capture, playback threads | `AndroidAudioRecordInput.cpp`, `AndroidAudioTrackOutput.cpp` | atomics and locks; samples are queued to the engine thread |
| Android main thread | service, activity, media session, network monitor, recogniser (Java) | handlers and posted runnables; calls into C++ are posted to the Qt thread |
| SvxLink reflector | outside this repository | TCP frames, UDP datagrams |

A handler of the Qt thread is atomic towards other handlers, but signals of a
socket are delivered synchronously: `abort()` on a connected socket runs
`onTcpDisconnected` inside the caller. Nothing in the Java service, the network
monitor or the key learner is synchronised, so there a call of the Qt thread
interleaves with the main thread statement by statement.

### Components

| Component | State it keeps | Operations | What makes it correct | What is hard |
|---|---|---|---|---|
| Session (`ReflectorClientConnection.cpp`, `ReflectorClientProtocol.cpp`) | `m_state`, socket, two ignore flags, connect timer, key | connect, disconnect, socket signals, server frames | a flag never hides a real loss; each phase has something that ends it | late signals of an abandoned socket |
| Recovery (`ReflectorClientRecovery.cpp`) | reconnect timer, backoff index, waiting flag, watchdog, last network snapshot, saved profile | schedule, cancel, network snapshots, watchdog, keep-alive check | one pending reconnect, none beside a session; a kept session comes back | five causes act on one timer |
| PTT (`ReflectorClientPtt.cpp`) | active, release pending, stop pending, resume flag, permission flags, two timers | press, release, toggle, force, resume, drain, limits | the microphone is open only for a shown transmission; every transmission ends; none starts unasked | two threads, stale answers, posted calls |
| Engine (`AudioEngine*.cpp`) | recording, output, ready, focus flags | setup, cleanup, start, stop, route change, focus, restart | readiness reaches the client; a pause is not forgotten | order of stale and fresh signals, delayed restarts |
| Playback (`AudioEnginePlayback.cpp`, `ReflectorClientUdp.cpp`) | last sequence number, last write time, receiving timer | received audio, flush, health check | stale frames dropped, fresh ones played after a reconnect | 16-bit wrap, stale position |
| Capture (`AudioEngineRecording.cpp`, `AndroidAudioRecordInput.cpp`, `LatryAudioRecordInput.java`) | thread, record, route, mode, pending samples, lead-in | start, stop, drain, route change, read, frame | sent in order, nothing of before, device given back | a join against the thread's last posts |
| Output (`AndroidAudioTrackOutput.cpp`, `LatryAudioTrackPlayer.java`) | thread, flags, track, encoding | start, stop, pause, resume, write | quiet when paused, no lost wake-up | a lock held in a blocking write |
| Jitter buffer (`AudioJitterBuffer.cpp`) | ring, head, tail, prebuffer flag | write, read, clear, resize | order kept, nothing read twice, prebuffer honoured | full and empty look alike |
| Talkgroups (`ReflectorClient.cpp`, `ReflectorClientProtocol.cpp`) | selected group, priority mode, timer, monitored list, talker, lookup | select, talker start and stop, QSY, timer, profile change | the server serves what is shown; no move while in use | timer against PTT and receive |
| Service (`VoipBackgroundService.java`) | foreground state, locks, keep-alive, monitoring | start request, direct calls, stop, tick, kill | locks and monitoring match the session | requests queued behind direct calls |
| Network monitor (`NetworkHandoverMonitor.java`) | baseline, pending snapshot, generation | start, stop, callback, debounce | a change is reported once | debounce against restart |
| PTT learning (`HardwarePttLearningCoordinator.java`, `LatryActivity.java`) | learning flag, runnable, stored key | start, cancel, key, timeout | every mode ends, on both sides | two threads on static fields |
| SPP (`SppPttBridge.cpp`, `SppPttController.cpp`) | socket, retry timers, read buffer, learned device | connect, retry, read, learn | the link comes back, presses are paired | timers, dialogs, learning |
| Transcription (`LatryTranscriptionManager.java`, `ReflectorClient.cpp`) | session generation, pipe, download state | start, stop, results, model download | nothing of an old session is shown or fed | three threads, a blocked one among them |

Components meet in these places. The service and the network monitor queue
checks and snapshots for the session. A session that is set up orders the engine
to set up; a lost one resets every PTT flag and orders the capture stopped; a
disconnect orders a cleanup. The engine answers with readiness and drain signals.
PTT and received audio hold the talkgroup timer. Received audio starts and ends
transcriptions, which the engine feeds.

## 2. The plan

The order was: what loses the connection or the microphone first, then what is
heard and sent, then what keeps the process alive, then the rest.

1. `ReflectorSession`, with `SessionPromise` as its abstract specification; proofs
   in `ReflectorSessionProofs`. Done.
2. `PttTransmission`: PTT against the engine thread; proofs in
   `PttTransmissionProofs`. Done.
3. `JitterBuffer`, with `JitterQueue` as its abstract specification, and
   `AudioPlayback`, the path from datagram to output; proofs of both in
   `PlaybackProofs`. Done.
4. `NativeCapture` and `NativePlayback`, the native threads of microphone and
   speaker; proofs of both in `NativeAudioProofs`. Done.
5. `TalkgroupSelection`; proofs in `TalkgroupSelectionProofs`. Done.
6. `VoipService` and `HandoverMonitor`: what `ReflectorSession` takes as its
   environment, each with the client reduced to what it asks of it; proofs of both
   in `ServiceProofs`. Done.
7. `KeyLearning` and `SppLink`, composed in `HardwarePtt`, with proofs in
   `HardwarePttProofs`; `Transcription`, with proofs in `TranscriptionProofs`. Done.

Left: the choice among audio devices (`LatryAudioRoutePolicy.java`), a pure ranking;
a composition of `VoipService` and `HandoverMonitor` with `ReflectorSession` in one
state space, which is beyond TLC's reach with the bounds each needs.

## 3. The modules

### ReflectorSession

One action is one event of the Qt thread with every call the handler makes. The
socket, the server, the network and the user are the environment. The service lives
on Android's main thread: a connect asks for it with a start request, which waits in
`starts` until that thread creates the service (`created`) and handles it, while a
disconnect clears its `monitoring` directly. A request handled late therefore
monitors again for a user who has disconnected, and the saved profile reconnects
him. `notes` is the FIFO of calls the service posted to the Qt thread. A connect
finds its socket free (`OpenSocket`), or still open or closing (`SocketIsBusy`): then
`connectToHost` fails inside the call, and `onTcpError` aborts the socket and
schedules the next attempt in the same step. Timers are untimed:
an active timer may fire at any moment, which covers every timing. The backoff
schedule is kept as an index in its table (`BackoffSteps` entries, the first is
0 ms); a running delay is compared with a new one by index, and where elapsed
time and jitter decide, either outcome is allowed (`PendingComesLater`).

| In the module | In the code |
|---|---|
| `ConnectToServer`, `DisconnectFromServer` | the user's calls and the media controls |
| `OnTcpConnected`, `OnTcpDisconnected`, `ConnectionRefused`, `EstablishedSocketFails` | socket signals |
| `OnConnectTimeout`, `OnReconnectBackoffTimeout`, `OnProtocolLivenessTimeout` | timers |
| `HandleServerInfo`, `RefusalFrame`, `NoteInboundProtocolHeartbeat` | server frames |
| `HandleNote` (`CheckAndReconnect`, `NetworkLost`, `NetworkAvailable`) | calls posted by the service |
| `OnCreate`, `OnStartCommand` | the main thread handles the start requests |
| `KeepAliveTick`, `ReportLink`, `ReportHandover` | the service's thread |
| `ClosingFinished`, `ConnectionLost`, `PeerCloses`, `GoSilent`, `LinkDown`, `LinkUp` | environment |

A fresh process starts in `Init`, with or without a profile saved by an earlier
one: this is how a crash or restart enters. `calm` says that the environment
causes no further fault; `wanted` and `called` are history, read by properties
only. Once created the service stays: its end is the subject of `VoipService`.

### SessionPromise

What the rest of the client may assume: opened, greeted and used in that order,
lost in any phase, and kept by the service, which does late what it is asked: an
open session is kept or will be (`due`) until somebody abandons it (`Abandon`), and
an abandoned one may be kept again only by a request that was under way. An attempt
on a socket still in use fails at once (`OpenInVain`); `Serve` is the service's
handling of a request. `ReflectorSession` maps its state to `phase`, its service's
monitoring to `kept`, requests that wait to `asked`, and what the last of them asks
for to `due` (`Promise == INSTANCE SessionPromise WITH ...`).

### PttTransmission

The Qt thread and the engine thread, each with a FIFO: `orders` to the engine,
`signals` back. A start blocks the Qt thread (`blocked`) until the engine has
worked through the orders before it. The session is reduced to `phase`, with
`refused` for one given up while its socket is still open; every action on it is
an action of `ReflectorSession` seen from PTT. A talkgroup is taken to be
selected. The time limit is always on, as in the code (`m_txTimeoutEnabled` is
never set).

| In the module | In the code |
|---|---|
| `Press`, `Release`, `TogglePtt`, `WindowInactive`, `MediaPause` | hardware keys, SPP, the button, QML, media controls |
| `StartTransmission` with `BeginTransmission` | `startTransmission` up to and from its blocking calls |
| `AnswerPermission`, `RetryCallRuns` | the permission dialog and its 100 ms retry |
| `ResumeIfReady`, `ResumeCallRuns` | `resumeAndroidPttAfterReconnectIfReady` and its posted call |
| `OnPttHangTimerTimeout`, `OnTxTimerTimeout` | timers |
| `SessionLost`, `DisconnectFromServer`, `HandleServerInfo`, `RefusalFrame` | both ends of a session |
| `EngineStep` with one operator per order, `RebuildRuns` | the engine's slots |
| `DeliverSignal` | the client's slots for the engine's signals |

Out of it: temporary focus loss and gain, which are in `AudioPlayback`, and what
the capture produces, which is in `NativeCapture`.

### JitterBuffer

The buffer between the engine thread, which writes decoded samples, and the
playback thread. Every operation holds the buffer's mutex. A write takes one step
per sample with the mutex held (`writing`); the other operations are one step.
The playback loop asks what is ready (`Ask`), lets go of the mutex and reads
(`Read`), so the buffer may change in between. The ring is resized only by
`initializeAudioComponents`, which runs when no output exists, hence `asked = 0`
in `SetSize`. `Wrap` is `%` for sums below twice the ring's size, which are all
the code forms. The clock is reduced to the age of the last write against
`kShortGapRebufferWindow`. Left out: the pull device of the non-Android build
(`AudioStreamDevice.cpp`), and the size of one slot that `setSize(0)` gives: such
a ring holds nothing, and the program always asks for many frames.

### JitterQueue

What the two threads may assume: samples are played in the order they were
written and none twice; a full queue loses its oldest half, a flushed one
everything, and nothing else is lost. `JitterBuffer` maps the slots from tail to
head to `queue` (`Queued`) and its size to `capacity`.

### AudioPlayback

The Qt thread and the engine thread with one FIFO, `calls`, of frames and orders;
`air` is the set of datagrams under way, of which any may be delivered, delivered
and kept, or lost. A frame is its session and its number; its sequence number is
the number modulo `Modulus` (2^16 in the code). `later` holds the engine's 100 ms
calls.

| In the module | In the code |
|---|---|
| `Network` | datagrams sent, lost, doubled, delayed, reordered |
| `Client` | `onUdpReadyRead`, the flush, the receiving timer, both ends of a session |
| `Engine` | `processReceivedAudio`, `flushAudioBuffers`, the health check, focus and activity handlers, `restartAudio`, `setupAudio`, `cleanupAudio` |

The microphone side of the same engine is `PttTransmission`, the samples between
here and the output are `JitterBuffer`. The temporary loss and the gain of focus,
out of `PttTransmission`, are here.

### TalkgroupSelection

One action is one event of the Qt thread. A callsign's length matters in one
place, the old form of the talker frame, so callsigns are split into `Short`,
`Long` and the others. Lists of monitored talkgroups are parsed as the code parses
them: double entries, talkgroup 0 and too many plus signs included. `air` says who
talks where, `server` what the server was told; `chosen` is history: the talkgroup
the user chose. The client's state is reduced to three phases.

### NativeCapture and NativePlayback

The engine's methods are sequences of steps (`todo` and `stepsLeft`), one per call
that another thread may see, and the native thread (`thread` and `playback`) steps
between them. In `NativeCapture` a
sample is the number it was captured under, a frame `FrameSize` of them; `wire` is
what was encoded and sent; `record`, `route`, `mode`, `saved` are the Java side.
In `NativePlayback` samples are counted in frames; `lock` is the Java player's
monitor, which a blocking write keeps until the track has room.

| In the modules | In the code |
|---|---|
| `Client`, `RouteChanges`, `Methods` | the client's orders and Android's notices |
| `Engine`, `Steps` | `startRecording`, `stopRecording`, `processCapturedFloatSamples`, `handleAudioRouteChanged`; `start`, `stop`, `pause`, `resume` |
| `CaptureLoop`, `PlaybackLoop` | `captureLoop`, `playbackLoop` |
| `TrackPlays` | the platform plays what was written |

### VoipService

`main` and `qt` hold the steps left of what each thread runs; they interleave, as
nothing in the service is synchronised. `inbox` is the main thread's queue of
start requests and posted calls. A start request carries the monitoring it asks
for; `sticky` says that Android redelivers it after a kill. `instance` and `held`
tell the service objects apart. The client is reduced to what it asks of the
service.

### HandoverMonitor

Android's callbacks are counted (`news`); each is answered by looking at the
network of that moment. `draft` is a snapshot between being taken and being made
`pending`, `last` the baseline, `told` the Qt thread's queue. The Qt thread's stop
may come between any two steps of the main thread. The client is reduced to
whether it is off, waiting, due or up, and on which route.

### KeyLearning, SppLink and HardwarePtt

`KeyLearning` has the coordinator's static fields as the two threads read and write
them: a learning mode is its number, `current`, and `posted` the runnables that
wait. `passed` and `cancelling` stand for a thread that has read the fields and not
yet written them. `events` is the Qt thread's queue, in which what comes from the
main thread is posted twice (`hops`).

`SppLink` has the serial button's controller and bridge, which live on the Qt
thread. `line` is what the button has sent, `rx` what was read and not understood
yet; `retries` counts the single-shot retry timers, `asked` the bridge's questions for
the permission, and `denied` says that its status shows a denial. The permission is
also granted where the bridge is not told: in the activity's own dialog, which keeps
the answer from Qt, and in the system settings.
`store` is what Java keeps, `ctl` the controller's copy, `bridge` the device the
bridge was made for.

`HardwarePtt` joins the two, since they share the client's learning mode: the
signal that a mode has begun sets the bridge learning in the same step, every change
of a setting and every result reloads the device and the bridge as often as the
handler signals it (`Signals`), and the button's learned patterns cancel the mode.

| In the modules | In the code |
|---|---|
| `MainThread` | key events, the timeout, each between its test and its writes |
| `UserStarts`, `UserCancels`, `CancelGoesOn` | the settings page's learn button |
| `ClientHandles` | `notifyHardwarePttLearningResult`, `notifyAutoDetectedPttKeyCode` |
| `StartUp` | the controller's queued first call, the client's initial signals |
| `SocketChanges`, `SocketRead`, `SocketRetry`, `PermissionAnswered` | `SppPttBridge`'s slots, timers and dialog |
| `PermissionGranted` | the activity's own dialog, the system settings |
| `LearningComplete`, `EditSettings`, `ClearSppDevice` | the controller's slots and the settings page |

The user is taken to reach the settings page after the client's initial signals,
100 ms after its construction. The buttons that end their lines are reduced to those
that do not: a line is a pattern that was read.

### Transcription

A session is its generation, and so is a text it heard, though the code's notices
carry none. `starting` says where `createPipeAndStart` has got; the Qt thread
handles nothing meanwhile (`Free`). `main` is the main thread's queue, `notes` the
Qt thread's. The refresh of the support state after a language error is one step
with it; that the engine's cleanup also closes its pipe is left out, as the
session that goes with it does the same.

### MC modules

Each `MC` module extends the module it checks; the configurations give the
constants. Definitions marked `mutant` are plausible bugs: each replaces the
definition after it in a check that the property notices. Where a module's `TypeOK`
is not listed below by itself, a safety property of the run includes it;
`AudioPlayback` states its types with its variables.

## 4. The runs

| Run | Bounds | Asks |
|---|---|---|
| `session` | `BackoffSteps = 7` (the code's table), `MaxSnapshots = 2`, `MaxStarts = 2` | `TypeOK`; `NoStaleIgnore`: no ignore flag while a session is set up or used; `SessionIsAnchored`: an attempt has its timer, an authenticated session its socket; `PendingOnlyWhenDown`: no reconnect pending beside a session; `WaitsOnlyWithoutNetwork`; `NotForgotten`: a client whose user wants to be connected is kept or will be, and one that is down has something that brings it back; `StaysQuiet`: after the user's disconnect only the user, or a call of the service that was queued or comes from a start handled after it, brings the session back; `KeepsPromise`: it implements `SessionPromise`; `EventuallyConnected`: a client whose user wants to be connected is, once its environment is calm |
| `session_waiting` | `MaxSnapshots = 1`, `MaxStarts = 2` | the disagreement of section 6 |
| `ptt` | `Limits = {1, 2}`, both permissions, all audio events, queues of 1 | `MicrophoneIsHeld`; `DrainIsComing`; `TimeLimitHolds`; `ReadinessArrives`; `StartsFromRest`; `TransmissionEnds` |
| `jitter` | rings of 2 to 4 slots, writes of up to 5 samples, reads of up to 2, thresholds 0, 1, 2 and one above every ring | `TypeOK`; `HoldsBackForReason`: the prebuffer flag is up only while samples are missing; `KeepsOrder`: it implements `JitterQueue`; `SpeechIsHeard`: as long as samples keep coming, some are ready again and again |
| `playback` | `Modulus = 4`, 5 datagrams in each of 2 sessions, 2 under way, 1 call queued, all focus, activity and route events | `PlaysInOrder`: nothing is heard twice or out of order, across the wrap; `PauseIsRemembered`: a paused output stays noted, or its restart is due |
| `talkgroup` | 3 talkgroups, 3 callsigns, 2 profiles, 7 events | `ServerKnows`: the server serves what the client shows; `ChoiceHolds`: no talker takes the user's choice away; `NameIsTheirs`; `Parks`: a client left alone is parked |
| `capture` | frames of 2, a lead-in of 1 frame, 3 samples, 3 orders, 1 route change, 1 fault | `InOrder`: what is sent is in order, in whole frames; `NothingFromBefore`: nothing captured before the transmission is sent; `MicrophoneIsGivenBack`: at rest nothing of a recording is left |
| `output` | a track of 2 frames, 5 method calls, a thread that may fail to attach | `PausedIsQuiet`; `KeepsPlaying`: no resume is lost |
| `service` | 2 events: connections, keys, kills, the activity's coming and going | `StoppedHoldsNothing`: no lock, timer or callback outlives the service; `WatchIsKept`: a wanted connection ends up watched |
| `network` | 3 routes, 2 changes, 2 connections, 1 disconnection | `AtMostOneAfterStop`; `LastDescribesNetwork`: the last snapshot tells of the network that holds still |
| `hardware` | 2 keys, 2 learning modes, 2 events: presses of either, a loss of the link, a denial, an edit; grants in and outside the bridge's dialog | `EndIsComing`: a learning mode ends on both sides; `LinkIsComing`: a link that is down has what brings it back, or shows that it was denied; `LearningWithholdsPtt`: a press that is to be learned does not transmit |
| `transcription` | 3 recognisers, 6 events, 2 notices | `SilenceShowsNothing`: late results do not bring a text back; `WritesOnlyWhenWanted`: speech leaves the engine only for a session that is wanted; `RecognizerEnds`: no recogniser outlives its audio |

Why the bounds are enough. In `session` two queued snapshots allow each pair of
reports, in particular a loss overtaken by a return, and a check between them. The
notes queue holds at most one check besides: a second one would find the same state.
Two start requests are one overtaken by a disconnect and, behind it, the one of the
next connect. The main thread takes them in order and each says all that the service
is to do, so a third would only delay the last.
In `ptt` the bounds stop only the session and Android from adding to a queue that is
not empty; every order that a handler gives is still queued, so queues grow to four
orders and more. That covers a stop, a cleanup and a set-up of the next session
behind a start, and signals of an ended session behind them. What it leaves out is
two reports of Android in the queue at once. Two limits show a limit lowered in the
middle of a transmission. Sessions come and go without bound.

In `jitter` a write is longer than every ring, so that one hold of the mutex
overflows a ring more than once; rings of even and odd size round their half
differently, and two sample values tell a wrong slot from the right one.

In `playback` the modulus 4 and 5 datagrams make the numbers wrap within a session,
and the stale half, 2 numbers, is the boundary of what the network may hold back; the
second session begins behind the first's position. The engine's queue is first in,
first out and nothing but the engine reads what it changes, so one queued call
differs from several only in when it was queued; the datagrams under way take the
part of what waits. `capture` has a recording that is stopped inside its lead-in, in
a frame and after one, and a second recording that could find its rest; three orders
are a connection and two of them. The three routes of `network` are two of one
transport and one of another, which the comparison with the baseline tells apart.
Two events of `service` are a connection and any one thing that meets it: a second
connection after a disconnection, a key, a kill, the activity's going; disconnections
and the application's end are not counted, and the steps of both threads interleave
without bound. In `hardware` two keys show a press of the wrong key, two modes a
runnable of the one in the other; two events are the press that is learned and one
disturbance. In `transcription` three recognisers let two late ones run beside the
present one.

## 5. Fairness

`session` assumes: the Qt thread handles posted calls and socket signals, the main
thread creates the service and handles its start requests, active
timers fire (`OnConnectTimeout`, `OnReconnectBackoffTimeout`), the keep-alive ticks
while monitoring is on, the monitor reports the link, and the server either greets or
closes (`PeerCloses`). Those are an event loop's and a timer's guarantees, and for
the last the server's own time-out: the client has no timer for a handshake that
stalls after the TCP connection, and its watchdog is armed with the second heartbeat
only. Without `WF(PeerCloses)` the client may wait for ever in "Authenticating"; that
is a property of the code and not of the model. The environment is fair in one
respect only: it becomes calm some day. `EventuallyConnected` is a leads-to from then
on, so no fault is assumed to be repaired before.

`ptt` assumes the two event loops and the one-second timer, nothing of the user. The
hang timer needs no fairness: the time limit ends a transmission that hangs.

`jitter` assumes that a write in progress goes on and that the playback thread, which
polls every 20 ms, gets the mutex between writes infinitely often (`SF` of `Ask` and
`Read`: each write may disable them for its duration). That a talker keeps sending
and nobody clears the buffer is in the property's premise.

`talkgroup` assumes the one-second timer. `output` assumes the playback thread runs,
the platform plays, and that the engine gets the Java lock in the end although the
thread takes it again and again (`SF` of `Steps`): the thread sleeps or waits for
samples between writes. `network` assumes both threads' handlers and the debounce
timer; the premises say that the monitor stays registered and the network holds
still. `transcription` assumes both threads, the 3 s timeout of the support check,
and that a recogniser whose audio has ended ends: Android's promise for segmented
sessions. `playback`, `capture`, `service` and `hardware` check safety only and
assume nothing.

## 6. Where code and text disagree

- `WaitingIsFlagged`: a live session that loses its network shows "Waiting for
  validated network..." without the flag the test expects
  (`ReflectorClientRecovery.cpp:419`, `tests/tst_reflector_client.cpp:1000`).

The following was met while modelling. The modules do what the code does here, and
the properties are stated so that they hold of it; no run checks the texts.

- The key a server denied is cleared in memory and read back from the saved profile
  (`ReflectorClientProtocol.cpp:393`).
- A release handled between the hand-off of a resumption and its posted call is lost,
  and a transmission starts that nobody holds (`ReflectorClientPtt.cpp:283`). The
  100 ms retry after a permission grant (`ReflectorClient.cpp:1077`) and a session
  lost in the hang time (`ReflectorClientRecovery.cpp:58`) have the same effect; the
  time limit bounds it (`TimeLimitHolds`, `TransmissionEnds`).
- The drain of a route change is taken for the answer to a pending stop; the client
  reports a stopped recording that runs until the real stop is carried out
  (`AudioEngineFocus.cpp:276`). `MicrophoneIsHeld` shows that it is.
- The first frames of a new session are dropped against the last frame of the old one
  (`AudioEnginePlayback.cpp:136`).
- A restart that was asked for before a newer pause plays over it 100 ms later
  (`AudioEngineFocus.cpp:239`); `PauseIsRemembered` says that pauses stay noted, not
  that they are heard.
- A focus loss, a pause and a resume make the engine ready with no output running
  (`AudioEngineFocus.cpp:225`), and a permanent loss that a reconnect has outlived
  keeps a later transient one from being ended by the gain (`AudioEngineFocus.cpp:200`).
- A talker stays shown after the client left the talkgroup (`ReflectorClient.cpp:1746`);
  the callsign of a talker frame in the old form is read from the wrong place
  (`ReflectorClientProtocol.cpp:535`).
- What the capture thread posts while it is joined is dropped after the drain
  (`AudioEngineRecording.cpp:123`). After a change from Bluetooth in a transmission the
  device records in `MODE_NORMAL` (`AudioEngineRecording.cpp:66`). A capture thread
  that cannot attach to the JVM leaves the `AudioRecord`, the mode and the Bluetooth
  route as they were (`AudioEngineRecording.cpp:122`), which is why
  `MicrophoneIsGivenBack` excepts it.
- A start request handled late switches the monitoring on after a disconnection, so
  that the keep-alive and the monitor call and the saved profile brings back a session
  the user had ended; it also clears the connected state of a live session
  (`VoipBackgroundService.java:176`, `:277`, `:594`). `StaysQuiet` says by what alone
  the session returns.
- Nobody tells an idle service that the activity went to the background
  (`LatryActivity.java:308`). The start request redelivered after a kill reconnects a
  user who had disconnected (`VoipBackgroundService.java:182`); `WatchIsKept` speaks of
  a process that was not killed, since a restarted one is watched only if its last
  request was kept.
- `connectToHost` on a socket that is still open or closing fails inside the call: the
  attempt is reported lost and the next is scheduled
  (`ReflectorClientConnection.cpp:82`, `:170`).
- A serial button whose Bluetooth permission was denied stays down also when the
  permission is granted in the activity's own dialog or in the settings, until the
  bridge is made or asked anew (`LatryActivity.java:469`, `SppPttBridge.cpp:118`).
- A route change before the first snapshot of a connection is swallowed
  (`NetworkHandoverMonitor.java:249`).
- One press of another push-to-talk key replaces the key the user taught
  (`LatryActivity.java:375`); the release of a key held while a learning mode starts is
  swallowed (`HardwarePttLearningCoordinator.java:110`); the bridge goes on learning
  after the mode has ended (`SppPttController.cpp:231`); a release read with its press
  waits for more data (`SppPttBridge.cpp:261`).
- The notice that the last talk spurt's session has stopped ends the next one's
  (`ReflectorClientJni.cpp:552`).

## 7. What is proved

`ReflectorSessionProofs` proves, from the assumptions `BackoffAssumption`,
`SnapshotAssumption` and `StartsAssumption` alone (positive bounds), for every table
length and queue bound:

| Theorem | Says |
|---|---|
| `Invariance` | `Spec => []IInv` |
| `TypeCorrect` | `Spec => []TypeOK` |
| `FlagsAreSafe` | `Spec => []NoStaleIgnore` |
| `Anchored` | `Spec => []SessionIsAnchored` |
| `NoReconnectOfLiveSession` | `Spec => []PendingOnlyWhenDown` |
| `BackoffIsUnused` | `Spec => []ReconnectsAreImmediate` |
| `WaitingIsJustified` | `Spec => []WaitsOnlyWithoutNetwork` |
| `Watchfulness` | `Spec => []Watched` |
| `NoClientForgotten` | `Spec => []NotForgotten` |
| `QuietIsKept` | `Spec => StaysQuiet` |
| `ImplementsPromise` | `Spec => KeepsPromise` |

The properties are not inductive by themselves. `IInv` adds three facts:
`PeerFollowsState` (what the server does fits the socket and the client's state, so
that an established socket is never forgotten), `ProfileIsSaved` (wherever something
may still reconnect, a start request included, a profile was saved, so that dropping
to the saved one loses nothing) and `BackoffIsSpent` (a backoff index past the first
entry belongs to a reconnect that is due at once, or to a network that is unusable;
either resets the index before it is used). The proof has one lemma per group of
actions; the two procedures every path shares, `BeginConnection` and a drop followed
by `ScheduleReconnectAttempt`, have lemmas of their own (`ConnectKeepsIInv`, which
takes a busy socket's failure from `BusySocketOutcome`, and `DropKeepsIInv`), and
`StepKeepsIInv` collects them.

That no client is forgotten needs more, and `IInv` as a premise. `Watched` adds to
`NotForgotten` that a client whose session is gone hears the end of its socket
(`ClosingIsHeard`), and that one the service will not keep, whatever requests still
wait (`Due`), has no session and ignores the end of the last one (`UndueIsDown`).
`QuietIsKept` rests on `Left`, which says the same of a client its user has
disconnected: no step but the user's connect and a call of the service changes it
(`LeftStaysLeft`, `StepUntilCalled`), and a client that rests, with no request to
monitor and no call under way, is never called (`RestingStays`). The refinement takes
`IInv` before and after a step (`StepRefines`): each step of the client or its service
is a step of `SessionPromise` or changes nothing that it shows.

`PlaybackProofs` proves, from `SamplesAssumption`, `SizesAssumption` and
`CountsAssumption`, for every set of sizes, thresholds and samples, what `Spec` of
`JitterBuffer` says; and from `ModulusAssumption` (an even sequence space, as 2^16
is), `BoundsAssumption` and `EventsAssumption`, for any number of sessions,
datagrams and queued calls, what `AudioSpec` of `AudioPlayback` says:

| Theorem | Says |
|---|---|
| `TypeCorrect` | `Spec => []TypeOK` |
| `HeldBackForReason` | `Spec => []HoldsBackForReason` |
| `ImplementsQueue` | `Spec => KeepsOrder` |
| `AudioInOrder` | `AudioSpec => PlaysInOrder` |
| `PauseRemembered` | `AudioSpec => PauseIsRemembered` |

In the ring `TypeOK` is inductive, and `HoldsBackForReason` is inductive with it. The
refinement needs `TypeOK` before and after a step. Its two real cases are
`WriteSampleIsPut` (the queue grows by the sample, or the part of it after the
oldest half is left) and `ReadIsPlay` (the first `n` samples leave); both compare
sequences slot by slot through `SlotInRange` and `IsSubSeq`.

That frames stay in order rests on arithmetic and on three agreements. `Overtaken`:
a frame that a later one overtook, less than half the sequence space on, has a
16-bit number that the engine's comparison takes for stale, the wrap included.
`ServerFits`: what is under way belongs to the present session and was overtaken by
no more than that. `CallsFit`: whatever the engine will take first keeps up
(`KeepsUp`) with whatever it will take later, so the queue cannot hold two frames
that are further apart. `TakenFits`: the number remembered is that of the newest
frame taken, and what is queued keeps up with it. Their conjunction `AudioFits` is
inductive; `CallAdded` and `CallTaken` say what putting a call into the queue and
taking one out does to it. `PauseRemembered` needs no invariant: each step is looked
at by itself.

`NativeAudioProofs` proves, from `PlaybackAssumption` and `CaptureAssumption`, for
every size of frame, block, lead-in and track buffer and any number of calls, what
`OutputSpec` of `NativePlayback` and `Spec` of `NativeCapture` say:

| Theorem | Says |
|---|---|
| `OutputInvariance` | `OutputSpec => []OutputAgrees` |
| `QuietWhilePaused` | `OutputSpec => []PausedIsQuiet` |
| `MicrophoneReturns` | `Spec => []MicrophoneIsGivenBack` |
| `SpeechInOrder` | `Spec => []InOrder` |
| `NothingOldIsSpoken` | `Spec => NothingFromBefore` |

For the output, `PauseFits` says at which steps of the engine's methods a pause can
be in force, and `OneFrame` that the thread takes no further frame once it wrote one
under a pause.

For the capture, three layers build on each other. `Fits` ties the steps an engine's
method has left (`Todos` lists what they can be) to whether it records, to where the
capture thread is and to the device: in `Hardware`, an engine that does not record
has joined its thread and given the device back. `Protocol` says what the queue
between client and engine holds, for `Fits` is not inductive without it: no set-up
may reach an engine that records, so a recording that is wanted is stopped first
(`StopComesFirst`, `StopIsComing`), a client that asked for a recording waits for the
answer, and nothing is posted behind its request before the recording (`WarmIsLast`,
`StartIsAlone`, `AnswerIsAwaited`, `NothingIsRead`). With the types they are
`CaptureAgrees`, from which `MicrophoneReturns` follows. `SamplesFit` orders all
samples in the program: what was sent, before what waits to be encoded, before the
blocks in the queue in their order, before what the thread has just read. `SinceFirst`
adds that none of what waits is older than the transmission, for which `Protocol` is
needed again: a block posted by a thread while it was being joined is gone before the
next recording begins.

`TranscriptionProofs` proves, from `TranscriptionAssumption`, for every number of
sessions, events and notices:

| Theorem | Says |
|---|---|
| `Invariance` | `Spec => []IInv` |
| `TypeCorrect` | `Spec => []TypeOK` |
| `SilentIsEmpty` | `Spec => []SilenceShowsNothing` |
| `PipeIsWanted` | `Spec => []WritesOnlyWhenWanted` |

Its `IInv` adds two facts. `SessionIsWanted`: a session the client has or is
starting is one of a talk spurt with the setting on; without it a start that
returns late could leave the engine writing in silence. `CreateIsAwaited`: the main
thread makes a recogniser only for a start that still waits for it, and nothing is
queued behind it; without it a start that was given up could be completed. The
type invariant is proved in parts (`FlagsOK`, `NumbersOK`, `StartOK`, `QueuesOK`);
`QtKeepsQueues` and `ClientStaysKeeps` carry what the steps of one side do to the
other's state.

`PttTransmissionProofs` proves, from `LimitsAssumption` (positive limits, with a
largest one), `GrantsAssumption` and `AudioEventsAssumption`, for every bound on the
queues:

| Theorem | Says |
|---|---|
| `Invariance` | `Spec => []IInv` |
| `MicrophoneHeld` | `Spec => []MicrophoneIsHeld` |
| `DrainComes` | `Spec => []DrainIsComing` |
| `LimitHolds` | `Spec => []TimeLimitHolds` |
| `ReadinessKnown` | `Spec => []ReadinessArrives` |
| `FromRest` | `Spec => []StartsFromRest` |

Each of these speaks of the client, of the engine and of the two queues between
them, so `IInv` says what is in the queues. `WaitsForBegin`: an order to begin is the
last one and the Qt thread waits for it, so that no order to stop can be overtaken.
`StopIsOrdered`: an open microphone belongs to a transmission that is not being
stopped, or the order to close it is queued. `HangsInTransmission` and `Timed` keep
the release timer and the time limit tied to the transmission they are for.
`ReadyIsTold`: while the engine's output runs, the last word on readiness in the
queue is "ready", or a setup is ordered. The proof has a lemma for each order and
each signal, and lemmas on what taking or adding one changes about a queue.

`TalkgroupSelectionProofs` proves, from `TalkgroupAssumption` and
`ProfilesAssumption`, for every set of talkgroups, callsigns and profiles:

| Theorem | Says |
|---|---|
| `Invariance` | `Spec => []IInv` |
| `ServerIsTold` | `Spec => []ServerKnows` |
| `ChoiceIsKept` | `Spec => []ChoiceHolds` |
| `NamesFit` | `Spec => []NameIsTheirs` |

`IInv` adds that a manual choice is held without the priority mode
(`ChoiceIsManual`; a choice held in that mode could be taken by a talker of a higher
priority) and that a lookup under way, while a talker is shown, is for that talker
(`LookupIsTheirs`; its answer is otherwise shown with somebody else). The parsing of
the monitored list needs that a set of numbers has a least one, which
`LeastExists` takes from the well-foundedness of the naturals.

`ServiceProofs` proves, from `VoipServiceAssumption` and `MonitorAssumption`, for
any number of events, routes, changes, connections and disconnections, what `Spec` of
`VoipService` and `MonitorSpec` of `HandoverMonitor` say:

| Theorem | Says |
|---|---|
| `ServiceReleases` | `Spec => []StoppedHoldsNothing` |
| `WatchKept` | `Spec => []WatchIsKept` |
| `Invariance` | `MonitorSpec => []IInv` |
| `StoppedMonitorEnds` | `MonitorSpec => []AtMostOneAfterStop` |

Both properties of the service speak of a moment at which its threads have nothing
left to do; the invariants speak of every other. `Releases` says that whatever a
service that is not running holds, the step that gives it back is still to come and
no step takes anything more (`HeldWhileRunning`), that a stop has every such step
before it and no start within it (`StopReleases`), and that the end of an object has
the same (`DestroyReleases`). `Kept` says that, until a kill or the application's end,
nothing ends the service (`NoEnd`), that there is one or one is about to be created
(`Exists`), and that the connection the user asked for has its request in the queue
with no other start behind it, or has its watch, all of it done or left to do
(`Watch`). For the monitor, `AtMostOneLeft` counts what one that is not registered may
still deliver: a snapshot drafted, one posted, or one told of, and never two of
them.

`HardwarePttProofs` proves, from `KeyAssumption` and `SppAssumption`, for every set of
keys and number of modes, events, timers and permission questions:

| Theorem | Says |
|---|---|
| `Invariance` | `Spec => []IInv` |
| `ModesEnd` | `Spec => []EndIsComing` |
| `LinkComes` | `Spec => []LinkIsComing` |
| `LearningIsSilent` | `Spec => LearningWithholdsPtt` |

`IInv` adds two facts about the composition. `BridgeLearns`: while both sides are in
the mode, the bridge learns, or it has learned and is ending the mode, or it knows no
press that it could take for one. `StartedUp`: the client enters a mode only after
the startup's calls, which could otherwise replace a learning bridge by one that
transmits. The steps of the two components are lemmas about the component's part of
`IInv` (`KeyInv`, `SppInv`); `Join` puts the parts together for the joint steps.

`BackoffIsUnused` states a part of `IInv` that no run asks for by itself:
`ReconnectsAreImmediate`, that every reconnect is scheduled with the table's first
entry. The type invariant of `Transcription` is likewise proved and not asked for by
a run of its own.

TLC checked the inductive invariants of the audio modules on their runs' instances
before they were proved. Where a proof module speaks of two components, the second's
definitions have names of their own (`AudioSpec`, `OutputSpec`, `MonitorSpec`).

Model-checked only: the liveness properties (`EventuallyConnected`,
`TransmissionEnds`, `SpeechIsHeard`, `Parks`, `KeepsPlaying`, `LastDescribesNetwork`,
`RecognizerEnds`), since liveness under fairness is out of the prover's reach. Every
safety invariant, action property and refinement that a passing run checks is proved.

## 8. Not modelled

Decoding, resampling, gain and metering have no control state. QML pages are
their calls. Platform audio calls are steps that succeed or fail. The byte level
of frames is left out: a frame is its kind; a frame longer than the client
accepts ends the session like a disconnect by the client and is not distinguished.
The text and the buttons of the notification and the choice among audio devices
are left out: both are computed anew from state that is modelled. So is the download
of a language model for transcription (`LatryTranscriptionManager.java:337-447`): the
recogniser's listener sets a state that the settings page shows, and nothing else
depends on it. The iOS port is
an older copy of the same client without the recovery machinery, the service and
the native threads; a module for it would repeat `ReflectorSession` and
`PttTransmission` with operations left out. `PROJECT.json` lists each component
with its status, and each hazard with the properties that cover it, or the reason
why none does.
