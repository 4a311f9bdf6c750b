------------------------ MODULE TranscriptionProofs ------------------------
(* Theorems about Transcription, for any number of sessions and events.       *)
EXTENDS Transcription, TLAPS

\* The type invariant in parts: what the provers are to see apart.
Tasks == {"teardown", "query", "create"}
NoteSet == [what : {"partial", "final", "error", "language", "stopped"}, of : 0..MaxSessions]

FlagsOK ==
  /\ granted \in BOOLEAN /\ asked \in BOOLEAN /\ available \in BOOLEAN /\ enabled \in BOOLEAN
  /\ receiving \in BOOLEAN /\ active \in BOOLEAN /\ suspended \in BOOLEAN

NumbersOK ==
  /\ pending \in 0..MaxSessions /\ fd \in 0..MaxSessions
  /\ session \in 0..MaxSessions /\ made \in 0..MaxSessions
  /\ committed \subseteq 0..MaxSessions

QueuesOK == main \in Seq(Tasks) /\ notes \in Seq(NoteSet)

StartOK ==
  /\ starting # "no" => ~active /\ fd = 0
  /\ starting \in {"no", "query", "asked", "create", "created", "failed"}

\* The session the client has, or is starting, is one that is wanted.
SessionIsWanted == active \/ starting # "no" => receiving /\ enabled

\* A recogniser is only made for a start that still waits for it, and nothing
\* is queued behind its making.
CreateIsAwaited ==
  \A i \in 1..Len(main) : main[i] = "create" => starting = "create" /\ i = Len(main)

IInv ==
  /\ FlagsOK /\ NumbersOK /\ StartOK
  /\ SilenceShowsNothing /\ WritesOnlyWhenWanted /\ SessionIsWanted
  /\ QueuesOK /\ CreateIsAwaited

LEMMA PartsAreTypeOK == FlagsOK /\ NumbersOK /\ QueuesOK /\ StartOK => TypeOK
  BY DEF FlagsOK, NumbersOK, QueuesOK, StartOK, Tasks, NoteSet, TypeOK, Generations

\* What appending and taking do to a queue.
LEMMA QueueStays ==
  ASSUME NEW S, NEW q \in Seq(S), NEW e \in S
  PROVE  /\ Append(q, e) \in Seq(S)
         /\ q # <<>> => Tail(q) \in Seq(S) /\ Head(q) \in S
  OBVIOUS

\* A notice of a session.
LEMMA NotesAreTyped ==
  ASSUME NEW w \in {"partial", "final", "error", "language", "stopped"},
         NEW g \in 0..MaxSessions
  PROVE  Note(w, g) \in NoteSet
  BY DEF Note, NoteSet

LEMMA InitHolds == Init => IInv
<1> SUFFICES ASSUME Init PROVE IInv
  OBVIOUS
<1>1. FlagsOK /\ StartOK
  BY DEF Init, FlagsOK, StartOK
<1>2. NumbersOK
  BY TranscriptionAssumption DEF Init, NumbersOK
<1>3. SilenceShowsNothing /\ WritesOnlyWhenWanted /\ SessionIsWanted
  BY DEF Init, SilenceShowsNothing, WritesOnlyWhenWanted, SessionIsWanted
<1>4. QueuesOK /\ CreateIsAwaited
  BY DEF Init, QueuesOK, CreateIsAwaited
<1> QED BY <1>1, <1>2, <1>3, <1>4 DEF IInv

\* The parts other than the queues, and the queues, as names to expand.
RestOK ==
  /\ FlagsOK /\ NumbersOK /\ StartOK
  /\ SilenceShowsNothing /\ WritesOnlyWhenWanted /\ SessionIsWanted

QueuesFit == QueuesOK /\ CreateIsAwaited

LEMMA Split == IInv => RestOK /\ QueuesFit
  BY DEF IInv, RestOK, QueuesFit

LEMMA Join == RestOK' /\ QueuesFit' => IInv'
  BY DEF IInv, RestOK, QueuesFit

\* What appending and taking do to the two queues.
LEMMA QueueSteps ==
  ASSUME QueuesOK
  PROVE  /\ \A t \in Tasks : Append(main, t) \in Seq(Tasks)
         /\ main # <<>> => Tail(main) \in Seq(Tasks) /\ Head(main) \in Tasks
         /\ \A n \in NoteSet : Append(notes, n) \in Seq(NoteSet)
         /\ notes # <<>> => Tail(notes) \in Seq(NoteSet) /\ Head(notes) \in NoteSet
<1> USE DEF QueuesOK
<1>1. \A t \in Tasks : Append(main, t) \in Seq(Tasks)
  BY QueueStays
<1>2. main # <<>> => Tail(main) \in Seq(Tasks) /\ Head(main) \in Tasks
  BY QueueStays DEF Tasks
<1>3. \A n \in NoteSet : Append(notes, n) \in Seq(NoteSet)
  BY QueueStays
<1>4. notes # <<>> => Tail(notes) \in Seq(NoteSet) /\ Head(notes) \in NoteSet
  <2>1. NoteSet # {}
    BY TranscriptionAssumption, NotesAreTyped
  <2> QED BY <2>1, QueueStays
<1> QED BY <1>1, <1>2, <1>3, <1>4

\* A step of the Qt thread that starts or stops a session keeps the queues.
LEMMA QtKeepsQueues ==
  ASSUME QueuesFit, notes' = notes, starting = "no",
         main' \in {main, Append(main, "query"), Append(main, "teardown")}
  PROVE  QueuesFit'
<1>1. "query" \in Tasks /\ "teardown" \in Tasks
  BY DEF Tasks
<1>2. main' \in Seq(Tasks)
  BY <1>1, QueueSteps DEF QueuesFit, QueuesOK
<1>3. \A i \in 1..Len(main) : main[i] # "create"
  BY DEF QueuesFit, CreateIsAwaited
<1>4. \A i \in 1..Len(main') : main'[i] # "create"
  <2>1. main \in Seq(Tasks)
    BY DEF QueuesFit, QueuesOK
  <2>2. ASSUME NEW t \in {"query", "teardown"}, main' = Append(main, t)
        PROVE  \A i \in 1..Len(main') : main'[i] # "create"
    BY <1>3, <2>1, <2>2, t # "create"
  <2> QED BY <1>3, <2>2
<1> QED BY <1>2, <1>4 DEF QueuesFit, QueuesOK, CreateIsAwaited

\* The steps of the Qt thread that start a session or leave it alone.
LEMMA StartsKeepIInv ==
  ASSUME IInv,
         \/ SetReceivingAudio \/ ActivityResumed \/ EnableTranscription \/ RefreshSupport
         \/ \E yes \in BOOLEAN : PermissionAnswered(yes)
  PROVE  IInv'
<1> USE TranscriptionAssumption
    DEF FlagsOK, NumbersOK, StartOK, SilenceShowsNothing, WritesOnlyWhenWanted, SessionIsWanted
<1> DEFINE Queued == notes' = notes /\ starting = "no" /\ main' \in {main, Append(main, "query")}
<1>0. RestOK /\ QueuesFit
  BY Split
<1>1. CASE SetReceivingAudio
  <2>1. RestOK'
    BY <1>0, <1>1 DEF RestOK, SetReceivingAudio, StartSession, Free, Event, setting
  <2>2. Queued
    BY <1>1 DEF SetReceivingAudio, StartSession, Free
  <2> QED BY <1>0, <2>1, <2>2, QtKeepsQueues, Join
<1>2. CASE ActivityResumed
  <2>1. RestOK'
    BY <1>0, <1>2 DEF RestOK, ActivityResumed, StartSession, Free, Event, setting
  <2>2. Queued
    BY <1>2 DEF ActivityResumed, StartSession, Free
  <2> QED BY <1>0, <2>1, <2>2, QtKeepsQueues, Join
<1>3. CASE EnableTranscription
  <2>1. RestOK'
    BY <1>0, <1>3 DEF RestOK, EnableTranscription, Enable, StartSession, Free, Event, text, java
  <2>2. Queued
    BY <1>3 DEF EnableTranscription, Enable, StartSession, Free, java
  <2> QED BY <1>0, <2>1, <2>2, QtKeepsQueues, Join
<1>4. CASE RefreshSupport
  <2>1. RestOK'
    BY <1>0, <1>4 DEF RestOK, RefreshSupport, Free, Event, text, java
  <2>2. Queued
    BY <1>4 DEF RefreshSupport, Free, java
  <2> QED BY <1>0, <2>1, <2>2, QtKeepsQueues, Join
<1>5. ASSUME NEW yes \in BOOLEAN, PermissionAnswered(yes)
      PROVE  IInv'
  <2>1. RestOK'
    BY <1>0, <1>5 DEF RestOK, PermissionAnswered, Enable, StartSession, Free, text, java
  <2>2. Queued
    BY <1>5 DEF PermissionAnswered, Enable, StartSession, Free, java
  <2> QED BY <1>0, <2>1, <2>2, QtKeepsQueues, Join
<1> QED BY <1>1, <1>2, <1>3, <1>4, <1>5

\* The steps of the Qt thread that stop one.
LEMMA StopsKeepIInv ==
  ASSUME IInv, SetReceivingNothing \/ ActivityPaused \/ DisableTranscription
  PROVE  IInv'
<1>0. RestOK /\ QueuesFit
  BY Split
<1>1. RestOK'
  <2>1. CASE SetReceivingNothing
    <3>1. NumbersOK'
      <4>1. /\ fd' = 0 /\ (pending' = 0 \/ pending' = pending) /\ committed' \subseteq committed
            /\ session' = session /\ made' = made
        BY <2>1 DEF SetReceivingNothing, StopSession, text
      <4> QED BY <1>0, <4>1, TranscriptionAssumption DEF RestOK, NumbersOK
    <3> USE <1>0, <2>1 DEF RestOK, SetReceivingNothing, StopSession, Free, setting, text
    <3>2. FlagsOK' /\ StartOK'
      BY DEF FlagsOK, StartOK
    <3>3. SilenceShowsNothing' /\ WritesOnlyWhenWanted' /\ SessionIsWanted'
      BY DEF FlagsOK, SilenceShowsNothing, WritesOnlyWhenWanted, SessionIsWanted
    <3> QED BY <3>1, <3>2, <3>3
  <2>2. CASE ActivityPaused
    <3>1. NumbersOK'
      <4>1. /\ fd' = 0 /\ (pending' = 0 \/ pending' = pending) /\ committed' \subseteq committed
            /\ session' = session /\ made' = made
        BY <2>2 DEF ActivityPaused, StopSession, text
      <4> QED BY <1>0, <4>1, TranscriptionAssumption DEF RestOK, NumbersOK
    <3> USE <1>0, <2>2 DEF RestOK, ActivityPaused, StopSession, Free, setting, text
    <3>2. FlagsOK' /\ StartOK'
      BY DEF FlagsOK, StartOK
    <3>3. SilenceShowsNothing' /\ WritesOnlyWhenWanted' /\ SessionIsWanted'
      BY DEF FlagsOK, SilenceShowsNothing, WritesOnlyWhenWanted, SessionIsWanted
    <3> QED BY <3>1, <3>2, <3>3
  <2>3. CASE DisableTranscription
    <3>1. NumbersOK'
      <4>1. /\ (fd' = 0 \/ fd' = fd) /\ (pending' = 0 \/ pending' = pending)
            /\ committed' \subseteq committed
            /\ session' = session /\ made' = made
        BY <2>3 DEF DisableTranscription, StopSession, text
      <4> QED BY <1>0, <4>1, TranscriptionAssumption DEF RestOK, NumbersOK
    <3> USE <1>0, <2>3 DEF RestOK, DisableTranscription, StopSession, Free, setting, text
    <3>2. FlagsOK' /\ StartOK'
      BY DEF FlagsOK, StartOK
    <3>3. SilenceShowsNothing' /\ WritesOnlyWhenWanted' /\ SessionIsWanted'
      BY DEF FlagsOK, SilenceShowsNothing, WritesOnlyWhenWanted, SessionIsWanted
    <3> QED BY <3>1, <3>2, <3>3
  <2> QED BY <2>1, <2>2, <2>3
<1>2. /\ notes' = notes /\ starting = "no"
      /\ main' \in {main, Append(main, "teardown")}
  BY DEF SetReceivingNothing, ActivityPaused, DisableTranscription, StopSession, Free
<1> QED BY <1>0, <1>1, <1>2, QtKeepsQueues, Join

\* A notice changes what is shown of a session the client has only.
LEMMA NotesKeepIInv ==
  ASSUME IInv, HandleNote
  PROVE  IInv'
<1>0. RestOK /\ QueuesFit
  BY Split
<1> DEFINE n == Head(notes)
<1>1. n \in NoteSet /\ notes' \in Seq(NoteSet)
  BY <1>0, QueueSteps DEF HandleNote, QueuesFit
<1>2. n.of \in 0..MaxSessions
  BY <1>1 DEF NoteSet
<1>3. /\ starting' = "no" /\ starting = "no"
      /\ UNCHANGED <<granted, asked, receiving, suspended, main, session, made>>
  BY DEF HandleNote, Free, java
<1>4. \/ HandlePartial(n.of) \/ HandleFinal(n.of)
      \/ HandleEnd /\ available' \in BOOLEAN /\ enabled' \in {enabled, FALSE}
  BY <1>0 DEF HandleNote, RestOK, FlagsOK
<1> HIDE DEF n
\* The engine's pipe and the client's session end together or stay.
<1>5. \/ active' = active /\ fd' = fd /\ UNCHANGED <<available, enabled>>
      \/ active' = FALSE /\ fd' = 0 /\ available' \in BOOLEAN /\ enabled' \in {enabled, FALSE}
  BY <1>4 DEF HandlePartial, HandleFinal, HandleEnd
\* What is shown changes in a session only.
<1>6. pending' \in {pending, 0, n.of} /\ (~active => pending' \in {pending, 0})
  BY <1>4 DEF HandlePartial, HandleFinal, HandleEnd, text
<1>7. committed' \subseteq 0..MaxSessions /\ (~active => committed' = committed)
  BY <1>0, <1>2, <1>4 DEF HandlePartial, HandleFinal, HandleEnd, RestOK, NumbersOK, text
<1>8. NumbersOK'
  <2>1. pending' \in 0..MaxSessions
    BY <1>0, <1>2, <1>6, TranscriptionAssumption DEF RestOK, NumbersOK
  <2>2. fd' \in 0..MaxSessions
    <3>1. fd' = 0 \/ fd' = fd
      BY <1>5
    <3> QED BY <1>0, <3>1, TranscriptionAssumption DEF RestOK, NumbersOK
  <2>3. session' = session /\ made' = made
    BY <1>3
  <2> QED BY <1>0, <1>7, <2>1, <2>2, <2>3 DEF RestOK, NumbersOK
<1>9. FlagsOK' /\ StartOK'
  BY <1>0, <1>3, <1>5 DEF RestOK, FlagsOK, StartOK
<1>10. SilenceShowsNothing'
  BY <1>0, <1>3, <1>6, <1>7 DEF RestOK, FlagsOK, SilenceShowsNothing, SessionIsWanted
<1>11. WritesOnlyWhenWanted' /\ SessionIsWanted'
  <2>1. CASE active' = FALSE /\ fd' = 0
    BY <1>3, <2>1 DEF WritesOnlyWhenWanted, SessionIsWanted
  <2>2. CASE active' = active /\ fd' = fd /\ enabled' = enabled
    BY <1>0, <1>3, <2>2 DEF RestOK, WritesOnlyWhenWanted, SessionIsWanted
  <2> QED BY <1>5, <2>1, <2>2
<1>12. QueuesFit'
  BY <1>0, <1>1, <1>3 DEF QueuesFit, QueuesOK, CreateIsAwaited
<1> QED BY <1>8, <1>9, <1>10, <1>11, <1>12, Join DEF RestOK

\* The steps of a start.
LEMMA StartStepsKeepIInv ==
  ASSUME IInv,
         \/ \E ready \in BOOLEAN : SupportAnswered(ready)
         \/ SupportTimesOut \/ StartReturns
  PROVE  IInv'
<1> USE TranscriptionAssumption
    DEF FlagsOK, NumbersOK, StartOK, SilenceShowsNothing, WritesOnlyWhenWanted, SessionIsWanted
<1>0. RestOK /\ QueuesFit
  BY Split
<1>1. ASSUME starting # "create"
      PROVE  \A i \in 1..Len(main) : main[i] # "create"
  BY <1>0, <1>1 DEF QueuesFit, CreateIsAwaited
<1>2. ASSUME StartFails, starting \in {"query", "asked"}, main' = main
      PROVE  starting' = "no" /\ QueuesFit'
  <2>1. Note("error", 0) \in NoteSet /\ Note("language", 0) \in NoteSet
    BY NotesAreTyped
  <2>2. notes' \in Seq(NoteSet)
    BY <1>0, <1>2, <2>1, QueueSteps DEF StartFails, QueuesFit
  <2>3. QueuesOK'
    BY <1>0, <1>2, <2>2 DEF QueuesFit, QueuesOK
  <2>4. CreateIsAwaited'
    BY <1>1, <1>2 DEF CreateIsAwaited
  <2> QED BY <1>2, <2>3, <2>4 DEF StartFails, QueuesFit
<1>3. ASSUME NEW ready \in BOOLEAN, SupportAnswered(ready)
      PROVE  RestOK' /\ QueuesFit'
  <2>1. CASE ready
    <3>1. RestOK'
      BY <1>0, <1>3, <2>1 DEF RestOK, SupportAnswered, setting, text
    <3>2. /\ notes' = notes /\ main' = Append(main, "create")
          /\ starting = "asked" /\ starting' = "create"
      BY <1>3, <2>1 DEF SupportAnswered
    <3>3. main \in Seq(Tasks) /\ "create" \in Tasks
      BY <1>0 DEF QueuesFit, QueuesOK, Tasks
    <3>4. QueuesOK'
      BY <1>0, <3>2, <3>3, QueueSteps DEF QueuesFit, QueuesOK
    <3>5. CreateIsAwaited'
      BY <1>1, <3>2, <3>3 DEF CreateIsAwaited
    <3> QED BY <3>1, <3>4, <3>5 DEF QueuesFit
  <2>2. CASE ~ready
    <3>1. starting' = "no" /\ QueuesFit'
      BY <1>2, <1>3, <2>2 DEF SupportAnswered
    <3> QED BY <1>0, <1>3, <3>1 DEF RestOK, SupportAnswered, setting, text
  <2> QED BY <2>1, <2>2
<1>4. CASE SupportTimesOut
  <2>1. starting' = "no" /\ QueuesFit'
    BY <1>2, <1>4 DEF SupportTimesOut, java
  <2> QED BY <1>0, <1>4, <2>1, Join DEF RestOK, SupportTimesOut, setting, text, java
<1>5. CASE StartReturns
  <2>1. RestOK'
    BY <1>0, <1>5 DEF RestOK, StartReturns, SetTranscriptionPipeFd, setting, text, java
  <2>2. starting # "create" /\ main' = main /\ notes' = notes
    BY <1>5 DEF StartReturns, java
  <2>3. QueuesFit'
    BY <1>0, <1>1, <2>2 DEF QueuesFit, QueuesOK, CreateIsAwaited
  <2> QED BY <2>1, <2>3, Join
<1> QED BY <1>3, <1>4, <1>5, Join

\* Steps of the other threads leave the client's state alone, but may close the
\* pipe and say how the start goes on.
ClientStays ==
  /\ UNCHANGED <<setting, receiving, active, suspended, text>>
  /\ fd' \in {fd, 0}
  /\ session' \in 0..MaxSessions /\ made' \in 0..MaxSessions
  /\ \/ starting' = starting
     \/ starting # "no" /\ starting' \in {"asked", "created", "failed"}

LEMMA ClientStaysKeeps == RestOK /\ ClientStays => RestOK'
  BY TranscriptionAssumption
  DEF RestOK, ClientStays, FlagsOK, NumbersOK, StartOK, SilenceShowsNothing,
      WritesOnlyWhenWanted, SessionIsWanted, setting, text

\* The main thread takes its next task.
LEMMA MainKeepsIInv ==
  ASSUME IInv, RunMain
  PROVE  IInv'
<1> USE TranscriptionAssumption
<1>0. /\ RestOK /\ QueuesFit /\ session \in 0..MaxSessions /\ made \in 0..MaxSessions
      /\ main \in Seq(Tasks) /\ main # <<>> /\ main' = Tail(main) /\ notes \in Seq(NoteSet)
  BY Split DEF RestOK, NumbersOK, QueuesFit, QueuesOK, RunMain
<1>1. main' \in Seq(Tasks)
  BY <1>0, QueueSteps DEF QueuesFit
<1>2. ASSUME Head(main) = "create"
      PROVE  starting = "create" /\ main' = <<>>
  <2>1. 1 \in 1..Len(main) /\ main[1] = "create"
    BY <1>0, <1>2
  <2>2. starting = "create" /\ Len(main) = 1
    BY <1>0, <2>1 DEF QueuesFit, CreateIsAwaited
  <2> QED BY <1>0, <2>2
<1>3. ASSUME starting = "create" => starting' = "create"
      PROVE  CreateIsAwaited'
  <2> SUFFICES ASSUME NEW i \in 1..Len(main'), main'[i] = "create"
               PROVE  starting' = "create" /\ i = Len(main')
    BY DEF CreateIsAwaited
  <2>1. /\ i \in Nat /\ Len(main) \in Nat /\ Len(main') = Len(main) - 1
        /\ i + 1 \in 1..Len(main) /\ main[i + 1] = "create"
    BY <1>0
  <2>2. starting = "create" /\ i + 1 = Len(main)
    BY <1>0, <2>1 DEF QueuesFit, CreateIsAwaited
  <2> QED BY <1>3, <2>1, <2>2
<1>4. UNCHANGED <<setting, receiving, active, suspended, text, fd, events>>
  BY DEF RunMain
<1>5. CASE Teardown(TRUE) /\ UNCHANGED <<starting, made>>
  <2>1. notes' \in Seq(NoteSet) /\ session' = 0
    BY <1>0, <1>5, NotesAreTyped, QueueSteps DEF Teardown, QueuesFit
  <2>2. ClientStays
    BY <1>0, <1>4, <1>5, <2>1 DEF ClientStays, setting, text
  <2> QED BY <1>0, <1>1, <1>3, <1>5, <2>1, <2>2, ClientStaysKeeps, Join DEF QueuesFit, QueuesOK
<1>6. CASE /\ UNCHANGED <<session, made, notes>>
           /\ starting' = IF IsLastQuery /\ starting = "query" THEN "asked" ELSE starting
  <2>1. ClientStays
    BY <1>0, <1>4, <1>6 DEF ClientStays, setting, text
  <2> QED BY <1>0, <1>1, <1>3, <1>6, <2>1, ClientStaysKeeps, Join DEF QueuesFit, QueuesOK
<1>7. CASE Head(main) = "create" /\ CreatePipeAndStart
  <2>1. /\ session' \in 0..MaxSessions /\ made' \in 0..MaxSessions
        /\ starting' \in {"created", "failed"}
    BY <1>0, <1>7 DEF CreatePipeAndStart
  <2>2. notes' \in Seq(NoteSet)
    <3>1. Note("error", 0) \in NoteSet
      BY NotesAreTyped, TranscriptionAssumption
    <3>2. notes' = notes \/ notes' = Append(notes, Note("error", 0))
      BY <1>7 DEF CreatePipeAndStart
    <3> QED BY <1>0, <3>1, <3>2, QueueSteps DEF QueuesFit, QueuesOK
  <2>3. ClientStays
    BY <1>2, <1>4, <1>7, <2>1 DEF ClientStays, setting, text
  <2>4. CreateIsAwaited'
    BY <1>2, <1>7 DEF CreateIsAwaited
  <2> QED BY <1>0, <1>1, <2>2, <2>3, <2>4, ClientStaysKeeps, Join DEF QueuesFit, QueuesOK
<1> QED BY <1>5, <1>6, <1>7 DEF RunMain

\* The steps of the recogniser and the engine.
LEMMA OthersKeepIInv ==
  ASSUME IInv,
         \/ EndOfSegments \/ PipeBreaks
         \/ \E what \in {"partial", "final"} : Result(what)
         \/ \E what \in {"error", "language"} : RecognitionError(what)
  PROVE  IInv'
<1> USE TranscriptionAssumption
<1>0. /\ RestOK /\ QueuesFit /\ QueuesOK /\ notes \in Seq(NoteSet)
      /\ session \in 0..MaxSessions /\ made \in 0..MaxSessions
  BY Split DEF RestOK, NumbersOK, QueuesFit, QueuesOK
<1>1. ASSUME ClientStays, notes' \in Seq(NoteSet), UNCHANGED <<main, starting>>
      PROVE  IInv'
  <2>1. QueuesFit'
    BY <1>0, <1>1 DEF QueuesFit, QueuesOK, CreateIsAwaited
  <2> QED BY <1>0, <1>1, <2>1, ClientStaysKeeps, Join
<1>2. CASE EndOfSegments
  <2>1. notes' \in Seq(NoteSet) /\ session' = 0
    BY <1>0, <1>2, NotesAreTyped, QueueSteps DEF EndOfSegments, Teardown
  <2>2. ClientStays /\ UNCHANGED <<main, starting>>
    BY <1>0, <1>2, <2>1 DEF EndOfSegments, ClientStays, setting, text
  <2> QED BY <1>1, <2>1, <2>2
<1>3. CASE PipeBreaks
  <2>1. ClientStays /\ UNCHANGED <<main, starting, notes>>
    BY <1>0, <1>3 DEF PipeBreaks, ClientStays, java, setting, text
  <2> QED BY <1>0, <1>1, <2>1
<1>4. ASSUME NEW what \in {"partial", "final"}, Result(what)
      PROVE  IInv'
  <2>1. notes' \in Seq(NoteSet)
    BY <1>0, <1>4, NotesAreTyped, QueueSteps DEF Result
  <2>2. ClientStays /\ UNCHANGED <<main, starting>>
    BY <1>0, <1>4 DEF Result, ClientStays, java, setting, text
  <2> QED BY <1>1, <2>1, <2>2
<1>5. ASSUME NEW what \in {"error", "language"}, RecognitionError(what)
      PROVE  IInv'
  <2>1. Note(what, session) \in NoteSet /\ Note("stopped", session) \in NoteSet
    BY <1>0, NotesAreTyped
  <2>2. notes' \in Seq(NoteSet)
    BY <1>0, <1>5, <2>1 DEF RecognitionError
  <2>3. ClientStays /\ UNCHANGED <<main, starting>>
    BY <1>0, <1>5 DEF RecognitionError, ClientStays, setting, text
  <2> QED BY <1>1, <2>2, <2>3
<1> QED BY <1>2, <1>3, <1>4, <1>5

LEMMA StepKeepsIInv == IInv /\ [Next]_vars => IInv'
<1> SUFFICES ASSUME IInv, [Next]_vars PROVE IInv'
  OBVIOUS
<1>1. CASE Next
  BY <1>1, StartsKeepIInv, StopsKeepIInv, NotesKeepIInv, StartStepsKeepIInv, MainKeepsIInv,
     OthersKeepIInv
  DEF Next
<1>2. CASE UNCHANGED vars
  BY <1>2 DEF vars, setting, text, java, IInv, FlagsOK, NumbersOK, QueuesOK, StartOK,
     SilenceShowsNothing, WritesOnlyWhenWanted, SessionIsWanted, CreateIsAwaited
<1> QED BY <1>1, <1>2

\* The inductive invariant holds in every behaviour of the client and Android.
THEOREM Invariance == Spec => []IInv
  BY InitHolds, StepKeepsIInv, PTL DEF Spec

\* The variables keep their types, and createPipeAndStart is called with no
\* session and no pipe.
THEOREM TypeCorrect == Spec => []TypeOK
<1>1. IInv => TypeOK BY PartsAreTypeOK DEF IInv
<1> QED BY <1>1, Invariance, PTL

\* No late result is shown once nobody is received any more.
THEOREM SilentIsEmpty == Spec => []SilenceShowsNothing
<1>1. IInv => SilenceShowsNothing BY DEF IInv
<1> QED BY <1>1, Invariance, PTL

\* The engine writes received speech into a pipe only in a talk spurt, with the
\* setting on, for a session the client has.
THEOREM PipeIsWanted == Spec => []WritesOnlyWhenWanted
<1>1. IInv => WritesOnlyWhenWanted BY DEF IInv
<1> QED BY <1>1, Invariance, PTL
=============================================================================
