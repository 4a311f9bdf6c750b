--------------------------- MODULE Transcription ---------------------------
(* Live transcription of received speech.  The client, on the Qt thread,      *)
(* starts a session for a talk spurt and blocks until Android's main thread   *)
(* has made a recogniser and a pipe; the engine writes what it decodes into   *)
(* the pipe.  The recogniser's results and the end of a session come back     *)
(* through the Qt thread's queue, where a notice does not say of which        *)
(* session it is.  A session is its generation, and so is a text it heard.    *)
EXTENDS Naturals, Sequences

CONSTANTS
  MaxSessions, \* bound: recognisers made
  MaxEvents,   \* bound: talk spurts, pauses and switches of the setting
  MaxNotes     \* bound: notices queued when a recogniser adds a result

ASSUME TranscriptionAssumption ==
  MaxSessions \in Nat \ {0} /\ MaxEvents \in Nat /\ MaxNotes \in Nat \ {0}

VARIABLES
  granted,    \* RECORD_AUDIO
  asked,      \* m_transcriptionPermissionEnablePending
  available,  \* m_transcriptionAvailable
  enabled,    \* m_liveTranscriptionEnabled
  receiving,  \* m_isReceivingAudio
  active,     \* m_transcriptionSessionActive
  suspended,  \* m_transcriptionSuspendedByPause
  pending, committed, \* the text shown, by the sessions that heard it
  starting,   \* where createPipeAndStart has got, "no" outside of it
  fd,         \* the session into whose pipe the engine writes
  main,       \* the main thread's queue
  session,    \* the session of Java's recognizer and readPipe, 0: null
  made,       \* the last generation that had a recogniser
  notes,      \* the Qt thread's queue
  events

setting == <<granted, asked, available, enabled>>
text == <<pending, committed>>
java == <<main, session, made>>
vars == <<setting, receiving, active, suspended, text, starting, fd, java, notes, events>>

Init ==
  /\ granted \in BOOLEAN /\ asked = FALSE /\ available \in BOOLEAN /\ enabled = FALSE
  /\ receiving = FALSE /\ active = FALSE /\ suspended = FALSE
  /\ pending = 0 /\ committed = {}
  /\ starting = "no" /\ fd = 0
  /\ main = <<>> /\ session = 0 /\ made = 0
  /\ notes = <<>> /\ events = 0

Note(what, g) == [what |-> what, of |-> g]

-----------------------------------------------------------------------------
(* The Qt thread.  It handles nothing while it is blocked in a start. *)

Free == starting = "no"

\* startTranscriptionSession up to its blocking call, with the values the
\* caller has given to what it reads.
StartSession(en, rec, act) ==
  IF en /\ available /\ rec /\ ~act
  THEN /\ starting' = "query" /\ main' = Append(main, "query")
       /\ pending' = 0
  ELSE UNCHANGED <<starting, main, pending>>

StopKeepingPipe(clear) ==  \* mutant
  /\ active' = FALSE /\ UNCHANGED fd
  /\ main' = IF active THEN Append(main, "teardown") ELSE main
  /\ IF clear THEN pending' = 0 /\ committed' = {} ELSE UNCHANGED text

\* The engine closes its pipe before this returns; Java is told only of a
\* session the client had.
StopSession(clear) ==
  /\ active' = FALSE /\ fd' = 0
  /\ main' = IF active THEN Append(main, "teardown") ELSE main
  /\ IF clear THEN pending' = 0 /\ committed' = {} ELSE UNCHANGED text

Event == events < MaxEvents /\ events' = events + 1

SetReceivingAudio ==
  /\ Free /\ Event /\ ~receiving
  /\ receiving' = TRUE /\ suspended' = FALSE
  /\ StartSession(enabled, TRUE, active)
  /\ UNCHANGED <<setting, active, committed, fd, session, made, notes>>

\* The end of a talk spurt, of a session, or a repetition of it.
SetReceivingNothing ==
  /\ Free
  /\ receiving' = FALSE /\ suspended' = FALSE
  /\ StopSession(TRUE)
  /\ UNCHANGED <<setting, starting, session, made, notes, events>>

ActivityPaused ==
  /\ Free /\ active
  /\ suspended' = TRUE
  /\ StopSession(FALSE)
  /\ UNCHANGED <<setting, receiving, starting, session, made, notes, events>>

ActivityResumed ==
  /\ Free /\ Event
  /\ suspended' = FALSE
  /\ IF suspended THEN StartSession(enabled, receiving, active)
     ELSE UNCHANGED <<starting, main, pending>>
  /\ UNCHANGED <<setting, receiving, active, committed, fd, session, made, notes>>

\* setLiveTranscriptionEnabled(true) with the permission.
Enable ==
  /\ enabled' = TRUE
  /\ IF enabled THEN UNCHANGED <<starting, main, pending>>
     ELSE StartSession(TRUE, receiving, active)
  /\ UNCHANGED <<available, receiving, active, suspended, committed, fd, session, made,
                 notes>>

EnableTranscription ==
  /\ Free /\ Event /\ available
  /\ IF granted THEN Enable /\ UNCHANGED <<granted, asked>>
     ELSE /\ asked' = TRUE
          /\ UNCHANGED <<granted, available, enabled, receiving, active, suspended, text,
                         starting, fd, java, notes>>

\* The dialog may also be the one a press of push-to-talk asked for.
PermissionAnswered(yes) ==
  /\ Free /\ ~granted
  /\ granted' = yes /\ asked' = FALSE
  /\ IF yes /\ asked /\ available THEN Enable
     ELSE UNCHANGED <<available, enabled, receiving, active, suspended, text, starting, fd,
                      java, notes>>
  /\ UNCHANGED events

DisableTranscription ==
  /\ Free /\ (enabled \/ asked)
  /\ asked' = FALSE /\ enabled' = FALSE
  /\ IF enabled THEN suspended' = FALSE /\ StopSession(TRUE)
     ELSE UNCHANGED <<suspended, active, fd, main, text>>
  /\ UNCHANGED <<granted, available, receiving, starting, session, made, notes, events>>

\* refreshTranscriptionSupportState, on its timer while a model is downloaded.
RefreshSupport ==
  /\ Free /\ Event
  /\ available' = ~available
  /\ UNCHANGED <<granted, asked, enabled, receiving, active, suspended, text, starting, fd,
                 java, notes>>

PartialShownAlways(g) ==  \* mutant
  /\ pending' \in {g, 0}
  /\ UNCHANGED <<committed, active, fd, available, enabled>>

\* A partial text may be empty.
HandlePartial(g) ==
  /\ IF active THEN pending' \in {g, 0} ELSE UNCHANGED pending
  /\ UNCHANGED <<committed, active, fd, available, enabled>>

HandleFinal(g) ==
  /\ IF active THEN pending' = 0 /\ committed' = committed \union {g} ELSE UNCHANGED text
  /\ UNCHANGED <<active, fd, available, enabled>>

\* The session is forgotten first, so that stopTranscriptionSession leaves Java
\* alone.
HandleEnd ==
  /\ active' = FALSE /\ fd' = 0 /\ pending' = 0 /\ UNCHANGED committed

HandleNote ==
  /\ Free /\ notes # <<>> /\ notes' = Tail(notes)
  /\ LET n == Head(notes) IN
       \/ n.what = "partial" /\ HandlePartial(n.of)
       \/ n.what = "final" /\ HandleFinal(n.of)
       \/ n.what \in {"error", "stopped"} /\ HandleEnd /\ UNCHANGED <<available, enabled>>
       \/ /\ n.what = "language" /\ HandleEnd
          /\ enabled' = FALSE /\ available' \in BOOLEAN
  /\ UNCHANGED <<granted, asked, receiving, suspended, starting, java, events>>

-----------------------------------------------------------------------------
(* createPipeAndStart: the support check, answered by Android or given up     *)
(* after its timeout, then the recogniser, made on the main thread.           *)

StartFails ==
  /\ starting' = "no"
  /\ notes' \in {Append(notes, Note(w, 0)) : w \in {"error", "language"}}

SupportAnswered(ready) ==
  /\ starting = "asked"
  /\ IF ready THEN /\ starting' = "create" /\ main' = Append(main, "create")
                   /\ UNCHANGED notes
     ELSE StartFails /\ UNCHANGED main
  /\ UNCHANGED <<setting, receiving, active, suspended, text, fd, session, made, events>>

SupportTimesOut ==
  /\ starting \in {"query", "asked"} /\ StartFails
  /\ UNCHANGED <<setting, receiving, active, suspended, text, fd, java, events>>

\* A pipe that cannot be made non-blocking is closed at once.
SetTranscriptionPipeFd(g) == fd' \in {0, g}

\* The rest of startTranscriptionSession; the engine takes the pipe before the
\* Qt thread goes on.
StartReturns ==
  /\ starting \in {"created", "failed"} /\ starting' = "no"
  /\ IF starting = "created" THEN active' = TRUE /\ SetTranscriptionPipeFd(made)
     ELSE UNCHANGED <<active, fd>>
  /\ UNCHANGED <<setting, receiving, suspended, text, java, notes, events>>

-----------------------------------------------------------------------------
(* The main thread. *)

Teardown(told) ==
  /\ session' = 0
  /\ notes' = IF told /\ session # 0 THEN Append(notes, Note("stopped", session)) ELSE notes

\* createPipeAndStartOnMain; a listening that fails is torn down again.
CreatePipeAndStart ==
  \/ /\ made < MaxSessions /\ made' = made + 1
     /\ session' = made' /\ starting' = "created" /\ UNCHANGED notes
  \/ /\ session' = 0 /\ starting' = "failed" /\ UNCHANGED made
     /\ notes' = Append(notes, Note("error", 0))

\* A check that was given up is still carried out, for nobody.
IsLastQuery == \A i \in 2..Len(main) : main[i] # "query"

RunMain ==
  /\ main # <<>> /\ main' = Tail(main)
  /\ \/ /\ Head(main) = "teardown" /\ Teardown(TRUE) /\ UNCHANGED <<starting, made>>
     \/ /\ Head(main) = "query"
        /\ starting' = IF IsLastQuery /\ starting = "query" THEN "asked" ELSE starting
        /\ UNCHANGED <<session, made, notes>>
     \/ Head(main) = "create" /\ CreatePipeAndStart
  /\ UNCHANGED <<setting, receiving, active, suspended, text, fd, events>>

\* A result of an earlier generation is dropped.
Result(what) ==
  /\ session # 0 /\ Len(notes) < MaxNotes
  /\ notes' = Append(notes, Note(what, session))
  /\ UNCHANGED <<setting, receiving, active, suspended, text, starting, fd, java, events>>

EndOnlyTold ==  \* mutant
  /\ session # 0 /\ notes = <<>>
  /\ notes' = <<Note("stopped", session)>>
  /\ UNCHANGED <<setting, receiving, active, suspended, text, starting, fd, java, events>>

EndOfSegments ==
  /\ session # 0 /\ Teardown(TRUE)
  /\ UNCHANGED <<setting, receiving, active, suspended, text, starting, fd, main, made,
                 events>>

RecognitionError(what) ==
  /\ session # 0 /\ session' = 0
  /\ notes' = notes \o <<Note(what, session), Note("stopped", session)>>
  /\ UNCHANGED <<setting, receiving, active, suspended, text, starting, fd, main, made,
                 events>>

\* The engine meets the closed end of the pipe and closes its own.
PipeBreaks ==
  /\ fd # 0 /\ fd # session /\ fd' = 0
  /\ UNCHANGED <<setting, receiving, active, suspended, text, starting, java, notes, events>>

Next ==
  \/ SetReceivingAudio \/ SetReceivingNothing \/ ActivityPaused \/ ActivityResumed
  \/ EnableTranscription \/ DisableTranscription \/ RefreshSupport
  \/ (\E yes \in BOOLEAN : PermissionAnswered(yes) \/ SupportAnswered(yes))
  \/ SupportTimesOut \/ StartReturns \/ HandleNote
  \/ RunMain \/ (\E what \in {"partial", "final"} : Result(what))
  \/ EndOfSegments \/ (\E what \in {"error", "language"} : RecognitionError(what))
  \/ PipeBreaks

Spec == Init /\ [][Next]_vars

\* Nobody can write to the recogniser's pipe any more.
EndOfAudio == fd # session /\ starting # "created"

\* Both threads go on, the support check's timeout passes, and a recogniser
\* ends at the end of its audio.
Fairness ==
  /\ WF_vars(RunMain) /\ WF_vars(HandleNote)
  /\ WF_vars(SupportTimesOut) /\ WF_vars(StartReturns)
  /\ WF_vars(EndOfAudio /\ EndOfSegments)

FairSpec == Spec /\ Fairness

-----------------------------------------------------------------------------
(* Properties. *)

Generations == 0..MaxSessions

\* The variables keep their types; a session is started from none.
TypeOK ==
  /\ starting # "no" => ~active /\ fd = 0
  /\ {granted, asked, available, enabled, receiving, active, suspended} \subseteq BOOLEAN
  /\ {pending, fd, session, made} \subseteq Generations /\ committed \subseteq Generations
  /\ starting \in {"no", "query", "asked", "create", "created", "failed"}
  /\ main \in Seq({"teardown", "query", "create"})
  /\ notes \in Seq([what : {"partial", "final", "error", "language", "stopped"},
                    of : Generations])

\* What nobody is heard saying is not shown: late results of a recogniser that
\* has not ended yet do not bring back the text of a talk spurt that has.
SilenceShowsNothing == ~receiving => pending = 0 /\ committed = {}

\* Received speech leaves the engine only for a session the client knows of, in
\* a talk spurt, with the setting on, whatever ended the sessions before.
WritesOnlyWhenWanted == fd # 0 => active /\ receiving /\ enabled

\* Once nobody is heard any more the recogniser goes, also one the client has
\* forgotten without telling Java.
RecognizerEnds == <>[](~receiving) => <>[](session = 0)
=============================================================================
