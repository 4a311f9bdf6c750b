---------------------------- MODULE KeyLearning ----------------------------
(* Hardware push-to-talk keys and the learning of one.  Key events and the    *)
(* learning mode's timeout run on Android's main thread; the user starts and  *)
(* cancels the mode from the Qt thread, which calls the same static fields    *)
(* without a lock.  Every result crosses to the client through Qt's queue.    *)
(* HardwarePtt joins these operations with the serial button's.               *)
EXTENDS Naturals, Sequences

CONSTANTS
  Keys,       \* keys a learning mode may capture
  Supported,  \* those of them that are push-to-talk keys without being learned
  NoKey,      \* no learned key
  MaxStarts,  \* bound: learning modes
  MaxEvents   \* bound: what else happens from outside, here and to the serial button

ASSUME KeyAssumption ==
  /\ Supported \subseteq Keys /\ NoKey \notin Keys
  /\ {MaxStarts, MaxEvents} \subseteq Nat

VARIABLES
  learning,   \* learningActive
  current,    \* timeoutRunnable, named by its learning mode; 0: null
  posted,     \* the timeouts that are posted
  passed,     \* what the main thread found learning mode active for
  cancelling, \* so did cancelLearning, on the Qt thread
  stored,     \* the learned key of HardwarePttSettingsStore
  poc,        \* its rugged profile: every learnable key is a push-to-talk key
  held,       \* the key that is down
  ptt,        \* the last push-to-talk action dispatched was a press
  events,     \* Qt's queue; what comes from the main thread is queued twice
  active,     \* m_hardwarePttLearningActive
  known,      \* m_learnedHardwarePttKeyCode
  starts, spent

mode == <<learning, current, posted>>
keypad == <<stored, held, ptt>>
client == <<events, active, known>>
counters == <<starts, spent>>
keyVars == <<mode, passed, cancelling, poc, keypad, client, counters>>

Nothing == [what |-> "nothing", key |-> NoKey]
Results == {"captured", "timeout", "cancelled"}

KeyInit ==
  /\ learning = FALSE /\ current = 0 /\ posted = {}
  /\ passed = Nothing /\ cancelling = FALSE
  /\ stored = NoKey /\ poc = FALSE /\ held = NoKey /\ ptt = FALSE
  /\ events = <<>> /\ active = FALSE /\ known = NoKey
  /\ starts = 0 /\ spent = 0

Spend == spent < MaxEvents /\ spent' = spent + 1

Note(what, key, hops) == [what |-> what, key |-> key, hops |-> hops]

-----------------------------------------------------------------------------
(* The main thread. *)

ShouldHandleKeyEvent(k) == k \in Supported \/ k = stored \/ poc

\* dispatchKeyEvent, or a media button's broadcast, which learns nothing.
Dispatch(k, down, viaActivity) ==
  /\ ptt' = IF ShouldHandleKeyEvent(k) THEN down ELSE ptt
  /\ IF ShouldHandleKeyEvent(k) /\ down /\ viaActivity /\ stored # k
     THEN stored' = k /\ events' = Append(events, Note("detected", k, 2))
     ELSE UNCHANGED <<stored, events>>

\* A held key repeats its event.
KeyDown(k, viaActivity) ==
  /\ passed = Nothing /\ held \in {k, NoKey}
  /\ Spend
  /\ held' = k
  /\ IF learning
     THEN /\ passed' = [what |-> "captured", key |-> k]
          /\ UNCHANGED <<stored, ptt, events>>
     ELSE Dispatch(k, TRUE, viaActivity) /\ UNCHANGED passed
  /\ UNCHANGED <<mode, cancelling, poc, active, known, starts>>

\* The learning mode swallows a key's release.
KeyUp(k, viaActivity) ==
  /\ passed = Nothing /\ held = k /\ held' = NoKey
  /\ IF learning THEN UNCHANGED <<stored, ptt, events>>
     ELSE Dispatch(k, FALSE, viaActivity)
  /\ UNCHANGED <<mode, passed, cancelling, poc, active, known, counters>>

ClearTimeout == posted' = posted \ {current} /\ current' = 0

\* The rest of tryConsumeCandidateKey.
Capture ==
  /\ passed.what = "captured" /\ passed' = Nothing
  /\ ClearTimeout /\ learning' = FALSE
  /\ stored' = passed.key
  /\ events' = Append(events, Note("captured", passed.key, 2))
  /\ UNCHANGED <<cancelling, poc, held, ptt, active, known, counters>>

TimeoutFires(s) ==
  /\ passed = Nothing /\ s \in posted /\ posted' = posted \ {s}
  /\ passed' = IF learning THEN [what |-> "timeout", key |-> NoKey] ELSE Nothing
  /\ UNCHANGED <<learning, current, cancelling, poc, keypad, client, counters>>

TimeoutUntold ==  \* mutant
  /\ passed.what = "timeout" /\ passed' = Nothing
  /\ learning' = FALSE /\ current' = 0
  /\ UNCHANGED <<posted, cancelling, poc, keypad, client, counters>>

\* The rest of the timeout.
Timeout ==
  /\ passed.what = "timeout" /\ passed' = Nothing
  /\ learning' = FALSE /\ current' = 0
  /\ events' = Append(events, Note("timeout", NoKey, 2))
  /\ UNCHANGED <<posted, cancelling, poc, keypad, active, known, counters>>

-----------------------------------------------------------------------------
(* The Qt thread. *)

\* A mode that is still active on the main thread refuses another.
StartHardwarePttLearning ==
  /\ ~cancelling /\ ~active /\ ~learning
  /\ starts < MaxStarts /\ starts' = starts + 1
  /\ learning' = TRUE /\ current' = starts' /\ posted' = posted \union {starts'}
  /\ active' = TRUE
  /\ UNCHANGED <<passed, cancelling, poc, keypad, events, known, spent>>

CancelHardwarePttLearning ==
  /\ ~cancelling /\ active /\ learning
  /\ cancelling' = TRUE
  /\ UNCHANGED <<mode, passed, poc, keypad, client, counters>>

\* The rest of cancelLearning.
Cancel ==
  /\ cancelling /\ cancelling' = FALSE
  /\ ClearTimeout /\ learning' = FALSE
  /\ events' = Append(events, Note("cancelled", NoKey, 1))
  /\ UNCHANGED <<passed, poc, keypad, active, known, counters>>

HandleEvent ==
  /\ ~cancelling /\ events # <<>>
  /\ LET e == Head(events) IN
       IF e.hops = 2
       THEN /\ events' = Append(Tail(events), Note(e.what, e.key, 1))
            /\ UNCHANGED <<active, known>>
       ELSE /\ events' = Tail(events)
            /\ active' = (active /\ e.what \notin Results)
            /\ known' = IF e.key # NoKey THEN e.key ELSE known
  /\ UNCHANGED <<mode, passed, cancelling, poc, keypad, counters>>

\* The field and the clear button wait for the end of a learning mode.
SetLearnedHardwarePttKeyCode(k) ==
  /\ ~cancelling /\ ~active /\ known # k
  /\ Spend
  /\ known' = k /\ stored' = k
  /\ UNCHANGED <<mode, passed, cancelling, poc, held, ptt, events, active, starts>>

SetHardwarePttEnabled ==
  /\ ~cancelling /\ Spend
  /\ poc' = ~poc
  /\ UNCHANGED <<mode, passed, cancelling, keypad, client, starts>>
=============================================================================
