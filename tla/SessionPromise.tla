--------------------------- MODULE SessionPromise ---------------------------
(***************************************************************************)
(* What the rest of the client may assume of its reflector session: it is  *)
(* opened, greeted and used in that order and can be lost in any phase.    *)
(* The Android service keeps it, which is to monitor it and to call for    *)
(* reconnects, but does what it is asked late: an open session is kept, or *)
(* it will be, until somebody abandons it, and an abandoned one may be     *)
(* kept again by a request that was under way.                             *)
(***************************************************************************)
VARIABLES
  phase,   \* "Down", "Opening", "Greeting" or "Up"
  kept,    \* the service keeps the session
  asked,   \* requests to the service are under way
  due      \* whether it keeps the session once they have been handled

care == <<kept, asked, due>>

Init == phase = "Down" /\ kept = FALSE /\ due = FALSE /\ asked \in BOOLEAN

Ask == asked' = TRUE /\ due' = TRUE /\ UNCHANGED kept

Open == phase = "Down" /\ phase' = "Opening" /\ Ask

\* The socket of the last session is still in use: the attempt fails at once.
OpenInVain == phase = "Down" /\ UNCHANGED phase /\ Ask

Greet == phase = "Opening" /\ phase' = "Greeting" /\ UNCHANGED care

GoUp == phase = "Greeting" /\ phase' = "Up" /\ UNCHANGED care

\* A loss never ends the service's care.
Lose == phase # "Down" /\ phase' = "Down" /\ UNCHANGED care

\* Only a request still under way outlives it.
Abandon ==
  /\ phase # "Down" /\ phase' = "Down"
  /\ kept' = FALSE
  /\ asked => asked'
  /\ due' => asked

\* The service handles a request; after the last one it does what is due.
Serve ==
  /\ asked
  /\ ~asked' => kept' = due
  /\ UNCHANGED <<phase, due>>

Next == Open \/ OpenInVain \/ Greet \/ GoUp \/ Lose \/ Abandon \/ Serve

Spec == Init /\ [][Next]_<<phase, care>>
=============================================================================
