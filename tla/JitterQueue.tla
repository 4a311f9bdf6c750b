---------------------------- MODULE JitterQueue ----------------------------
(***************************************************************************)
(* What the two audio threads may assume of their jitter buffer: it is a   *)
(* queue.  Samples are played in the order they were written, none twice;  *)
(* the only ones lost are the oldest half of a queue that is full, and all *)
(* of a queue that is emptied.                                             *)
(***************************************************************************)
EXTENDS Integers, Sequences

CONSTANTS Samples, Sizes

VARIABLES
  queue,      \* samples written and not played
  capacity,   \* the queue holds fewer than this
  output      \* what the last read played

Init == queue = <<>> /\ capacity \in Sizes /\ output = <<>>

\* A queue that would reach its capacity loses its oldest half.
Put ==
  /\ \E sample \in Samples :
       LET all == Append(queue, sample) IN
       queue' = IF Len(all) = capacity
                THEN SubSeq(all, capacity \div 2 + 1, capacity)
                ELSE all
  /\ UNCHANGED <<capacity, output>>

Play ==
  /\ \E n \in 0 .. Len(queue) :
       /\ output' = SubSeq(queue, 1, n)
       /\ queue' = SubSeq(queue, n + 1, Len(queue))
  /\ UNCHANGED capacity

Flush == queue' = <<>> /\ capacity' \in Sizes /\ UNCHANGED output

Next == Put \/ Play \/ Flush

Spec == Init /\ [][Next]_<<queue, capacity, output>>
=============================================================================
