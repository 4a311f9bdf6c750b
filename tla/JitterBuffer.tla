---------------------------- MODULE JitterBuffer ----------------------------
(***************************************************************************)
(* The jitter buffer between the engine thread, which writes the samples   *)
(* it decodes, and the playback thread: src/android/AudioJitterBuffer.cpp  *)
(* with the reading loop of AndroidAudioTrackOutput.cpp.                   *)
(*                                                                         *)
(* Every operation holds the buffer's mutex.  A write is one step per      *)
(* sample with the mutex held (writing > 0); the other operations are one  *)
(* step.  The playback thread asks what is ready, lets go of the mutex,    *)
(* and then reads as much: in between the buffer may change.               *)
(***************************************************************************)
EXTENDS Integers, Sequences

CONSTANTS
  Samples,   \* values of a sample, Silence among them
  Silence,
  Sizes,     \* sizes the ring may be given
  Prebufs,   \* amounts asked for by setPrebufSamples
  Frame,     \* most samples the playback thread reads at once
  MaxCount   \* bound: samples in one write

ASSUME SamplesAssumption == Silence \in Samples
\* setSize turns 0 into 1; a ring of one slot holds nothing and is never used.
ASSUME SizesAssumption == Sizes \subseteq Nat \ {0, 1} /\ Sizes # {}
ASSUME CountsAssumption ==
  Prebufs \subseteq Nat /\ Frame \in Nat \ {0} /\ MaxCount \in Nat \ {0}

VARIABLES
  size,          \* m_fifoSize
  fifo, head, tail,
  prebufSamples, \* m_prebufSamples
  prebuf,        \* m_prebuf: playback waits for prebufSamples
  lastWrite,     \* m_lastWriteTime: never, within 100 ms, or longer ago
  writing,       \* samples the write in progress still has to store
  asked,         \* samples the playback thread is about to read
  output         \* samples its last read returned

ring == <<size, fifo, head, tail>>
vars == <<ring, prebufSamples, prebuf, lastWrite, writing, asked, output>>

TypeOK ==
  /\ size \in Sizes
  /\ fifo \in [0 .. size - 1 -> Samples]
  /\ head \in 0 .. size - 1 /\ tail \in 0 .. size - 1
  /\ prebufSamples \in 0 .. size - 1
  /\ prebuf \in BOOLEAN
  /\ lastWrite \in {"never", "recent", "old"}
  /\ writing \in 0 .. MaxCount
  /\ asked \in 0 .. Frame
  /\ output \in Seq(Samples)

Empty(n) == [slot \in 0 .. n - 1 |-> Silence]

Init ==
  /\ size \in Sizes /\ fifo = Empty(size)
  /\ head = 0 /\ tail = 0
  /\ prebufSamples = 0 /\ prebuf = TRUE
  /\ lastWrite = "never"
  /\ writing = 0 /\ asked = 0 /\ output = <<>>

-----------------------------------------------------------------------------
Smaller(a, b) == IF a <= b THEN a ELSE b

\* i % m_fifoSize, for the sums below twice the size that the code forms
Wrap(i) == IF i >= size THEN i - size ELSE i

Available == Wrap(head + size - tail)

SamplesReady == IF prebuf /\ Available < prebufSamples THEN 0 ELSE Available

SetSizeUnclamped ==                                         \* mutant
  /\ writing = 0 /\ asked = 0
  /\ size' \in Sizes /\ fifo' = Empty(size')
  /\ head' = 0 /\ tail' = 0
  /\ prebuf' = (prebufSamples > 0)
  /\ lastWrite' = "never"
  /\ UNCHANGED <<prebufSamples, writing, asked, output>>

SetSize ==
  /\ writing = 0 /\ asked = 0
  /\ size' \in Sizes /\ fifo' = Empty(size')
  /\ head' = 0 /\ tail' = 0
  /\ prebufSamples' = Smaller(prebufSamples, size' - 1)
  /\ prebuf' = (prebufSamples' > 0)
  /\ lastWrite' = "never"
  /\ UNCHANGED <<writing, asked, output>>

SetPrebufSamplesOnly ==                                     \* mutant
  /\ writing = 0
  /\ \E wish \in Prebufs : prebufSamples' = Smaller(wish, size - 1)
  /\ prebuf' = IF Available = 0 THEN prebufSamples' > 0 ELSE prebuf
  /\ UNCHANGED <<ring, lastWrite, writing, asked, output>>

SetPrebufSamples ==
  /\ writing = 0
  /\ \E wish \in Prebufs : prebufSamples' = Smaller(wish, size - 1)
  /\ prebuf' = IF Available = 0
               THEN prebufSamples' > 0
               ELSE prebuf /\ Available < prebufSamples'
  /\ UNCHANGED <<ring, lastWrite, writing, asked, output>>

Clear ==
  /\ writing = 0
  /\ head' = 0 /\ tail' = 0
  /\ prebuf' = (prebufSamples > 0)
  /\ lastWrite' = "never"
  /\ UNCHANGED <<size, fifo, prebufSamples, writing, asked, output>>

BeginWrite ==
  /\ writing = 0
  /\ writing' \in 1 .. MaxCount
  /\ UNCHANGED <<ring, prebufSamples, prebuf, lastWrite, asked, output>>

AfterOverflowByOne == Wrap(tail + 1)                        \* mutant
AfterOverflowUnmoved == tail                                \* mutant
\* Where the tail goes when the head has caught up with it.
AfterOverflow == Wrap(tail + size \div 2)

\* One turn of the loop in writeSamples; after the last one the prebuffering ends
\* if it has its samples.
WriteSample ==
  /\ writing > 0
  /\ \E sample \in Samples : fifo' = [fifo EXCEPT ![head] = sample]
  /\ head' = Wrap(head + 1)
  /\ tail' = IF head' = tail THEN AfterOverflow ELSE tail
  /\ writing' = writing - 1
  /\ lastWrite' = IF writing = 1 THEN "recent" ELSE lastWrite
  /\ prebuf' = /\ prebuf
               /\ head' # tail
               /\ writing = 1 => Wrap(head' + size - tail') < prebufSamples
  /\ UNCHANGED <<size, prebufSamples, asked, output>>

\* readSamples: a buffer that runs empty shortly after a write prebuffers again.
ReadSamples(count) ==
  IF prebuf /\ Available < prebufSamples
  THEN output' = <<>> /\ UNCHANGED <<tail, prebuf>>
  ELSE LET n == Smaller(count, Available) IN
       /\ output' = [i \in 1 .. n |-> fifo[Wrap(tail + i - 1)]]
       /\ tail' = Wrap(tail + n)
       /\ prebuf' = (n = Available /\ prebufSamples > 0 /\ lastWrite = "recent")

\* One turn of the playback loop, in two holds of the mutex.
Ask ==
  /\ writing = 0 /\ asked = 0
  /\ asked' = Smaller(Frame, SamplesReady)
  /\ UNCHANGED <<ring, prebufSamples, prebuf, lastWrite, writing, output>>

Read ==
  /\ writing = 0 /\ asked > 0
  /\ ReadSamples(asked)
  /\ asked' = 0
  /\ UNCHANGED <<size, fifo, head, prebufSamples, lastWrite, writing>>

\* 100 ms pass without a write.
GapGrows ==
  /\ lastWrite = "recent"
  /\ lastWrite' = "old"
  /\ UNCHANGED <<ring, prebufSamples, prebuf, writing, asked, output>>

Next == \/ SetSize \/ SetPrebufSamples \/ Clear
        \/ BeginWrite \/ WriteSample
        \/ Ask \/ Read
        \/ GapGrows

Spec == Init /\ [][Next]_vars

\* A write goes on, and the playback thread, which polls every 20 ms, gets the
\* mutex between writes some time.
Fairness == WF_vars(WriteSample) /\ SF_vars(Ask) /\ SF_vars(Read)

FairSpec == Spec /\ Fairness

-----------------------------------------------------------------------------
(* Properties. *)

\* Between operations the buffer holds playback back only while samples are
\* missing, however the threshold, the ring and the samples got there.
HoldsBackForReason ==
  writing = 0 /\ prebuf => Available < prebufSamples \/ prebufSamples = 0

\* The ring implements the queue: nothing is played twice, out of order or from a
\* slot that was given up, also by a read sized before the buffer changed.
Queued == [i \in 1 .. Available |-> fifo[Wrap(tail + i - 1)]]

Queue == INSTANCE JitterQueue WITH queue <- Queued, capacity <- size

KeepsOrder == Queue!Spec

\* As long as samples keep coming and nobody empties the buffer, the playback
\* thread finds some to play again and again: no threshold, overflow or underrun
\* silences it for good.
SpeechIsHeard ==
  <>[](lastWrite # "never") /\ []<>(writing > 0) => []<>(asked > 0)
=============================================================================
