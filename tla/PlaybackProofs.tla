--------------------------- MODULE PlaybackProofs ----------------------------
(* Theorems about received audio on its way to the speaker: JitterBuffer, for *)
(* every set of sizes, thresholds and samples, and AudioPlayback, for every   *)
(* set of talkgroups, any sequence space and any bounds.                      *)
EXTENDS JitterBuffer, AudioPlayback, SequenceTheorems, TLAPS

-----------------------------------------------------------------------------
(* The ring's arithmetic. *)

\* A ring always has a free slot.
LEMMA AvailableInRange ==
  ASSUME TypeOK
  PROVE  Available \in 0 .. size - 1
BY SizesAssumption DEF TypeOK, Available, Wrap

\* The slot of the i-th sample of the queue.
LEMMA SlotInRange ==
  ASSUME TypeOK, NEW i \in 1 .. Available
  PROVE  Wrap(tail + i - 1) \in 0 .. size - 1
BY SizesAssumption, AvailableInRange DEF TypeOK, Wrap

-----------------------------------------------------------------------------
(* Type correctness and the prebuffer flag. *)

LEMMA InitTypeOK == Init => TypeOK
BY SizesAssumption, SamplesAssumption, CountsAssumption DEF Init, TypeOK, Empty

LEMMA StepKeepsTypeOK ==
  ASSUME TypeOK, [Next]_vars
  PROVE  TypeOK'
<1> USE SizesAssumption, SamplesAssumption, CountsAssumption
<1>1. CASE SetSize
  BY <1>1 DEF SetSize, TypeOK, Empty, Smaller
<1>2. CASE SetPrebufSamples
  BY <1>2 DEF SetPrebufSamples, TypeOK, Smaller, ring
<1>3. CASE Clear
  BY <1>3 DEF Clear, TypeOK
<1>4. CASE BeginWrite
  BY <1>4 DEF BeginWrite, TypeOK, ring
<1>5. CASE WriteSample
  <2>1. fifo' \in [0 .. size - 1 -> Samples] /\ size' = size
    BY <1>5 DEF WriteSample, TypeOK
  <2>2. head' \in 0 .. size - 1 /\ tail' \in 0 .. size - 1
    BY <1>5 DEF WriteSample, AfterOverflow, TypeOK, Wrap
  <2>3. prebuf' \in BOOLEAN
    BY <1>5 DEF WriteSample, TypeOK
  <2>4. writing' \in 0 .. MaxCount
    BY <1>5 DEF WriteSample, TypeOK
  <2>5. /\ lastWrite' \in {"never", "recent", "old"} /\ asked' \in 0 .. Frame
        /\ prebufSamples' = prebufSamples /\ output' = output
    BY <1>5 DEF WriteSample, TypeOK
  <2> QED BY <2>1, <2>2, <2>3, <2>4, <2>5 DEF TypeOK
<1>6. CASE Ask
  BY <1>6, AvailableInRange DEF Ask, TypeOK, Smaller, SamplesReady, ring
<1>7. CASE Read
  <2>1. UNCHANGED <<size, fifo, head, prebufSamples, lastWrite, writing>> /\ asked' = 0
    BY <1>7 DEF Read
  <2>2. CASE prebuf /\ Available < prebufSamples
    BY <1>7, <2>1, <2>2 DEF Read, ReadSamples, TypeOK
  <2>3. CASE ~(prebuf /\ Available < prebufSamples)
    <3> DEFINE n == Smaller(asked, Available)
    <3>1. n \in 0 .. Available
      BY AvailableInRange DEF TypeOK, Smaller
    <3>2. /\ output' = [i \in 1 .. n |-> fifo[Wrap(tail + i - 1)]]
          /\ tail' = Wrap(tail + n)
          /\ prebuf' = (n = Available /\ prebufSamples > 0 /\ lastWrite = "recent")
      BY <1>7, <2>3 DEF Read, ReadSamples
    <3> HIDE DEF n
    <3>3. \A i \in 1 .. n : fifo[Wrap(tail + i - 1)] \in Samples
      <4> TAKE i \in 1 .. n
      <4>1. i \in 1 .. Available
        BY <3>1, AvailableInRange
      <4>2. Wrap(tail + i - 1) \in 0 .. size - 1
        BY <4>1, SlotInRange
      <4> QED BY <4>2 DEF TypeOK
    <3>4. output' \in Seq(Samples)
      BY <3>1, <3>2, <3>3, AvailableInRange
    <3>5. tail' \in 0 .. size - 1
      BY <3>1, <3>2, AvailableInRange DEF TypeOK, Wrap
    <3>6. prebuf' \in BOOLEAN
      BY <3>2
    <3> QED BY <2>1, <3>4, <3>5, <3>6 DEF TypeOK
  <2> QED BY <2>2, <2>3
<1>8. CASE GapGrows
  BY <1>8 DEF GapGrows, TypeOK, ring
<1>9. CASE UNCHANGED vars
  BY <1>9 DEF vars, ring, TypeOK
<1> QED BY <1>1, <1>2, <1>3, <1>4, <1>5, <1>6, <1>7, <1>8, <1>9 DEF Next

\* The indices stay in the ring and the threshold below its size.
THEOREM TypeCorrect == Spec => []TypeOK
<1>1. Init => TypeOK
  BY InitTypeOK
<1>2. TypeOK /\ [Next]_vars => TypeOK'
  BY StepKeepsTypeOK
<1> QED BY <1>1, <1>2, PTL DEF Spec

LEMMA StepKeepsHoldsBack ==
  ASSUME TypeOK, HoldsBackForReason, [Next]_vars
  PROVE  HoldsBackForReason'
<1> USE SizesAssumption
<1>1. CASE SetSize
  <2>1. Available' = 0
    <3>1. TypeOK'
      BY StepKeepsTypeOK
    <3> QED BY <1>1, <3>1 DEF SetSize, TypeOK, Available, Wrap
  <2>2. prebufSamples' \in Int /\ prebuf' = (prebufSamples' > 0)
    BY <1>1 DEF SetSize, TypeOK, Smaller
  <2> QED BY <2>1, <2>2 DEF HoldsBackForReason
<1>2. CASE SetPrebufSamples
  <2>1. Available' = Available
    BY <1>2 DEF SetPrebufSamples, Available, Wrap, ring
  <2> QED BY <1>2, <2>1, AvailableInRange, CountsAssumption
          DEF SetPrebufSamples, HoldsBackForReason, TypeOK, Smaller
<1>3. CASE Clear
  BY <1>3 DEF Clear, TypeOK, HoldsBackForReason, Available, Wrap
<1>4. CASE BeginWrite
  BY <1>4, CountsAssumption DEF BeginWrite, HoldsBackForReason
<1>5. CASE WriteSample
  <2>1. UNCHANGED <<size, prebufSamples>>
    BY <1>5 DEF WriteSample
  <2>2. writing' = 0 => writing = 1
    BY <1>5 DEF WriteSample, TypeOK
  <2>3. prebuf' => (writing = 1 => Wrap(head' + size - tail') < prebufSamples)
    BY <1>5 DEF WriteSample
  <2>4. Wrap(head' + size - tail') = Available'
    BY <2>1 DEF Available, Wrap
  <2> SUFFICES ASSUME writing' = 0, prebuf' PROVE Available' < prebufSamples'
    BY DEF HoldsBackForReason
  <2>5. Wrap(head' + size - tail') < prebufSamples
    BY <2>2, <2>3
  <2> QED BY <2>1, <2>4, <2>5
<1>6. CASE Ask
  BY <1>6 DEF Ask, HoldsBackForReason, Available, Wrap, ring
<1>7. CASE Read
  <2>1. UNCHANGED <<size, fifo, head, prebufSamples, lastWrite, writing>>
    BY <1>7 DEF Read
  <2>2. CASE prebuf /\ Available < prebufSamples
    BY <1>7, <2>1, <2>2 DEF Read, ReadSamples, HoldsBackForReason, Available, Wrap
  <2>3. CASE ~(prebuf /\ Available < prebufSamples)
    <3>1. /\ tail' = Wrap(tail + Smaller(asked, Available))
          /\ prebuf' => Smaller(asked, Available) = Available /\ prebufSamples > 0
      BY <1>7, <2>3 DEF Read, ReadSamples
    <3>2. SUFFICES ASSUME prebuf' PROVE Available' = 0
      BY <2>1, <3>1 DEF HoldsBackForReason, TypeOK
    <3>3. tail' = Wrap(tail + Available)
      BY <3>1, <3>2
    <3>4. tail' = head
      BY <3>3 DEF TypeOK, Available, Wrap
    <3> QED BY <2>1, <3>4 DEF TypeOK, Available, Wrap
  <2> QED BY <2>2, <2>3
<1>8. CASE GapGrows
  BY <1>8 DEF GapGrows, HoldsBackForReason, Available, Wrap, ring
<1>9. CASE UNCHANGED vars
  BY <1>9 DEF vars, ring, HoldsBackForReason, Available, Wrap
<1> QED BY <1>1, <1>2, <1>3, <1>4, <1>5, <1>6, <1>7, <1>8, <1>9 DEF Next

\* Between operations playback is held back only for want of samples.
THEOREM HeldBackForReason == Spec => []HoldsBackForReason
<1>1. Init => TypeOK /\ HoldsBackForReason
  BY InitTypeOK DEF Init, HoldsBackForReason
<1>2. TypeOK /\ HoldsBackForReason /\ [Next]_vars => TypeOK' /\ HoldsBackForReason'
  BY StepKeepsTypeOK, StepKeepsHoldsBack
<1> QED BY <1>1, <1>2, PTL DEF Spec

-----------------------------------------------------------------------------
(* The ring implements the queue. *)

LEMMA QueuedFacts ==
  ASSUME TypeOK
  PROVE  /\ Queued \in Seq(Samples)
         /\ Len(Queued) = Available
         /\ \A i \in 1 .. Available : Queued[i] = fifo[Wrap(tail + i - 1)]
<1>1. \A i \in 1 .. Available : fifo[Wrap(tail + i - 1)] \in Samples
  <2> TAKE i \in 1 .. Available
  <2> QED BY SlotInRange DEF TypeOK
<1>2. Available \in Nat
  BY AvailableInRange DEF TypeOK
<1> QED BY <1>1, <1>2 DEF Queued

\* When a sequence is the part of another after its first k members.
LEMMA IsSubSeq ==
  ASSUME NEW S, NEW s \in Seq(S), NEW t \in Seq(S), NEW k \in Nat, NEW n \in Nat,
         k + n <= Len(s), Len(t) = n, \A i \in 1 .. n : t[i] = s[k + i]
  PROVE  t = SubSeq(s, k + 1, k + n)
<1> DEFINE part == SubSeq(s, k + 1, k + n)
<1>1. \A i \in k + 1 .. k + n : s[i] \in S
  <2> TAKE i \in k + 1 .. k + n
  <2>1. i \in 1 .. Len(s)
    BY LenProperties
  <2> QED BY <2>1, ElementOfSeq
<1>2. /\ part \in Seq(S)
      /\ Len(part) = IF k + 1 <= k + n THEN k + n - (k + 1) + 1 ELSE 0
      /\ \A i \in 1 .. k + n - (k + 1) + 1 : part[i] = s[k + 1 + i - 1]
  BY <1>1, SubSeqProperties
<1> HIDE DEF part
<1>3. Len(t) = Len(part)
  BY <1>2
<1>4. \A i \in 1 .. Len(t) : t[i] = part[i]
  <2> TAKE i \in 1 .. Len(t)
  <2>1. i \in 1 .. n /\ i \in 1 .. k + n - (k + 1) + 1 /\ k + 1 + i - 1 = k + i
    OBVIOUS
  <2> QED BY <1>2, <2>1
<1>5. t = part
  BY <1>2, <1>3, <1>4, SeqEqual
<1> QED BY <1>5 DEF part

\* What the queue was is what it is, if the ring has not changed.
LEMMA SameRing ==
  ASSUME UNCHANGED ring
  PROVE  Queued' = Queued
BY DEF Queued, Available, Wrap, ring

LEMMA WriteSampleIsPut ==
  ASSUME TypeOK, TypeOK', WriteSample
  PROVE  Queue!Put
<1> USE SizesAssumption
<1>1. PICK sample \in Samples : fifo' = [fifo EXCEPT ![head] = sample]
  BY DEF WriteSample
<1>2. UNCHANGED <<size, output>> /\ head' = Wrap(head + 1)
  BY DEF WriteSample
<1> DEFINE all == Append(Queued, sample)
<1>3. Available \in 0 .. size - 1 /\ size \in Nat
  BY AvailableInRange DEF TypeOK
<1>4. /\ Len(all) = Available + 1 /\ all \in Seq(Samples)
      /\ \A j \in 1 .. Available : all[j] = Queued[j]
      /\ all[Available + 1] = sample
  BY <1>1, <1>3, QueuedFacts
<1>5. \A j \in 1 .. Available + 1 : all[j] = fifo'[Wrap(tail + j - 1)]
  <2> TAKE j \in 1 .. Available + 1
  <2>1. CASE j = Available + 1
    <3>1. Wrap(tail + j - 1) = head
      BY <2>1 DEF TypeOK, Available, Wrap
    <3> QED BY <1>1, <1>4, <2>1, <3>1 DEF TypeOK
  <2>2. CASE j # Available + 1
    <3>1. j \in 1 .. Available
      BY <1>3, <2>2
    <3>2. Wrap(tail + j - 1) \in 0 .. size - 1 /\ Wrap(tail + j - 1) # head
      BY <3>1, SlotInRange DEF TypeOK, Available, Wrap
    <3>3. all[j] = fifo[Wrap(tail + j - 1)]
      BY <1>4, <3>1, QueuedFacts
    <3> QED BY <1>1, <3>2, <3>3 DEF TypeOK
  <2> QED BY <2>1, <2>2
<1> HIDE DEF all
<1>6. CASE head' # tail
  <2>1. tail' = tail /\ Available' = Available + 1
    BY <1>2, <1>6 DEF WriteSample, TypeOK, Available, Wrap
  <2>2. Queued' = [i \in 1 .. Available + 1 |-> fifo'[Wrap(tail + i - 1)]]
    BY <1>2, <2>1 DEF Queued, Wrap
  <2>3. Queued' = all
    <3>1. all = [i \in 1 .. Available + 1 |-> all[i]]
      BY <1>3, <1>4
    <3> QED BY <1>5, <2>2, <3>1
  <2>4. Available + 1 # size
    BY <1>2, <1>6 DEF TypeOK, Available, Wrap
  <2> QED BY <1>1, <1>2, <1>4, <2>3, <2>4 DEF Queue!Put, all
<1>7. CASE head' = tail
  <2>1. Available + 1 = size
    BY <1>2, <1>7 DEF TypeOK, Available, Wrap
  <2> DEFINE half == size \div 2
  <2>2. half \in 1 .. size - 1 /\ size - half \in Nat
    BY <1>3 DEF TypeOK
  <2>3. tail' = Wrap(tail + half)
    BY <1>7 DEF WriteSample, AfterOverflow
  <2> HIDE DEF half
  <2>4. Available' = size - half
    BY <1>2, <1>7, <2>2, <2>3 DEF TypeOK, Available, Wrap
  <2>5. Queued' = [i \in 1 .. size - half |-> fifo'[Wrap(tail' + i - 1)]]
    BY <1>2, <2>4 DEF Queued, Wrap
  <2>6. \A i \in 1 .. size - half : Wrap(tail' + i - 1) = Wrap(tail + half + i - 1)
    BY <1>3, <2>2, <2>3 DEF TypeOK, Wrap
  <2>7. \A i \in 1 .. size - half : fifo'[Wrap(tail' + i - 1)] = all[half + i]
    <3> TAKE i \in 1 .. size - half
    <3>1. half + i \in 1 .. Available + 1 /\ tail + (half + i) - 1 = tail + half + i - 1
      BY <1>3, <2>1, <2>2 DEF TypeOK
    <3> QED BY <1>5, <2>6, <3>1
  <2>8. Queued' = SubSeq(all, half + 1, size)
    <3>1. /\ Queued' \in Seq(Samples) /\ Len(Queued') = size - half
          /\ \A i \in 1 .. size - half : Queued'[i] = all[half + i]
      <4>1. \A i \in 1 .. size - half : all[half + i] \in Samples
        <5> TAKE i \in 1 .. size - half
        <5>1. half + i \in 1 .. Len(all)
          BY <1>3, <1>4, <2>1, <2>2
        <5> QED BY <1>4, <5>1, ElementOfSeq
      <4> QED BY <2>2, <2>5, <2>7, <4>1
    <3>2. half \in Nat /\ half + (size - half) = size /\ size <= Len(all)
      BY <1>3, <1>4, <2>1, <2>2
    <3>3. Queued' = SubSeq(all, half + 1, half + (size - half))
      <4>1. ASSUME NEW s \in Seq(Samples), NEW t \in Seq(Samples), NEW k \in Nat, NEW n \in Nat,
                   k + n <= Len(s), Len(t) = n, \A i \in 1 .. n : t[i] = s[k + i]
            PROVE  t = SubSeq(s, k + 1, k + n)
        BY <4>1, IsSubSeq
      <4>2. all \in Seq(Samples) /\ half + (size - half) <= Len(all)
        BY <1>4, <3>2
      <4> HIDE DEF Queued
      <4> QED BY <2>2, <3>1, <3>2, <4>1, <4>2
    <3> QED BY <3>2, <3>3
  <2> QED BY <1>1, <1>2, <1>4, <2>1, <2>8 DEF Queue!Put, all, half
<1> QED BY <1>6, <1>7

LEMMA ReadIsPlay ==
  ASSUME TypeOK, Read
  PROVE  [Queue!Next]_<<Queued, size, output>>
<1> USE SizesAssumption, CountsAssumption
<1>1. UNCHANGED <<size, fifo, head>>
  BY DEF Read
<1>2. Available \in 0 .. size - 1
  BY AvailableInRange
<1>3. CASE prebuf /\ Available < prebufSamples
  <2>1. UNCHANGED <<tail, size, fifo, head>> /\ output' = <<>>
    BY <1>1, <1>3 DEF Read, ReadSamples
  <2>2. Queued' = Queued
    BY <2>1 DEF Queued, Available, Wrap
  <2>3. output' = SubSeq(Queued, 1, 0) /\ Queued' = SubSeq(Queued, 0 + 1, Len(Queued))
    BY <1>2, <2>1, <2>2, QueuedFacts
  <2> QED BY <1>1, <1>2, <2>3, QueuedFacts DEF Queue!Next, Queue!Play
<1>4. CASE ~(prebuf /\ Available < prebufSamples)
  <2> DEFINE n == Smaller(asked, Available)
  <2>1. n \in 0 .. Available
    BY <1>2 DEF TypeOK, Smaller
  <2>2. /\ output' = [i \in 1 .. n |-> fifo[Wrap(tail + i - 1)]]
        /\ tail' = Wrap(tail + n)
    BY <1>4 DEF Read, ReadSamples
  <2> HIDE DEF n
  <2>3. output' = SubSeq(Queued, 1, n)
    BY <1>2, <2>1, <2>2, QueuedFacts
  <2>4. Available' = Available - n
    BY <1>1, <1>2, <2>1, <2>2 DEF TypeOK, Available, Wrap
  <2>5. Queued' = [i \in 1 .. Available - n |-> fifo[Wrap(tail' + i - 1)]]
    BY <1>1, <2>4 DEF Queued, Wrap
  <2>6. \A i \in 1 .. Available - n : fifo[Wrap(tail' + i - 1)] = Queued[n + i]
    <3> TAKE i \in 1 .. Available - n
    <3>1. Wrap(tail' + i - 1) = Wrap(tail + (n + i) - 1)
      BY <1>2, <2>1, <2>2 DEF TypeOK, Wrap
    <3>2. n + i \in 1 .. Available
      BY <1>2, <2>1
    <3> QED BY <3>1, <3>2, QueuedFacts
  <2>7. Queued' = SubSeq(Queued, n + 1, Len(Queued))
    <3>1. /\ Queued' \in Seq(Samples) /\ Len(Queued') = Available - n
          /\ \A i \in 1 .. Available - n : Queued'[i] = Queued[n + i]
      <4>1. \A i \in 1 .. Available - n : Queued[n + i] \in Samples
        <5> TAKE i \in 1 .. Available - n
        <5>1. n + i \in 1 .. Len(Queued)
          BY <1>2, <2>1, QueuedFacts
        <5> QED BY <5>1, QueuedFacts, ElementOfSeq
      <4>2. Available - n \in Nat
        BY <1>2, <2>1
      <4> QED BY <2>5, <2>6, <4>1, <4>2
    <3>2. n \in Nat /\ Available - n \in Nat /\ n + (Available - n) = Len(Queued)
      BY <1>2, <2>1, QueuedFacts
    <3>3. Queued' = SubSeq(Queued, n + 1, n + (Available - n))
      BY <3>1, <3>2, QueuedFacts, IsSubSeq
    <3> QED BY <3>2, <3>3
  <2> QED BY <1>1, <1>2, <2>1, <2>3, <2>7, QueuedFacts DEF Queue!Next, Queue!Play
<1> QED BY <1>3, <1>4

LEMMA StepRefines ==
  ASSUME TypeOK, TypeOK', [Next]_vars
  PROVE  [Queue!Next]_<<Queued, size, output>>
<1> USE SizesAssumption
<1>1. CASE SetSize
  <2>1. Available' = 0
    BY <1>1 DEF SetSize, TypeOK, Available, Wrap
  <2>2. Queued' = <<>>
    BY <2>1 DEF Queued
  <2> QED BY <1>1, <2>2 DEF SetSize, Queue!Next, Queue!Flush
<1>2. CASE Clear
  <2>1. Available' = 0
    BY <1>2 DEF Clear, TypeOK, Available, Wrap
  <2>2. Queued' = <<>>
    BY <2>1 DEF Queued
  <2> QED BY <1>2, <2>2 DEF Clear, TypeOK, Queue!Next, Queue!Flush
<1>3. CASE WriteSample
  BY <1>3, WriteSampleIsPut DEF Queue!Next
<1>4. CASE Read
  BY <1>4, ReadIsPlay
<1>5. CASE SetPrebufSamples \/ BeginWrite \/ Ask \/ GapGrows \/ UNCHANGED vars
  BY <1>5, SameRing DEF SetPrebufSamples, BeginWrite, Ask, GapGrows, vars, ring
<1> QED BY <1>1, <1>2, <1>3, <1>4, <1>5 DEF Next

\* The jitter buffer is a queue that forgets its oldest half when it is full.
THEOREM ImplementsQueue == Spec => KeepsOrder
<1>1. Init => Queue!Init
  <2> SUFFICES ASSUME Init PROVE Queue!Init
    OBVIOUS
  <2>1. Available = 0
    BY SizesAssumption DEF Init, Available, Wrap
  <2>2. Queued = <<>>
    BY <2>1 DEF Queued
  <2> QED BY <2>2 DEF Init, Queue!Init
<1>2. TypeOK /\ TypeOK' /\ [Next]_vars => [Queue!Next]_<<Queued, size, output>>
  BY StepRefines
<1> QED BY <1>1, <1>2, TypeCorrect, PTL DEF Spec, KeepsOrder, Queue!Spec

-----------------------------------------------------------------------------
(* Received audio: the numbers of the frames. *)

LEMMA Residue ==
  ASSUME NEW m \in Nat \ {0}, NEW q \in Int, NEW r \in 0 .. m - 1
  PROVE  (q * m + r) % m = r
<1> DEFINE a == q * m + r
           s == a % m
           p == a \div m
<1>1. a \in Int /\ p \in Int /\ s \in 0 .. m - 1 /\ a = p * m + s
  OBVIOUS
<1>2. (p - q) * m = r - s
  BY <1>1
<1>3. r - s < m /\ r - s > -m /\ p - q \in Int
  BY <1>1
<1> HIDE DEF a, p, s
<1>4. ASSUME NEW k \in Int, k * m < m, k * m > -m PROVE k = 0
  <2>1. k >= 1 => k * m >= m
    OBVIOUS
  <2>2. k <= -1 => k * m <= -m
    OBVIOUS
  <2> QED BY <1>4, <2>1, <2>2
<1>5. p - q = 0
  BY <1>2, <1>3, <1>4
<1>6. s = r
  <2>1. p = q
    BY <1>1, <1>5
  <2>2. (p - q) * m = 0
    BY <1>5
  <2> QED BY <1>1, <1>2, <2>2
<1> QED BY <1>6 DEF s, a

\* A frame that one sent up to half the sequence space later overtook is behind it.
LEMMA Overtaken ==
  ASSUME NEW m \in Nat \ {0}, NEW n \in Nat, NEW f \in Nat, f < n, n - f < m \div 2
  PROVE  ((f % m) - ((n % m) + 1)) % m >= m \div 2
<1> DEFINE p == n \div m
           r == n % m
           d == n - f
<1>1. p \in Int /\ r \in 0 .. m - 1 /\ n = p * m + r
  OBVIOUS
<1>2. d \in Nat /\ d > 0 /\ f = n - d
  OBVIOUS
<1>3. m \div 2 \in Nat /\ 2 * (m \div 2) <= m
  OBVIOUS
<1>4. d < m \div 2
  OBVIOUS
<1> HIDE DEF p, r, d
<1>5. d + 1 <= m \div 2 /\ m - d - 1 >= m \div 2 /\ m - d - 1 \in 0 .. m - 1
  BY <1>2, <1>3, <1>4
<1>6. \A q \in Int, s \in 0 .. m - 1 : (q * m + s) % m = s
  BY Residue
<1>7. (f % m) - (r + 1) = m - d - 1 \/ (f % m) - (r + 1) = -1 * m + (m - d - 1)
  <2>1. CASE r >= d
    <3>1. r - d \in 0 .. m - 1 /\ f = p * m + (r - d)
      BY <1>1, <1>2, <2>1
    <3>2. f % m = r - d
      BY <1>1, <1>6, <3>1
    <3> QED BY <1>1, <1>2, <3>2
  <2>2. CASE r < d
    <3>1. r - d + m \in 0 .. m - 1 /\ p - 1 \in Int
      BY <1>1, <1>2, <1>5, <2>2
    <3>2. (p - 1) * m = p * m - m
      BY <1>1
    <3>3. f = (p - 1) * m + (r - d + m)
      BY <1>1, <1>2, <3>1, <3>2
    <3>4. f % m = r - d + m
      BY <1>6, <3>1, <3>3
    <3> QED BY <1>1, <1>2, <3>4
  <2> QED BY <1>1, <1>2, <2>1, <2>2
<1>8. (m - d - 1) % m = m - d - 1
  BY <1>5
<1>9. (-1 * m + (m - d - 1)) % m = m - d - 1
  BY <1>5, <1>6
<1>10. ((f % m) - (r + 1)) % m = m - d - 1
  BY <1>7, <1>8, <1>9
<1> QED BY <1>5, <1>10 DEF r

\* Frames and calls on their way to the engine.
Voices == [kind : {"audio"}, session : Nat, number : Nat]
Flushes == [kind : {"flush"}, session : Nat, number : Nat]
Requests == [kind : AllEvents \union {"setup", "cleanup", "flush"}]
EngineCalls == Voices \union Requests

Half == Modulus \div 2
\* The server has sent it.
WasSent(frame) == frame.session <= session /\ (frame.session = session => frame.number < sent)
\* It was not overtaken by half the sequence space.
KeepsUp(frame, with) == with.session = frame.session => with.number - frame.number < Half
Speech == {i \in DOMAIN calls : calls[i].kind = "audio"}

ServerFits ==
  /\ connected \in BOOLEAN /\ session \in Nat /\ sent \in Nat
  /\ air \subseteq Voices \union Flushes /\ (~connected => air = {})
  /\ \A d \in air : d.session = session /\ d.number < sent /\ sent - d.number <= Half

\* Whatever the engine takes first keeps up with what it takes later.
CallsFit ==
  /\ calls \in Seq(EngineCalls)
  /\ \A i \in Speech : WasSent(calls[i])
  /\ \A i, j \in Speech : i < j => KeepsUp(calls[j], calls[i])

\* The number remembered is that of the newest frame, and what is queued keeps up with it.
TakenFits ==
  /\ hasLast \in BOOLEAN /\ (~hasLast => newest = NoFrame)
  /\ hasLast =>
       /\ newest \in Voices /\ last = newest.number % Modulus /\ WasSent(newest)
       /\ \A i \in Speech : KeepsUp(calls[i], newest)

AudioFits == ServerFits /\ CallsFit /\ TakenFits

LEMMA HalfIs == Modulus \in Nat \ {0} /\ Half \in Nat \ {0} /\ 2 * Half = Modulus
BY ModulusAssumption DEF Half

LEMMA ServerKept ==
  ASSUME ServerFits, [AudioNext]_audioVars
  PROVE  ServerFits' /\ \A frame \in Voices : WasSent(frame) => WasSent(frame)'
<1>0. session \in Nat /\ sent \in Nat /\ connected \in BOOLEAN
  BY DEF ServerFits
<1>1. CASE ServerSends
  <2>1. PICK kind \in {"audio", "flush"} :
          air' = air \union {[kind |-> kind, session |-> session, number |-> sent]}
    BY <1>1 DEF ServerSends
  <2> DEFINE new == [kind |-> kind, session |-> session, number |-> sent]
  <2>2. new \in Voices \union Flushes /\ new.session = session /\ new.number = sent
    BY <1>0 DEF Voices, Flushes
  <2> HIDE DEF new
  <2>3. connected /\ UNCHANGED <<connected, session>> /\ sent' = sent + 1 /\ air' = air \union {new}
    BY <1>1, <2>1 DEF ServerSends, new
  <2>4. ASSUME NEW d \in air' PROVE d.session = session /\ d.number < sent' /\ sent' - d.number <= Half
    <3>1. CASE d = new
      BY <1>0, <2>2, <2>3, <3>1, HalfIs
    <3>2. CASE d \in air
      <4>1. d.session = session /\ d.number < sent /\ d.number \in Nat /\ sent - d.number < Half
        BY <1>1, <3>2 DEF ServerFits, ServerSends, Half, Voices, Flushes
      <4> QED BY <1>0, <2>3, <4>1, HalfIs
    <3> QED BY <2>3, <3>1, <3>2
  <2>5. air' \subseteq Voices \union Flushes
    BY <2>2, <2>3 DEF ServerFits
  <2>6. ServerFits'
    BY <1>0, <2>3, <2>4, <2>5 DEF ServerFits
  <2>7. ASSUME NEW frame \in Voices, WasSent(frame) PROVE WasSent(frame)'
    <3>1. frame.number \in Nat
      BY DEF Voices
    <3> QED BY <1>0, <2>3, <2>7, <3>1 DEF WasSent
  <2> QED BY <2>6, <2>7
<1>2. CASE SessionStarts
  <2>1. ~connected /\ air = {} /\ connected' = TRUE /\ session' = session + 1 /\ sent' = 0 /\ air' = {}
    BY <1>2 DEF SessionStarts, ServerFits
  <2>2. ServerFits'
    BY <1>0, <2>1 DEF ServerFits
  <2>3. ASSUME NEW frame \in Voices, WasSent(frame) PROVE WasSent(frame)'
    <3>1. frame.session \in Nat
      BY DEF Voices
    <3> QED BY <1>0, <2>1, <2>3, <3>1 DEF WasSent
  <2> QED BY <2>2, <2>3
<1>3. CASE /\ UNCHANGED <<session, sent>> /\ air' \subseteq air
           /\ connected' \in BOOLEAN /\ (~connected' => air' = {})
  BY <1>3 DEF ServerFits, WasSent
<1>4. CASE DatagramLost \/ OnUdpReadyRead
  <2>1. air' \subseteq air /\ UNCHANGED <<connected, session, sent>>
    BY <1>4 DEF DatagramLost, OnUdpReadyRead
  <2>2. ~connected' => air' = {}
    BY <2>1 DEF ServerFits
  <2> QED BY <1>0, <1>3, <2>1, <2>2
<1>5. CASE SessionLost \/ DisconnectFromServer
  BY <1>3, <1>5 DEF SessionLost, DisconnectFromServer, TransitionToDisconnectedState
<1>6. CASE UNCHANGED server
  <2>1. UNCHANGED <<session, sent, air, connected>>
    BY <1>6 DEF server
  <2>2. ~connected' => air' = {}
    BY <2>1 DEF ServerFits
  <2> QED BY <1>0, <1>3, <2>1, <2>2
<1>7. CASE OnAudioTimeout \/ AndroidReports \/ Engine
  BY <1>6, <1>7 DEF OnAudioTimeout, AndroidReports, Engine, EngineStep, RestartRuns,
    RestartCompletes, RebuildRuns, FiveSecondsPass, CheckAudioHealth
<1> QED BY <1>1, <1>2, <1>4, <1>5, <1>6, <1>7 DEF AudioNext, Network, Client, audioVars

\* A call is queued behind the others.
LEMMA CallAdded ==
  ASSUME ServerFits, CallsFit, TakenFits, [AudioNext]_audioVars, NEW call \in EngineCalls, Call(call),
         UNCHANGED order,
         call.kind = "audio" =>
           call \in Voices /\ WasSent(call)' /\
             \A frame \in Voices : WasSent(frame) => KeepsUp(call, frame)
  PROVE  CallsFit' /\ TakenFits'
<1>1. calls \in Seq(EngineCalls) /\ calls' = Append(calls, call)
  BY DEF CallsFit, Call
<1>2. ASSUME NEW S, NEW s \in Seq(S), NEW x \in S
      PROVE  /\ Append(s, x) \in Seq(S) /\ Len(Append(s, x)) = Len(s) + 1 /\ Len(s) \in Nat
             /\ \A i \in 1 .. Len(s) : Append(s, x)[i] = s[i]
             /\ Append(s, x)[Len(s) + 1] = x
  OBVIOUS
<1> DEFINE n == Len(calls) + 1
<1>3. /\ calls' \in Seq(EngineCalls) /\ Len(calls') = n /\ Len(calls) \in Nat
      /\ \A i \in 1 .. Len(calls) : calls'[i] = calls[i]
      /\ calls'[n] = call
  BY <1>1, <1>2
<1>4. DOMAIN calls = 1 .. Len(calls) /\ DOMAIN calls' = 1 .. n
  BY <1>1, <1>3
<1>5. ASSUME NEW i \in Speech'
      PROVE  \/ i \in Speech /\ calls'[i] = calls[i] /\ calls[i] \in Voices /\ i < n
             \/ i = n /\ calls'[i] = call /\ call.kind = "audio"
  <2>1. i \in 1 .. n /\ calls'[i].kind = "audio"
    BY <1>4 DEF Speech
  <2>2. CASE i \in 1 .. Len(calls)
    <3>1. calls'[i] = calls[i] /\ calls[i] \in EngineCalls /\ calls[i].kind = "audio" /\ i < n
      BY <1>1, <1>3, <2>1, <2>2
    <3>2. calls[i] \in Voices
      <4>1. ASSUME NEW e \in Requests PROVE e.kind # "audio"
        BY DEF Requests, AllEvents
      <4> QED BY <3>1, <4>1 DEF EngineCalls
    <3> QED BY <1>4, <2>2, <3>1, <3>2 DEF Speech
  <2>3. CASE i = n
    BY <1>3, <2>1, <2>3
  <2> QED BY <1>3, <2>1, <2>2, <2>3
<1> HIDE DEF n
<1>6. \A i \in Speech' : WasSent(calls[i])'
  <2> SUFFICES ASSUME NEW i \in Speech'
               PROVE  /\ calls'[i].session <= session'
                      /\ calls'[i].session = session' => calls'[i].number < sent'
    BY DEF WasSent
  <2>1. CASE i \in Speech /\ calls'[i] = calls[i] /\ calls[i] \in Voices
    <3>1. WasSent(calls[i])
      BY <2>1 DEF CallsFit
    <3> QED BY <2>1, <3>1, ServerKept DEF WasSent
  <2>2. CASE calls'[i] = call /\ call.kind = "audio"
    BY <2>2 DEF WasSent
  <2> QED BY <1>5, <2>1, <2>2
<1>7. ASSUME NEW i \in Speech', NEW j \in Speech', i < j PROVE KeepsUp(calls'[j], calls'[i])
  <2>1. i \in Speech /\ calls'[i] = calls[i] /\ calls[i] \in Voices
    <3>1. i = n => FALSE
      <4>1. j \in 1 .. n /\ n \in Nat
        BY <1>3, <1>4 DEF Speech, n
      <4> QED BY <1>7, <4>1
    <3> QED BY <1>5, <3>1
  <2>2. CASE j \in Speech /\ calls'[j] = calls[j]
    BY <1>7, <2>1, <2>2 DEF CallsFit
  <2>3. CASE calls'[j] = call /\ call.kind = "audio"
    <3>1. WasSent(calls[i])
      BY <2>1 DEF CallsFit
    <3> QED BY <2>1, <2>3, <3>1
  <2> QED BY <1>5, <2>2, <2>3
<1>8. CallsFit'
  BY <1>3, <1>6, <1>7 DEF CallsFit, KeepsUp, Half
<1>9. TakenFits'
  <2>1. UNCHANGED <<hasLast, last, newest>>
    BY DEF order
  <2>2. ASSUME hasLast PROVE /\ WasSent(newest)' /\ \A i \in Speech' : KeepsUp(calls'[i], newest)
    <3>1. newest \in Voices /\ WasSent(newest)
      BY <2>2 DEF TakenFits
    <3>2. newest.session <= session' /\ (newest.session = session' => newest.number < sent')
      BY <3>1, ServerKept DEF WasSent
    <3>3. ASSUME NEW i \in Speech' PROVE KeepsUp(calls'[i], newest)
      <4>1. CASE i \in Speech /\ calls'[i] = calls[i]
        BY <2>2, <4>1 DEF TakenFits
      <4>2. CASE calls'[i] = call /\ call.kind = "audio"
        BY <3>1, <4>2
      <4> QED BY <1>5, <4>1, <4>2
    <3> QED BY <2>1, <3>2, <3>3 DEF WasSent
  <2> QED BY <2>1, <2>2 DEF TakenFits, KeepsUp, Half
<1> QED BY <1>8, <1>9

\* The calls stay: what was taken stays as well, or is forgotten.
LEMMA CallsStay ==
  ASSUME ServerFits, CallsFit, TakenFits, [AudioNext]_audioVars, UNCHANGED calls,
         UNCHANGED <<hasLast, last, newest>> \/ Forget
  PROVE  CallsFit' /\ TakenFits'
<1>1. \A i \in Speech : i \in DOMAIN calls /\ calls[i] \in Voices
  <2>1. ASSUME NEW e \in Requests PROVE e.kind # "audio"
    BY DEF Requests, AllEvents
  <2> QED BY <2>1 DEF CallsFit, Speech, EngineCalls
<1>2. Speech' = Speech
  BY DEF Speech
<1>3. \A i \in Speech' : WasSent(calls[i])'
  <2> SUFFICES ASSUME NEW i \in Speech
               PROVE  /\ calls[i].session <= session'
                      /\ calls[i].session = session' => calls[i].number < sent'
    BY <1>2 DEF WasSent
  <2>1. WasSent(calls[i]) /\ calls[i] \in Voices
    BY <1>1 DEF CallsFit
  <2> QED BY <2>1, ServerKept DEF WasSent
<1>4. CallsFit'
  BY <1>2, <1>3 DEF CallsFit, KeepsUp, Half
<1>5. CASE Forget
  BY <1>4, <1>5 DEF Forget, TakenFits
<1>6. CASE UNCHANGED <<hasLast, last, newest>>
  <2>1. ASSUME hasLast PROVE WasSent(newest)'
    <3>1. newest \in Voices /\ WasSent(newest)
      BY <2>1 DEF TakenFits
    <3>2. newest.session <= session' /\ (newest.session = session' => newest.number < sent')
      BY <3>1, ServerKept DEF WasSent
    <3> QED BY <1>6, <3>2 DEF WasSent
  <2> QED BY <1>2, <1>4, <1>6, <2>1 DEF TakenFits, KeepsUp, Half
<1> QED BY <1>4, <1>5, <1>6

\* The engine takes the first call.
LEMMA CallTaken ==
  ASSUME CallsFit, EngineStep
  PROVE  /\ calls # <<>> /\ Head(calls) = calls[1] /\ calls' \in Seq(EngineCalls)
         /\ calls[1].kind = "audio" => 1 \in Speech /\ calls[1] \in Voices
         /\ \A i \in Speech' : i \in Nat \ {0} /\ i + 1 \in Speech /\ calls'[i] = calls[i + 1]
         /\ \/ calls[1].kind = "audio" /\ ProcessReceivedAudio(calls[1])
            \/ Forget
            \/ UNCHANGED <<hasLast, last, newest>>
<1>1. calls \in Seq(EngineCalls) /\ calls # <<>> /\ calls' = Tail(calls)
  BY DEF CallsFit, EngineStep
<1>2. Head(calls) = calls[1] /\ 1 \in DOMAIN calls /\ calls[1] \in EngineCalls
  BY <1>1
<1>3. /\ Tail(calls) \in Seq(EngineCalls) /\ Len(Tail(calls)) = Len(calls) - 1 /\ Len(calls) \in Nat
      /\ \A i \in 1 .. Len(calls) - 1 : i + 1 \in 1 .. Len(calls) /\ Tail(calls)[i] = calls[i + 1]
  BY <1>1
<1>4. DOMAIN Tail(calls) = 1 .. Len(calls) - 1 /\ DOMAIN calls = 1 .. Len(calls)
  BY <1>1, <1>3
<1>5. ASSUME NEW i \in Speech' PROVE i \in Nat \ {0} /\ i + 1 \in Speech /\ calls'[i] = calls[i + 1]
  <2>1. i \in DOMAIN Tail(calls) /\ Tail(calls)[i].kind = "audio"
    BY <1>1 DEF Speech
  <2>2. i \in 1 .. Len(calls) - 1 /\ i \in Nat \ {0}
    BY <1>3, <1>4, <2>1
  <2>3. i + 1 \in DOMAIN calls /\ Tail(calls)[i] = calls[i + 1]
    BY <1>3, <1>4, <2>2
  <2> QED BY <1>1, <2>1, <2>2, <2>3 DEF Speech
<1>6. calls[1].kind = "audio" => 1 \in Speech /\ calls[1] \in Voices
  <2>1. ASSUME NEW e \in Requests PROVE e.kind # "audio"
    BY DEF Requests, AllEvents
  <2> QED BY <1>2, <2>1 DEF EngineCalls, Speech
<1>7. \/ calls[1].kind = "audio" /\ ProcessReceivedAudio(calls[1])
      \/ Forget
      \/ UNCHANGED <<hasLast, last, newest>>
  BY <1>2 DEF EngineStep, FlushAudioBuffers, order
<1> QED BY <1>1, <1>2, <1>3, <1>5, <1>6, <1>7

LEMMA TakingKeeps ==
  ASSUME ServerFits, CallsFit, TakenFits, EngineStep
  PROVE  CallsFit' /\ TakenFits'
<1>1. /\ calls' \in Seq(EngineCalls)
      /\ \A i \in Speech' : i \in Nat \ {0} /\ i + 1 \in Speech /\ calls'[i] = calls[i + 1]
  BY CallTaken
<1>2. UNCHANGED <<session, sent>>
  BY DEF EngineStep, server
<1>3. \A i \in Speech' : WasSent(calls[i])'
  <2> SUFFICES ASSUME NEW i \in Speech'
               PROVE  /\ calls'[i].session <= session'
                      /\ calls'[i].session = session' => calls'[i].number < sent'
    BY DEF WasSent
  <2>1. WasSent(calls[i + 1])
    BY <1>1 DEF CallsFit
  <2> QED BY <1>1, <1>2, <2>1 DEF WasSent
<1>4. ASSUME NEW i \in Speech', NEW j \in Speech', i < j PROVE KeepsUp(calls'[j], calls'[i])
  <2>1. i + 1 \in Speech /\ j + 1 \in Speech /\ i + 1 < j + 1
    BY <1>1, <1>4
  <2> QED BY <1>1, <2>1 DEF CallsFit
<1>5. CallsFit'
  BY <1>1, <1>3, <1>4 DEF CallsFit, KeepsUp, Half
<1>6. CASE UNCHANGED <<hasLast, last, newest>>
  <2>1. ASSUME hasLast, NEW i \in Speech' PROVE KeepsUp(calls'[i], newest)
    BY <1>1, <2>1 DEF TakenFits
  <2>2. hasLast => WasSent(newest)'
    BY <1>2, <1>6 DEF TakenFits, WasSent
  <2> QED BY <1>5, <1>6, <2>1, <2>2 DEF TakenFits, KeepsUp, Half
<1>7. CASE Forget
  BY <1>5, <1>7 DEF Forget, TakenFits
<1>8. CASE calls[1].kind = "audio" /\ ProcessReceivedAudio(calls[1])
  <2>1. CASE UNCHANGED order
    BY <1>6, <2>1 DEF order
  <2>2. CASE hasLast' = TRUE /\ last' = Seq16(calls[1]) /\ newest' = calls[1]
    <3>1. 1 \in Speech /\ calls[1] \in Voices /\ WasSent(calls[1])
      BY <1>8, CallTaken DEF CallsFit
    <3>2. WasSent(newest)'
      BY <1>2, <2>2, <3>1 DEF WasSent
    <3>3. ASSUME NEW i \in Speech' PROVE KeepsUp(calls'[i], calls[1])
      <4>1. i + 1 \in Speech /\ 1 < i + 1
        BY <1>1
      <4> QED BY <1>1, <3>1, <4>1 DEF CallsFit
    <3> QED BY <1>5, <2>2, <3>1, <3>2, <3>3 DEF TakenFits, Seq16, KeepsUp, Half
  <2> QED BY <1>8, <2>1, <2>2 DEF ProcessReceivedAudio
<1> QED BY <1>6, <1>7, <1>8, CallTaken

LEMMA AudioKept ==
  ASSUME AudioFits, [AudioNext]_audioVars
  PROVE  AudioFits'
<1> USE DEF AudioFits
<1>1. ServerFits'
  BY ServerKept
<1>2. CASE EngineStep
  BY <1>1, <1>2, TakingKeeps
<1>3. CASE \E call \in Requests : Call(call) /\ UNCHANGED order
  <2>1. PICK call \in Requests : Call(call) /\ UNCHANGED order
    BY <1>3
  <2>2. call \in EngineCalls /\ call.kind # "audio"
    BY DEF EngineCalls, Requests, AllEvents
  <2> QED BY <1>1, <2>1, <2>2, CallAdded
<1>4. \A kind \in AllEvents \union {"setup", "cleanup", "flush"} : [kind |-> kind] \in Requests
  BY DEF Requests
<1>5. CASE SessionStarts
  <2>1. Call([kind |-> "setup"]) /\ UNCHANGED order
    BY <1>5 DEF SessionStarts
  <2> QED BY <1>3, <1>4, <2>1
<1>6. CASE DisconnectFromServer
  <2>1. Call([kind |-> "cleanup"]) /\ UNCHANGED order
    BY <1>6 DEF DisconnectFromServer
  <2> QED BY <1>3, <1>4, <2>1
<1>7. CASE AndroidReports
  <2>1. PICK event \in Events : Call([kind |-> event]) /\ UNCHANGED order
    BY <1>7 DEF AndroidReports
  <2>2. event \in AllEvents
    BY EventsAssumption
  <2> QED BY <1>3, <1>4, <2>1, <2>2
<1>8. CASE OnUdpReadyRead
  <2>1. PICK d \in air :
          /\ UNCHANGED order /\ UNCHANGED <<session, sent>>
          /\ \/ d.kind = "audio" /\ Call(d)
             \/ Call([kind |-> "flush"])
    BY <1>8 DEF OnUdpReadyRead
  <2>2. CASE Call([kind |-> "flush"])
    BY <1>3, <1>4, <2>1, <2>2
  <2>3. CASE d.kind = "audio" /\ Call(d)
    <3>1. d \in Voices /\ d.session = session /\ d.number < sent /\ sent - d.number <= Half
      BY <2>3 DEF ServerFits, Voices, Flushes
    <3>2. session \in Nat /\ sent \in Nat /\ d.number \in Nat
      BY <3>1 DEF ServerFits, Voices
    <3>3. ASSUME NEW frame \in Voices, WasSent(frame) PROVE KeepsUp(d, frame)
      <4>1. ASSUME frame.session = session PROVE frame.number - d.number < Half
        <5>1. frame.number < sent /\ frame.number \in Nat
          BY <3>3, <4>1 DEF WasSent, Voices
        <5> QED BY <3>1, <3>2, <5>1, HalfIs
      <4> QED BY <3>1, <4>1 DEF KeepsUp
    <3>4. WasSent(d)'
      BY <2>1, <3>1, <3>2 DEF WasSent
    <3>5. d \in EngineCalls
      BY <3>1 DEF EngineCalls
    <3> QED BY <1>1, <2>1, <2>3, <3>1, <3>3, <3>4, <3>5, CallAdded
  <2> QED BY <2>1, <2>2, <2>3
<1>9. CASE ServerSends \/ DatagramLost \/ SessionLost \/ OnAudioTimeout
  <2>1. UNCHANGED calls /\ UNCHANGED <<hasLast, last, newest>>
    BY <1>9 DEF ServerSends, DatagramLost, SessionLost, OnAudioTimeout, order
  <2> QED BY <1>1, <2>1, CallsStay
<1>10. CASE RestartRuns \/ RestartCompletes \/ RebuildRuns \/ FiveSecondsPass \/ CheckAudioHealth
  <2>1. UNCHANGED calls /\ (UNCHANGED <<hasLast, last, newest>> \/ Forget)
    BY <1>10 DEF RestartRuns, RestartCompletes, RebuildRuns, FiveSecondsPass, CheckAudioHealth, order
  <2> QED BY <1>1, <2>1, CallsStay
<1>11. CASE UNCHANGED audioVars
  <2>1. UNCHANGED calls /\ UNCHANGED <<hasLast, last, newest>>
    BY <1>11 DEF audioVars, order
  <2> QED BY <1>1, <2>1, CallsStay
<1> QED BY <1>2, <1>5, <1>6, <1>7, <1>8, <1>9, <1>10, <1>11 DEF AudioNext, Network, Client, Engine

LEMMA AudioAtFirst == AudioInit => AudioFits
<1> SUFFICES ASSUME AudioInit PROVE AudioFits
  OBVIOUS
<1>1. ServerFits
  BY DEF AudioInit, ServerFits
<1>2. CallsFit
  <2>1. calls = <<>> /\ calls \in Seq(EngineCalls) /\ Speech = {}
    BY DEF AudioInit, Speech
  <2> QED BY <2>1 DEF CallsFit
<1>3. TakenFits
  BY DEF AudioInit, TakenFits
<1> QED BY <1>1, <1>2, <1>3 DEF AudioFits

\* A frame that is not stale was sent after the one remembered.
LEMMA NotStaleIsLater ==
  ASSUME NEW frame \in Voices, newest \in Voices, last = newest.number % Modulus, hasLast,
         KeepsUp(frame, newest), ~StaleFrame(frame), frame # newest, frame.session = newest.session
  PROVE  frame.number > newest.number
<1> SUFFICES ASSUME ~(frame.number > newest.number) PROVE FALSE
  OBVIOUS
<1>1. frame.number \in Nat /\ newest.number \in Nat
  BY DEF Voices
<1>2. frame.number # newest.number
  BY DEF Voices
<1>3. frame.number < newest.number /\ newest.number - frame.number < Modulus \div 2
  BY <1>1, <1>2 DEF KeepsUp, Half
<1>4. ((frame.number % Modulus) - ((newest.number % Modulus) + 1)) % Modulus >= Modulus \div 2
  BY <1>1, <1>3, Overtaken, HalfIs
<1> QED BY <1>4 DEF StaleFrame, Ahead, Seq16

\* The frames the engine takes between two flushes are, within a session, in the order
\* in which the server sent them: onUdpReadyRead, the queue to the engine and the
\* comparison of 16-bit numbers let no frame through that was overtaken.
THEOREM AudioInOrder == AudioSpec => PlaysInOrder
<1>1. AudioFits /\ [AudioNext]_audioVars =>
        [newest # NoFrame /\ newest' # NoFrame /\ newest' # newest
           /\ newest'.session = newest.session
         => newest'.number > newest.number]_audioVars
  <2> SUFFICES ASSUME AudioFits, [AudioNext]_audioVars, newest # NoFrame, newest' # NoFrame,
                      newest' # newest, newest'.session = newest.session
               PROVE  newest'.number > newest.number
    OBVIOUS
  <2>1. newest' # newest /\ ~Forget
    BY DEF Forget
  <2>2. EngineStep
    BY <2>1 DEF AudioNext, Network, Client, Engine, ServerSends, DatagramLost, SessionStarts,
      SessionLost, DisconnectFromServer, OnUdpReadyRead, OnAudioTimeout, AndroidReports, RestartRuns,
      RestartCompletes, RebuildRuns, FiveSecondsPass, CheckAudioHealth, order, audioVars
  <2>3. ProcessReceivedAudio(calls[1]) /\ 1 \in Speech /\ calls[1] \in Voices
    BY <2>1, <2>2, CallTaken DEF AudioFits
  <2>4. newest' = calls[1] /\ ~StaleFrame(calls[1])
    BY <2>1, <2>3 DEF ProcessReceivedAudio, order
  <2>5. /\ hasLast /\ newest \in Voices /\ last = newest.number % Modulus
        /\ KeepsUp(calls[1], newest)
    BY <2>3 DEF AudioFits, TakenFits
  <2> QED BY <2>3, <2>4, <2>5, NotStaleIsLater
<1> QED BY <1>1, AudioAtFirst, AudioKept, PTL DEF AudioSpec, PlaysInOrder

\* Whatever reports of focus, activity and devices follow each other, and whatever
\* restarts are due meanwhile, only restartAudio's late second half forgets a pause.
THEOREM PauseRemembered == AudioSpec => PauseIsRemembered
<1>1. [AudioNext]_audioVars => [PauseNoted => PauseNoted' \/ RestartFinds]_audioVars
  <2> SUFFICES ASSUME [AudioNext]_audioVars, PauseNoted, ~RestartFinds, trackOutput' = "paused"
               PROVE  focusPaused' \/ "restart" \in later'
    BY DEF PauseNoted
  <2>1. CASE UNCHANGED <<trackOutput, focusPaused, later>>
    BY <2>1 DEF PauseNoted
  <2>2. CASE Network \/ Client \/ FiveSecondsPass \/ CheckAudioHealth \/ UNCHANGED audioVars
    BY <2>1, <2>2 DEF Network, Client, ServerSends, DatagramLost, SessionStarts, SessionLost,
      DisconnectFromServer, OnUdpReadyRead, OnAudioTimeout, AndroidReports, FiveSecondsPass,
      CheckAudioHealth, focus, audioVars
  <2>3. CASE RestartRuns
    BY <2>3 DEF RestartRuns, RestartAudio, ResumeOutput
  <2>4. CASE RestartCompletes
    BY <2>4 DEF RestartCompletes, RestartFinds
  <2>5. CASE RebuildRuns
    BY <2>5 DEF RebuildRuns, SetupAudio, PauseNoted, focus
  <2>6. CASE EngineStep
    <3>1. CASE OnAudioFocusGained
      BY <3>1 DEF OnAudioFocusGained, RestartAudio, ResumeOutput, PauseNoted
    <3>2. CASE OnActivityResumed /\ UNCHANGED trackOutput
      BY <3>2 DEF OnActivityResumed, PauseNoted
    <3>3. CASE OnAudioFocusPaused \/ OnAudioFocusLost \/ CleanupAudio
      BY <3>3 DEF OnAudioFocusPaused, OnAudioFocusLost, CleanupAudio
    <3>4. CASE (SetupAudio \/ HandleAudioRouteChanged) /\ UNCHANGED <<focusPaused, later>>
      BY <3>4 DEF SetupAudio, HandleAudioRouteChanged, PauseNoted
    <3> QED BY <2>1, <2>6, <3>1, <3>2, <3>3, <3>4 DEF EngineStep, focus
  <2> QED BY <2>2, <2>3, <2>4, <2>5, <2>6 DEF AudioNext, Engine
<1> QED BY <1>1, PTL DEF AudioSpec, PauseIsRemembered

==============================================================================
