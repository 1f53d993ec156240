-------------------------- MODULE AudioQueue_proof --------------------------
(***************************************************************************)
(* Proofs about the sample ring, for every size and every set of samples:  *)
(* its indices agree and it implements the bounded first-in first-out      *)
(* queue.                                                                  *)
(***************************************************************************)
EXTENDS AudioQueue, SequenceTheorems, TLAPS

QInv == QueueTypeOK /\ RearFollowsFront

\* Positions up to two rounds of the ring need at most one subtraction.
LEMMA Wrap ==
    ASSUME NEW x \in Nat, x < 2 * Size
    PROVE  x % Size = IF x < Size THEN x ELSE x - Size
<1>1. Size \in Nat /\ Size > 0
  BY SizeAssumption
<1>2. CASE x < Size
  BY <1>1, <1>2, SMT
<1>3. CASE x >= Size
  BY <1>1, <1>3, SMT
<1> QED BY <1>1, <1>2, <1>3

\* The same of the sums that index the ring.
LEMMA RingSum ==
    ASSUME NEW f \in 0 .. Size - 1, NEW k \in 0 .. Size
    PROVE  (f + k) % Size = IF f + k < Size THEN f + k ELSE f + k - Size
<1>1. f + k \in Nat /\ f + k < 2 * Size
  BY SizeAssumption
<1> QED BY <1>1, Wrap, SizeAssumption

LEMMA RingIndex ==
    ASSUME NEW f \in 0 .. Size - 1, NEW k \in 1 .. Size
    PROVE  (f + k - 1) % Size
             = IF f + k - 1 < Size THEN f + k - 1 ELSE f + k - 1 - Size
<1>1. f + k - 1 \in Nat /\ f + k - 1 < 2 * Size
  BY SizeAssumption
<1> QED BY <1>1, Wrap, SizeAssumption

\* The position after i stays in the ring.
LEMMA FollowingFacts ==
    ASSUME NEW i \in Position
    PROVE  /\ Following(i) \in Position
           /\ Following(i) = IF i = Size - 1 THEN 0 ELSE i + 1
BY SizeAssumption, Wrap, i + 1 \in Nat, i + 1 < 2 * Size DEF Following, Position

LEMMA InitQInv == QueueInit => QInv
<1> SUFFICES ASSUME QueueInit PROVE QInv
  OBVIOUS
<1>1. QueueTypeOK
  BY SizeAssumption, SampleAssumption DEF QueueInit, QueueTypeOK, Position
<1>2. RearFollowsFront
  BY SizeAssumption, Wrap DEF QueueInit, RearFollowsFront
<1> QED BY <1>1, <1>2 DEF QInv

LEMMA EnAudioQueueQInv ==
    ASSUME QInv, NEW d \in Sample, EnAudioQueue(d)
    PROVE  QInv'
<1> USE DEF QInv
<1>1. CASE capacity >= Size
  BY <1>1 DEF EnAudioQueue, QueueTypeOK, RearFollowsFront, queueVars
<1>2. CASE ~(capacity >= Size)
  <2>1. /\ buf' = [buf EXCEPT ![rear] = d] /\ rear' = Following(rear)
        /\ capacity' = capacity + 1 /\ front' = front
    BY <1>2 DEF EnAudioQueue
  <2>2. QueueTypeOK'
    BY <1>2, <2>1, FollowingFacts, SizeAssumption DEF QueueTypeOK, Position
  <2>3. RearFollowsFront'
    <3>1. /\ front \in 0 .. Size - 1 /\ capacity \in 0 .. Size - 1
          /\ Size \in Nat \ {0} /\ rear \in 0 .. Size - 1
      BY <1>2, SizeAssumption DEF QueueTypeOK, Position
    <3>2. rear = IF front + capacity < Size THEN front + capacity
                 ELSE front + capacity - Size
      BY <3>1, RingSum, capacity \in 0 .. Size DEF RearFollowsFront
    <3>3. front + (capacity + 1) \in Nat /\ front + (capacity + 1) < 2 * Size
      BY <3>1
    <3>4. (front + (capacity + 1)) % Size
            = IF front + (capacity + 1) < Size THEN front + (capacity + 1)
              ELSE front + (capacity + 1) - Size
      BY <3>1, <3>3, Wrap
    <3>5. Following(rear) = IF rear = Size - 1 THEN 0 ELSE rear + 1
      BY <3>1, FollowingFacts DEF Position
    <3>6. Following(rear) = (front + (capacity + 1)) % Size
      BY <3>1, <3>2, <3>4, <3>5
    <3> QED BY <2>1, <3>6 DEF RearFollowsFront
  <2> QED BY <2>2, <2>3
<1> QED BY <1>1, <1>2

LEMMA DeAudioQueueQInv ==
    ASSUME QInv, NEW d \in Sample, DeAudioQueue(d)
    PROVE  QInv'
<1> USE DEF QInv
<1>1. CASE capacity = 0
  BY <1>1 DEF DeAudioQueue, QueueTypeOK, RearFollowsFront, queueVars
<1>2. CASE capacity # 0
  <2>1. /\ front' = Following(front) /\ capacity' = capacity - 1
        /\ rear' = rear /\ buf' = buf
    BY <1>2 DEF DeAudioQueue
  <2>2. QueueTypeOK'
    BY <1>2, <2>1, FollowingFacts, SizeAssumption DEF QueueTypeOK, Position
  <2>3. RearFollowsFront'
    <3>1. /\ front \in 0 .. Size - 1 /\ capacity \in 1 .. Size
          /\ Size \in Nat \ {0}
      BY <1>2, SizeAssumption DEF QueueTypeOK, Position
    <3>2. rear = IF front + capacity < Size THEN front + capacity
                 ELSE front + capacity - Size
      BY <3>1, RingSum, capacity \in 0 .. Size DEF RearFollowsFront
    <3>3. CASE front = Size - 1
      <4>1. front' = 0
        BY <2>1, <3>1, <3>3, FollowingFacts DEF Position
      <4>2. front' + capacity' = capacity - 1
        BY <2>1, <3>1, <4>1
      <4>3. (capacity - 1) % Size = capacity - 1
        BY <3>1, Wrap, capacity - 1 \in Nat
      <4> QED BY <2>1, <3>1, <3>2, <3>3, <4>2, <4>3 DEF RearFollowsFront
    <3>4. CASE front # Size - 1
      <4>1. front' = front + 1
        BY <2>1, <3>1, <3>4, FollowingFacts DEF Position
      <4>2. front' + capacity' = front + capacity
        BY <2>1, <3>1, <4>1
      <4> QED BY <2>1, <4>2 DEF RearFollowsFront
    <3> QED BY <3>3, <3>4
  <2> QED BY <2>2, <2>3
<1> QED BY <1>1, <1>2

LEMMA FlushQInv ==
    ASSUME QInv, AudioQueueFlush
    PROVE  QInv'
BY Wrap, SizeAssumption
   DEF QInv, AudioQueueFlush, QueueTypeOK, RearFollowsFront, Position

\* The ring keeps its type and its indices agree after every operation.
THEOREM IndicesAgree == QueueSpec => [](QueueTypeOK /\ RearFollowsFront)
<1>1. QueueInit => QInv
  BY InitQInv
<1>2. QInv /\ [QueueNext]_queueVars => QInv'
  <2> SUFFICES ASSUME QInv, [QueueNext]_queueVars PROVE QInv'
    OBVIOUS
  <2>1. CASE UNCHANGED queueVars
    BY <2>1 DEF QInv, QueueTypeOK, RearFollowsFront, queueVars
  <2>2. ASSUME NEW d \in Sample, EnAudioQueue(d) PROVE QInv'
    BY <2>2, EnAudioQueueQInv
  <2>3. ASSUME NEW d \in Sample, DeAudioQueue(d) PROVE QInv'
    BY <2>3, DeAudioQueueQInv
  <2>4. CASE AudioQueueFlush
    BY <2>4, FlushQInv
  <2> QED BY <2>1, <2>2, <2>3, <2>4 DEF QueueNext
<1> QED BY <1>1, <1>2, PTL DEF QueueSpec, QInv
-----------------------------------------------------------------------------
(***************************************************************************)
(* The refinement.                                                         *)
(***************************************************************************)

\* Content read at an index, without the modulus.
LEMMA ContentAt ==
    ASSUME QInv, NEW i \in 1 .. capacity
    PROVE  /\ Content[i] = buf[IF front + i - 1 < Size THEN front + i - 1
                               ELSE front + i - 1 - Size]
           /\ (IF front + i - 1 < Size THEN front + i - 1
               ELSE front + i - 1 - Size) \in Position
<1>1. /\ front \in 0 .. Size - 1 /\ capacity \in 0 .. Size
      /\ Size \in Nat /\ i \in 1 .. capacity
  BY SizeAssumption DEF QInv, QueueTypeOK, Position
<1>2. front + i - 1 \in Nat /\ front + i - 1 < 2 * Size
  BY <1>1
<1>3. Content[i] = buf[(front + i - 1) % Size]
  BY DEF Content, AudioQueuePoll
<1>4. (front + i - 1) % Size = IF front + i - 1 < Size THEN front + i - 1
                               ELSE front + i - 1 - Size
  BY <1>1, <1>2, Wrap
<1> QED BY <1>1, <1>2, <1>3, <1>4 DEF Position

LEMMA ContentSeq ==
    ASSUME QInv
    PROVE  Content \in Seq(Sample) /\ Len(Content) = capacity
           /\ DOMAIN Content = 1 .. capacity
<1>1. capacity \in Nat
  BY SizeAssumption DEF QInv, QueueTypeOK
<1>2. \A i \in 1 .. capacity : Content[i] \in Sample
  <2> TAKE i \in 1 .. capacity
  <2> QED BY ContentAt DEF QInv, QueueTypeOK
<1> QED BY <1>1, <1>2 DEF Content

\* A sample accepted at the rear becomes the last of the content.
LEMMA EnAudioQueuePuts ==
    ASSUME QInv, NEW d \in Sample, EnAudioQueue(d)
    PROVE  Fifo!Put(d) \/ UNCHANGED Content
<1>1. CASE capacity >= Size
  BY <1>1 DEF EnAudioQueue, queueVars, Content, AudioQueuePoll
<1>2. CASE ~(capacity >= Size)
  <2>1. /\ front \in 0 .. Size - 1 /\ capacity \in 0 .. Size - 1
        /\ Size \in Nat \ {0} /\ rear \in 0 .. Size - 1
        /\ buf \in [0 .. Size - 1 -> Sample]
    BY <1>2, SizeAssumption DEF QInv, QueueTypeOK, Position
  <2>2. /\ buf' = [buf EXCEPT ![rear] = d]
        /\ capacity' = capacity + 1 /\ front' = front
    BY <1>2 DEF EnAudioQueue
  <2>3. rear = IF front + capacity < Size THEN front + capacity
               ELSE front + capacity - Size
    <3>1. rear = (front + capacity) % Size
      BY DEF QInv, RearFollowsFront
    <3>2. capacity \in 0 .. Size
      BY <2>1
    <3> QED BY <2>1, <3>1, <3>2, RingSum
  <2>4. \A i \in 1 .. capacity + 1 :
           /\ (front + i - 1) % Size \in 0 .. Size - 1
           /\ (front + i - 1) % Size = rear <=> i = capacity + 1
    <3> TAKE i \in 1 .. capacity + 1
    <3>1. front + i - 1 \in Nat /\ front + i - 1 < 2 * Size
      BY <2>1
    <3>2. (front + i - 1) % Size = IF front + i - 1 < Size
                                   THEN front + i - 1
                                   ELSE front + i - 1 - Size
      BY <2>1, RingIndex, i \in 1 .. Size
    <3> QED BY <2>1, <2>3, <3>1, <3>2
  <2>5. Content' = [i \in 1 .. capacity + 1 |->
                       IF i = capacity + 1 THEN d
                       ELSE buf[(front + i - 1) % Size]]
    <3>1. Content' = [i \in 1 .. capacity + 1 |->
                        [buf EXCEPT ![rear] = d][(front + i - 1) % Size]]
      BY <2>2 DEF Content, AudioQueuePoll
    <3>2. \A i \in 1 .. capacity + 1 :
             [buf EXCEPT ![rear] = d][(front + i - 1) % Size]
               = IF i = capacity + 1 THEN d ELSE buf[(front + i - 1) % Size]
      BY <2>1, <2>4
    <3> QED BY <3>1, <3>2
  <2>6. /\ Content \in Seq(Sample) /\ Len(Content) = capacity
        /\ Len(Append(Content, d)) = capacity + 1
    BY ContentSeq
  <2>7. Append(Content, d) = [i \in 1 .. capacity + 1 |->
                                 IF i = capacity + 1 THEN d
                                 ELSE buf[(front + i - 1) % Size]]
    BY <2>1, <2>6 DEF Content, AudioQueuePoll
  <2> QED BY <2>1, <2>5, <2>6, <2>7 DEF Fifo!Put
<1> QED BY <1>1, <1>2

\* The sample returned is the oldest, and the others keep their order.
LEMMA DeAudioQueueGets ==
    ASSUME QInv, NEW d \in Sample, DeAudioQueue(d)
    PROVE  Fifo!Get \/ UNCHANGED Content
<1>1. CASE capacity = 0
  BY <1>1 DEF DeAudioQueue, queueVars, Content, AudioQueuePoll
<1>2. CASE capacity # 0
  <2>1. /\ front \in 0 .. Size - 1 /\ capacity \in 1 .. Size
        /\ Size \in Nat \ {0}
    BY <1>2, SizeAssumption DEF QInv, QueueTypeOK, Position
  <2>2. /\ front' = Following(front) /\ capacity' = capacity - 1
        /\ buf' = buf
    BY <1>2 DEF DeAudioQueue
  <2>3. front' = IF front = Size - 1 THEN 0 ELSE front + 1
    BY <2>1, <2>2, FollowingFacts DEF Position
  <2>4. \A i \in 1 .. capacity - 1 :
           (front' + i - 1) % Size = (front + (i + 1) - 1) % Size
    <3> TAKE i \in 1 .. capacity - 1
    <3>1. CASE front = Size - 1
      <4>1. front' + i - 1 = i - 1
        BY <2>1, <2>3, <3>1
      <4>2. i - 1 \in Nat /\ i - 1 < Size /\ i - 1 < 2 * Size
        BY <2>1
      <4>3. (i - 1) % Size = i - 1
        BY <2>1, <4>2, Wrap
      <4>4. /\ front + (i + 1) - 1 = Size + i - 1
            /\ Size + i - 1 \in Nat /\ Size + i - 1 < 2 * Size
        BY <2>1, <3>1
      <4>5. (Size + i - 1) % Size = i - 1
        BY <2>1, <4>4, Wrap
      <4> QED BY <4>1, <4>3, <4>4, <4>5
    <3>2. CASE front # Size - 1
      BY <2>1, <2>3, <3>2
    <3> QED BY <3>1, <3>2
  <2>5. Content' = [i \in 1 .. capacity - 1 |->
                       buf[(front + (i + 1) - 1) % Size]]
    BY <2>2, <2>4 DEF Content, AudioQueuePoll
  <2>6. Content \in Seq(Sample) /\ Len(Content) = capacity
    BY ContentSeq
  <2>7. Content # <<>>
    BY <2>1, <2>6
  <2>8. Tail(Content) = [i \in 1 .. capacity - 1 |->
                            buf[(front + (i + 1) - 1) % Size]]
    <3>1. Tail(Content) = [i \in 1 .. capacity - 1 |-> Content[i + 1]]
      <4>1. /\ Tail(Content) \in Seq(Sample)
            /\ Len(Tail(Content)) = capacity - 1
            /\ \A i \in 1 .. Len(Tail(Content)) :
                  Tail(Content)[i] = Content[i + 1]
        BY <2>6, <2>7, HeadTailProperties
      <4>2. Tail(Content) \in [1 .. capacity - 1 -> Sample]
        BY <4>1, LenProperties
      <4> QED BY <2>1, <4>1, <4>2
    <3>2. \A i \in 1 .. capacity - 1 :
             Content[i + 1] = buf[(front + (i + 1) - 1) % Size]
      BY <2>1 DEF Content, AudioQueuePoll
    <3> QED BY <3>1, <3>2
  <2> QED BY <2>5, <2>7, <2>8 DEF Fifo!Get
<1> QED BY <1>1, <1>2

LEMMA FlushEmpties ==
    ASSUME AudioQueueFlush
    PROVE  Fifo!Flush
BY DEF AudioQueueFlush, Fifo!Flush, Content

\* The ring of audio_queue.c implements the bounded queue, for every size.
THEOREM Refinement == QueueSpec => QueueIsFifo
<1>1. QueueInit => Fifo!Init
  BY DEF QueueInit, Fifo!Init, Content
<1>2. QInv /\ [QueueNext]_queueVars => [Fifo!Next]_Content
  <2> SUFFICES ASSUME QInv, [QueueNext]_queueVars PROVE [Fifo!Next]_Content
    OBVIOUS
  <2>1. CASE UNCHANGED queueVars
    BY <2>1 DEF queueVars, Content, AudioQueuePoll
  <2>2. ASSUME NEW d \in Sample, EnAudioQueue(d) PROVE [Fifo!Next]_Content
    BY <2>2, EnAudioQueuePuts DEF Fifo!Next
  <2>3. ASSUME NEW d \in Sample, DeAudioQueue(d) PROVE [Fifo!Next]_Content
    BY <2>3, DeAudioQueueGets DEF Fifo!Next
  <2>4. CASE AudioQueueFlush
    BY <2>4, FlushEmpties DEF Fifo!Next
  <2> QED BY <2>1, <2>2, <2>3, <2>4 DEF QueueNext
<1>3. QueueSpec => []QInv
  BY IndicesAgree DEF QInv
<1> QED BY <1>1, <1>2, <1>3, PTL DEF QueueSpec, QueueIsFifo, Fifo!Spec
=============================================================================
