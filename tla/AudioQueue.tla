----------------------------- MODULE AudioQueue -----------------------------
(***************************************************************************)
(* audio_queue.c: the ring of received samples.  The tasks that use it     *)
(* have the same priority and never block inside an operation, so each     *)
(* operation is one step.                                                  *)
(***************************************************************************)
EXTENDS Integers, Sequences

CONSTANTS
    Sample,   \* AudioQueue_DATA_TYPE
    Size      \* AUDIO_QUEUE_RX_LENGTH

ASSUME SizeAssumption == Size \in Nat \ {0}

\* What deAudioQueue returns on an empty queue, and the buffer's first value.
ERROR == 0
ASSUME SampleAssumption == ERROR \in Sample

VARIABLES front, rear, capacity, buf

queueVars == <<front, rear, capacity, buf>>

Position == 0 .. Size - 1

\* Mutant: the position is not wrapped.
Following_NoWrap(i) == i + 1

\* The position after i in the ring.
Following(i) == (i + 1) % Size

\* audioQueueInit; the buffer is a zeroed global.
QueueInit ==
    /\ front = 0 /\ rear = 0 /\ capacity = 0
    /\ buf = [i \in Position |-> ERROR]

\* Mutant: the queue takes one sample more than it has room for.
EnAudioQueue_TooMany(d) ==
    IF capacity > Size
    THEN UNCHANGED queueVars
    ELSE /\ buf' = [buf EXCEPT ![rear] = d]
         /\ rear' = Following(rear)
         /\ capacity' = capacity + 1
         /\ UNCHANGED front

\* enAudioQueue: a sample that finds the queue full is dropped.
EnAudioQueue(d) ==
    IF capacity >= Size
    THEN UNCHANGED queueVars
    ELSE /\ buf' = [buf EXCEPT ![rear] = d]
         /\ rear' = Following(rear)
         /\ capacity' = capacity + 1
         /\ UNCHANGED front

\* deAudioQueue returns d; an empty queue returns ERROR.
DeAudioQueue(d) ==
    IF capacity = 0
    THEN d = ERROR /\ UNCHANGED queueVars
    ELSE /\ d = buf[front]
         /\ front' = Following(front)
         /\ capacity' = capacity - 1
         /\ UNCHANGED <<rear, buf>>

AudioQueueFlush == front' = 0 /\ rear' = 0 /\ capacity' = 0 /\ UNCHANGED buf

\* audioQueuePoll: the sample at a position, taken modulo the size.
AudioQueuePoll(position) == buf[position % Size]

QueueNext ==
    \/ \E d \in Sample : EnAudioQueue(d) \/ DeAudioQueue(d)
    \/ AudioQueueFlush

QueueSpec == QueueInit /\ [][QueueNext]_queueVars
-----------------------------------------------------------------------------
QueueTypeOK ==
    /\ front \in Position /\ rear \in Position
    /\ capacity \in 0 .. Size
    /\ buf \in [Position -> Sample]

\* The three indices agree, across every wrap: the rear is capacity positions
\* after the front.
RearFollowsFront == rear = (front + capacity) % Size

\* The samples waiting, oldest first.
Content == [i \in 1 .. capacity |-> AudioQueuePoll(front + i - 1)]

Fifo == INSTANCE BoundedFifo WITH content <- Content

\* The ring implements the bounded queue: no operation loses, repeats or
\* reorders a sample that was accepted.
QueueIsFifo == Fifo!Spec
=============================================================================
