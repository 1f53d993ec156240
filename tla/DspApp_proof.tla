---------------------------- MODULE DspApp_proof ----------------------------
(***************************************************************************)
(* Proofs about the receive path, for every block, chunk, queue and pipe   *)
(* size: type correctness, the exclusion of the two directions, that the   *)
(* tasks use the sample queue only as a bounded first-in first-out queue,  *)
(* that the samples stay in order, and that no sample of a block is queued *)
(* twice while the blocks are extracted in time.                           *)
(***************************************************************************)
EXTENDS DspApp, AudioQueue_proof, FiniteSetTheorems, WellFoundedInduction

\* What buf_16 and the chunk counter hold at each point of the two tasks.
Phases ==
    /\ enq = "pend" => buf16 = <<>>
    /\ enq = "extract" => Len(buf16) < Block
    /\ enq = "enqueue" => buf16 # <<>>
    /\ rx = "take" => left \in 1 .. Chunk

\* The flags in the middle of a switch.
Switching ==
    /\ smain = "tx" => ~rxFlag
    /\ smain = "rx" => ~txFlag

Inv == TypeOK /\ RearFollowsFront /\ Phases /\ Switching /\ TxRxExclusive

LEMMA InvQInv == Inv => QInv
BY DEF Inv, TypeOK, QInv

LEMMA InitInv == Init => Inv
<1> SUFFICES ASSUME Init PROVE Inv
  OBVIOUS
<1>1. QueueTypeOK /\ RearFollowsFront
  BY InitQInv DEF Init, QInv
<1>2. TypeOK
  <2>1. captured \in Sample /\ heard \in Sample /\ sem1 \in Nat /\ queued \in Nat
    BY SampleAssumption DEF Init, ERROR
  <2>2. buf16 \in Seq(Sample) /\ Len(buf16) <= Block
    BY AppAssumption DEF Init
  <2>3. left \in 0 .. Chunk /\ up \in 0 .. Slots /\ grabbed \in 0 .. Slots
    BY AppAssumption DEF Init
  <2> QED BY <1>1, <2>1, <2>2, <2>3 DEF Init, TypeOK
<1>3. Phases /\ Switching /\ TxRxExclusive
  BY DEF Init, Phases, Switching, TxRxExclusive
<1> QED BY <1>1, <1>2, <1>3 DEF Inv

\* The queue part of the invariant where the queue is left alone.
LEMMA QueueKept ==
    ASSUME Inv, UNCHANGED queueVars
    PROVE  QueueTypeOK' /\ RearFollowsFront'
BY DEF Inv, TypeOK, QueueTypeOK, RearFollowsFront, queueVars

LEMMA CaptureInv == ASSUME Inv, Capture PROVE Inv'
<1>1. QueueTypeOK' /\ RearFollowsFront'
  BY QueueKept DEF Capture
<1>2. captured' \in Sample /\ sem1' \in Nat /\ late' \in BOOLEAN
  <2>1. captured' \in Sample /\ sem1' \in Nat
    BY AppAssumption DEF Capture, Inv, TypeOK
  <2>2. (late \/ sem1 > 0 \/ enq = "extract" \/ captured = MaxCapture) \in BOOLEAN
    OBVIOUS
  <2>3. late' = (late \/ sem1 > 0 \/ enq = "extract" \/ captured = MaxCapture)
    BY Zenon DEF Capture
  <2> QED BY <2>1, <2>2, <2>3, Zenon
<1>4. TypeOK'
  BY <1>1, <1>2 DEF Capture, taskVars, mainVars, Inv, TypeOK
<1>3. Phases' /\ Switching' /\ TxRxExclusive'
  BY DEF Capture, taskVars, mainVars, Inv, Phases, Switching, TxRxExclusive
<1> QED BY <1>1, <1>3, <1>4 DEF Inv

LEMMA TaskEnqueInv == ASSUME Inv, TaskEnque PROVE Inv'
<1> USE DEF Inv
<1>1. CASE EnqPend
  <2>1. QueueTypeOK' /\ RearFollowsFront'
    BY <1>1, QueueKept DEF EnqPend
  <2>2. TypeOK'
    BY <1>1, <2>1 DEF EnqPend, mainVars, TypeOK, Keep, Tasks
  <2>3. Phases'
    BY <1>1, AppAssumption DEF EnqPend, Phases
  <2>4. Switching' /\ TxRxExclusive'
    BY <1>1 DEF EnqPend, mainVars, Switching, TxRxExclusive
  <2> QED BY <2>1, <2>2, <2>3, <2>4
<1>2. CASE EnqBlock
  <2>1. QueueTypeOK' /\ RearFollowsFront'
    BY <1>2, QueueKept DEF EnqBlock
  <2>2. TypeOK'
    BY <1>2, <2>1 DEF EnqBlock, taskVars, mainVars, isrVars, TypeOK, Yield
  <2>3. Phases' /\ Switching' /\ TxRxExclusive'
    BY <1>2 DEF EnqBlock, taskVars, mainVars, Phases, Switching, TxRxExclusive
  <2> QED BY <2>1, <2>2, <2>3
<1>3. CASE Extract
  <2>1. QueueTypeOK' /\ RearFollowsFront'
    BY <1>3, QueueKept DEF Extract
  <2>2. /\ buf16 \in Seq(Sample) /\ captured \in Sample
        /\ Len(buf16) < Block /\ Block \in Nat
    BY <1>3, AppAssumption DEF Extract, TypeOK, Phases
  <2>3. /\ buf16' \in Seq(Sample) /\ Len(buf16') = Len(buf16) + 1
        /\ buf16' # <<>>
    BY <1>3, <2>2 DEF Extract
  <2>4. TypeOK'
    BY <1>3, <2>1, <2>2, <2>3 DEF Extract, mainVars, isrVars, TypeOK
  <2>5. Phases'
    BY <1>3, <2>2, <2>3 DEF Extract, Phases
  <2>6. Switching' /\ TxRxExclusive'
    BY <1>3 DEF Extract, mainVars, Switching, TxRxExclusive
  <2> QED BY <2>1, <2>4, <2>5, <2>6
<1>4. CASE Enqueue
  <2>1. buf16 \in Seq(Sample) /\ buf16 # <<>>
    BY <1>4 DEF Enqueue, TypeOK, Phases
  <2>2. Head(buf16) \in Sample
    BY <2>1
  <2>3. QueueTypeOK' /\ RearFollowsFront'
    BY <1>4, <2>2, InvQInv, EnAudioQueueQInv DEF Enqueue, QInv
  <2>4. /\ buf16' \in Seq(Sample) /\ Len(buf16') = Len(buf16) - 1
        /\ Len(buf16) \in Nat
    BY <1>4, <2>1 DEF Enqueue
  <2>5. TypeOK'
    BY <1>4, <2>3, <2>4, AppAssumption
       DEF Enqueue, mainVars, isrVars, TypeOK
  <2>6. Phases'
    BY <1>4 DEF Enqueue, Phases
  <2>7. Switching' /\ TxRxExclusive'
    BY <1>4 DEF Enqueue, mainVars, Switching, TxRxExclusive
  <2> QED BY <2>3, <2>5, <2>6, <2>7
<1> QED BY <1>1, <1>2, <1>3, <1>4 DEF TaskEnque

LEMMA AudioSignalRXInv == ASSUME Inv, AudioSignalRX PROVE Inv'
<1> USE DEF Inv
<1>1. CASE RxStart
  <2>1. QueueTypeOK' /\ RearFollowsFront'
    BY <1>1, InvQInv, FlushQInv DEF RxStart, QInv
  <2>2. TypeOK'
    BY <1>1, <2>1 DEF RxStart, mainVars, isrVars, TypeOK, Keep, Tasks
  <2>3. Phases' /\ Switching' /\ TxRxExclusive'
    BY <1>1 DEF RxStart, mainVars, Phases, Switching, TxRxExclusive
  <2> QED BY <2>1, <2>2, <2>3
<1>2. CASE RxBegin
  <2>1. QueueTypeOK' /\ RearFollowsFront'
    BY <1>2, QueueKept DEF RxBegin
  <2>2. Chunk \in 0 .. Chunk /\ Chunk \in 1 .. Chunk
    BY AppAssumption
  <2>3. TypeOK'
    BY <1>2, <2>1, <2>2 DEF RxBegin, mainVars, isrVars, TypeOK, Keep, Tasks
  <2>4. Phases' /\ Switching' /\ TxRxExclusive'
    BY <1>2, <2>2 DEF RxBegin, mainVars, Phases, Switching, TxRxExclusive
  <2> QED BY <2>1, <2>3, <2>4
<1>3. CASE RxSleep
  <2>1. QueueTypeOK' /\ RearFollowsFront'
    BY <1>3, QueueKept DEF RxSleep
  <2>2. TypeOK'
    BY <1>3, <2>1 DEF RxSleep, taskVars, mainVars, isrVars, TypeOK, Yield
  <2>3. Phases' /\ Switching' /\ TxRxExclusive'
    BY <1>3 DEF RxSleep, taskVars, mainVars, Phases, Switching, TxRxExclusive
  <2> QED BY <2>1, <2>2, <2>3
<1>4. CASE RxTake
  <2>1. PICK d \in Sample : DeAudioQueue(d) /\ heard' = d
    BY <1>4 DEF RxTake
  <2>2. QueueTypeOK' /\ RearFollowsFront'
    BY <2>1, InvQInv, DeAudioQueueQInv DEF QInv
  <2>3. /\ left \in 1 .. Chunk /\ Chunk \in Nat
        /\ left' = left - 1
        /\ rx' = IF left = 1 THEN "send" ELSE "take"
    BY <1>4, AppAssumption DEF RxTake, Phases
  <2>4. left' \in 0 .. Chunk /\ (rx' = "take" => left' \in 1 .. Chunk)
    BY <2>3
  <2>5. TypeOK'
    BY <1>4, <2>1, <2>2, <2>3, <2>4 DEF RxTake, mainVars, isrVars, TypeOK
  <2>6. Phases' /\ Switching' /\ TxRxExclusive'
    BY <1>4, <2>4 DEF RxTake, mainVars, Phases, Switching, TxRxExclusive
  <2> QED BY <2>2, <2>5, <2>6
<1>5. CASE RxSend
  <2>1. /\ UNCHANGED <<queueVars, buf16, enq, left, heard, mainVars, isrVars, running>>
        /\ rx = "send" /\ rx' \in {"send", "check"}
        /\ up' \in 0 .. Slots /\ grabbed' \in 0 .. Slots
    <3>1. up \in 0 .. Slots /\ grabbed \in 0 .. Slots /\ Slots \in Nat /\ 0 \in 0 .. Slots
      BY AppAssumption DEF TypeOK
    <3>2. CASE RxDrop
      BY <3>1, <3>2 DEF RxDrop, Sending
    <3>3. CASE RxRefused
      BY <3>1, <3>3 DEF RxRefused, Sending
    <3>4. CASE RxUnreleased
      BY <3>1, <3>4 DEF RxUnreleased, Sending
    <3>5. CASE RxSent
      BY <3>1, <3>5 DEF RxSent, Sending
    <3> QED BY <1>5, <3>2, <3>3, <3>4, <3>5 DEF RxSend
  <2>2. QueueTypeOK' /\ RearFollowsFront'
    BY <2>1, QueueKept
  <2>3. TypeOK'
    BY <2>1, <2>2 DEF mainVars, isrVars, TypeOK
  <2>4. Phases' /\ Switching' /\ TxRxExclusive'
    BY <2>1 DEF mainVars, Phases, Switching, TxRxExclusive
  <2> QED BY <2>2, <2>3, <2>4
<1> QED BY <1>1, <1>2, <1>3, <1>4, <1>5 DEF AudioSignalRX

LEMMA SmainInv == ASSUME Inv, Smain PROVE Inv'
<1> USE DEF Inv
<1>1. QueueTypeOK' /\ RearFollowsFront'
  BY QueueKept DEF Smain, TxBegin, TxOn, RxModeBegin, RxModeOn, Answer,
     AnswerLater, AnswerNow
<1>2. UNCHANGED taskVars
  BY DEF Smain, TxBegin, TxOn, RxModeBegin, RxModeOn, Answer, AnswerLater,
     AnswerNow
<1>3. Phases'
  BY <1>2 DEF taskVars, Phases
<1>4. CASE TxBegin
  <2>1. TypeOK'
    BY <1>1, <1>4 DEF TxBegin, Receive, taskVars, isrVars, TypeOK, Keep, Tasks
  <2>2. Switching' /\ TxRxExclusive'
    BY <1>4 DEF TxBegin, Receive, Switching, TxRxExclusive
  <2> QED BY <1>1, <1>3, <2>1, <2>2
<1>5. CASE TxOn
  <2>1. TypeOK'
    BY <1>1, <1>5 DEF TxOn, taskVars, isrVars, TypeOK, Yield
  <2>2. Switching' /\ TxRxExclusive'
    BY <1>5 DEF TxOn, Switching, TxRxExclusive
  <2> QED BY <1>1, <1>3, <2>1, <2>2
<1>6. CASE RxModeBegin
  <2>1. TypeOK'
    BY <1>1, <1>6
       DEF RxModeBegin, Receive, taskVars, isrVars, TypeOK, Keep, Tasks
  <2>2. Switching' /\ TxRxExclusive'
    BY <1>6 DEF RxModeBegin, Receive, Switching, TxRxExclusive
  <2> QED BY <1>1, <1>3, <2>1, <2>2
<1>7. CASE RxModeOn
  <2>1. TypeOK'
    BY <1>1, <1>7 DEF RxModeOn, taskVars, isrVars, TypeOK, Yield
  <2>2. Switching' /\ TxRxExclusive'
    BY <1>7 DEF RxModeOn, Switching, TxRxExclusive
  <2> QED BY <1>1, <1>3, <2>1, <2>2
<1>8. CASE Answer
  <2>1. TypeOK'
    BY <1>1, <1>8
       DEF Answer, Receive, SendReply, taskVars, isrVars, TypeOK, Yield
  <2>2. Switching' /\ TxRxExclusive'
    BY <1>8 DEF Answer, Receive, Switching, TxRxExclusive
  <2> QED BY <1>1, <1>3, <2>1, <2>2
<1>9. CASE AnswerLater
  <2>1. TypeOK'
    BY <1>1, <1>9 DEF AnswerLater, Receive, taskVars, isrVars, TypeOK, Yield
  <2>2. Switching' /\ TxRxExclusive'
    BY <1>9 DEF AnswerLater, Receive, Switching, TxRxExclusive
  <2> QED BY <1>1, <1>3, <2>1, <2>2
<1>10. CASE AnswerNow
  <2>1. TypeOK'
    BY <1>1, <1>10 DEF AnswerNow, SendReply, taskVars, isrVars, TypeOK, Yield
  <2>2. Switching' /\ TxRxExclusive'
    BY <1>10 DEF AnswerNow, Switching, TxRxExclusive
  <2> QED BY <1>1, <1>3, <2>1, <2>2
<1> QED BY <1>4, <1>5, <1>6, <1>7, <1>8, <1>9, <1>10 DEF Smain

LEMMA ArmInv ==
    ASSUME Inv, ArmCommands \/ ArmReadsReply \/ ArmReadsPipe
    PROVE  Inv'
<1> USE DEF Inv
<1>1. QueueTypeOK' /\ RearFollowsFront'
  BY QueueKept DEF ArmCommands, ArmReadsReply, ArmReadsPipe
<1>2. TypeOK'
  <2>1. CASE ArmCommands
    BY <1>1, <2>1 DEF ArmCommands, taskVars, isrVars, TypeOK
  <2>2. CASE ArmReadsReply
    <3>1. queued' \in Nat
      BY <2>2 DEF ArmReadsReply, TypeOK
    <3> QED BY <1>1, <2>2, <3>1 DEF ArmReadsReply, taskVars, isrVars, TypeOK
  <2>3. CASE ArmReadsPipe
    <3>1. up' \in 0 .. Slots
      BY <2>3, AppAssumption DEF ArmReadsPipe, TypeOK
    <3> QED BY <1>1, <2>3, <3>1 DEF ArmReadsPipe, mainVars, isrVars, TypeOK
  <2> QED BY <2>1, <2>2, <2>3
<1>3. Phases' /\ Switching' /\ TxRxExclusive'
  BY DEF ArmCommands, ArmReadsReply, ArmReadsPipe, taskVars, mainVars, Phases,
     Switching, TxRxExclusive
<1> QED BY <1>1, <1>2, <1>3

LEMMA InvAlways == Spec => []Inv
<1>1. Inv /\ [Next]_vars => Inv'
  <2> SUFFICES ASSUME Inv, [Next]_vars PROVE Inv'
    OBVIOUS
  <2>1. CASE UNCHANGED vars
    BY <2>1 DEF vars, queueVars, taskVars, mainVars, isrVars, Inv, TypeOK,
       QueueTypeOK, RearFollowsFront, Phases, Switching, TxRxExclusive
  <2>2. CASE Capture
    BY <2>2, CaptureInv
  <2>3. CASE TaskEnque
    BY <2>3, TaskEnqueInv
  <2>4. CASE AudioSignalRX
    BY <2>4, AudioSignalRXInv
  <2>5. CASE Smain
    BY <2>5, SmainInv
  <2>6. CASE ArmCommands \/ ArmReadsReply \/ ArmReadsPipe
    BY <2>6, ArmInv
  <2> QED BY <2>1, <2>2, <2>3, <2>4, <2>5, <2>6 DEF Next
<1> QED BY <1>1, InitInv, PTL DEF Spec

\* Every variable of the receive path keeps its type.
THEOREM TypeCorrect == Spec => []TypeOK
BY InvAlways, PTL DEF Inv

\* The two directions are never on together, not even for an interrupt that
\* comes in the middle of a switch.
THEOREM Exclusion == Spec => []TxRxExclusive
BY InvAlways, PTL DEF Inv
-----------------------------------------------------------------------------
\* A step of the application is an operation of the queue or leaves it alone.
LEMMA StepUsesQueue ==
    ASSUME Inv, [Next]_vars
    PROVE  [QueueNext]_queueVars
<1>1. CASE Enqueue
  <2>1. Head(buf16) \in Sample
    BY <1>1 DEF Enqueue, Inv, TypeOK, Phases
  <2> QED BY <1>1, <2>1 DEF Enqueue, QueueNext
<1>2. CASE RxStart
  BY <1>2 DEF RxStart, QueueNext
<1>3. CASE RxTake
  BY <1>3 DEF RxTake, QueueNext
<1>4. CASE Capture \/ EnqPend \/ EnqBlock \/ Extract
  BY <1>4 DEF Capture, EnqPend, EnqBlock, Extract
<1>5. CASE RxBegin \/ RxSleep \/ RxSend
  BY <1>5 DEF RxBegin, RxSleep, RxSend, RxDrop, RxRefused, RxUnreleased, RxSent, Sending
<1>6. CASE Smain
  BY <1>6 DEF Smain, TxBegin, TxOn, RxModeBegin, RxModeOn, Answer, AnswerLater,
     AnswerNow
<1>7. CASE ArmCommands \/ ArmReadsReply \/ ArmReadsPipe
  BY <1>7 DEF ArmCommands, ArmReadsReply, ArmReadsPipe
<1>8. CASE UNCHANGED vars
  BY <1>8 DEF vars
<1> QED BY <1>1, <1>2, <1>3, <1>4, <1>5, <1>6, <1>7, <1>8
        DEF Next, TaskEnque, AudioSignalRX

\* The tasks, whatever their interleaving, use the ring of samples as a bounded
\* first-in first-out queue.
THEOREM QueueRefined == Spec => QueueIsFifo
<1>1. Init => QueueInit
  BY DEF Init
<1>2. Inv /\ [Next]_vars => [QueueNext]_queueVars
  BY StepUsesQueue
<1>3. Spec => QueueSpec
  BY <1>1, <1>2, InvAlways, PTL DEF Spec, QueueSpec
<1> QED BY <1>3, Refinement
-----------------------------------------------------------------------------
(***************************************************************************)
(* Audio never goes back in time.  The samples are followed through the    *)
(* four places they can be in: the last one taken h, the queue c, buf_16 b *)
(* and the capture buffer t.                                               *)
(***************************************************************************)
Ord(h, c, b, t) ==
    /\ \A i, j \in 1 .. Len(c) : i < j => c[i] <= c[j]
    /\ \A i, j \in 1 .. Len(b) : i < j => b[i] <= b[j]
    /\ \A i \in 1 .. Len(c), j \in 1 .. Len(b) : c[i] <= b[j]
    /\ \A i \in 1 .. Len(c) : h <= c[i] /\ c[i] <= t
    /\ \A j \in 1 .. Len(b) : h <= b[j] /\ b[j] <= t
    /\ h <= t

\* The oldest sample of b moves to the end of c, or is dropped.
LEMMA OrdEnqueue ==
    ASSUME NEW h \in Nat, NEW c \in Seq(Nat), NEW b \in Seq(Nat), NEW t \in Nat,
           b # <<>>, Ord(h, c, b, t)
    PROVE  Ord(h, Append(c, Head(b)), Tail(b), t) /\ Ord(h, c, Tail(b), t)
<1>1. /\ Len(b) \in Nat \ {0} /\ Head(b) = b[1] /\ Head(b) \in Nat
      /\ Tail(b) \in Seq(Nat) /\ Len(Tail(b)) = Len(b) - 1
      /\ \A j \in 1 .. Len(b) - 1 : Tail(b)[j] = b[j + 1]
  OBVIOUS
<1>2. /\ \A i, j \in 1 .. Len(Tail(b)) : i < j => Tail(b)[i] <= Tail(b)[j]
      /\ \A i \in 1 .. Len(c), j \in 1 .. Len(Tail(b)) : c[i] <= Tail(b)[j]
      /\ \A j \in 1 .. Len(Tail(b)) : h <= Tail(b)[j] /\ Tail(b)[j] <= t
      /\ \A j \in 1 .. Len(Tail(b)) : Head(b) <= Tail(b)[j]
  BY <1>1 DEF Ord
<1>3. Ord(h, c, Tail(b), t)
  BY <1>2 DEF Ord
<1> DEFINE a == Append(c, Head(b))
<1>4. /\ Len(c) \in Nat /\ Len(a) = Len(c) + 1
      /\ \A i \in 1 .. Len(c) : a[i] = c[i]
      /\ a[Len(c) + 1] = b[1]
  BY <1>1
<1>5. \A i \in 1 .. Len(c) : c[i] \in Nat /\ c[i] <= b[1]
  BY <1>1 DEF Ord
<1>6. h <= b[1] /\ b[1] <= t /\ b[1] \in Nat
  BY <1>1 DEF Ord
<1> HIDE DEF a
<1>7. ASSUME NEW i \in 1 .. Len(a)
      PROVE  \/ i \in 1 .. Len(c) /\ a[i] = c[i]
             \/ i = Len(c) + 1 /\ a[i] = b[1]
  BY <1>4
<1>8. ASSUME NEW i \in 1 .. Len(a), NEW j \in 1 .. Len(a), i < j
      PROVE  a[i] <= a[j]
  <2>1. i \in 1 .. Len(c) /\ a[i] = c[i]
    BY <1>4, <1>8
  <2>2. CASE j \in 1 .. Len(c)
    <3>1. c[i] <= c[j]
      BY <2>1, <2>2, <1>8 DEF Ord
    <3> QED BY <3>1, <2>1, <2>2, <1>4
  <2>3. CASE j = Len(c) + 1
    BY <2>1, <2>3, <1>4, <1>5
  <2> QED BY <2>2, <2>3, <1>7
<1>9. ASSUME NEW i \in 1 .. Len(a)
      PROVE  /\ \A j \in 1 .. Len(Tail(b)) : a[i] <= Tail(b)[j]
             /\ h <= a[i] /\ a[i] <= t
  <2>1. CASE i \in 1 .. Len(c) /\ a[i] = c[i]
    <3>1. /\ \A j \in 1 .. Len(Tail(b)) : c[i] <= Tail(b)[j]
          /\ h <= c[i] /\ c[i] <= t
      BY <2>1, <1>2 DEF Ord
    <3> QED BY <3>1, <2>1
  <2>2. CASE i = Len(c) + 1 /\ a[i] = b[1]
    BY <2>2, <1>1, <1>2, <1>6
  <2> QED BY <2>1, <2>2, <1>7
<1>10. \A i, j \in 1 .. Len(a) : i < j => a[i] <= a[j]
  BY <1>8
<1>11. Ord(h, a, Tail(b), t)
  BY <1>2, <1>9, <1>10 DEF Ord
<1> QED BY <1>3, <1>11 DEF a

\* The oldest sample of c is taken.
LEMMA OrdTake ==
    ASSUME NEW h \in Nat, NEW c \in Seq(Nat), NEW b \in Seq(Nat), NEW t \in Nat,
           c # <<>>, Ord(h, c, b, t)
    PROVE  Ord(c[1], Tail(c), b, t) /\ h <= c[1]
<1>1. /\ Len(c) \in Nat \ {0} /\ c[1] \in Nat
      /\ Tail(c) \in Seq(Nat) /\ Len(Tail(c)) = Len(c) - 1
      /\ \A i \in 1 .. Len(c) - 1 : Tail(c)[i] = c[i + 1]
  OBVIOUS
<1>2. ASSUME NEW i \in 1 .. Len(Tail(c))
      PROVE  Tail(c)[i] = c[i + 1] /\ i + 1 \in 1 .. Len(c) /\ 1 < i + 1
             /\ c[i + 1] \in Nat
  BY <1>1
<1>3. /\ \A i, j \in 1 .. Len(Tail(c)) : i < j => Tail(c)[i] <= Tail(c)[j]
      /\ \A i \in 1 .. Len(Tail(c)), j \in 1 .. Len(b) : Tail(c)[i] <= b[j]
  <2>1. ASSUME NEW i \in 1 .. Len(Tail(c)), NEW j \in 1 .. Len(Tail(c)), i < j
        PROVE  Tail(c)[i] <= Tail(c)[j]
    <3>1. i + 1 \in 1 .. Len(c) /\ j + 1 \in 1 .. Len(c) /\ i + 1 < j + 1
      BY <2>1, <1>1
    <3>2. c[i + 1] <= c[j + 1]
      BY <3>1 DEF Ord
    <3> QED BY <3>2, <1>2
  <2>2. ASSUME NEW i \in 1 .. Len(Tail(c)), NEW j \in 1 .. Len(b)
        PROVE  Tail(c)[i] <= b[j]
    BY <1>2 DEF Ord
  <2> QED BY <2>1, <2>2
<1>4. ASSUME NEW i \in 1 .. Len(Tail(c))
      PROVE  c[1] <= Tail(c)[i] /\ Tail(c)[i] <= t
  <2>1. 1 \in 1 .. Len(c)
    BY <1>1
  <2>2. c[1] <= c[i + 1] /\ c[i + 1] <= t
    BY <1>2, <2>1 DEF Ord
  <2> QED BY <2>2, <1>2
<1>5. /\ \A j \in 1 .. Len(b) : c[1] <= b[j] /\ b[j] <= t
      /\ c[1] <= t /\ h <= c[1]
  BY <1>1 DEF Ord
<1>6. \A i, j \in 1 .. Len(b) : i < j => b[i] <= b[j]
  BY DEF Ord
<1> QED BY <1>2, <1>3, <1>4, <1>5, <1>6 DEF Ord

\* A sample of the capture buffer is appended to b.
LEMMA OrdExtract ==
    ASSUME NEW h \in Nat, NEW c \in Seq(Nat), NEW b \in Seq(Nat), NEW t \in Nat,
           Ord(h, c, b, t)
    PROVE  Ord(h, c, Append(b, t), t)
<1> DEFINE a == Append(b, t)
<1>1. /\ Len(b) \in Nat /\ Len(a) = Len(b) + 1
      /\ \A i \in 1 .. Len(b) : a[i] = b[i]
      /\ a[Len(b) + 1] = t
  OBVIOUS
<1> HIDE DEF a
<1>2. ASSUME NEW i \in 1 .. Len(a), NEW j \in 1 .. Len(a), i < j
      PROVE  a[i] <= a[j]
  <2>1. i \in 1 .. Len(b) /\ a[i] = b[i] /\ b[i] \in Nat
    BY <1>1, <1>2
  <2>2. CASE j \in 1 .. Len(b)
    <3>1. b[i] <= b[j]
      BY <2>1, <2>2, <1>2 DEF Ord
    <3> QED BY <3>1, <2>1, <2>2, <1>1
  <2>3. CASE j = Len(b) + 1
    <3>1. b[i] <= t
      BY <2>1 DEF Ord
    <3> QED BY <3>1, <2>1, <2>3, <1>1
  <2> QED BY <2>2, <2>3, <1>1
<1>3. ASSUME NEW j \in 1 .. Len(a)
      PROVE  /\ \A i \in 1 .. Len(c) : c[i] <= a[j]
             /\ h <= a[j] /\ a[j] <= t
  <2>1. CASE j \in 1 .. Len(b)
    <3>1. /\ \A i \in 1 .. Len(c) : c[i] <= b[j]
          /\ h <= b[j] /\ b[j] <= t
      BY <2>1 DEF Ord
    <3> QED BY <3>1, <2>1, <1>1
  <2>2. CASE j = Len(b) + 1
    <3>1. /\ \A i \in 1 .. Len(c) : c[i] <= t
          /\ h <= t /\ t <= t
      BY DEF Ord
    <3> QED BY <3>1, <2>2, <1>1
  <2> QED BY <2>1, <2>2, <1>1
<1>4. \A i, j \in 1 .. Len(a) : i < j => a[i] <= a[j]
  BY <1>2
<1>5. Ord(h, c, a, t)
  BY <1>2, <1>3, <1>4 DEF Ord
<1> QED BY <1>5 DEF a

\* A newer block is captured; the queue is emptied.
LEMMA OrdCapture ==
    ASSUME NEW h \in Nat, NEW c \in Seq(Nat), NEW b \in Seq(Nat), NEW t \in Nat,
           Ord(h, c, b, t)
    PROVE  Ord(h, c, b, t + 1) /\ Ord(h, <<>>, b, t)
<1>1. /\ \A i \in 1 .. Len(c) : c[i] \in Nat
      /\ \A j \in 1 .. Len(b) : b[j] \in Nat
  OBVIOUS
<1>2. Ord(h, c, b, t + 1)
  BY <1>1 DEF Ord
<1>3. Len(<<>>) = 0
  OBVIOUS
<1>4. Ord(h, <<>>, b, t)
  BY <1>3 DEF Ord
<1> QED BY <1>2, <1>4

\* Sequences in order, one before the other, and their concatenation.
Sorted(s) == \A i, j \in 1 .. Len(s) : i < j => s[i] <= s[j]
Before(s, u) == \A i \in 1 .. Len(s), j \in 1 .. Len(u) : s[i] <= u[j]

LEMMA ConcatElements ==
    ASSUME NEW s \in Seq(Nat), NEW u \in Seq(Nat)
    PROVE  /\ s \o u \in Seq(Nat) /\ Len(s \o u) = Len(s) + Len(u)
           /\ \A i \in 1 .. Len(s \o u) :
                 \/ i \in 1 .. Len(s) /\ (s \o u)[i] = s[i]
                 \/ i - Len(s) \in 1 .. Len(u) /\ (s \o u)[i] = u[i - Len(s)]
OBVIOUS

LEMMA SortedConcat ==
    ASSUME NEW s \in Seq(Nat), NEW u \in Seq(Nat),
           Sorted(s), Sorted(u), Before(s, u)
    PROVE  Sorted(s \o u)
<1> SUFFICES ASSUME NEW i \in 1 .. Len(s \o u), NEW j \in 1 .. Len(s \o u), i < j
             PROVE  (s \o u)[i] <= (s \o u)[j]
  BY DEF Sorted
<1>1. Len(s) \in Nat /\ Len(u) \in Nat
  OBVIOUS
<1>2. CASE j \in 1 .. Len(s) /\ (s \o u)[j] = s[j]
  <2>1. i \in 1 .. Len(s) /\ ~(i - Len(s) \in 1 .. Len(u))
    BY <1>1, <1>2
  <2> QED BY <1>2, <2>1, ConcatElements DEF Sorted
<1>3. CASE j - Len(s) \in 1 .. Len(u) /\ (s \o u)[j] = u[j - Len(s)]
  <2>1. CASE i \in 1 .. Len(s) /\ (s \o u)[i] = s[i]
    BY <1>3, <2>1 DEF Before
  <2>2. CASE i - Len(s) \in 1 .. Len(u) /\ (s \o u)[i] = u[i - Len(s)]
    <3>1. i - Len(s) < j - Len(s)
      BY <1>1
    <3> QED BY <1>3, <2>2, <3>1 DEF Sorted
  <2> QED BY <2>1, <2>2, ConcatElements
<1> QED BY <1>2, <1>3, ConcatElements

LEMMA BeforeConcat ==
    ASSUME NEW s \in Seq(Nat), NEW u \in Seq(Nat), NEW v \in Seq(Nat),
           Before(s, v), Before(u, v)
    PROVE  Before(s \o u, v)
<1> SUFFICES ASSUME NEW i \in 1 .. Len(s \o u), NEW j \in 1 .. Len(v)
             PROVE  (s \o u)[i] <= v[j]
  BY DEF Before
<1>1. CASE i \in 1 .. Len(s) /\ (s \o u)[i] = s[i]
  BY <1>1 DEF Before
<1>2. CASE i - Len(s) \in 1 .. Len(u) /\ (s \o u)[i] = u[i - Len(s)]
  BY <1>2 DEF Before
<1> QED BY <1>1, <1>2, ConcatElements

LEMMA OrdSorted ==
    ASSUME NEW h \in Nat, NEW c \in Seq(Nat), NEW b \in Seq(Nat), NEW t \in Nat,
           Ord(h, c, b, t)
    PROVE  Sorted(<<h>> \o c \o b \o <<t>>)
<1> DEFINE x == <<h>>  z == <<t>>
<1>1. /\ x \in Seq(Nat) /\ Len(x) = 1 /\ x[1] = h
      /\ z \in Seq(Nat) /\ Len(z) = 1 /\ z[1] = t
  OBVIOUS
<1> HIDE DEF x, z
<1>2. Sorted(x) /\ Sorted(z)
  BY <1>1 DEF Sorted
<1>3. Sorted(c) /\ Sorted(b)
  BY DEF Ord, Sorted
<1>4. Before(x, c) /\ Before(x, b) /\ Before(x, z)
  BY <1>1 DEF Ord, Before
<1>5. Before(c, b) /\ Before(c, z) /\ Before(b, z)
  BY <1>1 DEF Ord, Before
<1>6. x \o c \in Seq(Nat) /\ Sorted(x \o c)
      /\ Before(x \o c, b) /\ Before(x \o c, z)
  BY <1>1, <1>2, <1>3, <1>4, <1>5, ConcatElements, SortedConcat, BeforeConcat
<1> DEFINE y == x \o c
<1> HIDE DEF y
<1>7. y \in Seq(Nat) /\ Sorted(y) /\ Before(y, b) /\ Before(y, z)
  BY <1>6 DEF y
<1>8. y \o b \in Seq(Nat) /\ Sorted(y \o b) /\ Before(y \o b, z)
  BY <1>1, <1>3, <1>5, <1>7, ConcatElements, SortedConcat, BeforeConcat
<1> DEFINE w == y \o b
<1> HIDE DEF w
<1>9. w \in Seq(Nat) /\ Sorted(w) /\ Before(w, z)
  BY <1>8 DEF w
<1>10. Sorted(w \o z)
  BY <1>1, <1>2, <1>9, SortedConcat
<1> QED BY <1>10 DEF w, y, x, z

\* While a chunk is taken, the queue holds the rest of it.
OrderInv ==
    /\ Ord(heard, Content, buf16, captured)
    /\ rx = "take" => left <= capacity

LEMMA OrderTypes ==
    ASSUME Inv
    PROVE  /\ heard \in Nat /\ captured \in Nat /\ capacity \in Nat
           /\ Content \in Seq(Nat) /\ buf16 \in Seq(Nat)
           /\ Len(Content) = capacity /\ Chunk \in Nat
<1>1. Content \in Seq(Sample) /\ Len(Content) = capacity
  BY InvQInv, ContentSeq
<1>2. \A e \in Sample : e \in Nat
  BY AppAssumption
<1>3. \A q \in Seq(Sample) : q \in Seq(Nat)
  BY <1>2
<1> QED BY <1>1, <1>2, <1>3, SizeAssumption, AppAssumption
        DEF Inv, TypeOK, QueueTypeOK

LEMMA InitOrder == Init => OrderInv
<1> SUFFICES ASSUME Init PROVE OrderInv
  OBVIOUS
<1>1. Content = <<>>
  BY DEF Init, QueueInit, Content
<1>2. /\ Len(Content) = 0 /\ Len(buf16) = 0
      /\ heard = 0 /\ captured = 0 /\ rx # "take"
  BY <1>1 DEF Init, ERROR
<1> QED BY <1>2 DEF OrderInv, Ord

LEMMA ContentKept == UNCHANGED queueVars => UNCHANGED Content
BY DEF queueVars, Content, AudioQueuePoll

\* Every step keeps the samples in order and never takes an older one.
LEMMA StepKeepsOrder ==
    ASSUME Inv, OrderInv, [Next]_vars
    PROVE  OrderInv' /\ heard' >= heard
<1>1. /\ heard \in Nat /\ captured \in Nat /\ capacity \in Nat
      /\ Content \in Seq(Nat) /\ buf16 \in Seq(Nat)
      /\ Len(Content) = capacity /\ Chunk \in Nat
      /\ Ord(heard, Content, buf16, captured)
  BY OrderTypes DEF OrderInv
<1>2. CASE Capture
  <2>1. UNCHANGED <<Content, capacity, heard, buf16, rx, left>>
        /\ captured' \in {captured, captured + 1}
    BY <1>2, ContentKept DEF Capture, taskVars, queueVars
  <2>2. Ord(heard, Content, buf16, captured + 1)
    BY <1>1, OrdCapture
  <2> QED BY <1>1, <2>1, <2>2 DEF OrderInv
<1>3. CASE Extract
  <2>1. UNCHANGED <<Content, capacity, heard, captured, rx, left>>
        /\ buf16' = Append(buf16, captured)
    BY <1>3, ContentKept DEF Extract, isrVars, queueVars
  <2>2. Ord(heard, Content, Append(buf16, captured), captured)
    BY <1>1, OrdExtract
  <2> QED BY <1>1, <2>1, <2>2 DEF OrderInv
<1>4. CASE Enqueue
  <2>1. buf16 # <<>> /\ Head(buf16) \in Sample
    BY <1>4 DEF Enqueue, Inv, TypeOK, Phases
  <2>2. UNCHANGED <<heard, captured, rx, left>> /\ buf16' = Tail(buf16)
    BY <1>4 DEF Enqueue, isrVars
  <2>3. Content' = Append(Content, Head(buf16)) \/ Content' = Content
    BY <1>4, <2>1, InvQInv, EnAudioQueuePuts DEF Enqueue, Fifo!Put
  <2>4. capacity' = capacity + 1 \/ capacity' = capacity
    BY <1>4 DEF Enqueue, EnAudioQueue, queueVars
  <2>5. /\ Ord(heard, Append(Content, Head(buf16)), Tail(buf16), captured)
        /\ Ord(heard, Content, Tail(buf16), captured)
    BY <1>1, <2>1, OrdEnqueue
  <2>6. Ord(heard', Content', buf16', captured')
    BY <2>2, <2>3, <2>5
  <2>7. rx' = "take" => left' <= capacity'
    BY <1>1, <2>2, <2>4 DEF OrderInv, Inv, TypeOK
  <2> QED BY <1>1, <2>2, <2>6, <2>7 DEF OrderInv
<1>5. CASE RxStart
  <2>1. UNCHANGED <<heard, captured, buf16>> /\ rx' = "check"
    BY <1>5 DEF RxStart, isrVars
  <2>2. Content' = <<>>
    BY <1>5, FlushEmpties DEF RxStart, Fifo!Flush
  <2>3. Ord(heard, <<>>, buf16, captured)
    BY <1>1, OrdCapture
  <2> QED BY <1>1, <2>1, <2>2, <2>3 DEF OrderInv
<1>6. CASE RxBegin
  BY <1>1, <1>6, ContentKept DEF RxBegin, queueVars, isrVars, OrderInv
<1>7. CASE RxTake
  <2>1. PICK d \in Sample : DeAudioQueue(d) /\ heard' = d
    BY <1>7 DEF RxTake
  <2>2. /\ left \in 1 .. Chunk /\ left <= capacity
        /\ left' = left - 1
        /\ UNCHANGED <<buf16, captured>>
    BY <1>7 DEF RxTake, isrVars, OrderInv, Inv, Phases
  <2>3. capacity # 0
    BY <1>1, <2>2
  <2>4. d = buf[front] /\ capacity' = capacity - 1
    BY <2>1, <2>3 DEF DeAudioQueue
  <2>5. d = Content[1]
    <3>1. 1 \in 1 .. capacity /\ front \in Nat /\ front + 1 - 1 = front
          /\ front < Size /\ Size \in Nat \ {0}
      BY <1>1, <2>3, SizeAssumption DEF Inv, TypeOK, QueueTypeOK, Position
    <3> QED BY <2>4, <3>1, InvQInv, ContentAt
  <2>6. Content' = Tail(Content)
    <3>1. Content' # Content
      <4>1. DOMAIN Content = 1 .. capacity /\ DOMAIN Content' = 1 .. capacity'
        BY DEF Content
      <4>2. capacity \in 1 .. capacity /\ ~(capacity \in 1 .. capacity')
        BY <1>1, <2>3, <2>4
      <4> QED BY <4>1, <4>2
    <3> QED BY <2>1, <3>1, InvQInv, DeAudioQueueGets DEF Fifo!Get
  <2>7. Content # <<>>
    BY <1>1, <2>3
  <2>8. Ord(Content[1], Tail(Content), buf16, captured) /\ heard <= Content[1]
        /\ Content[1] \in Nat
    BY <1>1, <2>7, OrdTake
  <2>9. left' <= capacity'
    BY <1>1, <2>2, <2>4
  <2> QED BY <1>1, <2>1, <2>2, <2>5, <2>6, <2>8, <2>9 DEF OrderInv
<1>8. CASE EnqPend \/ EnqBlock \/ RxSleep \/ RxSend \/ Smain \/ ArmCommands
           \/ ArmReadsReply \/ ArmReadsPipe \/ UNCHANGED vars
  <2>1. UNCHANGED queueVars /\ UNCHANGED <<heard, buf16, captured, left>>
    BY <1>8 DEF EnqPend, EnqBlock, RxSleep, RxSend, RxDrop, RxRefused, RxUnreleased,
       RxSent, Sending, Smain, TxBegin, TxOn,
       RxModeBegin, RxModeOn, Answer, AnswerLater, AnswerNow, ArmCommands,
       ArmReadsReply, ArmReadsPipe, vars, taskVars, isrVars
  <2>2. rx' = "take" => rx = "take"
    BY <1>8 DEF EnqPend, EnqBlock, RxSleep, RxSend, RxDrop, RxRefused, RxUnreleased,
       RxSent, Sending, Smain, TxBegin, TxOn,
       RxModeBegin, RxModeOn, Answer, AnswerLater, AnswerNow, ArmCommands,
       ArmReadsReply, ArmReadsPipe, vars, taskVars, isrVars
  <2> QED BY <1>1, <2>1, <2>2, ContentKept DEF OrderInv, queueVars
<1> QED BY <1>2, <1>3, <1>4, <1>5, <1>6, <1>7, <1>8
        DEF Next, TaskEnque, AudioSignalRX

\* Audio never goes back in time and a chunk is never begun without the samples
\* for it: torn, repeated or cut blocks notwithstanding.
THEOREM InOrderAlways == Spec => SamplesInOrder
<1>1. Inv /\ OrderInv /\ [Next]_vars => OrderInv' /\ [heard' >= heard]_vars
  BY StepKeepsOrder
<1>2. Inv /\ OrderInv => InOrder
  BY OrderTypes, OrdSorted DEF OrderInv, InOrder, InFlight, Sorted
<1> QED BY <1>1, <1>2, InitOrder, InvAlways, PTL DEF Spec, SamplesInOrder
-----------------------------------------------------------------------------
(***************************************************************************)
(* The deadline.  As samples bear the number of their block, a block is    *)
(* queued at most once when samples a block apart differ; that is          *)
(* inductive over the queue c and buf_16 b, where a count is not.          *)
(***************************************************************************)
Apart(c, b) ==
    /\ \A i, j \in 1 .. Len(c) : j >= i + Block => c[i] < c[j]
    /\ \A i \in 1 .. Len(c), j \in 1 .. Len(b) :
          Len(c) + j >= i + Block => c[i] < b[j]

Below(c, t) == \A i \in 1 .. Len(c) : c[i] < t

\* The oldest sample of b moves to the end of c, or is dropped.
LEMMA ApartEnqueue ==
    ASSUME NEW c \in Seq(Nat), NEW b \in Seq(Nat), b # <<>>, Len(b) <= Block,
           Apart(c, b)
    PROVE  Apart(Append(c, Head(b)), Tail(b)) /\ Apart(c, Tail(b))
<1> DEFINE a == Append(c, Head(b))
           r == Tail(b)
           n == Len(c)
           m == Len(b)
<1>1. /\ m \in Nat \ {0} /\ Block \in Nat \ {0} /\ m <= Block
      /\ r \in Seq(Nat) /\ Len(r) = m - 1
      /\ \A j \in 1 .. m - 1 : r[j] = b[j + 1]
  BY AppAssumption
<1>2. /\ n \in Nat /\ Len(a) = n + 1
      /\ \A i \in 1 .. n : a[i] = c[i]
      /\ a[n + 1] = b[1]
  OBVIOUS
<1>3. /\ \A i, j \in 1 .. n : j >= i + Block => c[i] < c[j]
      /\ \A i \in 1 .. n, j \in 1 .. m : n + j >= i + Block => c[i] < b[j]
  BY DEF Apart
<1> HIDE DEF a, r, n, m
<1>4. ASSUME NEW i \in 1 .. n, NEW j \in 1 .. m - 1, n + j + 1 >= i + Block
      PROVE  c[i] < r[j]
  <2>1. m \in Nat \ {0} /\ n \in Nat /\ Block \in Nat
    BY <1>1, <1>2
  <2>2. j + 1 \in 1 .. m /\ n + (j + 1) >= i + Block
    BY <1>4, <2>1
  <2> QED BY <1>1, <1>3, <2>2
<1>5. Apart(c, r)
  BY <1>1, <1>2, <1>3, <1>4 DEF Apart, n
<1>6. ASSUME NEW i \in 1 .. n + 1, NEW j \in 1 .. n + 1, j >= i + Block
      PROVE  a[i] < a[j]
  <2>1. i \in 1 .. n /\ a[i] = c[i]
    BY <1>1, <1>2, <1>6
  <2>2. CASE j \in 1 .. n
    BY <1>2, <1>3, <1>6, <2>1, <2>2
  <2>3. CASE j = n + 1
    <3>1. 1 \in 1 .. m /\ n + 1 >= i + Block
      BY <1>1, <1>6, <2>3
    <3>2. c[i] < b[1]
      BY <1>3, <2>1, <3>1
    <3> QED BY <1>2, <2>1, <2>3, <3>2
  <2> QED BY <1>2, <2>2, <2>3
<1>7. ASSUME NEW i \in 1 .. n + 1, NEW j \in 1 .. m - 1, n + 1 + j >= i + Block
      PROVE  a[i] < r[j]
  <2>1. i \in 1 .. n
    BY <1>1, <1>2, <1>7
  <2>2. n + j + 1 >= i + Block
    BY <1>1, <1>2, <1>7
  <2> QED BY <1>2, <1>4, <2>1, <2>2
<1>8. Apart(a, r)
  BY <1>1, <1>2, <1>6, <1>7 DEF Apart
<1> QED BY <1>5, <1>8 DEF a, r

\* The oldest sample of c is taken; c is emptied.
LEMMA ApartTake ==
    ASSUME NEW c \in Seq(Nat), NEW b \in Seq(Nat), Apart(c, b)
    PROVE  Apart(<<>>, b) /\ (c # <<>> => Apart(Tail(c), b))
<1>1. Apart(<<>>, b)
  BY Len(<<>>) = 0 DEF Apart
<1>2. CASE c # <<>>
  <2> DEFINE r == Tail(c)
             n == Len(c)
             m == Len(b)
  <2>1. /\ n \in Nat \ {0} /\ m \in Nat /\ Len(r) = n - 1 /\ Block \in Nat
        /\ \A i \in 1 .. n - 1 : r[i] = c[i + 1]
    BY <1>2, AppAssumption
  <2>2. /\ \A i, j \in 1 .. n : j >= i + Block => c[i] < c[j]
        /\ \A i \in 1 .. n, j \in 1 .. m : n + j >= i + Block => c[i] < b[j]
    BY DEF Apart
  <2> HIDE DEF r, n, m
  <2>3. ASSUME NEW i \in 1 .. n - 1, NEW j \in 1 .. n - 1, j >= i + Block
        PROVE  r[i] < r[j]
    <3>1. i + 1 \in 1 .. n /\ j + 1 \in 1 .. n /\ j + 1 >= (i + 1) + Block
      BY <2>1, <2>3
    <3>2. c[i + 1] < c[j + 1]
      BY <2>2, <3>1
    <3> QED BY <2>1, <3>2
  <2>4. ASSUME NEW i \in 1 .. n - 1, NEW j \in 1 .. m, n - 1 + j >= i + Block
        PROVE  r[i] < b[j]
    <3>1. i + 1 \in 1 .. n /\ n + j >= (i + 1) + Block
      BY <2>1, <2>4
    <3>2. c[i + 1] < b[j]
      BY <2>2, <3>1
    <3> QED BY <2>1, <3>2
  <2>5. Apart(r, b)
    BY <2>1, <2>3, <2>4 DEF Apart, m
  <2> QED BY <1>1, <2>5 DEF r
<1> QED BY <1>1, <1>2

\* A sample of a block of which c has none is appended to b.
LEMMA ApartExtract ==
    ASSUME NEW c \in Seq(Nat), NEW b \in Seq(Nat), NEW t \in Nat,
           Apart(c, b), Below(c, t)
    PROVE  Apart(c, Append(b, t))
<1> DEFINE a == Append(b, t)
           m == Len(b)
<1>1. /\ m \in Nat /\ Len(a) = m + 1 /\ a[m + 1] = t
      /\ \A j \in 1 .. m : a[j] = b[j]
  OBVIOUS
<1> HIDE DEF a
<1>2. ASSUME NEW i \in 1 .. Len(c), NEW j \in 1 .. m + 1, Len(c) + j >= i + Block
      PROVE  c[i] < a[j]
  <2>1. CASE j \in 1 .. m
    BY <1>1, <1>2, <2>1 DEF Apart
  <2>2. CASE j = m + 1
    BY <1>1, <2>2 DEF Below
  <2> HIDE DEF m
  <2> QED BY <1>1, <2>1, <2>2
<1>3. Apart(c, a)
  BY <1>1, <1>2 DEF Apart
<1> QED BY <1>3 DEF a

LEMMA LeastNumber ==
    ASSUME NEW S \in SUBSET Nat, S # {}
    PROVE  \E x \in S : \A y \in S : x <= y
<1>1. PICK x \in S : \A y \in S : <<y, x>> \notin OpToRel(<, Nat)
  BY WFMin, NatLessThanWellFounded
<1>2. \A y \in S : ~(y < x)
  BY <1>1 DEF OpToRel
<1> QED BY <1>2

\* A set of positions that are less than a block apart.
LEMMA WithinBlock ==
    ASSUME NEW S \in SUBSET Nat, \A i, j \in S : i < j => j < i + Block
    PROVE  Cardinality(S) <= Block
<1>0. Block \in Nat \ {0}
  BY AppAssumption
<1>1. CASE S = {}
  BY <1>0, <1>1, FS_EmptySet
<1>2. CASE S # {}
  <2>1. PICK k \in S : \A i \in S : k <= i
    BY <1>2, LeastNumber
  <2>2. k \in Nat
    BY <2>1
  <2>3. S \subseteq k .. k + Block - 1
    <3> SUFFICES ASSUME NEW i \in S PROVE i \in k .. k + Block - 1
      OBVIOUS
    <3>1. k <= i /\ i \in Nat /\ (k < i => i < k + Block)
      BY <2>1
    <3> QED BY <1>0, <2>2, <3>1
  <2>4. /\ IsFiniteSet(k .. k + Block - 1)
        /\ Cardinality(k .. k + Block - 1) = Block
    <3>1. k \in Int /\ k + Block - 1 \in Int /\ ~(k > k + Block - 1)
          /\ (k + Block - 1) - k + 1 = Block
      BY <1>0, <2>2
    <3> QED BY <3>1, FS_Interval
  <2> QED BY <2>3, <2>4, FS_Subset
<1> QED BY <1>1, <1>2

LEMMA ApartCounts ==
    ASSUME NEW c \in Seq(Nat), NEW b \in Seq(Nat), Len(b) <= Block, Apart(c, b),
           NEW v
    PROVE  Cardinality({i \in 1 .. Len(c \o b) : (c \o b)[i] = v}) <= Block
<1> DEFINE w == c \o b
           n == Len(c)
           m == Len(b)
           S == {i \in 1 .. Len(w) : w[i] = v}
<1>1. /\ n \in Nat /\ m \in Nat /\ m <= Block /\ Len(w) = n + m /\ Block \in Nat
      /\ \A i \in 1 .. n + m : \/ i \in 1 .. n /\ w[i] = c[i]
                               \/ i - n \in 1 .. m /\ w[i] = b[i - n]
  BY ConcatElements, AppAssumption
<1>2. /\ \A i, j \in 1 .. n : j >= i + Block => c[i] < c[j]
      /\ \A i \in 1 .. n, j \in 1 .. m : n + j >= i + Block => c[i] < b[j]
  BY DEF Apart
<1>3. \A i \in 1 .. n : c[i] \in Nat
  OBVIOUS
<1> HIDE DEF w, n, m
<1>4. ASSUME NEW i \in S, NEW j \in S, i < j
      PROVE  j < i + Block
  <2> SUFFICES ASSUME j >= i + Block PROVE FALSE
    BY <1>1
  <2>1. i \in 1 .. n + m /\ j \in 1 .. n + m /\ w[i] = v /\ w[j] = v
    BY <1>1
  <2>2. i \in 1 .. n /\ w[i] = c[i] /\ c[i] \in Nat
    <3>1. ~(i - n \in 1 .. m)
      BY <1>1, <2>1
    <3> QED BY <1>1, <1>3, <2>1, <3>1
  <2>3. CASE j \in 1 .. n /\ w[j] = c[j]
    <3>1. c[i] < c[j]
      BY <1>2, <2>2, <2>3
    <3> QED BY <2>1, <2>2, <2>3, <3>1
  <2>4. CASE j - n \in 1 .. m /\ w[j] = b[j - n]
    <3>1. n + (j - n) >= i + Block
      BY <1>1, <2>1
    <3>2. c[i] < b[j - n]
      BY <1>2, <2>2, <2>4, <3>1
    <3> QED BY <2>1, <2>2, <2>4, <3>2
  <2> QED BY <1>1, <2>1, <2>3, <2>4
<1>5. S \in SUBSET Nat
  BY <1>1
<1> HIDE DEF S
<1>6. Cardinality(S) <= Block
  BY <1>4, <1>5, WithinBlock
<1> QED BY <1>6 DEF S, w

\* While every block was extracted in time: a block not extracted yet is new to the
\* queue and buf_16, and one that is being extracted is new to the queue.
OnceInv ==
    ~late =>
        /\ Apart(Content, buf16)
        /\ sem1 <= 1
        /\ sem1 > 0 => /\ enq # "extract"
                       /\ Below(Content, captured) /\ Below(buf16, captured)
        /\ enq = "extract" => Below(Content, captured)

LEMMA InitOnce == Init => OnceInv
<1> SUFFICES ASSUME Init PROVE OnceInv
  OBVIOUS
<1>1. Content = <<>>
  BY DEF Init, QueueInit, Content
<1>2. Len(Content) = 0 /\ Len(buf16) = 0 /\ sem1 = 0 /\ enq = "pend"
  BY <1>1 DEF Init
<1> QED BY <1>2 DEF OnceInv, Apart

\* Samples that leave the queue, or go on in it, stay below the block captured.
LEMMA BelowKept ==
    ASSUME NEW c \in Seq(Nat), NEW b \in Seq(Nat), NEW t \in Nat
    PROVE  /\ Below(<<>>, t)
           /\ c # <<>> /\ Below(c, t) => Below(Tail(c), t)
           /\ b # <<>> /\ Below(c, t) /\ Below(b, t) => Below(Append(c, Head(b)), t)
<1>1. Below(<<>>, t)
  BY Len(<<>>) = 0 DEF Below
<1>2. ASSUME c # <<>>, Below(c, t) PROVE Below(Tail(c), t)
  <2>1. /\ Len(c) \in Nat \ {0} /\ Len(Tail(c)) = Len(c) - 1
        /\ \A i \in 1 .. Len(c) - 1 : Tail(c)[i] = c[i + 1]
    BY <1>2
  <2>2. \A i \in 1 .. Len(c) - 1 : i + 1 \in 1 .. Len(c)
    BY <2>1
  <2> QED BY <1>2, <2>1, <2>2 DEF Below
<1>3. ASSUME b # <<>>, Below(c, t), Below(b, t) PROVE Below(Append(c, Head(b)), t)
  <2> DEFINE a == Append(c, Head(b))
             n == Len(c)
  <2>1. /\ n \in Nat /\ Len(a) = n + 1 /\ a[n + 1] = b[1] /\ 1 \in 1 .. Len(b)
        /\ \A i \in 1 .. n : a[i] = c[i]
    BY <1>3
  <2>2. \A i \in 1 .. n : c[i] < t
    BY <1>3 DEF Below
  <2>3. b[1] < t
    BY <1>3, <2>1 DEF Below
  <2> HIDE DEF a, n
  <2>4. \A i \in 1 .. n + 1 : a[i] < t
    BY <2>1, <2>2, <2>3
  <2> QED BY <2>1, <2>4 DEF Below, a
<1> QED BY <1>1, <1>2, <1>3

LEMMA StepKeepsOnce ==
    ASSUME Inv, OrderInv, OnceInv, [Next]_vars
    PROVE  OnceInv'
<1>1. /\ captured \in Nat /\ Content \in Seq(Nat) /\ buf16 \in Seq(Nat)
      /\ Len(buf16) <= Block /\ sem1 \in Nat
      /\ Ord(heard, Content, buf16, captured)
  BY OrderTypes DEF OrderInv, Inv, TypeOK
<1>2. CASE Capture
  <2>1. /\ UNCHANGED <<Content, buf16, enq>>
        /\ captured # MaxCapture => captured' = captured + 1
        /\ late' = (late \/ sem1 > 0 \/ enq = "extract" \/ captured = MaxCapture)
        /\ sem1' \in {sem1, sem1 + 1}
    <3>1. captured # MaxCapture => captured' = captured + 1
      BY <1>2, AppAssumption DEF Capture, Inv, TypeOK
    <3>2. late' = (late \/ sem1 > 0 \/ enq = "extract" \/ captured = MaxCapture)
      BY <1>2, Zenon DEF Capture
    <3>3. UNCHANGED <<Content, buf16, enq>> /\ sem1' \in {sem1, sem1 + 1}
      BY <1>2, ContentKept DEF Capture, taskVars
    <3> QED BY <3>1, <3>2, <3>3, Zenon
  <2>2. Below(Content, captured + 1) /\ Below(buf16, captured + 1)
    <3>1. /\ \A i \in 1 .. Len(Content) : Content[i] \in Nat /\ Content[i] <= captured
          /\ \A i \in 1 .. Len(buf16) : buf16[i] \in Nat /\ buf16[i] <= captured
      BY <1>1 DEF Ord
    <3> QED BY <1>1, <3>1 DEF Below
  <2>3. ASSUME ~late'
        PROVE  sem1 = 0 /\ enq # "extract" /\ ~late /\ captured' = captured + 1
    <3>1. ~(sem1 > 0) /\ enq # "extract" /\ ~late /\ captured # MaxCapture
      BY <2>1, <2>3, Zenon
    <3> QED BY <1>1, <2>1, <3>1
  <2> QED BY <1>1, <2>1, <2>2, <2>3 DEF OnceInv
<1>3. CASE EnqPend
  <2>1. /\ UNCHANGED <<Content, buf16, captured, late>>
        /\ sem1 > 0 /\ sem1' = sem1 - 1 /\ enq' = "extract"
    BY <1>3, ContentKept DEF EnqPend
  <2> QED BY <1>1, <2>1 DEF OnceInv
<1>4. CASE Extract
  <2>1. /\ UNCHANGED <<Content, captured, late, sem1>> /\ enq = "extract"
        /\ buf16' = Append(buf16, captured) /\ enq' \in {"extract", "enqueue"}
    BY <1>4, ContentKept DEF Extract, isrVars
  <2>2. ASSUME ~late
        PROVE  sem1 = 0 /\ Below(Content, captured) /\ Apart(Content, buf16)
    BY <1>1, <2>1, <2>2 DEF OnceInv
  <2>3. ASSUME ~late PROVE Apart(Content, Append(buf16, captured))
    BY <1>1, <2>2, <2>3, ApartExtract
  <2> QED BY <2>1, <2>2, <2>3 DEF OnceInv
<1>5. CASE Enqueue
  <2>1. buf16 # <<>> /\ Head(buf16) \in Sample
    BY <1>5 DEF Enqueue, Inv, TypeOK, Phases
  <2>2. /\ UNCHANGED <<captured, late, sem1>> /\ buf16' = Tail(buf16)
        /\ enq' \in {"pend", "enqueue"}
    BY <1>5 DEF Enqueue, isrVars
  <2>3. Content' = Append(Content, Head(buf16)) \/ Content' = Content
    BY <1>5, <2>1, InvQInv, EnAudioQueuePuts DEF Enqueue, Fifo!Put
  <2>4. ASSUME ~late PROVE Apart(Content', Tail(buf16))
    BY <1>1, <2>1, <2>3, <2>4, ApartEnqueue DEF OnceInv
  <2>5. ASSUME ~late, sem1 > 0
        PROVE  Below(Content', captured) /\ Below(Tail(buf16), captured)
    <3>1. Below(Content, captured) /\ Below(buf16, captured)
      BY <2>5 DEF OnceInv
    <3>2. Below(Append(Content, Head(buf16)), captured)
      BY <1>1, <2>1, <3>1, BelowKept
    <3>3. Below(Tail(buf16), captured)
      BY <1>1, <2>1, <3>1, BelowKept
    <3> QED BY <2>3, <3>1, <3>2, <3>3
  <2> QED BY <2>2, <2>4, <2>5 DEF OnceInv
<1>6. CASE RxStart
  <2>1. UNCHANGED <<captured, late, sem1, buf16, enq>>
    BY <1>6 DEF RxStart, isrVars
  <2>2. Content' = <<>>
    BY <1>6, FlushEmpties DEF RxStart, Fifo!Flush
  <2>3. Below(<<>>, captured) /\ (~late => Apart(<<>>, buf16))
    BY <1>1, ApartTake, BelowKept DEF OnceInv
  <2> QED BY <2>1, <2>2, <2>3 DEF OnceInv
<1>7. CASE RxTake
  <2>1. PICK d \in Sample : DeAudioQueue(d) /\ heard' = d
    BY <1>7 DEF RxTake
  <2>2. UNCHANGED <<captured, late, sem1, buf16, enq>>
    BY <1>7 DEF RxTake, isrVars
  <2>3. (Content # <<>> /\ Content' = Tail(Content)) \/ Content' = Content
    BY <2>1, InvQInv, DeAudioQueueGets DEF Fifo!Get
  <2>4. ASSUME ~late PROVE Apart(Content', buf16)
    BY <1>1, <2>3, <2>4, ApartTake DEF OnceInv
  <2>5. ASSUME Below(Content, captured) PROVE Below(Content', captured)
    BY <1>1, <2>3, <2>5, BelowKept
  <2> QED BY <2>2, <2>4, <2>5 DEF OnceInv
<1>8. CASE EnqBlock \/ RxBegin \/ RxSleep \/ RxSend \/ Smain \/ ArmCommands
           \/ ArmReadsReply \/ ArmReadsPipe \/ UNCHANGED vars
  <2>1. UNCHANGED queueVars /\ UNCHANGED <<buf16, captured, late, sem1, enq>>
    BY <1>8 DEF EnqBlock, RxBegin, RxSleep, RxSend, RxDrop, RxRefused, RxUnreleased,
       RxSent, Sending, Smain, TxBegin, TxOn,
       RxModeBegin, RxModeOn, Answer, AnswerLater, AnswerNow, ArmCommands,
       ArmReadsReply, ArmReadsPipe, vars, taskVars, isrVars
  <2> QED BY <2>1, ContentKept DEF OnceInv
<1> QED BY <1>2, <1>3, <1>4, <1>5, <1>6, <1>7, <1>8
        DEF Next, TaskEnque, AudioSignalRX

\* The one capture buffer has an exact deadline: while every block is extracted before
\* the next interrupt (data_extract, mcbspAppCallback), no sample of it is in the
\* queue or in buf_16 twice, whatever the sizes and the interleaving.
THEOREM OnceWhenInTime == Spec => []OnTimeMeansOnce
<1>1. Inv /\ OrderInv /\ OnceInv /\ [Next]_vars => OrderInv' /\ OnceInv'
  BY StepKeepsOrder, StepKeepsOnce
<1>2. Inv /\ OnceInv => OnTimeMeansOnce
  BY OrderTypes, ApartCounts DEF OnceInv, OnTimeMeansOnce, Copies, Waiting, Inv, TypeOK
<1> QED BY <1>1, <1>2, InitOrder, InitOnce, InvAlways, PTL DEF Spec
=============================================================================
