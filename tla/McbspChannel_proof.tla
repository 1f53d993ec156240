-------------------------- MODULE McbspChannel_proof --------------------------
(***************************************************************************)
(* Proofs about McbspChannel for every set of buffers, both modes, every   *)
(* choice of controls and every bound MaxLate.                             *)
(***************************************************************************)
EXTENDS McbspChannel, TLAPS

-----------------------------------------------------------------------------
(***************************************************************************)
(* Lemmas about the queue operators.                                       *)
(***************************************************************************)

\* The parts of a non-empty sequence.
LEMMA TailParts ==
    ASSUME NEW S, NEW q \in Seq(S), q # <<>>
    PROVE  /\ Head(q) \in S /\ Tail(q) \in Seq(S)
           /\ Len(Tail(q)) = Len(q) - 1 /\ Len(q) \in Nat \ {0}
           /\ ToSet(q) = {Head(q)} \union ToSet(Tail(q))
           /\ ToSet(Tail(q)) \subseteq ToSet(q)
<1>1. Len(q) \in Nat \ {0} /\ Head(q) = q[1] /\ Head(q) \in S
  OBVIOUS
<1>2. /\ Tail(q) \in Seq(S) /\ Len(Tail(q)) = Len(q) - 1
      /\ \A i \in 1 .. Len(q) - 1 : Tail(q)[i] = q[i + 1]
  OBVIOUS
<1>3. DOMAIN q = 1 .. Len(q) /\ DOMAIN Tail(q) = 1 .. Len(q) - 1
  BY <1>1, <1>2
<1>4. ASSUME NEW x \in ToSet(q)
      PROVE  x \in {Head(q)} \union ToSet(Tail(q))
  <2>1. PICK i \in 1 .. Len(q) : x = q[i]
    BY <1>3, <1>4 DEF ToSet
  <2>2. CASE i = 1
    BY <2>1, <2>2, <1>1
  <2>3. CASE i # 1
    <3>1. i - 1 \in 1 .. Len(q) - 1
      BY <2>3, <1>1
    <3>2. Tail(q)[i - 1] = x
      BY <3>1, <2>1, <1>2
    <3> QED BY <3>1, <3>2, <1>3 DEF ToSet
  <2> QED BY <2>2, <2>3
<1>5. ASSUME NEW x \in ToSet(Tail(q))
      PROVE  x \in ToSet(q)
  <2>1. PICK i \in 1 .. Len(q) - 1 : x = Tail(q)[i]
    BY <1>3, <1>5 DEF ToSet
  <2>2. x = q[i + 1] /\ i + 1 \in 1 .. Len(q)
    BY <2>1, <1>1, <1>2
  <2> QED BY <2>2, <1>3 DEF ToSet
<1>6. Head(q) \in ToSet(q)
  BY <1>1, <1>3 DEF ToSet
<1> QED BY <1>1, <1>2, <1>4, <1>5, <1>6

\* The elements of a sequence without repetitions, its head and its tail.
LEMMA TailInjective ==
    ASSUME NEW S, NEW q \in Seq(S), q # <<>>, IsInjective(q)
    PROVE  IsInjective(Tail(q)) /\ Head(q) \notin ToSet(Tail(q))
<1>1. /\ Len(q) \in Nat \ {0} /\ Head(q) = q[1]
      /\ Tail(q) \in Seq(S) /\ Len(Tail(q)) = Len(q) - 1
      /\ \A i \in 1 .. Len(q) - 1 : Tail(q)[i] = q[i + 1]
  OBVIOUS
<1>2. DOMAIN q = 1 .. Len(q) /\ DOMAIN Tail(q) = 1 .. Len(q) - 1
  BY <1>1
<1>3. \A a, b \in 1 .. Len(q) : q[a] = q[b] => a = b
  BY <1>2 DEF IsInjective
<1>4. \A a, b \in 1 .. Len(q) - 1 : Tail(q)[a] = Tail(q)[b] => a = b
  BY <1>1, <1>3
<1>5. \A a \in 1 .. Len(q) - 1 : Tail(q)[a] # Head(q)
  BY <1>1, <1>3
<1> QED BY <1>2, <1>4, <1>5 DEF IsInjective, ToSet

\* Put never makes an element up and never adds more than one.
LEMMA PutBounds ==
    ASSUME NEW S, NEW q \in Seq(S), NEW f \in S
    PROVE  /\ Put(q, f) \in Seq(S)
           /\ ToSet(Put(q, f)) \subseteq ToSet(q) \union {f}
           /\ Len(Put(q, f)) <= Len(q) + 1
<1>1. CASE \E i \in 1 .. Len(q) : q[i] = f
  <2> DEFINE k == CHOOSE i \in 1 .. Len(q) : q[i] = f
  <2>1. k \in 1 .. Len(q) /\ Len(q) \in Nat
    BY <1>1
  <2>2. Put(q, f) = SubSeq(q, 1, k)
    BY <1>1 DEF Put
  <2> HIDE DEF k
  <2>3. /\ SubSeq(q, 1, k) \in Seq(S) /\ Len(SubSeq(q, 1, k)) = k
        /\ \A i \in 1 .. k : SubSeq(q, 1, k)[i] = q[i]
    BY <2>1
  <2>4. DOMAIN SubSeq(q, 1, k) = 1 .. k /\ DOMAIN q = 1 .. Len(q)
    BY <2>1, <2>3
  <2> QED BY <2>1, <2>2, <2>3, <2>4 DEF ToSet
<1>2. CASE ~ \E i \in 1 .. Len(q) : q[i] = f
  <2>1. Put(q, f) = Append(q, f)
    BY <1>2 DEF Put
  <2>2. /\ Append(q, f) \in Seq(S) /\ Len(Append(q, f)) = Len(q) + 1
        /\ Len(q) \in Nat
        /\ \A i \in 1 .. Len(q) : Append(q, f)[i] = q[i]
        /\ Append(q, f)[Len(q) + 1] = f
    OBVIOUS
  <2>3. DOMAIN Append(q, f) = 1 .. Len(q) + 1 /\ DOMAIN q = 1 .. Len(q)
    BY <2>2
  <2>4. \A i \in 1 .. Len(q) + 1 : i \in 1 .. Len(q) \/ i = Len(q) + 1
    BY <2>2
  <2>5. ASSUME NEW x \in ToSet(Append(q, f))
        PROVE  x \in ToSet(q) \union {f}
    <3>1. PICK i \in 1 .. Len(q) + 1 : x = Append(q, f)[i]
      BY <2>3, <2>5 DEF ToSet
    <3> QED BY <3>1, <2>2, <2>3, <2>4 DEF ToSet
  <2> QED BY <2>1, <2>2, <2>5
<1> QED BY <1>1, <1>2

\* A new element is appended, and a queue without repetitions stays one.
LEMMA PutNew ==
    ASSUME NEW S, NEW q \in Seq(S), NEW f \in S, f \notin ToSet(q)
    PROVE  /\ ToSet(Put(q, f)) = ToSet(q) \union {f}
           /\ Len(Put(q, f)) = Len(q) + 1
           /\ IsInjective(q) => IsInjective(Put(q, f))
<1>1. DOMAIN q = 1 .. Len(q) /\ Len(q) \in Nat
  OBVIOUS
<1>2. Put(q, f) = Append(q, f)
  BY <1>1 DEF Put, ToSet
<1>3. /\ Len(Append(q, f)) = Len(q) + 1
      /\ DOMAIN Append(q, f) = 1 .. Len(q) + 1
      /\ \A i \in 1 .. Len(q) : Append(q, f)[i] = q[i]
      /\ Append(q, f)[Len(q) + 1] = f
  BY <1>1
<1>4. \A i \in 1 .. Len(q) + 1 : i \in 1 .. Len(q) \/ i = Len(q) + 1
  BY <1>1
<1>5. ToSet(Append(q, f)) \subseteq ToSet(q) \union {f}
  BY <1>2, PutBounds
<1>6. ToSet(q) \subseteq ToSet(Append(q, f))
  <2>1. \A i \in 1 .. Len(q) : i \in 1 .. Len(q) + 1
    BY <1>1
  <2> QED BY <2>1, <1>1, <1>3 DEF ToSet
<1>7. f \in ToSet(Append(q, f))
  <2>1. Len(q) + 1 \in 1 .. Len(q) + 1
    BY <1>1
  <2> QED BY <2>1, <1>3 DEF ToSet
<1>8. ASSUME IsInjective(q)
      PROVE  IsInjective(Append(q, f))
  <2>1. \A a, b \in 1 .. Len(q) : q[a] = q[b] => a = b
    BY <1>1, <1>8 DEF IsInjective
  <2>2. \A a \in 1 .. Len(q) : q[a] # f
    BY <1>1 DEF ToSet
  <2>3. \A a, b \in 1 .. Len(q) + 1 :
            Append(q, f)[a] = Append(q, f)[b] => a = b
    BY <1>3, <1>4, <2>1, <2>2
  <2> QED BY <2>3, <1>3 DEF IsInjective
<1> QED BY <1>2, <1>3, <1>5, <1>6, <1>7, <1>8

\* An element put again does not lengthen the queue, nor repeat in it.
LEMMA PutAgain ==
    ASSUME NEW S, NEW q \in Seq(S), NEW f \in ToSet(q), IsInjective(q)
    PROVE  Len(Put(q, f)) <= Len(q) /\ IsInjective(Put(q, f))
<1> DEFINE k == CHOOSE i \in 1 .. Len(q) : q[i] = f
<1>1. DOMAIN q = 1 .. Len(q) /\ Len(q) \in Nat
  OBVIOUS
<1>2. \E i \in 1 .. Len(q) : q[i] = f
  BY <1>1 DEF ToSet
<1>3. k \in 1 .. Len(q) /\ Put(q, f) = SubSeq(q, 1, k)
  BY <1>2 DEF Put
<1> HIDE DEF k
<1>4. /\ Len(SubSeq(q, 1, k)) = k /\ DOMAIN SubSeq(q, 1, k) = 1 .. k
      /\ \A i \in 1 .. k : SubSeq(q, 1, k)[i] = q[i] /\ i \in 1 .. Len(q)
  BY <1>1, <1>3
<1>5. \A a, b \in 1 .. Len(q) : q[a] = q[b] => a = b
  BY <1>1 DEF IsInjective
<1>6. IsInjective(SubSeq(q, 1, k))
  BY <1>4, <1>5 DEF IsInjective
<1> QED BY <1>1, <1>3, <1>4, <1>6

\* Putting an element keeps a queue without repetitions one.
LEMMA PutInjective ==
    ASSUME NEW S, NEW q \in Seq(S), NEW f \in S, IsInjective(q)
    PROVE  IsInjective(Put(q, f))
BY PutNew, PutAgain

\* The head of a queue without repetitions moves to its end.
LEMMA Rotate ==
    ASSUME NEW S, NEW q \in Seq(S), q # <<>>, IsInjective(q)
    PROVE  /\ Put(Tail(q), Head(q)) \in Seq(S)
           /\ Len(Put(Tail(q), Head(q))) = Len(q)
           /\ ToSet(Put(Tail(q), Head(q))) = ToSet(q)
           /\ IsInjective(Put(Tail(q), Head(q)))
<1>1. /\ Head(q) \in S /\ Tail(q) \in Seq(S) /\ Len(Tail(q)) = Len(q) - 1
      /\ Len(q) \in Nat \ {0}
      /\ ToSet(q) = {Head(q)} \union ToSet(Tail(q))
  BY TailParts
<1>2. IsInjective(Tail(q)) /\ Head(q) \notin ToSet(Tail(q))
  BY TailInjective
<1>3. Put(Tail(q), Head(q)) \in Seq(S)
  BY <1>1, PutBounds
<1>4. /\ ToSet(Put(Tail(q), Head(q))) = ToSet(Tail(q)) \union {Head(q)}
      /\ Len(Put(Tail(q), Head(q))) = Len(Tail(q)) + 1
      /\ IsInjective(Put(Tail(q), Head(q)))
  BY <1>1, <1>2, PutNew
<1> QED BY <1>1, <1>3, <1>4

\* PutBack keeps the buffers of a queue of at least two.
LEMMA PutBackKeeps ==
    ASSUME NEW S, NEW q \in Seq(S), Len(q) > 1, IsInjective(q)
    PROVE  /\ PutBack(q) \in Seq(S)
           /\ Len(PutBack(q)) = Len(q)
           /\ ToSet(PutBack(q)) = ToSet(q)
           /\ IsInjective(PutBack(q))
<1> DEFINE t == Tail(q)
           p == Put(Tail(t), Head(q))
<1>1. /\ q # <<>> /\ Head(q) \in S /\ t \in Seq(S) /\ Len(t) = Len(q) - 1
      /\ Len(q) \in Nat
      /\ ToSet(q) = {Head(q)} \union ToSet(t)
  BY TailParts
<1>2. IsInjective(t) /\ Head(q) \notin ToSet(t)
  BY <1>1, TailInjective
<1> HIDE DEF t
<1>3. t # <<>>
  BY <1>1
<1>4. /\ Head(t) \in S /\ Tail(t) \in Seq(S) /\ Len(Tail(t)) = Len(t) - 1
      /\ ToSet(t) = {Head(t)} \union ToSet(Tail(t))
  BY <1>1, <1>3, TailParts
<1>5. IsInjective(Tail(t)) /\ Head(t) \notin ToSet(Tail(t))
  BY <1>1, <1>2, <1>3, TailInjective
<1>6. p \in Seq(S)
  BY <1>1, <1>4, PutBounds
<1>7. Head(q) \notin ToSet(Tail(t)) /\ Head(q) # Head(t)
  BY <1>2, <1>4
<1>8. /\ ToSet(p) = ToSet(Tail(t)) \union {Head(q)}
      /\ Len(p) = Len(Tail(t)) + 1
      /\ IsInjective(p)
  <2>1. Head(q) \in S /\ Tail(t) \in Seq(S) /\ IsInjective(Tail(t))
    BY <1>1, <1>4, <1>5
  <2> QED BY <2>1, <1>7, PutNew, ZenonT(40)
<1>9. Head(t) \notin ToSet(p)
  BY <1>5, <1>7, <1>8
<1>10. PutBack(q) = Put(p, Head(t))
  BY DEF PutBack, t
<1> HIDE DEF p
<1>11. Put(p, Head(t)) \in Seq(S)
  BY <1>4, <1>6, PutBounds
<1>12. /\ ToSet(Put(p, Head(t))) = ToSet(p) \union {Head(t)}
       /\ Len(Put(p, Head(t))) = Len(p) + 1
       /\ IsInjective(Put(p, Head(t)))
  BY <1>4, <1>6, <1>8, <1>9, PutNew
<1> QED BY <1>1, <1>4, <1>8, <1>10, <1>11, <1>12
-----------------------------------------------------------------------------
(***************************************************************************)
(* Types, and what the EDMA may touch, in both modes.                      *)
(***************************************************************************)

\* The inductive invariant: submitCount never falls below the queues, which
\* keeps AbortReset's subtraction in Nat; RESUME arms a set with a buffer it
\* took from the pending list, so that list and its local must be held too.
TouchInv ==
    /\ TypeOK
    /\ IsInjective(floatQ)
    /\ submitCount >= Len(floatQ) + Len(pendQ)
    /\ ToSet(pendQ) \subseteq held
    /\ pc = "arm" => ioBuf \in held
    /\ EdmaTouchesOnlyHeld

USE ModeAssumption, ControlsAssumption, MaxLateAssumption, BufAssumption

LEMMA IndexFacts ==
    /\ Index = {0, 1}
    /\ \A i \in Index : Other(i) \in Index /\ Other(Other(i)) = i
BY DEF Index, MAXLINKCNT, Other

\* What each of the sets may hold.
LEMMA SlotFacts ==
    /\ \A i \in Index : LoopSlot(i) \in Slot /\ LoopSlot(i).addr \notin Frames
    /\ \A i \in Index, f \in Frames :
          /\ BufSlot(i, f) \in Slot
          /\ BufSlot(i, f).addr \in Frames => BufSlot(i, f).addr = f
BY IndexFacts DEF LoopSlot, BufSlot, Slot

\* The program of a channel just created or reset holds no client buffer.
LEMMA ResetTouchesNothing ==
    ASSUME xfer = LoopSlot(0), pram = [i \in Index |-> LoopSlot(i)]
    PROVE  Programmed = {}
<1>1. xfer.addr \notin Frames
  BY SlotFacts, IndexFacts
<1>2. \A i \in Index : pram[i].addr \notin Frames
  BY SlotFacts
<1> QED BY <1>1, <1>2 DEF Programmed

LEMMA TouchInit == Init => TouchInv
<1> SUFFICES ASSUME Init PROVE TouchInv
  OBVIOUS
<1>1. TypeOK
  <2>1. xfer \in Slot /\ pram \in [Index -> Slot]
    BY IndexFacts, SlotFacts DEF Init
  <2>2. 0 \in 0 .. MaxLate
    OBVIOUS
  <2>3. /\ floatQ \in Seq(Frames) /\ pendQ \in Seq(Frames)
        /\ submitCount \in Nat /\ nextLink \in Index /\ linkCnt \in Index
    BY IndexFacts DEF Init
  <2>4. report \in [buf : Frames \union {NoBuf},
                   status : {"NONE", "COMPLETED", "ABORT", "NOIOBUFFERS"},
                   active : Frames \union {LoopBuf, MuteBuf}]
    BY DEF Init
  <2> QED BY <2>1, <2>2, <2>3, <2>4 DEF Init, TypeOK
<1>2. ToSet(pendQ) = {} /\ IsInjective(floatQ)
  BY DEF Init, ToSet, IsInjective
<1>3. Programmed = {}
  BY ResetTouchesNothing DEF Init
<1> QED BY <1>1, <1>2, <1>3 DEF Init, TouchInv, EdmaTouchesOnlyHeld

\* What a callback puts back: never more buffers than it found, and, except
\* for INPUT on the active buffer, the very same ones.
LEMMA RequeueBounds ==
    ASSUME TypeOK, IsInjective(floatQ), floatQ # <<>>
    PROVE  /\ Requeued \in Seq(Frames) /\ Len(Requeued) <= Len(floatQ)
           /\ IsInjective(Requeued)
           /\ ~HeadActive => /\ Len(Requeued) = Len(floatQ)
                             /\ ToSet(Requeued) = ToSet(floatQ)
<1>1. floatQ \in Seq(Frames) /\ Len(floatQ) \in Nat
  BY DEF TypeOK
<1>2. CASE HeadActive
  <2>1. Requeued = Put(PutBack(floatQ), Head(floatQ))
    BY <1>2 DEF Requeued
  <2>2. /\ PutBack(floatQ) \in Seq(Frames)
        /\ Len(PutBack(floatQ)) = Len(floatQ)
        /\ ToSet(PutBack(floatQ)) = ToSet(floatQ)
        /\ IsInjective(PutBack(floatQ))
    BY <1>1, <1>2, PutBackKeeps DEF HeadActive
  <2>3. Head(floatQ) \in Frames /\ Head(floatQ) \in ToSet(floatQ)
    BY <1>1, TailParts
  <2>4. Requeued \in Seq(Frames)
    BY <2>1, <2>2, <2>3, PutBounds
  <2>5. Len(Requeued) <= Len(floatQ) /\ IsInjective(Requeued)
    BY <2>1, <2>2, <2>3, PutAgain
  <2> QED BY <1>2, <2>4, <2>5
<1>3. CASE ~HeadActive
  <2>1. Requeued = Put(Tail(floatQ), Head(floatQ))
    BY <1>3 DEF Requeued
  <2> QED BY <1>1, <2>1, Rotate
<1> QED BY <1>2, <1>3

\* The hardware and the client's one-word controls.
LEMMA TouchHardware == TouchInv /\ Complete => TouchInv'
<1> SUFFICES ASSUME TouchInv, Complete PROVE TouchInv'
  OBVIOUS
<1> USE DEF TouchInv, TypeOK, Complete, queueVars, flagVars, resumeVars
<1>1. xfer.link \in Index /\ xfer' = pram[xfer.link] /\ xfer' \in Slot
  BY DEF Slot
<1>2. late' \in 0 .. MaxLate
  <2>1. late \in Nat /\ late <= MaxLate
    OBVIOUS
  <2>2. CASE xfer.intr
    BY <2>1, <2>2
  <2>3. CASE ~xfer.intr
    BY <2>1, <2>3
  <2> QED BY <2>2, <2>3
<1>3. TypeOK'
  BY <1>1, <1>2
<1>4. EdmaTouchesOnlyHeld'
  BY <1>1 DEF EdmaTouchesOnlyHeld, Programmed
<1> QED BY <1>3, <1>4

LEMMA TaskStepType == TaskStep => overtaken' \in BOOLEAN
BY DEF TaskStep

LEMMA TouchControls ==
    TouchInv /\ (Start \/ Pause \/ RateCall \/ RateEnd \/ \E on \in BOOLEAN : SetMute(on))
        => TouchInv'
<1> SUFFICES ASSUME TouchInv,
                    Start \/ Pause \/ RateCall \/ RateEnd \/ \E on \in BOOLEAN : SetMute(on)
             PROVE  TouchInv'
  OBVIOUS
<1>1. /\ UNCHANGED <<xfer, pram, late, queueVars, linkCnt, ioBuf, report>>
      /\ overtaken' \in BOOLEAN /\ paused' \in BOOLEAN /\ nextFlag' \in BOOLEAN
      /\ muted' \in BOOLEAN /\ running' \in BOOLEAN /\ stopSm' \in BOOLEAN
      /\ pc' \in {"idle", "take", "arm", "end", "rate"} /\ pc' # "arm"
  <2>1. CASE Start
    BY <2>1, TaskStepType DEF TouchInv, TypeOK, Start, Called, resumeVars
  <2>2. CASE Pause
    BY <2>2, TaskStepType DEF TouchInv, TypeOK, Pause, Called, resumeVars
  <2>3. CASE \E on \in BOOLEAN : SetMute(on)
    BY <2>3, TaskStepType DEF TouchInv, TypeOK, SetMute, Called, resumeVars
  <2>4. CASE RateCall
    BY <2>4, TaskStepType DEF TouchInv, TypeOK, RateCall, Called
  <2>5. CASE RateEnd
    BY <2>5, TaskStepType DEF TouchInv, TypeOK, RateEnd
  <2> QED BY <2>1, <2>2, <2>3, <2>4, <2>5
<1>2. TypeOK'
  BY <1>1 DEF TouchInv, TypeOK, queueVars
<1> QED BY <1>1, <1>2
        DEF TouchInv, EdmaTouchesOnlyHeld, Programmed, queueVars

\* The two interrupts: the callback may only load the loop job.
LEMMA TouchPauseSet ==
    ASSUME TouchInv, PauseSet
    PROVE  /\ pram' \in [Index -> Slot] /\ nextLink' \in Index
           /\ \A i \in Index : pram'[i] = pram[i] \/ pram'[i].addr \notin Frames
<1> DEFINE i == Other(nextLink)
<1>1. i \in Index /\ Other(i) \in Index
  BY IndexFacts DEF TouchInv, TypeOK
<1>2. CASE paused /\ ~nextFlag
  <2>1. pram' = [pram EXCEPT ![i] = LoopSlot(i)] /\ nextLink' = Other(i)
    BY <1>2 DEF PauseSet
  <2>2. LoopSlot(i) \in Slot /\ LoopSlot(i).addr \notin Frames
    BY <1>1, SlotFacts
  <2> HIDE DEF i
  <2> QED BY <1>1, <2>1, <2>2 DEF TouchInv, TypeOK
<1>3. CASE ~(paused /\ ~nextFlag)
  BY <1>3 DEF PauseSet, TouchInv, TypeOK
<1> QED BY <1>2, <1>3

LEMMA TouchCallback ==
    ASSUME TouchInv, NEW status \in {"COMPLETED", "ABORT"}, EdmaCallback(status),
           late' \in 0 .. MaxLate, overtaken' \in BOOLEAN
    PROVE  TouchInv'
<1>1. /\ UNCHANGED <<xfer, pendQ, held, submitCount, pc, linkCnt, ioBuf>>
      /\ UNCHANGED <<paused, muted, running, stopSm>>
  BY DEF EdmaCallback, CallbackEmpty, CallbackUnderflow, CallbackReport,
         queueVars, resumeVars
<1>2. /\ pram' \in [Index -> Slot] /\ nextLink' \in Index
      /\ \A i \in Index : pram'[i] = pram[i] \/ pram'[i].addr \notin Frames
  <2>1. UNCHANGED <<pram, nextLink>> \/ PauseSet
    BY DEF EdmaCallback, CallbackEmpty, CallbackUnderflow, CallbackReport, queueVars
  <2>2. CASE UNCHANGED <<pram, nextLink>>
    BY <2>2 DEF TouchInv, TypeOK
  <2> QED BY <2>1, <2>2, TouchPauseSet
<1>3. /\ floatQ' \in Seq(Frames) /\ IsInjective(floatQ')
      /\ Len(floatQ') <= Len(floatQ)
      /\ nextFlag' \in BOOLEAN
      /\ report' \in [buf : Frames \union {NoBuf},
                      status : {"NONE", "COMPLETED", "ABORT", "NOIOBUFFERS"},
                      active : Frames \union {LoopBuf, MuteBuf}]
  <2>1. xfer.addr \in Frames \union {LoopBuf, MuteBuf}
    BY DEF TouchInv, TypeOK, Slot
  <2>2. Len(floatQ) \in Nat
    BY DEF TouchInv, TypeOK
  <2>3. CASE CallbackEmpty
    BY <2>2, <2>3 DEF CallbackEmpty, queueVars, TouchInv, TypeOK
  <2>4. CASE CallbackUnderflow
    <3>1. Len(floatQ) > 1 /\ floatQ \in Seq(Frames) /\ IsInjective(floatQ)
      BY <2>4 DEF CallbackUnderflow, HeadActive, TouchInv, TypeOK
    <3>2. /\ PutBack(floatQ) \in Seq(Frames) /\ IsInjective(PutBack(floatQ))
          /\ Len(PutBack(floatQ)) = Len(floatQ)
      BY <3>1, PutBackKeeps
    <3> QED BY <2>1, <2>2, <2>4, <3>2 DEF CallbackUnderflow, TouchInv, TypeOK
  <2>5. CASE CallbackReport(status)
    <3>1. floatQ # <<>> /\ Head(floatQ) \in Frames
      BY <2>5, TailParts DEF CallbackReport, TouchInv, TypeOK
    <3>2. /\ Requeued \in Seq(Frames) /\ IsInjective(Requeued)
          /\ Len(Requeued) <= Len(floatQ)
      BY <3>1, RequeueBounds DEF TouchInv
    <3>3. nextFlag' \in BOOLEAN
      BY <2>5 DEF CallbackReport
    <3> QED BY <2>1, <2>5, <3>1, <3>2, <3>3 DEF CallbackReport
  <2> QED BY <2>3, <2>4, <2>5 DEF EdmaCallback
<1>4. submitCount' >= Len(floatQ') + Len(pendQ')
  <2>1. /\ Len(floatQ') \in Nat /\ Len(floatQ) \in Nat /\ Len(pendQ) \in Nat
        /\ submitCount \in Nat /\ submitCount >= Len(floatQ) + Len(pendQ)
    BY <1>3 DEF TouchInv, TypeOK
  <2> QED BY <1>1, <1>3, <2>1
<1>5. TypeOK'
  BY <1>1, <1>2, <1>3 DEF TouchInv, TypeOK
<1>6. EdmaTouchesOnlyHeld'
  BY <1>1, <1>2 DEF TouchInv, EdmaTouchesOnlyHeld, Programmed
<1> QED BY <1>1, <1>3, <1>4, <1>5, <1>6 DEF TouchInv

LEMMA TouchIsr == TouchInv /\ (CompletionIsr \/ ErrorIsr) => TouchInv'
<1>1. ASSUME TouchInv, CompletionIsr PROVE TouchInv'
  <2>1. late' \in 0 .. MaxLate /\ overtaken' \in BOOLEAN
    <3>1. 0 \in 0 .. MaxLate
      OBVIOUS
    <3> QED BY <1>1, <3>1 DEF CompletionIsr
  <2> QED BY <1>1, <2>1, TouchCallback DEF CompletionIsr
<1>2. ASSUME TouchInv, ErrorIsr PROVE TouchInv'
  <2>1. late' \in 0 .. MaxLate /\ overtaken' \in BOOLEAN
    BY <1>2 DEF ErrorIsr, TouchInv, TypeOK
  <2> QED BY <1>2, <2>1, TouchCallback DEF ErrorIsr
<1> QED BY <1>1, <1>2

\* Submitting: the buffer joins held before a set may name it.
LEMMA TouchSubmitPend ==
    ASSUME TouchInv, NEW f \in Frames, SubmitPend(f)
    PROVE  TouchInv'
<1>1. /\ UNCHANGED <<xfer, pram, late, floatQ, nextLink, flagVars, resumeVars, report>>
      /\ overtaken' \in BOOLEAN /\ held' = held \union {f}
      /\ submitCount' = submitCount + 1 /\ pendQ' = Put(pendQ, f)
  BY TaskStepType DEF SubmitPend, Called
<1>2. /\ pendQ' \in Seq(Frames) /\ ToSet(pendQ') \subseteq held'
      /\ Len(pendQ') <= Len(pendQ) + 1
  BY <1>1, PutBounds DEF TouchInv, TypeOK
<1>3. submitCount' \in Nat /\ submitCount' >= Len(floatQ') + Len(pendQ')
  <2>1. /\ Len(floatQ) \in Nat /\ Len(pendQ) \in Nat /\ Len(pendQ') \in Nat
        /\ submitCount \in Nat /\ submitCount >= Len(floatQ) + Len(pendQ)
    BY <1>2 DEF TouchInv, TypeOK
  <2> QED BY <1>1, <1>2, <2>1
<1>4. TypeOK'
  BY <1>1, <1>2, <1>3 DEF TouchInv, TypeOK, flagVars, resumeVars
<1> QED BY <1>1, <1>2, <1>3, <1>4
        DEF TouchInv, EdmaTouchesOnlyHeld, Programmed, flagVars, resumeVars

LEMMA TouchSubmitFloat ==
    ASSUME TouchInv, NEW f \in Frames, SubmitFloat(f)
    PROVE  TouchInv'
<1>1. /\ UNCHANGED <<late, pendQ, flagVars, resumeVars, report>>
      /\ overtaken' \in BOOLEAN /\ held' = held \union {f}
      /\ submitCount' = submitCount + 1 /\ floatQ' = Put(floatQ, f)
  BY TaskStepType DEF SubmitFloat, Called
<1>2. nextLink' \in Index
  BY IndexFacts DEF SubmitFloat, TouchInv, TypeOK
<1>3. /\ BufSlot(nextLink', f) \in Slot
      /\ BufSlot(nextLink', f).addr \in Frames => BufSlot(nextLink', f).addr = f
  BY <1>2, SlotFacts
<1>4. /\ pram' \in [Index -> Slot]
      /\ \A i \in Index : pram'[i] = pram[i] \/ pram'[i] = BufSlot(nextLink', f)
  <2>1. pram' = [pram EXCEPT ![nextLink'] = BufSlot(nextLink', f)]
    BY DEF SubmitFloat
  <2> QED BY <1>2, <1>3, <2>1 DEF TouchInv, TypeOK
<1>5. xfer' \in Slot /\ xfer'.addr = xfer.addr
  <2>1. xfer' = xfer \/ xfer' = [xfer EXCEPT !.link = nextLink']
    BY DEF SubmitFloat
  <2> QED BY <1>2, <2>1 DEF TouchInv, TypeOK, Slot
<1>6. /\ floatQ' \in Seq(Frames) /\ IsInjective(floatQ')
      /\ Len(floatQ') <= Len(floatQ) + 1
  BY <1>1, PutBounds, PutInjective DEF TouchInv, TypeOK
<1>7. submitCount' \in Nat /\ submitCount' >= Len(floatQ') + Len(pendQ')
  <2>1. /\ Len(floatQ) \in Nat /\ Len(pendQ) \in Nat /\ Len(floatQ') \in Nat
        /\ submitCount \in Nat /\ submitCount >= Len(floatQ) + Len(pendQ)
    BY <1>6 DEF TouchInv, TypeOK
  <2> QED BY <1>1, <1>6, <2>1
<1>8. TypeOK'
  BY <1>1, <1>2, <1>4, <1>5, <1>6, <1>7 DEF TouchInv, TypeOK, flagVars, resumeVars
<1>9. EdmaTouchesOnlyHeld'
  BY <1>1, <1>3, <1>4, <1>5 DEF TouchInv, EdmaTouchesOnlyHeld, Programmed
<1> QED BY <1>1, <1>6, <1>7, <1>8, <1>9 DEF TouchInv, resumeVars

\* AbortReset leaves no set with a client's buffer and both queues empty.
LEMMA TouchAbort ==
    ASSUME TouchInv, AbortReset \/ Stop
    PROVE  TouchInv'
<1>1. /\ UNCHANGED <<late, paused, nextFlag, muted, resumeVars, report>>
      /\ HandBackAll /\ overtaken' \in BOOLEAN
      /\ running' \in BOOLEAN /\ stopSm' \in BOOLEAN
      /\ pc = "idle"
  BY TaskStepType DEF AbortReset, Stop, Called, TouchInv, TypeOK
<1>2. /\ floatQ' = <<>> /\ pendQ' = <<>> /\ IsInjective(floatQ')
      /\ ToSet(pendQ') = {}
  BY <1>1 DEF HandBackAll, IsInjective, ToSet
<1>3. xfer' = LoopSlot(0) /\ pram' = [i \in Index |-> LoopSlot(i)] /\ nextLink' = 0
  BY <1>1 DEF HandBackAll
<1>4. /\ xfer' \in Slot /\ pram' \in [Index -> Slot]
      /\ xfer'.addr \notin Frames /\ \A i \in Index : pram'[i].addr \notin Frames
  BY <1>3, SlotFacts, IndexFacts
<1>5. submitCount' \in Nat
  <2>1. /\ Len(floatQ) \in Nat /\ Len(pendQ) \in Nat
        /\ submitCount \in Nat /\ submitCount >= Len(floatQ) + Len(pendQ)
    BY DEF TouchInv, TypeOK
  <2> QED BY <1>1, <2>1 DEF HandBackAll
<1>6. held' \subseteq Frames
  BY <1>1 DEF HandBackAll, TouchInv, TypeOK
<1>7. TypeOK'
  BY <1>1, <1>2, <1>3, <1>4, <1>5, <1>6, IndexFacts DEF TouchInv, TypeOK, resumeVars
<1>8. EdmaTouchesOnlyHeld'
  BY <1>4 DEF EdmaTouchesOnlyHeld, Programmed
<1> QED BY <1>1, <1>2, <1>5, <1>7, <1>8 DEF TouchInv, resumeVars

\* RESUME, step by step.
LEMMA TouchIteration ==
    ASSUME TypeOK, NextIteration
    PROVE  pc' \in {"take", "end"} /\ linkCnt' \in Index
BY IndexFacts DEF NextIteration, TypeOK, MAXLINKCNT

LEMMA TouchResumeCall ==
    ASSUME TouchInv, ResumeCall \/ ResumeEnd
    PROVE  TouchInv'
<1>1. /\ UNCHANGED <<xfer, pram, late, queueVars, report>>
      /\ UNCHANGED <<nextFlag, muted, running, stopSm>>
      /\ overtaken' \in BOOLEAN /\ paused' \in BOOLEAN
      /\ pc' \in {"take", "end", "idle"} /\ linkCnt' \in Index
      /\ ioBuf' \in Frames \union {NoBuf}
  <2>1. CASE ResumeCall
    BY <2>1, TaskStepType, IndexFacts DEF ResumeCall, Called, flagVars, TouchInv, TypeOK
  <2>2. CASE ResumeEnd
    BY <2>2, TaskStepType, IndexFacts DEF ResumeEnd, TouchInv, TypeOK
  <2> QED BY <2>1, <2>2
<1>2. TypeOK'
  BY <1>1 DEF TouchInv, TypeOK, queueVars
<1> QED BY <1>1, <1>2 DEF TouchInv, EdmaTouchesOnlyHeld, Programmed, queueVars

LEMMA TouchResumeTake ==
    ASSUME TouchInv, ResumeTake
    PROVE  TouchInv'
<1>1. /\ UNCHANGED <<xfer, pram, late, submitCount, held, flagVars, report>>
      /\ overtaken' \in BOOLEAN
  BY TaskStepType DEF ResumeTake
<1>2. CASE pendQ = <<>>
  <2>1. NextIteration /\ UNCHANGED <<pendQ, floatQ, nextLink, ioBuf>>
    BY <1>2 DEF ResumeTake
  <2>2. pc' \in {"take", "end"} /\ linkCnt' \in Index
    BY <2>1, TouchIteration DEF TouchInv
  <2>3. TypeOK'
    BY <1>1, <2>1, <2>2 DEF TouchInv, TypeOK, flagVars
  <2> QED BY <1>1, <2>1, <2>2, <2>3 DEF TouchInv, EdmaTouchesOnlyHeld, Programmed
<1>3. CASE pendQ # <<>>
  <2>1. /\ ioBuf' = Head(pendQ) /\ pendQ' = Tail(pendQ)
        /\ floatQ' = Put(floatQ, Head(pendQ))
        /\ pc' = "arm" /\ linkCnt' = linkCnt
    BY <1>3 DEF ResumeTake
  <2>2. nextLink' \in Index
    BY <1>3, IndexFacts DEF ResumeTake, TouchInv, TypeOK
  <2>3. /\ Head(pendQ) \in Frames /\ Head(pendQ) \in ToSet(pendQ)
        /\ Tail(pendQ) \in Seq(Frames) /\ ToSet(Tail(pendQ)) \subseteq ToSet(pendQ)
        /\ Len(Tail(pendQ)) = Len(pendQ) - 1
    BY <1>3, TailParts DEF TouchInv, TypeOK
  <2>4. /\ floatQ' \in Seq(Frames) /\ IsInjective(floatQ')
        /\ Len(floatQ') <= Len(floatQ) + 1
    BY <2>1, <2>3, PutBounds, PutInjective DEF TouchInv, TypeOK
  <2>5. submitCount' >= Len(floatQ') + Len(pendQ')
    <3>1. /\ Len(floatQ) \in Nat /\ Len(pendQ) \in Nat /\ Len(floatQ') \in Nat
          /\ submitCount \in Nat /\ submitCount >= Len(floatQ) + Len(pendQ)
      BY <2>4 DEF TouchInv, TypeOK
    <3> QED BY <1>1, <2>1, <2>3, <2>4, <3>1
  <2>6. TypeOK'
    BY <1>1, <2>1, <2>2, <2>3, <2>4 DEF TouchInv, TypeOK, flagVars
  <2> QED BY <1>1, <2>1, <2>3, <2>4, <2>5, <2>6
          DEF TouchInv, EdmaTouchesOnlyHeld, Programmed
<1> QED BY <1>2, <1>3

LEMMA TouchResumeArm ==
    ASSUME TouchInv, ResumeArm, ioBuf \in Frames
    PROVE  TouchInv'
<1>1. /\ UNCHANGED <<late, queueVars, flagVars, ioBuf, report>>
      /\ overtaken' \in BOOLEAN /\ ioBuf \in held
      /\ pc' \in {"take", "end"} /\ linkCnt' \in Index
  BY TaskStepType, TouchIteration DEF ResumeArm, TouchInv
<1>2. /\ BufSlot(nextLink, ioBuf) \in Slot
      /\ BufSlot(nextLink, ioBuf).addr \in Frames => BufSlot(nextLink, ioBuf).addr = ioBuf
  BY SlotFacts DEF TouchInv, TypeOK
<1>3. /\ pram' \in [Index -> Slot]
      /\ \A i \in Index : pram'[i] = pram[i] \/ pram'[i] = BufSlot(nextLink, ioBuf)
  BY <1>2 DEF ResumeArm, TouchInv, TypeOK
<1>4. xfer' \in Slot /\ xfer'.addr = xfer.addr
  <2>1. xfer' = xfer \/ xfer' = [xfer EXCEPT !.link = nextLink]
    BY DEF ResumeArm
  <2> QED BY <2>1 DEF TouchInv, TypeOK, Slot
<1>5. TypeOK'
  BY <1>1, <1>3, <1>4 DEF TouchInv, TypeOK, queueVars, flagVars
<1>6. EdmaTouchesOnlyHeld'
  BY <1>1, <1>2, <1>3, <1>4
     DEF TouchInv, EdmaTouchesOnlyHeld, Programmed, queueVars
<1> QED BY <1>1, <1>5, <1>6 DEF TouchInv, queueVars

LEMMA TouchNext == TouchInv /\ [Next]_vars => TouchInv'
<1> SUFFICES ASSUME TouchInv, [Next]_vars PROVE TouchInv'
  OBVIOUS
<1>1. CASE Complete
  BY <1>1, TouchHardware
<1>2. CASE CompletionIsr \/ ErrorIsr
  BY <1>2, TouchIsr
<1>3. ASSUME NEW f \in Frames, SubmitPend(f) \/ SubmitFloat(f) PROVE TouchInv'
  BY <1>3, TouchSubmitPend, TouchSubmitFloat
<1>4. CASE AbortReset \/ Stop
  BY <1>4, TouchAbort
<1>5. CASE Start \/ Pause \/ RateCall \/ RateEnd \/ \E on \in BOOLEAN : SetMute(on)
  BY <1>5, TouchControls
<1>6. CASE ResumeCall \/ ResumeEnd
  BY <1>6, TouchResumeCall
<1>7. CASE ResumeTake
  BY <1>7, TouchResumeTake
<1>8. CASE ResumeArm
  <2>1. ioBuf \in Frames
    BY <1>8 DEF ResumeArm, TouchInv, TypeOK
  <2> QED BY <1>8, <2>1, TouchResumeArm
<1>9. CASE UNCHANGED vars
  BY <1>9 DEF vars, hwVars, queueVars, flagVars, resumeVars, TouchInv, TypeOK,
              EdmaTouchesOnlyHeld, Programmed
<1> QED BY <1>1, <1>2, <1>3, <1>4, <1>5, <1>6, <1>7, <1>8, <1>9
        DEF Next, Client, Resume

\* The types of the channel's state are kept by every operation, in both modes.
THEOREM TypeCorrect == Spec => []TypeOK
<1>1. TouchInv => TypeOK
  BY DEF TouchInv
<1> QED BY <1>1, TouchInit, TouchNext, PTL DEF Spec

\* Memory safety of the DMA, in both modes: the PaRAM sets never name a
\* buffer the client has back.
THEOREM TouchesOnlyHeld == Spec => []EdmaTouchesOnlyHeld
<1>1. TouchInv => EdmaTouchesOnlyHeld
  BY DEF TouchInv
<1> QED BY <1>1, TouchInit, TouchNext, PTL DEF Spec
-----------------------------------------------------------------------------
(***************************************************************************)
(* The queues account for every submitted buffer, in OUTPUT mode.  In      *)
(* INPUT mode the callback may put a buffer back that is still queued,     *)
(* and what stood behind it is lost: see the run ChannelInputReport.       *)
(***************************************************************************)

\* On top of TouchInv: the two queues repeat no buffer between them, so that
\* every Put of the code appends.
KeepInv ==
    /\ IsInjective(pendQ)
    /\ ToSet(floatQ) \cap ToSet(pendQ) = {}
    /\ NoFrameLost

LEMMA EmptySet == ToSet(<<>>) = {} /\ IsInjective(<<>>)
BY DEF ToSet, IsInjective

LEMMA KeepInit == Init => KeepInv
BY EmptySet DEF Init, KeepInv, NoFrameLost, Queued

LEMMA KeepSubmit ==
    ASSUME TouchInv, KeepInv, NEW f \in Frames, SubmitPend(f) \/ SubmitFloat(f)
    PROVE  KeepInv'
<1>1. /\ f \notin ToSet(floatQ) /\ f \notin ToSet(pendQ)
      /\ held' = held \union {f} /\ submitCount' = submitCount + 1
  BY DEF SubmitPend, SubmitFloat, KeepInv, NoFrameLost, Queued
<1>2. /\ floatQ \in Seq(Frames) /\ pendQ \in Seq(Frames)
      /\ Len(floatQ) \in Nat /\ Len(pendQ) \in Nat
  BY DEF TouchInv, TypeOK
<1>3. CASE SubmitPend(f)
  <2>1. floatQ' = floatQ /\ pendQ' = Put(pendQ, f)
    BY <1>3 DEF SubmitPend
  <2>2. /\ ToSet(pendQ') = ToSet(pendQ) \union {f} /\ Len(pendQ') = Len(pendQ) + 1
        /\ IsInjective(pendQ')
    BY <1>1, <1>2, <2>1, PutNew DEF KeepInv
  <2> QED BY <1>1, <1>2, <2>1, <2>2 DEF KeepInv, NoFrameLost, Queued
<1>4. CASE SubmitFloat(f)
  <2>1. pendQ' = pendQ /\ floatQ' = Put(floatQ, f)
    BY <1>4 DEF SubmitFloat
  <2>2. ToSet(floatQ') = ToSet(floatQ) \union {f} /\ Len(floatQ') = Len(floatQ) + 1
    BY <1>1, <1>2, <2>1, PutNew
  <2> QED BY <1>1, <1>2, <2>1, <2>2 DEF KeepInv, NoFrameLost, Queued
<1> QED BY <1>3, <1>4

LEMMA KeepCallback ==
    ASSUME Mode = "OUTPUT", TouchInv, KeepInv,
           NEW status \in {"COMPLETED", "ABORT"}, EdmaCallback(status)
    PROVE  KeepInv'
<1>1. UNCHANGED <<pendQ, held, submitCount>>
  BY DEF EdmaCallback, CallbackEmpty, CallbackUnderflow, CallbackReport, queueVars
<1>2. ToSet(floatQ') = ToSet(floatQ) /\ Len(floatQ') = Len(floatQ)
  <2>1. floatQ \in Seq(Frames) /\ IsInjective(floatQ)
    BY DEF TouchInv, TypeOK
  <2>2. CASE CallbackEmpty
    BY <2>2 DEF CallbackEmpty, queueVars
  <2>3. CASE CallbackUnderflow
    BY <2>1, <2>3, PutBackKeeps DEF CallbackUnderflow, HeadActive
  <2>4. CASE CallbackReport(status)
    BY <2>4, RequeueBounds DEF CallbackReport, TouchInv
  <2> QED BY <2>2, <2>3, <2>4 DEF EdmaCallback
<1> QED BY <1>1, <1>2 DEF KeepInv, NoFrameLost, Queued

LEMMA KeepAbort ==
    ASSUME TouchInv, KeepInv, HandBackAll
    PROVE  KeepInv'
<1>1. floatQ' = <<>> /\ pendQ' = <<>> /\ held' = {}
  BY DEF HandBackAll, KeepInv, NoFrameLost, Queued
<1>2. submitCount' = 0
  <2>1. Len(floatQ) \in Nat /\ Len(pendQ) \in Nat
    BY DEF TouchInv, TypeOK
  <2> QED BY <2>1 DEF HandBackAll, KeepInv, NoFrameLost
<1>3. Len(<<>>) = 0
  OBVIOUS
<1> QED BY <1>1, <1>2, <1>3, EmptySet DEF KeepInv, NoFrameLost, Queued

\* RESUME moves a buffer from one queue to the other.
LEMMA KeepResumeTake ==
    ASSUME TouchInv, KeepInv, ResumeTake
    PROVE  KeepInv'
<1>1. UNCHANGED <<submitCount, held>>
  BY DEF ResumeTake
<1>2. CASE pendQ = <<>>
  BY <1>1, <1>2 DEF ResumeTake, KeepInv, NoFrameLost, Queued
<1>3. CASE pendQ # <<>>
  <2>1. pendQ' = Tail(pendQ) /\ floatQ' = Put(floatQ, Head(pendQ))
    BY <1>3 DEF ResumeTake
  <2>2. /\ pendQ \in Seq(Frames) /\ floatQ \in Seq(Frames)
        /\ Len(floatQ) \in Nat /\ Len(pendQ) \in Nat /\ IsInjective(pendQ)
    BY DEF TouchInv, TypeOK, KeepInv
  <2>3. /\ Head(pendQ) \in Frames /\ Len(Tail(pendQ)) = Len(pendQ) - 1
        /\ ToSet(pendQ) = {Head(pendQ)} \union ToSet(Tail(pendQ))
    BY <1>3, <2>2, TailParts
  <2>4. IsInjective(Tail(pendQ)) /\ Head(pendQ) \notin ToSet(Tail(pendQ))
    BY <1>3, <2>2, TailInjective
  <2>5. Head(pendQ) \notin ToSet(floatQ)
    BY <2>3 DEF KeepInv
  <2>6. /\ ToSet(floatQ') = ToSet(floatQ) \union {Head(pendQ)}
        /\ Len(floatQ') = Len(floatQ) + 1
    BY <2>1, <2>2, <2>3, <2>5, PutNew
  <2> QED BY <1>1, <2>1, <2>2, <2>3, <2>4, <2>6 DEF KeepInv, NoFrameLost, Queued
<1> QED BY <1>2, <1>3

LEMMA KeepNext ==
    ASSUME Mode = "OUTPUT"
    PROVE  TouchInv /\ KeepInv /\ [Next]_vars => KeepInv'
<1> SUFFICES ASSUME TouchInv, KeepInv, [Next]_vars PROVE KeepInv'
  OBVIOUS
<1>1. CASE UNCHANGED <<queueVars>>
  BY <1>1 DEF queueVars, KeepInv, NoFrameLost, Queued
<1>2. ASSUME NEW f \in Frames, SubmitPend(f) \/ SubmitFloat(f) PROVE KeepInv'
  BY <1>2, KeepSubmit
<1>3. CASE CompletionIsr \/ ErrorIsr
  BY <1>3, KeepCallback DEF CompletionIsr, ErrorIsr
<1>4. CASE AbortReset \/ Stop
  BY <1>4, KeepAbort DEF AbortReset, Stop
<1>5. CASE ResumeTake
  BY <1>5, KeepResumeTake
<1>6. CASE \/ Complete \/ Start \/ Pause \/ ResumeCall \/ ResumeArm \/ ResumeEnd
           \/ RateCall \/ RateEnd
           \/ \E on \in BOOLEAN : SetMute(on)
  BY <1>1, <1>6 DEF Complete, Start, Pause, ResumeCall, ResumeArm, ResumeEnd,
                 RateCall, RateEnd, SetMute
<1>7. CASE UNCHANGED vars
  BY <1>1, <1>7 DEF vars
<1> QED BY <1>2, <1>3, <1>4, <1>5, <1>6, <1>7 DEF Next, Client, Resume

\* No buffer is lost on an OUTPUT channel: what the client submitted is what
\* the two queues hold, and submitCount is their length.
THEOREM OutputKeepsFrames == ASSUME Mode = "OUTPUT" PROVE Spec => []NoFrameLost
<1>1. KeepInv => NoFrameLost
  BY DEF KeepInv
<1>2. TouchInv /\ KeepInv /\ [Next]_vars => TouchInv' /\ KeepInv'
  BY TouchNext, KeepNext
<1> QED BY <1>1, <1>2, TouchInit, KeepInit, PTL DEF Spec
-----------------------------------------------------------------------------
(***************************************************************************)
(* A buffer reported COMPLETED is not the one being played, in OUTPUT     *)
(* mode.                                                                   *)
(* With two buffers floating the callback looks; with one it relies on the *)
(* sets: the buffer's set is linked to the loop job, which is where the    *)
(* EDMA is once the buffer has raised its interrupt.                       *)
(***************************************************************************)
AllLoop ==
    /\ pram = [i \in Index |-> LoopSlot(i)]
    /\ \E k \in Index : xfer = LoopSlot(k)

OneLoaded ==
    /\ pram[Other(nextLink)] = LoopSlot(Other(nextLink))
    /\ pram[nextLink].link = Other(nextLink)
    /\ xfer.intr => xfer.link = Other(nextLink)
    /\ late > 0 => xfer = LoopSlot(Other(nextLink))

IdleInv ==
    /\ CompletedIsIdle
    /\ pc = "arm" => floatQ # <<>>
    /\ floatQ = <<>> => AllLoop /\ (late > 0 => overtaken)
    /\ Len(floatQ) = 1 =>
         IF pc = "arm" THEN AllLoop /\ late = 0 ELSE OneLoaded

LEMMA OtherFacts ==
    /\ \A i \in Index : Other(i) \in Index /\ Other(i) # i
    /\ \A i, j \in Index : j # Other(i) => j = i
BY DEF Index, MAXLINKCNT, Other

LEMMA EmptyFloat ==
    ASSUME TouchInv
    PROVE  /\ Len(floatQ) \in Nat /\ floatQ \in Seq(Frames)
           /\ floatQ = <<>> <=> Len(floatQ) = 0
BY DEF TouchInv, TypeOK

LEMMA IdleInit == Init => IdleInv
BY IndexFacts DEF Init, IdleInv, AllLoop, CompletedIsIdle

\* The hardware: the set after the one loaded is the loop job, linked to itself.
LEMMA IdleComplete == TouchInv /\ IdleInv /\ Complete => IdleInv'
<1> SUFFICES ASSUME TouchInv, IdleInv, Complete PROVE IdleInv'
  OBVIOUS
<1>1. /\ xfer' = pram[xfer.link] /\ late' = IF xfer.intr THEN late + 1 ELSE late
      /\ UNCHANGED <<pram, overtaken, floatQ, nextLink, pc, report>>
  BY DEF Complete, queueVars, resumeVars
<1>2. xfer.link \in Index /\ nextLink \in Index /\ late \in Nat
  BY MaxLateAssumption DEF TouchInv, TypeOK, Slot
<1>3. AllLoop => AllLoop' /\ late' = late
  <2> SUFFICES ASSUME AllLoop PROVE AllLoop' /\ late' = late
    OBVIOUS
  <2>1. PICK k \in Index : xfer = LoopSlot(k)
    BY DEF AllLoop
  <2>2. xfer.link = k /\ ~xfer.intr /\ pram[k] = LoopSlot(k)
    BY <2>1 DEF AllLoop, LoopSlot
  <2> QED BY <1>1, <2>1, <2>2 DEF AllLoop
<1>4. OneLoaded => OneLoaded'
  <2> SUFFICES ASSUME OneLoaded PROVE OneLoaded'
    OBVIOUS
  <2>1. CASE xfer.link = Other(nextLink)
    BY <1>1, <1>2, <2>1 DEF OneLoaded, LoopSlot
  <2>2. CASE xfer.link # Other(nextLink)
    <3>1. xfer.link = nextLink
      BY <1>2, <2>2, OtherFacts
    <3>2. ~xfer.intr /\ late = 0
      BY <1>2, <2>2 DEF OneLoaded, LoopSlot
    <3> QED BY <1>1, <1>2, <3>1, <3>2 DEF OneLoaded
  <2> QED BY <2>1, <2>2
<1> QED BY <1>1, <1>3, <1>4 DEF IdleInv, CompletedIsIdle

\* The interrupt: with one buffer it finds the EDMA on the loop job.
LEMMA IdleCallback ==
    ASSUME Mode = "OUTPUT", TouchInv, KeepInv, IdleInv, CompletionIsr \/ ErrorIsr
    PROVE  IdleInv'
<1>1. PICK status \in {"COMPLETED", "ABORT"} :
        /\ EdmaCallback(status)
        /\ status = "COMPLETED" => late > 0
        /\ late' = 0 \/ (late' = late /\ overtaken' = overtaken)
  BY DEF CompletionIsr, ErrorIsr
<1>2. xfer' = xfer /\ pc' = pc
  BY <1>1 DEF EdmaCallback, resumeVars
<1>3. nextLink \in Index /\ late \in Nat /\ pram \in [Index -> Slot]
  BY MaxLateAssumption DEF TouchInv, TypeOK
<1>4. floatQ' \in Seq(Frames) /\ Len(floatQ') = Len(floatQ)
  <2>1. floatQ \in Seq(Frames) /\ IsInjective(floatQ)
    BY DEF TouchInv, TypeOK
  <2>2. CASE CallbackEmpty
    BY <2>1, <2>2 DEF CallbackEmpty, queueVars
  <2>3. CASE CallbackUnderflow
    BY <2>1, <2>3, PutBackKeeps DEF CallbackUnderflow, HeadActive
  <2>4. CASE CallbackReport(status)
    BY <2>4, RequeueBounds DEF CallbackReport, TouchInv
  <2> QED BY <1>1, <2>2, <2>3, <2>4 DEF EdmaCallback
<1>5. floatQ' = <<>> <=> floatQ = <<>>
  BY <1>4, EmptyFloat
<1>6. CASE CallbackEmpty
  BY <1>1, <1>2, <1>3, <1>6, EmptyFloat
     DEF CallbackEmpty, queueVars, IdleInv, AllLoop, CompletedIsIdle
<1>7. CASE CallbackUnderflow
  <2>1. Len(floatQ) > 1 /\ report'.status = "NOIOBUFFERS"
    BY <1>7 DEF CallbackUnderflow, HeadActive
  <2> QED BY <1>4, <1>5, <2>1, EmptyFloat DEF IdleInv, CompletedIsIdle
<1>8. CASE CallbackReport(status)
  <2>1. /\ floatQ # <<>> /\ ~HeadActive /\ PauseSet
        /\ report' = [buf |-> Head(floatQ), status |-> status, active |-> xfer.addr]
    BY <1>8 DEF CallbackReport
  <2>2. Head(floatQ) \in Frames
    BY <2>1, EmptyFloat
  <2>3. CompletedIsIdle'
    <3>1. CASE Len(floatQ) > 1
      BY <2>1, <3>1 DEF HeadActive, CompletedIsIdle
    <3>2. CASE Len(floatQ) = 1
      <4>1. status = "COMPLETED" => xfer.addr = LoopBuf
        <5> SUFFICES ASSUME late > 0 PROVE xfer.addr = LoopBuf
          BY <1>1
        <5>1. late # 0
          BY <1>3
        <5>2. xfer = LoopSlot(Other(nextLink))
          BY <3>2, <5>1 DEF IdleInv, OneLoaded
        <5> QED BY <5>2 DEF LoopSlot
      <4>2. LoopBuf # Head(floatQ)
        BY <2>2
      <4> QED BY <2>1, <4>1, <4>2 DEF CompletedIsIdle
    <3>3. Len(floatQ) \in Nat /\ Len(floatQ) # 0
      BY <2>1, EmptyFloat
    <3>4. Len(floatQ) > 1 \/ Len(floatQ) = 1
      <4> DEFINE n == Len(floatQ)
      <4>1. n \in Nat /\ n # 0
        BY <3>3
      <4> HIDE DEF n
      <4>2. n > 1 \/ n = 1
        BY <4>1
      <4> QED BY <4>2 DEF n
    <3> QED BY <3>1, <3>2, <3>4
  <2>4. ASSUME Len(floatQ) = 1
        PROVE  /\ nextLink' = nextLink
               /\ pram' = pram
    <3>1. pram[Other(nextLink)] = LoopSlot(Other(nextLink))
      BY <1>3, <2>4, IndexFacts DEF IdleInv, AllLoop, OneLoaded
    <3>2. Other(nextLink) \in Index /\ Other(Other(nextLink)) = nextLink
      BY <1>3, IndexFacts
    <3>3. [pram EXCEPT ![Other(nextLink)] = LoopSlot(Other(nextLink))] = pram
      BY <1>3, <3>1, <3>2
    <3> QED BY <2>1, <3>2, <3>3 DEF PauseSet
  <2> QED BY <1>1, <1>2, <1>3, <1>4, <1>5, <2>1, <2>3, <2>4, EmptyFloat
          DEF IdleInv, AllLoop, OneLoaded
<1> QED BY <1>1, <1>6, <1>7, <1>8 DEF EdmaCallback

LEMMA NothingRaised ==
    ASSUME TouchInv, IdleInv, TaskStep, Len(floatQ) = 0
    PROVE  AllLoop /\ late = 0
<1>1. AllLoop /\ (late > 0 => overtaken)
  BY EmptyFloat DEF IdleInv
<1>2. late \in Nat
  BY MaxLateAssumption DEF TouchInv, TypeOK
<1> QED BY <1>1, <1>2 DEF TaskStep

\* The first buffer finds no interrupt raised: the last abort was overtaken by it.
LEMMA IdleSubmitFloat ==
    ASSUME Mode = "OUTPUT", TouchInv, KeepInv, IdleInv,
           NEW f \in Frames, SubmitFloat(f)
    PROVE  IdleInv'
<1>1. /\ pc = "idle" /\ TaskStep /\ f \notin held
      /\ floatQ' = Put(floatQ, f)
      /\ pram' = [pram EXCEPT ![nextLink'] = BufSlot(nextLink', f)]
      /\ nextLink' = nextLink \/ nextLink' = Other(nextLink)
      /\ xfer' = xfer \/ xfer' = [xfer EXCEPT !.link = nextLink']
      /\ UNCHANGED <<late, pc, report>>
  BY DEF SubmitFloat, Called, resumeVars
<1>2. Len(floatQ') = Len(floatQ) + 1
  <2>1. f \notin ToSet(floatQ)
    BY <1>1 DEF KeepInv, NoFrameLost, Queued
  <2> QED BY <1>1, <2>1, EmptyFloat, PutNew
<1>3. floatQ' # <<>>
  BY <1>2, EmptyFloat
<1>4. ASSUME Len(floatQ) = 0
      PROVE  OneLoaded'
  <2>1. AllLoop /\ late = 0
    BY <1>1, <1>4, NothingRaised
  <2>2. nextLink' \in Index /\ Other(nextLink') \in Index /\ Other(nextLink') # nextLink'
    BY <1>1, OtherFacts DEF TouchInv, TypeOK
  <2>3. pram'[nextLink'].link = Other(nextLink')
    BY <1>1, <2>2 DEF TouchInv, TypeOK, BufSlot
  <2>4. pram'[Other(nextLink')] = LoopSlot(Other(nextLink'))
    BY <1>1, <2>1, <2>2 DEF AllLoop
  <2>5. ~xfer'.intr
    BY <1>1, <2>1 DEF AllLoop, LoopSlot
  <2> QED BY <1>1, <2>1, <2>3, <2>4, <2>5 DEF OneLoaded
<1> QED BY <1>1, <1>2, <1>3, <1>4, EmptyFloat DEF IdleInv, CompletedIsIdle

LEMMA IdleAbort ==
    ASSUME TouchInv, IdleInv, Called, HandBackAll, UNCHANGED <<late, pc, report>>
    PROVE  IdleInv'
<1>1. floatQ' = <<>> /\ AllLoop'
  BY IndexFacts DEF HandBackAll, AllLoop
<1>2. pc' # "arm" /\ (late' > 0 => overtaken')
  BY DEF Called, TaskStep
<1>3. CompletedIsIdle'
  BY DEF IdleInv, CompletedIsIdle
<1>4. Len(floatQ') = 0
  BY <1>1
<1> QED BY <1>1, <1>2, <1>3, <1>4 DEF IdleInv

\* RESUME moves a first buffer only when no interrupt is raised.
LEMMA IdleResumeTake ==
    ASSUME Mode = "OUTPUT", TouchInv, KeepInv, IdleInv, ResumeTake
    PROVE  IdleInv'
<1>1. /\ pc = "take" /\ TaskStep
      /\ UNCHANGED <<xfer, pram, late, report>>
  BY DEF ResumeTake
<1>2. CASE pendQ = <<>>
  <2>1. UNCHANGED <<floatQ, nextLink>> /\ pc' # "arm"
    BY <1>2 DEF ResumeTake, NextIteration
  <2>2. overtaken' = (late > 0)
    BY <1>1 DEF TaskStep
  <2> QED BY <1>1, <2>1, <2>2 DEF IdleInv, AllLoop, OneLoaded, CompletedIsIdle
<1>3. CASE pendQ # <<>>
  <2>1. floatQ' = Put(floatQ, Head(pendQ)) /\ pc' = "arm"
    BY <1>3 DEF ResumeTake
  <2>2. Head(pendQ) \in Frames /\ Head(pendQ) \notin ToSet(floatQ)
    BY <1>3, TailParts DEF TouchInv, TypeOK, KeepInv
  <2>3. Len(floatQ') = Len(floatQ) + 1
    BY <2>1, <2>2, EmptyFloat, PutNew
  <2>4. Len(floatQ) = 0 => AllLoop /\ late = 0
    BY <1>1, NothingRaised
  <2>5. floatQ' # <<>>
    BY <2>3, EmptyFloat
  <2>6. Len(floatQ') = 1 => AllLoop' /\ late' = 0
    <3>1. Len(floatQ') = 1 => Len(floatQ) = 0
      <4> DEFINE n == Len(floatQ)
                 m == Len(floatQ')
      <4>1. n \in Nat /\ m = n + 1
        BY <2>3, EmptyFloat
      <4> HIDE DEF n, m
      <4>2. m = 1 => n = 0
        BY <4>1
      <4> QED BY <4>2 DEF n, m
    <3> QED BY <1>1, <2>4, <3>1 DEF AllLoop
  <2> QED BY <1>1, <2>1, <2>5, <2>6 DEF IdleInv, CompletedIsIdle
<1> QED BY <1>2, <1>3

LEMMA IdleResumeArm ==
    ASSUME TouchInv, IdleInv, ResumeArm
    PROVE  IdleInv'
<1>1. /\ pc = "arm" /\ pc' \in {"take", "end"}
      /\ pram' = [pram EXCEPT ![nextLink] = BufSlot(nextLink, ioBuf)]
      /\ xfer' = xfer \/ xfer' = [xfer EXCEPT !.link = nextLink]
      /\ UNCHANGED <<late, floatQ, nextLink, report>>
  BY TouchIteration DEF ResumeArm, queueVars, TouchInv
<1>2. floatQ # <<>>
  BY <1>1 DEF IdleInv
<1>3. ASSUME AllLoop, late = 0
      PROVE  OneLoaded'
  <2>1. nextLink \in Index /\ Other(nextLink) \in Index /\ Other(nextLink) # nextLink
    BY OtherFacts DEF TouchInv, TypeOK
  <2>2. pram'[nextLink].link = Other(nextLink)
    BY <1>1, <2>1 DEF TouchInv, TypeOK, BufSlot
  <2>3. pram'[Other(nextLink)] = LoopSlot(Other(nextLink))
    BY <1>1, <1>3, <2>1 DEF AllLoop
  <2>4. ~xfer'.intr
    BY <1>1, <1>3 DEF AllLoop, LoopSlot
  <2> QED BY <1>1, <1>3, <2>2, <2>3, <2>4 DEF OneLoaded
<1> QED BY <1>1, <1>2, <1>3 DEF IdleInv, CompletedIsIdle

LEMMA IdleNext ==
    ASSUME Mode = "OUTPUT"
    PROVE  TouchInv /\ KeepInv /\ IdleInv /\ [Next]_vars => IdleInv'
<1> SUFFICES ASSUME TouchInv, KeepInv, IdleInv, [Next]_vars PROVE IdleInv'
  OBVIOUS
<1>1. CASE Complete
  BY <1>1, IdleComplete
<1>2. CASE CompletionIsr \/ ErrorIsr
  BY <1>2, IdleCallback
<1>3. ASSUME NEW f \in Frames, SubmitFloat(f) PROVE IdleInv'
  BY <1>3, IdleSubmitFloat
<1>4. CASE AbortReset \/ Stop
  BY <1>4, IdleAbort DEF AbortReset, Stop, resumeVars
<1>5. CASE ResumeTake
  BY <1>5, IdleResumeTake
<1>6. CASE ResumeArm
  BY <1>6, IdleResumeArm
<1>7. CASE \/ Start \/ Pause \/ ResumeCall \/ ResumeEnd \/ RateCall \/ RateEnd
           \/ (\E f \in Frames : SubmitPend(f)) \/ \E on \in BOOLEAN : SetMute(on)
  <2>1. /\ UNCHANGED <<xfer, pram, late, floatQ, nextLink, report>>
        /\ overtaken' = (late > 0) /\ pc # "arm" /\ pc' # "arm"
    BY <1>7 DEF Start, Pause, ResumeCall, ResumeEnd, RateCall, RateEnd, SubmitPend, SetMute, Called,
                TaskStep, queueVars, resumeVars
  <2> QED BY <2>1 DEF IdleInv, AllLoop, OneLoaded, CompletedIsIdle
<1>8. CASE UNCHANGED vars
  BY <1>8 DEF vars, hwVars, queueVars, resumeVars, IdleInv, AllLoop, OneLoaded,
              CompletedIsIdle
<1> QED BY <1>1, <1>2, <1>3, <1>4, <1>5, <1>6, <1>7, <1>8 DEF Next, Client, Resume

\* On an OUTPUT channel the callback never reports as completed the buffer that is
\* being played, however late it comes.
THEOREM OutputReportsIdle == ASSUME Mode = "OUTPUT" PROVE Spec => []CompletedIsIdle
<1>1. IdleInv => CompletedIsIdle
  BY DEF IdleInv
<1>2. /\ TouchInv /\ KeepInv /\ [Next]_vars => TouchInv' /\ KeepInv'
      /\ TouchInv /\ KeepInv /\ IdleInv /\ [Next]_vars => IdleInv'
  BY TouchNext, KeepNext, IdleNext
<1> QED BY <1>1, <1>2, TouchInit, KeepInit, IdleInit, PTL DEF Spec
=============================================================================
