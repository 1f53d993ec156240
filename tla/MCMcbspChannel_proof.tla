------------------------ MODULE MCMcbspChannel_proof ------------------------
(***************************************************************************)
(* Proofs about the channels of SpecAll: what McbspChannel_proof shows of  *)
(* a channel of Mode carries over to the choice of the direction, and the  *)
(* firmware's client has an invariant of its own.                          *)
(***************************************************************************)
EXTENDS MCMcbspChannel, McbspChannel_proof

\* The invariants of the OUTPUT channel hold in the behaviours that choose it.
OutputInv ==
    /\ direction \in {Mode, "INPUT", "single"}
    /\ Mode = "OUTPUT" /\ direction = Mode => TouchInv /\ KeepInv /\ IdleInv

LEMMA OutputInvInit == InitAll => OutputInv
BY TouchInit, KeepInit, IdleInit DEF InitAll, OutputInv

LEMMA OutputInvNext == OutputInv /\ [NextAll]_allVars => OutputInv'
<1> SUFFICES ASSUME OutputInv, [NextAll]_allVars PROVE OutputInv'
  OBVIOUS
<1>1. direction' = direction
  BY DEF NextAll, allVars
<1>2. ASSUME Mode = "OUTPUT", direction = Mode
      PROVE  TouchInv' /\ KeepInv' /\ IdleInv'
  <2>1. [Next]_vars
    BY <1>2 DEF NextAll, allVars
  <2>2. TouchInv /\ KeepInv /\ IdleInv
    BY <1>2 DEF OutputInv
  <2>3. TouchInv' /\ KeepInv'
    BY <1>2, <2>1, <2>2, TouchNext, KeepNext
  <2>4. IdleInv'
    BY <1>2, <2>1, <2>2, IdleNext
  <2> QED BY <2>3, <2>4
<1> QED BY <1>1, <1>2 DEF OutputInv

\* Whichever channel runs, an output channel never reports as completed the buffer
\* that is being played.
THEOREM CompletedOutputIsIdle == SpecAll => []OutputCompletedIsIdle
<1>1. OutputInv => OutputCompletedIsIdle
  BY ModeAssumption DEF OutputInv, OutputCompletedIsIdle, IdleInv
<1> QED BY <1>1, OutputInvInit, OutputInvNext, PTL DEF SpecAll
-----------------------------------------------------------------------------
(***************************************************************************)
(* The firmware's client.  Of each direction the number of submissions     *)
(* tells the shape of the driver's list and what the PaRAM sets hold.      *)
(***************************************************************************)
List == [next: [Single!Node -> Single!Node], prev: [Single!Node -> Single!Node]]
SingleSlot == [addr: {"loop", "frame"}, intr: BOOLEAN, link: {0, 1}]

\* The frame is nowhere, in the list, or in the list and linked to itself.
NoFrame(l) == l.next["queue"] = "queue" /\ l.prev["queue"] = "queue"
OneFrame(l) ==
    l.next["queue"] = "frame" /\ l.next["frame"] = "queue" /\ l.prev["queue"] = "frame"
Endless(l) ==
    l.next["queue"] = "frame" /\ l.next["frame"] = "frame" /\ l.prev["queue"] = "frame"

SingleType ==
    /\ list \in [Single!Direction -> List]
    /\ count \in [Single!Direction -> 0 .. 2] /\ submits = count
    /\ linkSet \in [Single!Direction -> {0, 1}]
    /\ playing \in [Single!Direction -> SingleSlot]
    /\ sets \in [Single!Direction -> [0 .. 1 -> SingleSlot]]
    /\ raised \in [Single!Direction -> 0 .. MaxLate]

\* Before the first submission, after it and after the second.
Submitted(d) ==
    /\ count[d] = 0 =>
         /\ NoFrame(list[d]) /\ raised[d] = 0 /\ linkSet[d] = 0
         /\ playing[d] = Single!LoopSlot(0)
         /\ sets[d][0] = Single!LoopSlot(0) /\ sets[d][1] = Single!LoopSlot(1)
    /\ count[d] = 1 =>
         /\ OneFrame(list[d]) /\ linkSet[d] = 0
         /\ sets[d][0] = Single!FrameSlot(0) /\ sets[d][1] = Single!LoopSlot(1)
    /\ count[d] = 2 =>
         /\ Endless(list[d])
         /\ sets[d][0] = Single!FrameSlot(0) /\ sets[d][1] = Single!FrameSlot(1)

SingleInv == SingleType /\ \A d \in Single!Direction : Submitted(d)

LEMMA PutShape ==
    ASSUME NEW l \in List
    PROVE  /\ Single!Put(l) \in List
           /\ NoFrame(l) => OneFrame(Single!Put(l))
           /\ OneFrame(l) => Endless(Single!Put(l))
           /\ Endless(l) => Endless(Single!Put(l))
BY DEF List, Single!Node, Single!Put, NoFrame, OneFrame, Endless

LEMMA GetShape ==
    ASSUME NEW l \in List
    PROVE  /\ Single!Get(l) \in List
           /\ OneFrame(l) => NoFrame(Single!Get(l))
           /\ Endless(l) => Endless(Single!Get(l))
BY DEF List, Single!Node, Single!Get, NoFrame, OneFrame, Endless

LEMMA SlotShape ==
    /\ \A i \in {0, 1} :
         /\ Single!LoopSlot(i) \in SingleSlot /\ Single!FrameSlot(i) \in SingleSlot
         /\ Single!LoopSlot(i).link = i /\ ~Single!LoopSlot(i).intr
         /\ Single!FrameSlot(i).addr = "frame" /\ Single!FrameSlot(i).intr
    /\ Single!Other(0) = 1 /\ Single!Other(1) = 0
<1>1. Single!Other(0) = 1 /\ Single!Other(1) = 0
  BY DEF Single!Other, Single!MAXLINKCNT
<1> QED BY <1>1 DEF SingleSlot, Single!LoopSlot, Single!FrameSlot

LEMMA SingleInit == Single!Init => SingleInv
<1> SUFFICES ASSUME Single!Init PROVE SingleInv
  OBVIOUS
<1>1. SingleType
  <2>1. 0 \in 0 .. MaxLate /\ 0 \in 0 .. 2 /\ 0 .. 1 = {0, 1}
    BY MaxLateAssumption
  <2> QED BY <2>1, SlotShape DEF Single!Init, SingleType, List, Single!Node
<1>2. ASSUME NEW d \in Single!Direction PROVE Submitted(d)
  BY SlotShape DEF Single!Init, Submitted, NoFrame, Single!Node
<1> QED BY <1>1, <1>2 DEF SingleInv

\* The set being played is copied from one the invariant knows; before the first
\* submission it raises no interrupt.
LEMMA SingleComplete ==
    ASSUME SingleInv, NEW d \in Single!Direction, Single!Complete(d)
    PROVE  SingleInv'
<1>1. UNCHANGED <<list, count, linkSet, sets, submits>>
  BY DEF Single!Complete, Single!driverVars
<1>2. playing[d] \in SingleSlot /\ sets[d] \in [0 .. 1 -> SingleSlot]
  BY DEF SingleInv, SingleType
<1>3. playing' = [playing EXCEPT ![d] = sets[d][playing[d].link]]
  BY DEF Single!Complete
<1>4. sets[d][playing[d].link] \in SingleSlot
  BY <1>2 DEF SingleSlot
<1>5. raised' = [raised EXCEPT ![d] = IF playing[d].intr THEN raised[d] + 1 ELSE raised[d]]
      /\ (playing[d].intr => raised[d] < MaxLate)
  BY DEF Single!Complete
<1>6. SingleType'
  <2>1. playing' \in [Single!Direction -> SingleSlot]
    BY <1>3, <1>4 DEF SingleInv, SingleType
  <2>2. raised' \in [Single!Direction -> 0 .. MaxLate]
    BY <1>5, MaxLateAssumption DEF SingleInv, SingleType
  <2> QED BY <1>1, <2>1, <2>2 DEF SingleInv, SingleType
<1>7. ASSUME NEW e \in Single!Direction PROVE Submitted(e)'
  <2>1. CASE e # d
    <3>1. raised'[e] = raised[e] /\ playing'[e] = playing[e]
      BY <2>1, <1>3, <1>5 DEF SingleInv, SingleType
    <3> QED BY <3>1, <1>1 DEF SingleInv, Submitted
  <2>2. CASE e = d
    <3>1. Submitted(d)
      BY DEF SingleInv
    <3>2. count[d] = 0 => playing'[d] = playing[d] /\ raised'[d] = raised[d]
      BY <1>3, <1>5, <3>1, SlotShape DEF Submitted, SingleInv, SingleType
    <3> QED BY <1>1, <2>2, <3>1, <3>2 DEF Submitted
  <2> QED BY <2>1, <2>2
<1> QED BY <1>6, <1>7 DEF SingleInv

LEMMA SingleCallback ==
    ASSUME SingleInv, NEW d \in Single!Direction, Single!EdmaCallback(d)
    PROVE  SingleInv'
<1>1. UNCHANGED <<count, linkSet, playing, sets, submits>>
  BY DEF Single!EdmaCallback
<1>2. raised' = [raised EXCEPT ![d] = 0] /\ raised[d] > 0
  BY DEF Single!EdmaCallback
<1>3. Submitted(d) /\ list[d] \in List /\ count[d] \in {0, 1, 2}
  BY DEF SingleInv, SingleType
<1>4. count[d] # 0
  BY <1>2, <1>3 DEF Submitted
<1> DEFINE taken == Single!Get(list[d])
           swapped == Single!Swapped(d, taken)
<1>5. /\ taken \in List /\ Single!Get(taken) \in List
      /\ Single!Put(Single!Get(taken)) \in List
  BY <1>3, GetShape, PutShape
<1>6. swapped \in List
  BY <1>5, PutShape DEF Single!Swapped
<1>7. ASSUME count[d] = 1
      PROVE  OneFrame(Single!Put(swapped)) /\ ~Single!Underflow(d, taken)
  <2>1. NoFrame(taken)
    BY <1>3, <1>7, GetShape DEF Submitted
  <2>2. Single!Empty(taken)
    BY <2>1 DEF NoFrame, Single!Empty
  <2>3. swapped = taken
    BY <2>2 DEF Single!Swapped
  <2> QED BY <1>5, <2>1, <2>2, <2>3, PutShape DEF Single!Underflow
<1>8. ASSUME count[d] = 2
      PROVE  Endless(swapped) /\ Endless(Single!Put(swapped))
  <2>1. Endless(taken)
    BY <1>3, <1>8, GetShape DEF Submitted
  <2>2. Endless(Single!Put(Single!Put(Single!Get(taken))))
    BY <1>5, <2>1, GetShape, PutShape
  <2>3. Endless(swapped)
    BY <2>1, <2>2 DEF Single!Swapped
  <2> QED BY <1>6, <2>3, PutShape
<1>9. \/ list' = list
      \/ /\ list' = [list EXCEPT ![d] = swapped]
         /\ Single!Underflow(d, taken)
      \/ list' = [list EXCEPT ![d] = Single!Put(swapped)]
  BY DEF Single!EdmaCallback
<1>10. SingleType'
  <2>1. list' \in [Single!Direction -> List]
    BY <1>6, <1>9, PutShape DEF SingleInv, SingleType
  <2>2. raised' \in [Single!Direction -> 0 .. MaxLate]
    BY <1>2, MaxLateAssumption DEF SingleInv, SingleType
  <2> QED BY <1>1, <2>1, <2>2 DEF SingleInv, SingleType
<1>11. ASSUME NEW e \in Single!Direction PROVE Submitted(e)'
  <2>1. CASE e # d
    <3>1. raised'[e] = raised[e] /\ list'[e] = list[e]
      BY <2>1, <1>2, <1>9 DEF SingleInv, SingleType
    <3> QED BY <3>1, <1>1 DEF SingleInv, Submitted
  <2>2. CASE e = d
    <3>1. count[d] = 1 => OneFrame(list'[d])
      BY <1>3, <1>7, <1>9 DEF Submitted, SingleInv, SingleType
    <3>2. count[d] = 2 => Endless(list'[d])
      BY <1>3, <1>8, <1>9 DEF Submitted, SingleInv, SingleType
    <3> QED BY <1>1, <1>3, <1>4, <2>2, <3>1, <3>2 DEF Submitted
  <2> QED BY <2>1, <2>2
<1> QED BY <1>10, <1>11 DEF SingleInv

\* The first submission loads set 0, the second set 1 and links the frame to itself.
LEMMA SingleSubmit ==
    ASSUME SingleInv, NEW d \in Single!Direction, Single!Submit(d)
    PROVE  SingleInv'
<1> DEFINE n == Single!LinkAfter(d)
<1>1. /\ Submitted(d) /\ list[d] \in List /\ count[d] \in {0, 1}
      /\ playing[d] \in SingleSlot /\ sets[d] \in [0 .. 1 -> SingleSlot]
  BY DEF SingleInv, SingleType, Single!Submit, Single!MAXLINKCNT
<1>2. n = count[d]
  BY <1>1, SlotShape DEF Single!LinkAfter, Single!MAXLINKCNT, Submitted
<1>3. /\ count' = [count EXCEPT ![d] = count[d] + 1]
      /\ submits' = [submits EXCEPT ![d] = submits[d] + 1]
      /\ list' = [list EXCEPT ![d] = Single!Put(list[d])]
      /\ linkSet' = [linkSet EXCEPT ![d] = n]
      /\ sets' = [sets EXCEPT ![d] = [sets[d] EXCEPT ![n] = Single!FrameSlot(n)]]
      /\ playing' = [playing EXCEPT
              ![d] = [playing[d] EXCEPT !.link = IF count[d] = 0 THEN n ELSE playing[d].link]]
      /\ raised' = raised
  BY DEF Single!Submit
<1>4. SingleType'
  <2>1. list' \in [Single!Direction -> List]
    BY <1>1, <1>3, PutShape DEF SingleInv, SingleType
  <2>2. count' \in [Single!Direction -> 0 .. 2] /\ submits' = count'
    BY <1>1, <1>3 DEF SingleInv, SingleType
  <2>3. linkSet' \in [Single!Direction -> {0, 1}]
    BY <1>1, <1>2, <1>3 DEF SingleInv, SingleType
  <2>4. [playing[d] EXCEPT !.link = IF count[d] = 0 THEN n ELSE playing[d].link] \in SingleSlot
    BY <1>1, <1>2 DEF SingleSlot
  <2>5. playing' \in [Single!Direction -> SingleSlot]
    BY <1>3, <2>4 DEF SingleInv, SingleType
  <2>6. [sets[d] EXCEPT ![n] = Single!FrameSlot(n)] \in [0 .. 1 -> SingleSlot]
    BY <1>1, <1>2, SlotShape
  <2>7. sets' \in [Single!Direction -> [0 .. 1 -> SingleSlot]]
    BY <1>3, <2>6 DEF SingleInv, SingleType
  <2> QED BY <1>3, <2>1, <2>2, <2>3, <2>5, <2>7 DEF SingleInv, SingleType
<1>5. ASSUME NEW e \in Single!Direction PROVE Submitted(e)'
  <2>1. CASE e # d
    <3>1. /\ raised'[e] = raised[e] /\ list'[e] = list[e] /\ count'[e] = count[e]
          /\ linkSet'[e] = linkSet[e] /\ playing'[e] = playing[e] /\ sets'[e] = sets[e]
      BY <2>1, <1>3 DEF SingleInv, SingleType
    <3> QED BY <3>1 DEF SingleInv, Submitted
  <2>2. CASE e = d
    <3>1. /\ count'[d] = count[d] + 1 /\ list'[d] = Single!Put(list[d])
          /\ linkSet'[d] = n /\ sets'[d] = [sets[d] EXCEPT ![n] = Single!FrameSlot(n)]
      BY <1>3 DEF SingleInv, SingleType
    <3>2. sets'[d][n] = Single!FrameSlot(n) /\ \A i \in {0, 1} \ {n} : sets'[d][i] = sets[d][i]
      BY <3>1, <1>1, <1>2
    <3>3. ASSUME count[d] = 0 PROVE Submitted(d)'
      <4>1. /\ n = 0 /\ NoFrame(list[d]) /\ count'[d] = 1
            /\ sets'[d][0] = Single!FrameSlot(0) /\ sets'[d][1] = Single!LoopSlot(1)
        BY <1>1, <1>2, <3>1, <3>2, <3>3 DEF Submitted
      <4>2. OneFrame(list'[d])
        BY <1>1, <3>1, <4>1, PutShape
      <4> QED BY <3>1, <4>1, <4>2 DEF Submitted
    <3>4. ASSUME count[d] = 1 PROVE Submitted(d)'
      <4>1. /\ n = 1 /\ OneFrame(list[d]) /\ count'[d] = 2
            /\ sets'[d][0] = Single!FrameSlot(0) /\ sets'[d][1] = Single!FrameSlot(1)
        BY <1>1, <1>2, <3>1, <3>2, <3>4 DEF Submitted
      <4>2. Endless(list'[d])
        BY <1>1, <3>1, <4>1, PutShape
      <4> QED BY <3>1, <4>1, <4>2 DEF Submitted
    <3> QED BY <1>1, <2>2, <3>3, <3>4
  <2> QED BY <2>1, <2>2
<1> QED BY <1>4, <1>5 DEF SingleInv

LEMMA SingleNext == SingleInv /\ [NextAll]_allVars => SingleInv'
<1> SUFFICES ASSUME SingleInv, [NextAll]_allVars PROVE SingleInv'
  OBVIOUS
<1>1. CASE UNCHANGED <<list, count, linkSet, playing, sets, raised, submits>>
  BY <1>1 DEF SingleInv, SingleType, Submitted
<1>2. CASE Single!Next
  <2>1. ASSUME NEW d \in Single!Direction, Single!Complete(d) PROVE SingleInv'
    BY <2>1, SingleComplete
  <2>2. ASSUME NEW d \in Single!Direction, Single!EdmaCallback(d) PROVE SingleInv'
    BY <2>2, SingleCallback
  <2>3. CASE Single!SubmitInput \/ Single!SubmitOutput
    BY <2>3, SingleSubmit DEF Single!SubmitInput, Single!SubmitOutput, Single!Direction
  <2>4. CASE Single!Wait
    BY <2>4, <1>1 DEF Single!Wait, Single!driverVars, Single!hardwareVars
  <2> QED BY <1>2, <2>1, <2>2, <2>3, <2>4 DEF Single!Next
<1> QED BY <1>1, <1>2 DEF NextAll, allVars, frameVars

\* However often an interrupt comes late, and though the second submission puts a
\* frame in the list that is there already, the driver's callback finds a frame and
\* calls the application's handler.
THEOREM HandlerAlwaysCalled == SpecAll => []HandlerCalled
<1>1. SingleInv => HandlerCalled
  <2> SUFFICES ASSUME SingleInv, NEW d \in Single!Direction, raised[d] > 0
               PROVE  ~Single!Empty(list[d])
    BY DEF HandlerCalled, Single!HandlerCalled
  <2>1. Submitted(d) /\ count[d] \in {0, 1, 2}
    BY DEF SingleInv, SingleType
  <2> QED BY <2>1 DEF Submitted, OneFrame, Endless, Single!Empty
<1>2. InitAll => SingleInv
  BY SingleInit DEF InitAll
<1> QED BY <1>1, <1>2, SingleNext, PTL DEF SpecAll

\* After the second submission, whenever it came, the loop job is in no PaRAM set the
\* transfer channel can still link to.
THEOREM LoopStaysOff == SpecAll => []NeverBackToLoop
<1>1. SingleInv => NeverBackToLoop
  <2> SUFFICES ASSUME SingleInv, NEW d \in Single!Direction, submits[d] = 2
               PROVE  \A i \in {playing[d].link, sets[d][playing[d].link].link} :
                         sets[d][i].addr = "frame" /\ sets[d][i].intr
    BY DEF NeverBackToLoop, Single!NeverBackToLoop
  <2>1. Submitted(d) /\ count[d] = 2 /\ playing[d].link \in {0, 1}
    BY DEF SingleInv, SingleType, SingleSlot
  <2>2. \A i \in {0, 1} : sets[d][i] = Single!FrameSlot(i)
    BY <2>1 DEF Submitted
  <2>3. \A i \in {0, 1} : sets[d][i].link \in {0, 1}
    BY <2>2, SlotShape DEF SingleSlot
  <2> QED BY <2>1, <2>2, <2>3, SlotShape
<1>2. InitAll => SingleInv
  BY SingleInit DEF InitAll
<1> QED BY <1>1, <1>2, SingleNext, PTL DEF SpecAll
=============================================================================
