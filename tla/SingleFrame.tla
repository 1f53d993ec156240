----------------------------- MODULE SingleFrame -----------------------------
(***************************************************************************)
(* The client this firmware has for its two McBSP channels, _task_mcbsp of *)
(* mcbsp_task.c.  It owns one frame a direction, submits both, waits until *)
(* each was reported, and submits both once more without taking them back. *)
(*                                                                         *)
(* The driver's floating list is an intrusive queue: putting a frame that  *)
(* is queued already links the frame to itself.  The list is therefore     *)
(* kept here as its pointers, and of the driver what two submissions       *)
(* reach; module McbspChannel has the rest.                                *)
(***************************************************************************)
EXTENDS Integers

CONSTANT MaxLate   \* bound: completions before a raised interrupt is served

Direction == {"INPUT", "OUTPUT"}
Node == {"queue", "frame"}
MAXLINKCNT == 2

VARIABLES
    list,      \* ptrQFloatList: next and prev of the queue's head and of the frame
    count,     \* submitCount
    linkSet,   \* nextLinkParamSetToBeUpdated
    playing,   \* the PaRAM set of the transfer channel
    sets,      \* the two link PaRAM sets
    raised,    \* completions since the interrupt was raised
    done,      \* edmaRxDone, edmaTxDone
    submits,   \* rxSubmitCount, txSubmitCount
    task       \* where _task_mcbsp is

driverVars == <<list, count, linkSet>>
hardwareVars == <<playing, sets, raised>>
vars == <<driverVars, hardwareVars, done, submits, task>>

Other(i) == (i + 1) % MAXLINKCNT
LoopSlot(i) == [addr |-> "loop", intr |-> FALSE, link |-> i]
FrameSlot(i) == [addr |-> "frame", intr |-> TRUE, link |-> Other(i)]

\* Queue_empty, Queue_get and Queue_put of SYS/BIOS, for the frame.
Empty(l) == l.next["queue"] = "queue"

Get(l) ==
    LET second == l.next[l.next["queue"]]
    IN  [next |-> [l.next EXCEPT !["queue"] = second],
         prev |-> [l.prev EXCEPT ![second] = "queue"]]

Put(l) ==
    LET last == l.prev["queue"]
    IN  [next |-> [[l.next EXCEPT !["frame"] = "queue"] EXCEPT ![last] = "frame"],
         prev |-> [l.prev EXCEPT !["frame"] = last, !["queue"] = "frame"]]

Init ==
    /\ list = [d \in Direction |-> [next |-> [n \in Node |-> "queue"],
                                    prev |-> [n \in Node |-> "queue"]]]
    /\ count = [d \in Direction |-> 0] /\ linkSet = [d \in Direction |-> 0]
    /\ playing = [d \in Direction |-> LoopSlot(0)]
    /\ sets = [d \in Direction |-> [i \in 0 .. 1 |-> LoopSlot(i)]]
    /\ raised = [d \in Direction |-> 0]
    /\ done = [d \in Direction |-> FALSE]
    /\ submits = [d \in Direction |-> 0]
    /\ task = "INPUT"
-----------------------------------------------------------------------------
\* The set being played is exhausted and the one it links to copied over it.
Complete(d) ==
    /\ playing[d].intr => raised[d] < MaxLate
    /\ raised' = [raised EXCEPT ![d] = IF playing[d].intr THEN @ + 1 ELSE @]
    /\ playing' = [playing EXCEPT ![d] = sets[d][@.link]]
    /\ UNCHANGED <<driverVars, sets, done, submits, task>>

\* Two frames are taken out and put back when the first is the one played.
Swapped(d, taken) ==
    IF playing[d].addr = "frame" /\ ~Empty(taken) THEN Put(Put(Get(taken))) ELSE taken

\* An output that is still played is no completion: the client is told NULL.
Underflow(d, taken) == d = "OUTPUT" /\ playing[d].addr = "frame" /\ ~Empty(taken)

\* Mutant: a reported frame is not queued again.
EdmaCallback_Once(d) ==
    /\ raised[d] > 0
    /\ raised' = [raised EXCEPT ![d] = 0]
    /\ IF Empty(list[d]) THEN UNCHANGED <<list, done>>
       ELSE LET taken == Get(list[d])
            IN  /\ list' = [list EXCEPT ![d] = Swapped(d, taken)]
                /\ done' = [done EXCEPT ![d] = @ \/ ~Underflow(d, taken)]
    /\ UNCHANGED <<count, linkSet, playing, sets, submits, task>>

\* Mcbsp_localEdmaCallback and mcbspAppCallback: a reported frame is queued again.
EdmaCallback(d) ==
    /\ raised[d] > 0
    /\ raised' = [raised EXCEPT ![d] = 0]
    /\ IF Empty(list[d]) THEN UNCHANGED <<list, done>>
       ELSE LET taken == Get(list[d])
                swapped == Swapped(d, taken)
            IN  IF Underflow(d, taken)
                THEN list' = [list EXCEPT ![d] = swapped] /\ UNCHANGED done
                ELSE /\ list' = [list EXCEPT ![d] = Put(swapped)]
                     /\ done' = [done EXCEPT ![d] = TRUE]
    /\ UNCHANGED <<count, linkSet, playing, sets, submits, task>>
-----------------------------------------------------------------------------
\* Mutant: the second frame is loaded in the set of the first.
LinkAfter_Same(d) == linkSet[d]

\* The set a submission loads: the second frame goes into the other one.
LinkAfter(d) ==
    IF count[d] + 1 = MAXLINKCNT THEN Other(linkSet[d]) ELSE linkSet[d]

\* mcbspSubmitReq and Mcbsp_localLoadPktToEdma, with a set free.
Submit(d) ==
    /\ count[d] < MAXLINKCNT
    /\ count' = [count EXCEPT ![d] = @ + 1]
    /\ list' = [list EXCEPT ![d] = Put(@)]
    /\ linkSet' = [linkSet EXCEPT ![d] = LinkAfter(d)]
    /\ sets' = [sets EXCEPT ![d][LinkAfter(d)] = FrameSlot(LinkAfter(d))]
    /\ playing' = [playing EXCEPT ![d].link = IF count[d] = 0 THEN LinkAfter(d) ELSE @]
    /\ submits' = [submits EXCEPT ![d] = @ + 1]
    /\ UNCHANGED <<raised, done>>

SubmitInput == task = "INPUT" /\ Submit("INPUT") /\ task' = "OUTPUT"
SubmitOutput == task = "OUTPUT" /\ Submit("OUTPUT") /\ task' = "wait"

\* The task sees both directions reported; only the first time it goes round.
Wait ==
    /\ task = "wait" /\ \A d \in Direction : done[d]
    /\ done' = [d \in Direction |-> FALSE]
    /\ task' = IF submits["INPUT"] = 1 THEN "INPUT" ELSE "wait"
    /\ UNCHANGED <<driverVars, hardwareVars, submits>>

Next ==
    \/ \E d \in Direction : Complete(d) \/ EdmaCallback(d)
    \/ SubmitInput \/ SubmitOutput \/ Wait
-----------------------------------------------------------------------------
\* Every completion interrupt finds the frame in the list, so that it calls the
\* application's handler, which moves the audio: before the second submission
\* because the frame is queued again, after it because the list has no end.
HandlerCalled == \A d \in Direction : raised[d] > 0 => ~Empty(list[d])

\* Once the frame was submitted twice, the line plays nothing but the frame after
\* the block it is on, whenever the second submission came.
NeverBackToLoop ==
    \A d \in Direction : submits[d] = 2 =>
        \A i \in {playing[d].link, sets[d][playing[d].link].link} :
            sets[d][i].addr = "frame" /\ sets[d][i].intr
=============================================================================
