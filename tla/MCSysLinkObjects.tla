-------------------------- MODULE MCSysLinkObjects --------------------------
(***************************************************************************)
(* The objects of the SysLink wrappers share no state: a behaviour of this *)
(* module is one of any one of them, chosen at the start.                  *)
(***************************************************************************)
EXTENDS Integers, FiniteSets

CONSTANTS Modulus, MaxOpened, Events, Capacity, MaxList,
          Plain, Notifiers, MaxCount

\* syslink_notifier.h allows 2 processors, 4 lines and 32 events, of which SysLink
\* keeps the first for itself: the events a notifier can register fit its 8-bit
\* count.  "slk" is the SysLink object, and "none" stands for no parent.
ASSUME SysLinkAssumption ==
    /\ Modulus \in Nat \ {0} /\ MaxOpened \in Nat
    /\ IsFiniteSet(Events) /\ Cardinality(Events) <= 255
    /\ Capacity \in Nat /\ MaxList \in Nat
    /\ {"slk", "none"} \intersect (Plain \union Notifiers) = {}
    /\ MaxCount \in Nat

VARIABLES
    subject,
    pipe, call, passed,
    mq, msg, mbuf,
    marks, ntfcnt, regs, qstat, list, avail, broken, task, corrupt, past,
    cnt, parent, have, slk

Pipe == INSTANCE RingPipe
Queue == INSTANCE Messageq
Notify == INSTANCE Notifier
Tree == INSTANCE ObjectTree

Init ==
    /\ subject \in {"pipe", "queue", "message", "buffer", "notifier", "objects"}
    /\ Pipe!Init /\ Queue!Init /\ Notify!Init /\ Tree!Init

pipeVars == <<pipe, call, passed>>
queueVars == <<mq, msg, mbuf>>
notifierVars == <<marks, ntfcnt, regs, qstat, list, avail, broken, task, corrupt, past>>
treeVars == <<cnt, parent, have, slk>>

PipeStill == UNCHANGED pipeVars
QueueStill == UNCHANGED queueVars
NotifyStill == UNCHANGED notifierVars
TreeStill == UNCHANGED treeVars

Next ==
    /\ UNCHANGED subject
    /\ \/ subject = "pipe" /\ Pipe!Next /\ QueueStill /\ NotifyStill /\ TreeStill
       \/ subject = "queue" /\ Queue!QueueNext /\ PipeStill /\ NotifyStill /\ TreeStill
       \/ subject = "message" /\ Queue!MessageNext /\ PipeStill /\ NotifyStill /\ TreeStill
       \/ subject = "buffer" /\ Queue!BufferNext /\ PipeStill /\ NotifyStill /\ TreeStill
       \/ subject = "notifier" /\ Notify!Next /\ PipeStill /\ QueueStill /\ TreeStill
       \/ subject = "objects" /\ Tree!Next /\ PipeStill /\ QueueStill /\ NotifyStill

vars == <<subject, pipeVars, queueVars, notifierVars, treeVars>>

Spec == Init /\ [][Next]_vars
-----------------------------------------------------------------------------
TypeOK == Pipe!TypeOK /\ Queue!TypeOK /\ Notify!TypeOK /\ Tree!TypeOK

\* Making a pipe, a queue or a buffer ready takes several calls of the libraries; one
\* that fails leaves behind nothing the earlier ones made but what a library refused
\* to give up.
FailedPreparationLeavesNothing ==
    Pipe!FailedPreparationLeavesNothing /\ Queue!FailedPreparationLeavesNothing

\* No queue is destroyed with events registered, as long as its counter counts them.
DestroyedHasNoEvents == Queue!DestroyedHasNoEvents

\* No call of a pipe uses the writer's end after its buffer is gone, but for a failed
\* close.
DanglingAfterFailedClose == Pipe!DanglingAfterFailedClose

\* A notifier's task finds the events its semaphore counts.
PopFindsEvent == Notify!PopFindsEvent

\* An event in a notifier's queue can be taken.
NoneStranded == Notify!NoneStranded
=============================================================================
