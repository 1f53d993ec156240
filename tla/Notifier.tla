------------------------------ MODULE Notifier ------------------------------
(***************************************************************************)
(* One notifier of syslink_notifier.c with its event queue.  Two actors:   *)
(* the interrupt that runs notifier_callback for a registered event, and a *)
(* task that makes any call of the notifier.                               *)
(*                                                                         *)
(* The queue is a doubly linked list and a semaphore that counts it, and   *)
(* nothing keeps the interrupt out of the list.  Only the removal of the   *)
(* last node meets it: a node appended between bilist_del's reading the    *)
(* neighbours and its second write is not linked forwards.                 *)
(***************************************************************************)
EXTENDS Integers, FiniteSets, Sequences, SequencesExt

CONSTANTS
    Events,      \* procid, lineid and eventid of an event, with its payload
    Capacity,    \* events the queue may hold, 128 by default
    MaxList      \* bound: events in the list

Modes == SUBSET {"CACHE", "NOSEND", "NORECV"}
\* NOSEND and NORECV are the same bit.
Marks == {"VALID", "OPEN", "QUEUE", "NTFREG", "NOSENDRECV"}

VARIABLES
    marks,     \* the marks of the status word
    ntfcnt,    \* its count of registered events
    regs,      \* the events registered in the Notify library
    qstat,     \* status of the queue, "none" if there is no queue
    list,      \* the events linked forwards, the oldest first
    avail,     \* count of the semaphore
    broken,    \* the list's last pointer leads to a node that is not linked
    task,      \* the call the task is in, see Calls
    corrupt,   \* a node was taken from an empty list
    past       \* history: has the queue lost a node, has a timed search succeeded

vars == <<marks, ntfcnt, regs, qstat, list, avail, broken, task, corrupt, past>>
queueVars == <<qstat, list, avail, broken>>
callVars == <<task, corrupt, past>>

\* What the task looks for (any event, or one of a set), how long it waits, how many
\* counts it has taken and, while it removes a node, the node and the last write.
Idle == [at |-> "idle"]
Wanted == {[find |-> f, set |-> s] : f \in {"head", "match"}, s \in SUBSET Events \ {{}}}
Calls == {Idle} \union
         [at: {"pend"}, want: Wanted, wait: {"forever", "timed"}, taken: 0 .. 1] \union
         [at: {"read", "half"}, want: Wanted, taken: 1 .. 2, node: 1 .. MaxList]

Init ==
    /\ marks = {} /\ ntfcnt = 0 /\ regs = {}
    /\ qstat = "none" /\ list = <<>> /\ avail = 0 /\ broken = FALSE
    /\ task = Idle /\ corrupt = FALSE /\ past = {}
-----------------------------------------------------------------------------
(***************************************************************************)
(* The event queue: the interrupt's side.                                  *)
(***************************************************************************)
event_queue_full == Capacity # 0 /\ avail >= Capacity

Removing == task.at \in {"read", "half"}
LastNode == Removing /\ task.node = Len(list)

\* The append of event_queue_push, and where it is lost.
LinkTail(ev) ==
    /\ avail' = avail + 1
    /\ IF broken \/ LastNode
       THEN /\ past' = past \union {"window"}
            /\ broken' = (broken \/ task.at = "half")
            /\ UNCHANGED list
       ELSE /\ list' = Append(list, ev)
            /\ UNCHANGED <<broken, past>>

\* A queue that was full or without memory once takes nothing any more.
event_queue_push(ev) ==
    \/ /\ qstat # "NORMAL"
       /\ UNCHANGED <<queueVars, past>>
    \/ /\ qstat = "NORMAL" /\ event_queue_full
       /\ qstat' = "OVERFLOW"
       /\ UNCHANGED <<list, avail, broken, past>>
    \/ /\ qstat = "NORMAL" /\ ~event_queue_full
       /\ qstat' = "NOMEM"
       /\ UNCHANGED <<list, avail, broken, past>>
    \/ /\ qstat = "NORMAL" /\ ~event_queue_full
       /\ LinkTail(ev)
       /\ UNCHANGED qstat

\* The notifier has no function, so that every event goes to the queue.
notifier_callback ==
    \E ev \in regs :
        /\ Len(list) < MaxList
        /\ \/ /\ qstat # "none"
              /\ event_queue_push(ev)
           \/ /\ qstat # "none" /\ qstat' = "NOMEM"
              /\ UNCHANGED <<list, avail, broken, past>>
        /\ UNCHANGED <<marks, ntfcnt, regs, task, corrupt>>
-----------------------------------------------------------------------------
(***************************************************************************)
(* The event queue: the task's side.                                       *)
(***************************************************************************)
Taker(w, wait, n) == [at |-> "pend", want |-> w, wait |-> wait, taken |-> n]

\* The node a removal takes: the first or the first that matches, 0 if there is none.
Found(w) ==
    IF w.find = "head" THEN 1
    ELSE SelectInSeq(list, LAMBDA ev : ev \in w.set)

\* With a count taken, _event_queue_pop takes whatever is first; a search that finds
\* nothing posts one count back.
Look(w, n) ==
    IF w.find = "head" /\ list = <<>>
    THEN corrupt' = TRUE /\ task' = Idle
    ELSE /\ task' = IF Found(w) = 0 THEN Idle
                    ELSE [at |-> "read", want |-> w, taken |-> n, node |-> Found(w)]
         /\ UNCHANGED corrupt

\* Mutant: the count is posted back when the event was found, too.
Counted_AlwaysPost(w) == IF w.find = "head" THEN avail - 1 ELSE avail

\* Mutant: the count is not posted back when nothing was found.
Counted_NeverPost(w) == avail - 1

Counted(w) == IF Found(w) = 0 THEN avail ELSE avail - 1

\* event_queue_try_pop and the two tryouts.
TryTake(w) ==
    /\ avail > 0
    /\ avail' = Counted(w)
    /\ Look(w, 1)
    /\ UNCHANGED <<qstat, list, broken, past>>

Wait(w, wait) ==
    /\ task' = Taker(w, wait, 0)
    /\ UNCHANGED <<queueVars, corrupt, past>>

\* The functions that take an event, of a notifier with a queue and events.
notifier_event_get ==
    /\ task = Idle
    /\ qstat # "none" /\ "NTFREG" \in marks
    /\ \E w \in Wanted : TryTake(w) \/ \E wait \in {"forever", "timed"} : Wait(w, wait)
    /\ UNCHANGED <<marks, ntfcnt, regs>>

\* The semaphore is taken; a search with a time takes it a second time, and waits for
\* that as long as it takes.
Pend ==
    /\ task.at = "pend" /\ avail > 0
    /\ IF task.wait = "timed" /\ task.want.find = "match"
       THEN /\ avail' = avail - 1
            /\ task' = Taker(task.want, "forever", 1)
            /\ past' = past \union {"timed"}
            /\ UNCHANGED corrupt
       ELSE /\ avail' = Counted(task.want)
            /\ Look(task.want, task.taken + 1)
            /\ UNCHANGED past
    /\ UNCHANGED <<marks, ntfcnt, regs, qstat, list, broken>>

PendTimesOut ==
    /\ task.at = "pend" /\ task.wait = "timed" /\ avail = 0
    /\ task' = Idle
    /\ UNCHANGED <<marks, ntfcnt, regs, queueVars, corrupt, past>>

\* bilist_del: the last pointer is written first, then the node is out.
UnlinkBack ==
    /\ task.at = "read"
    /\ task' = [task EXCEPT !.at = "half"]
    /\ broken' = (broken /\ ~LastNode)
    /\ UNCHANGED <<marks, ntfcnt, regs, qstat, list, avail, corrupt, past>>

UnlinkForth ==
    /\ task.at = "half"
    /\ list' = RemoveAt(list, task.node)
    /\ task' = Idle
    /\ UNCHANGED <<marks, ntfcnt, regs, qstat, avail, broken, corrupt, past>>
-----------------------------------------------------------------------------
(***************************************************************************)
(* The notifier.                                                           *)
(***************************************************************************)
EmptyQueue(stat) ==
    qstat' = stat /\ list' = <<>> /\ avail' = 0 /\ broken' = FALSE

\* event_queue_destroy pops as many nodes as the semaphore counts.
event_queue_destroy ==
    IF qstat = "none" THEN UNCHANGED <<queueVars, corrupt>>
    ELSE EmptyQueue("none") /\ corrupt' = (corrupt \/ avail > Len(list))

\* Whatever the notifier was before is forgotten: its queue and, but for the library
\* that goes on calling back, its registered events.
notifier_construct ==
    /\ task = Idle
    /\ marks' = {"VALID"} /\ ntfcnt' = 0
    /\ EmptyQueue("none")
    /\ UNCHANGED <<regs, callVars>>

notifier_destruct ==
    /\ task = Idle
    /\ "VALID" \in marks /\ "NTFREG" \notin marks
    /\ event_queue_destroy
    /\ marks' = {} /\ ntfcnt' = 0
    /\ UNCHANGED <<regs, task, past>>

\* Every mode but 0 sets the mark of NORECV, and with it that of NOSEND: the test
\* multiplies where it means to mask.
ModeMarks(mode) ==
    {"OPEN"} \union (IF "CACHE" \in mode THEN {"QUEUE"} ELSE {})
             \union (IF mode # {} THEN {"NOSENDRECV"} ELSE {})

notifier_open ==
    /\ task = Idle
    /\ "VALID" \in marks /\ "OPEN" \notin marks
    /\ \E mode \in Modes :
         /\ marks' = marks \union ModeMarks(mode)
         /\ IF "CACHE" \in mode THEN EmptyQueue("NORMAL") /\ past' = {}
            ELSE UNCHANGED <<queueVars, past>>
    /\ UNCHANGED <<ntfcnt, regs, task, corrupt>>

notifier_close ==
    /\ task = Idle
    /\ "OPEN" \in marks /\ ~({"QUEUE", "NTFREG"} \subseteq marks)
    /\ event_queue_destroy
    /\ marks' = marks \ (IF qstat = "none" THEN {"OPEN"} ELSE {"OPEN", "QUEUE"})
    /\ UNCHANGED <<ntfcnt, regs, task, past>>

\* The library takes one registration for an event; the function is not kept.
notifier_register_event ==
    /\ task = Idle
    /\ "OPEN" \in marks /\ "NOSENDRECV" \notin marks
    /\ \E ev \in Events \ regs : regs' = regs \union {ev}
    /\ ntfcnt' = (ntfcnt + 1) % 256
    /\ marks' = marks \union {"NTFREG"}
    /\ UNCHANGED <<queueVars, callVars>>

notifier_unregister_event ==
    /\ task = Idle
    /\ "OPEN" \in marks /\ "NOSENDRECV" \notin marks
    /\ \E ev \in regs : regs' = regs \ {ev}
    /\ ntfcnt' = IF ntfcnt > 0 THEN ntfcnt - 1 ELSE 0
    /\ marks' = IF ntfcnt = 1 THEN marks \ {"NTFREG"} ELSE marks
    /\ UNCHANGED <<queueVars, callVars>>
-----------------------------------------------------------------------------
Next ==
    /\ ~corrupt
    /\ \/ notifier_construct \/ notifier_destruct
       \/ notifier_open \/ notifier_close
       \/ notifier_register_event \/ notifier_unregister_event
       \/ notifier_event_get
       \/ Pend \/ PendTimesOut \/ UnlinkBack \/ UnlinkForth
       \/ notifier_callback

Spec == Init /\ [][Next]_vars
-----------------------------------------------------------------------------
(***************************************************************************)
(* Properties.                                                             *)
(***************************************************************************)
TypeOK ==
    /\ marks \subseteq Marks
    /\ ntfcnt \in 0 .. 255
    /\ regs \subseteq Events
    /\ qstat \in {"none", "NORMAL", "OVERFLOW", "NOMEM"}
    /\ list \in Seq(Events) /\ Len(list) <= MaxList
    /\ avail \in Nat
    /\ broken \in BOOLEAN
    /\ task \in Calls
    /\ corrupt \in BOOLEAN
    /\ past \subseteq {"window", "timed"}

\* A task that has taken a count finds a node, unless the interrupt appended one
\* while the task removed the last.
PopFindsEvent == corrupt => "window" \in past

\* An event in the list can be taken, one count for each, unless a search with a time
\* took two counts for one.
NoneStranded ==
    LET taking == IF Removing THEN 1 ELSE 0
    IN  Len(list) <= avail + taking \/ "timed" \in past
=============================================================================
