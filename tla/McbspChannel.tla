---------------------------- MODULE McbspChannel ----------------------------
(***************************************************************************)
(* One transfer channel of the McBSP driver as the firmware builds it      *)
(* (MCBSP_LOOPJOB_ENABLE and MCBSP_LOOP_PING_PONG, McBSP device mode): the *)
(* EDMA channel and its two linked PaRAM sets, the interrupt that reports  *)
(* a finished buffer, and the calls the client's task makes.               *)
(*                                                                         *)
(* The EDMA channel plays the set in xfer; when that set is exhausted the  *)
(* hardware copies the set it links to over it.  An idle channel plays the *)
(* loop job, a buffer of the driver, linked to itself.                     *)
(***************************************************************************)
EXTENDS Integers, Sequences, SequencesExt

CONSTANTS
    Frames,     \* the I/O buffers (Mcbsp_IOBuf) the client owns
    Mode,       \* "INPUT" or "OUTPUT", the mode of the channel
    Controls,   \* which of PAUSE, MUTE, RATE and EVENT_MISS are used
    MaxLate,    \* bound: completions before a raised interrupt is served
    LoopBuf,    \* the loop job buffer
    MuteBuf,    \* the mute buffer
    NoBuf       \* NULL

ASSUME ModeAssumption == Mode \in {"INPUT", "OUTPUT"}
ASSUME ControlsAssumption == Controls \subseteq {"PAUSE", "MUTE", "RATE", "EVENT_MISS"}
ASSUME MaxLateAssumption == MaxLate \in Nat \ {0}
ASSUME BufAssumption ==
    /\ {LoopBuf, MuteBuf, NoBuf} \cap Frames = {}
    /\ LoopBuf # MuteBuf /\ LoopBuf # NoBuf /\ MuteBuf # NoBuf

MAXLINKCNT == 2

VARIABLES
    xfer,        \* the PaRAM set of the transfer channel, being played
    pram,        \* the two link PaRAM sets, pramTbl[0] and pramTbl[1]
    late,        \* completions since the interrupt was raised, 0 = not raised
    overtaken,   \* a task call ran while the interrupt was raised
    floatQ,      \* ptrQFloatList: buffers programmed in the EDMA
    pendQ,       \* ptrQPendList: buffers waiting for a free set
    submitCount, \* buffers the driver counts as its own
    nextLink,    \* nextLinkParamSetToBeUpdated
    paused, nextFlag, muted,
    running,     \* the port's XRST or RRST bit
    stopSm,      \* stopSmFsXmt or stopSmFsRcv
    pc, linkCnt, ioBuf,  \* where RESUME or a rate change stands, and its locals
    held,        \* buffers the client submitted and was not handed back
    report       \* the last call of the client's callback by the interrupt

hwVars     == <<xfer, pram, late, overtaken>>
queueVars  == <<floatQ, pendQ, submitCount, nextLink, held>>
flagVars   == <<paused, nextFlag, muted, running, stopSm>>
resumeVars == <<pc, linkCnt, ioBuf>>
vars == <<hwVars, queueVars, flagVars, resumeVars, report>>

Index == 0 .. MAXLINKCNT - 1
Slot  == [addr : Frames \union {LoopBuf, MuteBuf}, intr : BOOLEAN, link : Index]

\* Mutant: the index is not masked.
Other_NoMask(i) == i + 1

\* Mcbsp_localGetNextIndex
Other(i) == (i + 1) % 2

\* Mutant: the loop job's set is linked to the other set.
LoopSlot_Forward(i) == [addr |-> LoopBuf, intr |-> FALSE, link |-> Other(i)]

\* A set holding the loop job, linked to itself, its interrupt disabled.
LoopSlot(i) == [addr |-> LoopBuf, intr |-> FALSE, link |-> i]

\* Mutant: a loaded set is linked to itself.
BufSlot_SelfLink(i, f) ==
    [addr |-> IF Mode = "OUTPUT" /\ muted THEN MuteBuf ELSE f,
     intr |-> TRUE, link |-> i]

\* The set i holding buffer f: interrupt enabled, linked to the other set.
BufSlot(i, f) ==
    [addr |-> IF Mode = "OUTPUT" /\ muted THEN MuteBuf ELSE f,
     intr |-> TRUE, link |-> Other(i)]

\* Queue_put of the intrusive SYS/BIOS queue.  An element already in the
\* queue, and not its last, becomes the last: what followed it is cut off.
Put(q, f) ==
    IF \E i \in 1 .. Len(q) : q[i] = f
    THEN SubSeq(q, 1, CHOOSE i \in 1 .. Len(q) : q[i] = f)
    ELSE Append(q, f)

Init ==
    /\ xfer = LoopSlot(0)
    /\ pram = [i \in Index |-> LoopSlot(i)]
    /\ late = 0 /\ overtaken = FALSE
    /\ floatQ = <<>> /\ pendQ = <<>> /\ submitCount = 0 /\ nextLink = 0
    /\ paused = FALSE /\ nextFlag = FALSE /\ muted = FALSE
    /\ running = TRUE /\ stopSm = FALSE
    /\ pc = "idle" /\ linkCnt = 0 /\ ioBuf = NoBuf
    /\ held = {}
    /\ report = [buf |-> NoBuf, status |-> "NONE", active |-> LoopBuf]
-----------------------------------------------------------------------------
(***************************************************************************)
(* Hardware.  The set being played is exhausted: it raises its interrupt,  *)
(* if enabled, and the set it links to is copied over it.                  *)
(***************************************************************************)
Complete ==
    /\ running
    /\ xfer.intr => late < MaxLate
    /\ late' = IF xfer.intr THEN late + 1 ELSE late
    /\ xfer' = pram[xfer.link]
    /\ UNCHANGED <<pram, overtaken, queueVars, flagVars, resumeVars, report>>
-----------------------------------------------------------------------------
(***************************************************************************)
(* The interrupt, Mcbsp_localEdmaCallback.                                 *)
(***************************************************************************)

\* Mutant: the active set is not looked at.
HeadActive_Never == FALSE

\* The EDMA is on the first of several buffers, so another one finished.
HeadActive == Len(floatQ) > 1 /\ xfer.addr = Head(floatQ)

\* Mutant: the second buffer is not put back.
PutBack_First(q) == Put(Tail(Tail(q)), Head(q))

\* The first two buffers of q taken out and put back in the same order.
PutBack(q) == Put(Put(Tail(Tail(q)), Head(q)), Head(Tail(q)))

\* PING_PONG: the reported buffer goes back to the end of the queue.
Requeued ==
    Put(IF HeadActive THEN PutBack(floatQ) ELSE Tail(floatQ), Head(floatQ))

\* While paused every second report loads the loop job in the set after
\* next; UpdtDtPktToLnkPrms(NULL) then moves the index on again.
PauseSet ==
    IF paused /\ ~nextFlag
    THEN LET i == Other(nextLink)
         IN  /\ pram' = [pram EXCEPT ![i] = LoopSlot(i)]
             /\ nextLink' = Other(i)
    ELSE UNCHANGED <<pram, nextLink>>

\* Nothing is queued: a stale interrupt.
CallbackEmpty ==
    /\ floatQ = <<>>
    /\ UNCHANGED <<pram, queueVars, nextFlag, report>>

\* OUTPUT with the first buffer still played: the client is told NULL.
CallbackUnderflow ==
    /\ Mode = "OUTPUT" /\ HeadActive
    /\ floatQ' = PutBack(floatQ)
    /\ report' = [buf |-> NoBuf, status |-> "NOIOBUFFERS", active |-> xfer.addr]
    /\ UNCHANGED <<pram, pendQ, submitCount, nextLink, held, nextFlag>>

\* The first buffer is reported and queued again; submitCount goes down and up.
CallbackReport(status) ==
    /\ floatQ # <<>>
    /\ ~(Mode = "OUTPUT" /\ HeadActive)
    /\ floatQ' = Requeued
    /\ PauseSet
    /\ nextFlag' = (paused # nextFlag)
    /\ report' = [buf |-> Head(floatQ), status |-> status, active |-> xfer.addr]
    /\ UNCHANGED <<pendQ, submitCount, held>>

EdmaCallback(status) ==
    /\ \/ CallbackEmpty
       \/ CallbackUnderflow
       \/ CallbackReport(status)
    /\ UNCHANGED <<xfer, paused, muted, running, stopSm, resumeVars>>

\* The completion interrupt: one call, however many completions raised it.
CompletionIsr ==
    /\ late > 0
    /\ late' = 0 /\ overtaken' = FALSE
    /\ EdmaCallback("COMPLETED")

\* The EDMA error interrupt calls the same function with an event-miss status.
ErrorIsr ==
    /\ "EVENT_MISS" \in Controls /\ running
    /\ EdmaCallback("ABORT")
    /\ UNCHANGED <<late, overtaken>>
-----------------------------------------------------------------------------
(***************************************************************************)
(* The client's task.  Its critical sections mask interrupts, so a call    *)
(* may run with the interrupt raised; when it ends the interrupt is taken  *)
(* before the task goes on, so a second one may not.                       *)
(***************************************************************************)

\* Mutant: interrupts stay masked between two calls.
TaskStep_Masked == overtaken' = (late > 0)

TaskStep == ~(late > 0 /\ overtaken) /\ overtaken' = (late > 0)
Called == pc = "idle" /\ TaskStep

\* mcbspSubmitReq when both sets are taken or the channel is paused.
SubmitPend(f) ==
    /\ Called
    /\ f \notin held
    /\ submitCount >= MAXLINKCNT \/ paused
    /\ submitCount' = submitCount + 1
    /\ pendQ' = Put(pendQ, f)
    /\ held' = held \union {f}
    /\ UNCHANGED <<xfer, pram, late, floatQ, nextLink, flagVars, resumeVars, report>>

\* mcbspSubmitReq and Mcbsp_localLoadPktToEdma: the second buffer goes into
\* the other set, the first is linked to the transfer channel.
SubmitFloat(f) ==
    /\ Called
    /\ f \notin held
    /\ submitCount < MAXLINKCNT /\ ~paused
    /\ submitCount' = submitCount + 1
    /\ floatQ' = Put(floatQ, f)
    /\ held' = held \union {f}
    /\ nextLink' = IF submitCount' = MAXLINKCNT THEN Other(nextLink) ELSE nextLink
    /\ pram' = [pram EXCEPT ![nextLink'] = BufSlot(nextLink', f)]
    /\ xfer' = IF submitCount' = 1 THEN [xfer EXCEPT !.link = nextLink'] ELSE xfer
    /\ UNCHANGED <<late, pendQ, flagVars, resumeVars, report>>

\* Mutant: the PaRAM sets are not configured anew.
HandBackAll_KeepSets ==
    /\ held' = held \ (ToSet(floatQ) \union ToSet(pendQ))
    /\ submitCount' = submitCount - Len(floatQ) - Len(pendQ)
    /\ floatQ' = <<>> /\ pendQ' = <<>> /\ nextLink' = 0
    /\ UNCHANGED <<xfer, pram>>

\* The body of Mcbsp_localAbortReset up to the port's state: every queued
\* buffer is handed back and the PaRAM sets return to the loop job.
HandBackAll ==
    /\ held' = held \ (ToSet(floatQ) \union ToSet(pendQ))
    /\ submitCount' = submitCount - Len(floatQ) - Len(pendQ)
    /\ floatQ' = <<>> /\ pendQ' = <<>> /\ nextLink' = 0
    /\ xfer' = LoopSlot(0)
    /\ pram' = [i \in Index |-> LoopSlot(i)]

\* ABORT, FLUSH, CHAN_RESET, CANCEL_PENDING_IO: the port ends up enabled.
AbortReset ==
    /\ Called
    /\ HandBackAll
    /\ running' = TRUE
    /\ UNCHANGED <<late, paused, nextFlag, muted, stopSm, resumeVars, report>>

\* STOP: the same, then the port is disabled and stopSm set.
Stop ==
    /\ Called
    /\ HandBackAll
    /\ running' = FALSE /\ stopSm' = TRUE
    /\ UNCHANGED <<late, paused, nextFlag, muted, resumeVars, report>>

\* START acts only on stopSm, whatever the state of the port.
Start ==
    /\ Called
    /\ stopSm
    /\ running' = TRUE /\ stopSm' = FALSE
    /\ UNCHANGED <<xfer, pram, late, queueVars, paused, nextFlag, muted, resumeVars, report>>

Pause ==
    /\ Called /\ "PAUSE" \in Controls
    /\ ~paused
    /\ paused' = TRUE
    /\ UNCHANGED <<xfer, pram, late, queueVars, nextFlag, muted, running, stopSm,
                   resumeVars, report>>

SetMute(on) ==
    /\ Called /\ "MUTE" \in Controls
    /\ Mode = "OUTPUT" /\ muted # on
    /\ muted' = on
    /\ UNCHANGED <<xfer, pram, late, queueVars, paused, nextFlag, running, stopSm,
                   resumeVars, report>>
\* SAMPLE_RATE_CHANGE, when the instance accepts it: an output port is turned
\* on, the task sleeps, and the port is turned off whatever it was before;
\* stopSm does not say so.  The generator itself is McbspDevice's.
RateCall ==
    /\ Called /\ "RATE" \in Controls
    /\ Mode = "OUTPUT"
    /\ running' = TRUE /\ pc' = "rate"
    /\ UNCHANGED <<xfer, pram, late, queueVars, paused, nextFlag, muted, stopSm,
                   linkCnt, ioBuf, report>>

RateEnd ==
    /\ pc = "rate" /\ TaskStep
    /\ running' = FALSE /\ pc' = "idle"
    /\ UNCHANGED <<xfer, pram, late, queueVars, paused, nextFlag, muted, stopSm,
                   linkCnt, ioBuf, report>>
-----------------------------------------------------------------------------
(***************************************************************************)
(* RESUME runs outside any critical section: interrupts fall between its   *)
(* steps.  The interrupt moves nextLink twice or not at all, so the index  *)
(* RESUME reads is not disturbed.                                          *)
(***************************************************************************)
ResumeCall ==
    /\ Called /\ "PAUSE" \in Controls
    /\ pc' = IF floatQ = <<>> THEN "take" ELSE "end"
    /\ linkCnt' = 0
    /\ UNCHANGED <<xfer, pram, late, queueVars, flagVars, ioBuf, report>>

NextIteration ==
    IF linkCnt < MAXLINKCNT - 1
    THEN pc' = "take" /\ linkCnt' = linkCnt + 1
    ELSE pc' = "end" /\ UNCHANGED linkCnt

\* A pending buffer moves to the floating list; for the second one the index
\* moves to the other set.
ResumeTake ==
    /\ pc = "take" /\ TaskStep
    /\ IF pendQ = <<>>
       THEN NextIteration /\ UNCHANGED <<pendQ, floatQ, nextLink, ioBuf>>
       ELSE /\ ioBuf' = Head(pendQ)
            /\ pendQ' = Tail(pendQ)
            /\ floatQ' = Put(floatQ, Head(pendQ))
            /\ nextLink' = IF linkCnt = MAXLINKCNT - 1 THEN Other(nextLink) ELSE nextLink
            /\ pc' = "arm" /\ UNCHANGED linkCnt
    /\ UNCHANGED <<xfer, pram, late, submitCount, held, flagVars, report>>

ResumeArm ==
    /\ pc = "arm" /\ TaskStep
    /\ pram' = [pram EXCEPT ![nextLink] = BufSlot(nextLink, ioBuf)]
    /\ xfer' = IF linkCnt = 0 THEN [xfer EXCEPT !.link = nextLink] ELSE xfer
    /\ NextIteration
    /\ UNCHANGED <<late, queueVars, flagVars, ioBuf, report>>

ResumeEnd ==
    /\ pc = "end" /\ TaskStep
    /\ paused' = FALSE
    /\ pc' = "idle" /\ linkCnt' = 0 /\ ioBuf' = NoBuf
    /\ UNCHANGED <<xfer, pram, late, queueVars, nextFlag, muted, running, stopSm, report>>

Resume == ResumeTake \/ ResumeArm \/ ResumeEnd
-----------------------------------------------------------------------------
Client ==
    \/ \E f \in Frames : SubmitPend(f) \/ SubmitFloat(f)
    \/ AbortReset \/ Stop \/ Start
    \/ Pause \/ ResumeCall \/ RateCall
    \/ \E on \in BOOLEAN : SetMute(on)

Next == Complete \/ CompletionIsr \/ ErrorIsr \/ Client \/ Resume \/ RateEnd

Spec == Init /\ [][Next]_vars

\* The port's clock runs, interrupts are served, a started command goes on.
Fairness == WF_vars(Complete) /\ WF_vars(CompletionIsr) /\ WF_vars(Resume \/ RateEnd)
FairSpec == Spec /\ Fairness
-----------------------------------------------------------------------------
(***************************************************************************)
(* Properties.                                                             *)
(***************************************************************************)
Queued == ToSet(floatQ) \union ToSet(pendQ)

\* The client's buffers the EDMA plays or will play if nothing changes.
Programmed == ({xfer.addr} \union {pram[i].addr : i \in Index}) \cap Frames

\* The variables keep the types the code gives them (mcbsp_drv.c, Mcbsp_ChannelObj).
TypeOK ==
    /\ xfer \in Slot /\ pram \in [Index -> Slot]
    /\ late \in 0 .. MaxLate /\ overtaken \in BOOLEAN
    /\ floatQ \in Seq(Frames) /\ pendQ \in Seq(Frames)
    /\ submitCount \in Nat /\ nextLink \in Index
    /\ paused \in BOOLEAN /\ nextFlag \in BOOLEAN /\ muted \in BOOLEAN
    /\ running \in BOOLEAN /\ stopSm \in BOOLEAN
    /\ pc \in {"idle", "take", "arm", "end", "rate"}
    /\ linkCnt \in Index /\ ioBuf \in Frames \union {NoBuf}
    /\ held \subseteq Frames
    /\ report \in [buf : Frames \union {NoBuf},
                   status : {"NONE", "COMPLETED", "ABORT", "NOIOBUFFERS"},
                   active : Frames \union {LoopBuf, MuteBuf}]

\* The EDMA never reads or writes a buffer the client has back: whatever the
\* interleaving of completions, callbacks, aborts and RESUME, a buffer in a
\* PaRAM set is one the client submitted and AbortReset did not return.
EdmaTouchesOnlyHeld == Programmed \subseteq held

\* The queues account for every submitted buffer, and submitCount for the
\* queues: no callback drops a buffer, AbortReset returns them all.
NoFrameLost ==
    /\ held = Queued
    /\ submitCount = Len(floatQ) + Len(pendQ)

\* A buffer reported COMPLETED is not the one the EDMA is on: the callback
\* sorts out which of the two linked sets raised the interrupt.
CompletedIsIdle == report.status = "COMPLETED" => report.buf # report.active

\* Two buffers left alone in the EDMA, not paused and the port on, are each
\* reported again and again.
Streams ==
    \A f \in Frames :
        <>[](running /\ ~paused /\ Len(floatQ) = MAXLINKCNT /\ f \in ToSet(floatQ))
        => []<>(report.buf = f /\ report.status = "COMPLETED")

\* A channel that stays paused ends up playing a buffer of the driver: the
\* two callbacks after PAUSE take the client's buffers out of the loop.
PauseDrains == <>[](paused /\ running) => <>[](xfer.addr \notin Frames)
=============================================================================
