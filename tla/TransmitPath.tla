---------------------------- MODULE TransmitPath ----------------------------
(***************************************************************************)
(* The transmit path of the DSP application (main_dsp.c, mcbsp_task.c):    *)
(* task_receive takes blocks of audio from the ring pipe and converts them *)
(* into buf_transmit; every output interrupt copies buf_transmit to the    *)
(* buffer on the line and, while transmitting, asks for the next block     *)
(* with a post of sem2; smain writes the same buf_transmit when it sets a  *)
(* channel of the synthesizer and when it switches to reception.           *)
(*                                                                         *)
(* The tasks have one priority and the processor changes hands only where  *)
(* the running one blocks or sleeps; the interrupt preempts any of them,   *)
(* also in the middle of a write of buf_transmit, which is therefore       *)
(* written a part at a time.                                               *)
(***************************************************************************)
EXTENDS Integers, Sequences, SequencesExt

CONSTANTS
    Parts,        \* parts of buf_transmit (RPE_DATA_SIZE/2*15 bytes)
    ParaParts,    \* those that ch_chPara writes (its first 36 bytes)
    MaxItems,     \* bound: blocks and attributes the ARM writes in a behaviour
    Slots,        \* blocks and attributes the ring pipe holds
    MaxPosts,     \* bound: posts of sem2 not consumed
    Commands,     \* the kinds of message the ARM sends
    Attributes    \* the kinds of attribute the ARM writes in the pipe

\* TX_CH stands for RX_CH too: the two differ in the parameters only.
AllCommands == {"LMX2571_TX", "LMX2571_RX", "TX_CH"}

Blocks == 1 .. MaxItems

\* What a part of a buffer holds besides a block of audio.
Zero == 0        \* ring_ar before the first block
Silence == -1
Para == -2       \* parameters of the synthesizer
Unset == -3      \* what malloc returns, and what address 0 holds
Contents == Blocks \union {Zero, Silence, Para, Unset}

\* An attribute of fixed length is read and gone; reading one of variable length
\* that way fails, and it stays.
End == -4
Fixed == -5
Variable == -6

ASSUME TransmitAssumption ==
    /\ ParaParts \in Nat \ {0} /\ Parts \in Nat /\ ParaParts <= Parts
    /\ MaxItems \in Nat /\ Slots \in Nat \ {0} /\ MaxPosts \in Nat \ {0}
    /\ Commands \subseteq AllCommands
    /\ Attributes \subseteq {End, Fixed, Variable}

VARIABLES
    running,          \* the task that has the processor, or "none"
    txFlag, sem2,     \* tx_flag, and posts of sem2 not consumed
    allocated, buf,   \* has buf_transmit been allocated, and what it holds
    line,             \* bufTx[0], which the DMA sends
    ring, written,    \* what waits in the ring pipe from the ARM, how much it wrote
    receive,          \* where task_receive is
    samples, held,    \* the block in ring_ar; blocks acquired and not released
    mcbsp,            \* has task_mcbsp started the line
    smain, command,   \* where smain is, the message that waits for it, or "none"
    at,               \* the parts the running task has written
    stray,            \* history: this command wrote through the null buf_transmit
    late,             \* history: since task_receive last had nothing to do, an
                      \* interrupt came before the block it asked for was ready
    leftover,         \* history: posts were left at the last switch to reception
    aired             \* history: an interrupt came while smain slept

buffers == <<allocated, buf, line>>
pipe == <<ring, written>>
taskVars == <<receive, samples, held>>
mainVars == <<txFlag, smain, command, leftover>>
vars == <<running, sem2, buffers, pipe, taskVars, mcbsp, mainVars, at, stray,
          late, aired>>

Whole(d) == [p \in 1 .. Parts |-> d]

Init ==
    /\ running = "smain"
    /\ txFlag = FALSE /\ sem2 = 0
    /\ allocated = FALSE /\ buf = Whole(Unset) /\ line = Whole(Unset)
    /\ ring = <<>> /\ written = 0
    /\ receive = "start" /\ samples = Zero /\ held = 0
    /\ mcbsp = FALSE
    /\ smain = "poll" /\ command \in Commands \union {"none"}
    /\ at = 0
    /\ stray = FALSE /\ late = FALSE /\ leftover = FALSE /\ aired = FALSE

\* t has the processor or can be given it.  Ready tasks are run in the order in
\* which they became ready: task_receive and task_mcbsp, created in the first
\* round of smain, run before its second.
Has(t) ==
    \/ running = t
    \/ running = "none" /\ (t = "smain" => receive # "start" /\ mcbsp)
Keep(t) == running' = t
Yield == running' = "none"

\* The running task writes the next part of buf_transmit with d, up to last;
\* while buf_transmit is null it writes at address 0 instead.
WritePart(d, last) ==
    /\ at < last
    /\ at' = at + 1
    /\ buf' = IF allocated THEN [buf EXCEPT ![at + 1] = d] ELSE buf
    /\ stray' = (stray \/ ~allocated)
-----------------------------------------------------------------------------
(***************************************************************************)
(* The output interrupt and the start of the line.                         *)
(***************************************************************************)

\* _task_mcbsp: the first buffer holds the initial parameters of the synthesizer.
McbspStart ==
    /\ running = "none" /\ receive # "start" /\ ~mcbsp
    /\ mcbsp' = TRUE
    /\ line' = [p \in 1 .. Parts |-> IF p <= ParaParts THEN Para ELSE Silence]
    /\ buf' = IF allocated THEN Whole(Silence) ELSE buf
    /\ UNCHANGED <<running, sem2, allocated, pipe, taskVars, mainVars, at,
                   stray, late, aired>>

\* mcbspAppCallback of the output channel.
Output ==
    /\ mcbsp /\ sem2 < MaxPosts
    /\ line' = buf
    /\ sem2' = IF txFlag THEN sem2 + 1 ELSE sem2
    /\ late' = (late \/ sem2 > 0 \/ receive # "pend")
    /\ aired' = (aired \/ smain = "sleep")
    /\ UNCHANGED <<running, allocated, buf, pipe, taskVars, mcbsp, mainVars, at,
                   stray>>
-----------------------------------------------------------------------------
(***************************************************************************)
(* task_receive.                                                           *)
(***************************************************************************)
ringRest == <<written, line, mcbsp, mainVars, late, aired>>
taskRest == <<ring, ringRest>>

\* malloc's result is not looked at: null may stay in use for ever.
ReceiveStart ==
    /\ running = "none" /\ receive = "start"
    /\ allocated' \in BOOLEAN
    /\ receive' = "pend" /\ Keep("task_receive")
    /\ UNCHANGED <<buf, sem2, samples, held, at, stray, taskRest>>

ReceiveBlock ==
    /\ running = "task_receive" /\ receive = "pend" /\ sem2 = 0
    /\ late' = FALSE
    /\ Yield
    /\ UNCHANGED <<buffers, sem2, taskVars, pipe, mcbsp, mainVars, at, stray,
                   aired>>

\* Mutant: the semaphore is tested and not taken.
Pend_Peek ==
    /\ Has("task_receive") /\ receive = "pend" /\ sem2 > 0
    /\ sem2' = sem2 /\ Keep("task_receive")

\* task_receive consumes a post.
Pend ==
    /\ Has("task_receive") /\ receive = "pend" /\ sem2 > 0
    /\ sem2' = sem2 - 1 /\ Keep("task_receive")

\* rpe_acquire_reader finds a block, which is copied to ring_ar.
AcquireBlock ==
    /\ Pend /\ ring # <<>> /\ Head(ring) \in Blocks
    /\ ring' = Tail(ring) /\ samples' = Head(ring) /\ held' = held + 1
    /\ receive' = "convert"
    /\ UNCHANGED <<buffers, at, stray, ringRest>>

\* rpe_get_attribute returns 0 for the last of a run of attributes only, and only
\* then is an end of the flow recognised.
EndSeen ==
    Head(ring) = End /\ ~(Len(ring) > 1 /\ ring[2] \in Attributes)

\* It finds an attribute: unless that ends the flow, the code goes on as if it
\* had a block, with what ring_ar still holds.
AcquireAttribute ==
    /\ Pend /\ ring # <<>> /\ Head(ring) \in Attributes \ {Variable}
    /\ ring' = Tail(ring)
    /\ receive' = IF EndSeen THEN "ended" ELSE "convert"
    /\ UNCHANGED <<buffers, at, stray, samples, held, ringRest>>

\* It finds one that cannot be read, and goes on the same way.
AttributeStays ==
    /\ Pend /\ ring # <<>> /\ Head(ring) \in Attributes
    /\ receive' = "convert"
    /\ UNCHANGED <<buffers, at, stray, samples, held, taskRest>>

\* Mutant: an empty pipe does not skip the conversion.
AcquireEmpty_Convert ==
    /\ Pend /\ ring = <<>>
    /\ receive' = "convert"
    /\ UNCHANGED <<buffers, at, stray, samples, held, taskRest>>

AcquireEmpty ==
    /\ Pend /\ ring = <<>>
    /\ UNCHANGED <<buffers, stray, at, taskVars, taskRest>>

\* The acquire fails though the pipe holds something.
AcquireRefused ==
    /\ Pend /\ ring # <<>>
    /\ UNCHANGED <<buffers, stray, at, taskVars, taskRest>>

\* data_process, a part a step.
Convert ==
    /\ running = "task_receive" /\ receive = "convert"
    /\ WritePart(samples, Parts)
    /\ UNCHANGED <<running, sem2, allocated, taskVars, taskRest>>

\* Mutant: the block is given back to the pipe, not released.
Release_Cancel ==
    /\ running = "task_receive" /\ receive = "convert" /\ at = Parts
    /\ IF held > 0 THEN ring' = <<samples>> \o ring /\ held' = held - 1
       ELSE UNCHANGED <<ring, held>>
    /\ receive' = "pend" /\ at' = 0
    /\ UNCHANGED <<running, sem2, buffers, stray, samples, ringRest>>

\* rpe_release_reader_safe frees the oldest block acquired; its failure is only
\* logged and leaves the block acquired.
Release ==
    /\ running = "task_receive" /\ receive = "convert" /\ at = Parts
    /\ held' \in {h \in {held - 1, held} : h >= 0}
    /\ receive' = "pend" /\ at' = 0
    /\ UNCHANGED <<running, sem2, buffers, stray, samples, taskRest>>

\* The loop is left at the end of the flow, and the task with it.
ReceiveExit ==
    /\ running = "task_receive" /\ receive = "ended"
    /\ Yield
    /\ UNCHANGED <<sem2, buffers, at, stray, taskVars, taskRest>>

TaskReceive ==
    \/ ReceiveStart \/ ReceiveBlock
    \/ AcquireBlock \/ AcquireAttribute \/ AttributeStays
    \/ AcquireEmpty \/ AcquireRefused
    \/ Convert \/ Release \/ ReceiveExit
-----------------------------------------------------------------------------
(***************************************************************************)
(* smain: dsp_logic every 30 ms.                                           *)
(***************************************************************************)
mainRest == <<sem2, line, pipe, taskVars, mcbsp, late>>

\* smain takes the message c.
Receive(c) ==
    /\ Has("smain") /\ smain = "poll" /\ command = c
    /\ command' = "none"

\* There is none: smain sleeps until its next round.
NoMessage ==
    /\ running = "smain" /\ smain = "poll" /\ command = "none"
    /\ Yield
    /\ UNCHANGED <<allocated, buf, txFlag, smain, command, leftover, at, stray,
                   aired, mainRest>>

TxSwitch ==
    /\ Receive("LMX2571_TX")
    /\ txFlag' = TRUE /\ leftover' = FALSE
    /\ Yield
    /\ UNCHANGED <<allocated, buf, smain, at, stray, aired, mainRest>>

RxSwitch ==
    /\ Receive("LMX2571_RX")
    /\ txFlag' = FALSE /\ leftover' = (sem2 > 0)
    /\ smain' = "silence" /\ Keep("smain")
    /\ UNCHANGED <<allocated, buf, at, stray, aired, mainRest>>

ChannelBegin ==
    /\ Receive("TX_CH")
    /\ smain' = "para" /\ Keep("smain")
    /\ aired' = FALSE
    /\ UNCHANGED <<allocated, buf, at, txFlag, leftover, stray, mainRest>>

\* ch_chPara.
ChannelPara ==
    /\ running = "smain" /\ smain = "para"
    /\ WritePart(Para, ParaParts)
    /\ UNCHANGED <<running, allocated, txFlag, smain, command, leftover,
                   aired, mainRest>>

\* Mutant: the loop of ch_chPara ends a register early.
ChannelSleep_Short ==
    /\ running = "smain" /\ smain = "para" /\ at >= ParaParts - 1
    /\ smain' = "sleep" /\ at' = 0 /\ Yield
    /\ UNCHANGED <<allocated, buf, txFlag, command, leftover, stray, aired,
                   mainRest>>

\* Task_sleep(10), for an interrupt to come; at 107000 words a second the 1200
\* words of a block take 11 ms, so one may or may not.
ChannelSleep ==
    /\ running = "smain" /\ smain = "para" /\ at = ParaParts
    /\ smain' = "sleep" /\ at' = 0 /\ Yield
    /\ UNCHANGED <<allocated, buf, txFlag, command, leftover, stray, aired,
                   mainRest>>

ChannelWake ==
    /\ Has("smain") /\ smain = "sleep"
    /\ smain' = "silence" /\ Keep("smain")
    /\ UNCHANGED <<allocated, buf, at, txFlag, command, leftover, stray,
                   aired, mainRest>>

\* Mutant: the memset clears a byte less.
FillSilence_Short ==
    /\ running = "smain" /\ smain = "silence"
    /\ IF at + 1 < Parts THEN WritePart(Silence, Parts)
       ELSE at' = Parts /\ UNCHANGED <<buf, stray>>
    /\ at < Parts
    /\ UNCHANGED <<running, allocated, txFlag, smain, command, leftover,
                   aired, mainRest>>

\* Mutant: the memset clears beyond the end.
FillSilence_Long ==
    /\ running = "smain" /\ smain = "silence"
    /\ WritePart(Silence, Parts + 1)
    /\ UNCHANGED <<running, allocated, txFlag, smain, command, leftover,
                   aired, mainRest>>

\* memset of buf_transmit, after a channel and after the switch to reception.
FillSilence ==
    /\ running = "smain" /\ smain = "silence"
    /\ WritePart(Silence, Parts)
    /\ UNCHANGED <<running, allocated, txFlag, smain, command, leftover,
                   aired, mainRest>>

Silenced ==
    /\ running = "smain" /\ smain = "silence" /\ at = Parts
    /\ smain' = "poll" /\ at' = 0 /\ Yield
    /\ aired' = FALSE /\ stray' = FALSE
    /\ UNCHANGED <<allocated, buf, txFlag, command, leftover, mainRest>>

Smain ==
    \/ NoMessage \/ TxSwitch \/ RxSwitch
    \/ ChannelBegin \/ ChannelPara \/ ChannelSleep \/ ChannelWake
    \/ FillSilence \/ Silenced
-----------------------------------------------------------------------------
(***************************************************************************)
(* The ARM, whose program is not in the repository: what the DSP assumes.  *)
(***************************************************************************)
armRest == <<running, sem2, buffers, taskVars, mcbsp, txFlag, smain, leftover,
             at, stray, late, aired>>

ArmCommands ==
    /\ command = "none"
    /\ command' \in Commands
    /\ UNCHANGED <<armRest, pipe>>

\* Blocks are numbered in the order in which they are written.
ArmWrites ==
    /\ written < MaxItems /\ held + Len(ring) < Slots
    /\ written' = written + 1
    /\ \E item \in {written'} \union Attributes : ring' = Append(ring, item)
    /\ UNCHANGED <<armRest, command>>
-----------------------------------------------------------------------------
Next ==
    \/ McbspStart \/ Output \/ TaskReceive \/ Smain
    \/ ArmCommands \/ ArmWrites

Spec == Init /\ [][Next]_vars

\* The line never stops (the DMA restarts the single buffer), and a ready task
\* gets the processor whenever it keeps being given up.
FairSpec ==
    /\ Spec
    /\ WF_vars(McbspStart) /\ WF_vars(Output)
    /\ SF_vars(TaskReceive) /\ SF_vars(Smain)
-----------------------------------------------------------------------------
(***************************************************************************)
(* Properties.                                                             *)
(***************************************************************************)
TypeOK ==
    /\ running \in {"none", "smain", "task_receive"}
    /\ txFlag \in BOOLEAN /\ sem2 \in 0 .. MaxPosts
    /\ allocated \in BOOLEAN /\ mcbsp \in BOOLEAN
    /\ buf \in [1 .. Parts -> Contents] /\ line \in [1 .. Parts -> Contents]
    /\ ring \in Seq(Blocks \union Attributes) /\ held + Len(ring) <= Slots
    /\ written \in 0 .. MaxItems
    /\ receive \in {"start", "pend", "convert", "ended"}
    /\ samples \in Blocks \union {Zero} /\ held \in 0 .. Slots
    /\ smain \in {"poll", "para", "sleep", "silence"}
    /\ command \in Commands \union {"none"}
    /\ at \in 0 .. Parts
    /\ stray \in BOOLEAN /\ late \in BOOLEAN
    /\ leftover \in BOOLEAN /\ aired \in BOOLEAN

\* Switched to reception, the line falls silent and stays so; only posts of sem2
\* left from transmitting let task_receive put audio back in the silenced buffer,
\* and without memory for it there is none to silence.
QuietWhenReceiving ==
    ~txFlag /\ mcbsp /\ smain = "poll" /\ ~leftover /\ allocated =>
        buf = Whole(Silence)

\* An interrupt that comes while smain sleeps puts all the parameters of the
\* channel on the line, unless audio was asked for in the meantime or they were
\* written through the null buf_transmit.
ParametersSent ==
    smain = "silence" /\ at = 0 /\ aired /\ ~txFlag /\ ~leftover /\ ~stray =>
        \A p \in 1 .. ParaParts : line[p] = Para

\* As long as each block is ready when the interrupt comes, and again as soon as
\* task_receive has caught up, a converted block is replaced by the next only when
\* it has been on the line whole.
NothingSkipped ==
    [][~late /\ receive = "pend" /\ receive' = "convert" =>
         \A b \in Blocks : buf = Whole(b) => line = buf]_vars

\* ring_ar is converted again without a new block only where the pipe held an
\* attribute: one that ends the flow only if another follows or it was not read.
RepeatedByAttribute ==
    [][receive = "pend" /\ receive' = "convert" /\ samples' = samples =>
         /\ ring # <<>> /\ Head(ring) \in Attributes
         /\ Head(ring) = End => ~EndSeen \/ ring' = ring]_vars

\* While transmitting, every block of the pipe is taken, until the flow ends for
\* good, whether or not blocks taken before are released; unless the pipe keeps
\* refusing a block, or an attribute, as it does for one of variable length.
PipeDrained ==
    \/ []<><<AcquireRefused \/ AttributeStays>>_vars
    \/ \A b \in Blocks :
           Contains(ring, b) ~> ~Contains(ring, b) \/ ~txFlag \/ receive = "ended"
=============================================================================
