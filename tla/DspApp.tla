------------------------------- MODULE DspApp -------------------------------
(***************************************************************************)
(* The receive path of the DSP application (main_dsp.c, mcbsp_task.c,      *)
(* audioDetectFrequency_rx.c): the capture interrupt fills one buffer,     *)
(* task_enque splits it into the sample queue, audioSignalRX demodulates   *)
(* chunks of it and sends them up the ring pipe, and smain executes the    *)
(* commands of the ARM, which switch between receiving and transmitting.   *)
(*                                                                         *)
(* The tasks all have the default priority, so SYS/BIOS switches only      *)
(* where the running one blocks or sleeps: `running' is the task that has  *)
(* the processor.  The interrupt preempts any of them.                     *)
(***************************************************************************)
EXTENDS AudioQueue, FiniteSets

CONSTANTS
    Block,        \* samples of a captured block (REC_BUFSIZE / 3)
    Chunk,        \* samples that audioSignalRX takes at a time (SAMPLE_SIZE)
    Slots,        \* chunks the ring pipe to the ARM holds
    MaxCapture,   \* bound: blocks that are told apart by their number
    Commands      \* the kinds of message the ARM sends

Switches == {"LMX2571_TX", "LMX2571_RX"}

\* RSSI_RD stands for the five requests that wait for an empty reply message.
Requests == {"RSSI_RD", "PA_TEMP"}

ASSUME AppAssumption ==
    /\ Block \in Nat \ {0} /\ Chunk \in Nat \ {0} /\ Slots \in Nat \ {0}
    /\ MaxCapture \in Nat
    /\ Sample = 0 .. MaxCapture
    /\ Commands \subseteq Switches \union Requests

VARIABLES
    running,            \* the task that has the processor, or "none"
    txFlag, rxFlag,     \* tx_flag and rx_flag
    sem1,               \* posts of the capture interrupt not consumed yet
    captured,           \* the block that buf_adc holds; samples bear its number
    buf16,              \* task_enque's buf_16: samples extracted, not queued
    enq,                \* where task_enque is
    rx, left, heard,    \* where audioSignalRX is, the samples its chunk still
                        \* lacks, and the last sample it took
    up, grabbed,        \* chunks in the ring pipe, not read by the ARM, and the
                        \* blocks of it acquired for writing and not released
    smain,              \* where smain is
    command,            \* the message of the ARM that waits for smain, or "none"
    reply, queued,      \* is msg_send full, and how often it is in the ARM's queue
    late                \* history: buf_adc was overwritten before its extraction,
                        \* or by a block that has no number of its own

taskVars == <<buf16, enq, rx, left, heard, up, grabbed>>
mainVars == <<txFlag, rxFlag, smain, command, reply, queued>>
isrVars == <<sem1, captured, late>>
vars == <<queueVars, taskVars, mainVars, isrVars, running>>

Tasks == {"smain", "task_enque", "audioSignalRX"}

Init ==
    /\ QueueInit
    /\ running = "none"
    /\ txFlag = FALSE /\ rxFlag = TRUE
    /\ sem1 = 0 /\ captured = 0 /\ late = FALSE
    /\ buf16 = <<>> /\ enq = "pend"
    /\ rx = "start" /\ left = 0 /\ heard = ERROR
    /\ up = 0 /\ grabbed = 0
    /\ smain = "poll" /\ command = "none"
    /\ reply = FALSE /\ queued = 0

\* t has the processor or can be given it.
Has(t) == running \in {"none", t}
Keep(t) == running' = t
Yield == running' = "none"
-----------------------------------------------------------------------------
(***************************************************************************)
(* The capture interrupt.                                                  *)
(***************************************************************************)

\* mcbspAppCallback of the input channel: a new block replaces the old one.  The
\* blocks never end: MaxCapture of them come at any time, and the later ones, which
\* all bear the last number, when task_enque waits for one.
Capture ==
    /\ captured < MaxCapture \/ (sem1 = 0 /\ enq = "pend" /\ running # "task_enque")
    /\ captured' = IF captured < MaxCapture THEN captured + 1 ELSE captured
    /\ sem1' = IF rxFlag THEN sem1 + 1 ELSE sem1
    /\ late' = (late \/ sem1 > 0 \/ enq = "extract" \/ captured = MaxCapture)
    /\ UNCHANGED <<queueVars, taskVars, mainVars, running>>
-----------------------------------------------------------------------------
(***************************************************************************)
(* task_enque.                                                             *)
(***************************************************************************)

\* Mutant: the semaphore is tested and not taken.
EnqPend_Peek ==
    /\ Has("task_enque") /\ enq = "pend" /\ sem1 > 0
    /\ enq' = "extract" /\ Keep("task_enque")
    /\ UNCHANGED <<queueVars, sem1, buf16, rx, left, heard, up, grabbed, mainVars,
                   captured, late>>

EnqPend ==
    /\ Has("task_enque") /\ enq = "pend" /\ sem1 > 0
    /\ sem1' = sem1 - 1
    /\ enq' = "extract" /\ Keep("task_enque")
    /\ UNCHANGED <<queueVars, buf16, rx, left, heard, up, grabbed, mainVars, captured,
                   late>>

EnqBlock ==
    /\ running = "task_enque" /\ enq = "pend" /\ sem1 = 0
    /\ Yield
    /\ UNCHANGED <<queueVars, taskVars, mainVars, isrVars>>

\* data_extract, a sample a step: the interrupt can replace the block.
Extract ==
    /\ running = "task_enque" /\ enq = "extract"
    /\ buf16' = Append(buf16, captured)
    /\ enq' = IF Len(buf16) + 1 = Block THEN "enqueue" ELSE "extract"
    /\ UNCHANGED <<queueVars, rx, left, heard, up, grabbed, mainVars, isrVars, running>>

Enqueue ==
    /\ running = "task_enque" /\ enq = "enqueue"
    /\ EnAudioQueue(Head(buf16))
    /\ buf16' = Tail(buf16)
    /\ enq' = IF Tail(buf16) = <<>> THEN "pend" ELSE "enqueue"
    /\ UNCHANGED <<rx, left, heard, up, grabbed, mainVars, isrVars, running>>

TaskEnque == EnqPend \/ EnqBlock \/ Extract \/ Enqueue
-----------------------------------------------------------------------------
(***************************************************************************)
(* audioSignalRX.                                                          *)
(***************************************************************************)
RxStart ==
    /\ Has("audioSignalRX") /\ rx = "start"
    /\ AudioQueueFlush
    /\ rx' = "check" /\ Keep("audioSignalRX")
    /\ UNCHANGED <<buf16, enq, left, heard, up, grabbed, mainVars, isrVars>>

\* Mutant: a chunk is begun as soon as there is a sample.
RxBegin_Early ==
    /\ Has("audioSignalRX") /\ rx = "check" /\ capacity > 0
    /\ rx' = "take" /\ left' = Chunk /\ Keep("audioSignalRX")
    /\ UNCHANGED <<queueVars, buf16, enq, heard, up, grabbed, mainVars, isrVars>>

RxBegin ==
    /\ Has("audioSignalRX") /\ rx = "check" /\ capacity > Chunk
    /\ rx' = "take" /\ left' = Chunk /\ Keep("audioSignalRX")
    /\ UNCHANGED <<queueVars, buf16, enq, heard, up, grabbed, mainVars, isrVars>>

\* Mutant: the loop polls the length without sleeping.
RxSleep_Never ==
    /\ Has("audioSignalRX") /\ rx = "check" /\ capacity <= Chunk
    /\ Keep("audioSignalRX")
    /\ UNCHANGED <<queueVars, taskVars, mainVars, isrVars>>

RxSleep ==
    /\ running = "audioSignalRX" /\ rx = "check" /\ capacity <= Chunk
    /\ Yield
    /\ UNCHANGED <<queueVars, taskVars, mainVars, isrVars>>

\* deDc takes the chunk from the queue.
RxTake ==
    /\ running = "audioSignalRX" /\ rx = "take"
    /\ \E d \in Sample : DeAudioQueue(d) /\ heard' = d
    /\ left' = left - 1
    /\ rx' = IF left = 1 THEN "send" ELSE "take"
    /\ UNCHANGED <<buf16, enq, up, grabbed, mainVars, isrVars, running>>

\* data_send, in a loop that does not give up the processor.
Sending ==
    /\ running = "audioSignalRX" /\ rx = "send"
    /\ UNCHANGED <<queueVars, buf16, enq, left, heard, mainVars, isrVars, running>>

\* The chunk is dropped when reception was switched off.
RxDrop == Sending /\ ~rxFlag /\ rx' = "check" /\ UNCHANGED <<up, grabbed>>

\* RingIO refuses a block, as while the pipe is full, and data_send gives back what it
\* has acquired, if RingIO takes it back, and tries again.
RxRefused == Sending /\ rxFlag /\ grabbed' \in {0, grabbed} /\ UNCHANGED <<up, rx>>

\* A block is filled but not released: the chunk is written into the next one as well.
RxUnreleased ==
    /\ Sending /\ rxFlag /\ up + grabbed < Slots
    /\ grabbed' = grabbed + 1
    /\ UNCHANGED <<up, rx>>

RxSent ==
    /\ Sending /\ rxFlag /\ up + grabbed < Slots
    /\ up' = up + 1
    /\ rx' = "check"
    /\ UNCHANGED grabbed

RxSend == RxDrop \/ RxRefused \/ RxUnreleased \/ RxSent

AudioSignalRX == RxStart \/ RxBegin \/ RxSleep \/ RxTake \/ RxSend
-----------------------------------------------------------------------------
(***************************************************************************)
(* smain: dsp_logic every 30 ms.                                           *)
(***************************************************************************)

\* smain takes the message c; it clears it for the ARM once it has a copy.
Receive(c) ==
    /\ Has("smain") /\ smain = "poll" /\ command = c
    /\ command' = "none"

\* Mutant: reception is not switched off.
TxBegin_KeepRx ==
    /\ Receive("LMX2571_TX")
    /\ smain' = "tx" /\ Keep("smain")
    /\ UNCHANGED <<queueVars, taskVars, isrVars, rxFlag, txFlag, reply, queued>>

TxBegin ==
    /\ Receive("LMX2571_TX")
    /\ rxFlag' = FALSE
    /\ smain' = "tx" /\ Keep("smain")
    /\ UNCHANGED <<queueVars, taskVars, isrVars, txFlag, reply, queued>>

TxOn ==
    /\ running = "smain" /\ smain = "tx"
    /\ txFlag' = TRUE
    /\ smain' = "poll" /\ Yield
    /\ UNCHANGED <<queueVars, taskVars, isrVars, rxFlag, command, reply, queued>>

RxModeBegin ==
    /\ Receive("LMX2571_RX")
    /\ txFlag' = FALSE
    /\ smain' = "rx" /\ Keep("smain")
    /\ UNCHANGED <<queueVars, taskVars, isrVars, rxFlag, reply, queued>>

RxModeOn ==
    /\ running = "smain" /\ smain = "rx"
    /\ rxFlag' = TRUE
    /\ smain' = "poll" /\ Yield
    /\ UNCHANGED <<queueVars, taskVars, isrVars, txFlag, command, reply, queued>>

\* The reply is written to msg_send, which is put in the ARM's queue.  That a put
\* fails is only logged: msg_send stays full with nobody to empty it.
SendReply == reply' = TRUE /\ queued' \in {queued, queued + 1}

\* A request answered at once: PA_TEMP does not look whether msg_send is empty.
Answer ==
    /\ \/ Receive("RSSI_RD") /\ ~reply
       \/ Receive("PA_TEMP")
    /\ SendReply /\ Yield
    /\ UNCHANGED <<queueVars, taskVars, isrVars, txFlag, rxFlag, smain>>

\* The other requests sleep until the ARM has emptied it.
AnswerLater ==
    /\ Receive("RSSI_RD") /\ reply
    /\ smain' = "wait" /\ Yield
    /\ UNCHANGED <<queueVars, taskVars, isrVars, txFlag, rxFlag, reply, queued>>

AnswerNow ==
    /\ Has("smain") /\ smain = "wait" /\ ~reply
    /\ SendReply
    /\ smain' = "poll" /\ Yield
    /\ UNCHANGED <<queueVars, taskVars, isrVars, txFlag, rxFlag, command>>

Smain == TxBegin \/ TxOn \/ RxModeBegin \/ RxModeOn
         \/ Answer \/ AnswerLater \/ AnswerNow
-----------------------------------------------------------------------------
(***************************************************************************)
(* The ARM, whose program is not in the repository: what the DSP assumes.  *)
(***************************************************************************)
ArmCommands ==
    /\ command = "none"
    /\ command' \in Commands
    /\ UNCHANGED <<queueVars, taskVars, isrVars, running, txFlag, rxFlag, smain,
                   reply, queued>>

\* The ARM takes the reply from its queue, copies it and clears it.
ArmReadsReply ==
    /\ queued > 0
    /\ queued' = queued - 1 /\ reply' = FALSE
    /\ UNCHANGED <<queueVars, taskVars, isrVars, running, txFlag, rxFlag, smain,
                   command>>

ArmReadsPipe ==
    /\ up > 0
    /\ up' = up - 1
    /\ UNCHANGED <<queueVars, buf16, enq, rx, left, heard, grabbed, mainVars,
                   isrVars, running>>
-----------------------------------------------------------------------------
Next == \/ Capture \/ TaskEnque \/ AudioSignalRX \/ Smain
        \/ ArmCommands \/ ArmReadsReply \/ ArmReadsPipe

Spec == Init /\ [][Next]_vars

\* Tasks of one priority are run in the order in which they become ready, so a
\* ready task gets the processor whenever it keeps being given up.  That the ARM
\* reads its replies is an assumption on the other program; that it reads its pipe is
\* not assumed.
FairSpec ==
    /\ Spec
    /\ SF_vars(TaskEnque) /\ SF_vars(AudioSignalRX) /\ SF_vars(Smain)
    /\ WF_vars(ArmReadsReply)
-----------------------------------------------------------------------------
(***************************************************************************)
(* Properties.                                                             *)
(***************************************************************************)
TypeOK ==
    /\ QueueTypeOK
    /\ running \in Tasks \union {"none"}
    /\ txFlag \in BOOLEAN /\ rxFlag \in BOOLEAN
    /\ captured \in Sample /\ sem1 \in Nat /\ late \in BOOLEAN
    /\ buf16 \in Seq(Sample) /\ Len(buf16) <= Block
    /\ enq \in {"pend", "extract", "enqueue"}
    /\ rx \in {"start", "check", "take", "send"}
    /\ left \in 0 .. Chunk /\ heard \in Sample
    /\ up \in 0 .. Slots /\ grabbed \in 0 .. Slots
    /\ smain \in {"poll", "tx", "rx", "wait"}
    /\ command \in Commands \union {"none"}
    /\ reply \in BOOLEAN /\ queued \in Nat

\* At no instant, the interrupts' included, do both directions run: a callback
\* never finds both flags set, in the middle of a switch neither.
TxRxExclusive == ~(txFlag /\ rxFlag)

\* The samples on their way, oldest first.
InFlight == <<heard>> \o Content \o buf16 \o <<captured>>

InOrder == \A i, j \in 1 .. Len(InFlight) : i < j => InFlight[i] <= InFlight[j]

\* Blocks may be torn, repeated or missed when task_enque is late, and cut when
\* the queue is full, but audio never goes back in time, and audioSignalRX never
\* reads an empty queue (deAudioQueue would give it the sample ERROR).
SamplesInOrder == []InOrder /\ [][heard' >= heard]_vars

Waiting == Content \o buf16
Copies(b) == Cardinality({i \in 1 .. Len(Waiting) : Waiting[i] = b})

\* The deadline of the single capture buffer is exact: as long as every block is
\* extracted before the next interrupt, no sample of it is queued twice.
OnTimeMeansOnce == ~late => \A b \in 1 .. MaxCapture : Copies(b) <= Block

\* The message that carries the replies is never put in a queue that holds it.
ReplyQueuedOnce == queued <= 1

\* Blocks that keep coming, a queue that overflows or the loops of the other tasks
\* starve no command of the ARM.  Just two things do: data_send, which holds the
\* processor for as long as it finds no room in the pipe, and a reply that could not
\* be put, which the next request waits for.
NoOtherStarvation ==
    \/ <>[](rx = "send")
    \/ <>[](smain = "wait" /\ reply /\ queued = 0)
    \/ /\ command # "none" ~> command = "none"
       /\ smain # "poll" ~> smain = "poll"
=============================================================================
