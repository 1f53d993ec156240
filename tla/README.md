# Verification of fish

fish is the DSP firmware of a half-duplex radio on an OMAP-L138: a C674x DSP under
SYS/BIOS streams audio through a McBSP serial port, demodulates what it receives,
and exchanges commands and audio with a program on the ARM through SysLink. This
directory holds TLA+ models of it, the TLC runs that check them on small
instances, and TLAPS proofs of the properties that matter most for every size.

## 1. The system

```
          ARM program (not in the repository)
             |  synchronizer box, message queues, ring pipes (SysLink)
   syslink_init  syslink_sync  ntf_init  msgq_init  rpe_init      main_dsp: smain, dsp_logic
             |                                                        |  tx_flag, rx_flag
   syslink  syslink_messageq  syslink_ringpipe  syslink_notifier      |
             |                                       audioSignalRX <- audio_queue <- task_enque
           object                                    task_receive -> buf_transmit      ^ sem1
                                                                |  sem2                |
                                            mcbsp_task: mcbspAppCallback, submits one frame a direction
                                                                |
                          mcbsp_drv, mcbsp_ioctl, mcbsp_edma, mcbsp_osal  --  EDMA3, McBSP
```

Messages between processors go through SysLink; task and interrupt share flags,
semaphores and buffers without locks; the driver calls the client back from the
EDMA interrupt; the driver's queues are guarded by masking interrupts.

| Component | State | Operations | What is hard | What makes it correct |
|---|---|---|---|---|
| **McBSP channel** `mcbsp_drv.c`, `mcbsp_edma.c`, `mcbsp_ioctl.c` | floating and pending lists, `submitCount`, `nextLinkParamSetToBeUpdated`, pause, mute and stop flags, the two link PaRAM sets, the set being played | submit, completion and error interrupt, abort, flush, reset, cancel, START, STOP, PAUSE, RESUME, MUTE, SAMPLE_RATE_CHANGE | the hardware moves on while the interrupt is pending; RESUME is not in a critical section; the list is intrusive, so a second put of an element cuts it | the EDMA uses only buffers the client handed over; no buffer is lost; a buffer reported finished is finished, and was played; buffers keep being played |
| **McBSP device** `mcbsp_drv.c`, `mcbsp_osal.c`, `device_mcbsp.c` | `inUse` and state of an instance, mode and state of its two channels, sample-rate generator state | init, bind, create, delete, unbind, CHAN_RESET, DEVICE_RESET, START, STOP, sample-rate change, the other clock commands | every step may fail after an earlier one took a resource; a call sleeps half-way and another task runs | a free instance owes nothing; a channel that can be created again holds nothing; nothing of an unbound instance runs |
| **Bring-up and take-down** `syslink_init.c`, `syslink_sync.c`, `ntf_init.c`, `msgq_init.c`, `rpe_init.c`, `main_dsp.c` | what each peer has up, the messages in the synchronizer boxes, the codes collected | the stages of `syslink_prepare`, the PREPARE exchange, `syslink_cleanup` with two closing rounds | two processors, any order of messages, a stage failing on either side, waits that run out | a running peer's remote is up; no code is lost or dropped that a wait needs; both closers finish; the heap suffices |
| **Sample queue** `audio_queue.c` | front, rear, capacity, ring | init, enqueue, dequeue, flush, poll | the wrap at a size that the block does not divide; full and empty | a bounded first-in first-out queue |
| **Receive path** `main_dsp.c`, `mcbsp_task.c`, `audioDetectFrequency_rx.c` | `tx_flag`, `rx_flag`, `sem1`, `buf_adc`, `buf_16`, the chunk, the reply message | capture interrupt, `task_enque`, `audioSignalRX`, `data_send`, `dsp_logic` | one capture buffer that the interrupt overwrites; tasks that switch only where they block; a spin on a full pipe | samples stay in order; no read of an empty queue; never both directions; a message is queued once; a command waits for ever only behind a full pipe or a reply that could not be put |
| **Transmit path** `main_dsp.c`, `mcbsp_task.c` | `buf_transmit`, `sem2`, the ring pipe's reader | `task_receive`, `data_process`, output callback, `ch_chPara` | one buffer shared by the task, `dsp_logic` and the interrupt; a command before the buffer is allocated, memory that is not there; acquires, reads and releases that fail | reception is silent; parameters reach the line; no block that was in time is lost or repeated; the pipe is drained |
| **Client of the channels** `mcbsp_task.c` | one frame a direction, the counts of submissions and completions | two submissions of the same frame a direction, the wait between them | the frame is still in the driver's intrusive list at the second submission | its handler is called at every completion; the line plays nothing but its frame |
| **Message queue** `syslink_messageq.c` | attached and local boxes, registered callback and counter, heaps | construct, create, delete, open, close, attach, detach, send, receive, register, destruct | a notification that fails after the put; a second registration; an 8-bit counter | a preparation that fails leaves nothing; a destroyed queue is not called back |
| **Ring pipe** `syslink_ringpipe.c` | open ends, notification marks, attributes | construct, destruct, prepare, open, close, register, get, set, flush, callback | close of one end with the other open; a close that fails | a preparation that fails leaves nothing; only a failed close leaves a dangling handle |
| **Notification** `syslink_notifier.c` | registrations, event queue, counters | register, unregister, callback, send, open, close | callback and reader of the event queue, with no exclusion; overflow | the list agrees with its semaphore; no event is stranded |
| **SysLink control** `syslink.c`, **object tree** `object.c` | reference counts, parents | init, deinit, change parent, destruct; start, attach, detach, stop | library calls that fail half-way; counters that a change of parent or a second initialisation leads astray | the counters stay in their range; they do not count the children (hazard at `object.c:77`) |
| **Synthesizer and converter drivers** `data2571.c`, `amc_adf.c` | register images | register arithmetic, SPI and GPIO writes | - | not modelled: no state across calls but register images |
| **Signal processing** in `audioDetectFrequency_rx.c` | filter delays | floating-point filters | - | not modelled: outside what TLC computes |
| **EDMA3 tables, platform configuration** `sample_*.c`, `Dsp.cfg`, `config.bld` | vendor tables | - | - | not modelled: data and build configuration |

`PROJECT.json` lists the same components with their status, and each hazard at
the line where it bites with the properties that guard it.

## 2. Plan

Done, in the order of importance: the transfer path of the McBSP channel, the
bring-up handshake, the sample queue with its abstract queue, the receive path
composed with it, the life cycle of the McBSP device and its channels, the transmit
path, the objects of the SysLink wrappers, the firmware's own client of the channel.

Next:

1. The sample-rate, frame-sync and section configuration of the McBSP as arithmetic on
   its register fields, checked against the rates asked for (`mcbsp_drv.c:1900-2250`).
2. Abstract specifications that `Messageq` and `RingPipe` implement: a bag of owned
   messages, a byte pipe with two ends; an abstract loan of frames (client, driver,
   EDMA) that `McbspChannel` implements.
3. The status word of a message queue as the read-modify-write it is, between a task
   and the notification's callback.
4. Proofs of what 1 to 3 add, and of the safety properties section 6 lists as only checked.

The modules are written to be proved about: parameters are CONSTANTS with named
assumptions, an action is an operation, and nothing is declared RECURSIVE.

## 3. Modules

### McbspChannel

One channel as the Makefile builds it (`MCBSP_LOOPJOB_ENABLE`, `MCBSP_LOOP_PING_PONG`,
McBSP device mode).

- `xfer` and `pram` are the PaRAM sets: an address, the interrupt enable, the link.
  `Complete` is the hardware: raise the interrupt, copy the linked set over the
  one played. `LoopSlot` and `BufSlot` are the two ways
  `Mcbsp_localUpdtDtPktToLnkPrms` fills a set.
- `CompletionIsr` and `ErrorIsr` are `Mcbsp_localEdmaCallback` with the branches of
  the code: empty list, output underflow, report and queue again, pause.
  `late` counts completions behind one raised interrupt.
- `SubmitPend` and `SubmitFloat` are the two outcomes of `mcbspSubmitReq`; `AbortReset`
  is also FLUSH, CHAN_RESET and CANCEL_PENDING_IO, which reach the same function.
- A task call is one step where the code masks interrupts. An interrupt that
  was raised meanwhile is taken before the next one (`TaskStep`). RESUME
  masks nothing, so it is split in `ResumeCall`, `ResumeTake`, `ResumeArm`, `ResumeEnd`.
- `Put` is `Queue_put` of the intrusive SYS/BIOS queue: an element put twice becomes the
  last one and what followed it is cut off.
- SAMPLE_RATE_CHANGE is `RateCall` and `RateEnd`, with the sleep between them. On an
  output channel it leaves the transmitter off and not marked as stopped, and START, which
  looks at the mark only, then returns BADARGS for ever: no property says that a port can
  be started again, for it is not so (hazard at `mcbsp_ioctl.c:130`).
- `report` is the last buffer handed to the client; `MCMcbspChannel` adds the history
  `played`, the buffers that were played since they were submitted.
- Left out: the address alignment and FIFO variants of a PaRAM set, LOOPBACK, the
  modification of the loop job, timeouts of the OSAL.

### SingleFrame (with MCMcbspChannel)

`_task_mcbsp` owns one frame a direction (`NUM_OF_MCBSP_FRAMES` is 1) and submits it
twice: `tempdata` lets its wait loop break once, so there is exactly one second
submission. The frame is still in the floating list then. The second `Queue_put`
makes the frame's next pointer point to the frame, so the list has no end; the module keeps
the list as its pointers (`list`) to say so. What is special about it:

- Between the submissions the line is back on the loop job; after the second one both
  link sets are the frame.
- Every later completion finds the frame at the head and calls the handler. The
  output branch takes the list for drained and reports an underflow with it. An abort
  of such a channel would never come to the end of the list; the firmware never makes one.

`MCMcbspChannel` puts `McbspChannel` and `SingleFrame` in one run: they share no
state, and `direction` says at the start whether a behaviour is of an output or an input
channel with a client that does as it likes, or of the firmware's client.

### McbspDevice

The instance and its two channels around the transfer path: `BindDev`, `CreateChan`,
`DeleteChan`, `UnBindDev`, the commands that act on a section of the port or on the
sample-rate generator, and what each takes from the EDMA driver. `Commands` are those a run uses.

- On this chip the critical section over an instance is empty and the bit-clock delay
  is `Task_sleep` (`mcbsp_osal.c:598`), so `CreateChan` and SAMPLE_RATE_CHANGE are
  split where they sleep: `pc` says at which delay. Between two delays a call is one step.
- `owner` is the set of channels whose handle the creator was given; only it calls on
  a channel, and not while another of its calls sleeps. `Section` is the driver's
  "if INPUT, else" on `chanHandle->mode`, which a failed creation overwrites.
- `SetupEdma` lists how the EDMA set-up can end. `lost` counts the link sets that the driver
  took and no longer names. `Faults` names the steps that may fail.
- `MCBSP_MODE_INPUT`, `MCBSP_MODE_OUTPUT` and `Mcbsp_DriverState_CLOSED` come from headers
  that are not in the repository; the model takes them as three values.
- `known` is the set of channels whose `devHandle` and `edmaHandle` were ever set; a deletion or
  a failed creation does not clear them. DEVICE_RESET, by any holder of a channel, resets the
  known ones: it enables a section that has no channel behind it (hazard at `mcbsp_ioctl.c:416`).
  On a channel never created it works through a NULL handle, which is taken to do nothing.
- SRGR_START, SRGR_STOP, CONFIG_SRGR, SET_CLKMODE and a refused rate change are actions. A refused
  change and SRGR_STOP leave the generator off under the other channel; a rate change on a
  channel that does not need the generator clears `srgConfigured`, after which every change is
  refused with BADMODE (hazard at `mcbsp_drv.c:2640`). So no property says that the clock of a
  created channel runs.
- Left out: the frame-sync generator and its commands, what the clock registers hold, LOOPBACK.

### SyslinkHandshake

Both peers run the same functions, `SlkPrepare` to `SlkCleanup`, one action a
stage; `up[p]` are the resources a peer holds, `box[p]` the messages in its
synchronizer. `Faults` names the stages that may fail or run out of retries. The
ARM's application is external and assumed to make smain's calls in smain's order.
The objects a stage creates are one resource here; `Messageq`, `RingPipe` and
`Notifier` have their insides.

### Outcomes, Messageq, RingPipe, Notifier, ObjectTree (with MCSysLinkObjects)

The wrappers of the SysLink libraries. A call runs within one task, and each library
call in it may fail: `Outcomes` composes what may come of the calls in order, with the code's
early returns, so that one wrapper call is one step to any of its outcomes. The
client makes any call in any order; `msgq_init.c` and `rpe_init.c` are actions too.

- `Messageq`: `mq` holds the fields of `messageq_t` and what the libraries have for it,
  `msg` who has a message, `mbuf` a message buffer with its heap. The results of
  unregistering a heap and of deleting or closing it are ignored, as in the code: `kept` notes a
  box or a heap that the library refused to give up. The counts of opened boxes and of
  registered events are 8-bit fields of the status word and come round at 256.
  That a task and the callback both write the status word is not modelled.
- `RingPipe`: `rpe_construct` and `rpe_prepare` look at nothing, so they may come in any state.
  Closing one end alone, without a notifier, clears OPEN, and
  destruction then leaves the rest; a close that fails is masked by the result of the delete
  after it. `refused` notes what RingIO refused to close or delete, `passed` the
  handles given to it. Acquire and release are macros over RingIO and change nothing here; they
  are in `DspApp` and `TransmitPath`, where the application uses them.
- `Notifier`: `notifier_construct` may come in any state too. Two actors, the interrupt that appends an event and a task that opens,
  registers, takes and closes. `bilist_del` and the append may meet in the window between the
  two writes of the removal of the last node (`broken`); a node may be taken from an empty
  list, after which nothing is certain (`corrupt`). A timed search
  takes two counts of the semaphore for one event. `past` notes the window and the timed
  search, so that the properties can name them. NOSEND and NORECV share a bit: any mode but
  zero forbids registering. The application configures no notifier (`NTF_MAX` is 0).
- `ObjectTree`: counters and parents of `object.c`, with `syslink.c`'s root object.
  `change_parent` puts the new parent where the old one is meant, `object_init` revives
  an invalid parent, `notifier_destruct` deinitialises even a busy object, and an object that is
  still valid may be initialised again, with its counter at 0. So the counters count nothing
  for sure (hazard at `object.c:77`), and only their range is checked.

`MCSysLinkObjects` runs one of them, chosen at the start (`subject`), for they share no state.

### BoundedFifo, AudioQueue

`AudioQueue` is the ring of `audio_queue.c` with its three indices. `BoundedFifo` says
what it promises; `Content` is the refinement mapping (the samples from front,
capacity of them).

### DspApp (with MCDspApp)

EXTENDS `AudioQueue` and composes it with the capture interrupt, `task_enque`,
`audioSignalRX` and the commands of smain. A sample bears the number of the block it
was captured in, which is what order and repetition depend on; filters are left out.
All tasks have the default priority, and SYS/BIOS then switches only where the
running task blocks or sleeps: `running` is the task that has the processor,
`Has` the guard of a step that may begin, `Yield` the blocking call. The interrupt,
`Capture`, may come between any two steps, and between two samples of
`data_extract`. `RSSI_RD` stands for the five requests that wait for an
empty reply message. Captures never end: the first `MaxCapture` come at any time, the later ones,
which bear the last number, when `task_enque` waits for one.

- Putting a reply may fail, which the code only logs: the reply message then stays full and
  nothing is queued, so the next request waits for ever.
- `grabbed` counts the blocks acquired in the pipe to the ARM and not released. RingIO may refuse
  a block also when there is room (`RxRefused`): `data_send` gives back what it has acquired, if
  that works, and tries again. A release may fail (`RxUnreleased`): the chunk is written into the
  next block as well, and a later release frees the older one (`main_dsp.c:319`), so chunks are
  doubled or shifted. What the ARM reads is not a property here.
- That the ARM reads the pipe is an action but not assumed to happen.

### TransmitPath (with MCTransmitPath)

`task_receive`, the output interrupt and smain around `buf_transmit`. The tasks switch
only where they block; the interrupt may come in the middle of a write, so the
buffer is written a part at a time (`Parts`; `ch_chPara` writes `ParaParts` of them).
A block of audio is a number, the pipe a sequence of blocks and attributes, `sem2` a
count. The first turn of each task is in it, since `dsp_logic` may write the buffer before
`task_receive` has allocated it, and `malloc` may fail: a write at address 0
changes nothing here, a read of it gives `Unset`. A block of 1200 words at 107000 words a second takes
11.2 ms on the line, more than the `Task_sleep(10)` that a channel command gives
its parameters: they may miss the line (hazard at `main_dsp.c:561`), and
`ParametersSent` says when they do not.

`ring` is what the reader has not acquired, `held` how many blocks it acquired and did not release;
a release may fail, an acquire may (`AcquireRefused`), and an attribute that cannot be
read stays (`AttributeStays`). The code recognises the end of the flow only when no further attribute
follows (`EndSeen`), for `rpe_get_attribute` then returns a pending code that the test
`!status` takes for an error.

Operators named `X_Y` beside a definition `X` (commented "Mutant") are plausible
bugs in it; `PROJECT.json` pairs each with a property it breaks. No
specification uses them.

## 4. Runs

| Run | Configuration | Question | Bounds and why they are enough |
|---|---|---|---|
| `channel` | `Channel.cfg` | Do the buffers and the PaRAM sets stay consistent, in either direction, with every command and event misses? Does the firmware's client of one frame keep playing? | three interchangeable buffers, one more than there are link sets, so that the pending list is used; up to three completions behind an interrupt, one more than a turn round the two sets |
| `channel_streaming` | `ChannelStreaming.cfg` | Is no buffer lost, none reported that was not played? Are two buffers left alone each played for ever? Does a paused channel end on the loop job? | three buffers, the interrupt served before the next completion, PAUSE, MUTE and SAMPLE_RATE_CHANGE, no symmetry (liveness) |
| `channel_input_report` | `ChannelInputReport.cfg` | Finding 1 | one completion at a time, no commands |
| `channel_resume` | `ChannelResume.cfg` | Finding 2 | as `channel_streaming` |
| `device_life` | `DeviceLife.cfg` | Whatever fails and however two tasks interleave, are resources released, is nothing forgotten, is an unbound instance silent? | both channels; every fault and command; four link sets, what both channels need, since a shortage ends like a refusal of the transfer channel |
| `device_competing` | `DeviceCompeting.cfg` | Finding 5 | no faults, no commands; tasks also ask for a taken channel (`CompetingSpec`) |
| `handshake` | `HandshakeFaults.cfg` | Do the peers agree whatever fails? | the two peers; every stage may fail on either side, at any time, independently |
| `handshake_result` | `HandshakeResult.cfg` | Finding 3 | only the ring pipe stage fails |
| `syslink_objects` | `SysLinkObjects.cfg` | When any library call may fail, does a preparation that fails leave nothing, is a destroyed queue never called back, is a list kept whole, under any calls? | `Modulus` 3 stands for 256, so that the counter comes round; three opened boxes or registered events, two events of a notifier, two places in the queue and a list of three, so that it overflows; one pipe or queue and one notifier under the root, counters to three |
| `dsp_receive` | `DspReceive.cfg` | Are samples in order, the queue a queue, and what can starve a command? | blocks of 2, chunks of 3, a ring of 5: no size divides another, so indices wrap inside a block and a chunk spans blocks; three numbers of captures are enough for a block to be overwritten, torn and repeated; captures themselves never end |
| `dsp_reply` | `DspReply.cfg` | Finding 4 | sizes 1 or 2: the audio is irrelevant |
| `dsp_transmit` | `Transmit.cfg` | Is reception silent, do parameters reach the line, is a block in time sent once, is the pipe drained, whatever fails? | two parts of the buffer, one of them the parameters', so that each write can be torn; two blocks or attributes, two slots, two posts of `sem2`, so that posts left from transmitting meet reception |

What the passing properties say (the comments beside them say it in full):

- `EdmaTouchesOnlyHeld`: no PaRAM set points to a buffer the client has back.
- `NoFrameLost`: the two lists hold exactly what the client handed over, and
  `submitCount` counts it (output; in input finding 1 breaks it).
- `OutputCompletedIsIdle`: the callback tells which linked set raised the interrupt.
- `CompletedWasPlayed`: a buffer reported completed was played since it was submitted, whatever
  interrupt was raised before an abort or in the middle of RESUME. The run has no event misses:
  one rotates the list, so that a completion raised before it reports the other buffer, as the code
  does. A muted set plays the mute buffer for any of the client's.
- `HandlerCalled`, `NeverBackToLoop`: every completion of the firmware's frame reaches its
  handler, and from the second submission on the line plays nothing else.
- `StreamsUnlessPaused`, `PauseDrains`: two buffers are reported again and again; PAUSE
  takes both out of the loop.
- `ReleasedAtUnbind`: a free instance owes the EDMA driver nothing. `ClosedHoldsNothing`: a channel
  that can be created holds nothing the creation would write over. `SilentWhenUnbound`: nothing of an
  unbound instance runs, and no call that slept meanwhile is left to turn something on.
- `RunningMeansRemoteUp`, `NothingLost`, `HeapSuffices`, `PrepareNeverStarves`,
  `ClosingEnds`: a running peer's remote is up; no message is sent to a destroyed box
  or left in it; the heap suffices; two waiting peers have a message to go on with; two
  closing peers finish.
- `FailedPreparationLeavesNothing`, `DestroyedHasNoEvents`, `DanglingAfterFailedClose`: making a
  pipe, a queue or a buffer ready leaves nothing when a later library call fails, but for
  what the library refuses to give up; no queue is destroyed with an event registered,
  as long as fewer are registered than the counter has values; a dangling handle is passed only
  after a close that failed.
- `PopFindsEvent`, `NoneStranded`: the list of a notifier agrees with its semaphore, but for the
  window and the timed search that section 3 names.
- `TxRxExclusive`, `SamplesInOrder`, `OnTimeMeansOnce`, `QueueIsFifo`: never both directions; audio
  never goes back in time; no sample is queued twice while every block is extracted in time; the
  ring is a queue. `NoOtherStarvation`: captures that never end, an overflowing queue and the other
  tasks' loops starve no command; only a pipe without room and a reply that could not be put do.
- `QuietWhenReceiving`, `ParametersSent`, `NothingSkipped`, `RepeatedByAttribute`, `PipeDrained`: the
  line is silent in reception, parameters are sent whole, a block in time is replaced only after
  it was on the line, a block is repeated only where an attribute was in the pipe, and while
  transmitting each block is taken until the flow ends, also when blocks are not released, unless
  the pipe refuses for ever. The first says nothing when there is no memory to silence.

Deadlock is checked in every run but the handshake's, where both peers may have
returned, or one may wait for ever for a peer that has failed, the device's, where a
refused bind leaves the instance taken and nothing can be called on it, and the wrappers',
where a notifier stops for good when a node was taken from an empty list.

### Fairness

- Channel: `Complete`, the bit clock runs while the port is on; `CompletionIsr`, a raised
  interrupt is served; `Resume \/ RateEnd`, a started call goes on. Calls of the client are never
  fair.
- Client with one frame: none, its properties are safety.
- Handshake: each processor's one task goes on. `Leave`, the application's decision
  to stop, is outside the fairness condition.
- `DspApp`: SYS/BIOS keeps ready tasks of one priority in a first-in first-out
  list, so a task that is ready whenever the processor is given up gets it: strong
  fairness of each task. `Capture` and the ARM's commands are not fair. That the ARM
  reads its replies is an assumption on the other program, and needed. That it reads the pipe is not
  assumed: `data_send` spins on a full pipe without giving up the processor, so an ARM that
  stops reading also stops smain from receiving the command to stop, and
  `NoOtherStarvation` names that case.
- `TransmitPath`: the line's clock (weak: `McbspStart`, `Output`) and, as above, strong
  fairness of `task_receive` and smain.

## 5. Disagreements found

1. **`CompletedIsIdle`, `mcbsp_edma.c:273`.** The comment at lines 269-272 says that
   either of the two linked buffers can cause the callback and that the case is
   handled. The output branch handles it; the input branch puts both back but leaves
   the status COMPLETED, so it reports the buffer being written and queues it
   again, which cuts the other out of the list. Run `channel_input_report`.
2. **`Streams`, `mcbsp_ioctl.c:445`.** RESUME reloads buffers only when the floating
   list is empty, which it never is in the ping-pong build after PAUSE: the channel
   stays on the loop job. Run `channel_resume`.
3. **`PreparedMeansUp`, `syslink_init.c:87`.** The stage functions return 0 when nothing
   was initialised; `syslink_prepare` takes everything down and returns that 0, which
   smain reads as success. Run `handshake_result`.
4. **`ReplyQueuedOnce`, `main_dsp.c:595`.** PA_TEMP sends the reply message without
   waiting, as every other request does, until the ARM has emptied it. Run `dsp_reply`.
5. **`PortServed`, `mcbsp_drv.c:763`.** A failed `CreateChan` writes
   `Mcbsp_DriverState_CLOSED` into the mode of the channel, also when it is refused because
   the channel is taken, which the comment at lines 507-509 says is protected against. The
   holder then acts on the other section of the port. Run `device_competing`. For the same
   reason a creation that fails for good leaves the channel opened: it can
   neither be created again nor the device unbound.

## 6. Proofs

All are for every value of the constants, from the assumptions named in the modules.

**McbspChannel_proof** (`ModeAssumption`, `ControlsAssumption`, `MaxLateAssumption`,
`BufAssumption`): any set of buffers, finite or not, and any bound on late interrupts.

- `TypeCorrect` and `TouchesOnlyHeld`, in both modes, from `TouchInv`. Safety alone is
  not inductive: a set written by `ResumeArm` holds the buffer that `ResumeTake` moved,
  and the callback queues a buffer again and must not let one in that the
  client has back. `TouchInv` adds that the floating list repeats no buffer, that
  `submitCount` is at least the length of both lists (an abort subtracts them), and that
  the pending buffers and RESUME's local one are held.
- `OutputKeepsFrames`: `NoFrameLost` in output, from `KeepInv`, which adds that the two
  lists are injective and disjoint. Only then is a put of the intrusive queue an
  append, and the take-out and put-back of two buffers a permutation
  (lemmas `PutNew`, `Rotate`, `PutBackKeeps`). In input the invariant fails
  (finding 1), hence the hypothesis on Mode.
- `OutputReportsIdle`: `CompletedIsIdle` in output, from `IdleInv` on top of `KeepInv`. With two
  buffers in the floating list the callback looks which one the EDMA is on. With one, the
  set that holds it links to the loop job, so once the interrupt is raised the EDMA is on that
  set. With none, a task call overtook the interrupt, and nothing is
  submitted before the interrupt is taken; RESUME arms a first buffer only with no
  interrupt raised.

**MCMcbspChannel_proof** (the same assumptions): the channels of the streaming run.

- `CompletedOutputIsIdle` (`OutputCompletedIsIdle`): `TouchInv`, `KeepInv` and `IdleInv` carry
  over to the behaviours that choose the output channel.
- `HandlerAlwaysCalled` (`HandlerCalled`) and `LoopStaysOff` (`NeverBackToLoop`), of the
  firmware's own client: how often a direction has submitted its frame tells the shape
  of the driver's list and what every PaRAM set holds (`Submitted`). After the
  second put the list has no end, and neither end of the queue ever points to the
  queue again, so that every completion finds the frame; both link sets are the frame
  from then on, and the set that still plays the loop job links to one of them.

**SyslinkHandshake_proof** (`FaultsAssumption`): whichever stages may fail.

- `TypeCorrect`, `RunningIsSafe`, `NoMessageLost`, `PrepareGoesOn`, `HeapAlwaysSuffices` (all
  of the handshake's invariants) from one invariant, `IInv`, that says for each peer
  what the other one has said. To send, a peer must have attached the
  other's box, which goes away only with an error or when the sender is past its last word
  (`Attached`, `LastWord`). Who has been sent PREPARE, or runs, has a peer that
  holds everything until it is told RPEOUT, which comes only from a peer on its way out
  (`Prepared`, `OutSent`). The three codes of the other peer are in the box or collected
  (`Heard`), and PREPARE comes behind them in the box (`InOrder`), so the loop that collects
  them ends before it could drop PREPARE (`PrepareKept`). A new box has missed nothing: the
  other peer cannot have attached it (`NewBox`).
- For `HeapSuffices` a bound on the messages is not inductive, as nothing in it says what
  has been received. `Credit` is how many codes more than it has received a peer may have
  sent at each point of its program: what it collects in a wait (`Lacks`) is what allows it
  to send on. The messages under way never exceed the credits of both
  (`Balanced`), and no credit is above four. A peer that goes on to its next collection
  must have forgotten the codes of the one before (`Cleared`).
- Steps are sorted by what they do to the boxes (`Quiet`, `Talks`, `Hears`), and each part
  of the invariant is one lemma over the three kinds. The queues enter by four
  lemmas on appending and taking (`LastAppended`, `LastTaken`, `PrecededAppended`,
  `PrecededTaken`).

**McbspDevice_proof** (`LinkSetsAssumption`): any number of link sets, any faults.

- `TypeCorrect`, `AlwaysReleased` (`ReleasedAtUnbind`), `NothingForgotten` (`ClosedHoldsNothing`) and
  `AlwaysSilent` (`SilentWhenUnbound`), the properties of `device_life`, from one invariant, `IInv`.
  To the properties it adds that a created channel keeps its own mode and both its sets
  until its deletion freed the transfer channel (`Created`), that a channel that is not opened holds
  nothing (`Closed`), and how far a sleeping call has come (`Asleep`). The argument is per
  channel, but for the sets, which `AvailableAfter` counts over both.

**AudioQueue_proof** (`SizeAssumption`, `SampleAssumption`): any size and set of samples.

- `IndicesAgree`: rear follows front by capacity, modulo the size.
- `Refinement`: `QueueSpec => QueueIsFifo`. The work is that a wrap moves no sample
  (`RingSum`, `RingIndex`, `EnAudioQueuePuts`, `DeAudioQueueGets`).

**DspApp_proof** (`AppAssumption` as well): any block, chunk, ring and pipe size, any
number of captures.

- `TypeCorrect` and `Exclusion` (`TxRxExclusive`) from `Inv`: what `buf_16` and the chunk counter
  hold at each point (`Phases`), and that smain, between its two writes of a switch, has already
  cleared the other flag (`Switching`).
- `QueueRefined`: every step is an operation of the queue or leaves it alone, so the
  queue's refinement carries over to the composed system.
- `InOrderAlways` (`SamplesInOrder`): from `OrderInv`, an order between the last
  sample taken, the queue, `buf_16` and the capture buffer, each of which an interrupt or a
  task can change alone. It needs that the queue holds the rest of a chunk
  that was begun (`left <= capacity`): the guard at `audioDetectFrequency_rx.c:408` and
  that nobody else dequeues or flushes meanwhile. Without it the dequeue of an
  empty queue would hand out ERROR, a sample from the past.
- `OnceWhenInTime` (`OnTimeMeansOnce`): a count of the copies is not inductive. `OnceInv` says
  instead that samples a block apart differ (`Apart`), which goes on when the oldest
  sample is taken, moved or dropped, and that a block not extracted yet is new to the queue
  and `buf_16` (`Below`). That two posts of the semaphore mean a missed deadline is what
  makes `sem1 <= 1` part of it. `WithinBlock` then counts: positions that are less than a
  block apart are at most a block.

**MCSysLinkObjects_proof** (`SysLinkAssumption`): any width of a queue's counters, any number
of open boxes, registrations and objects, any capacity of an event queue, and up to 255
events, which is what `syslink_notifier.h` admits (2 processors, 4 lines, 32 events) less the
one SysLink keeps, and what the 8-bit count of a notifier needs.

- `TypeCorrect`, `FailureLeavesNothing` (`FailedPreparationLeavesNothing`), `NoEventOutlivesQueue`
  (`DestroyedHasNoEvents`), `DanglingOnlyAfterFailedClose`, `PopNeverMisses`, `NoEventStranded`: all
  properties of `syslink_objects`. The objects share no state, so the
  invariant is one of each kind and a step of one leaves the others alone (`StepOfEach`).
- `PipeInv`: a writer's end without its buffer is one RingIO refused to close (`Accounted`). What
  a call leaves in RingIO without a handle of it is what was there before (`Kept`), and a call
  that opens nothing leaves only refused parts when no more was held (`Shut`); the
  preparation composes them.
- `QueueInv`: `Sound` ties the counter of the status word to the registered events modulo the
  width of its field (`RegisteredTurns`), and a box in the library to the queue's own or to a refused
  deletion. `Proper` says what every call does to it: one that destroys the queue found
  its counter at 0 and leaves the events. `Unspoilt` says what the making of a buffer
  leaves of its heap.
- `NotifierInv`: a queue and registered events, once both are there, stay (`Settled`: the mode
  that makes the queue forbids to unregister); the semaphore and the node being removed account
  for the list, unless `past` says otherwise (`Semaphore`).
- `TreeInv` is the type of the objects: nothing more holds of their counters (section 3).

**TransmitPath_proof** (`TransmitAssumption`): any number of parts, blocks, slots and posts.

- `TypeCorrect`, `SilentAlways` (`QuietWhenReceiving`), `SentAlways` (`ParametersSent`),
  `NeverSkipped` and `RepeatedOnlyByAttribute` from one invariant, `Inv`: where
  the tasks can be together (`Scheduling`), what the running task has written of the buffer
  (`Writing`), that nothing makes `task_receive` write in reception once the posts
  left from transmitting are used up (`Quiet`), that the parameters of a channel stay in the
  buffer while smain sleeps (`Sending`), that the block being converted is older than those in
  the pipe and those are in order (`Ordered`), and that an interrupt in time left on the line the block it
  asks to replace (`Asked`).

**Only model-checked:** the liveness properties (`StreamsUnlessPaused`, `PauseDrains`,
`ClosingEnds`, `NoOtherStarvation`, `PipeDrained`), as what rests on fairness is out of the
prover's reach, and `CompletedWasPlayed`, whose history is the run's. The five runs that expect a violation refute their property and have nothing
to prove. Each inductive invariant was checked by TLC on the instance of its run before it was
proved.

## 7. Not modelled

The components marked so in section 1: drivers of the synthesizer and the converter keep
no state but register images, the signal processing is floating-point arithmetic, and the
EDMA3 tables are vendor data. Within modelled ones: the register values a clock or a section
of the McBSP is programmed with, so neither the divider nor what a refused rate leaves in it
(hazard at `mcbsp_drv.c:2640`); the timing of the McBSP, the contents of messages, logging. Restart of
a processor without a restart of the other is not a behaviour the code handles (the static flag
of `sync_waitfor_prepare` forbids a second preparation). Memory visibility between the
processors is taken to be what SysLink guarantees; within the DSP there is
one core, so steps interleave and do not overlap.

Some hazards have no property because the code is exposed to them; the model does what the code
does, and `PROJECT.json` says so at each: `mcbsp_ioctl.c:130` and `:416`, `mcbsp_drv.c:2640`,
`syslink_messageq.c:514`, `syslink_ringpipe.c:215`, `object.c:77`, `main_dsp.c:184`. The timeout of
`sync_waitfor_prepare` (`syslink_sync.c:196`) is one of the handshake's faults.
