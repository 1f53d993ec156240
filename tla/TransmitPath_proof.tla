------------------------- MODULE TransmitPath_proof -------------------------
(***************************************************************************)
(* Proofs about the transmit path, for every size of buf_transmit and of   *)
(* the ring pipe, any number of blocks and any bound on the posts of sem2. *)
(***************************************************************************)
EXTENDS TransmitPath, TLAPS

\* Who has the processor at each point of the two tasks, and what has happened
\* before smain got it a second time.
Scheduling ==
    /\ receive = "convert" => running = "task_receive"
    /\ smain \in {"para", "silence"} => running = "smain"
    /\ running = "smain" => smain # "sleep"
    /\ receive = "start" => ~allocated /\ ~mcbsp
    /\ running = "task_receive" => receive # "start"
    /\ running = "smain" /\ ~mcbsp => receive = "start"
    /\ smain \in {"poll", "sleep"} /\ receive # "convert" => at = 0

\* What the running task has written of buf_transmit.
Writing ==
    /\ smain = "silence" /\ allocated => \A p \in 1 .. at : buf[p] = Silence
    /\ smain = "para" /\ allocated => \A p \in 1 .. at : buf[p] = Para
    /\ smain = "para" /\ ~allocated /\ at # 0 => stray

\* Nothing makes task_receive write while the DSP receives.
Quiet == ~txFlag /\ ~leftover => sem2 = 0 /\ receive # "convert"

\* The parameters of a channel stay in buf_transmit while smain sleeps, and reach
\* the line with the interrupt.
Sending ==
    /\ aired => smain \in {"sleep", "silence"}
    /\ smain = "sleep" /\ ~mcbsp => stray
    /\ \/ smain = "sleep"
       \/ smain = "silence" /\ at = 0 /\ aired
       => (~txFlag /\ ~leftover /\ ~stray =>
               \A p \in 1 .. ParaParts :
                   buf[p] = Para /\ (aired => line[p] = Para))

\* The block in ring_ar is older than those of the pipe, and those are in order.
Ordered ==
    /\ samples <= written
    /\ \A i \in DOMAIN ring : ring[i] \in Blocks =>
           ring[i] <= written /\ ring[i] > samples
    /\ \A i, j \in DOMAIN ring :
           ring[i] \in Blocks /\ ring[j] \in Blocks /\ i < j => ring[i] < ring[j]

\* An interrupt that was not late left on the line the block it asks to replace.
Asked ==
    /\ ~mcbsp => sem2 = 0
    /\ ~late => sem2 <= 1 /\ (receive # "pend" => sem2 = 0)
    /\ ~late /\ sem2 > 0 => \A b \in Blocks : buf = Whole(b) => line = buf

Inv ==
    /\ TypeOK /\ Scheduling /\ Writing /\ Quiet /\ Sending
    /\ QuietWhenReceiving /\ Ordered /\ Asked
-----------------------------------------------------------------------------
LEMMA InitInv == ASSUME Init PROVE Inv
<1> USE TransmitAssumption DEF Init
<1>1. TypeOK
  <2>1. /\ buf \in [1 .. Parts -> Contents] /\ line \in [1 .. Parts -> Contents]
        /\ sem2 \in 0 .. MaxPosts /\ written \in 0 .. MaxItems /\ at \in 0 .. Parts
        /\ ring \in Seq(Blocks \union Attributes)
        /\ samples \in Blocks \union {Zero} /\ held \in 0 .. Slots
        /\ held + Len(ring) <= Slots
    BY DEF Contents, Whole
  <2>2. /\ txFlag \in BOOLEAN /\ allocated \in BOOLEAN /\ mcbsp \in BOOLEAN
        /\ stray \in BOOLEAN /\ late \in BOOLEAN /\ leftover \in BOOLEAN /\ aired \in BOOLEAN
    BY Zenon
  <2> QED BY <2>1, <2>2 DEF TypeOK
<1>2. Scheduling /\ Writing /\ Quiet /\ Sending /\ QuietWhenReceiving
  BY DEF Scheduling, Writing, Quiet, Sending, QuietWhenReceiving
<1>3. Ordered /\ Asked
  BY DEF Ordered, Asked, Zero
<1> QED BY <1>1, <1>2, <1>3 DEF Inv

\* Every step keeps the types; a release takes a block that is there.
LEMMA TypeKept ==
    ASSUME TypeOK, Ordered, [Next]_vars
    PROVE  TypeOK'
<1> USE TransmitAssumption
    DEF TypeOK, Ordered, Blocks, Contents, Zero, Silence, Para, Whole,
        buffers, pipe, taskVars, mainVars, taskRest, ringRest, mainRest, armRest,
        Has, Keep, Yield, WritePart, Pend, Receive
<1>1. CASE McbspStart  BY <1>1 DEF McbspStart
<1>2. CASE Output  BY <1>2 DEF Output
<1>3. CASE ReceiveStart  BY <1>3 DEF ReceiveStart
<1>4. CASE ReceiveBlock
  <2>1. /\ running' = "none" /\ late' \in BOOLEAN
        /\ UNCHANGED <<txFlag, sem2, allocated, mcbsp, buf, line, ring, written,
                       receive, samples, held, smain, command, at, stray,
                       leftover, aired>>
    BY <1>4 DEF ReceiveBlock
  <2> QED BY <2>1
<1>5. CASE AcquireBlock  BY <1>5 DEF AcquireBlock
<1>6. CASE AcquireAttribute  BY <1>6 DEF AcquireAttribute
<1>7. CASE AcquireEmpty  BY <1>7 DEF AcquireEmpty
<1>23. CASE AcquireRefused  BY <1>23 DEF AcquireRefused
<1>24. CASE AttributeStays  BY <1>24 DEF AttributeStays
<1>8. CASE Convert  BY <1>8 DEF Convert
<1>9. CASE Release
  <2>1. held' \in 0 .. Slots /\ held' <= held
    BY <1>9 DEF Release
  <2>2. /\ receive' = "pend" /\ at' = 0
        /\ UNCHANGED <<running, txFlag, sem2, allocated, mcbsp, buf, line, ring,
                       written, samples, smain, command, stray, late, leftover,
                       aired>>
    BY <1>9 DEF Release
  <2>3. held' + Len(ring') <= Slots /\ at' \in 0 .. Parts
    BY <2>1, <2>2
  <2> QED BY <2>1, <2>2, <2>3
<1>10. CASE ReceiveExit  BY <1>10 DEF ReceiveExit
<1>11. CASE NoMessage  BY <1>11 DEF NoMessage
<1>12. CASE TxSwitch
  <2>1. /\ running' = "none" /\ command' = "none" /\ txFlag' \in BOOLEAN /\ leftover' \in BOOLEAN
        /\ UNCHANGED <<sem2, allocated, mcbsp, buf, line, ring, written, receive,
                       samples, held, smain, at, stray, late, aired>>
    BY <1>12 DEF TxSwitch
  <2> QED BY <2>1
<1>13. CASE RxSwitch
  <2>1. /\ running' = "smain" /\ smain' = "silence" /\ command' = "none"
        /\ txFlag' = FALSE /\ leftover' \in BOOLEAN
        /\ UNCHANGED <<sem2, allocated, mcbsp, buf, line, ring, written, at,
                       receive, samples, held, stray, late, aired>>
    BY <1>13 DEF RxSwitch
  <2> QED BY <2>1
<1>14. CASE ChannelBegin
  <2>1. /\ running' = "smain" /\ smain' = "para" /\ command' = "none" /\ aired' \in BOOLEAN
        /\ UNCHANGED <<txFlag, sem2, allocated, mcbsp, buf, line, ring, written,
                       receive, samples, held, at, stray, late, leftover>>
    BY <1>14 DEF ChannelBegin
  <2> QED BY <2>1
<1>15. CASE ChannelPara  BY <1>15 DEF ChannelPara
<1>16. CASE ChannelSleep  BY <1>16 DEF ChannelSleep
<1>17. CASE ChannelWake  BY <1>17 DEF ChannelWake
<1>18. CASE FillSilence  BY <1>18 DEF FillSilence
<1>19. CASE Silenced
  <2>1. /\ running' = "none" /\ smain' = "poll" /\ at' = 0 /\ stray' = FALSE
        /\ aired' = FALSE
        /\ UNCHANGED <<txFlag, sem2, allocated, mcbsp, buf, line, ring, written,
                       receive, samples, held, command, late, leftover>>
    BY <1>19 DEF Silenced
  <2>2. stray' \in BOOLEAN /\ aired' \in BOOLEAN
    BY <2>1, Zenon
  <2>3. at' \in 0 .. Parts
    BY <2>1
  <2> QED BY <2>1, <2>2, <2>3
<1>20. CASE ArmCommands  BY <1>20 DEF ArmCommands
<1>21. CASE ArmWrites  BY <1>21 DEF ArmWrites
<1>22. CASE UNCHANGED vars  BY <1>22 DEF vars
<1> QED BY <1>1, <1>2, <1>3, <1>4, <1>5, <1>6, <1>7, <1>8, <1>9, <1>10, <1>11,
           <1>12, <1>13, <1>14, <1>15, <1>16, <1>17, <1>18, <1>19, <1>20, <1>21, <1>22,
           <1>23, <1>24
        DEF Next, TaskReceive, Smain

\* The processor changes hands only where a task blocks.
LEMMA SchedulingKept ==
    ASSUME TypeOK, Scheduling, [Next]_vars
    PROVE  Scheduling'
<1> USE TransmitAssumption
    DEF TypeOK, Scheduling, Whole,
        buffers, pipe, taskVars, mainVars, taskRest, ringRest, mainRest, armRest,
        Has, Keep, Yield, WritePart, Pend, Receive
<1>1. CASE McbspStart  BY <1>1 DEF McbspStart
<1>2. CASE Output  BY <1>2 DEF Output
<1>3. CASE ReceiveStart  BY <1>3 DEF ReceiveStart
<1>4. CASE ReceiveBlock  BY <1>4 DEF ReceiveBlock
<1>5. CASE AcquireBlock  BY <1>5 DEF AcquireBlock
<1>6. CASE AcquireAttribute  BY <1>6 DEF AcquireAttribute
<1>7. CASE AcquireEmpty  BY <1>7 DEF AcquireEmpty
<1>23. CASE AcquireRefused  BY <1>23 DEF AcquireRefused
<1>24. CASE AttributeStays  BY <1>24 DEF AttributeStays
<1>8. CASE Convert  BY <1>8 DEF Convert
<1>9. CASE Release  BY <1>9 DEF Release
<1>10. CASE ReceiveExit  BY <1>10 DEF ReceiveExit
<1>11. CASE NoMessage  BY <1>11 DEF NoMessage
<1>12. CASE TxSwitch  BY <1>12 DEF TxSwitch
<1>13. CASE RxSwitch  BY <1>13 DEF RxSwitch
<1>14. CASE ChannelBegin  BY <1>14 DEF ChannelBegin
<1>15. CASE ChannelPara  BY <1>15 DEF ChannelPara
<1>16. CASE ChannelSleep  BY <1>16 DEF ChannelSleep
<1>17. CASE ChannelWake  BY <1>17 DEF ChannelWake
<1>18. CASE FillSilence  BY <1>18 DEF FillSilence
<1>19. CASE Silenced  BY <1>19 DEF Silenced
<1>20. CASE ArmCommands  BY <1>20 DEF ArmCommands
<1>21. CASE ArmWrites  BY <1>21 DEF ArmWrites
<1>22. CASE UNCHANGED vars  BY <1>22 DEF vars
<1> QED BY <1>1, <1>2, <1>3, <1>4, <1>5, <1>6, <1>7, <1>8, <1>9, <1>10, <1>11,
           <1>12, <1>13, <1>14, <1>15, <1>16, <1>17, <1>18, <1>19, <1>20, <1>21, <1>22,
           <1>23, <1>24
        DEF Next, TaskReceive, Smain

\* Only transmitting posts sem2.
LEMMA QuietKept ==
    ASSUME TypeOK, Scheduling, Quiet, [Next]_vars
    PROVE  Quiet'
<1> USE TransmitAssumption
    DEF TypeOK, Scheduling, Quiet,
        buffers, pipe, taskVars, mainVars, taskRest, ringRest, mainRest, armRest,
        Has, Keep, Yield, WritePart, Pend, Receive
<1>1. CASE McbspStart  BY <1>1 DEF McbspStart
<1>2. CASE Output  BY <1>2 DEF Output
<1>3. CASE ReceiveStart  BY <1>3 DEF ReceiveStart
<1>4. CASE ReceiveBlock  BY <1>4 DEF ReceiveBlock
<1>5. CASE AcquireBlock  BY <1>5 DEF AcquireBlock
<1>6. CASE AcquireAttribute  BY <1>6 DEF AcquireAttribute
<1>7. CASE AcquireEmpty  BY <1>7 DEF AcquireEmpty
<1>23. CASE AcquireRefused  BY <1>23 DEF AcquireRefused
<1>24. CASE AttributeStays  BY <1>24 DEF AttributeStays
<1>8. CASE Convert  BY <1>8 DEF Convert
<1>9. CASE Release  BY <1>9 DEF Release
<1>10. CASE ReceiveExit  BY <1>10 DEF ReceiveExit
<1>11. CASE NoMessage  BY <1>11 DEF NoMessage
<1>12. CASE TxSwitch  BY <1>12 DEF TxSwitch
<1>13. CASE RxSwitch  BY <1>13 DEF RxSwitch
<1>14. CASE ChannelBegin  BY <1>14 DEF ChannelBegin
<1>15. CASE ChannelPara  BY <1>15 DEF ChannelPara
<1>16. CASE ChannelSleep  BY <1>16 DEF ChannelSleep
<1>17. CASE ChannelWake  BY <1>17 DEF ChannelWake
<1>18. CASE FillSilence  BY <1>18 DEF FillSilence
<1>19. CASE Silenced  BY <1>19 DEF Silenced
<1>20. CASE ArmCommands  BY <1>20 DEF ArmCommands
<1>21. CASE ArmWrites  BY <1>21 DEF ArmWrites
<1>22. CASE UNCHANGED vars  BY <1>22 DEF vars
<1> QED BY <1>1, <1>2, <1>3, <1>4, <1>5, <1>6, <1>7, <1>8, <1>9, <1>10, <1>11,
           <1>12, <1>13, <1>14, <1>15, <1>16, <1>17, <1>18, <1>19, <1>20, <1>21, <1>22,
           <1>23, <1>24
        DEF Next, TaskReceive, Smain

\* No other task writes while one does.
LEMMA WritingKept ==
    ASSUME TypeOK, Scheduling, Writing, [Next]_vars
    PROVE  Writing'
<1> USE TransmitAssumption
    DEF TypeOK, Scheduling, Writing,
        buffers, pipe, taskVars, mainVars, taskRest, ringRest, mainRest, armRest,
        Has, Keep, Yield, WritePart, Pend, Receive
<1>1. CASE McbspStart  BY <1>1 DEF McbspStart
<1>2. CASE Output  BY <1>2 DEF Output
<1>3. CASE ReceiveStart  BY <1>3 DEF ReceiveStart
<1>4. CASE ReceiveBlock  BY <1>4 DEF ReceiveBlock
<1>5. CASE AcquireBlock  BY <1>5 DEF AcquireBlock
<1>6. CASE AcquireAttribute  BY <1>6 DEF AcquireAttribute
<1>7. CASE AcquireEmpty  BY <1>7 DEF AcquireEmpty
<1>23. CASE AcquireRefused  BY <1>23 DEF AcquireRefused
<1>24. CASE AttributeStays  BY <1>24 DEF AttributeStays
<1>8. CASE Convert  BY <1>8 DEF Convert
<1>9. CASE Release  BY <1>9 DEF Release
<1>10. CASE ReceiveExit  BY <1>10 DEF ReceiveExit
<1>11. CASE NoMessage  BY <1>11 DEF NoMessage
<1>12. CASE TxSwitch  BY <1>12 DEF TxSwitch
<1>13. CASE RxSwitch  BY <1>13 DEF RxSwitch
<1>14. CASE ChannelBegin  BY <1>14 DEF ChannelBegin
<1>15. CASE ChannelPara
  <2>1. CASE allocated
    BY <1>15, <2>1 DEF ChannelPara
  <2>2. CASE ~allocated
    BY <1>15, <2>2 DEF ChannelPara
  <2> QED BY <2>1, <2>2
<1>16. CASE ChannelSleep  BY <1>16 DEF ChannelSleep
<1>17. CASE ChannelWake  BY <1>17 DEF ChannelWake
<1>18. CASE FillSilence  BY <1>18 DEF FillSilence
<1>19. CASE Silenced  BY <1>19 DEF Silenced
<1>20. CASE ArmCommands  BY <1>20 DEF ArmCommands
<1>21. CASE ArmWrites  BY <1>21 DEF ArmWrites
<1>22. CASE UNCHANGED vars  BY <1>22 DEF vars
<1> QED BY <1>1, <1>2, <1>3, <1>4, <1>5, <1>6, <1>7, <1>8, <1>9, <1>10, <1>11,
           <1>12, <1>13, <1>14, <1>15, <1>16, <1>17, <1>18, <1>19, <1>20, <1>21, <1>22,
           <1>23, <1>24
        DEF Next, TaskReceive, Smain

\* The parameters stay where the interrupt takes them from.
LEMMA SendingKept ==
    ASSUME TypeOK, Scheduling, Writing, Quiet, Sending, [Next]_vars
    PROVE  Sending'
<1> USE TransmitAssumption
    DEF TypeOK, Scheduling, Writing, Quiet, Sending,
        buffers, pipe, taskVars, mainVars, taskRest, ringRest, mainRest, armRest,
        Has, Keep, Yield, WritePart, Pend, Receive
<1>1. CASE McbspStart  BY <1>1 DEF McbspStart
<1>2. CASE Output  BY <1>2 DEF Output
<1>3. CASE ReceiveStart  BY <1>3 DEF ReceiveStart
<1>4. CASE ReceiveBlock  BY <1>4 DEF ReceiveBlock
<1>5. CASE AcquireBlock  BY <1>5 DEF AcquireBlock
<1>6. CASE AcquireAttribute  BY <1>6 DEF AcquireAttribute
<1>7. CASE AcquireEmpty  BY <1>7 DEF AcquireEmpty
<1>23. CASE AcquireRefused  BY <1>23 DEF AcquireRefused
<1>24. CASE AttributeStays  BY <1>24 DEF AttributeStays
<1>8. CASE Convert  BY <1>8 DEF Convert
<1>9. CASE Release  BY <1>9 DEF Release
<1>10. CASE ReceiveExit  BY <1>10 DEF ReceiveExit
<1>11. CASE NoMessage  BY <1>11 DEF NoMessage
<1>12. CASE TxSwitch  BY <1>12 DEF TxSwitch
<1>13. CASE RxSwitch  BY <1>13 DEF RxSwitch
<1>14. CASE ChannelBegin  BY <1>14 DEF ChannelBegin
<1>15. CASE ChannelPara  BY <1>15 DEF ChannelPara
<1>16. CASE ChannelSleep  BY <1>16 DEF ChannelSleep
<1>17. CASE ChannelWake  BY <1>17 DEF ChannelWake
<1>18. CASE FillSilence  BY <1>18 DEF FillSilence
<1>19. CASE Silenced  BY <1>19 DEF Silenced
<1>20. CASE ArmCommands  BY <1>20 DEF ArmCommands
<1>21. CASE ArmWrites  BY <1>21 DEF ArmWrites
<1>22. CASE UNCHANGED vars  BY <1>22 DEF vars
<1> QED BY <1>1, <1>2, <1>3, <1>4, <1>5, <1>6, <1>7, <1>8, <1>9, <1>10, <1>11,
           <1>12, <1>13, <1>14, <1>15, <1>16, <1>17, <1>18, <1>19, <1>20, <1>21, <1>22,
           <1>23, <1>24
        DEF Next, TaskReceive, Smain

\* Silence is written whole and stays.
LEMMA SilenceKept ==
    ASSUME TypeOK, Scheduling, Writing, Quiet,
           QuietWhenReceiving, [Next]_vars
    PROVE  QuietWhenReceiving'
<1> USE TransmitAssumption
    DEF TypeOK, Scheduling, Writing, Quiet, QuietWhenReceiving, Whole,
        buffers, pipe, taskVars, mainVars, taskRest, ringRest, mainRest, armRest,
        Has, Keep, Yield, WritePart, Pend, Receive
<1>1. CASE McbspStart  BY <1>1 DEF McbspStart
<1>2. CASE Output  BY <1>2 DEF Output
<1>3. CASE ReceiveStart  BY <1>3 DEF ReceiveStart
<1>4. CASE ReceiveBlock  BY <1>4 DEF ReceiveBlock
<1>5. CASE AcquireBlock  BY <1>5 DEF AcquireBlock
<1>6. CASE AcquireAttribute  BY <1>6 DEF AcquireAttribute
<1>7. CASE AcquireEmpty  BY <1>7 DEF AcquireEmpty
<1>23. CASE AcquireRefused  BY <1>23 DEF AcquireRefused
<1>24. CASE AttributeStays  BY <1>24 DEF AttributeStays
<1>8. CASE Convert  BY <1>8 DEF Convert
<1>9. CASE Release  BY <1>9 DEF Release
<1>10. CASE ReceiveExit  BY <1>10 DEF ReceiveExit
<1>11. CASE NoMessage  BY <1>11 DEF NoMessage
<1>12. CASE TxSwitch  BY <1>12 DEF TxSwitch
<1>13. CASE RxSwitch  BY <1>13 DEF RxSwitch
<1>14. CASE ChannelBegin  BY <1>14 DEF ChannelBegin
<1>15. CASE ChannelPara  BY <1>15 DEF ChannelPara
<1>16. CASE ChannelSleep  BY <1>16 DEF ChannelSleep
<1>17. CASE ChannelWake  BY <1>17 DEF ChannelWake
<1>18. CASE FillSilence  BY <1>18 DEF FillSilence
<1>19. CASE Silenced  BY <1>19 DEF Silenced
<1>20. CASE ArmCommands  BY <1>20 DEF ArmCommands
<1>21. CASE ArmWrites  BY <1>21 DEF ArmWrites
<1>22. CASE UNCHANGED vars  BY <1>22 DEF vars
<1> QED BY <1>1, <1>2, <1>3, <1>4, <1>5, <1>6, <1>7, <1>8, <1>9, <1>10, <1>11,
           <1>12, <1>13, <1>14, <1>15, <1>16, <1>17, <1>18, <1>19, <1>20, <1>21, <1>22,
           <1>23, <1>24
        DEF Next, TaskReceive, Smain

\* What is left of the pipe when its first item is taken.
LEMMA Shorter ==
    ASSUME TypeOK, ring # <<>>
    PROVE  /\ DOMAIN Tail(ring) \subseteq Nat
           /\ \A i \in DOMAIN Tail(ring) :
                  Tail(ring)[i] = ring[i + 1] /\ i + 1 \in DOMAIN ring /\ i + 1 > 1
           /\ \A i, j \in DOMAIN Tail(ring) : i < j => i + 1 < j + 1
BY DEF TypeOK

\* Blocks are taken in order.
LEMMA OrderedKept ==
    ASSUME TypeOK, Scheduling, Ordered, [Next]_vars
    PROVE  Ordered'
<1> USE TransmitAssumption
    DEF TypeOK, Scheduling, Ordered, Blocks, Zero, End, Fixed, Variable,
        buffers, pipe, taskVars, mainVars, taskRest, ringRest, mainRest, armRest,
        Has, Keep, Yield, WritePart, Pend, Receive
<1>1. CASE McbspStart  BY <1>1 DEF McbspStart
<1>2. CASE Output  BY <1>2 DEF Output
<1>3. CASE ReceiveStart  BY <1>3 DEF ReceiveStart
<1>4. CASE ReceiveBlock  BY <1>4 DEF ReceiveBlock
<1>5. CASE AcquireBlock
  <2>1. /\ ring # <<>> /\ ring' = Tail(ring) /\ written' = written
        /\ samples' = Head(ring) /\ Head(ring) \in Blocks
    BY <1>5 DEF AcquireBlock
  <2>2. /\ 1 \in DOMAIN ring /\ samples' = ring[1] /\ ring[1] \in Blocks
        /\ samples' <= written'
    BY <2>1
  <2>3. \A i \in DOMAIN ring : ring[i] \in Blocks /\ i > 1 => ring[i] > samples'
    BY <2>2
  <2> QED BY <2>1, <2>2, <2>3, Shorter
<1>6. CASE AcquireAttribute
  <2>1. /\ ring # <<>> /\ ring' = Tail(ring) /\ samples' = samples
        /\ written' = written
    BY <1>6 DEF AcquireAttribute
  <2> QED BY <2>1, Shorter
<1>7. CASE AcquireEmpty  BY <1>7 DEF AcquireEmpty
<1>23. CASE AcquireRefused  BY <1>23 DEF AcquireRefused
<1>24. CASE AttributeStays  BY <1>24 DEF AttributeStays
<1>8. CASE Convert  BY <1>8 DEF Convert
<1>9. CASE Release  BY <1>9 DEF Release
<1>10. CASE ReceiveExit  BY <1>10 DEF ReceiveExit
<1>11. CASE NoMessage  BY <1>11 DEF NoMessage
<1>12. CASE TxSwitch  BY <1>12 DEF TxSwitch
<1>13. CASE RxSwitch  BY <1>13 DEF RxSwitch
<1>14. CASE ChannelBegin  BY <1>14 DEF ChannelBegin
<1>15. CASE ChannelPara  BY <1>15 DEF ChannelPara
<1>16. CASE ChannelSleep  BY <1>16 DEF ChannelSleep
<1>17. CASE ChannelWake  BY <1>17 DEF ChannelWake
<1>18. CASE FillSilence  BY <1>18 DEF FillSilence
<1>19. CASE Silenced  BY <1>19 DEF Silenced
<1>20. CASE ArmCommands  BY <1>20 DEF ArmCommands
<1>21. CASE ArmWrites  BY <1>21, SMTT(30) DEF ArmWrites
<1>22. CASE UNCHANGED vars  BY <1>22 DEF vars
<1> QED BY <1>1, <1>2, <1>3, <1>4, <1>5, <1>6, <1>7, <1>8, <1>9, <1>10, <1>11,
           <1>12, <1>13, <1>14, <1>15, <1>16, <1>17, <1>18, <1>19, <1>20, <1>21, <1>22,
           <1>23, <1>24
        DEF Next, TaskReceive, Smain

\* What was on the line when a block was asked for stays there until it is taken.
LEMMA AskedKept ==
    ASSUME TypeOK, Scheduling, Asked, [Next]_vars
    PROVE  Asked'
<1> USE TransmitAssumption
    DEF TypeOK, Scheduling, Asked, Blocks, Whole, Zero, Silence, Para,
        buffers, pipe, taskVars, mainVars, taskRest, ringRest, mainRest, armRest,
        Has, Keep, Yield, WritePart, Pend, Receive
<1>1. CASE McbspStart  BY <1>1 DEF McbspStart
<1>2. CASE Output  BY <1>2 DEF Output
<1>3. CASE ReceiveStart  BY <1>3 DEF ReceiveStart
<1>4. CASE ReceiveBlock  BY <1>4 DEF ReceiveBlock
<1>5. CASE AcquireBlock  BY <1>5 DEF AcquireBlock
<1>6. CASE AcquireAttribute  BY <1>6 DEF AcquireAttribute
<1>7. CASE AcquireEmpty  BY <1>7 DEF AcquireEmpty
<1>23. CASE AcquireRefused  BY <1>23 DEF AcquireRefused
<1>24. CASE AttributeStays  BY <1>24 DEF AttributeStays
<1>8. CASE Convert  BY <1>8 DEF Convert
<1>9. CASE Release  BY <1>9 DEF Release
<1>10. CASE ReceiveExit  BY <1>10 DEF ReceiveExit
<1>11. CASE NoMessage  BY <1>11 DEF NoMessage
<1>12. CASE TxSwitch  BY <1>12 DEF TxSwitch
<1>13. CASE RxSwitch  BY <1>13 DEF RxSwitch
<1>14. CASE ChannelBegin  BY <1>14 DEF ChannelBegin
<1>15. CASE ChannelPara
  <2>1. /\ UNCHANGED <<mcbsp, sem2, late, receive, line>>
        /\ at + 1 \in 1 .. Parts
    BY <1>15 DEF ChannelPara
  <2>2. CASE ~allocated
    BY <1>15, <2>1, <2>2 DEF ChannelPara
  <2>3. CASE allocated
    <3>1. buf' \in [1 .. Parts -> Contents] /\ buf'[at + 1] = Para
      BY <1>15, <2>1, <2>3 DEF ChannelPara, Contents
    <3>2. \A b \in Blocks : buf' # Whole(b)
      BY <2>1, <3>1
    <3> QED BY <2>1, <3>2
  <2> QED BY <2>2, <2>3
<1>16. CASE ChannelSleep  BY <1>16 DEF ChannelSleep
<1>17. CASE ChannelWake  BY <1>17 DEF ChannelWake
<1>18. CASE FillSilence
  <2>1. /\ UNCHANGED <<mcbsp, sem2, late, receive, line>>
        /\ at + 1 \in 1 .. Parts
    BY <1>18 DEF FillSilence
  <2>2. CASE ~allocated
    BY <1>18, <2>1, <2>2 DEF FillSilence
  <2>3. CASE allocated
    <3>1. buf' \in [1 .. Parts -> Contents] /\ buf'[at + 1] = Silence
      BY <1>18, <2>1, <2>3 DEF FillSilence, Contents
    <3>2. \A b \in Blocks : buf' # Whole(b)
      BY <2>1, <3>1
    <3> QED BY <2>1, <3>2
  <2> QED BY <2>2, <2>3
<1>19. CASE Silenced  BY <1>19 DEF Silenced
<1>20. CASE ArmCommands  BY <1>20 DEF ArmCommands
<1>21. CASE ArmWrites  BY <1>21 DEF ArmWrites
<1>22. CASE UNCHANGED vars  BY <1>22 DEF vars
<1> QED BY <1>1, <1>2, <1>3, <1>4, <1>5, <1>6, <1>7, <1>8, <1>9, <1>10, <1>11,
           <1>12, <1>13, <1>14, <1>15, <1>16, <1>17, <1>18, <1>19, <1>20, <1>21, <1>22,
           <1>23, <1>24
        DEF Next, TaskReceive, Smain
-----------------------------------------------------------------------------
LEMMA InvAlways == Spec => []Inv
<1>1. Inv /\ [Next]_vars => Inv'
  BY TypeKept, SchedulingKept, QuietKept, WritingKept, SendingKept, SilenceKept,
     OrderedKept, AskedKept DEF Inv
<1> QED BY <1>1, InitInv, PTL DEF Spec

\* Every variable of the transmit path keeps its type.
THEOREM TypeCorrect == Spec => []TypeOK
<1>1. Inv => TypeOK
  BY DEF Inv
<1> QED BY <1>1, InvAlways, PTL

\* The line is silent while the DSP receives, whatever the interrupt and the tasks
\* were doing at the switch, unless posts were left.
THEOREM SilentAlways == Spec => []QuietWhenReceiving
<1>1. Inv => QuietWhenReceiving
  BY DEF Inv
<1> QED BY <1>1, InvAlways, PTL

\* Parameters of a channel that were written before an interrupt of the 10 ms
\* sleep are on the line, all of them.
THEOREM SentAlways == Spec => []ParametersSent
<1>1. Inv => ParametersSent
  BY DEF Inv, Sending, ParametersSent
<1> QED BY <1>1, InvAlways, PTL

\* A conversion begins where task_receive finds a block or an attribute.
LEMMA Conversion ==
    ASSUME Inv, [Next]_vars, receive = "pend", receive' = "convert"
    PROVE  AcquireBlock \/ AcquireAttribute \/ AttributeStays
BY DEF Next, TaskReceive, Smain, McbspStart, Output, ReceiveStart, ReceiveBlock,
   AcquireEmpty, AcquireRefused, Convert, Release, ReceiveExit, NoMessage, TxSwitch, RxSwitch,
   ChannelBegin, ChannelPara, ChannelSleep, ChannelWake, FillSilence, Silenced,
   ArmCommands, ArmWrites, armRest, mainRest, taskVars, vars

\* As long as no interrupt was late, no block is replaced that was not on the line.
THEOREM NeverSkipped == Spec => NothingSkipped
<1> DEFINE Step == ~late /\ receive = "pend" /\ receive' = "convert" =>
                      \A b \in Blocks : buf = Whole(b) => line = buf
<1>1. Inv /\ [Next]_vars => [Step]_vars
  <2> SUFFICES ASSUME Inv, [Next]_vars, ~late, receive = "pend", receive' = "convert"
               PROVE  \A b \in Blocks : buf = Whole(b) => line = buf
    OBVIOUS
  <2>1. sem2 > 0
    BY Conversion DEF AcquireBlock, AcquireAttribute, AttributeStays, Pend
  <2> QED BY <2>1 DEF Inv, Asked
<1> QED BY <1>1, InvAlways, PTL DEF Spec, NothingSkipped

\* What is converted is a block that was not converted before, except at an
\* attribute; at one that ends the flow only where another follows or it stays.
THEOREM RepeatedOnlyByAttribute == Spec => RepeatedByAttribute
<1> DEFINE Step == receive = "pend" /\ receive' = "convert" /\ samples' = samples =>
                      /\ ring # <<>> /\ Head(ring) \in Attributes
                      /\ Head(ring) = End => ~EndSeen \/ ring' = ring
<1>1. Inv /\ [Next]_vars => [Step]_vars
  <2> SUFFICES ASSUME Inv, [Next]_vars, receive = "pend", receive' = "convert",
                      samples' = samples
               PROVE  Step
    OBVIOUS
  <2>1. CASE AcquireBlock
    <3>1. /\ ring # <<>> /\ ring \in Seq(Blocks \union Attributes)
          /\ Head(ring) \in Blocks /\ Head(ring) = samples
      BY <2>1 DEF AcquireBlock, Inv, TypeOK
    <3>2. 1 \in DOMAIN ring /\ ring[1] = samples /\ ring[1] \in Blocks
      BY <3>1
    <3>3. samples \in Int
      BY <3>1 DEF Blocks
    <3> QED BY <3>2, <3>3 DEF Inv, Ordered
  <2>2. CASE AcquireAttribute
    BY <2>2 DEF AcquireAttribute
  <2>3. CASE AttributeStays
    BY <2>3 DEF AttributeStays, taskRest
  <2> QED BY <2>1, <2>2, <2>3, Conversion
<1> QED BY <1>1, InvAlways, PTL DEF Spec, RepeatedByAttribute
=============================================================================
