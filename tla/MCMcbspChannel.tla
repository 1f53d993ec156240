--------------------------- MODULE MCMcbspChannel ---------------------------
(***************************************************************************)
(* Model-checking instance of McbspChannel: three client buffers, one more *)
(* than the EDMA has link sets, so that the pending list is used.          *)
(*                                                                         *)
(* SpecAll runs a channel of either direction, as the .cfg gives Mode or   *)
(* as an input channel, or the firmware's client with its single frames.   *)
(***************************************************************************)
EXTENDS McbspChannel, TLC

CONSTANTS f1, f2, f3

VARIABLES direction, list, count, linkSet, playing, sets, raised, done, submits, task

\* History: the client's buffers the EDMA played since they were submitted.
VARIABLE played

Input == INSTANCE McbspChannel WITH Mode <- "INPUT", Controls <- Controls \ {"MUTE", "RATE"}
Single == INSTANCE SingleFrame

\* The three buffers are interchangeable.
Symmetry == Permutations({f1, f2, f3})

frameVars == <<list, count, linkSet, playing, sets, raised, done, submits, task>>
allVars == <<vars, frameVars, direction, played>>

\* Those the end of the set being played adds: a muted set plays the mute buffer for
\* the buffer it was loaded with, which is then any of the client's.
Finished == IF xfer.addr = MuteBuf THEN held ELSE {xfer.addr} \cap held

PlayedNext ==
    played' = (IF late' > late THEN played \union Finished ELSE played) \cap held'

InitOne == Init /\ Single!Init /\ direction = Mode /\ played = {}
NextOne == Next /\ PlayedNext /\ UNCHANGED <<direction, frameVars>>
FairOne == InitOne /\ [][NextOne]_allVars /\ Fairness
SpecOne == InitOne /\ [][NextOne]_allVars

InitAll == Init /\ Single!Init /\ direction \in {Mode, "INPUT", "single"} /\ played = {}
NextAll ==
    /\ UNCHANGED <<direction, played>>
    /\ \/ direction = Mode /\ Next /\ UNCHANGED frameVars
       \/ direction = "INPUT" /\ Input!Next /\ UNCHANGED frameVars
       \/ direction = "single" /\ Single!Next /\ UNCHANGED vars

SpecAll == InitAll /\ [][NextAll]_allVars

\* Every completion of the firmware's frames calls the application's handler.
HandlerCalled == Single!HandlerCalled

\* Submitted twice, the firmware's frames keep the loop job off the line.
NeverBackToLoop == Single!NeverBackToLoop

\* A buffer an output channel reports COMPLETED is not the one the EDMA is on.
OutputCompletedIsIdle == direction = "OUTPUT" => CompletedIsIdle

\* What an output channel reports as completed has been played since the client
\* submitted it: an interrupt raised before an abort, or while RESUME moves buffers
\* from list to list, never speaks for a buffer handed over since (mcbsp_edma.c:265).
CompletedWasPlayed ==
    [][report' # report /\ report'.status = "COMPLETED" => report'.buf \in played]_allVars

\* In a channel that is not paused, two buffers left alone are reported again and
\* again, muted or not.
StreamsUnlessPaused == [](~paused) => Streams
=============================================================================
