----------------------------- MODULE BoundedFifo -----------------------------
(***************************************************************************)
(* What the sample queue between task_enque and audioSignalRX promises: a  *)
(* first-in first-out queue of at most Size samples that refuses a sample  *)
(* when it is full and can be emptied at once.                             *)
(***************************************************************************)
EXTENDS Naturals, Sequences

CONSTANTS Sample, Size

VARIABLE content

Init == content = <<>>

Put(d) == Len(content) < Size /\ content' = Append(content, d)

Get == content # <<>> /\ content' = Tail(content)

Flush == content' = <<>>

Next == (\E d \in Sample : Put(d)) \/ Get \/ Flush

Spec == Init /\ [][Next]_content
=============================================================================
