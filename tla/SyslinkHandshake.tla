-------------------------- MODULE SyslinkHandshake --------------------------
(***************************************************************************)
(* How the two processors bring the SysLink resources up and take them     *)
(* down: syslink_prepare, the application's PREPARE exchange (smain) and   *)
(* syslink_cleanup.  Both processors run the same files, the ARM with      *)
(* SYSLINUX defined; the ARM's application is outside this repository and  *)
(* is assumed to make the same calls as smain.                             *)
(*                                                                         *)
(* The peers talk through the synchronizer: each has a message box the     *)
(* other one attaches, and messages come out of a heap the ARM creates.    *)
(***************************************************************************)
EXTENDS Naturals, Sequences

CONSTANT Faults   \* the stages that may fail or run out of retries

Stage == {"slk", "syncbuf", "syncbox", "attach", "msgq", "rpe", "wait", "app"}

ASSUME FaultsAssumption == Faults \subseteq Stage

Peer == {"ARM", "DSP"}

\* Messages of the 1 KB heap, a block of it being a cache line of 128 bytes.
HeapMessages == 8

OK   == {"MSGOK", "RPEOK", "NTFOK"}
OUT  == {"MSGOUT", "NTFOUT", "RPEOUT"}
Code == OK \union OUT \union {"PREPARE", "OUT0", "ACK0"}

\* What a peer can have up: the processor link, the synchronizer's heap, the
\* application's heaps, its message queues and its ring pipes.
Resource == {"slk", "syncbuf", "msgbuf", "msgq", "rpe"}

VARIABLES
    pc,      \* where each peer stands
    up,      \* the resources each peer holds
    open,    \* whether the peer's synchronizer box exists
    box,     \* the messages waiting in it
    got,     \* the codes collected by sync_waitfor_prepare or _cleanup
    ret,     \* what syslink_prepare returns: below zero is "error"
    lost     \* the codes sent to each peer's box when it did not exist

vars == <<pc, up, open, box, got, ret, lost>>

Closing == {"out0", "waitout0", "ack0", "waitack0", "close"}

Step == {"slk", "syncbuf", "syncbox", "attach", "giveup", "ntf", "msgq",
         "msgqattach", "rpe", "rpeopen", "waitprepare", "prepare", "waitforprepare",
         "running", "out", "waitcleanup", "rpecleanup", "msgqcleanup", "slkcleanup",
         "returned"} \union Closing

Remote(p) == IF p = "ARM" THEN "DSP" ELSE "ARM"

Init ==
    /\ pc = [p \in Peer |-> "slk"]
    /\ up = [p \in Peer |-> {}]
    /\ open = [p \in Peer |-> FALSE]
    /\ box = [p \in Peer |-> <<>>]
    /\ got = [p \in Peer |-> {}]
    /\ ret = [p \in Peer |-> "none"]
    /\ lost = [p \in Peer |-> {}]
-----------------------------------------------------------------------------
At(p, step) == pc[p] = step
Goto(p, step) == pc' = [pc EXCEPT ![p] = step]
Acquire(p, rs) == up' = [up EXCEPT ![p] = @ \union rs]
Release(p, rs) == up' = [up EXCEPT ![p] = @ \ rs]
Return(p, rc) == ret' = [ret EXCEPT ![p] = rc]

\* sync_send of the codes cs, in order, to the remote box.
Send(p, cs) ==
    IF open[Remote(p)]
    THEN box' = [box EXCEPT ![Remote(p)] = @ \o cs] /\ UNCHANGED lost
    ELSE /\ lost' = [lost EXCEPT ![Remote(p)] = @ \union {cs[i] : i \in DOMAIN cs}]
         /\ UNCHANGED box

\* sync_wait: the next message is taken out of the local box.
Receive(p, code) ==
    /\ box[p] # <<>>
    /\ code = Head(box[p])
    /\ box' = [box EXCEPT ![p] = Tail(@)]
-----------------------------------------------------------------------------
(***************************************************************************)
(* syslink_prepare.                                                        *)
(***************************************************************************)
SlkPrepare(p) ==
    /\ At(p, "slk")
    /\ \/ Goto(p, "syncbuf") /\ Acquire(p, {"slk"}) /\ UNCHANGED ret
       \/ /\ "slk" \in Faults
          /\ Goto(p, "returned") /\ Return(p, "error") /\ UNCHANGED up
    /\ UNCHANGED <<open, box, got, lost>>

\* sync_buf_init: the ARM creates the heap, the DSP retries until it exists.
SyncBufInit(p) ==
    /\ At(p, "syncbuf")
    /\ \/ /\ p = "DSP" => "syncbuf" \in up["ARM"]
          /\ Goto(p, "syncbox") /\ Acquire(p, {"syncbuf"}) /\ UNCHANGED ret
       \/ /\ "syncbuf" \in Faults
          /\ Goto(p, "slkcleanup") /\ Return(p, "error") /\ UNCHANGED up
    /\ UNCHANGED <<open, box, got, lost>>

\* msgq_init of the synchronizer; a failure leaves the heap behind.
SyncBoxCreate(p) ==
    /\ At(p, "syncbox")
    /\ \/ Goto(p, "attach") /\ open' = [open EXCEPT ![p] = TRUE] /\ UNCHANGED ret
       \/ /\ "syncbox" \in Faults
          /\ Goto(p, "slkcleanup") /\ Return(p, "error") /\ UNCHANGED open
    /\ UNCHANGED <<up, box, got, lost>>

\* messageq_msgbox_attach, retried until the remote box exists.
SyncAttach(p) ==
    /\ At(p, "attach")
    /\ \/ open[Remote(p)] /\ Goto(p, "ntf") /\ UNCHANGED ret
       \/ /\ "attach" \in Faults /\ ~open[Remote(p)]
          /\ Goto(p, "giveup") /\ Return(p, "error")
    /\ UNCHANGED <<up, open, box, got, lost>>

\* After the last retry the box is destroyed, not the heap: the remote peer
\* may have attached the box in between.
SyncGiveUp(p) ==
    /\ At(p, "giveup")
    /\ Goto(p, "slkcleanup")
    /\ open' = [open EXCEPT ![p] = FALSE]
    /\ UNCHANGED <<up, box, got, ret, lost>>

NotifierPrepare(p) ==
    /\ At(p, "ntf")
    /\ Goto(p, "msgq")
    /\ Send(p, <<"NTFOK">>)
    /\ UNCHANGED <<up, open, got, ret>>

\* msgq_prepare creates the heaps and the queues ...
MsgqCreate(p) ==
    /\ At(p, "msgq")
    /\ Goto(p, "msgqattach")
    /\ Acquire(p, {"msgbuf", "msgq"})
    /\ UNCHANGED <<open, box, got, ret, lost>>

\* ... and attaches the remote ones.  When none could be attached it returns
\* 0, syslink_prepare cleans up, without the heaps, and returns that 0.
MsgqAttach(p) ==
    /\ At(p, "msgqattach")
    /\ \/ /\ "msgq" \in up[Remote(p)]
          /\ Goto(p, "rpe") /\ Send(p, <<"MSGOK">>) /\ UNCHANGED <<up, ret>>
       \/ /\ "msgq" \in Faults
          /\ Goto(p, "out0") /\ Release(p, {"msgq"}) /\ Return(p, "ok")
          /\ UNCHANGED <<box, lost>>
    /\ UNCHANGED <<open, got>>

\* rpes_open: the writer's end first ...
RpeOpenWriter(p) ==
    /\ At(p, "rpe")
    /\ Goto(p, "rpeopen")
    /\ Acquire(p, {"rpe"})
    /\ UNCHANGED <<open, box, got, ret, lost>>

\* ... then the reader's end of the remote pipe.  A failure is counted and
\* rpe_prepare returns 0, which syslink_prepare hands on.
RpeOpenReader(p) ==
    /\ At(p, "rpeopen")
    /\ \/ /\ "rpe" \in up[Remote(p)]
          /\ Goto(p, "waitprepare") /\ Send(p, <<"RPEOK">>) /\ UNCHANGED <<up, ret>>
       \/ /\ "rpe" \in Faults
          /\ Goto(p, "msgqcleanup") /\ Release(p, {"rpe"}) /\ Return(p, "ok")
          /\ UNCHANGED <<box, lost>>
    /\ UNCHANGED <<open, got>>

\* Mutant: the flags are looked at before the code received is noted.
Collect_Late(p, wanted, next) ==
    \E code \in Code :
        /\ Receive(p, code)
        /\ IF got[p] = wanted
           THEN got' = [got EXCEPT ![p] = {}] /\ Goto(p, next)
           ELSE got' = [got EXCEPT ![p] = @ \union ({code} \intersect wanted)] /\ UNCHANGED pc

\* Mutant: a code that is not recognized is noted like the others.
Collect_Unchecked(p, wanted, next) ==
    \E code \in Code :
        /\ Receive(p, code)
        /\ IF got[p] \union {code} = wanted
           THEN got' = [got EXCEPT ![p] = {}] /\ Goto(p, next)
           ELSE got' = [got EXCEPT ![p] = @ \union {code}] /\ UNCHANGED pc

\* The loop of sync_waitfor_prepare and sync_waitfor_cleanup: a code it does
\* not know is dropped, the third one it does know ends it.
Collect(p, wanted, next) ==
    \E code \in Code :
        /\ Receive(p, code)
        /\ LET now == IF code \in wanted THEN got[p] \union {code} ELSE got[p]
           IN  IF now = wanted
               THEN got' = [got EXCEPT ![p] = {}] /\ Goto(p, next)
               ELSE got' = [got EXCEPT ![p] = now] /\ UNCHANGED pc

\* sync_waitfor_prepare; a wait that runs out returns with everything up.
WaitPrepare(p) ==
    /\ At(p, "waitprepare")
    /\ \/ /\ Collect(p, OK, "prepare")
          /\ IF pc'[p] = "prepare" THEN Return(p, "ok") ELSE UNCHANGED ret
       \/ /\ "wait" \in Faults /\ box[p] = <<>>
          /\ Goto(p, "returned") /\ Return(p, "error") /\ UNCHANGED <<box, got>>
    /\ UNCHANGED <<up, open, lost>>
-----------------------------------------------------------------------------
(***************************************************************************)
(* smain: the applications tell each other that they are ready.            *)
(***************************************************************************)

SendPrepare(p) ==
    /\ At(p, "prepare")
    /\ Goto(p, "waitforprepare")
    /\ Send(p, <<"PREPARE">>)
    /\ UNCHANGED <<up, open, got, ret>>

\* sync_wait_for drops every code but the one it waits for.
WaitFor(p, wanted, next) ==
    \E code \in Code :
        /\ Receive(p, code)
        /\ IF code = wanted THEN Goto(p, next) ELSE UNCHANGED pc

WaitForPrepare(p) ==
    /\ At(p, "waitforprepare")
    /\ WaitFor(p, "PREPARE", "running")
    /\ UNCHANGED <<up, open, got, ret, lost>>

\* The exchange fails, or the ARM's application ends: label cleanup of smain.
Leave(p) ==
    /\ "app" \in Faults
    /\ At(p, "prepare") \/ At(p, "waitforprepare") \/ (p = "ARM" /\ At(p, "running"))
    /\ Goto(p, "out")
    /\ UNCHANGED <<up, open, box, got, ret, lost>>

\* Mutant: MSGOUT is sent for each of the two message queues.
SendOut_PerQueue(p) ==
    /\ At(p, "out")
    /\ Goto(p, "waitcleanup")
    /\ Send(p, <<"MSGOUT", "MSGOUT", "NTFOUT", "RPEOUT">>)
    /\ UNCHANGED <<up, open, got, ret>>

SendOut(p) ==
    /\ At(p, "out")
    /\ Goto(p, "waitcleanup")
    /\ Send(p, <<"MSGOUT", "NTFOUT", "RPEOUT">>)
    /\ UNCHANGED <<up, open, got, ret>>
-----------------------------------------------------------------------------
(***************************************************************************)
(* syslink_cleanup, and the end of a failed syslink_prepare.               *)
(***************************************************************************)
\* Mutant: the result of sync_waitfor_cleanup is not looked at.
WaitCleanup_Ignore(p) ==
    /\ At(p, "waitcleanup")
    /\ \/ Collect(p, OUT, "rpecleanup")
       \/ /\ "wait" \in Faults /\ box[p] = <<>>
          /\ Goto(p, "rpecleanup") /\ UNCHANGED <<box, got>>
    /\ UNCHANGED <<up, open, ret, lost>>

WaitCleanup(p) ==
    /\ At(p, "waitcleanup")
    /\ \/ Collect(p, OUT, "rpecleanup")
       \/ /\ "wait" \in Faults /\ box[p] = <<>>
          /\ Goto(p, "returned") /\ UNCHANGED <<box, got>>
    /\ UNCHANGED <<up, open, ret, lost>>

RpeCleanup(p) ==
    /\ At(p, "rpecleanup")
    /\ Goto(p, "msgqcleanup") /\ Release(p, {"rpe"})
    /\ UNCHANGED <<open, box, got, ret, lost>>

MsgqCleanup(p) ==
    /\ At(p, "msgqcleanup")
    /\ Goto(p, "out0") /\ Release(p, {"msgq", "msgbuf"})
    /\ UNCHANGED <<open, box, got, ret, lost>>

\* sync_cleanup: both peers say OUT0, and only then ACK0.
SendOut0(p) ==
    /\ At(p, "out0")
    /\ Goto(p, "waitout0") /\ Send(p, <<"OUT0">>)
    /\ UNCHANGED <<up, open, got, ret>>

WaitOut0(p) ==
    /\ At(p, "waitout0")
    /\ WaitFor(p, "OUT0", "ack0")
    /\ UNCHANGED <<up, open, got, ret, lost>>

\* Mutant: the ACK0 is not sent.
SendAck0_Silent(p) ==
    /\ At(p, "ack0")
    /\ Goto(p, "waitack0")
    /\ UNCHANGED <<up, open, box, got, ret, lost>>

SendAck0(p) ==
    /\ At(p, "ack0")
    /\ Goto(p, "waitack0") /\ Send(p, <<"ACK0">>)
    /\ UNCHANGED <<up, open, got, ret>>

\* Mutant: the box is destroyed without waiting for the remote's ACK0.
WaitAck0_Skip(p) ==
    /\ At(p, "waitack0")
    /\ Goto(p, "close")
    /\ UNCHANGED <<up, open, box, got, ret, lost>>

WaitAck0(p) ==
    /\ At(p, "waitack0")
    /\ WaitFor(p, "ACK0", "close")
    /\ UNCHANGED <<up, open, got, ret, lost>>

SyncClose(p) ==
    /\ At(p, "close")
    /\ Goto(p, "slkcleanup") /\ Release(p, {"syncbuf"})
    /\ open' = [open EXCEPT ![p] = FALSE]
    /\ UNCHANGED <<box, got, ret, lost>>

\* After a failure that returned 0, smain goes on, but every use of the
\* destroyed synchronizer fails at once and smain ends too.
SlkCleanup(p) ==
    /\ At(p, "slkcleanup")
    /\ Goto(p, "returned") /\ Release(p, {"slk"})
    /\ UNCHANGED <<open, box, got, ret, lost>>
-----------------------------------------------------------------------------
Prepare(p) ==
    \/ SlkPrepare(p) \/ SyncBufInit(p) \/ SyncBoxCreate(p) \/ SyncAttach(p)
    \/ SyncGiveUp(p) \/ NotifierPrepare(p) \/ MsgqCreate(p) \/ MsgqAttach(p)
    \/ RpeOpenWriter(p) \/ RpeOpenReader(p) \/ WaitPrepare(p)

Cleanup(p) ==
    \/ WaitCleanup(p) \/ RpeCleanup(p) \/ MsgqCleanup(p)
    \/ SendOut0(p) \/ WaitOut0(p) \/ SendAck0(p) \/ WaitAck0(p)
    \/ SyncClose(p) \/ SlkCleanup(p)

Next ==
    \E p \in Peer :
        Prepare(p) \/ SendPrepare(p) \/ WaitForPrepare(p) \/ Leave(p) \/ SendOut(p)
        \/ Cleanup(p)

Spec == Init /\ [][Next]_vars

\* Each processor runs its one task; leaving is the application's choice.
Fairness ==
    \A p \in Peer :
        WF_vars(Prepare(p) \/ SendPrepare(p) \/ WaitForPrepare(p) \/ SendOut(p) \/ Cleanup(p))

FairSpec == Spec /\ Fairness
-----------------------------------------------------------------------------
TypeOK ==
    /\ pc \in [Peer -> Step] /\ up \in [Peer -> SUBSET Resource]
    /\ open \in [Peer -> BOOLEAN] /\ box \in [Peer -> Seq(Code)]
    /\ got \in [Peer -> SUBSET (OK \union OUT)] /\ ret \in [Peer -> {"none", "ok", "error"}]
    /\ lost \in [Peer -> SUBSET Code]

\* A peer whose application runs can rely on the remote's queues and pipes:
\* whatever stage fails on either side, no peer takes its resources down while
\* the other one is past the PREPARE exchange (smain, syslink_cleanup).
RunningMeansRemoteUp ==
    \A p \in Peer : At(p, "running") => /\ {"slk", "syncbuf", "msgq", "rpe"} \subseteq up[Remote(p)]
                                        /\ open[Remote(p)]

\* OUT0 and ACK0 in two rounds leave no message under way when the boxes go: nothing
\* is sent to a synchronizer that sync_cleanup destroyed, and no message, taken from
\* the shared heap, stays in the box it destroys.  Only a peer that gave up attaching
\* can miss one, and it has returned an error.
NothingLost ==
    \A p \in Peer :
        /\ lost[p] # {} => ret[p] = "error"
        /\ pc[p] \in {"close", "slkcleanup"} /\ ret[p] = "ok" => box[p] = <<>>

\* The messages under way never outgrow the heap they come from: sync_send
\* does not notice that message_alloc returned NULL.
HeapSuffices == Len(box["ARM"]) + Len(box["DSP"]) <= HeapMessages

\* syslink_prepare that does not return an error has brought the link up: its
\* caller, smain, goes on unless the result is below zero.
PreparedMeansUp ==
    \A p \in Peer : At(p, "returned") => ret[p] # "ok" \/ {"slk", "msgq", "rpe"} \subseteq up[p]

\* Two peers that have prepared and wait for each other are never both out of
\* messages: no wait drops a code that a later wait needs.
PrepareNeverStarves ==
    (\A p \in Peer : pc[p] \in {"waitprepare", "waitforprepare"})
        => \E p \in Peer : box[p] # <<>>

\* Peers that both take the synchronizer down both get to the end of it.
ClosingEnds ==
    (\A p \in Peer : pc[p] \in Closing)
        ~> (\A p \in Peer : At(p, "returned") /\ up[p] \subseteq {"msgbuf"})
=============================================================================
