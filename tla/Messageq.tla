------------------------------ MODULE Messageq ------------------------------
(***************************************************************************)
(* One message queue of syslink_messageq.c over the MessageQ and Notify    *)
(* libraries: its local box, the remote boxes it opens and the one it is   *)
(* attached to, the events it registers for, a message it sends, and a     *)
(* message buffer (heap).  A client makes any call in any order; each call *)
(* is one step, with the outcomes of module Outcomes.                      *)
(***************************************************************************)
EXTENDS Integers, Outcomes

CONSTANTS
    Modulus,    \* values of an 8-bit field of the status word
    MaxOpened   \* bound: remote boxes open, and events registered

Funcs == {"f", "g"}          \* callbacks; NULL is "none"
Levels == {"lvl0", "lvl1"}   \* two of the event levels; lvl1 is the default
Codes == {"OK", "FAIL", "INVALID", "REINIT", "RBOXNOTCLOSED", "INVALIDBOXID",
          "NOTIFYNOTCLOSED", "MSGBOXEXIST", "OUTOFRBOX", "REATTACHED",
          "EVTLEVEL", "CALLBACK", "PROCID", "HEAPCREATE", "HIDEXIST"}

VARIABLES
    mq,       \* messageq_t and what the libraries keep for it, see Queues
    msg,      \* the message: who has it, see Messages
    mbuf      \* the message buffer, see Buffers

\* valid, handle, attached, rboxs, notifys, func and level are fields of the
\* struct.  box, opened and events are the libraries': does the local box exist,
\* how many remote boxes has this queue open, and how many events are registered
\* at each level.  kept is history: does the local box stay because the library
\* refused to delete it.
Queues == [valid: BOOLEAN, handle: BOOLEAN, attached: BOOLEAN,
           rboxs: 0 .. Modulus - 1, notifys: 0 .. Modulus - 1,
           func: Funcs \union {"none"}, level: Levels, error: BOOLEAN,
           box: BOOLEAN, opened: 0 .. MaxOpened,
           events: [Levels -> 0 .. MaxOpened],
           kept: BOOLEAN, rc: Codes]

\* Has the sender the pointer, how often is the message in the remote box, has the
\* receiver taken it.
Messages == [mine: BOOLEAN, queued: 0 .. 2, theirs: BOOLEAN]

\* Has the client a buffer, how often is its heap created or open, is the heap
\* registered; kept is history: does the heap stay because the library refused to
\* delete or close it.
Buffers == [held: {"none", "created", "opened"}, heap: 0 .. MaxOpened,
            registered: BOOLEAN, kept: BOOLEAN, rc: Codes]

vars == <<mq, msg, mbuf>>

Init ==
    /\ mq = [valid |-> FALSE, handle |-> FALSE, attached |-> FALSE, rboxs |-> 0,
             notifys |-> 0, func |-> "none", level |-> "lvl1", error |-> FALSE,
             box |-> FALSE, opened |-> 0, events |-> [l \in Levels |-> 0],
             kept |-> FALSE, rc |-> "OK"]
    /\ msg = [mine |-> TRUE, queued |-> 0, theirs |-> FALSE]
    /\ mbuf = [held |-> "none", heap |-> 0, registered |-> FALSE, kept |-> FALSE,
               rc |-> "OK"]

Plus(n) == (n + 1) % Modulus

\* Mutant: the counter is not cut to its field.
Minus_Uncut(n) == n - 1
Minus(n) == (n - 1) % Modulus
Registered(s) == s.events["lvl0"] + s.events["lvl1"]

Valid(s, Op(_)) == IF s.valid THEN Op(s) ELSE {Return(s, "INVALID")}
-----------------------------------------------------------------------------
(***************************************************************************)
(* Boxes.                                                                  *)
(***************************************************************************)

\* What a former life of the queue left in the libraries is not counted any more.
Construct(s) ==
    IF s.valid THEN {Return(s, "REINIT")}
    ELSE {[s EXCEPT !.valid = TRUE, !.handle = FALSE, !.attached = FALSE,
                    !.rboxs = 0, !.notifys = 0, !.func = "none",
                    !.level = "lvl1", !.error = FALSE, !.opened = 0,
                    !.events = [l \in Levels |-> 0], !.rc = "OK"]}

\* MessageQ_create fails, as for every name that exists.
MsgboxCreate(s) ==
    Valid(s, LAMBDA v :
        IF v.handle THEN {Return(v, "MSGBOXEXIST")}
        ELSE {Return(v, "FAIL")} \union
             IF v.box THEN {}
             ELSE {[v EXCEPT !.handle = TRUE, !.box = TRUE, !.rc = "OK"]})

MsgboxDelete(s) ==
    Valid(s, LAMBDA v :
        IF ~v.handle THEN {Return(v, "OK")}
        ELSE {[v EXCEPT !.kept = TRUE, !.rc = "FAIL"],
              [v EXCEPT !.handle = FALSE, !.box = FALSE, !.kept = FALSE, !.rc = "OK"]})

MsgboxOpen(s) ==
    Valid(s, LAMBDA v :
        {Return(v, "FAIL")} \union
        IF v.opened = MaxOpened THEN {}
        ELSE {[v EXCEPT !.opened = @ + 1, !.rboxs = Plus(@), !.rc = "OK"]})

\* The counter is looked at when the remote box is already closed.
MsgboxClose(s) ==
    Valid(s, LAMBDA v :
        {Return(v, "FAIL"),
         IF v.rboxs = 0 THEN [v EXCEPT !.opened = @ - 1, !.rc = "OUTOFRBOX"]
         ELSE [v EXCEPT !.opened = @ - 1, !.rboxs = Minus(@), !.rc = "OK"]})

\* The attached box is not one of those the counter counts.
MsgboxAttach(s) ==
    IF s.attached THEN {Return(s, "REATTACHED")}
    ELSE Then(MsgboxOpen(s), LAMBDA o :
             {[o EXCEPT !.attached = TRUE, !.rboxs = Minus(@)]})

MsgboxDetach(s) ==
    IF ~s.attached THEN {Return(s, "OK")}
    ELSE Always(MsgboxClose([s EXCEPT !.rboxs = Plus(@)]), LAMBDA c :
             IF c.rc = "FAIL" THEN {[c EXCEPT !.rboxs = Minus(@)]}
             ELSE IF Bad(c) THEN {[c EXCEPT !.rboxs = Minus(@), !.attached = FALSE]}
             ELSE {[c EXCEPT !.attached = FALSE]})

\* Mutant: the local box is not deleted.
Destruct_KeepBox(s, sync) ==
    Valid(s, LAMBDA v :
        IF v.rboxs > 0 THEN {Return(v, "RBOXNOTCLOSED")}
        ELSE IF sync /\ ~v.attached THEN {Return(v, "INVALIDBOXID")}
        ELSE IF v.notifys # 0 THEN {Return(v, "NOTIFYNOTCLOSED")}
        ELSE Always(MsgboxDetach(v), LAMBDA d :
               {[d EXCEPT !.valid = FALSE, !.handle = FALSE, !.attached = FALSE,
                          !.func = "none", !.error = FALSE, !.rc = "OK"]}))

\* messageq_destruct ignores what detaching and deleting return.
Destruct(s, sync) ==
    Valid(s, LAMBDA v :
        IF v.rboxs > 0 THEN {Return(v, "RBOXNOTCLOSED")}
        ELSE IF sync /\ ~v.attached THEN {Return(v, "INVALIDBOXID")}
        ELSE IF v.notifys # 0 THEN {Return(v, "NOTIFYNOTCLOSED")}
        ELSE Always(MsgboxDetach(v), LAMBDA d :
               Always(MsgboxDelete(d), LAMBDA x :
                 {[x EXCEPT !.valid = FALSE, !.handle = FALSE,
                            !.attached = FALSE, !.func = "none",
                            !.error = FALSE, !.rc = "OK"]})))

\* msgq_prepare: a queue whose box cannot be made or attached is destroyed again.
MsgqPrepare(s) ==
    Then(Construct(s), LAMBDA c :
      Always(Then(MsgboxCreate(c), LAMBDA b : MsgboxAttach(b)), LAMBDA a :
        IF Bad(a) THEN {Return(d, a.rc) : d \in Destruct(a, FALSE)} ELSE {a}))
-----------------------------------------------------------------------------
(***************************************************************************)
(* Events.                                                                 *)
(***************************************************************************)
LevelSet(s, level) ==
    Valid(s, LAMBDA v :
        IF v.notifys # 0 THEN {Return(v, "EVTLEVEL")}
        ELSE {[v EXCEPT !.level = level, !.rc = "OK"]})

\* Mutant: a registration that fails is counted.
Register_Uncounted(s, func) ==
    Valid(s, LAMBDA v :
        {Return([v EXCEPT !.func = func, !.notifys = Plus(@)], "FAIL")} \union
        IF Registered(v) = MaxOpened THEN {}
        ELSE {[v EXCEPT !.events[v.level] = @ + 1, !.func = func,
                        !.notifys = Plus(@), !.rc = "OK"]})

\* A further registration may do without the function, which is then replaced by
\* NULL although it is meant to stay.
Register(s, func) ==
    Valid(s, LAMBDA v :
        IF \/ func = "none" /\ v.func = "none"
           \/ func # "none" /\ v.func # "none" /\ func # v.func
        THEN {Return(v, "CALLBACK")}
        ELSE {Return(v, "FAIL")} \union
             IF Registered(v) = MaxOpened THEN {}
             ELSE {[v EXCEPT !.events[v.level] = @ + 1, !.func = func,
                             !.notifys = Plus(@), !.rc = "OK"]})

\* With no function nothing is unregistered, and the call succeeds.
Unregister(s) ==
    Valid(s, LAMBDA v :
        IF v.func = "none" THEN {Return(v, "OK")}
        ELSE {Return(v, "PROCID")} \union
             IF v.events[v.level] = 0 THEN {}
             ELSE {[v EXCEPT !.events[v.level] = @ - 1, !.notifys = Minus(@),
                             !.func = IF Minus(v.notifys) = 0 THEN "none" ELSE @,
                             !.rc = "OK"]})

\* message_notifier_callback: the function may report an error.
Callback(s) ==
    IF Registered(s) > 0 /\ s.func # "none" THEN {s, [s EXCEPT !.error = TRUE]} ELSE {s}

CheckErrors(s) == {[s EXCEPT !.error = FALSE]}
-----------------------------------------------------------------------------
(***************************************************************************)
(* A message: messageq_send_safe gives up the pointer if the send succeeds.*)
(***************************************************************************)
Put(m) == [m EXCEPT !.queued = @ + 1]

Sent(m) == [Put(m) EXCEPT !.mine = FALSE]

\* The send may be refused before the message is put and, with the notification
\* asked for, fail after it.
Send(notify) ==
    /\ msg.mine /\ msg.queued < 2
    /\ msg' \in {msg, Sent(msg)} \union
                 IF notify THEN {Put(msg)} ELSE {}
    /\ UNCHANGED <<mq, mbuf>>

\* The other side takes the message and frees it; the next is allocated.
RemoteTakes ==
    /\ msg.queued > 0 /\ ~msg.theirs
    /\ msg' = [msg EXCEPT !.queued = @ - 1, !.theirs = TRUE]
    /\ UNCHANGED <<mq, mbuf>>

RemoteFrees ==
    /\ msg.theirs
    /\ msg' = [msg EXCEPT !.theirs = FALSE,
                          !.mine = @ \/ msg.queued = 0]
    /\ UNCHANGED <<mq, mbuf>>
-----------------------------------------------------------------------------
(***************************************************************************)
(* A message buffer.                                                       *)
(***************************************************************************)

\* HeapMemMP and HeapBufMP: a heap is created once and may be opened again.
HeapMade(b, kind) ==
    {Return(b, "HEAPCREATE")} \union
    IF b.heap = MaxOpened \/ (kind = "created" /\ b.heap > 0) THEN {}
    ELSE {[b EXCEPT !.heap = @ + 1, !.rc = "OK"]}

HeapUnmade(b) ==
    {[b EXCEPT !.kept = TRUE], [b EXCEPT !.heap = @ - 1, !.kept = FALSE]}

\* MessageQ takes one heap for an identifier.
RegisterHeap(b) ==
    {Return(b, "HIDEXIST")} \union
    IF b.registered THEN {} ELSE {[b EXCEPT !.registered = TRUE]}

\* Mutant: the heap of a buffer that cannot be registered is left.
BufferMade_KeepHeap(b, kind) ==
    Then(HeapMade(b, kind), LAMBDA h :
      Then(RegisterHeap(h), LAMBDA r : {[r EXCEPT !.held = kind]}))

\* message_buffer_create and message_buffer_open: a heap that cannot be registered is
\* deleted or closed again, whatever comes of that.
BufferMade(b, kind) ==
    Then(HeapMade(b, kind), LAMBDA h :
      Always(RegisterHeap(h), LAMBDA r :
        IF Bad(r) THEN HeapUnmade(r) ELSE {[r EXCEPT !.held = kind]}))

BufferMake ==
    /\ mbuf.held = "none"
    /\ \E kind \in {"created", "opened"} : mbuf' \in BufferMade(mbuf, kind)
    /\ UNCHANGED <<mq, msg>>

\* message_buffer_destroy and message_buffer_close: the client's buffer is freed,
\* whether the heap could be unregistered and deleted or not.
BufferUnmade(b) ==
    UNION {HeapUnmade([b EXCEPT !.held = "none", !.registered = r, !.rc = "OK"]) :
             r \in {FALSE, b.registered}}

BufferUnmake ==
    /\ mbuf.held # "none"
    /\ mbuf' \in BufferUnmade(mbuf)
    /\ UNCHANGED <<mq, msg>>
-----------------------------------------------------------------------------
\* The code a call returns is not part of the state it leaves.
Does(S) == mq' \in {Return(s, "OK") : s \in S} /\ UNCHANGED <<msg, mbuf>>

QueueNext ==
    \/ Does(Construct(mq))
    \/ \E sync \in BOOLEAN : Does(Destruct(mq, sync))
    \/ Does(MsgboxCreate(mq))
    \/ Does(MsgboxDelete(mq))
    \/ Does(MsgboxOpen(mq))
    \/ mq.opened > (IF mq.attached THEN 1 ELSE 0) /\ Does(MsgboxClose(mq))
    \/ mq.valid /\ Does(MsgboxAttach(mq))
    \/ mq.valid /\ Does(MsgboxDetach(mq))
    \/ ~mq.valid /\ Does(MsgqPrepare(mq))
    \/ \E level \in Levels : Does(LevelSet(mq, level))
    \/ \E func \in Funcs \union {"none"} : Does(Register(mq, func))
    \/ Does(Unregister(mq))
    \/ Does(Callback(mq))
    \/ Does(CheckErrors(mq))

MessageNext ==
    \/ \E notify \in BOOLEAN : Send(notify)
    \/ RemoteTakes \/ RemoteFrees

BufferNext == BufferMake \/ BufferUnmake

Next == QueueNext \/ MessageNext \/ BufferNext

Spec == Init /\ [][Next]_vars
-----------------------------------------------------------------------------
(***************************************************************************)
(* Properties.                                                             *)
(***************************************************************************)
TypeOK == mq \in Queues /\ msg \in Messages /\ mbuf \in Buffers

\* The preparation of a queue that fails leaves no local box that was not there
\* before, nor does making a buffer leave a heap or a registration, except a box or a
\* heap that the library refused to delete or close.
FailedPreparationLeavesNothing ==
    [][/\ ~mq.valid /\ ~mq'.valid /\ mq'.box => mq.box \/ mq'.kept
       /\ mbuf.held = "none" /\ mbuf'.held = "none" =>
            /\ mbuf'.heap <= mbuf.heap \/ mbuf'.kept
            /\ mbuf'.registered => mbuf.registered]_vars

\* As long as the 8-bit counter can count them, no queue is destroyed with events
\* registered that would call back into it.
DestroyedHasNoEvents ==
    [][mq.valid /\ ~mq'.valid /\ Registered(mq) < Modulus => Registered(mq') = 0]_vars
=============================================================================
