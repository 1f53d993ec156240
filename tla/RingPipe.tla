------------------------------ MODULE RingPipe ------------------------------
(***************************************************************************)
(* One ring pipe of syslink_ringpipe.c over the RingIO library, driven by  *)
(* a client that makes any call in any order and by rpe_init.c, which      *)
(* prepares and cleans up the pipe of the application.                     *)
(*                                                                         *)
(* A call is one step, with the outcomes of module Outcomes.               *)
(***************************************************************************)
EXTENDS Outcomes

Ends == {"READER", "WRITER"}
Marks == {"VALID", "OPEN", "RNOTIFY", "WNOTIFY"} \union Ends
NotifyMark(e) == IF e = "READER" THEN "RNOTIFY" ELSE "WNOTIFY"
Codes == {"OK", "FAIL", "INVALID", "OPEN", "REOPEN", "BUFEXIST", "NOTIFYEXIST"}

VARIABLES
    pipe,     \* struct rpe and what RingIO keeps for it, see Pipes
    call,     \* the last call of the client
    passed    \* the handle that call passed to RingIO

\* status, handle and ends are fields of the struct: the marks, is there a handle
\* of the buffer, the ends with a handle.  there and told are RingIO's: the buffer
\* and the ends that exist, those with a notifier.  refused is history: what RingIO
\* refused when it was last asked to close or delete it.
Parts == Ends \union {"buffer"}
Pipes == [status: SUBSET Marks, handle: BOOLEAN, ends: SUBSET Ends,
          there: SUBSET Parts, told: SUBSET Ends, refused: SUBSET Parts, rc: Codes]

vars == <<pipe, call, passed>>

Init ==
    /\ pipe = [status |-> {}, handle |-> FALSE, ends |-> {}, there |-> {},
               told |-> {}, refused |-> {}, rc |-> "OK"]
    /\ call = "none" /\ passed = "none"
-----------------------------------------------------------------------------
(***************************************************************************)
(* The RingIO library: a name is created once, an end opened once.         *)
(***************************************************************************)
RingIO_create(s) ==
    {Return(s, "FAIL")} \union
    IF "buffer" \in s.there THEN {}
    ELSE {[s EXCEPT !.handle = TRUE, !.there = @ \union {"buffer"}, !.rc = "OK"]}

RingIO_delete(s) ==
    {[s EXCEPT !.refused = @ \union {"buffer"}, !.rc = "FAIL"],
     [s EXCEPT !.handle = FALSE, !.there = @ \ {"buffer"},
               !.refused = @ \ {"buffer"}, !.rc = "OK"]}

RingIO_open(s, e) ==
    {Return(s, "FAIL")} \union
    IF e \in s.there THEN {}
    ELSE {[s EXCEPT !.ends = @ \union {e}, !.there = @ \union {e}, !.rc = "OK"]}

RingIO_close(s, e) ==
    {[s EXCEPT !.refused = @ \union {e}, !.rc = "FAIL"],
     [s EXCEPT !.ends = @ \ {e}, !.there = @ \ {e}, !.told = @ \ {e},
               !.refused = @ \ {e}, !.rc = "OK"]}
-----------------------------------------------------------------------------
(***************************************************************************)
(* syslink_ringpipe.c.                                                     *)
(***************************************************************************)
BufferDelete(s) == IF s.handle THEN RingIO_delete(s) ELSE {Return(s, "OK")}

CloseHandle(s, e) == IF e \in s.ends THEN RingIO_close(s, e) ELSE {Return(s, "OK")}

\* Nothing is asked of the pipe: the handles that it has are forgotten.
Construct(s) ==
    {[s EXCEPT !.status = {"VALID"}, !.handle = FALSE, !.ends = {}, !.rc = "OK"]}

Marked(s, e) == [s EXCEPT !.status = @ \union {e, "OPEN"}]

\* rpe_open_reader sets its marks whether the end could be opened or not.
OpenReader(s) ==
    IF "READER" \in s.ends THEN {Return(s, "REOPEN")}
    ELSE {Marked(o, "READER") : o \in RingIO_open(s, "READER")}

\* rpe_open_writer creates the buffer first, and deletes it when its end cannot be
\* opened, whatever comes of that.
OpenWriter(s) ==
    IF "WRITER" \in s.ends THEN {Return(s, "REOPEN")}
    ELSE IF s.handle THEN {Return(s, "BUFEXIST")}
    ELSE Then(RingIO_create(s), LAMBDA c :
           Always(RingIO_open(c, "WRITER"), LAMBDA o :
             IF Bad(o) THEN {Return(d, o.rc) : d \in BufferDelete(o)}
             ELSE {Marked(o, "WRITER")}))

Valid(s, Op(_)) == IF "VALID" \in s.status THEN Op(s) ELSE {Return(s, "INVALID")}

Open(s, e) ==
    Valid(s, LAMBDA v : IF e = "READER" THEN OpenReader(v) ELSE OpenWriter(v))

\* The end of rpe_close: with no notifier left the whole pipe counts as closed.
Unmark(s, e) ==
    LET left == s.status \ {NotifyMark(e)}
    IN  [s EXCEPT !.status =
            IF {"RNOTIFY", "WNOTIFY"} \intersect left = {} THEN left \ {"OPEN"}
            ELSE left]

\* Mutant: closing the writer leaves its buffer.
CloseWriter_KeepBuffer(s) ==
    {Unmark(c, "WRITER") : c \in CloseHandle(s, "WRITER")}

\* Mutant: the buffer is deleted without closing its end.
CloseWriter_KeepEnd(s) ==
    {Unmark(d, "WRITER") : d \in BufferDelete(s)}

\* The result of closing the writer is lost in that of deleting the buffer.
CloseWriter(s) ==
    Always(CloseHandle(s, "WRITER"), LAMBDA c :
        IF ~c.handle THEN {Unmark(c, "WRITER")}
        ELSE Then(BufferDelete(c), LAMBDA d : {Unmark(d, "WRITER")}))

CloseReader(s) == {Unmark(c, "READER") : c \in CloseHandle(s, "READER")}

Close(s, e) ==
    Valid(s, LAMBDA v : IF e = "READER" THEN CloseReader(v) ELSE CloseWriter(v))

CloseAll(s) == Then(Close(s, "READER"), LAMBDA r : Close(r, "WRITER"))

Register(s, e) ==
    Valid(s, LAMBDA v :
        IF NotifyMark(e) \in v.status THEN {Return(v, "NOTIFYEXIST")}
        ELSE IF e \notin v.ends THEN {Return(v, "OPEN")}
        ELSE {Return(v, "FAIL"),
              [v EXCEPT !.told = @ \union {e}, !.rc = "OK",
                        !.status = @ \union {NotifyMark(e)}]})

Unregister(s, e) ==
    Valid(s, LAMBDA v :
        IF NotifyMark(e) \notin v.status \/ e \notin v.ends THEN {Return(v, "OK")}
        ELSE {Return(v, "FAIL"),
              [v EXCEPT !.told = @ \ {e}, !.rc = "OK",
                        !.status = @ \ {NotifyMark(e)}]})

\* rpe_destruct; the result of object_destruct is not looked at.
Destruct(s) ==
    Valid(s, LAMBDA v :
      Then(Unregister(v, "READER"), LAMBDA r :
        Then(Unregister(r, "WRITER"), LAMBDA w :
          Then(IF "OPEN" \in w.status THEN CloseAll(w) ELSE {w}, LAMBDA c :
            {[c EXCEPT !.status = {}]}))))
-----------------------------------------------------------------------------
(***************************************************************************)
(* rpe_init.c.                                                             *)
(***************************************************************************)

\* rpes_open: TRYTIMES attempts to open the reader that all fail are one.
OpenBoth(s) ==
    Then(Open(s, "WRITER"), LAMBDA w :
      Always(Open(w, "READER"), LAMBDA r :
        IF Bad(r) THEN {Return(c, r.rc) : c \in Close(r, "WRITER")} ELSE {r}))

\* The pipe is constructed in whatever state it is; if it cannot be opened, it is
\* destroyed again.
RpePrepare(s) ==
    Then(Construct(s), LAMBDA c :
      Always(OpenBoth(c), LAMBDA o :
        IF Bad(o) THEN {Return(d, o.rc) : d \in Destruct(o)} ELSE {o}))
-----------------------------------------------------------------------------
(***************************************************************************)
(* The calls of the client.                                                *)
(***************************************************************************)
Does(name, S) ==
    /\ call' = name /\ passed' = "none"
    /\ pipe' \in S

\* What the handle of an end is worth, if a call passes it to RingIO.
Handle(e) ==
    IF e \notin pipe.ends THEN "null"
    ELSE IF e = "WRITER" /\ "buffer" \notin pipe.there THEN "dangling"
    ELSE "live"

\* The calls that look at the pipe and at the end before they use it.
Checked(e) ==
    \/ /\ "VALID" \in pipe.status /\ e \in pipe.ends
       /\ passed' = Handle(e)
       /\ pipe' \in {Return(pipe, c) : c \in {"OK", "FAIL"}}
    \/ /\ ~("VALID" \in pipe.status /\ e \in pipe.ends)
       /\ passed' = "none"
       /\ pipe' = Return(pipe, IF "VALID" \in pipe.status THEN "OPEN" ELSE "INVALID")

\* The kind of notification, the watermark and the sending of a notification.
Notification(e) == call' = "notification" /\ Checked(e)

\* Flushing and the sizes of what is valid and what is empty.
Measure(e) == call' = "measure" /\ Checked(e)

\* Setting an attribute passes the writer, getting one the reader, unseen.
Attribute(e) ==
    /\ call' = "attribute"
    /\ "VALID" \in pipe.status
    /\ passed' = Handle(e)
    /\ pipe' \in {Return(pipe, c) : c \in {"OK", "FAIL"}}

Next ==
    \/ Does("construct", Construct(pipe))
    \/ Does("destruct", Destruct(pipe))
    \/ \E e \in Ends :
         \/ Does("open", Open(pipe, e))
         \/ Does("close", Close(pipe, e))
         \/ Does("register", Register(pipe, e))
         \/ Does("unregister", Unregister(pipe, e))
         \/ Notification(e)
         \/ Measure(e)
         \/ Attribute(e)
    \/ Does("prepare", RpePrepare(pipe))

Spec == Init /\ [][Next]_vars
-----------------------------------------------------------------------------
(***************************************************************************)
(* Properties.                                                             *)
(***************************************************************************)
TypeOK ==
    /\ pipe \in Pipes
    /\ call \in {"none", "construct", "destruct", "open", "close", "register",
                 "unregister", "notification", "measure", "attribute", "prepare"}
    /\ passed \in {"none", "null", "dangling", "live"}

\* A preparation that fails leaves no end and no buffer in RingIO that was not there
\* before, except those RingIO refused to close or delete.
FailedPreparationLeavesNothing ==
    [][call' = "prepare" /\ Bad(pipe') =>
         pipe'.there \subseteq pipe.there \union pipe'.refused]_vars

\* No call uses the writer's end after its buffer is gone, except when RingIO
\* refused to close the end and rpe_close deleted the buffer all the same.
DanglingAfterFailedClose == passed = "dangling" => "WRITER" \in pipe.refused
=============================================================================
