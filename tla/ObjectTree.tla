----------------------------- MODULE ObjectTree -----------------------------
(***************************************************************************)
(* The objects of object.c and the SysLink object of syslink.c, which is   *)
(* their root.  Every pipe, queue and notifier starts with an object; its  *)
(* counter is meant to say how many children it has and how often it was   *)
(* taken; any client may make any call on any object.                      *)
(***************************************************************************)
EXTENDS Integers

CONSTANTS
    Plain,       \* objects destroyed by object_destruct: pipes and queues
    Notifiers,   \* objects destroyed by object_deinit
    MaxCount     \* bound: the counter of an object

Objects == {"slk"} \union Plain \union Notifiers

VARIABLES
    cnt,       \* the counter of each object, -1 if it is not valid
    parent,    \* the parent of each object, or "none"
    have,      \* have_syslink
    slk        \* SysLink and Ipc: what is running of "setup", "ipc", "START", "attached"

vars == <<cnt, parent, have, slk>>
treeVars == <<cnt, parent>>

object_valid(o) == cnt[o] >= 0
object_busy(o) == cnt[o] > 0

Init ==
    /\ cnt = [o \in Objects |-> -1]
    /\ parent = [o \in Objects |-> "none"]
    /\ have = FALSE /\ slk = {}
-----------------------------------------------------------------------------
\* Nothing is asked of the object: one that is valid and busy starts again at 0 and
\* its old parent is not put.  Nor of the parent: a destroyed one is valid again.
object_init(o, p) ==
    /\ p # "none" => cnt[p] < MaxCount
    /\ cnt' = [x \in Objects |->
                 IF x = o THEN 0 ELSE IF x = p THEN cnt[x] + 1 ELSE cnt[x]]
    /\ parent' = [parent EXCEPT ![o] = p]

object_deinit(o) ==
    /\ cnt' = [x \in Objects |->
                 IF x = o THEN -1
                 ELSE IF x = parent[o] /\ object_busy(x) THEN cnt[x] - 1
                 ELSE cnt[x]]
    /\ parent' = [parent EXCEPT ![o] = "none"]

object_destruct(o) ==
    /\ object_valid(o) /\ ~object_busy(o)
    /\ object_deinit(o)

\* It is the new parent that is put, so that the old one is never released and a
\* busy new one does not count the child.
object_change_parent(o, p) ==
    /\ object_valid(o) /\ object_valid(p) /\ p # o
    /\ cnt[p] < MaxCount
    /\ cnt' = [cnt EXCEPT ![p] =
                 IF parent[o] # "none" /\ object_busy(p) THEN @ ELSE @ + 1]
    /\ parent' = [parent EXCEPT ![o] = p]

object_get(o) ==
    /\ object_valid(o) /\ cnt[o] < MaxCount
    /\ cnt' = [cnt EXCEPT ![o] = @ + 1]
    /\ UNCHANGED parent

\* Mutant: a counter at 0 is put.
object_put_Unchecked(o) ==
    /\ cnt' = [cnt EXCEPT ![o] = @ - 1]
    /\ UNCHANGED parent

\* object_put and object_tryput.
object_put(o) ==
    /\ object_busy(o)
    /\ cnt' = [cnt EXCEPT ![o] = @ - 1]
    /\ UNCHANGED parent

ObjectNext ==
    /\ \E o \in Plain \union Notifiers :
         \/ \E p \in (Objects \union {"none"}) \ {o} : object_init(o, p)
         \/ o \in Plain /\ object_destruct(o)
         \/ o \in Notifiers /\ object_valid(o) /\ object_deinit(o)
         \/ \E p \in Objects : object_change_parent(o, p)
         \/ object_get(o) \/ object_put(o)
    /\ UNCHANGED <<have, slk>>
-----------------------------------------------------------------------------
syslink_construct ==
    /\ ~have /\ have' = TRUE
    /\ cnt' = [cnt EXCEPT !["slk"] = 0]
    /\ UNCHANGED <<parent, slk>>

\* SysLink_destroy comes before the object is destroyed.
syslink_destruct ==
    /\ have /\ ~object_busy("slk")
    /\ slk' = slk \ {"setup"}
    /\ object_destruct("slk") /\ have' = FALSE

\* A positive result of Ipc_start is neither failure nor start.
syslink_start ==
    /\ have
    /\ slk' \in {slk, slk \union {"ipc"}, slk \union {"ipc", "setup", "START"}}
    /\ UNCHANGED <<treeVars, have>>

syslink_stop ==
    /\ have
    /\ slk' = slk \ {"ipc", "START", "attached"}
    /\ UNCHANGED <<treeVars, have>>

\* Both repeat the call as long as the other processor is not ready.
syslink_attach ==
    /\ have /\ "ipc" \in slk
    /\ slk' \in {slk, slk \union {"attached"}}
    /\ UNCHANGED <<treeVars, have>>

syslink_detach ==
    /\ have /\ "attached" \in slk
    /\ slk' \in {slk, slk \ {"attached"}}
    /\ UNCHANGED <<treeVars, have>>

Next ==
    \/ ObjectNext
    \/ syslink_construct \/ syslink_destruct
    \/ syslink_start \/ syslink_stop
    \/ syslink_attach \/ syslink_detach

Spec == Init /\ [][Next]_vars
-----------------------------------------------------------------------------
(***************************************************************************)
(* Properties.                                                             *)
(***************************************************************************)
TypeOK ==
    /\ cnt \in [Objects -> -1 .. MaxCount]
    /\ parent \in [Objects -> Objects \union {"none"}]
    /\ have \in BOOLEAN
    /\ slk \subseteq {"setup", "ipc", "START", "attached"}
=============================================================================
