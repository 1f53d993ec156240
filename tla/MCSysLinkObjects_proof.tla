----------------------- MODULE MCSysLinkObjects_proof -----------------------
(***************************************************************************)
(* The properties of the SysLink objects, for every value of the constants *)
(* that SysLinkAssumption admits: any number of events, objects, open      *)
(* boxes and registrations, and any width of the counters of a queue.      *)
(*                                                                         *)
(* Each kind of object has its inductive invariant, TreeInv, NotifierInv,  *)
(* PipeInv and QueueInv; as the objects share no state, a step of one      *)
(* leaves the other three alone.                                           *)
(***************************************************************************)
EXTENDS MCSysLinkObjects, Sequences, SequenceTheorems, FiniteSetTheorems,
        WellFoundedInduction, TLAPS

-----------------------------------------------------------------------------
(***************************************************************************)
(* The objects.                                                            *)
(***************************************************************************)
Objs == Tree!Objects

TreeInv == Tree!TypeOK

LEMMA TreeStart == Tree!Init => TreeInv
<1> SUFFICES ASSUME Tree!Init PROVE Tree!TypeOK
  BY DEF TreeInv
<1>1. cnt \in [Tree!Objects -> -1 .. MaxCount]
  BY SysLinkAssumption DEF Tree!Init
<1>2. parent \in [Tree!Objects -> Tree!Objects \union {"none"}]
  BY DEF Tree!Init
<1> QED BY <1>1, <1>2 DEF Tree!Init, Tree!TypeOK

LEMMA ObjectInit ==
  ASSUME TreeInv, NEW o \in Objs, NEW p \in Objs \union {"none"},
         Tree!object_init(o, p)
  PROVE  /\ cnt' \in [Objs -> -1 .. MaxCount]
         /\ parent' \in [Objs -> Objs \union {"none"}]
<1>1. p \in Objs => cnt[p] + 1 \in -1 .. MaxCount
  BY SysLinkAssumption
     DEF TreeInv, Tree!TypeOK, Tree!object_init, Objs, Tree!Objects
<1>2. cnt' \in [Objs -> -1 .. MaxCount]
  BY <1>1, SysLinkAssumption DEF TreeInv, Tree!TypeOK, Tree!object_init, Objs
<1>3. parent' \in [Objs -> Objs \union {"none"}]
  BY DEF TreeInv, Tree!TypeOK, Tree!object_init, Objs
<1> QED BY <1>2, <1>3

LEMMA ObjectDeinit ==
  ASSUME TreeInv, NEW o \in Objs, Tree!object_deinit(o)
  PROVE  /\ cnt' \in [Objs -> -1 .. MaxCount]
         /\ parent' \in [Objs -> Objs \union {"none"}]
BY SysLinkAssumption DEF TreeInv, Tree!TypeOK, Tree!object_deinit, Tree!object_busy, Objs

LEMMA ObjectCounted ==
  ASSUME TreeInv, NEW o \in Objs, NEW p \in Objs,
         Tree!object_change_parent(o, p) \/ Tree!object_get(o) \/ Tree!object_put(o)
  PROVE  /\ cnt' \in [Objs -> -1 .. MaxCount]
         /\ parent' \in [Objs -> Objs \union {"none"}]
<1> USE SysLinkAssumption
        DEF TreeInv, Tree!TypeOK, Objs, Tree!object_valid, Tree!object_busy
<1>1. CASE Tree!object_change_parent(o, p)
  BY <1>1 DEF Tree!object_change_parent
<1>2. CASE Tree!object_get(o)
  BY <1>2 DEF Tree!object_get
<1>3. CASE Tree!object_put(o)
  BY <1>3 DEF Tree!object_put
<1> QED BY <1>1, <1>2, <1>3

\* A counter leaves -1 only when its object is made, and 0 only upwards.
LEMMA TreeStep == TreeInv /\ [Tree!Next]_treeVars => TreeInv'
<1> SUFFICES ASSUME TreeInv, [Tree!Next]_treeVars PROVE TreeInv'
  OBVIOUS
<1> DEFINE Typed == /\ cnt' \in [Objs -> -1 .. MaxCount]
                    /\ parent' \in [Objs -> Objs \union {"none"}]
<1>1. CASE Tree!ObjectNext
  <2>1. \A o \in Plain \union Notifiers : o \in Objs
    BY DEF Objs, Tree!Objects
  <2>2. ASSUME NEW o \in Objs, NEW p \in (Objs \union {"none"}) \ {o},
               Tree!object_init(o, p)
        PROVE  Typed
    BY <2>2, ObjectInit
  <2>3. ASSUME NEW o \in Objs, Tree!object_deinit(o)
        PROVE  Typed
    BY <2>3, ObjectDeinit
  <2>4. ASSUME NEW o \in Objs, NEW p \in Objs, Tree!object_change_parent(o, p)
        PROVE  Typed
    BY <2>4, ObjectCounted
  <2>5. ASSUME NEW o \in Objs, Tree!object_get(o) \/ Tree!object_put(o)
        PROVE  Typed
    BY <2>5, ObjectCounted
  <2> HIDE DEF Typed
  <2>6. Typed
    BY <1>1, <2>1, <2>2, <2>3, <2>4, <2>5
       DEF Tree!ObjectNext, Tree!object_destruct, Objs
  <2>7. UNCHANGED <<have, slk>>
    BY <1>1 DEF Tree!ObjectNext
  <2> QED BY <2>6, <2>7 DEF Typed, TreeInv, Tree!TypeOK, Objs
<1>2. "slk" \in Objs /\ 0 \in -1 .. MaxCount
  BY SysLinkAssumption DEF Objs, Tree!Objects
<1>3. CASE Tree!syslink_construct
  BY <1>2, <1>3 DEF Tree!syslink_construct, TreeInv, Tree!TypeOK, Objs
<1>4. CASE Tree!syslink_destruct
  <2>1. Typed
    BY <1>2, <1>4, ObjectDeinit DEF Tree!syslink_destruct, Tree!object_destruct
  <2> QED BY <1>4, <2>1 DEF Tree!syslink_destruct, TreeInv, Tree!TypeOK, Objs
<1>5. CASE \/ Tree!syslink_start \/ Tree!syslink_stop
           \/ Tree!syslink_attach \/ Tree!syslink_detach \/ UNCHANGED treeVars
  <2>1. /\ UNCHANGED <<cnt, parent, have>>
        /\ slk' \subseteq {"setup", "ipc", "START", "attached"}
    BY <1>5 DEF Tree!syslink_start, Tree!syslink_stop, Tree!syslink_attach,
                Tree!syslink_detach, Tree!treeVars, treeVars, TreeInv, Tree!TypeOK
  <2> QED BY <2>1 DEF TreeInv, Tree!TypeOK
<1> QED BY <1>1, <1>3, <1>4, <1>5 DEF Tree!Next

-----------------------------------------------------------------------------
(***************************************************************************)
(* A notifier.                                                             *)
(***************************************************************************)
Taking == IF task.at \in {"read", "half"} THEN 1 ELSE 0

\* The counts of the semaphore, the list and the node that is being removed.
Semaphore ==
    /\ "window" \in past \/ avail + Taking <= Len(list)
    /\ "timed" \in past \/ Len(list) <= avail + Taking
    /\ Taking = 1 => task.node <= Len(list)
    /\ corrupt => "window" \in past

NotifierInv == Notify!TypeOK /\ Semaphore

LEMMA NotifierStart == Notify!Init => NotifierInv
<1> SUFFICES ASSUME Notify!Init PROVE NotifierInv
  OBVIOUS
<1> USE DEF Notify!Init
<1>1. <<>> \in Seq(Events) /\ Len(<<>>) = 0
  OBVIOUS
<1>2. task.at = "idle" /\ task \in Notify!Calls
  BY DEF Notify!Idle, Notify!Calls
<1>3. Notify!TypeOK
  <2>1. list \in Seq(Events) /\ Len(list) <= MaxList
    BY <1>1, SysLinkAssumption
  <2>2. marks \subseteq Notify!Marks /\ ntfcnt \in 0 .. 255 /\ avail \in Nat
    OBVIOUS
  <2> QED BY <1>2, <2>1, <2>2 DEF Notify!TypeOK
<1> QED BY <1>1, <1>2, <1>3 DEF NotifierInv, Semaphore, Taking

Managing ==
    \/ Notify!notifier_construct \/ Notify!notifier_destruct
    \/ Notify!notifier_open \/ Notify!notifier_close
    \/ Notify!notifier_register_event \/ Notify!notifier_unregister_event

\* The calls that manage the notifier find the task idle: they leave the queue as it
\* is, or empty it, which takes a node from an empty list only if one was lost.
LEMMA ManagingQueue ==
  ASSUME NotifierInv, ~corrupt, Managing
  PROVE  /\ task = Notify!Idle /\ task' = Notify!Idle
         /\ qstat' \in {"none", "NORMAL", "OVERFLOW", "NOMEM"} /\ broken' \in BOOLEAN
         /\ \/ UNCHANGED <<list, avail, past, corrupt>>
            \/ /\ list' = <<>> /\ avail' = 0 /\ past' \in {past, {}}
               /\ UNCHANGED corrupt
            \/ /\ list' = <<>> /\ avail' = 0 /\ UNCHANGED past
               /\ corrupt' = (corrupt \/ avail > Len(list))
<1>0. /\ qstat \in {"none", "NORMAL", "OVERFLOW", "NOMEM"} /\ broken \in BOOLEAN
  BY DEF NotifierInv, Notify!TypeOK
<1> USE <1>0 DEF Notify!queueVars, Notify!callVars, Notify!EmptyQueue
<1>1. CASE Notify!notifier_construct
  BY <1>1 DEF Notify!notifier_construct
<1>2. CASE Notify!notifier_destruct
  BY <1>2 DEF Notify!notifier_destruct, Notify!event_queue_destroy
<1>3. CASE Notify!notifier_open
  BY <1>3 DEF Notify!notifier_open
<1>4. CASE Notify!notifier_close
  BY <1>4 DEF Notify!notifier_close, Notify!event_queue_destroy
<1>5. CASE Notify!notifier_register_event
  BY <1>5 DEF Notify!notifier_register_event
<1>6. CASE Notify!notifier_unregister_event
  BY <1>6 DEF Notify!notifier_unregister_event
<1> QED BY <1>1, <1>2, <1>3, <1>4, <1>5, <1>6 DEF Managing

LEMMA ManagingTypes ==
  ASSUME NotifierInv, Managing
  PROVE  /\ marks' \subseteq Notify!Marks
         /\ ntfcnt' \in 0 .. 255
         /\ regs' \subseteq Events
<1>0. marks \subseteq Notify!Marks /\ ntfcnt \in 0 .. 255 /\ regs \subseteq Events
  BY DEF NotifierInv, Notify!TypeOK
<1>1. CASE Notify!notifier_construct
  BY <1>0, <1>1 DEF Notify!notifier_construct, Notify!Marks
<1>2. CASE Notify!notifier_destruct
  BY <1>0, <1>2 DEF Notify!notifier_destruct, Notify!Marks
<1>3. CASE Notify!notifier_open
  BY <1>0, <1>3 DEF Notify!notifier_open, Notify!ModeMarks, Notify!Marks
<1>4. CASE Notify!notifier_close
  BY <1>0, <1>4 DEF Notify!notifier_close
<1>5. CASE Notify!notifier_register_event
  BY <1>0, <1>5 DEF Notify!notifier_register_event, Notify!Marks
<1>6. CASE Notify!notifier_unregister_event
  BY <1>0, <1>6 DEF Notify!notifier_unregister_event
<1> QED BY <1>1, <1>2, <1>3, <1>4, <1>5, <1>6 DEF Managing

LEMMA ManagingStep ==
  ASSUME NotifierInv, ~corrupt, Managing
  PROVE  NotifierInv'
<1> DEFINE l == Len(list)
<1>1. /\ task = Notify!Idle /\ task' = Notify!Idle
      /\ qstat' \in {"none", "NORMAL", "OVERFLOW", "NOMEM"} /\ broken' \in BOOLEAN
      /\ \/ UNCHANGED <<list, avail, past, corrupt>>
         \/ /\ list' = <<>> /\ avail' = 0 /\ past' \in {past, {}}
            /\ UNCHANGED corrupt
         \/ /\ list' = <<>> /\ avail' = 0 /\ UNCHANGED past
            /\ corrupt' = (corrupt \/ avail > l)
  BY ManagingQueue
<1>2. Taking = 0 /\ Taking' = 0 /\ task' \in Notify!Calls
  BY <1>1 DEF Taking, Notify!Idle, Notify!Calls
<1>3. /\ list \in Seq(Events) /\ l \in Nat /\ l <= MaxList /\ avail \in Nat
      /\ past \subseteq {"window", "timed"} /\ corrupt = FALSE /\ MaxList \in Nat
  BY SysLinkAssumption DEF NotifierInv, Notify!TypeOK
<1>4. /\ "window" \in past \/ avail <= l
      /\ "timed" \in past \/ l <= avail
  BY <1>2, <1>3 DEF NotifierInv, Semaphore
<1>5. list' = <<>> => Len(list') = 0 /\ list' \in Seq(Events)
  OBVIOUS
<1>6. list' = list => Len(list') = l
  OBVIOUS
<1> HIDE DEF l
<1>7. /\ list' \in Seq(Events) /\ Len(list') \in Nat /\ Len(list') <= MaxList
      /\ avail' \in Nat /\ past' \subseteq {"window", "timed"}
      /\ "window" \in past' \/ avail' <= Len(list')
      /\ "timed" \in past' \/ Len(list') <= avail'
  <2>1. CASE UNCHANGED <<list, avail, past>>
    <3>1. Len(list') = l /\ list' \in Seq(Events)
      BY <1>3, <1>6, <2>1
    <3> QED BY <3>1, <2>1, <1>3, <1>4
  <2>2. CASE list' = <<>> /\ avail' = 0 /\ past' \subseteq {"window", "timed"}
    <3>1. Len(list') = 0 /\ list' \in Seq(Events)
      BY <1>5, <2>2
    <3> QED BY <3>1, <2>2, <1>3
  <2>3. \/ UNCHANGED <<list, avail, past>>
        \/ list' = <<>> /\ avail' = 0 /\ past' \subseteq {"window", "timed"}
    BY <1>1, <1>3
  <2> QED BY <2>1, <2>2, <2>3
<1>8. corrupt' \in BOOLEAN /\ (corrupt' => "window" \in past')
  <2>1. CASE UNCHANGED corrupt
    BY <1>3, <2>1
  <2>2. CASE UNCHANGED past /\ corrupt' = (corrupt \/ avail > l)
    <3>1. (corrupt \/ avail > l) \in BOOLEAN
      OBVIOUS
    <3>2. corrupt \/ avail > l => "window" \in past
      BY <1>3, <1>4
    <3> QED BY <2>2, <3>1, <3>2, Zenon
  <2> QED BY <1>1, <2>1, <2>2
<1>9. Semaphore'
  BY <1>2, <1>7, <1>8 DEF Semaphore
<1> QED BY <1>1, <1>2, <1>7, <1>8, <1>9, ManagingTypes DEF NotifierInv, Notify!TypeOK

LEMMA LeastNumber ==
  ASSUME NEW S \in SUBSET Nat, S # {}
  PROVE  \E x \in S : \A y \in S : x <= y
<1>1. PICK x \in S : \A y \in S : <<y, x>> \notin OpToRel(<, Nat)
  BY WFMin, NatLessThanWellFounded
<1>2. \A y \in S : ~(y < x)
  BY <1>1 DEF OpToRel
<1> QED BY <1>2

LEMMA FoundFacts ==
  ASSUME NEW w \in Notify!Wanted, list \in Seq(Events)
  PROVE  /\ Notify!Found(w) \in Nat
         /\ Notify!Found(w) <= Len(list) \/ (w.find = "head" /\ Notify!Found(w) = 1)
         /\ w.find = "head" => Notify!Found(w) = 1
<1>0. Len(list) \in Nat
  OBVIOUS
<1>1. CASE w.find = "head"
  BY <1>1 DEF Notify!Found
<1>2. CASE w.find # "head"
  <2> DEFINE I == {i \in 1 .. Len(list) : list[i] \in w.set}
  <2>1. Notify!Found(w) = IF I # {} THEN Notify!Min(I) ELSE 0
    BY <1>2 DEF Notify!Found, Notify!SelectInSeq
  <2>2. ASSUME I # {} PROVE Notify!Min(I) \in I
    <3> DEFINE n == Len(list)
    <3>1. n \in Nat /\ I \subseteq 1 .. n
      OBVIOUS
    <3> HIDE DEF n, I
    <3>2. \E x \in I : \A y \in I : x <= y
      BY <2>2, <3>1, LeastNumber
    <3> QED BY <3>2 DEF Notify!Min
  <2>3. Notify!Min(I) \in I => Notify!Min(I) \in Nat /\ Notify!Min(I) <= Len(list)
    BY <1>0
  <2> HIDE DEF I
  <2> QED BY <1>0, <1>2, <2>1, <2>2, <2>3
<1> QED BY <1>1, <1>2

\* A count is taken and the list is searched: the task has found a node, or it was
\* misled by a count whose node the queue has lost.
LEMMA LookFacts ==
  ASSUME NotifierInv, NEW w \in Notify!Wanted, NEW n \in 1 .. 2,
         Taking = 0, ~corrupt, avail > 0,
         avail' = Notify!Counted(w), Notify!Look(w, n), UNCHANGED <<list, past>>
  PROVE  /\ task' \in Notify!Calls /\ corrupt' \in BOOLEAN /\ avail' \in Nat
         /\ Semaphore'
<1> DEFINE found == Notify!Found(w)
           l == Len(list)
<1>0. /\ list \in Seq(Events) /\ l \in Nat /\ l <= MaxList /\ avail \in Nat
      /\ list = <<>> <=> l = 0
      /\ MaxList \in Nat
  BY SysLinkAssumption DEF NotifierInv, Notify!TypeOK
<1>1. /\ found \in Nat
      /\ found <= l \/ (w.find = "head" /\ found = 1)
      /\ w.find = "head" => found = 1
  BY <1>0, FoundFacts
<1>2. avail' = IF found = 0 THEN avail ELSE avail - 1
  BY DEF Notify!Counted
<1>3. /\ "window" \in past \/ avail <= l
      /\ "timed" \in past \/ l <= avail
  BY <1>0 DEF NotifierInv, Semaphore
<1>4. IF w.find = "head" /\ l = 0
      THEN corrupt' = TRUE /\ task' = Notify!Idle
      ELSE /\ task' = IF found = 0 THEN Notify!Idle
                      ELSE [at |-> "read", want |-> w, taken |-> n, node |-> found]
           /\ UNCHANGED corrupt
  BY <1>0 DEF Notify!Look
<1>5. Notify!Idle \in Notify!Calls /\ Notify!Idle.at = "idle"
  BY DEF Notify!Idle, Notify!Calls
<1>6. l' = l
  OBVIOUS
<1> HIDE DEF found, l
<1>7. avail' \in Nat
  BY <1>0, <1>2
<1>8. CASE task' = Notify!Idle
  <2>1. Taking' = 0
    BY <1>5, <1>8 DEF Taking
  <2>2. corrupt' \in BOOLEAN /\ (corrupt' => "window" \in past)
    <3>1. corrupt = FALSE
      BY DEF NotifierInv, Notify!TypeOK
    <3>2. CASE w.find = "head" /\ l = 0
      <4>1. corrupt' = TRUE
        BY <1>4, <3>2
      <4>2. "window" \in past
        BY <1>0, <1>3, <3>2
      <4> QED BY <4>1, <4>2
    <3>3. CASE ~(w.find = "head" /\ l = 0)
      <4>1. corrupt' = FALSE
        BY <1>4, <3>1, <3>3
      <4> QED BY <4>1
    <3> QED BY <3>2, <3>3
  <2>3. l = 0 \/ avail' = avail
    <3>1. CASE w.find = "head" /\ l = 0
      BY <3>1
    <3>2. CASE ~(w.find = "head" /\ l = 0)
      <4>1. found = 0
        BY <1>4, <1>8, <3>2 DEF Notify!Idle
      <4> QED BY <4>1, <1>2
    <3> QED BY <3>1, <3>2
  <2>4. /\ "window" \in past' \/ avail' + Taking' <= l'
        /\ "timed" \in past' \/ l' <= avail' + Taking'
    BY <2>1, <2>3, <1>0, <1>1, <1>2, <1>3, <1>6, <1>7
  <2> QED BY <1>5, <1>7, <1>8, <2>1, <2>2, <2>4 DEF Semaphore, l
<1>9. CASE /\ found # 0 /\ found <= l /\ UNCHANGED corrupt
           /\ task' = [at |-> "read", want |-> w, taken |-> n, node |-> found]
  <2>1. Taking' = 1 /\ task'.node = found
    BY <1>9 DEF Taking
  <2>2. found \in 1 .. MaxList
    BY <1>0, <1>1, <1>9
  <2>3. task' \in Notify!Calls
    BY <1>9, <2>2 DEF Notify!Calls
  <2>4. /\ "window" \in past' \/ avail' + Taking' <= l'
        /\ "timed" \in past' \/ l' <= avail' + Taking'
        /\ task'.node <= l'
    BY <2>1, <1>0, <1>2, <1>3, <1>6, <1>7, <1>9
  <2>5. corrupt' = FALSE
    BY <1>9 DEF NotifierInv, Notify!TypeOK
  <2> QED BY <1>7, <2>1, <2>3, <2>4, <2>5 DEF Semaphore, l
<1> QED BY <1>0, <1>1, <1>4, <1>8, <1>9

LEMMA EventGet ==
  ASSUME NotifierInv, ~corrupt, Notify!notifier_event_get
  PROVE  NotifierInv'
<1>1. /\ task = Notify!Idle /\ Taking = 0 /\ qstat' = qstat
      /\ UNCHANGED <<marks, ntfcnt, regs, list, broken, past>>
  BY DEF Notify!notifier_event_get, Notify!Idle, Taking, NotifierInv,
         Notify!TryTake, Notify!Wait, Notify!queueVars
<1>2. task' \in Notify!Calls /\ corrupt' \in BOOLEAN /\ avail' \in Nat /\ Semaphore'
  <2>1. ASSUME NEW w \in Notify!Wanted, Notify!TryTake(w)
        PROVE  task' \in Notify!Calls /\ corrupt' \in BOOLEAN /\ avail' \in Nat
               /\ Semaphore'
    <3>1. /\ avail > 0 /\ avail' = Notify!Counted(w) /\ Notify!Look(w, 1)
          /\ UNCHANGED <<list, past>> /\ 1 \in 1 .. 2
      BY <2>1 DEF Notify!TryTake
    <3> QED BY <3>1, <1>1, LookFacts
  <2>2. ASSUME NEW w \in Notify!Wanted, NEW wait \in {"forever", "timed"},
               Notify!Wait(w, wait)
        PROVE  task' \in Notify!Calls /\ corrupt' \in BOOLEAN /\ avail' \in Nat
               /\ Semaphore'
    <3>1. task' = [at |-> "pend", want |-> w, wait |-> wait, taken |-> 0]
      BY <2>2 DEF Notify!Wait, Notify!Taker
    <3>2. task' \in Notify!Calls /\ Taking' = 0
      BY <3>1 DEF Notify!Calls, Taking
    <3>3. UNCHANGED <<list, avail, past, corrupt>>
      BY <2>2 DEF Notify!Wait, Notify!queueVars
    <3> QED BY <3>2, <3>3, <1>1 DEF NotifierInv, Semaphore, Notify!TypeOK
  <2> QED BY <2>1, <2>2 DEF Notify!notifier_event_get
<1> QED BY <1>1, <1>2 DEF NotifierInv, Notify!TypeOK

\* What a task that waits has in hand.
LEMMA WaitingFacts ==
  ASSUME NotifierInv, task.at = "pend"
  PROVE  /\ task.want \in Notify!Wanted /\ task.wait \in {"forever", "timed"}
         /\ task.taken \in 0 .. 1 /\ Taking = 0
<1>1. task \in [at: {"pend"}, want: Notify!Wanted, wait: {"forever", "timed"},
               taken: 0 .. 1]
  BY DEF NotifierInv, Notify!TypeOK, Notify!Calls, Notify!Idle
<1>2. task # Notify!Idle
  BY DEF Notify!Idle
<1> QED BY <1>1, <1>2 DEF Taking

LEMMA WaitEnds ==
  ASSUME NotifierInv, ~corrupt, Notify!Pend \/ Notify!PendTimesOut
  PROVE  NotifierInv'
<1>1. /\ task.at = "pend" /\ qstat' = qstat /\ past \subseteq past'
      /\ UNCHANGED <<marks, ntfcnt, regs, list, broken>>
  BY DEF Notify!Pend, Notify!PendTimesOut, Notify!queueVars
<1>2. /\ task.want \in Notify!Wanted /\ task.taken + 1 \in 1 .. 2 /\ Taking = 0
     
  BY <1>1, WaitingFacts
<1>3. /\ task' \in Notify!Calls /\ corrupt' \in BOOLEAN /\ avail' \in Nat
      /\ past' \subseteq {"window", "timed"} /\ Semaphore'
  <2>1. CASE Notify!PendTimesOut
    <3>1. task' = Notify!Idle /\ UNCHANGED <<list, avail, corrupt, past>>
      BY <2>1 DEF Notify!PendTimesOut, Notify!queueVars
    <3>2. task' \in Notify!Calls /\ Taking' = 0
      BY <3>1 DEF Notify!Calls, Notify!Idle, Taking
    <3> QED BY <3>1, <3>2, <1>2 DEF NotifierInv, Semaphore, Notify!TypeOK
  <2>2. CASE /\ Notify!Pend /\ avail' = avail - 1 /\ past' = past \union {"timed"}
             /\ task' = Notify!Taker(task.want, "forever", 1) /\ UNCHANGED corrupt
    <3>1. task' = [at |-> "pend", want |-> task.want, wait |-> "forever", taken |-> 1]
      BY <2>2 DEF Notify!Taker
    <3>2. task' \in Notify!Calls /\ Taking' = 0
      BY <3>1, <1>2 DEF Notify!Calls, Taking
    <3>3. avail > 0 /\ avail \in Nat /\ past \subseteq {"window", "timed"}
      BY <2>2 DEF Notify!Pend, NotifierInv, Notify!TypeOK
    <3>4. avail' \in Nat
      BY <2>2, <3>3
    <3>5. "window" \in past' \/ avail' + Taking' <= Len(list')
      <4> DEFINE l == Len(list)
      <4>1. l \in Nat /\ Len(list') = l /\ ("window" \in past \/ avail <= l)
        BY <1>1, <1>2, <3>3 DEF NotifierInv, Semaphore, Notify!TypeOK
      <4> HIDE DEF l
      <4> QED BY <4>1, <2>2, <3>2, <3>3
    <3>6. corrupt' = FALSE
      BY <2>2 DEF NotifierInv, Notify!TypeOK
    <3>7. past' \subseteq {"window", "timed"} /\ "timed" \in past'
      BY <2>2, <3>3
    <3>8. Semaphore'
      BY <3>2, <3>5, <3>6, <3>7 DEF Semaphore
    <3> QED BY <3>2, <3>4, <3>6, <3>7, <3>8
  <2>3. CASE /\ Notify!Pend /\ avail' = Notify!Counted(task.want)
             /\ Notify!Look(task.want, task.taken + 1) /\ UNCHANGED past
    <3>1. avail > 0
      BY <2>3 DEF Notify!Pend
    <3>2. /\ task' \in Notify!Calls /\ corrupt' \in BOOLEAN /\ avail' \in Nat
          /\ Semaphore'
      BY <1>1, <1>2, <2>3, <3>1, LookFacts
    <3> QED BY <2>3, <3>2 DEF NotifierInv, Notify!TypeOK
  <2> QED BY <2>1, <2>2, <2>3 DEF Notify!Pend
<1> QED BY <1>1, <1>3 DEF NotifierInv, Notify!TypeOK

\* What a task that removes a node has in hand.
LEMMA RemovingFacts ==
  ASSUME NotifierInv, task.at \in {"read", "half"}
  PROVE  /\ task \in [at: {"read", "half"}, want: Notify!Wanted, taken: 1 .. 2,
                     node: 1 .. MaxList]
         /\ task.node \in 1 .. Len(list) /\ Taking = 1
<1>1. task \in [at: {"read", "half"}, want: Notify!Wanted, taken: 1 .. 2,
               node: 1 .. MaxList]
  BY DEF NotifierInv, Notify!TypeOK, Notify!Calls, Notify!Idle
<1>2. task # Notify!Idle /\ Taking = 1
  BY DEF Notify!Idle, Taking
<1>3. task.node \in 1 .. MaxList /\ task.node <= Len(list) /\ list \in Seq(Events)
  BY <1>1, <1>2 DEF NotifierInv, Semaphore, Notify!TypeOK
<1> QED BY <1>1, <1>2, <1>3

LEMMA UnlinkStarts ==
  ASSUME NotifierInv, ~corrupt, Notify!UnlinkBack
  PROVE  NotifierInv'
<1>1. /\ task.at = "read" /\ task' = [task EXCEPT !.at = "half"] /\ broken' \in BOOLEAN
      /\ UNCHANGED <<marks, ntfcnt, regs, qstat, list, avail, corrupt, past>>
  BY DEF Notify!UnlinkBack
<1>2. /\ task \in [at: {"read", "half"}, want: Notify!Wanted, taken: 1 .. 2,
                  node: 1 .. MaxList]
      /\ Taking = 1
  BY <1>1, RemovingFacts
<1>3. /\ task' \in [at: {"read", "half"}, want: Notify!Wanted, taken: 1 .. 2,
                   node: 1 .. MaxList]
      /\ task'.at = "half" /\ task'.node = task.node
  BY <1>1, <1>2
<1>4. task' \in Notify!Calls /\ Taking' = 1
  BY <1>3 DEF Notify!Calls, Taking
<1>5. Semaphore'
  BY <1>1, <1>2, <1>3, <1>4 DEF NotifierInv, Semaphore
<1> QED BY <1>1, <1>4, <1>5 DEF NotifierInv, Notify!TypeOK

LEMMA RemovedOne ==
  ASSUME NEW s \in Seq(Events), NEW i \in 1 .. Len(s)
  PROVE  /\ Notify!RemoveAt(s, i) \in Seq(Events)
         /\ Len(Notify!RemoveAt(s, i)) = Len(s) - 1
<1> DEFINE front == SubSeq(s, 1, i - 1)
           back == SubSeq(s, i + 1, Len(s))
<1>1. /\ front \in Seq(Events) /\ Len(front) = i - 1
      /\ back \in Seq(Events) /\ Len(back) = Len(s) - i
  <2> DEFINE n == Len(s)
  <2>1. n \in Nat /\ i \in 1 .. n
    OBVIOUS
  <2>2. /\ 1 \in 1 .. n + 1 /\ i - 1 \in 1 - 1 .. n
        /\ i + 1 \in 1 .. n + 1 /\ n \in (i + 1) - 1 .. n
    BY <2>1
  <2> QED BY <2>1, <2>2, SubSeqProperties
<1> HIDE DEF front, back
<1>2. front \o back \in Seq(Events) /\ Len(front \o back) = Len(front) + Len(back)
  BY <1>1, ConcatProperties
<1>3. Len(front) + Len(back) = Len(s) - 1
  <2> DEFINE n == Len(s)
  <2>1. n \in Nat /\ i \in 1 .. n
    OBVIOUS
  <2>2. Len(front) = i - 1 /\ Len(back) = n - i
    BY <1>1
  <2> HIDE DEF n
  <2>3. Len(front) + Len(back) = n - 1
    BY <2>1, <2>2
  <2> QED BY <2>3 DEF n
<1>4. Notify!RemoveAt(s, i) = front \o back
  BY DEF front, back, Notify!RemoveAt
<1> QED BY <1>2, <1>3, <1>4

LEMMA UnlinkEnds ==
  ASSUME NotifierInv, ~corrupt, Notify!UnlinkForth
  PROVE  NotifierInv'
<1> DEFINE l == Len(list)
<1>1. /\ task.at = "half" /\ task' = Notify!Idle
      /\ list' = Notify!RemoveAt(list, task.node)
      /\ UNCHANGED <<marks, ntfcnt, regs, qstat, avail, broken, corrupt, past>>
  BY DEF Notify!UnlinkForth
<1>2. task.node \in 1 .. l /\ Taking = 1
  BY <1>1, RemovingFacts
<1>3. list \in Seq(Events) /\ l \in Nat /\ l <= MaxList /\ avail \in Nat /\ MaxList \in Nat
  BY SysLinkAssumption DEF NotifierInv, Notify!TypeOK
<1>4. list' \in Seq(Events) /\ l' = l - 1
  BY <1>1, <1>2, <1>3, RemovedOne
<1>5. task' \in Notify!Calls /\ Taking' = 0
  BY <1>1 DEF Notify!Calls, Notify!Idle, Taking
<1>6. /\ "window" \in past \/ avail + 1 <= l
      /\ "timed" \in past \/ l <= avail + 1
  BY <1>2 DEF NotifierInv, Semaphore
<1>7. Len(list') = l' /\ Len(list') <= MaxList
  <2> HIDE DEF l
  <2>1. l' <= MaxList
    BY <1>3, <1>4
  <2> QED BY <2>1 DEF l
<1>8. /\ "window" \in past' \/ avail' + Taking' <= Len(list')
      /\ "timed" \in past' \/ Len(list') <= avail' + Taking'
  <2> HIDE DEF l
  <2> QED BY <1>1, <1>3, <1>4, <1>5, <1>6, <1>7
<1>9. Semaphore'
  BY <1>1, <1>5, <1>8 DEF Semaphore
<1> QED BY <1>1, <1>4, <1>5, <1>7, <1>9 DEF NotifierInv, Notify!TypeOK

\* The interrupt appends an event, or the append is lost and the window is noted.
LEMMA CallbackStep ==
  ASSUME NotifierInv, ~corrupt, Notify!notifier_callback
  PROVE  NotifierInv'
<1> DEFINE l == Len(list)
<1>1. PICK ev \in regs :
        /\ l < MaxList /\ qstat # "none"
        /\ Notify!event_queue_push(ev) \/ (/\ qstat' = "NOMEM"
                                         /\ UNCHANGED <<list, avail, broken, past>>)
  BY DEF Notify!notifier_callback
<1>2. UNCHANGED <<marks, ntfcnt, regs, task, corrupt>>
  BY DEF Notify!notifier_callback
<1>3. /\ list \in Seq(Events) /\ l \in Nat /\ avail \in Nat /\ MaxList \in Nat
      /\ ev \in Events /\ Taking \in 0 .. 1 /\ Taking' = Taking
  BY <1>1, <1>2, SysLinkAssumption DEF NotifierInv, Notify!TypeOK, Taking
<1>4. /\ qstat' \in {"NORMAL", "OVERFLOW", "NOMEM"}
      /\ \/ UNCHANGED <<list, avail, broken, past>>
         \/ Notify!LinkTail(ev)
  BY <1>1 DEF Notify!event_queue_push, Notify!queueVars, NotifierInv, Notify!TypeOK
<1>5. CASE UNCHANGED <<list, avail, broken, past>>
  <2>1. Semaphore'
    BY <1>2, <1>3, <1>5 DEF NotifierInv, Semaphore
  <2> QED BY <2>1, <1>2, <1>4, <1>5 DEF NotifierInv, Notify!TypeOK
<1>6. ASSUME Notify!LinkTail(ev), avail' = avail + 1,
             past' = past \union {"window"}, UNCHANGED list
      PROVE  NotifierInv'
  <2>1. broken' \in BOOLEAN
    BY <1>6 DEF Notify!LinkTail, NotifierInv, Notify!TypeOK
  <2>2. /\ "window" \in past' /\ past' \subseteq {"window", "timed"}
        /\ avail' \in Nat /\ ("timed" \in past' \/ "timed" \notin past)
    BY <1>3, <1>6 DEF NotifierInv, Notify!TypeOK
  <2>3. "timed" \in past' \/ l <= avail' + Taking'
    <3>1. "timed" \in past \/ l <= avail + Taking
      BY DEF NotifierInv, Semaphore
    <3> HIDE DEF l
    <3> QED BY <3>1, <1>3, <1>6
  <2>4. Semaphore'
    BY <2>2, <2>3, <1>2, <1>3, <1>6 DEF NotifierInv, Semaphore
  <2> QED BY <2>1, <2>2, <2>4, <1>2, <1>4, <1>6 DEF NotifierInv, Notify!TypeOK
<1>7. ASSUME avail' = avail + 1, list' = Append(list, ev), UNCHANGED <<broken, past>>
      PROVE  NotifierInv'
  <2>1. list' \in Seq(Events) /\ Len(list') = l + 1
    BY <1>3, <1>7
  <2>2. /\ "window" \in past \/ avail + Taking <= l
        /\ "timed" \in past \/ l <= avail + Taking
        /\ Taking = 1 => task.node \in 1 .. l
    BY RemovingFacts DEF NotifierInv, Semaphore, Taking
  <2>3. /\ Len(list') <= MaxList /\ avail' \in Nat
        /\ "window" \in past' \/ avail' + Taking' <= Len(list')
        /\ "timed" \in past' \/ Len(list') <= avail' + Taking'
        /\ Taking' = 1 => task'.node <= Len(list')
    <3> HIDE DEF l
    <3> QED BY <2>1, <2>2, <1>1, <1>2, <1>3, <1>7
  <2>4. Semaphore'
    BY <2>3, <1>2, <1>7 DEF NotifierInv, Semaphore
  <2> QED BY <2>1, <2>3, <2>4, <1>2, <1>4, <1>7 DEF NotifierInv, Notify!TypeOK
<1>8. CASE Notify!LinkTail(ev)
  BY <1>6, <1>7, <1>8 DEF Notify!LinkTail
<1> QED BY <1>4, <1>5, <1>8

LEMMA NotifierStep == NotifierInv /\ [Notify!Next]_notifierVars => NotifierInv'
<1> SUFFICES ASSUME NotifierInv, [Notify!Next]_notifierVars PROVE NotifierInv'
  OBVIOUS
<1>1. CASE UNCHANGED notifierVars
  BY <1>1 DEF notifierVars, NotifierInv, Notify!TypeOK, Semaphore, Taking
<1>2. CASE Notify!Next
  <2>1. ~corrupt
    BY <1>2 DEF Notify!Next
  <2>2. CASE Managing
    BY <2>1, <2>2, ManagingStep
  <2>3. CASE Notify!notifier_event_get
    BY <2>1, <2>3, EventGet
  <2>4. CASE Notify!Pend \/ Notify!PendTimesOut
    BY <2>1, <2>4, WaitEnds
  <2>5. CASE Notify!UnlinkBack
    BY <2>1, <2>5, UnlinkStarts
  <2>6. CASE Notify!UnlinkForth
    BY <2>1, <2>6, UnlinkEnds
  <2>7. CASE Notify!notifier_callback
    BY <2>1, <2>7, CallbackStep
  <2> QED BY <1>2, <2>2, <2>3, <2>4, <2>5, <2>6, <2>7 DEF Notify!Next, Managing
<1> QED BY <1>1, <1>2

LEMMA NotifierFacts ==
  NotifierInv => Notify!TypeOK /\ Notify!PopFindsEvent /\ Notify!NoneStranded
BY DEF NotifierInv, Semaphore, Taking, Notify!PopFindsEvent, Notify!NoneStranded,
       Notify!Removing

-----------------------------------------------------------------------------
(***************************************************************************)
(* A ring pipe.                                                            *)
(***************************************************************************)

\* A writer's end without its buffer is accounted for: RingIO refused to close it.
Accounted(s) ==
    /\ s \in Pipe!Pipes
    /\ "WRITER" \in s.ends /\ "buffer" \notin s.there => "WRITER" \in s.refused

\* What the pipe has a handle of, and what RingIO keeps that it neither has a handle
\* of nor was refused.
Held(s) == s.ends \union (IF s.handle THEN {"buffer"} ELSE {})
Unheld(s) == (s.there \ s.refused) \ Held(s)

\* Nothing is held, or no reader, but what RingIO refused to give up.
Stuck(s) == Held(s) \subseteq s.refused
ReaderStuck(s) == "READER" \in s.ends => "READER" \in s.refused

\* What every call but the construction and the destruction does; a call that opens
\* nothing is shut as well.
Kept(s, t) ==
    /\ Accounted(t)
    /\ "VALID" \in s.status => "VALID" \in t.status
    /\ Unheld(t) \subseteq Unheld(s)

Shut(s, t) ==
    /\ Kept(s, t)
    /\ Stuck(s) => Stuck(t)
    /\ ReaderStuck(s) => ReaderStuck(t)

PipeInv ==
    /\ Pipe!TypeOK /\ Accounted(pipe)
    /\ passed = "dangling" => "WRITER" \in pipe.refused

LEMMA KeptTwice ==
  ASSUME NEW s, NEW t, NEW u, Kept(s, t), Kept(t, u)
  PROVE  Kept(s, u)
BY DEF Kept

LEMMA ShutTwice ==
  ASSUME NEW s, NEW t, NEW u, Shut(s, t), Shut(t, u)
  PROVE  Shut(s, u)
BY KeptTwice DEF Shut

LEMMA ShutSame == ASSUME NEW s, Accounted(s) PROVE Shut(s, s)
BY DEF Shut, Kept

LEMMA PipeCodes ==
  /\ {"OK", "FAIL", "INVALID", "OPEN", "REOPEN", "BUFEXIST", "NOTIFYEXIST"} = Pipe!Codes
  /\ Pipe!Ends = {"READER", "WRITER"}
  /\ Pipe!Parts = {"READER", "WRITER", "buffer"}
  /\ Pipe!NotifyMark("READER") = "RNOTIFY" /\ Pipe!NotifyMark("WRITER") = "WNOTIFY"
BY DEF Pipe!Codes, Pipe!Ends, Pipe!Parts, Pipe!NotifyMark

\* A call that leaves the handles and RingIO alone.
LEMMA AloneFacts ==
  ASSUME NEW s, Accounted(s), NEW t \in Pipe!Pipes,
         t.handle = s.handle, t.ends = s.ends, t.there = s.there, t.refused = s.refused,
         "VALID" \in s.status => "VALID" \in t.status
  PROVE  Shut(s, t)
BY DEF Shut, Kept, Accounted, Unheld, Held, Stuck, ReaderStuck

LEMMA ReturnFacts ==
  ASSUME NEW s, Accounted(s), NEW c \in Pipe!Codes, NEW t, t = Pipe!Return(s, c)
  PROVE  /\ Shut(s, t)
         /\ t.status = s.status /\ t.handle = s.handle /\ t.ends = s.ends
         /\ t.there = s.there /\ t.refused = s.refused /\ t.rc = c
<1>1. /\ t \in Pipe!Pipes
      /\ t.status = s.status /\ t.handle = s.handle /\ t.ends = s.ends
      /\ t.there = s.there /\ t.refused = s.refused /\ t.rc = c
  BY DEF Accounted, Pipe!Return, Pipe!Pipes
<1> QED BY <1>1, AloneFacts

LEMMA BufferDeleteFacts ==
  ASSUME NEW s, Accounted(s), "WRITER" \in s.ends => "WRITER" \in s.refused,
         NEW t \in Pipe!BufferDelete(s)
  PROVE  /\ Shut(s, t)
         /\ t.status = s.status /\ t.ends = s.ends
         /\ t.refused \ {"buffer"} = s.refused \ {"buffer"}
         /\ t.handle => "buffer" \in t.refused
<1>1. s \in Pipe!Pipes
  BY DEF Accounted
<1> USE PipeCodes
<1>2. CASE ~s.handle /\ t = Pipe!Return(s, "OK")
  <2>1. "OK" \in Pipe!Codes
    OBVIOUS
  <2> QED BY <1>2, <2>1, ReturnFacts
<1>3. CASE t = [s EXCEPT !.refused = s.refused \union {"buffer"}, !.rc = "FAIL"]
  <2>1. t \in Pipe!Pipes
    BY <1>1, <1>3 DEF Pipe!Pipes
  <2>2. /\ t.status = s.status /\ t.ends = s.ends /\ t.there = s.there
        /\ t.handle = s.handle /\ t.refused = s.refused \union {"buffer"}
    BY <1>1, <1>3 DEF Pipe!Pipes
  <2> QED BY <2>1, <2>2 DEF Shut, Kept, Accounted, Unheld, Held, Stuck, ReaderStuck
<1>4. CASE t = [s EXCEPT !.handle = FALSE, !.there = s.there \ {"buffer"},
                         !.refused = s.refused \ {"buffer"}, !.rc = "OK"]
  <2>1. t \in Pipe!Pipes
    BY <1>1, <1>4 DEF Pipe!Pipes
  <2>2. /\ t.status = s.status /\ t.ends = s.ends /\ t.there = s.there \ {"buffer"}
        /\ ~t.handle /\ t.refused = s.refused \ {"buffer"}
        /\ s.ends \subseteq {"READER", "WRITER"}
    BY <1>1, <1>4 DEF Pipe!Pipes
  <2>3. Kept(s, t)
    BY <2>1, <2>2 DEF Kept, Accounted, Unheld, Held
  <2> QED BY <2>2, <2>3 DEF Shut, Held, Stuck, ReaderStuck
<1> QED BY <1>2, <1>3, <1>4 DEF Pipe!BufferDelete, Pipe!RingIO_delete

LEMMA CloseHandleFacts ==
  ASSUME NEW s, Accounted(s), NEW e \in Pipe!Ends, NEW t \in Pipe!CloseHandle(s, e)
  PROVE  /\ Shut(s, t)
         /\ t.status = s.status /\ t.handle = s.handle
         /\ e \in t.ends => e \in t.refused
<1>1. s \in Pipe!Pipes
  BY DEF Accounted
<1> USE PipeCodes
<1>2. CASE e \notin s.ends /\ t = Pipe!Return(s, "OK")
  <2>1. "OK" \in Pipe!Codes
    OBVIOUS
  <2> QED BY <1>2, <2>1, ReturnFacts
<1>3. CASE t = [s EXCEPT !.refused = s.refused \union {e}, !.rc = "FAIL"]
  <2>1. t \in Pipe!Pipes
    BY <1>1, <1>3 DEF Pipe!Pipes
  <2>2. /\ t.status = s.status /\ t.ends = s.ends /\ t.there = s.there
        /\ t.handle = s.handle /\ t.refused = s.refused \union {e}
    BY <1>1, <1>3 DEF Pipe!Pipes
  <2> QED BY <2>1, <2>2 DEF Shut, Kept, Accounted, Unheld, Held, Stuck, ReaderStuck
<1>4. CASE t = [s EXCEPT !.ends = s.ends \ {e}, !.there = s.there \ {e},
                         !.told = s.told \ {e}, !.refused = s.refused \ {e},
                         !.rc = "OK"]
  <2>1. t \in Pipe!Pipes
    BY <1>1, <1>4 DEF Pipe!Pipes
  <2>2. /\ t.status = s.status /\ t.ends = s.ends \ {e} /\ t.there = s.there \ {e}
        /\ t.handle = s.handle /\ t.refused = s.refused \ {e} /\ e # "buffer"
    BY <1>1, <1>4 DEF Pipe!Pipes
  <2>3. Kept(s, t)
    BY <2>1, <2>2 DEF Kept, Accounted, Unheld, Held
  <2> QED BY <2>2, <2>3 DEF Shut, Held, Stuck, ReaderStuck
<1> QED BY <1>2, <1>3, <1>4 DEF Pipe!CloseHandle, Pipe!RingIO_close

LEMMA UnmarkFacts ==
  ASSUME NEW s, Accounted(s), NEW e \in Pipe!Ends, NEW t, t = Pipe!Unmark(s, e)
  PROVE  /\ Shut(s, t)
         /\ t.handle = s.handle /\ t.ends = s.ends /\ t.refused = s.refused
         /\ t.rc = s.rc
<1> DEFINE left == s.status \ {Pipe!NotifyMark(e)}
           left2 == IF {"RNOTIFY", "WNOTIFY"} \intersect left = {}
                    THEN left \ {"OPEN"} ELSE left
<1>1. s \in Pipe!Pipes
  BY DEF Accounted
<1>2. t = [s EXCEPT !.status = left2]
  BY DEF Pipe!Unmark
<1>3. left2 \in SUBSET Pipe!Marks
  BY <1>1 DEF Pipe!Pipes
<1>4. "VALID" \in s.status => "VALID" \in left2
  BY DEF Pipe!NotifyMark
<1> HIDE DEF left, left2
<1>5. t \in Pipe!Pipes
  BY <1>1, <1>2, <1>3 DEF Pipe!Pipes
<1>6. /\ t.status = left2 /\ t.there = s.there /\ t.rc = s.rc
      /\ t.handle = s.handle /\ t.ends = s.ends /\ t.refused = s.refused
  BY <1>1, <1>2 DEF Pipe!Pipes
<1> QED BY <1>4, <1>5, <1>6, AloneFacts

LEMMA CloseReaderFacts ==
  ASSUME NEW s, Accounted(s), NEW t \in Pipe!CloseReader(s)
  PROVE  Shut(s, t)
<1>1. PICK c \in Pipe!CloseHandle(s, "READER") : t = Pipe!Unmark(c, "READER")
  BY DEF Pipe!CloseReader
<1>2. Shut(s, c) /\ Accounted(c)
  BY PipeCodes, CloseHandleFacts DEF Shut, Kept
<1>3. Shut(c, t)
  BY <1>1, <1>2, PipeCodes, UnmarkFacts
<1> QED BY <1>2, <1>3, ShutTwice

\* Once the writer is closed and the buffer deleted, only the reader can be held that
\* was not refused.
LEMMA CloseWriterFacts ==
  ASSUME NEW s, Accounted(s), NEW t \in Pipe!CloseWriter(s)
  PROVE  Shut(s, t) /\ (ReaderStuck(s) => Stuck(t))
<1>1. PICK c \in Pipe!CloseHandle(s, "WRITER") :
        t \in IF ~c.handle THEN {Pipe!Unmark(c, "WRITER")}
              ELSE Pipe!Then(Pipe!BufferDelete(c),
                             LAMBDA d : {Pipe!Unmark(d, "WRITER")})
  BY DEF Pipe!CloseWriter, Pipe!Always
<1>2. /\ Shut(s, c) /\ Accounted(c)
      /\ "WRITER" \in c.ends => "WRITER" \in c.refused
      /\ c.ends \subseteq {"READER", "WRITER"}
  BY PipeCodes, CloseHandleFacts DEF Shut, Kept, Accounted, Pipe!Pipes
<1>3. CASE ~c.handle
  <2>1. t = Pipe!Unmark(c, "WRITER")
    BY <1>1, <1>3
  <2>2. Shut(c, t)
    BY <1>2, <2>1, PipeCodes, UnmarkFacts
  <2>3. ReaderStuck(c) => Stuck(c)
    BY <1>2, <1>3 DEF ReaderStuck, Stuck, Held
  <2>4. ReaderStuck(s) => Stuck(t)
    BY <1>2, <2>2, <2>3 DEF Shut
  <2> QED BY <1>2, <2>2, <2>4, ShutTwice
<1>4. CASE c.handle
  <2>1. PICK d \in Pipe!BufferDelete(c) : t = d \/ t = Pipe!Unmark(d, "WRITER")
    BY <1>1, <1>4 DEF Pipe!Then
  <2>2. /\ Shut(c, d) /\ Accounted(d) /\ d.ends = c.ends
        /\ d.refused \ {"buffer"} = c.refused \ {"buffer"}
        /\ d.handle => "buffer" \in d.refused
    BY <1>2, BufferDeleteFacts DEF Shut, Kept
  <2>3. Shut(d, t)
    BY <2>1, <2>2, PipeCodes, UnmarkFacts, ShutSame
  <2>4. ReaderStuck(d) => Stuck(d)
    BY <1>2, <2>2 DEF ReaderStuck, Stuck, Held
  <2>5. Shut(s, d)
    BY <1>2, <2>2, ShutTwice
  <2>6. ReaderStuck(s) => Stuck(t)
    BY <2>3, <2>4, <2>5 DEF Shut
  <2> QED BY <2>3, <2>5, <2>6, ShutTwice
<1> QED BY <1>3, <1>4

LEMMA CloseFacts ==
  ASSUME NEW s, Accounted(s), NEW e \in Pipe!Ends, NEW t \in Pipe!Close(s, e)
  PROVE  /\ Shut(s, t)
         /\ "VALID" \in s.status /\ e = "WRITER" /\ ReaderStuck(s) => Stuck(t)
<1>1. CASE "VALID" \in s.status /\ e = "READER"
  <2>1. t \in Pipe!CloseReader(s)
    BY <1>1 DEF Pipe!Close, Pipe!Valid
  <2> QED BY <1>1, <2>1, CloseReaderFacts
<1>2. CASE "VALID" \in s.status /\ e # "READER"
  <2>1. t \in Pipe!CloseWriter(s)
    BY <1>2 DEF Pipe!Close, Pipe!Valid
  <2> QED BY <1>2, <2>1, CloseWriterFacts
<1>3. CASE "VALID" \notin s.status
  <2>1. t = Pipe!Return(s, "INVALID") /\ "INVALID" \in Pipe!Codes
    BY <1>3, PipeCodes DEF Pipe!Close, Pipe!Valid
  <2> QED BY <1>3, <2>1, ReturnFacts
<1> QED BY <1>1, <1>2, <1>3

LEMMA CloseAllFacts ==
  ASSUME NEW s, Accounted(s), NEW t \in Pipe!CloseAll(s)
  PROVE  Shut(s, t)
<1>1. PICK r \in Pipe!Close(s, "READER") : t = r \/ t \in Pipe!Close(r, "WRITER")
  BY DEF Pipe!CloseAll, Pipe!Then
<1>2. Shut(s, r) /\ Accounted(r)
  BY PipeCodes, CloseFacts DEF Shut, Kept
<1>3. t = r \/ Shut(r, t)
  BY <1>1, <1>2, PipeCodes, CloseFacts
<1> QED BY <1>2, <1>3, ShutTwice

LEMMA MarkedFacts ==
  ASSUME NEW s, Accounted(s), NEW e \in Pipe!Ends, NEW t, t = Pipe!Marked(s, e)
  PROVE  Shut(s, t) /\ t.rc = s.rc
<1>1. s \in Pipe!Pipes
  BY DEF Accounted
<1>2. s.status \union {e, "OPEN"} \in SUBSET Pipe!Marks
  BY <1>1, PipeCodes DEF Pipe!Pipes, Pipe!Marks
<1>3. t \in Pipe!Pipes
  BY <1>1, <1>2 DEF Pipe!Pipes, Pipe!Marked
<1>4. /\ t.status = s.status \union {e, "OPEN"} /\ t.there = s.there /\ t.rc = s.rc
      /\ t.handle = s.handle /\ t.ends = s.ends /\ t.refused = s.refused
  BY <1>1 DEF Pipe!Pipes, Pipe!Marked
<1> QED BY <1>3, <1>4, AloneFacts

LEMMA RingOpenFacts ==
  ASSUME NEW s, Accounted(s), NEW e \in Pipe!Ends,
         e = "WRITER" => "buffer" \in s.there,
         NEW t \in Pipe!RingIO_open(s, e)
  PROVE  /\ Kept(s, t) /\ t.status = s.status /\ t.refused = s.refused
         /\ t.rc # "OK" => Shut(s, t) /\ t.ends = s.ends
         /\ e = "WRITER" /\ ReaderStuck(s) => ReaderStuck(t)
<1>1. s \in Pipe!Pipes
  BY DEF Accounted
<1> USE PipeCodes
<1>2. CASE t = Pipe!Return(s, "FAIL")
  <2>1. "FAIL" \in Pipe!Codes
    OBVIOUS
  <2> QED BY <1>2, <2>1, ReturnFacts DEF Shut
<1>3. CASE t = [s EXCEPT !.ends = s.ends \union {e}, !.there = s.there \union {e},
                         !.rc = "OK"]
  <2>1. t \in Pipe!Pipes
    BY <1>1, <1>3 DEF Pipe!Pipes
  <2>2. /\ t.status = s.status /\ t.ends = s.ends \union {e} /\ t.refused = s.refused
        /\ t.handle = s.handle /\ t.there = s.there \union {e} /\ t.rc = "OK"
    BY <1>1, <1>3 DEF Pipe!Pipes
  <2> QED BY <2>1, <2>2 DEF Kept, Accounted, Unheld, Held, ReaderStuck
<1> QED BY <1>2, <1>3 DEF Pipe!RingIO_open

LEMMA RingCreateFacts ==
  ASSUME NEW s, Accounted(s), NEW t \in Pipe!RingIO_create(s)
  PROVE  /\ Kept(s, t) /\ t.status = s.status /\ t.ends = s.ends
         /\ t.refused = s.refused
         /\ t.rc # "OK" => Shut(s, t)
         /\ t.rc = "OK" => "buffer" \in t.there
<1>1. s \in Pipe!Pipes
  BY DEF Accounted
<1> USE PipeCodes
<1>2. CASE t = Pipe!Return(s, "FAIL")
  <2>1. "FAIL" \in Pipe!Codes
    OBVIOUS
  <2> QED BY <1>2, <2>1, ReturnFacts DEF Shut
<1>3. CASE t = [s EXCEPT !.handle = TRUE, !.there = s.there \union {"buffer"}, !.rc = "OK"]
  <2>1. t \in Pipe!Pipes
    BY <1>1, <1>3 DEF Pipe!Pipes
  <2>2. /\ t.status = s.status /\ t.ends = s.ends /\ t.refused = s.refused
        /\ t.handle /\ t.there = s.there \union {"buffer"} /\ t.rc = "OK"
    BY <1>1, <1>3 DEF Pipe!Pipes
  <2> QED BY <2>1, <2>2 DEF Kept, Accounted, Unheld, Held
<1> QED BY <1>2, <1>3 DEF Pipe!RingIO_create

LEMMA OpenReaderFacts ==
  ASSUME NEW s, Accounted(s), NEW t \in Pipe!OpenReader(s)
  PROVE  Kept(s, t) /\ (t.rc # "OK" => Shut(s, t))
<1>1. CASE "READER" \in s.ends
  <2>1. t = Pipe!Return(s, "REOPEN") /\ "REOPEN" \in Pipe!Codes
    BY <1>1, PipeCodes DEF Pipe!OpenReader
  <2> QED BY <2>1, ReturnFacts DEF Shut
<1>2. CASE "READER" \notin s.ends
  <2>1. PICK o \in Pipe!RingIO_open(s, "READER") : t = Pipe!Marked(o, "READER")
    BY <1>2 DEF Pipe!OpenReader
  <2>2. Kept(s, o) /\ Accounted(o) /\ (o.rc # "OK" => Shut(s, o))
    BY PipeCodes, RingOpenFacts DEF Kept
  <2>3. Shut(o, t) /\ t.rc = o.rc
    BY <2>1, <2>2, PipeCodes, MarkedFacts
  <2>4. Kept(s, t)
    BY <2>2, <2>3, KeptTwice DEF Shut
  <2>5. t.rc # "OK" => Shut(s, t)
    BY <2>2, <2>3, ShutTwice
  <2> QED BY <2>4, <2>5
<1> QED BY <1>1, <1>2

\* The writer that cannot be opened leaves no buffer but one RingIO refused to delete.
LEMMA OpenWriterFacts ==
  ASSUME NEW s, Accounted(s), NEW t \in Pipe!OpenWriter(s)
  PROVE  /\ Kept(s, t)
         /\ ReaderStuck(s) => ReaderStuck(t)
         /\ t.rc # "OK" /\ Stuck(s) => Stuck(t)
<1>1. CASE \/ t = Pipe!Return(s, "REOPEN")
           \/ t = Pipe!Return(s, "BUFEXIST")
  <2>1. {"REOPEN", "BUFEXIST"} \subseteq Pipe!Codes
    BY PipeCodes
  <2> QED BY <1>1, <2>1, ReturnFacts DEF Shut
<1>2. CASE "WRITER" \notin s.ends /\ ~s.handle
  <2>1. PICK c \in Pipe!RingIO_create(s) :
          IF c.rc # "OK" THEN t = c
          ELSE t \in Pipe!Always(Pipe!RingIO_open(c, "WRITER"), LAMBDA o :
                    IF Pipe!Bad(o) THEN {Pipe!Return(d, o.rc) : d \in Pipe!BufferDelete(o)}
                    ELSE {Pipe!Marked(o, "WRITER")})
    BY <1>2 DEF Pipe!OpenWriter, Pipe!Then, Pipe!Bad
  <2>2. /\ Kept(s, c) /\ Accounted(c) /\ c.ends = s.ends /\ c.refused = s.refused
        /\ c.rc # "OK" => Shut(s, c)
        /\ c.rc = "OK" => "buffer" \in c.there
    BY RingCreateFacts DEF Kept
  <2>3. CASE c.rc # "OK"
    BY <2>1, <2>2, <2>3 DEF Shut
  <2>4. CASE c.rc = "OK"
    <3>1. PICK o \in Pipe!RingIO_open(c, "WRITER") :
            IF o.rc # "OK" THEN \E d \in Pipe!BufferDelete(o) : t = Pipe!Return(d, o.rc)
            ELSE t = Pipe!Marked(o, "WRITER")
      BY <2>1, <2>4 DEF Pipe!Always, Pipe!Bad
    <3>2. /\ Kept(c, o) /\ o.refused = c.refused
          /\ o.rc # "OK" => o.ends = c.ends
          /\ ReaderStuck(c) => ReaderStuck(o)
      BY <2>2, <2>4, PipeCodes, RingOpenFacts
    <3>3. /\ Kept(s, o) /\ Accounted(o)
          /\ ReaderStuck(s) => ReaderStuck(o)
      BY <2>2, <3>2, KeptTwice DEF Kept, ReaderStuck
    <3>4. CASE o.rc = "OK"
      <4>1. t = Pipe!Marked(o, "WRITER")
        BY <3>1, <3>4
      <4>2. Shut(o, t) /\ t.rc = "OK"
        BY <3>3, <3>4, <4>1, PipeCodes, MarkedFacts
      <4> QED BY <3>3, <4>2, KeptTwice DEF Shut
    <3>5. CASE o.rc # "OK"
      <4>1. PICK d \in Pipe!BufferDelete(o) : t = Pipe!Return(d, o.rc)
        BY <3>1, <3>5
      <4>2. "WRITER" \notin o.ends /\ o.ends = s.ends
        BY <1>2, <2>2, <3>2, <3>5
      <4>3. /\ Shut(o, d) /\ Accounted(d) /\ d.ends = o.ends
            /\ d.refused \ {"buffer"} = o.refused \ {"buffer"}
            /\ d.handle => "buffer" \in d.refused
        BY <3>3, <4>2, BufferDeleteFacts DEF Shut, Kept
      <4>4. o.rc \in Pipe!Codes /\ s.ends \subseteq {"READER", "WRITER"}
        BY <3>3, PipeCodes DEF Accounted, Pipe!Pipes
      <4>5. Shut(d, t)
        BY <4>1, <4>3, <4>4, ReturnFacts
      <4>6. Shut(o, t)
        BY <4>3, <4>5, ShutTwice
      <4>7. Stuck(s) => Stuck(d)
        BY <2>2, <3>2, <4>2, <4>3, <4>4 DEF Stuck, Held
      <4> QED BY <3>3, <4>5, <4>6, <4>7, KeptTwice DEF Shut
    <3> QED BY <3>4, <3>5
  <2> QED BY <2>3, <2>4
<1> QED BY <1>1, <1>2 DEF Pipe!OpenWriter

LEMMA OpenFacts ==
  ASSUME NEW s, Accounted(s), NEW e \in Pipe!Ends, NEW t \in Pipe!Open(s, e)
  PROVE  /\ Kept(s, t)
         /\ e = "WRITER" /\ ReaderStuck(s) => ReaderStuck(t)
         /\ t.rc # "OK" /\ Stuck(s) => Stuck(t)
         /\ t.rc # "OK" /\ ReaderStuck(s) => ReaderStuck(t)
<1>1. CASE "VALID" \in s.status /\ e = "READER"
  <2>1. t \in Pipe!OpenReader(s)
    BY <1>1 DEF Pipe!Open, Pipe!Valid
  <2> QED BY <1>1, <2>1, OpenReaderFacts DEF Shut
<1>2. CASE "VALID" \in s.status /\ e # "READER"
  <2>1. t \in Pipe!OpenWriter(s)
    BY <1>2 DEF Pipe!Open, Pipe!Valid
  <2> QED BY <1>2, <2>1, OpenWriterFacts
<1>3. CASE "VALID" \notin s.status
  <2>1. t = Pipe!Return(s, "INVALID") /\ "INVALID" \in Pipe!Codes
    BY <1>3, PipeCodes DEF Pipe!Open, Pipe!Valid
  <2> QED BY <2>1, ReturnFacts DEF Shut
<1> QED BY <1>1, <1>2, <1>3

LEMMA RegisterFacts ==
  ASSUME NEW s, Accounted(s), NEW e \in Pipe!Ends, NEW t \in Pipe!Register(s, e)
  PROVE  Shut(s, t)
<1>1. s \in Pipe!Pipes
  BY DEF Accounted
<1>2. CASE \E c \in {"INVALID", "NOTIFYEXIST", "OPEN", "FAIL"} : t = Pipe!Return(s, c)
  <2>1. {"INVALID", "NOTIFYEXIST", "OPEN", "FAIL"} \subseteq Pipe!Codes
    BY PipeCodes
  <2> QED BY <1>2, <2>1, ReturnFacts
<1>3. CASE t = [s EXCEPT !.told = s.told \union {e}, !.rc = "OK",
                         !.status = s.status \union {Pipe!NotifyMark(e)}]
  <2>1. /\ s.told \union {e} \in SUBSET Pipe!Ends /\ "OK" \in Pipe!Codes
        /\ s.status \union {Pipe!NotifyMark(e)} \in SUBSET Pipe!Marks
    BY <1>1, PipeCodes DEF Pipe!Pipes, Pipe!Marks, Pipe!NotifyMark
  <2>2. t \in Pipe!Pipes
    BY <1>1, <1>3, <2>1 DEF Pipe!Pipes
  <2>3. /\ t.status = s.status \union {Pipe!NotifyMark(e)} /\ t.ends = s.ends
        /\ t.handle = s.handle /\ t.refused = s.refused /\ t.there = s.there
    BY <1>1, <1>3 DEF Pipe!Pipes
  <2> QED BY <2>2, <2>3, AloneFacts
<1> QED BY <1>2, <1>3 DEF Pipe!Register, Pipe!Valid

LEMMA UnregisterFacts ==
  ASSUME NEW s, Accounted(s), NEW e \in Pipe!Ends, NEW t \in Pipe!Unregister(s, e)
  PROVE  Shut(s, t)
<1>1. s \in Pipe!Pipes
  BY DEF Accounted
<1>2. CASE \E c \in {"INVALID", "FAIL", "OK"} : t = Pipe!Return(s, c)
  <2>1. {"INVALID", "FAIL", "OK"} \subseteq Pipe!Codes
    BY PipeCodes
  <2> QED BY <1>2, <2>1, ReturnFacts
<1>3. CASE t = [s EXCEPT !.told = s.told \ {e}, !.rc = "OK",
                         !.status = s.status \ {Pipe!NotifyMark(e)}]
  <2>1. /\ s.told \ {e} \in SUBSET Pipe!Ends /\ "OK" \in Pipe!Codes
        /\ s.status \ {Pipe!NotifyMark(e)} \in SUBSET Pipe!Marks
    BY <1>1, PipeCodes DEF Pipe!Pipes
  <2>2. t \in Pipe!Pipes
    BY <1>1, <1>3, <2>1 DEF Pipe!Pipes
  <2>3. /\ t.status = s.status \ {Pipe!NotifyMark(e)} /\ t.ends = s.ends
        /\ t.handle = s.handle /\ t.refused = s.refused /\ t.there = s.there
    BY <1>1, <1>3 DEF Pipe!Pipes
  <2>4. Pipe!NotifyMark(e) # "VALID"
    BY DEF Pipe!NotifyMark
  <2> QED BY <2>2, <2>3, <2>4, AloneFacts
<1> QED BY <1>2, <1>3 DEF Pipe!Unregister, Pipe!Valid

\* The destruction opens nothing, but clears the marks.
LEMMA DestructFacts ==
  ASSUME NEW s, Accounted(s), NEW t \in Pipe!Destruct(s)
  PROVE  Accounted(t) /\ Unheld(t) \subseteq Unheld(s) /\ (Stuck(s) => Stuck(t))
<1> USE PipeCodes
<1>1. CASE "VALID" \notin s.status
  <2>1. t = Pipe!Return(s, "INVALID") /\ "INVALID" \in Pipe!Codes
    BY <1>1 DEF Pipe!Destruct, Pipe!Valid
  <2> QED BY <2>1, ReturnFacts DEF Shut, Kept
<1>2. CASE "VALID" \in s.status
  <2>1. PICK r \in Pipe!Unregister(s, "READER") :
          t = r \/ t \in Pipe!Then(Pipe!Unregister(r, "WRITER"), LAMBDA w :
                 Pipe!Then(IF "OPEN" \in w.status THEN Pipe!CloseAll(w) ELSE {w},
                           LAMBDA c : {[c EXCEPT !.status = {}]}))
    BY <1>2 DEF Pipe!Destruct, Pipe!Valid, Pipe!Then
  <2>2. Shut(s, r) /\ Accounted(r)
    BY UnregisterFacts DEF Shut, Kept
  <2>3. CASE t = r
    BY <2>2, <2>3 DEF Shut, Kept
  <2>4. CASE t # r
    <3>1. PICK w \in Pipe!Unregister(r, "WRITER") :
            t = w \/ t \in Pipe!Then(IF "OPEN" \in w.status THEN Pipe!CloseAll(w) ELSE {w},
                                     LAMBDA c : {[c EXCEPT !.status = {}]})
      BY <2>1, <2>4 DEF Pipe!Then
    <3>2. Shut(r, w) /\ Accounted(w)
      BY <2>2, UnregisterFacts DEF Shut, Kept
    <3>3. Shut(s, w)
      BY <2>2, <3>2, ShutTwice
    <3>4. CASE t = w
      BY <3>3, <3>4 DEF Shut, Kept
    <3>5. CASE t # w
      <4>1. PICK c \in (IF "OPEN" \in w.status THEN Pipe!CloseAll(w) ELSE {w}) :
              t = c \/ t = [c EXCEPT !.status = {}]
        BY <3>1, <3>5 DEF Pipe!Then
      <4>2. Shut(w, c)
        BY <3>2, <4>1, CloseAllFacts, ShutSame
      <4>3. Shut(s, c) /\ Accounted(c)
        BY <3>3, <4>2, ShutTwice DEF Shut, Kept
      <4>4. CASE t = [c EXCEPT !.status = {}]
        <5>1. /\ t \in Pipe!Pipes /\ t.ends = c.ends /\ t.there = c.there
              /\ t.refused = c.refused /\ t.handle = c.handle
          BY <4>3, <4>4 DEF Accounted, Pipe!Pipes
        <5> QED BY <4>3, <5>1 DEF Shut, Kept, Accounted, Unheld, Held, Stuck
      <4> QED BY <4>1, <4>3, <4>4 DEF Shut, Kept
    <3> QED BY <3>4, <3>5
  <2> QED BY <2>3, <2>4
<1> QED BY <1>1, <1>2

LEMMA OpenBothFacts ==
  ASSUME NEW s, Accounted(s), "VALID" \in s.status, Stuck(s), NEW t \in Pipe!OpenBoth(s)
  PROVE  Kept(s, t) /\ (t.rc # "OK" => Stuck(t))
<1> USE PipeCodes
<1>1. PICK w \in Pipe!Open(s, "WRITER") :
        IF w.rc # "OK" THEN t = w
        ELSE t \in Pipe!Always(Pipe!Open(w, "READER"), LAMBDA r :
               IF Pipe!Bad(r) THEN {Pipe!Return(c, r.rc) : c \in Pipe!Close(r, "WRITER")}
               ELSE {r})
  BY DEF Pipe!OpenBoth, Pipe!Then, Pipe!Bad
<1>2. ReaderStuck(s)
  BY DEF Stuck, ReaderStuck, Held
<1>3. /\ Kept(s, w) /\ Accounted(w) /\ "VALID" \in w.status /\ ReaderStuck(w)
      /\ w.rc # "OK" => Stuck(w)
  BY <1>2, OpenFacts DEF Kept
<1>4. CASE w.rc # "OK"
  BY <1>1, <1>3, <1>4
<1>5. CASE w.rc = "OK"
  <2>1. PICK r \in Pipe!Open(w, "READER") :
          IF r.rc # "OK" THEN \E c \in Pipe!Close(r, "WRITER") : t = Pipe!Return(c, r.rc)
          ELSE t = r
    BY <1>1, <1>5 DEF Pipe!Always, Pipe!Bad
  <2>2. /\ Kept(w, r) /\ Accounted(r) /\ "VALID" \in r.status
        /\ r.rc # "OK" => ReaderStuck(r)
    BY <1>3, OpenFacts DEF Kept
  <2>3. Kept(s, r)
    BY <1>3, <2>2, KeptTwice
  <2>4. CASE r.rc = "OK"
    BY <2>1, <2>3, <2>4
  <2>5. CASE r.rc # "OK"
    <3>1. PICK c \in Pipe!Close(r, "WRITER") : t = Pipe!Return(c, r.rc)
      BY <2>1, <2>5
    <3>2. Shut(r, c) /\ Accounted(c) /\ Stuck(c)
      BY <2>2, <2>5, CloseFacts DEF Shut, Kept
    <3>3. r.rc \in Pipe!Codes
      BY <2>2 DEF Accounted, Pipe!Pipes
    <3>4. Shut(c, t)
      BY <3>1, <3>2, <3>3, ReturnFacts
    <3>5. Kept(r, t) /\ Stuck(t)
      BY <3>2, <3>4, ShutTwice DEF Shut
    <3> QED BY <2>3, <3>5, KeptTwice
  <2> QED BY <2>4, <2>5
<1> QED BY <1>4, <1>5

\* The pipe forgets its handles: it holds nothing.
LEMMA ConstructFacts ==
  ASSUME NEW s, Accounted(s), NEW t \in Pipe!Construct(s)
  PROVE  /\ Accounted(t) /\ "VALID" \in t.status /\ t.rc = "OK"
         /\ Stuck(t) /\ Unheld(t) \subseteq s.there
<1>1. s \in Pipe!Pipes
  BY DEF Accounted
<1>2. t = [s EXCEPT !.status = {"VALID"}, !.handle = FALSE, !.ends = {}, !.rc = "OK"]
  BY DEF Pipe!Construct
<1>3. {"VALID"} \in SUBSET Pipe!Marks /\ {} \in SUBSET Pipe!Ends /\ "OK" \in Pipe!Codes
  BY PipeCodes DEF Pipe!Marks
<1>4. t \in Pipe!Pipes
  BY <1>1, <1>2, <1>3 DEF Pipe!Pipes
<1>5. /\ t.status = {"VALID"} /\ t.ends = {} /\ ~t.handle /\ t.there = s.there
      /\ t.rc = "OK"
  BY <1>1, <1>2 DEF Pipe!Pipes
<1> QED BY <1>4, <1>5 DEF Accounted, Stuck, Unheld, Held

\* A preparation that fails ends with a pipe that is stuck.
LEMMA PrepareFacts ==
  ASSUME NEW s, Accounted(s), NEW t \in Pipe!RpePrepare(s)
  PROVE  /\ Accounted(t)
         /\ t.rc # "OK" => t.there \subseteq s.there \union t.refused
<1>1. PICK c \in Pipe!Construct(s) :
        IF c.rc # "OK" THEN t = c
        ELSE t \in Pipe!Always(Pipe!OpenBoth(c), LAMBDA o :
               IF Pipe!Bad(o) THEN {Pipe!Return(d, o.rc) : d \in Pipe!Destruct(o)} ELSE {o})
  BY DEF Pipe!RpePrepare, Pipe!Then, Pipe!Bad
<1>2. /\ Accounted(c) /\ "VALID" \in c.status /\ c.rc = "OK"
      /\ Stuck(c) /\ Unheld(c) \subseteq s.there
  BY ConstructFacts
<1>3. PICK o \in Pipe!OpenBoth(c) :
        IF o.rc # "OK" THEN \E d \in Pipe!Destruct(o) : t = Pipe!Return(d, o.rc)
        ELSE t = o
  BY <1>1, <1>2 DEF Pipe!Always, Pipe!Bad
<1>4. Kept(c, o) /\ Accounted(o) /\ (o.rc # "OK" => Stuck(o))
  BY <1>2, OpenBothFacts DEF Kept
<1>5. CASE o.rc = "OK"
  BY <1>3, <1>4, <1>5
<1>6. CASE o.rc # "OK"
  <2>1. PICK d \in Pipe!Destruct(o) : t = Pipe!Return(d, o.rc)
    BY <1>3, <1>6
  <2>2. Accounted(d) /\ Stuck(d) /\ Unheld(d) \subseteq Unheld(o)
    BY <1>4, <1>6, DestructFacts
  <2>3. o.rc \in Pipe!Codes
    BY <1>4 DEF Accounted, Pipe!Pipes
  <2>4. Shut(d, t)
    BY <2>1, <2>2, <2>3, ReturnFacts
  <2>5. Accounted(t) /\ Stuck(t) /\ Unheld(t) \subseteq s.there
    BY <1>2, <1>4, <2>2, <2>4 DEF Shut, Kept
  <2> QED BY <2>5 DEF Stuck, Unheld
<1> QED BY <1>5, <1>6

LEMMA PipeStart == Pipe!Init => PipeInv
<1> SUFFICES ASSUME Pipe!Init PROVE PipeInv
  OBVIOUS
<1>1. pipe = [status |-> {}, handle |-> FALSE, ends |-> {}, there |-> {},
              told |-> {}, refused |-> {}, rc |-> "OK"] /\ call = "none" /\ passed = "none"
  BY DEF Pipe!Init
<1>2. pipe \in Pipe!Pipes
  BY <1>1, PipeCodes DEF Pipe!Pipes
<1> QED BY <1>1, <1>2 DEF PipeInv, Accounted, Pipe!TypeOK

\* The calls of the client, by what they do to the pipe.
LEMMA PipeStep ==
  ASSUME PipeInv, Pipe!Next
  PROVE  /\ PipeInv'
         /\ call' = "prepare" /\ Pipe!Bad(pipe') =>
              pipe'.there \subseteq pipe.there \union pipe'.refused
<1>0. Accounted(pipe)
  BY DEF PipeInv
<1>1. ASSUME NEW name \in {"construct", "destruct", "open", "close", "register",
                            "unregister", "prepare"},
             NEW S, Pipe!Does(name, S), Accounted(pipe')
      PROVE  PipeInv' /\ call' = name
  BY <1>1 DEF Pipe!Does, PipeInv, Pipe!TypeOK, Accounted
<1>2. CASE Pipe!Does("construct", Pipe!Construct(pipe))
  <2>1. Accounted(pipe')
    BY <1>0, <1>2, ConstructFacts DEF Pipe!Does
  <2> QED BY <1>1, <1>2, <2>1
<1>3. CASE Pipe!Does("destruct", Pipe!Destruct(pipe))
  <2>1. Accounted(pipe')
    BY <1>0, <1>3, DestructFacts DEF Pipe!Does
  <2> QED BY <1>1, <1>3, <2>1
<1>4. ASSUME NEW e \in Pipe!Ends,
             \/ Pipe!Does("open", Pipe!Open(pipe, e))
             \/ Pipe!Does("close", Pipe!Close(pipe, e))
             \/ Pipe!Does("register", Pipe!Register(pipe, e))
             \/ Pipe!Does("unregister", Pipe!Unregister(pipe, e))
      PROVE  PipeInv' /\ call' # "prepare"
  <2>1. Accounted(pipe')
    BY <1>0, <1>4, OpenFacts, CloseFacts, RegisterFacts, UnregisterFacts
       DEF Pipe!Does, Kept, Shut
  <2> QED BY <1>1, <1>4, <2>1
<1>5. ASSUME NEW e \in Pipe!Ends,
             Pipe!Notification(e) \/ Pipe!Measure(e) \/ Pipe!Attribute(e)
      PROVE  PipeInv' /\ call' # "prepare"
  <2>1. PICK c \in Pipe!Codes : pipe' = Pipe!Return(pipe, c)
    BY <1>5, PipeCodes DEF Pipe!Notification, Pipe!Measure, Pipe!Attribute, Pipe!Checked
  <2>2. pipe'.refused = pipe.refused /\ Accounted(pipe')
    BY <1>0, <2>1, ReturnFacts DEF Shut, Kept
  <2>3. /\ passed' \in {"none", Pipe!Handle(e)}
        /\ call' \in {"notification", "measure", "attribute"}
    BY <1>5 DEF Pipe!Notification, Pipe!Measure, Pipe!Attribute, Pipe!Checked
  <2>4. /\ Pipe!Handle(e) \in {"null", "dangling", "live"}
        /\ Pipe!Handle(e) = "dangling" =>
             e = "WRITER" /\ "WRITER" \in pipe.ends /\ "buffer" \notin pipe.there
    BY DEF Pipe!Handle
  <2>5. Pipe!Handle(e) = "dangling" => "WRITER" \in pipe.refused
    BY <1>0, <2>4 DEF Accounted
  <2> QED BY <2>2, <2>3, <2>4, <2>5 DEF PipeInv, Pipe!TypeOK, Accounted
<1>6. CASE Pipe!Does("prepare", Pipe!RpePrepare(pipe))
  <2>1. /\ Accounted(pipe')
        /\ Pipe!Bad(pipe') => pipe'.there \subseteq pipe.there \union pipe'.refused
    BY <1>0, <1>6, PrepareFacts DEF Pipe!Does, Pipe!Bad
  <2> QED BY <1>1, <1>6, <2>1
<1> QED BY <1>2, <1>3, <1>4, <1>5, <1>6 DEF Pipe!Next, Pipe!Does

LEMMA PipeUnchanged == ASSUME PipeInv, UNCHANGED pipeVars PROVE PipeInv'
BY DEF pipeVars, PipeInv, Pipe!TypeOK, Accounted

-----------------------------------------------------------------------------
(***************************************************************************)
(* Remainders.                                                             *)
(***************************************************************************)
LEMMA Multiples ==
  ASSUME NEW m \in Nat \ {0}, NEW p \in Nat, NEW q \in Nat, p < q
  PROVE  m * p + m <= m * q
<1>1. m * (p + 1) <= m * q
  OBVIOUS
<1>2. m * (p + 1) = m * p + m
  OBVIOUS
<1> QED BY <1>1, <1>2

LEMMA RemainderUnique ==
  ASSUME NEW m \in Nat \ {0}, NEW p \in Nat, NEW q \in Nat,
         NEW j \in 0 .. m - 1, NEW k \in 0 .. m - 1, m * p + j = m * q + k
  PROVE  j = k
<1> DEFINE mp == m * p
           mq1 == m * q
<1>1. mp \in Nat /\ mq1 \in Nat /\ mp + j = mq1 + k /\ (p = q => mp = mq1)
  OBVIOUS
<1>2. (p < q => mp + m <= mq1) /\ (q < p => mq1 + m <= mp)
  BY Multiples
<1>3. p < q \/ q < p \/ p = q
  OBVIOUS
<1> HIDE DEF mp, mq1
<1> QED BY <1>1, <1>2, <1>3

LEMMA Remainder ==
  ASSUME NEW n \in Nat, NEW m \in Nat \ {0}
  PROVE  n \div m \in Nat /\ n % m \in 0 .. m - 1 /\ n = m * (n \div m) + (n % m)
OBVIOUS

LEMMA RemainderNext ==
  ASSUME NEW n \in Nat, NEW m \in Nat \ {0}
  PROVE  (n + 1) % m = IF (n % m) + 1 = m THEN 0 ELSE (n % m) + 1
<1> DEFINE q == n \div m
           k == n % m
           r == (n + 1) \div m
           j == (n + 1) % m
<1>1. q \in Nat /\ k \in 0 .. m - 1 /\ n = m * q + k
  BY Remainder
<1>2. r \in Nat /\ j \in 0 .. m - 1 /\ n + 1 = m * r + j
  <2>1. n + 1 \in Nat
    OBVIOUS
  <2> QED BY <2>1, Remainder
<1> HIDE DEF q, k, r, j
<1>3. CASE k + 1 = m
  <2>1. m * (q + 1) = m * q + m /\ m * q \in Nat /\ m * r \in Nat
    BY <1>1, <1>2
  <2>2. m * r + j = m * (q + 1) + 0
    BY <1>1, <1>2, <1>3, <2>1
  <2>3. j = 0
    BY <1>1, <1>2, <2>2, RemainderUnique
  <2> QED BY <1>3, <2>3 DEF j, k
<1>4. CASE k + 1 # m
  <2>1. m * q \in Nat /\ m * r \in Nat
    BY <1>1, <1>2
  <2>2. m * r + j = m * q + (k + 1) /\ k + 1 \in 0 .. m - 1
    BY <1>1, <1>2, <1>4, <2>1
  <2>3. j = k + 1
    BY <1>1, <1>2, <2>2, RemainderUnique
  <2> QED BY <1>4, <2>3 DEF j, k
<1> QED BY <1>3, <1>4

-----------------------------------------------------------------------------
(***************************************************************************)
(* A message queue.                                                        *)
(***************************************************************************)
Turns == 0 .. Modulus - 1

LEMMA PlusMinus ==
  ASSUME NEW n \in Turns
  PROVE  /\ Queue!Plus(n) \in Turns /\ Queue!Minus(n) \in Turns
         /\ Queue!Plus(n) = IF n + 1 = Modulus THEN 0 ELSE n + 1
         /\ Queue!Minus(n) = IF n = 0 THEN Modulus - 1 ELSE n - 1
         /\ Queue!Minus(Queue!Plus(n)) = n
<1>1. Queue!Plus(n) = IF n + 1 = Modulus THEN 0 ELSE n + 1
  BY SysLinkAssumption DEF Queue!Plus, Turns
<1>2. ASSUME NEW k \in Turns
      PROVE  Queue!Minus(k) = IF k = 0 THEN Modulus - 1 ELSE k - 1
  BY SysLinkAssumption DEF Queue!Minus, Turns
<1>3. Queue!Plus(n) \in Turns
  BY <1>1, SysLinkAssumption DEF Turns
<1> QED BY <1>1, <1>2, <1>3, SysLinkAssumption DEF Turns

\* The field of the registered events follows their number, even around the field.
LEMMA RegisteredTurns ==
  ASSUME NEW n \in Nat
  PROVE  /\ n % Modulus \in Turns
         /\ Queue!Plus(n % Modulus) = (n + 1) % Modulus
         /\ Queue!Minus((n + 1) % Modulus) = n % Modulus
<1>1. n % Modulus \in Turns
  BY SysLinkAssumption, Remainder DEF Turns
<1>2. Queue!Plus(n % Modulus) = (n + 1) % Modulus
  BY <1>1, PlusMinus, SysLinkAssumption, RemainderNext
<1> QED BY <1>1, <1>2, PlusMinus

Besides(s) == IF s.attached THEN 1 ELSE 0

\* A queue: the attached box is open, a box in the library is the queue's own or one
\* the library refused to delete, and the counter of the events is their number cut to
\* its field.
Sound(s) ==
    /\ s \in Queue!Queues
    /\ s.events["lvl0"] + s.events["lvl1"] <= MaxOpened
    /\ s.attached => s.opened > 0
    /\ s.box => s.kept \/ (s.valid /\ s.handle)
    /\ s.valid => s.notifys = (s.events["lvl0"] + s.events["lvl1"]) % Modulus

\* What the calls about boxes do: the events and their counter stay.
Spared(s, t) ==
    /\ Sound(t) /\ t.valid = s.valid
    /\ t.notifys = s.notifys /\ t.events = s.events

LEMMA QueueCodes ==
  {"OK", "FAIL", "INVALID", "REINIT", "RBOXNOTCLOSED", "INVALIDBOXID",
   "NOTIFYNOTCLOSED", "MSGBOXEXIST", "OUTOFRBOX", "REATTACHED",
   "EVTLEVEL", "CALLBACK", "PROCID"} \subseteq Queue!Codes
BY DEF Queue!Codes

\* The fields of a queue.
LEMMA QueueFields ==
  ASSUME NEW s \in Queue!Queues
  PROVE  /\ s.valid \in BOOLEAN /\ s.handle \in BOOLEAN /\ s.attached \in BOOLEAN
         /\ s.rboxs \in Turns /\ s.notifys \in Turns
         /\ s.func \in Queue!Funcs \union {"none"} /\ s.level \in Queue!Levels
         /\ s.error \in BOOLEAN /\ s.box \in BOOLEAN /\ s.opened \in 0 .. MaxOpened
         /\ s.events \in [Queue!Levels -> 0 .. MaxOpened]
         /\ s.kept \in BOOLEAN /\ s.rc \in Queue!Codes
BY DEF Queue!Queues, Turns

LEMMA QueueReturn ==
  ASSUME NEW s, Sound(s), NEW c \in Queue!Codes, NEW t, t = Queue!Return(s, c)
  PROVE  /\ Spared(s, t) /\ t.rc = c
         /\ t.handle = s.handle /\ t.attached = s.attached
         /\ t.box = s.box /\ t.opened = s.opened /\ t.kept = s.kept
<1>1. s \in Queue!Queues
  BY DEF Sound
<1>2. t \in Queue!Queues
  BY <1>1 DEF Queue!Return, Queue!Queues
<1>3. /\ t.valid = s.valid /\ t.handle = s.handle /\ t.attached = s.attached
      /\ t.notifys = s.notifys
      /\ t.box = s.box /\ t.opened = s.opened /\ t.events = s.events
      /\ t.kept = s.kept /\ t.rc = c
  BY <1>1 DEF Queue!Return, Queue!Queues
<1> QED BY <1>2, <1>3 DEF Spared, Sound

LEMMA CreateFacts ==
  ASSUME NEW s, Sound(s), NEW t \in Queue!MsgboxCreate(s)
  PROVE  Spared(s, t)
<1>1. s \in Queue!Queues
  BY DEF Sound
<1>2. CASE t \in {Queue!Return(s, c) : c \in {"INVALID", "MSGBOXEXIST", "FAIL"}}
  BY <1>2, QueueCodes, QueueReturn
<1>3. CASE /\ s.valid
           /\ t = [s EXCEPT !.handle = TRUE, !.box = TRUE, !.rc = "OK"]
  <2>1. t \in Queue!Queues
    BY <1>1, <1>3, QueueCodes DEF Queue!Queues
  <2>2. /\ t.valid = s.valid /\ t.handle = TRUE /\ t.attached = s.attached
        /\ t.notifys = s.notifys
        /\ t.opened = s.opened /\ t.events = s.events /\ t.kept = s.kept
    BY <1>1, <1>3 DEF Queue!Queues
  <2> QED BY <1>3, <2>1, <2>2 DEF Spared, Sound
<1> QED BY <1>2, <1>3 DEF Queue!MsgboxCreate, Queue!Valid

LEMMA DeleteFacts ==
  ASSUME NEW s, Sound(s), NEW t \in Queue!MsgboxDelete(s)
  PROVE  Spared(s, t) /\ (s.valid /\ t.box => t.kept)
<1>1. s \in Queue!Queues
  BY DEF Sound
<1>2. CASE \/ t = Queue!Return(s, "INVALID") /\ ~s.valid
           \/ t = Queue!Return(s, "OK") /\ ~s.handle
  <2>1. {"INVALID", "OK"} \subseteq Queue!Codes
    BY QueueCodes
  <2>2. Spared(s, t) /\ t.box = s.box /\ t.kept = s.kept
    BY <1>2, <2>1, QueueReturn
  <2> QED BY <1>2, <2>2 DEF Sound
<1>3. CASE t = [s EXCEPT !.kept = TRUE, !.rc = "FAIL"]
  <2>1. t \in Queue!Queues
    BY <1>1, <1>3, QueueCodes DEF Queue!Queues
  <2>2. /\ t.valid = s.valid /\ t.handle = s.handle /\ t.attached = s.attached
        /\ t.notifys = s.notifys
        /\ t.opened = s.opened /\ t.events = s.events /\ t.kept = TRUE
    BY <1>1, <1>3 DEF Queue!Queues
  <2> QED BY <2>1, <2>2 DEF Spared, Sound
<1>4. CASE t = [s EXCEPT !.handle = FALSE, !.box = FALSE, !.kept = FALSE, !.rc = "OK"]
  <2>1. t \in Queue!Queues
    BY <1>1, <1>4, QueueCodes DEF Queue!Queues
  <2>2. /\ t.valid = s.valid /\ t.box = FALSE /\ t.attached = s.attached
        /\ t.notifys = s.notifys
        /\ t.opened = s.opened /\ t.events = s.events
    BY <1>1, <1>4 DEF Queue!Queues
  <2> QED BY <2>1, <2>2 DEF Spared, Sound
<1> QED BY <1>2, <1>3, <1>4 DEF Queue!MsgboxDelete, Queue!Valid

LEMMA OpenedFacts ==
  ASSUME NEW s, Sound(s), NEW t \in Queue!MsgboxOpen(s)
  PROVE  /\ Spared(s, t)
         /\ t.rc = "OK" => t.opened = s.opened + 1
<1>1. s \in Queue!Queues
  BY DEF Sound
<1>2. CASE \E c \in {"INVALID", "FAIL"} : t = Queue!Return(s, c)
  <2>1. PICK c \in {"INVALID", "FAIL"} : t = Queue!Return(s, c)
    BY <1>2
  <2>2. {"INVALID", "FAIL"} \subseteq Queue!Codes
    BY QueueCodes
  <2> QED BY <2>1, <2>2, QueueReturn
<1>3. CASE s.opened # MaxOpened /\ t = [s EXCEPT !.opened = s.opened + 1,
            !.rboxs = Queue!Plus(s.rboxs), !.rc = "OK"]
  <2> DEFINE n == Queue!Plus(s.rboxs)
  <2>1. s.opened \in 0 .. MaxOpened /\ s.rboxs \in Turns /\ "OK" \in Queue!Codes
    BY <1>1, QueueFields, QueueCodes
  <2>2. n \in 0 .. Modulus - 1
    BY <2>1, PlusMinus DEF Turns
  <2>3. s.opened + 1 \in 0 .. MaxOpened
    BY <1>3, <2>1, SysLinkAssumption
  <2>4. t = [s EXCEPT !.opened = s.opened + 1, !.rboxs = n, !.rc = "OK"]
    BY <1>3
  <2> HIDE DEF n
  <2>5. t \in Queue!Queues
    BY <1>1, <2>1, <2>2, <2>3, <2>4 DEF Queue!Queues
  <2>6. /\ t.valid = s.valid /\ t.handle = s.handle /\ t.attached = s.attached
        /\ t.notifys = s.notifys /\ t.box = s.box
        /\ t.opened = s.opened + 1 /\ t.events = s.events /\ t.kept = s.kept
    BY <1>1, <2>4 DEF Queue!Queues
  <2>7. t.opened > 0
    BY <2>1, <2>6
  <2> QED BY <2>5, <2>6, <2>7 DEF Spared, Sound
<1> QED BY <1>2, <1>3 DEF Queue!MsgboxOpen, Queue!Valid

\* Closing one of the remote boxes, as the library and the counter have it.
LEMMA ClosingFacts ==
  ASSUME NEW s \in Queue!Queues, s.opened > 0, s.valid, NEW t \in Queue!MsgboxClose(s)
  PROVE  /\ t \in Queue!Queues
         /\ t.valid = s.valid /\ t.handle = s.handle /\ t.attached = s.attached
         /\ t.notifys = s.notifys /\ t.box = s.box /\ t.events = s.events
         /\ t.kept = s.kept
         /\ \/ t.rc = "FAIL" /\ t.opened = s.opened
            \/ t.rc # "FAIL" /\ t.opened = s.opened - 1
<1>1. s.opened \in 0 .. MaxOpened /\ s.rboxs \in Turns
  BY QueueFields
<1> DEFINE n == Queue!Minus(s.rboxs)
<1>2. /\ s.opened - 1 \in 0 .. MaxOpened /\ n \in 0 .. Modulus - 1
      /\ "OK" \in Queue!Codes /\ "FAIL" \in Queue!Codes /\ "OUTOFRBOX" \in Queue!Codes
  <2>1. s.opened - 1 \in 0 .. MaxOpened
    BY <1>1, SysLinkAssumption
  <2>2. n \in 0 .. Modulus - 1
    BY <1>1, PlusMinus DEF Turns
  <2> QED BY <2>1, <2>2, QueueCodes
<1>3. CASE t = Queue!Return(s, "FAIL")
  <2>1. t = [s EXCEPT !.rc = "FAIL"]
    BY <1>3 DEF Queue!Return
  <2>2. t \in Queue!Queues
    BY <1>2, <2>1 DEF Queue!Queues
  <2> QED BY <2>1, <2>2 DEF Queue!Queues
<1>4. CASE t = [s EXCEPT !.opened = s.opened - 1, !.rc = "OUTOFRBOX"]
  <2>1. t \in Queue!Queues
    BY <1>4, <1>2 DEF Queue!Queues
  <2> QED BY <1>4, <2>1 DEF Queue!Queues
<1>5. CASE t = [s EXCEPT !.opened = s.opened - 1, !.rboxs = n, !.rc = "OK"]
  <2> HIDE DEF n
  <2>1. t \in Queue!Queues
    BY <1>2, <1>5 DEF Queue!Queues
  <2> QED BY <1>5, <2>1 DEF Queue!Queues
<1> QED BY <1>3, <1>4, <1>5 DEF Queue!MsgboxClose, Queue!Valid

\* Closing a box that is not the attached one.
LEMMA CloseBoxFacts ==
  ASSUME NEW s, Sound(s), s.opened > Besides(s), NEW t \in Queue!MsgboxClose(s)
  PROVE  Spared(s, t)
<1>1. s \in Queue!Queues
  BY DEF Sound
<1>2. CASE ~s.valid
  <2>1. t = Queue!Return(s, "INVALID") /\ "INVALID" \in Queue!Codes
    BY <1>2, QueueCodes DEF Queue!MsgboxClose, Queue!Valid
  <2> QED BY <2>1, QueueReturn
<1>3. CASE s.valid
  <2>1. s.opened \in Nat /\ Besides(s) \in 0 .. 1 /\ (s.attached => Besides(s) = 1)
    BY <1>1, QueueFields DEF Besides
  <2>2. s.opened > 0
    BY <2>1
  <2>3. /\ t \in Queue!Queues
        /\ t.valid = s.valid /\ t.handle = s.handle /\ t.attached = s.attached
        /\ t.notifys = s.notifys /\ t.box = s.box /\ t.events = s.events
        /\ t.kept = s.kept
        /\ t.opened = s.opened \/ t.opened = s.opened - 1
    BY <1>1, <1>3, <2>2, ClosingFacts
  <2>4. t.attached => t.opened > 0
    BY <2>1, <2>3
  <2> QED BY <2>3, <2>4 DEF Spared, Sound
<1> QED BY <1>2, <1>3

LEMMA AttachFacts ==
  ASSUME NEW s, Sound(s), NEW t \in Queue!MsgboxAttach(s)
  PROVE  Spared(s, t)
<1>1. CASE s.attached
  <2>1. t = Queue!Return(s, "REATTACHED") /\ "REATTACHED" \in Queue!Codes
    BY <1>1, QueueCodes DEF Queue!MsgboxAttach
  <2> QED BY <2>1, QueueReturn
<1>2. CASE ~s.attached
  <2>1. PICK o \in Queue!MsgboxOpen(s) :
          IF o.rc # "OK" THEN t = o
          ELSE t = [o EXCEPT !.attached = TRUE, !.rboxs = Queue!Minus(o.rboxs)]
    BY <1>2 DEF Queue!MsgboxAttach, Queue!Then, Queue!Bad
  <2>2. /\ Spared(s, o) /\ Sound(o) /\ o \in Queue!Queues /\ s \in Queue!Queues
        /\ o.rc = "OK" => o.opened = s.opened + 1
    BY OpenedFacts DEF Spared, Sound
  <2>3. CASE o.rc # "OK"
    BY <2>1, <2>2, <2>3
  <2>4. CASE o.rc = "OK"
    <3> DEFINE n == Queue!Minus(o.rboxs)
    <3>1. n \in 0 .. Modulus - 1 /\ s.opened \in Nat
      BY <2>2, QueueFields, PlusMinus DEF Turns
    <3>2. t = [o EXCEPT !.attached = TRUE, !.rboxs = n]
      BY <2>1, <2>4
    <3> HIDE DEF n
    <3>3. t \in Queue!Queues
      BY <2>2, <3>1, <3>2 DEF Queue!Queues
    <3>4. /\ t.valid = o.valid /\ t.handle = o.handle
          /\ t.notifys = o.notifys /\ t.box = o.box
          /\ t.events = o.events /\ t.kept = o.kept /\ t.opened = o.opened
      BY <2>2, <3>2 DEF Queue!Queues
    <3>5. t.opened > 0
      BY <2>2, <2>4, <3>1, <3>4
    <3>6. Sound(t)
      BY <2>2, <3>3, <3>4, <3>5 DEF Sound
    <3> QED BY <2>2, <3>4, <3>6 DEF Spared
  <2> QED BY <2>3, <2>4
<1> QED BY <1>1, <1>2

LEMMA DetachFacts ==
  ASSUME NEW s, Sound(s), s.valid, NEW t \in Queue!MsgboxDetach(s)
  PROVE  Spared(s, t)
<1>0. s \in Queue!Queues /\ s.rboxs \in Turns
  BY QueueFields DEF Sound
<1>1. CASE ~s.attached
  <2>1. t = Queue!Return(s, "OK") /\ "OK" \in Queue!Codes
    BY <1>1, QueueCodes DEF Queue!MsgboxDetach
  <2> QED BY <2>1, QueueReturn
<1>2. CASE s.attached
  <2> DEFINE n == Queue!Plus(s.rboxs)
             s1 == [s EXCEPT !.rboxs = n]
  <2>1. n \in 0 .. Modulus - 1
    BY <1>0, PlusMinus DEF Turns
  <2>2. PICK c \in Queue!MsgboxClose(s1) :
          t = IF c.rc = "FAIL" THEN [c EXCEPT !.rboxs = Queue!Minus(c.rboxs)]
              ELSE IF c.rc # "OK"
                   THEN [c EXCEPT !.rboxs = Queue!Minus(c.rboxs), !.attached = FALSE]
                   ELSE [c EXCEPT !.attached = FALSE]
    BY <1>2 DEF Queue!MsgboxDetach, Queue!Always, Queue!Bad
  <2> HIDE DEF n
  <2>3. s1 \in Queue!Queues
    BY <1>0, <2>1 DEF Queue!Queues
  <2>4. /\ s1.valid = s.valid /\ s1.handle = s.handle /\ s1.attached = s.attached
        /\ s1.notifys = s.notifys /\ s1.box = s.box
        /\ s1.opened = s.opened /\ s1.events = s.events /\ s1.kept = s.kept
    BY <1>0 DEF Queue!Queues
  <2> HIDE DEF s1
  <2>5. s.opened > 0
    BY <1>2 DEF Sound
  <2>6. /\ c \in Queue!Queues
        /\ c.valid = s.valid /\ c.handle = s.handle /\ c.attached = s.attached
        /\ c.notifys = s.notifys /\ c.box = s.box /\ c.events = s.events
        /\ c.kept = s.kept
        /\ c.rc = "FAIL" => c.opened = s.opened
    <3>1. s1.opened > 0 /\ s1.valid
      BY <2>4, <2>5
    <3> QED BY <2>3, <2>4, <3>1, ClosingFacts
  <2> DEFINE m == Queue!Minus(c.rboxs)
  <2>7. m \in 0 .. Modulus - 1
    BY <2>6, QueueFields, PlusMinus DEF Turns
  <2>8. \/ c.rc = "FAIL" /\ t = [c EXCEPT !.rboxs = m]
        \/ t = [c EXCEPT !.rboxs = m, !.attached = FALSE]
        \/ t = [c EXCEPT !.attached = FALSE]
    BY <2>2
  <2> HIDE DEF m
  <2>9. t \in Queue!Queues
    <3>1. CASE t = [c EXCEPT !.rboxs = m]
      BY <2>6, <2>7, <3>1 DEF Queue!Queues
    <3>2. CASE t = [c EXCEPT !.rboxs = m, !.attached = FALSE]
      BY <2>6, <2>7, <3>2 DEF Queue!Queues
    <3>3. CASE t = [c EXCEPT !.attached = FALSE]
      BY <2>6, <3>3 DEF Queue!Queues
    <3> QED BY <2>8, <3>1, <3>2, <3>3
  <2>10. /\ t.valid = c.valid /\ t.handle = c.handle /\ t.notifys = c.notifys
         /\ t.box = c.box /\ t.events = c.events /\ t.kept = c.kept
         /\ t.opened = c.opened /\ (t.attached => c.rc = "FAIL")
    BY <2>6, <2>8 DEF Queue!Queues
  <2>11. t.attached => t.opened > 0
    BY <2>5, <2>6, <2>10
  <2>12. Sound(t)
    BY <2>6, <2>9, <2>10, <2>11 DEF Sound
  <2> QED BY <2>6, <2>10, <2>12 DEF Spared
<1> QED BY <1>1, <1>2

\* A queue is destroyed when its counter says that no event is registered.
LEMMA DestroyFacts ==
  ASSUME NEW s, Sound(s), NEW sync \in BOOLEAN, NEW t \in Queue!Destruct(s, sync)
  PROVE  /\ Sound(t)
         /\ s.valid /\ ~t.valid => t.events = s.events /\ s.notifys = 0
<1>1. CASE \/ ~s.valid /\ t = Queue!Return(s, "INVALID")
           \/ s.valid /\ \E c \in {"RBOXNOTCLOSED", "INVALIDBOXID", "NOTIFYNOTCLOSED"} :
                             t = Queue!Return(s, c)
  <2>1. {"INVALID", "RBOXNOTCLOSED", "INVALIDBOXID", "NOTIFYNOTCLOSED"} \subseteq Queue!Codes
    BY QueueCodes
  <2>2. Spared(s, t)
    BY <1>1, <2>1, QueueReturn
  <2> QED BY <2>2 DEF Spared
<1>2. CASE /\ s.valid /\ s.notifys = 0
           /\ t \in Queue!Always(Queue!MsgboxDetach(s), LAMBDA d :
                     Queue!Always(Queue!MsgboxDelete(d), LAMBDA x :
                       {[x EXCEPT !.valid = FALSE, !.handle = FALSE, !.attached = FALSE,
                                  !.func = "none", !.error = FALSE, !.rc = "OK"]}))
  <2>1. PICK d \in Queue!MsgboxDetach(s) :
          t \in Queue!Always(Queue!MsgboxDelete(d), LAMBDA x :
                 {[x EXCEPT !.valid = FALSE, !.handle = FALSE, !.attached = FALSE,
                            !.func = "none", !.error = FALSE, !.rc = "OK"]})
    BY <1>2 DEF Queue!Always
  <2>2. PICK x \in Queue!MsgboxDelete(d) :
          t = [x EXCEPT !.valid = FALSE, !.handle = FALSE, !.attached = FALSE,
                        !.func = "none", !.error = FALSE, !.rc = "OK"]
    BY <2>1 DEF Queue!Always
  <2>3. Spared(s, d) /\ Sound(d) /\ d.valid
    BY <1>2, <2>1, DetachFacts DEF Spared
  <2>4. Spared(d, x) /\ Sound(x) /\ (x.box => x.kept)
    BY <2>2, <2>3, DeleteFacts DEF Spared
  <2>5. x \in Queue!Queues /\ "none" \in Queue!Funcs \union {"none"} /\ "OK" \in Queue!Codes
    BY <2>4, QueueCodes DEF Sound
  <2>6. t \in Queue!Queues
    BY <2>2, <2>5 DEF Queue!Queues
  <2>7. /\ ~t.valid /\ ~t.attached /\ t.box = x.box
        /\ t.events = x.events /\ t.kept = x.kept
    BY <2>2, <2>5 DEF Queue!Queues
  <2>8. Sound(t)
    BY <2>4, <2>6, <2>7 DEF Sound
  <2>9. t.events = s.events
    BY <2>3, <2>4, <2>7 DEF Spared
  <2> QED BY <1>2, <2>8, <2>9
<1> QED BY <1>1, <1>2 DEF Queue!Destruct, Queue!Valid

LEMMA QueueConstructed ==
  ASSUME NEW s, Sound(s), NEW t \in Queue!Construct(s)
  PROVE  Sound(t) /\ t.valid
<1>0. s \in Queue!Queues
  BY DEF Sound
<1>1. CASE s.valid
  <2>1. t = Queue!Return(s, "REINIT") /\ "REINIT" \in Queue!Codes
    BY <1>1, QueueCodes DEF Queue!Construct
  <2>2. Spared(s, t)
    BY <2>1, QueueReturn
  <2> QED BY <1>1, <2>2 DEF Spared
<1>2. CASE ~s.valid
  <2> DEFINE ev == [l \in Queue!Levels |-> 0]
  <2>1. t = [s EXCEPT !.valid = TRUE, !.handle = FALSE, !.attached = FALSE,
                    !.rboxs = 0, !.notifys = 0, !.func = "none",
                    !.level = "lvl1", !.error = FALSE, !.opened = 0,
                    !.events = ev, !.rc = "OK"]
    BY <1>2 DEF Queue!Construct
  <2>2. /\ ev \in [Queue!Levels -> 0 .. MaxOpened]
        /\ 0 \in 0 .. Modulus - 1 /\ 0 \in 0 .. MaxOpened
        /\ "none" \in Queue!Funcs \union {"none"} /\ "lvl1" \in Queue!Levels
        /\ "OK" \in Queue!Codes
    BY SysLinkAssumption, QueueCodes DEF Queue!Levels
  <2>3. ev["lvl0"] = 0 /\ ev["lvl1"] = 0 /\ (0 + 0) % Modulus = 0
    BY SysLinkAssumption DEF Queue!Levels
  <2> HIDE DEF ev
  <2>4. t \in Queue!Queues
    BY <1>0, <2>1, <2>2 DEF Queue!Queues
  <2>5. /\ t.valid = TRUE /\ t.attached = FALSE /\ t.notifys = 0
        /\ t.events = ev /\ t.kept = s.kept /\ t.box = s.box
    BY <1>0, <2>1 DEF Queue!Queues
  <2>6. s.box => s.kept
    BY <1>2 DEF Sound
  <2>7. 0 + 0 = 0 /\ 0 <= MaxOpened
    BY SysLinkAssumption
  <2>8. Sound(t)
    BY <2>3, <2>4, <2>5, <2>6, <2>7 DEF Sound
  <2> QED BY <2>5, <2>8
<1> QED BY <1>1, <1>2

LEMMA PreparedFacts ==
  ASSUME NEW s, Sound(s), NEW t \in Queue!MsgqPrepare(s)
  PROVE  Sound(t)
<1>1. PICK c \in Queue!Construct(s) :
        IF c.rc # "OK" THEN t = c
        ELSE t \in Queue!Always(Queue!Then(Queue!MsgboxCreate(c),
                                          LAMBDA b : Queue!MsgboxAttach(b)),
               LAMBDA a : IF Queue!Bad(a)
                          THEN {Queue!Return(d, a.rc) : d \in Queue!Destruct(a, FALSE)}
                          ELSE {a})
  BY DEF Queue!MsgqPrepare, Queue!Then, Queue!Bad
<1>2. Sound(c)
  BY QueueConstructed
<1>3. CASE c.rc # "OK"
  BY <1>1, <1>2, <1>3
<1>4. CASE c.rc = "OK"
  <2>1. PICK a \in Queue!Then(Queue!MsgboxCreate(c), LAMBDA b : Queue!MsgboxAttach(b)) :
          \/ t = a
          \/ \E d \in Queue!Destruct(a, FALSE) : t = Queue!Return(d, a.rc)
    BY <1>1, <1>4 DEF Queue!Always
  <2>2. PICK b \in Queue!MsgboxCreate(c) : a = b \/ a \in Queue!MsgboxAttach(b)
    BY <2>1 DEF Queue!Then
  <2>3. Sound(b)
    BY <1>2, <2>2, CreateFacts DEF Spared
  <2>4. Sound(a)
    BY <2>2, <2>3, AttachFacts DEF Spared
  <2>5. ASSUME NEW d \in Queue!Destruct(a, FALSE), t = Queue!Return(d, a.rc)
        PROVE  Sound(t)
    <3>1. Sound(d) /\ a.rc \in Queue!Codes
      BY <2>4, <2>5, DestroyFacts, QueueFields DEF Sound
    <3> QED BY <2>5, <3>1, QueueReturn DEF Spared
  <2> QED BY <2>1, <2>4, <2>5
<1> QED BY <1>3, <1>4

LEMMA RegisterEventFacts ==
  ASSUME NEW s, Sound(s), NEW func \in Queue!Funcs \union {"none"},
         NEW t \in Queue!Register(s, func)
  PROVE  Sound(t) /\ t.valid = s.valid
<1>0. s \in Queue!Queues
  BY DEF Sound
<1>1. CASE \E c \in {"INVALID", "CALLBACK", "FAIL"} : t = Queue!Return(s, c)
  <2>1. {"INVALID", "CALLBACK", "FAIL"} \subseteq Queue!Codes
    BY QueueCodes
  <2> QED BY <1>1, <2>1, QueueReturn DEF Spared
<1>2. CASE /\ s.valid /\ Queue!Registered(s) # MaxOpened
           /\ t = [s EXCEPT !.events[s.level] = s.events[s.level] + 1, !.func = func,
                            !.notifys = Queue!Plus(s.notifys), !.rc = "OK"]
  <2> DEFINE ev == [s.events EXCEPT ![s.level] = s.events[s.level] + 1]
             n == Queue!Plus(s.notifys)
             r == s.events["lvl0"] + s.events["lvl1"]
  <2>1. /\ s.level \in Queue!Levels /\ s.events \in [Queue!Levels -> 0 .. MaxOpened]
        /\ s.notifys \in Turns
    BY <1>0, QueueFields
  <2>2. r \in Nat /\ r <= MaxOpened /\ r # MaxOpened
    BY <1>2, <2>1 DEF Sound, Queue!Registered, Queue!Levels
  <2>3. /\ ev \in [Queue!Levels -> 0 .. MaxOpened]
        /\ ev["lvl0"] + ev["lvl1"] = r + 1
    BY <2>1, <2>2, SysLinkAssumption DEF Queue!Levels
  <2>4. n \in 0 .. Modulus - 1 /\ n = (r + 1) % Modulus
    <3>1. s.notifys = r % Modulus
      BY <1>2 DEF Sound
    <3>2. n \in Turns
      BY <2>1, PlusMinus
    <3> HIDE DEF r
    <3>3. n = (r + 1) % Modulus
      BY <2>2, <3>1, RegisteredTurns
    <3> QED BY <3>2, <3>3 DEF Turns
  <2>5. t = [s EXCEPT !.events = ev, !.func = func, !.notifys = n, !.rc = "OK"]
    BY <1>0, <1>2 DEF Queue!Queues
  <2>6. r + 1 <= MaxOpened /\ "OK" \in Queue!Codes
    BY <2>2, SysLinkAssumption, QueueCodes
  <2> HIDE DEF ev, n, r
  <2>7. t \in Queue!Queues
    BY <1>0, <2>3, <2>4, <2>5, <2>6 DEF Queue!Queues
  <2>8. /\ t.valid = s.valid /\ t.handle = s.handle /\ t.attached = s.attached
        /\ t.notifys = n /\ t.box = s.box /\ t.opened = s.opened
        /\ t.events = ev /\ t.kept = s.kept
    BY <1>0, <2>5 DEF Queue!Queues
  <2>9. Sound(t)
    BY <2>3, <2>4, <2>6, <2>7, <2>8 DEF Sound
  <2> QED BY <2>8, <2>9
<1> QED BY <1>1, <1>2 DEF Queue!Register, Queue!Valid

LEMMA UnregisterEventFacts ==
  ASSUME NEW s, Sound(s), NEW t \in Queue!Unregister(s)
  PROVE  Sound(t) /\ t.valid = s.valid
<1>0. s \in Queue!Queues
  BY DEF Sound
<1>1. CASE \E c \in {"INVALID", "OK", "PROCID"} : t = Queue!Return(s, c)
  <2>1. {"INVALID", "OK", "PROCID"} \subseteq Queue!Codes
    BY QueueCodes
  <2> QED BY <1>1, <2>1, QueueReturn, SMTT(30) DEF Spared
<1>2. CASE /\ s.valid /\ s.events[s.level] # 0
           /\ t = [s EXCEPT !.events[s.level] = s.events[s.level] - 1,
                            !.notifys = Queue!Minus(s.notifys),
                            !.func = IF Queue!Minus(s.notifys) = 0 THEN "none" ELSE s.func,
                            !.rc = "OK"]
  <2> DEFINE ev == [s.events EXCEPT ![s.level] = s.events[s.level] - 1]
             n == Queue!Minus(s.notifys)
             f == IF n = 0 THEN "none" ELSE s.func
             r == ev["lvl0"] + ev["lvl1"]
  <2>1. /\ s.level \in Queue!Levels /\ s.events \in [Queue!Levels -> 0 .. MaxOpened]
        /\ s.notifys \in Turns /\ f \in Queue!Funcs \union {"none"}
    BY <1>0, QueueFields
  <2>2. /\ ev \in [Queue!Levels -> 0 .. MaxOpened] /\ r \in Nat
        /\ s.events["lvl0"] + s.events["lvl1"] = r + 1
    BY <1>2, <2>1, SysLinkAssumption DEF Queue!Levels
  <2>3. r <= MaxOpened
    BY <2>2, SysLinkAssumption DEF Sound
  <2>4. n \in 0 .. Modulus - 1 /\ n = r % Modulus
    <3>1. s.notifys = (r + 1) % Modulus
      BY <1>2, <2>2 DEF Sound
    <3>2. n \in Turns
      BY <2>1, PlusMinus
    <3> HIDE DEF r
    <3>3. n = r % Modulus
      BY <2>2, <3>1, RegisteredTurns
    <3> QED BY <3>2, <3>3 DEF Turns
  <2>5. t = [s EXCEPT !.events = ev, !.notifys = n, !.func = f, !.rc = "OK"]
    BY <1>0, <1>2 DEF Queue!Queues
  <2>6. "OK" \in Queue!Codes /\ ev["lvl0"] + ev["lvl1"] = r
    BY QueueCodes
  <2> HIDE DEF ev, n, r, f
  <2>7. t \in Queue!Queues
    BY <1>0, <2>1, <2>2, <2>4, <2>5, <2>6 DEF Queue!Queues
  <2>8. /\ t.valid = s.valid /\ t.handle = s.handle /\ t.attached = s.attached
        /\ t.notifys = n /\ t.box = s.box /\ t.opened = s.opened
        /\ t.events = ev /\ t.kept = s.kept
    BY <1>0, <2>5 DEF Queue!Queues
  <2>9. Sound(t)
    BY <2>3, <2>4, <2>6, <2>7, <2>8 DEF Sound
  <2> QED BY <2>8, <2>9
<1> QED BY <1>1, <1>2 DEF Queue!Unregister, Queue!Valid

\* The level, and the error a callback reports.
LEMMA FlagFacts ==
  ASSUME NEW s, Sound(s), NEW t,
         \/ \E level \in Queue!Levels : t \in Queue!LevelSet(s, level)
         \/ t \in Queue!Callback(s) \/ t \in Queue!CheckErrors(s)
  PROVE  Spared(s, t)
<1>0. s \in Queue!Queues
  BY DEF Sound
<1>1. CASE t = s \/ \E c \in {"INVALID", "EVTLEVEL"} : t = Queue!Return(s, c)
  <2>1. {"INVALID", "EVTLEVEL"} \subseteq Queue!Codes
    BY QueueCodes
  <2> QED BY <1>1, <2>1, QueueReturn DEF Spared
<1>2. CASE \/ \E level \in Queue!Levels : t = [s EXCEPT !.level = level, !.rc = "OK"]
           \/ \E b \in BOOLEAN : t = [s EXCEPT !.error = b]
  <2>1. t \in Queue!Queues
    <3>1. ASSUME NEW level \in Queue!Levels, t = [s EXCEPT !.level = level, !.rc = "OK"]
          PROVE  t \in Queue!Queues
      <4>1. "OK" \in Queue!Codes
        BY QueueCodes
      <4> QED BY <1>0, <3>1, <4>1 DEF Queue!Queues
    <3>2. ASSUME NEW b \in BOOLEAN, t = [s EXCEPT !.error = b]
          PROVE  t \in Queue!Queues
      BY <1>0, <3>2 DEF Queue!Queues
    <3> QED BY <1>2, <3>1, <3>2
  <2>2. /\ t.valid = s.valid /\ t.handle = s.handle /\ t.attached = s.attached
        /\ t.notifys = s.notifys
        /\ t.box = s.box /\ t.opened = s.opened /\ t.events = s.events /\ t.kept = s.kept
    BY <1>0, <1>2 DEF Queue!Queues
  <2> QED BY <2>1, <2>2 DEF Spared, Sound
<1> QED BY <1>1, <1>2 DEF Queue!LevelSet, Queue!Callback, Queue!CheckErrors, Queue!Valid

-----------------------------------------------------------------------------
(***************************************************************************)
(* The queue, its message and its buffer.                                  *)
(***************************************************************************)
QueueInv ==
    /\ Sound(mq)
    /\ msg \in Queue!Messages
    /\ mbuf \in Queue!Buffers /\ (mbuf.held # "none" => mbuf.heap > 0)

\* What a call does to the queue.
Proper(s, t) ==
    /\ Sound(t)
    /\ s.valid /\ ~t.valid => t.events = s.events /\ s.notifys = 0

LEMMA ProperWhen ==
  ASSUME NEW s, NEW t, Sound(t), t.valid = s.valid
  PROVE  Proper(s, t)
BY DEF Proper

LEMMA ProperReturn ==
  ASSUME NEW s, NEW u, Proper(s, u), NEW t, t = Queue!Return(u, "OK")
  PROVE  Proper(s, t)
<1>1. "OK" \in Queue!Codes /\ Sound(u)
  BY QueueCodes DEF Proper
<1>2. Spared(u, t)
  BY <1>1, QueueReturn
<1> QED BY <1>2 DEF Spared, Proper

LEMMA QueueStart == Queue!Init => QueueInv
<1> SUFFICES ASSUME Queue!Init PROVE QueueInv
  OBVIOUS
<1> DEFINE ev == [l \in Queue!Levels |-> 0]
<1>1. /\ ev \in [Queue!Levels -> 0 .. MaxOpened]
      /\ 0 \in 0 .. Modulus - 1 /\ 0 \in 0 .. MaxOpened /\ 0 \in 0 .. 2
      /\ "none" \in Queue!Funcs \union {"none"} /\ "lvl1" \in Queue!Levels
      /\ "OK" \in Queue!Codes
  BY SysLinkAssumption, QueueCodes DEF Queue!Levels
<1>2. ev["lvl0"] = 0 /\ ev["lvl1"] = 0 /\ 0 + 0 = 0 /\ 0 <= MaxOpened
  BY SysLinkAssumption DEF Queue!Levels
<1>3. mq = [valid |-> FALSE, handle |-> FALSE, attached |-> FALSE, rboxs |-> 0,
            notifys |-> 0, func |-> "none", level |-> "lvl1", error |-> FALSE,
            box |-> FALSE, opened |-> 0, events |-> ev, kept |-> FALSE, rc |-> "OK"]
  BY DEF Queue!Init
<1> HIDE DEF ev
<1>4. mq \in Queue!Queues
  BY <1>1, <1>3 DEF Queue!Queues
<1>5. Sound(mq)
  BY <1>2, <1>3, <1>4 DEF Sound
<1>6. msg \in Queue!Messages
  BY <1>1 DEF Queue!Init, Queue!Messages
<1>7. mbuf \in Queue!Buffers /\ mbuf.held = "none"
  BY <1>1 DEF Queue!Init, Queue!Buffers
<1> QED BY <1>5, <1>6, <1>7 DEF QueueInv

LEMMA CallProper ==
  ASSUME Sound(mq), Queue!QueueNext
  PROVE  Proper(mq, mq') /\ UNCHANGED <<msg, mbuf>>
<1>1. ASSUME NEW S, \A u \in S : Proper(mq, u), Queue!Does(S)
      PROVE  Proper(mq, mq') /\ UNCHANGED <<msg, mbuf>>
  <2>1. PICK u \in S : mq' = Queue!Return(u, "OK")
    BY <1>1 DEF Queue!Does
  <2> QED BY <1>1, <2>1, ProperReturn DEF Queue!Does
<1>2. CASE Queue!Does(Queue!Construct(mq))
  <2>1. ASSUME NEW u \in Queue!Construct(mq) PROVE Proper(mq, u)
    BY QueueConstructed DEF Proper
  <2> QED BY <1>1, <1>2, <2>1
<1>3. ASSUME NEW sync \in BOOLEAN, Queue!Does(Queue!Destruct(mq, sync))
      PROVE  Proper(mq, mq') /\ UNCHANGED <<msg, mbuf>>
  <2>1. ASSUME NEW u \in Queue!Destruct(mq, sync) PROVE Proper(mq, u)
    BY DestroyFacts DEF Proper
  <2> QED BY <1>1, <1>3, <2>1
<1>4. CASE Queue!Does(Queue!MsgboxCreate(mq))
  <2>1. ASSUME NEW u \in Queue!MsgboxCreate(mq) PROVE Proper(mq, u)
    BY CreateFacts, ProperWhen DEF Spared
  <2> QED BY <1>1, <1>4, <2>1
<1>5. CASE Queue!Does(Queue!MsgboxDelete(mq))
  <2>1. ASSUME NEW u \in Queue!MsgboxDelete(mq) PROVE Proper(mq, u)
    BY DeleteFacts, ProperWhen DEF Spared
  <2> QED BY <1>1, <1>5, <2>1
<1>6. CASE Queue!Does(Queue!MsgboxOpen(mq))
  <2>1. ASSUME NEW u \in Queue!MsgboxOpen(mq) PROVE Proper(mq, u)
    BY OpenedFacts, ProperWhen DEF Spared
  <2> QED BY <1>1, <1>6, <2>1
<1>7. CASE mq.opened > (IF mq.attached THEN 1 ELSE 0) /\ Queue!Does(Queue!MsgboxClose(mq))
  <2>1. ASSUME NEW u \in Queue!MsgboxClose(mq) PROVE Proper(mq, u)
    BY <1>7, CloseBoxFacts, ProperWhen DEF Besides, Spared
  <2> QED BY <1>1, <1>7, <2>1
<1>8. CASE mq.valid /\ Queue!Does(Queue!MsgboxAttach(mq))
  <2>1. ASSUME NEW u \in Queue!MsgboxAttach(mq) PROVE Proper(mq, u)
    BY AttachFacts, ProperWhen DEF Spared
  <2> QED BY <1>1, <1>8, <2>1
<1>9. CASE mq.valid /\ Queue!Does(Queue!MsgboxDetach(mq))
  <2>1. ASSUME NEW u \in Queue!MsgboxDetach(mq) PROVE Proper(mq, u)
    BY <1>9, DetachFacts, ProperWhen DEF Spared
  <2> QED BY <1>1, <1>9, <2>1
<1>10. CASE ~mq.valid /\ Queue!Does(Queue!MsgqPrepare(mq))
  <2>1. ASSUME NEW u \in Queue!MsgqPrepare(mq) PROVE Proper(mq, u)
    BY <1>10, PreparedFacts DEF Proper
  <2> QED BY <1>1, <1>10, <2>1
<1>11. ASSUME NEW level \in Queue!Levels, Queue!Does(Queue!LevelSet(mq, level))
       PROVE  Proper(mq, mq') /\ UNCHANGED <<msg, mbuf>>
  <2>1. ASSUME NEW u \in Queue!LevelSet(mq, level) PROVE Proper(mq, u)
    BY FlagFacts, ProperWhen DEF Spared
  <2> QED BY <1>1, <1>11, <2>1
<1>12. ASSUME NEW func \in Queue!Funcs \union {"none"}, Queue!Does(Queue!Register(mq, func))
       PROVE  Proper(mq, mq') /\ UNCHANGED <<msg, mbuf>>
  <2>1. ASSUME NEW u \in Queue!Register(mq, func) PROVE Proper(mq, u)
    BY RegisterEventFacts, ProperWhen
  <2> QED BY <1>1, <1>12, <2>1
<1>13. CASE Queue!Does(Queue!Unregister(mq))
  <2>1. ASSUME NEW u \in Queue!Unregister(mq) PROVE Proper(mq, u)
    BY UnregisterEventFacts, ProperWhen
  <2> QED BY <1>1, <1>13, <2>1
<1>14. CASE Queue!Does(Queue!Callback(mq))
  <2>1. ASSUME NEW u \in Queue!Callback(mq) PROVE Proper(mq, u)
    BY FlagFacts, ProperWhen DEF Spared
  <2> QED BY <1>1, <1>14, <2>1
<1>15. CASE Queue!Does(Queue!CheckErrors(mq))
  <2>1. ASSUME NEW u \in Queue!CheckErrors(mq) PROVE Proper(mq, u)
    BY FlagFacts, ProperWhen DEF Spared
  <2> QED BY <1>1, <1>15, <2>1
<1> QED BY <1>2, <1>3, <1>4, <1>5, <1>6, <1>7, <1>8, <1>9, <1>10, <1>11, <1>12, <1>13,
           <1>14, <1>15 DEF Queue!QueueNext

LEMMA MessageStep ==
  ASSUME QueueInv, Queue!MessageNext
  PROVE  QueueInv' /\ UNCHANGED <<mq, mbuf>>
<1>1. /\ msg \in Queue!Messages
      /\ msg.mine \in BOOLEAN /\ msg.queued \in 0 .. 2 /\ msg.theirs \in BOOLEAN
  BY DEF QueueInv, Queue!Messages
<1>2. msg' \in Queue!Messages /\ UNCHANGED <<mq, mbuf>>
  <2>1. ASSUME NEW notify \in BOOLEAN, Queue!Send(notify)
        PROVE  msg' \in Queue!Messages /\ UNCHANGED <<mq, mbuf>>
    <3>1. /\ UNCHANGED <<mq, mbuf>> /\ msg.queued + 1 \in 0 .. 2
          /\ msg' \in {msg, Queue!Sent(msg), Queue!Put(msg)}
      BY <1>1, <2>1 DEF Queue!Send
    <3>2. Queue!Put(msg) \in Queue!Messages
      BY <1>1, <3>1 DEF Queue!Put, Queue!Messages
    <3>3. Queue!Sent(msg) \in Queue!Messages
      BY <3>2 DEF Queue!Sent, Queue!Messages
    <3> QED BY <1>1, <3>1, <3>2, <3>3
  <2>2. CASE Queue!RemoteTakes
    <3>1. /\ msg' = [msg EXCEPT !.queued = msg.queued - 1, !.theirs = TRUE]
          /\ msg.queued - 1 \in 0 .. 2
      BY <1>1, <2>2 DEF Queue!RemoteTakes
    <3> QED BY <1>1, <2>2, <3>1 DEF Queue!Messages, Queue!RemoteTakes
  <2>3. CASE Queue!RemoteFrees
    <3> DEFINE b == msg.mine \/ msg.queued = 0
    <3>1. msg' = [msg EXCEPT !.theirs = FALSE, !.mine = b] /\ b \in BOOLEAN
      BY <2>3 DEF Queue!RemoteFrees
    <3> HIDE DEF b
    <3>2. msg' \in Queue!Messages
      BY <1>1, <3>1 DEF Queue!Messages
    <3> QED BY <2>3, <3>2 DEF Queue!RemoteFrees
  <2> QED BY <2>1, <2>2, <2>3 DEF Queue!MessageNext
<1> QED BY <1>2 DEF QueueInv

\* The making of a buffer that fails leaves no more heap than there was, unless the
\* library refuses to give up the new one, and registers none.
Unspoilt(b, c) ==
    b.held = "none" /\ c.held = "none" =>
      /\ c.heap <= b.heap \/ c.kept
      /\ c.registered => b.registered

Stocked(b) == b \in Queue!Buffers /\ (b.held # "none" => b.heap > 0)

LEMMA MadeFacts ==
  ASSUME NEW b, Stocked(b), b.held = "none", NEW kind \in {"created", "opened"},
         NEW c \in Queue!BufferMade(b, kind)
  PROVE  Stocked(c) /\ Unspoilt(b, c)
<1>1. /\ b \in Queue!Buffers /\ b.heap \in 0 .. MaxOpened
      /\ {"OK", "HEAPCREATE", "HIDEXIST"} \subseteq Queue!Codes
  BY DEF Stocked, Queue!Buffers, Queue!Codes
<1>2. PICK h \in Queue!HeapMade(b, kind) :
        IF h.rc # "OK" THEN c = h
        ELSE c \in Queue!Always(Queue!RegisterHeap(h), LAMBDA r :
                     IF Queue!Bad(r) THEN Queue!HeapUnmade(r) ELSE {[r EXCEPT !.held = kind]})
  BY DEF Queue!BufferMade, Queue!Then, Queue!Bad
<1>3. CASE h = Queue!Return(b, "HEAPCREATE")
  <2>1. h = [b EXCEPT !.rc = "HEAPCREATE"]
    BY <1>3 DEF Queue!Return
  <2>2. /\ h \in Queue!Buffers /\ h.held = b.held /\ h.heap = b.heap
        /\ h.registered = b.registered /\ h.rc # "OK"
    BY <1>1, <2>1 DEF Queue!Buffers
  <2>3. c = h
    BY <1>2, <2>2
  <2>4. c.heap <= b.heap /\ (c.registered => b.registered) /\ c.held = "none"
    BY <1>1, <2>2, <2>3
  <2> QED BY <2>2, <2>3, <2>4 DEF Stocked, Unspoilt
<1>4. CASE b.heap # MaxOpened /\ h = [b EXCEPT !.heap = b.heap + 1, !.rc = "OK"]
  <2>1. b.heap + 1 \in 0 .. MaxOpened
    BY <1>1, <1>4, SysLinkAssumption
  <2>2. /\ h \in Queue!Buffers /\ h.held = "none" /\ h.heap = b.heap + 1
        /\ h.registered = b.registered /\ h.rc = "OK"
    BY <1>1, <1>4, <2>1 DEF Queue!Buffers
  <2>3. PICK r \in Queue!RegisterHeap(h) :
          c \in IF Queue!Bad(r) THEN Queue!HeapUnmade(r) ELSE {[r EXCEPT !.held = kind]}
    BY <1>2, <2>2 DEF Queue!Always
  <2>4. CASE r = Queue!Return(h, "HIDEXIST")
    <3>1. r = [h EXCEPT !.rc = "HIDEXIST"]
      BY <2>4 DEF Queue!Return
    <3>2. /\ r \in Queue!Buffers /\ r.held = "none" /\ r.heap = b.heap + 1
          /\ r.registered = b.registered /\ r.rc # "OK"
      BY <1>1, <2>2, <3>1 DEF Queue!Buffers
    <3>3. c = [r EXCEPT !.kept = TRUE] \/ c = [r EXCEPT !.heap = r.heap - 1, !.kept = FALSE]
      BY <2>3, <3>2 DEF Queue!Bad, Queue!HeapUnmade
    <3>4. r.heap - 1 = b.heap
      BY <1>1, <3>2
    <3>5. /\ c \in Queue!Buffers /\ c.held = "none" /\ c.registered = b.registered
          /\ c.heap = b.heap \/ c.kept
      <4>1. CASE c = [r EXCEPT !.kept = TRUE]
        BY <3>2, <4>1 DEF Queue!Buffers
      <4>2. CASE c = [r EXCEPT !.heap = r.heap - 1, !.kept = FALSE]
        BY <1>1, <3>2, <3>4, <4>2 DEF Queue!Buffers
      <4> QED BY <3>3, <4>1, <4>2
    <3> QED BY <1>1, <3>5 DEF Stocked, Unspoilt
  <2>5. CASE r = [h EXCEPT !.registered = TRUE]
    <3>1. r \in Queue!Buffers /\ r.heap = b.heap + 1 /\ r.rc = "OK"
      BY <2>2, <2>5 DEF Queue!Buffers
    <3>2. c = [r EXCEPT !.held = kind]
      BY <2>3, <3>1 DEF Queue!Bad
    <3>3. c \in Queue!Buffers /\ c.held = kind /\ c.heap = b.heap + 1
      BY <3>1, <3>2 DEF Queue!Buffers
    <3> QED BY <1>1, <3>3 DEF Stocked, Unspoilt
  <2> QED BY <2>3, <2>4, <2>5 DEF Queue!RegisterHeap
<1> QED BY <1>2, <1>3, <1>4 DEF Queue!HeapMade

LEMMA UnmadeFacts ==
  ASSUME NEW b, Stocked(b), b.held # "none", NEW c \in Queue!BufferUnmade(b)
  PROVE  Stocked(c)
<1>1. b \in Queue!Buffers /\ b.heap - 1 \in 0 .. MaxOpened /\ "OK" \in Queue!Codes
  BY SysLinkAssumption DEF Stocked, Queue!Buffers, Queue!Codes
<1>2. PICK r \in {FALSE, b.registered} :
        c \in Queue!HeapUnmade([b EXCEPT !.held = "none", !.registered = r, !.rc = "OK"])
  BY DEF Queue!BufferUnmade
<1> DEFINE u == [b EXCEPT !.held = "none", !.registered = r, !.rc = "OK"]
<1>3. r \in BOOLEAN
  BY <1>1 DEF Queue!Buffers
<1>4. u \in Queue!Buffers /\ u.held = "none" /\ u.heap = b.heap
  BY <1>1, <1>3 DEF Queue!Buffers
<1>5. c = [u EXCEPT !.kept = TRUE] \/ c = [u EXCEPT !.heap = u.heap - 1, !.kept = FALSE]
  BY <1>2 DEF Queue!HeapUnmade
<1> HIDE DEF u
<1>6. c \in Queue!Buffers /\ c.held = "none"
  <2>1. CASE c = [u EXCEPT !.kept = TRUE]
    BY <1>4, <2>1 DEF Queue!Buffers
  <2>2. CASE c = [u EXCEPT !.heap = u.heap - 1, !.kept = FALSE]
    BY <1>1, <1>4, <2>2 DEF Queue!Buffers
  <2> QED BY <1>5, <2>1, <2>2
<1> QED BY <1>6 DEF Stocked

LEMMA BufferStep ==
  ASSUME QueueInv, Queue!BufferNext
  PROVE  QueueInv' /\ UNCHANGED <<mq, msg>> /\ Unspoilt(mbuf, mbuf')
<1>1. Stocked(mbuf)
  BY DEF QueueInv, Stocked
<1>2. Stocked(mbuf') /\ UNCHANGED <<mq, msg>> /\ Unspoilt(mbuf, mbuf')
  <2>1. CASE Queue!BufferMake
    BY <1>1, <2>1, MadeFacts DEF Queue!BufferMake
  <2>2. CASE Queue!BufferUnmake
    BY <1>1, <2>2, UnmadeFacts DEF Queue!BufferUnmake, Unspoilt
  <2> QED BY <2>1, <2>2 DEF Queue!BufferNext
<1> QED BY <1>2 DEF QueueInv, Stocked

LEMMA QueueStep ==
  ASSUME QueueInv, Queue!QueueNext
  PROVE  QueueInv' /\ Proper(mq, mq') /\ UNCHANGED <<msg, mbuf>>
<1>1. Proper(mq, mq') /\ UNCHANGED <<msg, mbuf>>
  BY CallProper DEF QueueInv
<1> QED BY <1>1 DEF QueueInv, Proper

LEMMA QueueUnchanged == ASSUME QueueInv, UNCHANGED queueVars PROVE QueueInv'
BY DEF QueueInv, queueVars

-----------------------------------------------------------------------------
(***************************************************************************)
(* The specification.                                                      *)
(***************************************************************************)
IInv == PipeInv /\ QueueInv /\ NotifierInv /\ TreeInv

LEMMA Start == Init => IInv
BY PipeStart, QueueStart, NotifierStart, TreeStart DEF Init, IInv

\* What a step does to the queue and to the buffer.
LEMMA AnyQueueStep ==
  ASSUME QueueInv,
         \/ Queue!QueueNext \/ Queue!MessageNext \/ Queue!BufferNext
         \/ UNCHANGED queueVars
  PROVE  QueueInv' /\ Proper(mq, mq') /\ Unspoilt(mbuf, mbuf')
<1>0. /\ UNCHANGED mbuf => Unspoilt(mbuf, mbuf')
      /\ QueueInv' /\ UNCHANGED mq => Proper(mq, mq')
  <2>1. mbuf.heap \in 0 .. MaxOpened
    BY DEF QueueInv, Queue!Buffers
  <2>2. UNCHANGED mbuf => Unspoilt(mbuf, mbuf')
    BY <2>1 DEF Unspoilt
  <2> QED BY <2>2 DEF QueueInv, Proper
<1>1. CASE Queue!QueueNext
  BY <1>0, <1>1, QueueStep
<1>2. CASE Queue!MessageNext
  BY <1>0, <1>2, MessageStep
<1>3. CASE Queue!BufferNext
  BY <1>0, <1>3, BufferStep
<1>4. CASE UNCHANGED queueVars
  BY <1>0, <1>4, QueueUnchanged DEF queueVars
<1> QED BY <1>1, <1>2, <1>3, <1>4

\* Every step is one of one kind of object, and leaves the others alone.
LEMMA StepOfEach ==
  ASSUME [Next]_vars
  PROVE  /\ Pipe!Next \/ UNCHANGED pipeVars
         /\ \/ Queue!QueueNext \/ Queue!MessageNext \/ Queue!BufferNext
            \/ UNCHANGED queueVars
         /\ [Notify!Next]_notifierVars
         /\ [Tree!Next]_treeVars
<1>1. CASE UNCHANGED vars
  BY <1>1 DEF vars
<1>2. CASE Next
  BY <1>2 DEF Next, PipeStill, QueueStill, NotifyStill, TreeStill
<1> QED BY <1>1, <1>2

LEMMA Step == IInv /\ [Next]_vars => IInv'
<1> SUFFICES ASSUME IInv, [Next]_vars PROVE IInv'
  OBVIOUS
<1>1. PipeInv'
  BY StepOfEach, PipeStep, PipeUnchanged DEF IInv
<1>2. QueueInv'
  BY StepOfEach, AnyQueueStep DEF IInv
<1>3. NotifierInv'
  BY StepOfEach, NotifierStep DEF IInv
<1>4. TreeInv'
  BY StepOfEach, TreeStep DEF IInv
<1> QED BY <1>1, <1>2, <1>3, <1>4 DEF IInv

LEMMA Invariant == Spec => []IInv
BY Start, Step, PTL DEF Spec

\* The fields of all objects stay in their types: the counters of a queue in their
\* 8-bit fields, those of the objects and notifiers at or above the value that marks
\* a destroyed one (syslink_messageq.c, syslink_notifier.c, object.c).
THEOREM TypeCorrect == Spec => []TypeOK
<1>1. IInv => TypeOK
  <2>1. QueueInv => Queue!TypeOK
    BY DEF QueueInv, Sound, Queue!TypeOK
  <2> QED BY <2>1, NotifierFacts DEF IInv, PipeInv, TreeInv, TypeOK
<1> QED BY <1>1, Invariant, PTL

\* A call of ring_pipe uses the writer's end after its buffer is deleted only when
\* RingIO refused to close that end before (ringpipe_close, rpe_close).
THEOREM DanglingOnlyAfterFailedClose == Spec => []DanglingAfterFailedClose
<1>1. IInv => DanglingAfterFailedClose
  BY DEF IInv, PipeInv, DanglingAfterFailedClose, Pipe!DanglingAfterFailedClose
<1> QED BY <1>1, Invariant, PTL

\* For any capacity and any events: a task that took a count of the queue's semaphore
\* takes no node from an empty list, unless the interrupt appended one while the task
\* removed the last (event_queue_push, _event_queue_pop, bilist_del).
THEOREM PopNeverMisses == Spec => []PopFindsEvent
<1>1. IInv => PopFindsEvent
  BY NotifierFacts DEF IInv, PopFindsEvent
<1> QED BY <1>1, Invariant, PTL

\* Every event in a notifier's queue has its count, so that a task can take it, until
\* a search with a time takes two counts for one event (event_queue_search_timed).
THEOREM NoEventStranded == Spec => []NoneStranded
<1>1. IInv => NoneStranded
  BY NotifierFacts DEF IInv, NoneStranded
<1> QED BY <1>1, Invariant, PTL

\* Whatever call of the libraries fails while a pipe, a queue or a buffer is made
\* ready, what the earlier calls made is given up again, but for what the libraries
\* refuse to give up (rpe_prepare, msgq_prepare, message_buffer_create and _open).
THEOREM FailureLeavesNothing == Spec => FailedPreparationLeavesNothing
<1>1. IInv /\ [Next]_vars =>
        [call' = "prepare" /\ Pipe!Bad(pipe') =>
           pipe'.there \subseteq pipe.there \union pipe'.refused]_Pipe!vars
  BY StepOfEach, PipeStep DEF IInv, pipeVars, Pipe!vars
<1>2. IInv /\ [Next]_vars =>
        [/\ ~mq.valid /\ ~mq'.valid /\ mq'.box => mq.box \/ mq'.kept
         /\ mbuf.held = "none" /\ mbuf'.held = "none" =>
              /\ mbuf'.heap <= mbuf.heap \/ mbuf'.kept
              /\ mbuf'.registered => mbuf.registered]_Queue!vars
  BY StepOfEach, AnyQueueStep DEF IInv, Proper, Sound, Unspoilt
<1> QED
  BY <1>1, <1>2, Invariant, PTL
     DEF Spec, FailedPreparationLeavesNothing, Pipe!FailedPreparationLeavesNothing,
         Queue!FailedPreparationLeavesNothing

\* For any width of the counter: messageq_destruct leaves no event registered that
\* would call back into the destroyed queue, as long as the registered events are
\* fewer than the counter has values (messageq_register, messageq_unregister).
THEOREM NoEventOutlivesQueue == Spec => DestroyedHasNoEvents
<1>1. IInv /\ [Next]_vars =>
        [mq.valid /\ ~mq'.valid /\ Queue!Registered(mq) < Modulus =>
           Queue!Registered(mq') = 0]_Queue!vars
  <2> SUFFICES ASSUME IInv, [Next]_vars, mq.valid, ~mq'.valid,
                      Queue!Registered(mq) < Modulus
               PROVE  Queue!Registered(mq') = 0
    OBVIOUS
  <2> DEFINE r == Queue!Registered(mq)
  <2>1. mq'.events = mq.events /\ mq.notifys = 0
    BY StepOfEach, AnyQueueStep DEF IInv, Proper
  <2>2. r \in Nat /\ mq.notifys = r % Modulus
    <3>1. mq.events \in [Queue!Levels -> 0 .. MaxOpened]
      BY QueueFields DEF IInv, QueueInv, Sound
    <3>2. mq.events["lvl0"] \in Nat /\ mq.events["lvl1"] \in Nat
      BY <3>1, SysLinkAssumption DEF Queue!Levels
    <3> QED BY <3>2 DEF IInv, QueueInv, Sound, Queue!Registered
  <2>3. Queue!Registered(mq') = r
    BY <2>1 DEF Queue!Registered
  <2> HIDE DEF r
  <2>4. r % Modulus = r
    <3>1. r < Modulus
      BY DEF r
    <3> QED BY <2>2, <3>1, SysLinkAssumption
  <2> QED BY <2>1, <2>2, <2>3, <2>4
<1> QED BY <1>1, Invariant, PTL DEF Spec, DestroyedHasNoEvents, Queue!DestroyedHasNoEvents
=============================================================================
