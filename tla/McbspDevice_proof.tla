-------------------------- MODULE McbspDevice_proof --------------------------
(***************************************************************************)
(* Proofs about McbspDevice for every number of link sets and every choice *)
(* of faults.                                                              *)
(***************************************************************************)
EXTENDS McbspDevice, TLAPS

Empty(d) == d \notin xfer /\ links[d] = 0 /\ lost[d] = 0

\* A channel whose handle is out: its own mode, no set lost, and, until its deletion
\* freed the transfer channel, both sets.
Created(d) ==
    d \in owner => mode[d] = d /\ lost[d] = 0 /\ (d \in xfer => links[d] = MAXLINKCNT)

\* A channel that is not opened holds nothing and no call on it sleeps.
Closed(d) ==
    chanState[d] # "OPENED" => Empty(d) /\ d \notin owner /\ pc[d] = "idle"

\* Where a call sleeps tells how far it came.
Asleep(d) ==
    /\ pc[d] \in {"clock", "sync"} => d \notin owner /\ mode[d] = d /\ Empty(d)
    /\ pc[d] \in {"rate", "resync"} => d \in owner
    /\ pc[d] \in {"sync", "resync"} => d = "OUTPUT"

ChanInv(d) == Created(d) /\ Closed(d) /\ Asleep(d)

\* The state of the instance.
Instance ==
    /\ bound => inUse
    /\ ~bound => /\ ports = {} /\ ~srgOn
                 /\ \A d \in Dir : chanState[d] = "DELETED"

IInv == TypeOK /\ Instance /\ \A d \in Dir : ChanInv(d)
-----------------------------------------------------------------------------
LEMMA InitInv == Init => IInv
<1> SUFFICES ASSUME Init PROVE IInv
  OBVIOUS
<1>1. Available = LinkSets
  BY LinkSetsAssumption DEF Init, Available, Dir
<1>2. TypeOK
  <2>1. /\ chanState \in [Dir -> {"DELETED", "CLOSED", "OPENED"}]
        /\ mode \in [Dir -> Dir \union {"NONE", "CLOSED"}]
        /\ pc \in [Dir -> {"idle", "clock", "sync", "rate", "resync"}]
        /\ links \in [Dir -> 0 .. MAXLINKCNT] /\ lost \in [Dir -> 0 .. 1]
    BY DEF Init, MAXLINKCNT
  <2>2. Available \in Nat
    BY <1>1, LinkSetsAssumption
  <2> QED BY <2>1, <2>2, Zenon DEF Init, TypeOK
<1>3. Instance
  BY DEF Init, Instance, Dir
<1>4. ASSUME NEW d \in Dir PROVE ChanInv(d)
  BY DEF Init, ChanInv, Created, Closed, Asleep, Empty, Dir
<1> QED BY <1>2, <1>3, <1>4 DEF IInv

\* The sets taken for one channel, if there were as many, leave the rest.
LEMMA AvailableAfter ==
    ASSUME TypeOK, NEW d \in Dir,
           NEW k \in 0 .. MAXLINKCNT, NEW l \in 0 .. 1,
           links' = [links EXCEPT ![d] = k], lost' = [lost EXCEPT ![d] = l],
           k + l <= Available + links[d] + lost[d]
    PROVE  /\ links' \in [Dir -> 0 .. MAXLINKCNT] /\ lost' \in [Dir -> 0 .. 1]
           /\ Available' \in Nat
<1>1. links' \in [Dir -> 0 .. MAXLINKCNT] /\ lost' \in [Dir -> 0 .. 1]
  BY DEF TypeOK
<1>2. Available \in Nat /\ LinkSets \in Nat
  BY LinkSetsAssumption DEF TypeOK
<1>3. /\ links["INPUT"] \in 0 .. 2 /\ links["OUTPUT"] \in 0 .. 2
      /\ lost["INPUT"] \in 0 .. 1 /\ lost["OUTPUT"] \in 0 .. 1
      /\ k \in 0 .. 2
  BY DEF TypeOK, Dir, MAXLINKCNT
<1>4. CASE d = "INPUT"
  <2>1. /\ links'["INPUT"] = k /\ lost'["INPUT"] = l
        /\ links'["OUTPUT"] = links["OUTPUT"] /\ lost'["OUTPUT"] = lost["OUTPUT"]
    BY <1>4 DEF TypeOK, Dir
  <2> QED BY <2>1, <1>1, <1>2, <1>3, <1>4 DEF Available
<1>5. CASE d = "OUTPUT"
  <2>1. /\ links'["OUTPUT"] = k /\ lost'["OUTPUT"] = l
        /\ links'["INPUT"] = links["INPUT"] /\ lost'["INPUT"] = lost["INPUT"]
    BY <1>5 DEF TypeOK, Dir
  <2> QED BY <2>1, <1>1, <1>2, <1>3, <1>5 DEF Available
<1> QED BY <1>4, <1>5 DEF Dir

\* What a call on a channel leaves of the invariant.  All of it but the types: the
\* other channel is as it was, the call is on a bound instance, and the channel it is
\* made on stays, or ends, well formed.
LEMMA OneChannel ==
    ASSUME IInv, NEW d \in Dir, bound, bound', inUse' = inUse,
           \A c \in Dir \ {d} :
              /\ chanState'[c] = chanState[c] /\ mode'[c] = mode[c] /\ pc'[c] = pc[c]
              /\ (c \in owner') = (c \in owner) /\ (c \in xfer') = (c \in xfer)
              /\ links'[c] = links[c] /\ lost'[c] = lost[c],
           ChanInv(d)', TypeOK'
    PROVE  IInv'
<1>1. Instance'
  BY DEF IInv, Instance
<1>2. ASSUME NEW c \in Dir PROVE ChanInv(c)'
  <2>1. CASE c = d
    BY <2>1
  <2>2. CASE c # d
    BY <2>2 DEF IInv, ChanInv, Created, Closed, Asleep, Empty
  <2> QED BY <2>1, <2>2
<1> QED BY <1>1, <1>2 DEF IInv

\* The end of a creation whose channel holds nothing yet.
LEMMA OpenInv ==
    ASSUME IInv, NEW d \in Dir, NEW p \in SUBSET Dir,
           bound, bound' = bound, inUse' = inUse, known' \in SUBSET Dir,
           UNCHANGED srgVars,
           Empty(d), d \notin owner,
           chanState' = [chanState EXCEPT ![d] = "OPENED"],
           need' \in SUBSET Dir,
           Open(d, d, p)
    PROVE  IInv'
<1>1. PICK r \in SetupEdma :
        /\ xfer' = IF r \in {"kept", "ready"} THEN xfer \union {d} ELSE xfer
        /\ links' = [links EXCEPT ![d] = LinksFor(r)]
        /\ lost' = [lost EXCEPT ![d] = IF r = "lost" THEN 1 ELSE 0]
        /\ mode' = [mode EXCEPT ![d] = IF r = "ready" THEN d ELSE "CLOSED"]
        /\ ports' = IF r = "ready" THEN p \union {Section(d)} ELSE p
        /\ stopSm' = IF r = "ready" THEN stopSm \ {Section(d)} ELSE stopSm
        /\ owner' = IF r = "ready" THEN owner \union {d} ELSE owner
        /\ pc' = [pc EXCEPT ![d] = "idle"]
  BY DEF Open
<1>2. TypeOK /\ Available \in Nat /\ links[d] = 0 /\ lost[d] = 0
  BY DEF IInv, TypeOK, Empty
<1> DEFINE k == LinksFor(r)
           l == IF r = "lost" THEN 1 ELSE 0
<1>3. k \in 0 .. MAXLINKCNT /\ l \in 0 .. 1 /\ k + l <= Available + links[d] + lost[d]
  BY <1>2 DEF SetupEdma, LinksFor, MAXLINKCNT
<1>4. /\ links' \in [Dir -> 0 .. MAXLINKCNT] /\ lost' \in [Dir -> 0 .. 1]
      /\ Available' \in Nat
  <2> HIDE DEF k, l
  <2>1. links' = [links EXCEPT ![d] = k] /\ lost' = [lost EXCEPT ![d] = l]
    BY <1>1 DEF k, l
  <2> QED BY <2>1, <1>2, <1>3, AvailableAfter
<1>5. Section(d) = d
  BY DEF Section, Dir
<1>6. TypeOK'
  <2>1. /\ chanState' \in [Dir -> {"DELETED", "CLOSED", "OPENED"}]
        /\ mode' \in [Dir -> Dir \union {"NONE", "CLOSED"}]
        /\ pc' \in [Dir -> {"idle", "clock", "sync", "rate", "resync"}]
    BY <1>1, <1>2 DEF TypeOK
  <2>2. ports' \subseteq Dir /\ stopSm' \subseteq Dir /\ owner' \subseteq Dir /\ xfer' \subseteq Dir
    BY <1>1, <1>2, <1>5 DEF TypeOK
  <2> QED BY <1>2, <1>4, <2>1, <2>2 DEF TypeOK, srgVars
<1>7. ChanInv(d)'
  BY <1>1, <1>2 DEF TypeOK, ChanInv, Created, Closed, Asleep, Empty, LinksFor
<1> QED BY <1>1, <1>2, <1>6, <1>7, OneChannel DEF TypeOK

\* The transmitter's sync error is cleared, during a creation or a rate change.
LEMMA SyncInv ==
    ASSUME IInv, NEW d \in Dir, d = "OUTPUT", NEW at \in {"sync", "resync"},
           bound, bound' = bound, inUse' = inUse, known' \in SUBSET Dir,
           srgOn' \in BOOLEAN, srgEnabled' \in BOOLEAN, srgConfigured' \in BOOLEAN,
           chanState' = [chanState EXCEPT ![d] = "OPENED"],
           need' \in SUBSET Dir,
           IF at = "sync" THEN d \notin owner /\ Empty(d)
                          ELSE d \in owner /\ mode[d] = d,
           Sync(d, d, at)
    PROVE  IInv'
<1>1. Available' = Available
  BY DEF Sync, edmaVars, Available
<1>2. TypeOK'
  BY <1>1 DEF IInv, TypeOK, Sync, edmaVars, Dir
<1>3. ChanInv(d)'
  BY DEF Sync, edmaVars, IInv, TypeOK, ChanInv, Created, Closed, Asleep, Empty
<1> QED BY <1>2, <1>3, OneChannel DEF Sync, edmaVars, IInv, TypeOK

\* The steps of a creation.
LEMMA CreateInv ==
    ASSUME IInv, NEW d \in Dir, Create(d)
    PROVE  IInv'
<1> USE DEF Takes
<1>1. ASSUME Takes(d)
      PROVE  /\ bound /\ bound' = bound /\ inUse' = inUse /\ known' \in SUBSET Dir
             /\ Empty(d) /\ d \notin owner /\ pc[d] = "idle"
             /\ chanState' = [chanState EXCEPT ![d] = "OPENED"]
             /\ chanState' \in [Dir -> {"DELETED", "CLOSED", "OPENED"}]
  BY <1>1 DEF IInv, TypeOK, ChanInv, Closed
<1>2. CASE CreateClocked(d)
  <2>0. Takes(d) /\ UNCHANGED <<owner, edmaVars, portVars>>
    BY <1>2 DEF CreateClocked
  <2>1. Available' = Available
    BY <2>0 DEF edmaVars, Available
  <2>2. TypeOK'
    BY <1>1, <1>2, <2>1 DEF CreateClocked, IInv, TypeOK, edmaVars, portVars
  <2>3. ChanInv(d)'
    BY <1>1, <1>2 DEF CreateClocked, edmaVars, IInv, TypeOK, ChanInv, Created, Closed,
          Asleep, Empty
  <2> QED BY <1>1, <1>2, <2>2, <2>3, OneChannel DEF CreateClocked, edmaVars, IInv, TypeOK
<1>3. CASE CreateUnclocked(d)
  <2>1. need' \in SUBSET Dir /\ Takes(d) /\ UNCHANGED srgVars
    BY <1>3 DEF CreateUnclocked, IInv, TypeOK
  <2>2. CASE d = "OUTPUT"
    BY <1>1, <1>3, <2>1, <2>2, SyncInv DEF CreateUnclocked, srgVars, IInv, TypeOK
  <2>3. CASE d # "OUTPUT"
    <3>1. Open(d, d, ports) /\ ports \in SUBSET Dir
      BY <1>1, <1>3, <2>1, <2>3 DEF CreateUnclocked, IInv, TypeOK
    <3> QED BY <1>1, <2>1, <3>1, OpenInv
  <2> QED BY <2>2, <2>3
<1>4. ASSUME pc[d] \in {"clock", "sync"}, UNCHANGED <<instVars, chanState, need, srgVars>>
      PROVE  /\ bound /\ bound' = bound /\ inUse' = inUse /\ known' \in SUBSET Dir
             /\ Empty(d) /\ d \notin owner /\ mode[d] = d
             /\ chanState' = [chanState EXCEPT ![d] = "OPENED"]
             /\ need' \in SUBSET Dir /\ UNCHANGED srgVars
             /\ srgOn' \in BOOLEAN /\ srgEnabled' \in BOOLEAN /\ srgConfigured' \in BOOLEAN
  BY <1>4 DEF IInv, TypeOK, Instance, ChanInv, Closed, Asleep, instVars, srgVars
<1>5. CASE CreateAfterClock(d)
  <2>1. pc[d] = "clock" /\ UNCHANGED <<instVars, chanState, need, srgVars>>
    BY <1>5 DEF CreateAfterClock
  <2>2. CASE d = "OUTPUT"
    BY <1>4, <1>5, <2>1, <2>2, SyncInv DEF CreateAfterClock
  <2>3. CASE d # "OUTPUT"
    <3>1. Open(d, d, ports) /\ ports \in SUBSET Dir
      BY <1>4, <1>5, <2>1, <2>3 DEF CreateAfterClock, IInv, TypeOK
    <3> QED BY <1>4, <2>1, <3>1, OpenInv
  <2> QED BY <2>2, <2>3
<1>6. CASE CreateAfterSync(d)
  <2>1. pc[d] = "sync" /\ UNCHANGED <<instVars, chanState, need, srgVars>>
    BY <1>6 DEF CreateAfterSync
  <2>2. Open(d, d, ports \ {"OUTPUT"}) /\ ports \ {"OUTPUT"} \in SUBSET Dir
    BY <1>4, <1>6, <2>1 DEF CreateAfterSync, IInv, TypeOK
  <2> QED BY <1>4, <2>1, <2>2, OpenInv
<1>7. CASE CreateRefused(d) \/ CreateRateRefused(d)
  <2>0. /\ Takes(d) /\ mode' = [mode EXCEPT ![d] = "CLOSED"]
        /\ UNCHANGED <<pc, owner, edmaVars, portVars, srgOn, srgEnabled>>
    BY <1>7 DEF CreateRefused, CreateRateRefused, srgVars
  <2>1. Available' = Available
    BY <2>0 DEF edmaVars, Available
  <2>2. TypeOK'
    BY <1>1, <1>7, <2>0, <2>1
    DEF CreateRefused, CreateRateRefused, IInv, TypeOK, edmaVars, srgVars, portVars
  <2>3. ChanInv(d)'
    BY <1>1, <2>0 DEF edmaVars, IInv, TypeOK, ChanInv, Created, Closed, Asleep, Empty
  <2> QED BY <1>1, <2>0, <2>2, <2>3, OneChannel DEF edmaVars, IInv, TypeOK
<1> QED BY <1>2, <1>3, <1>5, <1>6, <1>7 DEF Create

\* A channel on which its holder may call.
LEMMA CalledFacts ==
    ASSUME IInv, NEW d \in Dir, d \in owner
    PROVE  /\ Section(mode[d]) = d /\ mode[d] = d /\ lost[d] = 0
           /\ chanState[d] = "OPENED" /\ bound
           /\ chanState = [chanState EXCEPT ![d] = "OPENED"]
BY DEF Section, Dir, IInv, TypeOK, Instance, ChanInv, Created, Closed

\* The steps of the control commands.
LEMMA ControlInv ==
    ASSUME IInv, NEW d \in Dir, Control(d)
    PROVE  IInv'
<1>1. d \in owner
  BY DEF Control, ChanReset, DeviceReset, StopChan, StartChan, SrgrControl, ConfigSrgr,
         SetClkMode, ModifySampleRate, ModifyRateRefused, RateAfterClock, RateAfterSync,
         Commanded, Called, IInv, ChanInv, Asleep
<1>2. /\ Section(mode[d]) = d /\ mode[d] = d /\ lost[d] = 0
      /\ chanState[d] = "OPENED" /\ bound
      /\ chanState = [chanState EXCEPT ![d] = "OPENED"]
  BY <1>1, CalledFacts
<1>3. CASE \/ ChanReset(d) \/ DeviceReset(d) \/ StopChan(d) \/ StartChan(d)
           \/ SrgrControl(d) \/ ConfigSrgr(d) \/ SetClkMode(d)
  <2>1. UNCHANGED <<instVars, chanState, mode, owner, pc, edmaVars>>
    BY <1>3 DEF ChanReset, DeviceReset, StopChan, StartChan, SrgrControl, ConfigSrgr,
                SetClkMode, chanVars
  <2>2. Available' = Available
    BY <2>1 DEF edmaVars, Available
  <2>3. ports' \subseteq Dir /\ stopSm' \subseteq Dir /\ need' \subseteq Dir
    <3>1. \A c \in Dir : Section(mode[c]) \in Dir
      BY DEF Section, Dir
    <3> QED BY <1>2, <1>3, <3>1
            DEF ChanReset, DeviceReset, StopChan, StartChan, SrgrControl, ConfigSrgr,
                SetClkMode, chanVars, portVars, IInv, TypeOK
  <2>4. srgOn' \in BOOLEAN /\ srgEnabled' \in BOOLEAN /\ srgConfigured' \in BOOLEAN
    <3>1. CASE ConfigSrgr(d)
      <4>1. /\ srgConfigured' = (srgConfigured \/ Section(mode[d]) \in need)
            /\ UNCHANGED <<srgOn, srgEnabled>>
        BY <3>1 DEF ConfigSrgr
      <4>2. (srgConfigured \/ Section(mode[d]) \in need) \in BOOLEAN
        OBVIOUS
      <4>3. srgConfigured' \in BOOLEAN
        BY <4>1, <4>2
      <4> QED BY <4>1, <4>3, Zenon DEF IInv, TypeOK
    <3>2. CASE SrgrControl(d)
      BY <3>2, Zenon DEF SrgrControl, IInv, TypeOK
    <3>3. CASE UNCHANGED srgVars
      BY <3>3, Zenon DEF srgVars, IInv, TypeOK
    <3> QED BY <1>3, <3>1, <3>2, <3>3
            DEF ChanReset, DeviceReset, StopChan, StartChan, SetClkMode
  <2>5. TypeOK'
    BY <2>1, <2>2, <2>3, <2>4, Zenon DEF instVars, edmaVars, IInv, TypeOK
  <2>6. ChanInv(d)'
    BY <2>1 DEF edmaVars, IInv, ChanInv, Created, Closed, Asleep, Empty
  <2> QED BY <1>2, <2>1, <2>5, <2>6, OneChannel DEF instVars, edmaVars
<1>4. CASE ModifySampleRate(d)
  <2>0. UNCHANGED <<instVars, chanVars, edmaVars, srgEnabled, portVars>>
    BY <1>4 DEF ModifySampleRate
  <2>1. Available' = Available
    BY <2>0 DEF edmaVars, Available
  <2>2. srgOn' \in BOOLEAN /\ srgConfigured' \in BOOLEAN
    <3>1. CASE srgEnabled
      <4>1. srgOn' = TRUE /\ srgConfigured' = (Section(mode[d]) \in need)
        BY <1>4, <3>1, Zenon DEF ModifySampleRate
      <4>2. (Section(mode[d]) \in need) \in BOOLEAN
        OBVIOUS
      <4>3. srgConfigured' \in BOOLEAN
        BY <4>1, <4>2
      <4> QED BY <4>1, <4>3, Zenon
    <3>2. CASE ~srgEnabled
      BY <1>4, <3>2, Zenon DEF ModifySampleRate, IInv, TypeOK
    <3> QED BY <3>1, <3>2
  <2>3. pc' = pc \/ pc' = [pc EXCEPT ![d] = "rate"]
    BY <1>4, Zenon DEF ModifySampleRate
  <2>4. pc' \in [Dir -> {"idle", "clock", "sync", "rate", "resync"}]
    BY <2>3 DEF IInv, TypeOK
  <2>5. TypeOK'
    BY <2>0, <2>1, <2>2, <2>4, Zenon DEF IInv, TypeOK, instVars, chanVars, edmaVars, portVars
  <2>6. ChanInv(d)'
    BY <1>1, <1>2, <2>0, <2>3
    DEF chanVars, edmaVars, IInv, TypeOK, ChanInv, Created, Closed, Asleep, Empty
  <2> QED BY <1>2, <2>0, <2>3, <2>5, <2>6, OneChannel
          DEF instVars, chanVars, edmaVars, IInv, TypeOK
<1>5. CASE ModifyRateRefused(d)
  <2>1. CASE d = "OUTPUT"
    <3>1. /\ Sync(d, d, "resync") /\ srgOn' = FALSE
          /\ UNCHANGED <<instVars, chanState, need, srgEnabled, srgConfigured>>
      BY <1>2, <1>5, <2>1 DEF ModifyRateRefused
    <3> QED BY <1>1, <1>2, <2>1, <3>1, SyncInv DEF instVars, IInv, TypeOK
  <2>2. CASE d # "OUTPUT"
    <3>1. /\ srgOn' = FALSE
          /\ UNCHANGED <<instVars, chanVars, pc, edmaVars, srgEnabled, srgConfigured, portVars>>
      BY <1>2, <1>5, <2>2 DEF ModifyRateRefused, chanVars
    <3>2. Available' = Available
      BY <3>1 DEF edmaVars, Available
    <3>3. TypeOK'
      BY <3>1, <3>2, Zenon DEF IInv, TypeOK, instVars, chanVars, edmaVars, portVars
    <3>4. ChanInv(d)'
      BY <3>1 DEF chanVars, edmaVars, IInv, ChanInv, Created, Closed, Asleep, Empty
    <3> QED BY <1>2, <3>1, <3>3, <3>4, OneChannel DEF instVars, chanVars, edmaVars
  <2> QED BY <2>1, <2>2
<1>6. CASE RateAfterClock(d)
  <2>0. pc[d] = "rate" /\ UNCHANGED <<instVars, chanState, need, srgVars>>
    BY <1>6 DEF RateAfterClock
  <2>1. CASE d = "OUTPUT"
    <3>1. Sync(d, d, "resync")
      BY <1>2, <1>6, <2>1 DEF RateAfterClock
    <3> QED BY <1>1, <1>2, <2>0, <2>1, <3>1, SyncInv DEF instVars, srgVars, IInv, TypeOK
  <2>2. CASE d # "OUTPUT"
    <3>1. pc' = [pc EXCEPT ![d] = "idle"] /\ UNCHANGED <<mode, owner, edmaVars, portVars>>
      BY <1>2, <1>6, <2>2 DEF RateAfterClock
    <3>2. Available' = Available
      BY <3>1 DEF edmaVars, Available
    <3>3. TypeOK'
      BY <2>0, <3>1, <3>2 DEF IInv, TypeOK, instVars, edmaVars, srgVars, portVars
    <3>4. ChanInv(d)'
      BY <1>1, <1>2, <2>0, <3>1
      DEF edmaVars, IInv, TypeOK, ChanInv, Created, Closed, Asleep, Empty
    <3> QED BY <1>2, <2>0, <3>1, <3>3, <3>4, OneChannel DEF instVars, edmaVars, IInv, TypeOK
  <2> QED BY <2>1, <2>2
<1>7. CASE RateAfterSync(d)
  <2>0. /\ pc' = [pc EXCEPT ![d] = "idle"] /\ ports' = ports \ {"OUTPUT"}
        /\ UNCHANGED <<instVars, chanVars, edmaVars, srgVars, stopSm>>
    BY <1>7 DEF RateAfterSync
  <2>1. Available' = Available
    BY <2>0 DEF edmaVars, Available
  <2>2. TypeOK'
    BY <2>0, <2>1 DEF IInv, TypeOK, instVars, chanVars, edmaVars, srgVars
  <2>3. ChanInv(d)'
    BY <1>1, <1>2, <2>0
    DEF chanVars, edmaVars, IInv, TypeOK, ChanInv, Created, Closed, Asleep, Empty
  <2> QED BY <1>2, <2>0, <2>2, <2>3, OneChannel DEF instVars, chanVars, edmaVars, IInv, TypeOK
<1> QED BY <1>3, <1>4, <1>5, <1>6, <1>7 DEF Control

\* The steps of a deletion.
LEMMA DeleteInv ==
    ASSUME IInv, NEW d \in Dir, Delete(d)
    PROVE  IInv'
<1>1. d \in owner /\ pc[d] = "idle"
  BY DEF Delete, DeleteNotDisabled, DeleteNotFreed, DeleteChan, DeleteChanUpTo, Called
<1>2. /\ Section(mode[d]) = d /\ mode[d] = d /\ lost[d] = 0
      /\ chanState[d] = "OPENED" /\ bound
      /\ d \in xfer => links[d] = MAXLINKCNT
  BY <1>1, CalledFacts DEF IInv, ChanInv, Created
<1>3. CASE DeleteNotDisabled(d)
  <2>0. /\ ports' = ports \union {d}
        /\ UNCHANGED <<instVars, chanVars, pc, edmaVars, srgVars, stopSm>>
    BY <1>2, <1>3 DEF DeleteNotDisabled
  <2>1. Available' = Available
    BY <2>0 DEF edmaVars, Available
  <2>2. TypeOK'
    BY <2>0, <2>1 DEF IInv, TypeOK, instVars, chanVars, edmaVars, srgVars
  <2>3. ChanInv(d)'
    BY <2>0 DEF chanVars, edmaVars, IInv, ChanInv, Created, Closed, Asleep, Empty
  <2> QED BY <1>2, <2>0, <2>2, <2>3, OneChannel DEF instVars, chanVars, edmaVars
<1>4. ASSUME DeleteChanUpTo(d)
      PROVE  /\ ports' = ports \ {d}
             /\ UNCHANGED <<instVars, mode, need, pc, lost, srgVars, stopSm>>
  BY <1>2, <1>4 DEF DeleteChanUpTo
<1>5. ASSUME NEW k \in 0 .. MAXLINKCNT, d \in xfer,
             links' = [links EXCEPT ![d] = k], lost' = lost
      PROVE  links' \in [Dir -> 0 .. MAXLINKCNT] /\ Available' \in Nat
  <2>1. lost' = [lost EXCEPT ![d] = 0]
    BY <1>2, <1>5 DEF IInv, TypeOK
  <2>2. k + 0 <= Available + links[d] + lost[d]
    BY <1>2, <1>5 DEF IInv, TypeOK, MAXLINKCNT
  <2>3. 0 \in 0 .. 1 /\ TypeOK
    BY DEF IInv
  <2> QED BY <1>5, <2>1, <2>2, <2>3, AvailableAfter
<1>6. CASE DeleteNotFreed(d)
  <2>0. DeleteChanUpTo(d) /\ UNCHANGED <<chanState, owner>>
    BY <1>6 DEF DeleteNotFreed
  <2>1. CASE UNCHANGED <<xfer, links>>
    <3>1. Available' = Available
      BY <1>4, <2>0, <2>1 DEF Available
    <3>2. TypeOK'
      BY <1>4, <2>0, <2>1, <3>1 DEF IInv, TypeOK, instVars, srgVars
    <3>3. ChanInv(d)'
      BY <1>4, <2>0, <2>1 DEF IInv, ChanInv, Created, Closed, Asleep, Empty
    <3> QED BY <1>2, <1>4, <2>0, <2>1, <3>2, <3>3, OneChannel DEF instVars
  <2>2. CASE /\ d \in xfer
             /\ \E k \in 1 .. MAXLINKCNT :
                  xfer' = xfer \ {d} /\ links' = [links EXCEPT ![d] = k]
    <3>1. PICK k \in 1 .. MAXLINKCNT :
            xfer' = xfer \ {d} /\ links' = [links EXCEPT ![d] = k]
      BY <2>2
    <3>2. links' \in [Dir -> 0 .. MAXLINKCNT] /\ Available' \in Nat
      <4>1. k \in 0 .. MAXLINKCNT
        BY <3>1 DEF MAXLINKCNT
      <4> QED BY <1>4, <1>5, <2>0, <2>2, <3>1, <4>1
    <3>3. TypeOK'
      BY <1>4, <2>0, <3>1, <3>2 DEF IInv, TypeOK, instVars, srgVars
    <3>4. ChanInv(d)'
      BY <1>1, <1>2, <1>4, <2>0, <3>1 DEF IInv, ChanInv, Created, Closed, Asleep
    <3> QED BY <1>2, <1>4, <2>0, <3>1, <3>3, <3>4, OneChannel DEF instVars, IInv, TypeOK
  <2> QED BY <1>6, <2>1, <2>2 DEF DeleteNotFreed
<1>7. CASE DeleteChan(d)
  <2>0. /\ DeleteChanUpTo(d) /\ d \in xfer
        /\ xfer' = xfer \ {d} /\ links' = [links EXCEPT ![d] = 0]
        /\ chanState' = [chanState EXCEPT ![d] = "CLOSED"] /\ owner' = owner \ {d}
    BY <1>7 DEF DeleteChan
  <2>1. links' \in [Dir -> 0 .. MAXLINKCNT] /\ Available' \in Nat
    <3>1. 0 \in 0 .. MAXLINKCNT
      BY DEF MAXLINKCNT
    <3> QED BY <1>4, <1>5, <2>0, <3>1
  <2>2. TypeOK'
    BY <1>4, <2>0, <2>1 DEF IInv, TypeOK, instVars, srgVars
  <2>3. ChanInv(d)'
    BY <1>1, <1>2, <1>4, <2>0 DEF IInv, TypeOK, ChanInv, Created, Closed, Asleep, Empty
  <2> QED BY <1>2, <1>4, <2>0, <2>2, <2>3, OneChannel DEF instVars, IInv, TypeOK
<1> QED BY <1>3, <1>6, <1>7 DEF Delete

\* The calls on the instance.
LEMMA InstanceInv ==
    ASSUME IInv, BindDev \/ BindRefused \/ UnBindDev
    PROVE  IInv'
<1>1. CASE BindDev
  <2>1. Available' = Available
    BY <1>1 DEF BindDev, edmaVars, Available
  <2>2. TypeOK'
    BY <1>1, <2>1 DEF BindDev, IInv, TypeOK, edmaVars
  <2>3. Instance'
    BY <1>1 DEF BindDev, IInv, Instance
  <2>4. ~bound
    BY <1>1 DEF BindDev, IInv, TypeOK, Instance
  <2>5. ASSUME NEW c \in Dir PROVE ChanInv(c)'
    BY <1>1, <2>4 DEF BindDev, edmaVars, IInv, TypeOK, Instance, ChanInv, Created, Closed,
          Asleep, Empty
  <2> QED BY <2>2, <2>3, <2>5 DEF IInv
<1>2. CASE BindRefused
  <2>1. Available' = Available
    BY <1>2 DEF BindRefused, edmaVars, Available
  <2>2. TypeOK'
    BY <1>2, <2>1 DEF BindRefused, IInv, TypeOK, chanVars, edmaVars, srgVars, portVars
  <2>3. Instance'
    BY <1>2 DEF BindRefused, IInv, Instance, chanVars, srgVars, portVars
  <2>4. ASSUME NEW c \in Dir PROVE ChanInv(c)'
    BY <1>2 DEF BindRefused, chanVars, edmaVars, IInv, ChanInv, Created, Closed, Asleep, Empty
  <2> QED BY <2>2, <2>3, <2>4 DEF IInv
<1>3. CASE UnBindDev
  <2>1. Available' = Available
    BY <1>3 DEF UnBindDev, UnBind, edmaVars, Available
  <2>2. TypeOK'
    BY <1>3, <2>1 DEF UnBindDev, UnBind, IInv, TypeOK, edmaVars
  <2>3. Instance'
    BY <1>3 DEF UnBindDev, UnBind, Instance
  <2>4. ASSUME NEW c \in Dir PROVE ChanInv(c)'
    BY <1>3 DEF UnBindDev, UnBind, edmaVars, IInv, TypeOK, ChanInv, Created, Closed, Asleep,
          Empty
  <2> QED BY <2>2, <2>3, <2>4 DEF IInv
<1> QED BY <1>1, <1>2, <1>3

LEMMA StutterInv == IInv /\ UNCHANGED vars => IInv'
<1> SUFFICES ASSUME IInv, UNCHANGED vars PROVE IInv'
  OBVIOUS
<1> USE DEF vars, instVars, chanVars, edmaVars, srgVars, portVars
<1>1. Available' = Available
  BY DEF Available
<1>2. TypeOK'
  BY <1>1 DEF IInv, TypeOK
<1>3. Instance'
  BY DEF IInv, Instance
<1>4. ASSUME NEW c \in Dir PROVE ChanInv(c)'
  BY DEF IInv, ChanInv, Created, Closed, Asleep, Empty
<1> QED BY <1>2, <1>3, <1>4 DEF IInv

\* IInv is inductive.
THEOREM Inductive == Spec => []IInv
<1>1. IInv /\ [Next]_vars => IInv'
  BY CreateInv, ControlInv, DeleteInv, InstanceInv, StutterInv DEF Next
<1> QED BY InitInv, <1>1, PTL DEF Spec
-----------------------------------------------------------------------------
(***************************************************************************)
(* The properties.                                                         *)
(***************************************************************************)

\* The variables keep their types, and the EDMA driver is never asked for more
\* sets than it has.
THEOREM TypeCorrect == Spec => []TypeOK
<1>1. IInv => TypeOK
  BY DEF IInv
<1> QED BY <1>1, Inductive, PTL

\* A free instance owes the EDMA driver nothing.
THEOREM AlwaysReleased == Spec => []ReleasedAtUnbind
<1>1. IInv => ReleasedAtUnbind
  <2>1. ASSUME IInv, ~inUse
        PROVE  \A d \in Dir : links[d] = 0 /\ lost[d] = 0
    BY <2>1 DEF IInv, TypeOK, Instance, ChanInv, Closed, Empty
  <2>2. ASSUME IInv, ~inUse PROVE Available = LinkSets
    BY <2>1, <2>2, LinkSetsAssumption DEF Available, Dir
  <2> QED BY <2>2 DEF ReleasedAtUnbind
<1> QED BY <1>1, Inductive, PTL

\* What a failed creation or deletion kept is never forgotten: a channel that can be
\* created again holds nothing of the EDMA driver and no call on it sleeps.
THEOREM NothingForgotten == Spec => []ClosedHoldsNothing
<1>1. IInv => ClosedHoldsNothing
  BY DEF IInv, ChanInv, Closed, Empty, ClosedHoldsNothing
<1> QED BY <1>1, Inductive, PTL

\* No section and no generator of an unbound instance is on, and no creation or rate
\* change that slept while it was unbound can turn one on.
THEOREM AlwaysSilent == Spec => []SilentWhenUnbound
<1>1. IInv => SilentWhenUnbound
  <2>1. ASSUME IInv, ~bound, NEW d \in Dir PROVE pc[d] = "idle"
    BY <2>1 DEF IInv, Instance, ChanInv, Closed
  <2> QED BY <2>1 DEF IInv, Instance, SilentWhenUnbound
<1> QED BY <1>1, Inductive, PTL
=============================================================================
