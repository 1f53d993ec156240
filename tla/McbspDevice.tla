---------------------------- MODULE McbspDevice ----------------------------
(***************************************************************************)
(* One instance of the McBSP driver and its two channels: binding,         *)
(* creation, deletion and unbinding, what each takes from the EDMA driver, *)
(* the shared sample-rate generator, and the enable bits of the two port   *)
(* sections.                                                               *)
(*                                                                         *)
(* The driver's critical section over an instance is empty on this chip    *)
(* and its bit-clock delay is Task_sleep: another task runs at each delay, *)
(* so CreateChan and the change of the sample rate take several steps.     *)
(*                                                                         *)
(* Left to McbspChannel: the buffers of an opened channel.  Left out: the  *)
(* frame-sync generator, what the clock registers hold, and LOOPBACK.      *)
(***************************************************************************)
EXTENDS Integers

CONSTANTS
    LinkSets,  \* the link PaRAM sets the EDMA driver has to give
    Faults,    \* which steps may fail
    Commands   \* the control commands the tasks use

ASSUME LinkSetsAssumption == LinkSets \in Nat
ASSUME FaultsAssumption ==
    Faults \subseteq {"bind", "config", "rate", "transfer", "address",
                      "setup", "disable", "free"}
ASSUME CommandsAssumption ==
    Commands \subseteq {"CHAN_RESET", "DEVICE_RESET", "STOP", "START", "SRGR_START",
                        "SRGR_STOP", "CONFIG_SRGR", "SET_CLKMODE", "SAMPLE_RATE_CHANGE"}

MAXLINKCNT == 2
Dir == {"INPUT", "OUTPUT"}

VARIABLES
    inUse,      \* the instance is taken
    bound,      \* mcbspBindDev returned a handle for it
    known,      \* the channels whose devHandle and edmaHandle are set
    chanState,  \* of each channel: DELETED, CLOSED or OPENED
    mode,       \* chanHandle->mode of each channel
    pc,         \* where a call on the channel sleeps
    owner,      \* the channels whose creator was given a handle
    need,       \* rxSrgEnable and txSrgEnable
    xfer,       \* the channels whose EDMA transfer channel is allocated
    links,      \* the link sets each channel holds
    lost,       \* the link sets taken for it that pramTbl no longer names
    srgOn,      \* the sample-rate generator runs (GRST)
    srgEnabled, srgConfigured,  \* what the driver notes about it
    ports,      \* the sections enabled in SPCR (RRST, XRST)
    stopSm      \* stopSmFsRcv and stopSmFsXmt

instVars == <<inUse, bound, known>>
chanVars == <<chanState, mode, owner, need>>
edmaVars == <<xfer, links, lost>>
srgVars  == <<srgOn, srgEnabled, srgConfigured>>
portVars == <<ports, stopSm>>
vars == <<instVars, chanVars, pc, edmaVars, srgVars, portVars>>

\* The sets the EDMA driver can still give.
Available ==
    LinkSets - (links["INPUT"] + lost["INPUT"]) - (links["OUTPUT"] + lost["OUTPUT"])

\* Every "if INPUT ... else ..." of the driver: another mode is OUTPUT.
Section(m) == IF m = "INPUT" THEN "INPUT" ELSE "OUTPUT"

Init ==
    /\ inUse = FALSE /\ bound = FALSE /\ known = {}
    /\ chanState = [d \in Dir |-> "DELETED"]
    /\ mode = [d \in Dir |-> "NONE"]
    /\ pc = [d \in Dir |-> "idle"]
    /\ owner = {} /\ need = {}
    /\ xfer = {} /\ links = [d \in Dir |-> 0] /\ lost = [d \in Dir |-> 0]
    /\ srgOn = FALSE /\ srgEnabled = FALSE /\ srgConfigured = FALSE
    /\ ports = {} /\ stopSm = {}
-----------------------------------------------------------------------------
(***************************************************************************)
(* The instance.                                                           *)
(***************************************************************************)
BindDev ==
    /\ ~inUse
    /\ inUse' = TRUE /\ bound' = TRUE
    /\ chanState' = [d \in Dir |-> "CLOSED"]
    /\ mode' = [d \in Dir |-> d]
    /\ srgOn' = FALSE
    /\ ports' = {} /\ stopSm' = Dir
    /\ UNCHANGED <<known, pc, owner, need, edmaVars, srgEnabled, srgConfigured>>

\* The parameters are looked at after the instance is taken.
BindRefused ==
    /\ "bind" \in Faults
    /\ ~inUse
    /\ inUse' = TRUE
    /\ UNCHANGED <<bound, known, chanVars, pc, edmaVars, srgVars, portVars>>

UnBind ==
    /\ bound
    /\ inUse' = FALSE /\ bound' = FALSE /\ known' = {}
    /\ chanState' = [d \in Dir |-> "DELETED"]
    /\ mode' = [d \in Dir |-> "NONE"]
    /\ need' = {} /\ srgOn' = FALSE /\ srgEnabled' = FALSE /\ srgConfigured' = FALSE
    /\ ports' = {} /\ stopSm' = {}
    /\ UNCHANGED <<pc, owner, edmaVars>>

\* Mutant: only the receiver's channel is looked at.
UnBindDev_OneChannel == UnBind /\ chanState["INPUT"] = "CLOSED"

\* Refused unless both channels are closed; clears the whole instance.
UnBindDev == UnBind /\ \A d \in Dir : chanState[d] = "CLOSED"
-----------------------------------------------------------------------------
(***************************************************************************)
(* CreateChan.                                                             *)
(***************************************************************************)

\* How Mcbsp_localSetupEdmaDuringOpen can end: nothing is held (a set that
\* cannot be had gives back the others); a set is lost whose address cannot be
\* had; the sets cannot be written and everything is kept; all is well.
SetupEdma ==
    {r \in {"none", "lost", "kept", "ready"} :
        \/ r = "none"  /\ ("transfer" \in Faults \/ Available < MAXLINKCNT)
        \/ r = "lost"  /\ "address" \in Faults /\ Available > 0
        \/ r = "kept"  /\ "setup" \in Faults /\ Available >= MAXLINKCNT
        \/ r = "ready" /\ Available >= MAXLINKCNT}

\* Mutant: the loop over the link sets runs once too often.
LinksFor_OneMore(r) == IF r \in {"kept", "ready"} THEN MAXLINKCNT + 1 ELSE 0

LinksFor(r) == IF r \in {"kept", "ready"} THEN MAXLINKCNT ELSE 0

\* The end of CreateChan, from the EDMA on, with mode m and the sections in p
\* enabled.  A failure is recorded in the mode: the channel stays opened.
Open(d, m, p) ==
    \E r \in SetupEdma :
        /\ xfer' = IF r \in {"kept", "ready"} THEN xfer \union {d} ELSE xfer
        /\ links' = [links EXCEPT ![d] = LinksFor(r)]
        /\ lost' = [lost EXCEPT ![d] = IF r = "lost" THEN 1 ELSE 0]
        /\ mode' = [mode EXCEPT ![d] = IF r = "ready" THEN m ELSE "CLOSED"]
        /\ ports' = IF r = "ready" THEN p \union {Section(m)} ELSE p
        /\ stopSm' = IF r = "ready" THEN stopSm \ {Section(m)} ELSE stopSm
        /\ owner' = IF r = "ready" THEN owner \union {d} ELSE owner
        /\ pc' = [pc EXCEPT ![d] = "idle"]

\* The transmitter is enabled for two bit clocks, to clear its sync error.
Sync(d, m, at) ==
    /\ mode' = [mode EXCEPT ![d] = m]
    /\ ports' = ports \union {"OUTPUT"}
    /\ pc' = [pc EXCEPT ![d] = at]
    /\ UNCHANGED <<owner, edmaVars, stopSm>>

Takes(d) ==
    /\ bound
    /\ chanState[d] = "CLOSED"
    /\ chanState' = [chanState EXCEPT ![d] = "OPENED"]
    /\ known' = known \union {d}
    /\ UNCHANGED <<inUse, bound>>

\* A channel that needs the generator turns it on, having programmed it if
\* the other one has not, and waits.
CreateClocked(d) ==
    /\ Takes(d)
    /\ need' = need \union {d}
    /\ mode' = [mode EXCEPT ![d] = d]
    /\ srgOn' = TRUE /\ srgEnabled' = TRUE /\ srgConfigured' = TRUE
    /\ pc' = [pc EXCEPT ![d] = "clock"]
    /\ UNCHANGED <<owner, edmaVars, portVars>>

\* One that does not goes on at once: only OUTPUT waits.
CreateUnclocked(d) ==
    /\ Takes(d)
    /\ need' = need \ {d}
    /\ IF d = "OUTPUT" THEN Sync(d, d, "sync") ELSE Open(d, d, ports)
    /\ UNCHANGED srgVars

CreateAfterClock(d) ==
    /\ pc[d] = "clock"
    /\ IF mode[d] = "OUTPUT" THEN Sync(d, mode[d], "sync") ELSE Open(d, mode[d], ports)
    /\ UNCHANGED <<instVars, chanState, need, srgVars>>

CreateAfterSync(d) ==
    /\ pc[d] = "sync"
    /\ Open(d, mode[d], ports \ {"OUTPUT"})
    /\ UNCHANGED <<instVars, chanState, need, srgVars>>

\* The loop job buffer or the channel configuration is refused, the latter
\* after the need for the generator has been noted.
CreateRefused(d) ==
    /\ "config" \in Faults
    /\ Takes(d)
    /\ need' \in {need, need \union {d}, need \ {d}}
    /\ mode' = [mode EXCEPT ![d] = "CLOSED"]
    /\ UNCHANGED <<pc, owner, edmaVars, srgVars, portVars>>

\* The divider cannot make the rate: the generator counts as configured.
CreateRateRefused(d) ==
    /\ "rate" \in Faults
    /\ ~srgConfigured
    /\ Takes(d)
    /\ need' = need \union {d}
    /\ mode' = [mode EXCEPT ![d] = "CLOSED"]
    /\ srgConfigured' = TRUE
    /\ UNCHANGED <<pc, owner, edmaVars, srgOn, srgEnabled, portVars>>

\* A channel that is already taken: the request is refused, and the mode of
\* the channel is written all the same.
CreateTaken(d) ==
    /\ bound
    /\ chanState[d] # "CLOSED"
    /\ mode' = [mode EXCEPT ![d] = "CLOSED"]
    /\ UNCHANGED <<instVars, chanState, owner, need, pc, edmaVars, srgVars, portVars>>
-----------------------------------------------------------------------------
(***************************************************************************)
(* Calls on a created channel, by the task that holds its handle.          *)
(***************************************************************************)
Called(d) == d \in owner /\ pc[d] = "idle"
Commanded(d, cmd) == Called(d) /\ cmd \in Commands

\* AbortReset enables the section; without the EDMA disabled it stays so.
DeleteNotDisabled(d) ==
    /\ "disable" \in Faults
    /\ Called(d)
    /\ ports' = ports \union {Section(mode[d])}
    /\ UNCHANGED <<instVars, chanVars, pc, edmaVars, srgVars, stopSm>>

DeleteChanUpTo(d) ==
    /\ Called(d)
    /\ ports' = ports \ {Section(mode[d])}
    /\ UNCHANGED <<instVars, mode, need, pc, lost, srgVars, stopSm>>

\* Mutant: the channel is closed however far the freeing came.
DeleteNotFreed_Closed(d) ==
    /\ "free" \in Faults
    /\ DeleteChanUpTo(d)
    /\ d \in xfer
    /\ \E k \in 1 .. MAXLINKCNT :
         xfer' = xfer \ {d} /\ links' = [links EXCEPT ![d] = k]
    /\ chanState' = [chanState EXCEPT ![d] = "CLOSED"]
    /\ owner' = owner \ {d}

\* Freeing stops at the first of the transfer channel and the sets the EDMA
\* driver refuses.  Once the transfer channel is freed every further deletion
\* stops at it.  The client keeps its handle.
DeleteNotFreed(d) ==
    /\ DeleteChanUpTo(d)
    /\ \/ d \notin xfer /\ UNCHANGED <<xfer, links>>
       \/ "free" \in Faults /\ UNCHANGED <<xfer, links>>
       \/ /\ "free" \in Faults /\ d \in xfer
          /\ \E k \in 1 .. MAXLINKCNT :
               xfer' = xfer \ {d} /\ links' = [links EXCEPT ![d] = k]
    /\ UNCHANGED <<chanState, owner>>

\* Mutant: the loop over the link sets stops one short.
DeleteChan_OneSet(d) ==
    /\ DeleteChanUpTo(d)
    /\ d \in xfer
    /\ xfer' = xfer \ {d} /\ links' = [links EXCEPT ![d] = 1]
    /\ chanState' = [chanState EXCEPT ![d] = "CLOSED"]
    /\ owner' = owner \ {d}

DeleteChan(d) ==
    /\ DeleteChanUpTo(d)
    /\ d \in xfer
    /\ xfer' = xfer \ {d} /\ links' = [links EXCEPT ![d] = 0]
    /\ chanState' = [chanState EXCEPT ![d] = "CLOSED"]
    /\ owner' = owner \ {d}

\* CHAN_RESET: what AbortReset does to the section.
ChanReset(d) ==
    /\ Commanded(d, "CHAN_RESET")
    /\ ports' = ports \union {Section(mode[d])}
    /\ UNCHANGED <<instVars, chanVars, pc, edmaVars, srgVars, stopSm>>

\* DEVICE_RESET, by the holder of one handle, resets both channels, whatever has
\* become of the other: deleted, failed or half made, its handles are still set.
\* One that was never asked for has none (AbortReset goes through NULL) and is
\* taken to stay as it is.
DeviceReset(d) ==
    /\ Commanded(d, "DEVICE_RESET")
    /\ ports' = ports \union {Section(mode[c]) : c \in known}
    /\ UNCHANGED <<instVars, chanVars, pc, edmaVars, srgVars, stopSm>>

StopChan(d) ==
    /\ Commanded(d, "STOP")
    /\ ports' = ports \ {Section(mode[d])}
    /\ stopSm' = stopSm \union {Section(mode[d])}
    /\ UNCHANGED <<instVars, chanVars, pc, edmaVars, srgVars>>

StartChan(d) ==
    /\ Commanded(d, "START")
    /\ Section(mode[d]) \in stopSm
    /\ ports' = ports \union {Section(mode[d])}
    /\ stopSm' = stopSm \ {Section(mode[d])}
    /\ UNCHANGED <<instVars, chanVars, pc, edmaVars, srgVars>>

\* SRGR_START and SRGR_STOP set the generator's enable bit and nothing else.
SrgrControl(d) ==
    /\ \/ Commanded(d, "SRGR_START") /\ srgOn' = TRUE
       \/ Commanded(d, "SRGR_STOP") /\ srgOn' = FALSE
    /\ UNCHANGED <<instVars, chanVars, pc, edmaVars, srgEnabled, srgConfigured, portVars>>

\* CONFIG_SRGR programs it, if that has not been done, for a channel that needs it.
ConfigSrgr(d) ==
    /\ Commanded(d, "CONFIG_SRGR")
    /\ srgConfigured' = (srgConfigured \/ Section(mode[d]) \in need)
    /\ UNCHANGED <<instVars, chanVars, pc, edmaVars, srgOn, srgEnabled, portVars>>

\* SET_CLKMODE: whether the section needs the generator from now on.
SetClkMode(d) ==
    /\ Commanded(d, "SET_CLKMODE")
    /\ need' \in {need \union {Section(mode[d])}, need \ {Section(mode[d])}}
    /\ UNCHANGED <<instVars, chanState, mode, owner, pc, edmaVars, srgVars, portVars>>

\* SAMPLE_RATE_CHANGE to a rate the divider can make.  The generator is
\* programmed only for a channel that needs it, and restarted for any.
ModifySampleRate(d) ==
    /\ Commanded(d, "SAMPLE_RATE_CHANGE")
    /\ srgConfigured
    /\ IF srgEnabled
       THEN /\ srgOn' = TRUE /\ srgConfigured' = (Section(mode[d]) \in need)
            /\ pc' = [pc EXCEPT ![d] = "rate"]
       ELSE srgConfigured' = FALSE /\ UNCHANGED <<srgOn, pc>>
    /\ UNCHANGED <<instVars, chanVars, edmaVars, srgEnabled, portVars>>

\* To one it cannot make: the generator stays off, for both channels, and counts
\* as configured; the transmitter goes through its two bit clocks all the same.
ModifyRateRefused(d) ==
    /\ "rate" \in Faults
    /\ Commanded(d, "SAMPLE_RATE_CHANGE")
    /\ srgConfigured /\ srgEnabled /\ Section(mode[d]) \in need
    /\ srgOn' = FALSE
    /\ IF mode[d] = "OUTPUT"
       THEN Sync(d, mode[d], "resync")
       ELSE UNCHANGED <<mode, pc, owner, edmaVars, portVars>>
    /\ UNCHANGED <<instVars, chanState, need, srgEnabled, srgConfigured>>

RateAfterClock(d) ==
    /\ pc[d] = "rate"
    /\ IF mode[d] = "OUTPUT"
       THEN Sync(d, mode[d], "resync")
       ELSE pc' = [pc EXCEPT ![d] = "idle"] /\ UNCHANGED <<mode, owner, edmaVars, portVars>>
    /\ UNCHANGED <<instVars, chanState, need, srgVars>>

\* The transmitter is left disabled, and not marked as stopped.
RateAfterSync(d) ==
    /\ pc[d] = "resync"
    /\ ports' = ports \ {"OUTPUT"}
    /\ pc' = [pc EXCEPT ![d] = "idle"]
    /\ UNCHANGED <<instVars, chanVars, edmaVars, srgVars, stopSm>>
-----------------------------------------------------------------------------
Create(d) ==
    \/ CreateClocked(d) \/ CreateUnclocked(d)
    \/ CreateAfterClock(d) \/ CreateAfterSync(d)
    \/ CreateRefused(d) \/ CreateRateRefused(d)

Control(d) ==
    \/ ChanReset(d) \/ DeviceReset(d) \/ StopChan(d) \/ StartChan(d)
    \/ SrgrControl(d) \/ ConfigSrgr(d) \/ SetClkMode(d)
    \/ ModifySampleRate(d) \/ ModifyRateRefused(d) \/ RateAfterClock(d) \/ RateAfterSync(d)

Delete(d) == DeleteChan(d) \/ DeleteNotDisabled(d) \/ DeleteNotFreed(d)

Next ==
    \/ BindDev \/ BindRefused \/ UnBindDev
    \/ \E d \in Dir : Create(d) \/ Control(d) \/ Delete(d)

Spec == Init /\ [][Next]_vars

\* Tasks also ask for a channel that is already taken.
CompetingNext == Next \/ \E d \in Dir : CreateTaken(d)
CompetingSpec == Init /\ [][CompetingNext]_vars
-----------------------------------------------------------------------------
(***************************************************************************)
(* Properties.                                                             *)
(***************************************************************************)

\* The variables keep the types the code gives them (mcbsp_types.h), and the
\* EDMA driver never gives more sets than it has.
TypeOK ==
    /\ inUse \in BOOLEAN /\ bound \in BOOLEAN /\ known \subseteq Dir
    /\ chanState \in [Dir -> {"DELETED", "CLOSED", "OPENED"}]
    /\ mode \in [Dir -> Dir \union {"NONE", "CLOSED"}]
    /\ pc \in [Dir -> {"idle", "clock", "sync", "rate", "resync"}]
    /\ owner \subseteq Dir /\ need \subseteq Dir
    /\ xfer \subseteq Dir
    /\ links \in [Dir -> 0 .. MAXLINKCNT] /\ lost \in [Dir -> 0 .. 1]
    /\ Available \in Nat
    /\ srgOn \in BOOLEAN /\ srgEnabled \in BOOLEAN /\ srgConfigured \in BOOLEAN
    /\ ports \subseteq Dir /\ stopSm \subseteq Dir

Complete(d) == d \in xfer /\ links[d] = MAXLINKCNT

\* A section of the port is enabled only with a channel behind it: created,
\* its handle given out, and its EDMA channel complete; but for the two bit
\* clocks that clear the transmitter's sync error.
PortServed ==
    \A d \in ports :
        \/ pc[d] = "sync"
        \/ chanState[d] = "OPENED" /\ d \in owner /\ Complete(d)

\* An instance that is free owes the EDMA driver nothing, even after failed
\* creations and deletions: what they kept, or lost, keeps the instance taken.
ReleasedAtUnbind == ~inUse => Available = LinkSets

\* A channel that can be created holds neither a transfer channel nor a set that
\* the creation would forget (mcbsp_edma.c:146 writes xferChan and pramTbl anew),
\* whatever failed before, and no call on it is half done.
ClosedHoldsNothing ==
    \A d \in Dir : chanState[d] = "CLOSED" =>
        d \notin xfer /\ links[d] = 0 /\ lost[d] = 0 /\ pc[d] = "idle"

\* Once an instance is unbound nothing of it runs: no section, no generator, and
\* no creation or rate change that slept meanwhile is left to turn one on.
SilentWhenUnbound ==
    ~bound => ports = {} /\ ~srgOn /\ \A d \in Dir : pc[d] = "idle"
=============================================================================
