----------------------------- MODULE PressLatch -----------------------------
(***************************************************************************)
(* The press latch of EmulatorHost: three atomic masks that bridge threads *)
(* update in pressButton and the emulation thread updates in sampleButton. *)
(* Each load, fetch_or, fetch_and or store is one step, in program order   *)
(* (the atomics are relaxed, so a build may show more orders than these).  *)
(*                                                                         *)
(* On iOS a press or release and a frame hold emuLock (Locked); on Android *)
(* the JNI calls straight into the host from the thread that was touched.  *)
(* Buttons are the bits of one port, each driven by one caller at a time.  *)
(* The names are this module's own, for modules that extend this one and   *)
(* IosRenderers.                                                           *)
(***************************************************************************)
CONSTANTS
  Buttons,   \* bits of one port's mask
  Handles,   \* button handles the running engine samples
  Bit,       \* the bit each handle reads, remap applied
  Unloads,   \* games are unloaded while the callers live
  Locked     \* callers and the emulation thread exclude each other

ASSUME LatchAssumption ==
  /\ Bit \in [Handles -> Buttons]
  /\ Unloads \in BOOLEAN /\ Locked \in BOOLEAN

VARIABLES
  hwMask, swMask, unsampledPress, deferredRelease,
  calls,   \* where each button's caller stands in pressButton
  poll,    \* where the emulation thread stands, and in which bit
  shown,   \* history: the last sample
  unseen   \* history: buttons pressed and not shown by a sample since

masks     == <<swMask, unsampledPress, deferredRelease>>
latchVars == <<hwMask, masks, calls, poll, shown, unseen>>

CallSteps == {"idle", "latchPress", "cancelRelease", "defer", "release"}
PollSteps == {"latch", "consume", "drop", "clear"}
Resting   == <<"idle">>
Drops     == {<<"dropLatch">>, <<"dropDeferred">>}

LatchTypeOK ==
  /\ hwMask \subseteq Buttons /\ swMask \subseteq Buttons
  /\ unsampledPress \subseteq Buttons /\ deferredRelease \subseteq Buttons
  /\ calls \in [Buttons -> CallSteps]
  /\ poll \in {Resting} \cup Drops \cup (PollSteps \X Buttons)
  /\ shown \in {<<>>} \cup (Buttons \X BOOLEAN)
  /\ unseen \subseteq Buttons

LatchInit ==
  /\ hwMask = {} /\ swMask = {} /\ unsampledPress = {} /\ deferredRelease = {}
  /\ calls = [b \in Buttons |-> "idle"]
  /\ poll = Resting
  /\ shown = <<>>
  /\ unseen = {}

Quiet == poll = Resting /\ \A b \in Buttons : calls[b] = "idle"

\* A press, a release or a sample starts when its thread is free and the lock,
\* if any, is.
MayStart == Locked => Quiet

Goto(b, step) == calls' = [calls EXCEPT ![b] = step]

----------------------------------------------------------------------------
(* The callers *)

\* Hardware pads report from the system's own callback, under no lock.
SetInput(mask) ==
  /\ hwMask' = mask
  /\ UNCHANGED <<masks, calls, poll, shown, unseen>>

Press(b) ==
  /\ MayStart /\ calls[b] = "idle"
  /\ swMask' = swMask \cup {b}
  /\ unseen' = unseen \cup {b}
  /\ Goto(b, "latchPress")
  /\ UNCHANGED <<hwMask, unsampledPress, deferredRelease, poll, shown>>

LatchPress(b) ==
  /\ calls[b] = "latchPress"
  /\ unsampledPress' = unsampledPress \cup {b}
  /\ Goto(b, "cancelRelease")
  /\ UNCHANGED <<hwMask, swMask, deferredRelease, poll, shown, unseen>>

\* A re-press cancels any release still queued from the previous tap.
CancelRelease(b) ==
  /\ calls[b] = "cancelRelease"
  /\ deferredRelease' = deferredRelease \ {b}
  /\ Goto(b, "idle")
  /\ UNCHANGED <<hwMask, swMask, unsampledPress, poll, shown, unseen>>

\* Bug: a release never waits for the first sample.
ReleaseDirect(b) ==
  /\ MayStart /\ calls[b] = "idle"
  /\ Goto(b, "release")
  /\ UNCHANGED <<hwMask, masks, poll, shown, unseen>>

Release(b) ==
  /\ MayStart /\ calls[b] = "idle"
  /\ Goto(b, IF b \in unsampledPress THEN "defer" ELSE "release")
  /\ UNCHANGED <<hwMask, masks, poll, shown, unseen>>

DeferRelease(b) ==
  /\ calls[b] = "defer"
  /\ deferredRelease' = deferredRelease \cup {b}
  /\ Goto(b, "idle")
  /\ UNCHANGED <<hwMask, swMask, unsampledPress, poll, shown, unseen>>

ReleaseNow(b) ==
  /\ calls[b] = "release"
  /\ swMask' = swMask \ {b}
  /\ Goto(b, "idle")
  /\ UNCHANGED <<hwMask, unsampledPress, deferredRelease, poll, shown, unseen>>

----------------------------------------------------------------------------
(* The emulation thread *)

\* Bug: only the hardware mask is read.
SampleHardware(h) ==
  LET b == Bit[h] IN
  /\ MayStart /\ poll = Resting
  /\ shown' = <<b, b \in hwMask>>
  /\ unseen' = IF b \in swMask THEN unseen \ {b} ELSE unseen
  /\ poll' = <<"latch", b>>
  /\ UNCHANGED <<hwMask, masks, calls>>

\* sampleButton reads the masks; the latch is looked at after that.
Sample(h) ==
  LET b == Bit[h] IN
  /\ MayStart /\ poll = Resting
  /\ shown' = <<b, b \in hwMask \cup swMask>>
  /\ unseen' = IF b \in swMask THEN unseen \ {b} ELSE unseen
  /\ poll' = <<"latch", b>>
  /\ UNCHANGED <<hwMask, masks, calls>>

LoadLatch(b) ==
  /\ poll = <<"latch", b>>
  /\ poll' = IF b \in unsampledPress THEN <<"consume", b>> ELSE Resting
  /\ UNCHANGED <<hwMask, masks, calls, shown, unseen>>

\* Bug: the queued release is not looked for.
ConsumeOnly(b) ==
  /\ poll = <<"consume", b>>
  /\ unsampledPress' = unsampledPress \ {b}
  /\ poll' = Resting
  /\ UNCHANGED <<hwMask, swMask, deferredRelease, calls, shown, unseen>>

ConsumeLatch(b) ==
  /\ poll = <<"consume", b>>
  /\ unsampledPress' = unsampledPress \ {b}
  /\ poll' = <<"drop", b>>
  /\ UNCHANGED <<hwMask, swMask, deferredRelease, calls, shown, unseen>>

TakeDeferred(b) ==
  /\ poll = <<"drop", b>>
  /\ deferredRelease' = deferredRelease \ {b}
  /\ poll' = IF b \in deferredRelease THEN <<"clear", b>> ELSE Resting
  /\ UNCHANGED <<hwMask, swMask, unsampledPress, calls, shown, unseen>>

ClearPress(b) ==
  /\ poll = <<"clear", b>>
  /\ swMask' = swMask \ {b}
  /\ poll' = Resting
  /\ UNCHANGED <<hwMask, unsampledPress, deferredRelease, calls, shown, unseen>>

\* unloadGame stores zero in the three masks, one after the other.
DropMask ==
  /\ Unloads
  /\ MayStart /\ poll = Resting
  /\ swMask' = {}
  /\ poll' = <<"dropLatch">>
  /\ UNCHANGED <<hwMask, unsampledPress, deferredRelease, calls, shown, unseen>>

DropLatch ==
  /\ poll = <<"dropLatch">>
  /\ unsampledPress' = {}
  /\ poll' = <<"dropDeferred">>
  /\ UNCHANGED <<hwMask, swMask, deferredRelease, calls, shown, unseen>>

DropDeferred ==
  /\ poll = <<"dropDeferred">>
  /\ deferredRelease' = {}
  /\ unseen' = {}
  /\ poll' = Resting
  /\ UNCHANGED <<hwMask, swMask, unsampledPress, calls, shown>>

----------------------------------------------------------------------------

Caller(b) ==
  \/ LatchPress(b)
  \/ CancelRelease(b)
  \/ DeferRelease(b)
  \/ ReleaseNow(b)

Poller(b) ==
  \/ LoadLatch(b)
  \/ ConsumeLatch(b)
  \/ TakeDeferred(b)
  \/ ClearPress(b)

Dropper == DropLatch \/ DropDeferred

LatchNext ==
  \/ \E mask \in SUBSET Buttons : SetInput(mask)
  \/ \E b \in Buttons : Press(b) \/ Release(b)
  \/ \E b \in Buttons : Caller(b)
  \/ \E h \in Handles : Sample(h)
  \/ \E b \in Buttons : Poller(b)
  \/ DropMask
  \/ Dropper

LatchSpec == LatchInit /\ [][LatchNext]_latchVars

----------------------------------------------------------------------------
(* Properties *)

\* "Its release lands right after that first sample": between operations, a
\* button is not held down by a release nobody will apply any more.
NoStuckButton == Quiet => swMask \cap deferredRelease \subseteq unsampledPress

\* "Every tap is visible for one poll": a button that is up, and was not
\* dropped by a teardown, has been shown by a sample since it was last pressed.
TapsAreShown == poll \notin Drops => unseen \subseteq swMask

\* What a caller's and the emulation thread's unfinished operations amount to.
Pressing  == {b \in Buttons : calls[b] \in {"latchPress", "cancelRelease"}}
Showing   == {b \in Buttons : poll \in {"latch", "consume"} \X {b}}
Releasing == {b \in Buttons : poll = <<"clear", b>>}
Held      == ((swMask \ deferredRelease) \ Releasing) \cup Pressing
Unshown   == (unsampledPress \ Showing) \cup Pressing

Taps == INSTANCE TapContract WITH
  hw   <- hwMask,
  down <- IF poll \in Drops THEN {} ELSE Held,
  owed <- IF poll \in Drops THEN {} ELSE Unshown

\* The latch keeps HostPort's promise.
KeepsTaps == Taps!Contract
============================================================================
