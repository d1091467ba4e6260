----------------------------- MODULE StateSlots -----------------------------
(***************************************************************************)
(* Save-state slots and their undo files on Android: StateSave, StateLoad, *)
(* UndoStateSave, UndoStateLoad and LoadRom of the bridge                  *)
(* (resources/android/src/EmulatorFunctions.kt), the one request slot      *)
(* through which they reach the render thread (EmulatorSession.kt,         *)
(* pendingStateOp), and the host's state files (emulator_host.cpp).        *)
(*                                                                         *)
(* The bridge makes one call at a time and waits for the render thread,    *)
(* but not for ever: a request that timed out stays in the slot and is     *)
(* served later, unless the next request overwrites it.  A state is        *)
(* identified by the boot it was taken in and the request that wrote it.   *)
(* The names are this module's own, for modules that extend this one and   *)
(* AndroidSession.                                                         *)
(***************************************************************************)
EXTENDS Naturals

CONSTANTS
  Slots,     \* slot numbers of one surface
  Null,      \* a null reference
  NoFile,    \* the file does not exist
  Torn,      \* the content of a file whose write was cut short
  Fails,     \* what may fail, see SlotsAssumption
  MaxOps,    \* bound on state requests
  MaxBoots   \* bound on ROM loads

ASSUME SlotsAssumption ==
  /\ Null \notin Slots
  /\ {"undo_save", "undo_load"} \cap Slots = {}
  /\ Fails \subseteq {"rename", "serialize", "write", "close", "unserialize", "boot"}
  /\ MaxOps \in Nat /\ MaxBoots \in Nat
  /\ NoFile # Torn
  /\ {NoFile, Torn} \cap [boot: Nat, op: Nat] = {}

VARIABLES
  files,          \* the state directory
  undoSaveSlot,
  pendingStateOp,
  call,           \* the bridge's call in progress
  answer,         \* what its latest request came to
  reply,          \* what the last call that succeeded answered
  running,        \* the boot of the running game, 0 if none
  pendingRom,     \* the boot a queued ROM will be, 0 if none is queued
  frameAt,        \* where the render thread stands in doFrame
  drawing,        \* there is a surface and the app is in front
  posted, boots,  \* requests and ROMs so far
  moved,          \* history: what was last moved to the undo file, and when
  restored,       \* history: the state last applied to a machine
  cut             \* history: the request whose final flush failed unnoticed

bridgeVars  == <<undoSaveSlot, call, reply>>
machineVars == <<running, pendingRom, frameAt, drawing, boots>>
ghostVars   == <<moved, restored, cut>>
slotsVars == <<files, bridgeVars, pendingStateOp, answer, machineVars, posted,
               ghostVars>>

Files    == Slots \cup {"undo_save", "undo_load"}
States   == [boot: 1 .. MaxBoots, op: 1 .. MaxOps]
Contents == States \cup {NoFile, Torn}
Requests == [save: BOOLEAN, file: Files, id: 1 .. MaxOps]
Idle     == [of |-> "none", slot |-> Null, id |-> 0, since |-> 0]

\* "snapshot" is the first of the two requests of a load.
CallKinds == {"none", "save", "snapshot", "load", "undoLoad"}

\* A call knows its latest request and the game that ran when it made it.
CallsInProgress ==
  [of: CallKinds, slot: Slots \cup {Null}, id: 0 .. MaxOps, since: 0 .. MaxBoots]

SlotsTypeOK ==
  /\ files \in [Files -> Contents]
  /\ undoSaveSlot \in Slots \cup {Null}
  /\ pendingStateOp \in Requests \cup {Null}
  /\ call \in CallsInProgress /\ reply \in CallsInProgress
  /\ answer \in {"none", "ok", "failed"}
  /\ running \in 0 .. MaxBoots /\ pendingRom \in 0 .. MaxBoots
  /\ boots \in 0 .. MaxBoots /\ posted \in 0 .. MaxOps
  /\ frameAt \in {"top", "late"} /\ drawing \in BOOLEAN
  /\ moved \in [slot: Slots \cup {Null}, state: Contents, boots: 0 .. MaxBoots]
  /\ restored \in States \cup {Null}
  /\ cut \in 0 .. MaxOps

SlotsInit ==
  /\ files = [f \in Files |-> NoFile]
  /\ undoSaveSlot = Null /\ pendingStateOp = Null
  /\ call = Idle /\ answer = "none" /\ reply = Idle
  /\ running = 0 /\ pendingRom = 0 /\ frameAt = "top" /\ drawing = FALSE
  /\ posted = 0 /\ boots = 0
  /\ moved = [slot |-> Null, state |-> NoFile, boots |-> 0]
  /\ restored = Null /\ cut = 0

Works(op) == IF op \in Fails THEN BOOLEAN ELSE {TRUE}

----------------------------------------------------------------------------
(* The bridge *)

\* syncStateSave and syncStateLoad: a request of the call, over whatever
\* request is still there.
Request(save, file, of, slot) ==
  /\ posted < MaxOps
  /\ posted' = posted + 1
  /\ pendingStateOp' = [save |-> save, file |-> file, id |-> posted + 1]
  /\ call' = [of |-> of, slot |-> slot, id |-> posted + 1, since |-> running]
  /\ answer' = "none"
  /\ reply' = Idle

\* A slot's file becomes the undo file.
MoveAway(s) ==
  /\ files' = [files EXCEPT !["undo_save"] = files[s], ![s] = NoFile]
  /\ moved' = [slot |-> s, state |-> files[s], boots |-> boots]

\* Bug: the slot is noted although there was nothing to move.
StateSaveNotes(s) ==
  /\ call = Idle
  /\ \/ files[s] # NoFile /\ MoveAway(s)
     \/ files[s] = NoFile /\ UNCHANGED <<files, moved>>
  /\ undoSaveSlot' = s
  /\ Request(TRUE, s, "save", s)
  /\ UNCHANGED <<machineVars, restored, cut>>

\* A save over a state moves that state to the undo file first.  A save to an
\* empty slot, and one whose rename fails, leave the undo file of an earlier
\* save where it is.
StateSave(s) ==
  /\ call = Idle
  /\ \/ files[s] # NoFile /\ MoveAway(s) /\ undoSaveSlot' = s
     \/ /\ files[s] = NoFile \/ "rename" \in Fails
        /\ UNCHANGED <<files, moved, undoSaveSlot>>
  /\ Request(TRUE, s, "save", s)
  /\ UNCHANGED <<machineVars, restored, cut>>

\* A load snapshots the machine before it looks at the slot.  The bound
\* leaves room for both of its requests.
StateLoad(s) ==
  /\ call = Idle
  /\ posted + 2 <= MaxOps
  /\ Request(TRUE, "undo_load", "snapshot", s)
  /\ UNCHANGED <<files, undoSaveSlot, machineVars, ghostVars>>

\* A rename that fails changes nothing.
UndoStateSave ==
  /\ call = Idle
  /\ undoSaveSlot # Null /\ files["undo_save"] # NoFile
  /\ files' = [files EXCEPT ![undoSaveSlot] = files["undo_save"],
                            !["undo_save"] = NoFile]
  /\ undoSaveSlot' = Null
  /\ reply' = Idle
  /\ UNCHANGED <<call, pendingStateOp, answer, machineVars, posted, ghostVars>>

UndoStateLoad ==
  /\ call = Idle
  /\ files["undo_load"] # NoFile
  /\ Request(FALSE, "undo_load", "undoLoad", Null)
  /\ UNCHANGED <<files, undoSaveSlot, machineVars, ghostVars>>

\* LoadRom drops the undo files and queues the ROM over any queued before.
QueueRom ==
  /\ call = Idle
  /\ boots < MaxBoots
  /\ boots' = boots + 1 /\ pendingRom' = boots + 1
  /\ files' = [files EXCEPT !["undo_save"] = NoFile, !["undo_load"] = NoFile]
  /\ undoSaveSlot' = Null
  /\ reply' = Idle
  /\ UNCHANGED <<call, pendingStateOp, answer, running, frameAt, drawing, posted,
                 ghostVars>>

\* latch.await gives up; the request stays where it is.
TimeOut ==
  /\ call # Idle /\ answer = "none"
  /\ answer' = "failed"
  /\ UNCHANGED <<files, bridgeVars, pendingStateOp, machineVars, posted, ghostVars>>

\* The call goes on after its request: a load ignores how its snapshot went
\* and stops at an empty slot.
GoOnLoading ==
  /\ call.of = "snapshot" /\ answer # "none"
  /\ files[call.slot] # NoFile
  /\ Request(FALSE, call.slot, "load", call.slot)
  /\ UNCHANGED <<files, undoSaveSlot, machineVars, ghostVars>>

SlotEmpty ==
  /\ call.of = "snapshot" /\ answer # "none"
  /\ files[call.slot] = NoFile
  /\ call' = Idle /\ answer' = "none"
  /\ UNCHANGED <<files, undoSaveSlot, pendingStateOp, reply, machineVars, posted,
                 ghostVars>>

Finish ==
  /\ call.of \in {"save", "load", "undoLoad"} /\ answer # "none"
  /\ IF answer = "ok" THEN reply' = call ELSE UNCHANGED reply
  /\ files' = IF call.of = "undoLoad" /\ answer = "ok"
                THEN [files EXCEPT !["undo_load"] = NoFile] ELSE files
  /\ call' = Idle /\ answer' = "none"
  /\ UNCHANGED <<undoSaveSlot, pendingStateOp, machineVars, posted, ghostVars>>

----------------------------------------------------------------------------
(* The render thread *)

\* The top of doFrame boots a queued ROM; without a game the frame ends here.
TopOfFrame ==
  /\ drawing /\ frameAt = "top"
  /\ pendingRom' = 0
  /\ \/ pendingRom = 0 /\ UNCHANGED running
     \/ pendingRom # 0 /\ running' = pendingRom
     \/ pendingRom # 0 /\ "boot" \in Fails /\ running' \in {running, 0}
  /\ frameAt' = IF running' = 0 THEN "top" ELSE "late"
  /\ UNCHANGED <<files, bridgeVars, pendingStateOp, answer, drawing, posted, boots,
                 ghostVars>>

\* EmulatorHost::stateSave.  A short write leaves a torn file; so does a flush
\* that fails when the file is closed, which is not looked at.
HostSaves(file, id, outcome) ==
  \/ /\ outcome = "ok"
     /\ files' = [files EXCEPT ![file] = [boot |-> running, op |-> id]]
     /\ UNCHANGED cut
  \/ /\ outcome = "ok" /\ "close" \in Fails
     /\ files' = [files EXCEPT ![file] = Torn]
     /\ cut' = id
  \/ outcome = "failed" /\ "serialize" \in Fails /\ UNCHANGED <<files, cut>>
  \/ /\ outcome = "failed" /\ "write" \in Fails
     /\ files' = [files EXCEPT ![file] = Torn]
     /\ UNCHANGED cut

\* EmulatorHost::stateLoad.  An engine may refuse a state, as one of another
\* game, and does refuse one that is too short.
HostLoads(file, outcome) ==
  \/ /\ outcome = "ok"
     /\ files[file] \notin {NoFile, Torn}
     /\ restored' = files[file]
  \/ /\ outcome = "failed"
     /\ files[file] \in {NoFile, Torn} \/ "unserialize" \in Fails
     /\ UNCHANGED restored

\* Bug: a request that was served counts as done.
ServeBlindly ==
  /\ frameAt = "late" /\ pendingStateOp # Null
  /\ pendingStateOp' = Null
  /\ \E outcome \in {"ok", "failed"} :
       /\ IF pendingStateOp.save
            THEN HostSaves(pendingStateOp.file, pendingStateOp.id, outcome)
                 /\ UNCHANGED restored
            ELSE HostLoads(pendingStateOp.file, outcome) /\ UNCHANGED <<files, cut>>
       /\ answer' = IF call.id = pendingStateOp.id /\ answer = "none"
                      THEN "ok" ELSE answer
  /\ frameAt' = "top"
  /\ UNCHANGED <<bridgeVars, running, pendingRom, drawing, boots, posted, moved>>

\* A request carries its own latch: only the call that made it, and only
\* while it still waits, hears of the outcome.
ServeOp ==
  /\ frameAt = "late" /\ pendingStateOp # Null
  /\ pendingStateOp' = Null
  /\ \E outcome \in {"ok", "failed"} :
       /\ IF pendingStateOp.save
            THEN HostSaves(pendingStateOp.file, pendingStateOp.id, outcome)
                 /\ UNCHANGED restored
            ELSE HostLoads(pendingStateOp.file, outcome) /\ UNCHANGED <<files, cut>>
       /\ answer' = IF call.id = pendingStateOp.id /\ answer = "none"
                      THEN outcome ELSE answer
  /\ frameAt' = "top"
  /\ UNCHANGED <<bridgeVars, running, pendingRom, drawing, boots, posted, moved>>

NothingToServe ==
  /\ frameAt = "late" /\ pendingStateOp = Null
  /\ frameAt' = "top"
  /\ UNCHANGED <<files, bridgeVars, pendingStateOp, answer, running, pendingRom,
                 drawing, posted, boots, ghostVars>>

----------------------------------------------------------------------------
(* Around them *)

\* The teardown Stop queues runs between frames.
Teardown ==
  /\ frameAt = "top" /\ running # 0
  /\ running' = 0
  /\ UNCHANGED <<files, bridgeVars, pendingStateOp, answer, pendingRom, frameAt,
                 drawing, posted, boots, ghostVars>>

Foreground ==
  /\ drawing' = ~drawing
  /\ UNCHANGED <<files, bridgeVars, pendingStateOp, answer, running, pendingRom,
                 frameAt, posted, boots, ghostVars>>

\* The process dies, in the middle of a write perhaps, and a new one starts.
Killed ==
  /\ \/ UNCHANGED files
     \/ /\ frameAt = "late" /\ pendingStateOp # Null
        /\ pendingStateOp.save
        /\ files' = [files EXCEPT ![pendingStateOp.file] = Torn]
  /\ undoSaveSlot' = Null /\ pendingStateOp' = Null
  /\ call' = Idle /\ answer' = "none" /\ reply' = Idle
  /\ running' = 0 /\ pendingRom' = 0 /\ frameAt' = "top" /\ drawing' = FALSE
  /\ UNCHANGED <<posted, boots, ghostVars>>

Call ==
  \/ \E s \in Slots : StateSave(s)
  \/ \E s \in Slots : StateLoad(s)
  \/ UndoStateSave
  \/ UndoStateLoad
  \/ QueueRom

Wake ==
  \/ TimeOut
  \/ GoOnLoading
  \/ SlotEmpty
  \/ Finish

ServeFrame ==
  \/ TopOfFrame
  \/ ServeOp
  \/ NothingToServe

SlotsNext ==
  \/ Call
  \/ Wake
  \/ ServeFrame
  \/ Teardown
  \/ Foreground
  \/ Killed

SlotsSpec == SlotsInit /\ [][SlotsNext]_slotsVars

----------------------------------------------------------------------------
(* Properties *)

\* Whatever timed out, failed or was killed in between, UndoStateSave gives
\* back what the latest save that moved a state away moved: to the slot it was
\* in, that very state, whatever has been saved since; and no LoadRom lies in
\* between.  A save that moved nothing does not count: the undo of the save
\* before it stays on offer.
UndoRestores ==
  undoSaveSlot # Null /\ files["undo_save"] # NoFile =>
    /\ undoSaveSlot = moved.slot
    /\ files["undo_save"] = moved.state
    /\ moved.boots = boots

\* A call that answers "saved" did it, unless the last flush of this very save
\* failed: the slot holds the state this call wrote, of a game that ran during
\* the call, the one loaded meanwhile perhaps but none that ended before.  One
\* that answers "loaded" applied the slot's state.  A request that timed out
\* earlier and is served late answers nobody.
RepliesTrue ==
  /\ reply.of = "save" =>
       IF reply.id = cut THEN files[reply.slot] = Torn
       ELSE /\ files[reply.slot] \in States
            /\ files[reply.slot].op = reply.id
            /\ files[reply.slot].boot >= reply.since
  /\ reply.of = "load" => restored = files[reply.slot]

=============================================================================
