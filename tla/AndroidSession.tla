--------------------------- MODULE AndroidSession ---------------------------
(***************************************************************************)
(* EmulatorSession on Android (resources/android/src/EmulatorSession.kt):  *)
(* a render thread that owns the native core and runs queued events and    *)
(* frames, and the threads that post to it: the bridge (PHP calls) and the *)
(* UI (surface and activity callbacks).  The session's fields are plain    *)
(* volatiles, so each access of another thread is a step of its own: a     *)
(* call is the sequence of accesses it still has to make, `todo`.          *)
(*                                                                         *)
(* The core is what EmulatorHost shows a session (see HostLifecycle): the  *)
(* game it runs, the battery prefix that game was booted with, whether it  *)
(* is paused, has drawn a frame, and holds unsaved progress.               *)
(***************************************************************************)
EXTENDS Naturals, Sequences

CONSTANTS
  Roms,      \* ROMs the application loads, each at most once
  None,      \* a null reference
  MaxEvents, \* bound on queued events; a caller at the bound waits
  MaxCalls   \* bound on calls other than LoadRom

ASSUME SessionAssumption ==
  None \notin Roms /\ MaxEvents \in Nat /\ MaxCalls \in Nat

VARIABLES
  pendingRomBytes, pendingSavePrefix, loadedRomPath, firstFrameSent,
  stagedSystemId, \* whether a system was ever declared
  systemStaged, romLoaded, audioStarted, currentStatus,
  surface,        \* currentSurface # null
  threadPaused, pausedByDetach,
  events,         \* queued Runnables
  core,           \* the native core
  pump,           \* EmulatorAudio.Pump: a source is attached, it is paused
  todo,           \* per posting thread: the accesses its call has yet to make
  frame,          \* where the render thread stands in its loop
  asked           \* bound: ROMs already queued, and calls made; history:
                  \* ROMs handed to the core, and ROMs cleared unseen

loadVars   == <<pendingRomBytes, pendingSavePrefix, loadedRomPath, firstFrameSent>>
stateVars  == <<stagedSystemId, systemStaged, romLoaded, audioStarted, currentStatus>>
windowVars == <<surface, threadPaused, pausedByDetach>>
nativeVars == <<core, pump>>
vars == <<loadVars, stateVars, windowVars, events, nativeVars, todo, frame,
          asked>>

Posters == {"bridge", "ui"}
MaybeRom == Roms \cup {None}
NoCore == [game |-> None, prefix |-> None, paused |-> FALSE, drawn |-> FALSE,
           unsaved |-> FALSE]
Stages == {"events", "take", "clear", "boot", "audio", "tick", "report"}
Statuses == {"stopped", "loading", "running", "paused"}
Runnables == {"flush", "stage", "teardown"}

(* The calls, as the accesses each makes in order.  A step is a tag and the *)
(* ROM it concerns.                                                         *)
Access(tag)    == [tag |-> tag, rom |-> None]
LoadRomCall(r) == <<[tag |-> "name", rom |-> r], Access("rearm"),
                    [tag |-> "prefix", rom |-> r], [tag |-> "rom", rom |-> r]>>
PauseCall      == <<Access("mute"), Access("pause"), Access("flush"),
                    Access("sayPaused")>>
ResumeCall     == <<Access("unmute"), Access("resume"), Access("sayResumed")>>
StopCall       == <<Access("detach"), Access("teardown"), Access("sayStopped")>>

Tags == {"name", "rearm", "prefix", "rom", "stage", "mute", "pause", "flush",
         "sayPaused", "unmute", "resume", "sayResumed", "detach", "teardown",
         "sayStopped", "attached", "gone"}

TypeOK ==
  /\ pendingRomBytes \in MaybeRom /\ pendingSavePrefix \in MaybeRom
  /\ loadedRomPath \in MaybeRom /\ firstFrameSent \in BOOLEAN
  /\ stagedSystemId \in BOOLEAN
  /\ systemStaged \in BOOLEAN /\ romLoaded \in BOOLEAN
  /\ audioStarted \in BOOLEAN /\ currentStatus \in Statuses
  /\ surface \in BOOLEAN /\ threadPaused \in BOOLEAN
  /\ pausedByDetach \in BOOLEAN
  /\ events \in Seq(Runnables)
  /\ core \in [game: MaybeRom, prefix: MaybeRom, paused: BOOLEAN,
               drawn: BOOLEAN, unsaved: BOOLEAN]
  /\ pump \in [on: BOOLEAN, paused: BOOLEAN]
  /\ todo \in [Posters -> Seq([tag: Tags, rom: MaybeRom])]
  /\ frame \in [at: Stages, rom: MaybeRom]
  /\ asked \in [roms: SUBSET Roms, calls: 0 .. MaxCalls,
                handed: SUBSET Roms, unseen: SUBSET Roms]

Init ==
  /\ pendingRomBytes = None /\ pendingSavePrefix = None
  /\ loadedRomPath = None /\ firstFrameSent = FALSE
  /\ stagedSystemId = FALSE
  /\ systemStaged = FALSE /\ romLoaded = FALSE /\ audioStarted = FALSE
  /\ currentStatus = "stopped"
  /\ surface = FALSE /\ threadPaused = FALSE /\ pausedByDetach = FALSE
  /\ events = <<>>
  /\ core = NoCore
  /\ pump = [on |-> FALSE, paused |-> FALSE]
  /\ todo = [t \in Posters |-> <<>>]
  /\ frame = [at |-> "events", rom |-> None]
  /\ asked = [roms |-> {}, calls |-> 0, handed |-> {}, unseen |-> {}]

----------------------------------------------------------------------------
(* Calls begin.  Each poster makes one call at a time. *)

Begin(t, call) ==
  /\ todo[t] = <<>>
  /\ todo' = [todo EXCEPT ![t] = call]

Spend == asked.calls < MaxCalls /\ asked' = [asked EXCEPT !.calls = @ + 1]

LoadRom(r) ==
  /\ stagedSystemId
  /\ r \notin asked.roms
  /\ asked' = [asked EXCEPT !.roms = @ \cup {r}]
  /\ Begin("bridge", LoadRomCall(r))
  /\ UNCHANGED <<loadVars, stateVars, windowVars, events, nativeVars, frame>>

\* stageSystem declares the system at once and queues the staging.
StageSystem ==
  /\ Begin("bridge", <<Access("stage")>>)
  /\ stagedSystemId' = TRUE
  /\ Spend
  /\ UNCHANGED <<loadVars, systemStaged, romLoaded, audioStarted,
                 currentStatus, windowVars, events, nativeVars, frame>>

Command ==
  /\ \E call \in {PauseCall, ResumeCall, StopCall} :
       Begin("bridge", call)
  /\ Spend
  /\ UNCHANGED <<loadVars, stateVars, windowVars, events, nativeVars, frame>>

\* attachSurface: the resume reads pausedByDetach after the surface is set.
AttachSurface ==
  /\ ~surface /\ Begin("ui", <<Access("attached")>>)
  /\ surface' = TRUE
  /\ Spend
  /\ UNCHANGED <<loadVars, stateVars, threadPaused, pausedByDetach, events,
                 nativeVars, frame>>

\* detachSurface pauses a running game before the surface goes.
DetachSurface ==
  /\ surface
  /\ LET pausing == romLoaded /\ currentStatus = "running" IN
     /\ pausedByDetach' = (pausedByDetach \/ pausing)
     /\ Begin("ui", (IF pausing THEN PauseCall ELSE <<>>) \o <<Access("gone")>>)
  /\ Spend
  /\ UNCHANGED <<loadVars, stateVars, surface, threadPaused, events,
                 nativeVars, frame>>

\* Bug: the flush is left to the next autosave.
OnPauseUnsaved ==
  /\ ~threadPaused /\ Begin("ui", <<>>)
  /\ threadPaused' = TRUE
  /\ Spend
  /\ UNCHANGED <<loadVars, stateVars, surface, pausedByDetach, events,
                 nativeVars, frame>>

\* onPause stops the frames before it queues the flush.
OnPause ==
  /\ ~threadPaused /\ Begin("ui", <<Access("flush")>>)
  /\ threadPaused' = TRUE
  /\ Spend
  /\ UNCHANGED <<loadVars, stateVars, surface, pausedByDetach, events,
                 nativeVars, frame>>

OnResume ==
  /\ threadPaused /\ Begin("ui", <<>>)
  /\ threadPaused' = FALSE
  /\ Spend
  /\ UNCHANGED <<loadVars, stateVars, surface, pausedByDetach, events,
                 nativeVars, frame>>

----------------------------------------------------------------------------
(* Calls go on, one access at a time. *)

\* Thread t makes its next access, which has this tag.
Does(t, tag) ==
  /\ todo[t] # <<>> /\ Head(todo[t]).tag = tag
  /\ todo' = [todo EXCEPT ![t] = Tail(@)]

\* queueRomLoad writes four fields, the ROM bytes last.
WriteLoad(t) ==
  /\ LET r == Head(todo[t]).rom IN
     \/ Does(t, "name") /\ loadedRomPath' = r
        /\ UNCHANGED <<pendingRomBytes, pendingSavePrefix, firstFrameSent>>
     \/ Does(t, "rearm") /\ firstFrameSent' = FALSE
        /\ UNCHANGED <<pendingRomBytes, pendingSavePrefix, loadedRomPath>>
     \/ Does(t, "prefix") /\ pendingSavePrefix' = r
        /\ UNCHANGED <<pendingRomBytes, loadedRomPath, firstFrameSent>>
     \/ Does(t, "rom") /\ pendingRomBytes' = r
        /\ UNCHANGED <<pendingSavePrefix, loadedRomPath, firstFrameSent>>
  /\ UNCHANGED <<stateVars, windowVars, events, nativeVars, frame, asked>>

\* queueEvent.  The wait that may follow (stageSystem, release) has a timeout
\* and then no effect, so it may end at any time.
Post(t) ==
  /\ Len(events) < MaxEvents
  /\ \E e \in Runnables : Does(t, e) /\ events' = Append(events, e)
  /\ UNCHANGED <<loadVars, stateVars, windowVars, nativeVars, frame, asked>>

\* The audio pump's fields and the core's paused flag.
TouchNative(t) ==
  /\ \/ Does(t, "mute")   /\ pump' = [pump EXCEPT !.paused = TRUE]  /\ UNCHANGED core
     \/ Does(t, "unmute") /\ pump' = [pump EXCEPT !.paused = FALSE] /\ UNCHANGED core
     \/ Does(t, "detach") /\ pump' = [pump EXCEPT !.on = FALSE]     /\ UNCHANGED core
     \/ Does(t, "pause")  /\ core' = [core EXCEPT !.paused = TRUE]  /\ UNCHANGED pump
     \/ Does(t, "resume") /\ core' = [core EXCEPT !.paused = FALSE] /\ UNCHANGED pump
  /\ UNCHANGED <<loadVars, stateVars, windowVars, events, frame, asked>>

SayStatus(t) ==
  /\ \/ Does(t, "sayPaused") /\ currentStatus' = "paused"
     \/ Does(t, "sayResumed")
        /\ currentStatus' = (IF firstFrameSent THEN "running" ELSE "loading")
       
     \/ Does(t, "sayStopped") /\ currentStatus' = "stopped"
  /\ UNCHANGED <<loadVars, stagedSystemId, systemStaged, romLoaded, audioStarted, windowVars,
                 events, nativeVars, frame, asked>>

\* attachSurface resumes what its own detach paused; detachSurface ends with
\* the surface gone.
SurfaceSettles(t) ==
  /\ \/ /\ todo[t] # <<>> /\ Head(todo[t]).tag = "attached"
        /\ todo' = [todo EXCEPT ![t] =
                      Tail(@) \o (IF pausedByDetach THEN ResumeCall ELSE <<>>)]
        /\ pausedByDetach' = FALSE /\ UNCHANGED surface
     \/ Does(t, "gone") /\ surface' = FALSE /\ UNCHANGED pausedByDetach
  /\ UNCHANGED <<loadVars, stateVars, threadPaused, events, nativeVars, frame,
                 asked>>

Proceed(t) ==
  \/ WriteLoad(t)
  \/ Post(t)
  \/ TouchNative(t)
  \/ SayStatus(t)
  \/ SurfaceSettles(t)

----------------------------------------------------------------------------
(* The render thread *)

At(stage)   == frame.at = stage
GoTo(stage) == frame' = [frame EXCEPT !.at = stage]

\* One queued Runnable.  A teardown flushes, destroys the host and makes a
\* fresh one; a staging may fail.
RunEvent ==
  /\ At("events") /\ events # <<>>
  /\ events' = Tail(events)
  /\ CASE Head(events) = "flush" ->
            /\ core' = [core EXCEPT !.unsaved = FALSE]
            /\ UNCHANGED <<systemStaged, romLoaded, audioStarted,
                           currentStatus, firstFrameSent>>
       [] Head(events) = "stage" ->
            /\ systemStaged' \in BOOLEAN
            /\ UNCHANGED <<core, romLoaded, audioStarted, currentStatus, firstFrameSent>>
       [] Head(events) = "teardown" ->
            /\ core' = NoCore
            /\ romLoaded' = FALSE /\ systemStaged' = FALSE
            /\ audioStarted' = FALSE /\ firstFrameSent' = FALSE
            /\ UNCHANGED currentStatus
  /\ UNCHANGED <<pendingRomBytes, pendingSavePrefix, loadedRomPath,
                 stagedSystemId, windowVars, pump, todo, frame, asked>>

\* With no surface, or in the background, the loop only drains events.
BeginFrame ==
  /\ At("events") /\ events = <<>> /\ surface /\ ~threadPaused
  /\ GoTo("take")
  /\ UNCHANGED <<loadVars, stateVars, windowVars, events, nativeVars, todo, asked>>

\* Bug: a ROM waits for the running game to stop.
TakeRomWhenIdle ==
  /\ At("take")
  /\ IF systemStaged /\ pendingRomBytes # None /\ ~romLoaded
       THEN frame' = [at |-> "clear", rom |-> pendingRomBytes]
       ELSE GoTo("audio")
  /\ UNCHANGED <<loadVars, stateVars, windowVars, events, nativeVars, todo, asked>>

TakeRom ==
  /\ At("take")
  /\ IF systemStaged /\ pendingRomBytes # None
       THEN frame' = [at |-> "clear", rom |-> pendingRomBytes]
       ELSE GoTo("audio")
  /\ UNCHANGED <<loadVars, stateVars, windowVars, events, nativeVars, todo, asked>>

\* Whatever is queued now goes, be it the ROM that was taken or a later one.
ClearPending ==
  /\ At("clear")
  /\ pendingRomBytes' = None
  /\ asked' = [asked EXCEPT !.unseen = @ \cup ({pendingRomBytes} \ {frame.rom, None})]
  /\ GoTo("boot")
  /\ UNCHANGED <<pendingSavePrefix, loadedRomPath, firstFrameSent, stateVars,
                 windowVars, events, nativeVars, todo>>

HandOver == asked' = [asked EXCEPT !.handed = @ \cup {frame.rom}]

\* core.loadRom and the handling of its result.  The prefix is read now.
Boots ==
  /\ At("boot")
  /\ HandOver
  /\ core' = [core EXCEPT !.game = frame.rom, !.prefix = pendingSavePrefix,
                          !.paused = FALSE, !.unsaved = FALSE]
  /\ romLoaded' = TRUE
  /\ currentStatus' = "loading"
  /\ GoTo("audio")
  /\ UNCHANGED <<loadVars, stagedSystemId, systemStaged, audioStarted, windowVars, events,
                 pump, todo>>

\* Bug: a rejected ROM is handled like a failed boot.
RejectedStops ==
  /\ At("boot")
  /\ HandOver
  /\ romLoaded' = FALSE /\ currentStatus' = "stopped"
  /\ GoTo("audio")
  /\ UNCHANGED <<loadVars, stagedSystemId, systemStaged, audioStarted,
                 windowVars, events, nativeVars, todo>>

Rejected ==
  /\ At("boot")
  /\ HandOver
  /\ GoTo("audio")
  /\ UNCHANGED <<loadVars, stateVars, windowVars, events, nativeVars, todo>>

FailedStopped ==
  /\ At("boot")
  /\ HandOver
  /\ core' = [core EXCEPT !.game = None, !.prefix = None, !.paused = FALSE,
                          !.unsaved = FALSE]
  /\ romLoaded' = FALSE /\ audioStarted' = FALSE
  /\ pump' = [pump EXCEPT !.on = FALSE]
  /\ currentStatus' = "stopped"
  /\ GoTo("audio")
  /\ UNCHANGED <<loadVars, stagedSystemId, systemStaged, windowVars, events, todo>>

\* Attaching the pump also takes it out of its pause.
StartAudio ==
  /\ At("audio")
  /\ audioStarted' = (audioStarted \/ romLoaded)
  /\ pump' = IF romLoaded /\ ~audioStarted THEN [on |-> TRUE, paused |-> FALSE]
                                           ELSE pump
  /\ GoTo(IF romLoaded THEN "tick" ELSE "events")
  /\ UNCHANGED <<loadVars, stagedSystemId, systemStaged, romLoaded, currentStatus, windowVars,
                 events, core, todo, asked>>

\* The ticks of this pass, none of which draws while the core is paused, and
\* the autosave, when it is due.
RunTicks ==
  /\ At("tick")
  /\ \/ UNCHANGED core
     \/ core' = [core EXCEPT !.unsaved = FALSE]
     \/ ~core.paused /\ core' = [core EXCEPT !.drawn = TRUE, !.unsaved = TRUE]
  /\ GoTo("report")
  /\ UNCHANGED <<loadVars, stateVars, windowVars, events, pump, todo, asked>>

ReportFrame ==
  /\ At("report")
  /\ IF ~firstFrameSent /\ core.drawn
       THEN /\ firstFrameSent' = TRUE
            /\ currentStatus' = "running"
       ELSE UNCHANGED <<firstFrameSent, currentStatus>>
  /\ frame' = [at |-> "events", rom |-> None]
  /\ UNCHANGED <<pendingRomBytes, pendingSavePrefix, loadedRomPath,
                 stagedSystemId, systemStaged, romLoaded, audioStarted,
                 windowVars, events, nativeVars, todo, asked>>

DoFrame ==
  \/ TakeRom
  \/ ClearPending
  \/ Boots
  \/ Rejected
  \/ FailedStopped
  \/ StartAudio
  \/ RunTicks
  \/ ReportFrame

\* Bug: queued events wait for something to draw.
RenderWhenVisible ==
  \/ surface /\ ~threadPaused /\ RunEvent
  \/ BeginFrame
  \/ DoFrame

Render ==
  \/ RunEvent
  \/ BeginFrame
  \/ DoFrame

Calls ==
  \/ \E r \in Roms : LoadRom(r)
  \/ StageSystem
  \/ Command
  \/ AttachSurface
  \/ DetachSurface
  \/ OnPause
  \/ OnResume

Next ==
  \/ Calls
  \/ \E t \in Posters : Proceed(t)
  \/ Render

Spec == Init /\ [][Next]_vars

\* The render thread keeps looping, and a call that began goes on; nothing
\* makes the application call.
Fairness == WF_vars(Render) /\ \A t \in Posters : WF_vars(Proceed(t))

FairSpec == Spec /\ Fairness

----------------------------------------------------------------------------
(* Properties *)

\* The session and the native core agree on whether a game is loaded, so the
\* loop never ticks an empty core and never skips a live one.
SessionMatchesCore ==
  /\ romLoaded <=> core.game # None
  /\ At("tick") \/ At("report") => romLoaded

\* However a backgrounding interleaves with frames, loads and stops, the
\* game's progress is flushed before the process may be killed.
BackgroundSaves == threadPaused ~> ~core.unsaved \/ ~threadPaused

\* A queued teardown is carried out even with no surface and in background.
TeardownHappens ==
  "teardown" \in {events[i] : i \in DOMAIN events} ~> core.game = None

\* r is queued, and the loop may draw.
Waits(r) == pendingRomBytes = r /\ systemStaged /\ surface /\ ~threadPaused

\* A ROM that is queued is handed to the core, or superseded by a later one,
\* once the loop may draw; the one exception is a ROM queued after the loop
\* took the one before it and before it cleared the queue.
RomsAreTaken ==
  \A r \in Roms : Waits(r) ~>
    \/ r \in asked.handed \/ r \in asked.unseen
    \/ pendingRomBytes # None /\ ~Waits(r)

\* "Queue a ROM load; it executes on the next render-loop pass after a system
\* is staged": a ROM that leaves the queue, other than for a later one, was
\* handed to the core.
QueuedRomsExecute ==
  \A r \in Roms : Waits(r) ~>
    \/ r \in asked.handed
    \/ pendingRomBytes # None /\ ~Waits(r)

============================================================================
