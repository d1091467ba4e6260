---------------------------- MODULE IosRenderers ----------------------------
(***************************************************************************)
(* The emulator surfaces of the iOS app: EmulatorRenderer.swift, its loop  *)
(* thread, the audio pump of EmulatorAudio.swift, and the surface registry *)
(* of EmulatorFunctions.swift, for one surface name.                       *)
(*                                                                         *)
(* SwiftUI may mount a second renderer under the name before it dismantles *)
(* the first.  Each renderer has its own emuLock and its own loop, but     *)
(* emu_create hands all of them the one native context, and the pump is a  *)
(* singleton too.  A loop keeps its renderer alive until the loop ends.    *)
(*                                                                         *)
(* A call is the list of accesses it still has to make.  Those it makes    *)
(* under emuLock have a step that takes the lock and one that makes the    *)
(* access and gives the lock back.                                         *)
(***************************************************************************)
EXTENDS Naturals, Sequences, FiniteSets

CONSTANTS
  Renderers, \* the views SwiftUI makes, each mounted at most once
  Callers,   \* threads that make bridge calls
  Threads,   \* ids for loop threads, at least one per LoadRom
  None,
  MaxCalls   \* bound on calls other than LoadRom

ASSUME RenderersAssumption ==
  /\ None \notin Renderers \cup Callers \cup Threads
  /\ MaxCalls \in Nat
  /\ IsFiniteSet(Threads)

VARIABLES
  surfaces, \* the renderer registered under the name
  view,     \* per renderer, its fields and where SwiftUI has it
  emuLock,  \* per renderer, who holds its lock
  core,     \* the native context
  pump,     \* EmulatorAudio.Pump: a context is set, it is paused
  call,     \* per caller: the renderer resolved and the accesses left
  loop,     \* per thread: whose loop it runs and where it stands
  latest,   \* history: the renderer mounted last, the one that last booted, and
            \* whether two calls were ever under way at once
  made      \* bound: calls made so far

vars == <<surfaces, view, emuLock, core, pump, call, loop, latest, made>>

Statuses  == {"stopped", "loading", "running", "paused"}
UnderLock == {"stage", "boot", "flush", "reset"}
Tags      == UnderLock \cup {"sayLoading", "arm", "startLoop", "claim", "attach",
              "spawn", "stopLoop", "detach", "sayStopped", "mute", "pause",
              "sayPaused", "unmute", "resume", "sayRunning", "forget"}
Places   == {"free", "spawned", "check", "wait", "tick", "report", "say"}

Unmounted == [life |-> "unborn", staged |-> FALSE, running |-> FALSE,
              pendingStarted |-> FALSE, status |-> "stopped"]
Games == {"none", "booted", "played"}  \* played: it has ticked
NoCore == [game |-> "none", paused |-> FALSE, drawn |-> FALSE]
Idle   == [on |-> None, todo |-> <<>>]
Free   == [of |-> None, at |-> "free"]

TypeOK ==
  /\ surfaces \in Renderers \cup {None}
  /\ latest \in [mounted: Renderers \cup {None}, booted: Renderers \cup {None},
                 overlap: BOOLEAN]
  /\ view \in [Renderers -> [life: {"unborn", "mounted", "dismantled", "gone"},
                             staged: BOOLEAN, running: BOOLEAN,
                             pendingStarted: BOOLEAN, status: Statuses]]
  /\ emuLock \in [Renderers -> Callers \cup Threads \cup {None}]
  /\ core \in [game: Games, paused: BOOLEAN, drawn: BOOLEAN]
  /\ pump \in [on: BOOLEAN, paused: BOOLEAN]
  /\ call \in [Callers -> [on: Renderers \cup {None}, todo: Seq(Tags)]]
  /\ loop \in [Threads -> [of: Renderers \cup {None}, at: Places]]
  /\ made \in [loads: 0 .. Cardinality(Threads), others: 0 .. MaxCalls]

Init ==
  /\ surfaces = None /\ latest = [mounted |-> None, booted |-> None, overlap |-> FALSE]
  /\ view = [v \in Renderers |-> Unmounted]
  /\ emuLock = [v \in Renderers |-> None]
  /\ core = NoCore
  /\ pump = [on |-> FALSE, paused |-> FALSE]
  /\ call = [c \in Callers |-> Idle]
  /\ loop = [t \in Threads |-> Free]
  /\ made = [loads |-> 0, others |-> 0]

----------------------------------------------------------------------------
(* SwiftUI *)

Mount(v) ==
  /\ view[v].life = "unborn"
  /\ view' = [view EXCEPT ![v].life = "mounted"]
  /\ surfaces' = v /\ latest' = [latest EXCEPT !.mounted = v]
  /\ UNCHANGED <<emuLock, core, pump, call, loop, made>>

\* Bug: a teardown removes whatever is registered under the name.
UnregisterByName(v) == surfaces' = None

\* Only the renderer that still owns the entry removes it.
Unregister(v) == surfaces' = IF surfaces = v THEN None ELSE surfaces

Dismantle(v) ==
  /\ view[v].life = "mounted"
  /\ view' = [view EXCEPT ![v].life = "dismantled"]
  /\ Unregister(v)
  /\ UNCHANGED <<emuLock, core, pump, call, loop, latest, made>>

\* Pump.detach compares contexts, of which there is one: it does nothing only
\* when nothing is attached.
Detached == [pump EXCEPT !.on = FALSE]

\* The last reference goes: neither a call nor a loop holds the renderer.
Deinit(v) ==
  /\ view[v].life = "dismantled"
  /\ \A c \in Callers : call[c].on # v
  /\ \A t \in Threads : loop[t].of = v => loop[t].at = "spawned"
  /\ view' = [view EXCEPT ![v].life = "gone", ![v].running = FALSE]
  /\ Unregister(v)
  /\ pump' = Detached
  /\ UNCHANGED <<emuLock, core, call, loop, latest, made>>

----------------------------------------------------------------------------
(* Bridge calls.  The renderer is looked up once, when the call begins. *)

Begin(c, todo) ==
  /\ call[c] = Idle
  /\ surfaces # None
  /\ call' = [call EXCEPT ![c] = [on |-> surfaces, todo |-> todo]]
  /\ latest' = [latest EXCEPT !.overlap = @ \/ \E d \in Callers : call[d] # Idle]
  /\ UNCHANGED <<surfaces, view, emuLock, core, pump, loop>>

LoadRom(c) ==
  /\ made.loads < Cardinality(Threads)
  /\ made' = [made EXCEPT !.loads = @ + 1]
  /\ surfaces # None /\ view[surfaces].staged
  /\ Begin(c, <<"boot">>)

Command(c) ==
  /\ made.others < MaxCalls
  /\ made' = [made EXCEPT !.others = @ + 1]
  /\ \/ Begin(c, <<"stage">>)                                   \* LoadSystem
     \/ Begin(c, <<"mute", "pause", "flush", "sayPaused">>)     \* Pause
     \/ Begin(c, <<"unmute", "resume", "sayRunning">>)          \* Resume
     \/ Begin(c, <<"stopLoop", "detach", "reset", "forget", "sayStopped">>)

Doing(c, tag) == call[c].todo # <<>> /\ Head(call[c].todo) = tag

\* The access is made, and `more` with the rest of the call remains.
Done(c, more) ==
  LET left == more \o Tail(call[c].todo)
  IN call' = [call EXCEPT ![c] = IF left = <<>> THEN Idle
                                 ELSE [@ EXCEPT !.todo = left]]

Take(c) ==
  /\ \E tag \in UnderLock : Doing(c, tag)
  /\ emuLock[call[c].on] = None
  /\ emuLock' = [emuLock EXCEPT ![call[c].on] = c]
  /\ UNCHANGED <<surfaces, view, core, pump, call, loop, latest, made>>

Give(c) ==
  /\ emuLock[call[c].on] = c
  /\ emuLock' = [emuLock EXCEPT ![call[c].on] = None]
  /\ UNCHANGED <<surfaces, pump, loop, made>>

Stage(c) ==
  /\ call[c].on # None /\ Doing(c, "stage") /\ Give(c) /\ Done(c, <<>>)
  /\ \E ok \in BOOLEAN :
       view' = [view EXCEPT ![call[c].on].staged = @ \/ ok]
  /\ UNCHANGED <<core, latest>>

Started == <<"sayLoading", "arm", "startLoop">>

\* A game unloaded leaves its last frame in the frame buffer.
Boots(c) ==
  /\ call[c].on # None /\ Doing(c, "boot") /\ Give(c)
  /\ core' = [NoCore EXCEPT !.game = "booted", !.drawn = core.drawn]
  /\ Done(c, Started)
  /\ latest' = [latest EXCEPT !.booted = call[c].on]
  /\ UNCHANGED view

\* Bug: a rejected ROM stops the loop, as a failed boot does.
RejectedStops(c) ==
  /\ call[c].on # None /\ Doing(c, "boot") /\ Give(c)
  /\ Done(c, <<"stopLoop", "detach", "sayStopped">>)
  /\ UNCHANGED <<core, view, latest>>

Rejected(c) ==
  /\ call[c].on # None /\ Doing(c, "boot") /\ Give(c) /\ Done(c, <<>>)
  /\ UNCHANGED <<core, view, latest>>

FailsToBoot(c) ==
  /\ call[c].on # None /\ Doing(c, "boot") /\ Give(c)
  /\ core' = [NoCore EXCEPT !.drawn = core.drawn]
  /\ Done(c, <<"stopLoop", "detach", "sayStopped">>)
  /\ UNCHANGED <<view, latest>>

\* What a flush writes is the subject of HostLifecycle.
Flush(c) ==
  /\ call[c].on # None /\ Doing(c, "flush") /\ Give(c) /\ Done(c, <<>>)
  /\ UNCHANGED <<core, view, latest>>

Reset(c) ==
  /\ call[c].on # None /\ Doing(c, "reset") /\ Give(c) /\ Done(c, <<>>)
  /\ core' = NoCore
  /\ UNCHANGED <<view, latest>>

\* The accesses outside the lock, to the renderer's own fields ...
Write(c) ==
  LET v == call[c].on
      Set(tag, new) == Doing(c, tag) /\ view' = [view EXCEPT ![v] = new]
  IN /\ v # None
     /\ \/ Set("sayLoading", [view[v] EXCEPT !.status = "loading"])
        \/ Set("arm", [view[v] EXCEPT !.pendingStarted = TRUE])
        \/ Set("stopLoop", [view[v] EXCEPT !.running = FALSE])
        \/ Set("forget", [view[v] EXCEPT !.staged = FALSE,
                                         !.pendingStarted = FALSE])
        \/ Set("sayStopped", [view[v] EXCEPT !.status = "stopped"])
        \/ Set("sayPaused", [view[v] EXCEPT !.status = "paused"])
        \/ Set("sayRunning", [view[v] EXCEPT !.status = "running"])
     /\ Done(c, <<>>)
     /\ UNCHANGED <<surfaces, emuLock, core, pump, loop, latest, made>>

\* ... and to what all renderers share: the pump and the core's atomic flag.
Share(c) ==
  /\ \/ Doing(c, "claim")   /\ pump' = [pump EXCEPT !.on = TRUE] /\ UNCHANGED core
     \/ Doing(c, "attach")  /\ pump' = [pump EXCEPT !.paused = FALSE] /\ UNCHANGED core
     \/ Doing(c, "detach")  /\ pump' = Detached /\ UNCHANGED core
     \/ Doing(c, "mute")    /\ pump' = [pump EXCEPT !.paused = TRUE] /\ UNCHANGED core
     \/ Doing(c, "unmute")  /\ pump' = [pump EXCEPT !.paused = FALSE] /\ UNCHANGED core
     \/ Doing(c, "pause")   /\ core' = [core EXCEPT !.paused = TRUE] /\ UNCHANGED pump
     \/ Doing(c, "resume")  /\ core' = [core EXCEPT !.paused = FALSE] /\ UNCHANGED pump
  /\ Done(c, <<>>)
  /\ UNCHANGED <<surfaces, view, emuLock, loop, latest, made>>

\* Bug: a loop that was told to stop but has not ended counts as running.
StartLoopUnlessThread(c) ==
  /\ Doing(c, "startLoop")
  /\ LET busy == \E t \in Threads : loop[t].of = call[c].on
     IN /\ view' = [view EXCEPT ![call[c].on].running = @ \/ ~busy]
        /\ Done(c, IF busy THEN <<>> ELSE <<"claim", "attach", "spawn">>)
  /\ UNCHANGED <<surfaces, emuLock, core, pump, loop, latest, made>>

\* A loop that runs already is left alone.
StartLoop(c) ==
  /\ Doing(c, "startLoop")
  /\ view' = [view EXCEPT ![call[c].on].running = TRUE]
  /\ Done(c, IF view[call[c].on].running THEN <<>>
             ELSE <<"claim", "attach", "spawn">>)
  /\ UNCHANGED <<surfaces, emuLock, core, pump, loop, latest, made>>

\* Each LoadRom spawns at most one thread, so an id is free.
Spawn(c) ==
  /\ Doing(c, "spawn")
  /\ LET t == CHOOSE x \in Threads : loop[x] = Free
     IN loop' = [loop EXCEPT ![t] = [of |-> call[c].on, at |-> "spawned"]]
  /\ Done(c, <<>>)
  /\ UNCHANGED <<surfaces, view, emuLock, core, pump, latest, made>>

Proceed(c) ==
  \/ Take(c)
  \/ Stage(c)
  \/ Boots(c)
  \/ Rejected(c)
  \/ FailsToBoot(c)
  \/ Flush(c)
  \/ Reset(c)
  \/ Write(c)
  \/ Share(c)
  \/ StartLoop(c)
  \/ Spawn(c)

----------------------------------------------------------------------------
(* The loop threads *)

Stands(t, at) == loop[t].at = at
Goes(t, at)   == loop' = [loop EXCEPT ![t].at = at]
Ends(t)       == loop' = [loop EXCEPT ![t] = Free]
Mine(t)       == view[loop[t].of]

\* The thread's reference is weak until the loop is entered.
Enter(t) ==
  /\ Stands(t, "spawned")
  /\ IF Mine(t).life = "gone" THEN Ends(t) ELSE Goes(t, "check")
  /\ UNCHANGED <<surfaces, view, emuLock, core, pump, call, latest, made>>

\* A pass too short for a tick comes straight back here.
CheckRunning(t) ==
  /\ Stands(t, "check")
  /\ IF Mine(t).running THEN Goes(t, "wait") ELSE Ends(t)
  /\ UNCHANGED <<surfaces, view, emuLock, core, pump, call, latest, made>>

LockTicks(t) ==
  /\ Stands(t, "wait") /\ emuLock[loop[t].of] = None
  /\ emuLock' = [emuLock EXCEPT ![loop[t].of] = t]
  /\ Goes(t, "tick")
  /\ UNCHANGED <<surfaces, view, core, pump, call, latest, made>>

\* The ticks, and the frame, if there is one.  What the autosave writes is the
\* subject of HostLifecycle.
RunTicks(t) ==
  /\ Stands(t, "tick")
  /\ IF core.game # "none" /\ ~core.paused
       THEN core' = [core EXCEPT !.game = "played", !.drawn = TRUE]
       ELSE UNCHANGED core
  /\ emuLock' = [emuLock EXCEPT ![loop[t].of] = None]
  /\ Goes(t, IF core'.drawn THEN "report" ELSE "check")
  /\ UNCHANGED <<surfaces, view, pump, call, latest, made>>

Report(t) ==
  /\ Stands(t, "report")
  /\ Goes(t, IF Mine(t).pendingStarted THEN "say" ELSE "check")
  /\ UNCHANGED <<surfaces, view, emuLock, core, pump, call, latest, made>>

SayStarted(t) ==
  /\ Stands(t, "say")
  /\ view' = [view EXCEPT ![loop[t].of].pendingStarted = FALSE,
                          ![loop[t].of].status = "running"]
  /\ Goes(t, "check")
  /\ UNCHANGED <<surfaces, emuLock, core, pump, call, latest, made>>

EmulationLoop(t) ==
  \/ Enter(t)
  \/ CheckRunning(t)
  \/ LockTicks(t)
  \/ RunTicks(t)
  \/ Report(t)
  \/ SayStarted(t)

Next ==
  \/ \E v \in Renderers : Mount(v)
  \/ \E v \in Renderers : Dismantle(v)
  \/ \E v \in Renderers : Deinit(v)
  \/ \E c \in Callers : LoadRom(c)
  \/ \E c \in Callers : Command(c)
  \/ \E c \in Callers : Proceed(c)
  \/ \E t \in Threads : EmulationLoop(t)

Spec == Init /\ [][Next]_vars

\* Threads keep running, and a call that waits for a lock gets it in the end;
\* nothing makes SwiftUI or the application act.
Fairness == /\ \A c \in Callers : SF_vars(Proceed(c))
            /\ \A t \in Threads : SF_vars(EmulationLoop(t))

FairSpec == Spec /\ Fairness

----------------------------------------------------------------------------
(* Properties *)

NoCalls == \A c \in Callers : call[c] = Idle

\* However mounts and teardowns of the same name interleave, bridge calls
\* reach the view mounted last for as long as it is mounted.
LatestReachable ==
  latest.mounted # None /\ view[latest.mounted].life = "mounted" =>
    surfaces = latest.mounted

GameShown == /\ core.game # "none"
             /\ latest.booted # None /\ view[latest.booted].life = "mounted"

\* Between calls, the view that booted the loaded game has a loop that goes
\* on ticking it, whatever duplicates were stopped or torn down meanwhile and
\* whichever threads made the calls, unless two of them were under way at once.
GameIsTicked ==
  GameShown /\ NoCalls /\ ~latest.overlap =>
    /\ view[latest.booted].running
    /\ \E t \in Threads : loop[t].of = latest.booted

\* A game that booted is played, unless its view goes away, the game is paused
\* or replaced first, or two calls were under way at once.
BootsArePlayed ==
  core.game = "booted" /\ GameShown ~>
    core.game # "booted" \/ ~GameShown \/ core.paused \/ latest.overlap

=============================================================================
