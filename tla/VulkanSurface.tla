--------------------------- MODULE VulkanSurface ---------------------------
(***************************************************************************)
(* How the picture reaches the screen on Android: views come and go on the *)
(* UI thread, PHP sets shader presets on the bridge thread, and the render *)
(* thread of EmulatorSession follows both into VulkanRenderer, through the *)
(* functions of emulator_jni.cpp that guard g_vk.  What the Vulkan driver  *)
(* and librashader may answer is a choice: each kind of failure strikes at *)
(* most once, MaxFaults in all.                                            *)
(*                                                                         *)
(* A size stands for width and height; 0 is "none yet".                    *)
(***************************************************************************)
EXTENDS Naturals, Sequences, FiniteSets

CONSTANTS
  Surfaces,  \* android.view.Surface objects; a SurfaceView keeps its own
  Presets,   \* shader presets
  Null,      \* no surface, and no preset
  Sizes,     \* sizes a window may have
  MaxCalls,  \* bound on callbacks of the UI thread and calls of SetShader
  Kinds,     \* kinds of failure that may strike
  MaxFaults  \* bound on failures

ASSUME SurfaceAssumption ==
  /\ Null \notin Surfaces \cup Presets
  /\ Sizes \subseteq Nat \ {0}
  /\ Kinds \subseteq {"device", "window", "swapchain", "image", "preset",
                 "filter", "submit"}
  /\ MaxCalls \in Nat /\ MaxFaults \in Nat

VARIABLES
  shown,   \* surfaces created and not yet destroyed
  size,    \* per surface: the size of its window
  told,    \* shown surfaces whose size surfaceChanged has told
  current, \* currentSurface
  ui,      \* the surface whose detach the UI thread waits for
  events,  \* the queue of Runnables
  vkBound, wanted, pending, \* vkBound, wantedShaderPath, shaderPending
  bridge,  \* where syncSetShader stands
  bound,   \* the render thread's boundSurface
  loop,    \* where the render thread stands, and the surface it read
  view,    \* surfaceW and surfaceH
  vk,      \* VulkanRenderer
  faults,  \* failures that struck
  spent,   \* calls made
  raced,   \* history: "surface": a detach timed out, or a surface came back
           \* before the loop had missed it, and nothing was bound since;
           \* "shader": a staged preset overtook the Runnable of a SetShader
           \* that had timed out, and SetShader was not called since
  released,\* history: surfaces whose detach the latch answered, not attached since
  hurried, \* history: surfaces whose detach returned without the latch, for
           \* another was current or it timed out, not attached since
  lost     \* history: the chain went with a surface, and none was set since

uiVars     == <<shown, size, told, current, ui>>
shaderVars == <<vkBound, wanted, pending, bridge>>
history    == <<faults, spent, raced, released, hurried, lost>>
vars == <<uiVars, events, shaderVars, bound, loop, view, vk, history>>

Extents == Sizes \cup {0}
Shaders == Presets \cup {Null}

\* The swapchain is its extent; the chain's output image has a size and is
\* without memory, blank, or drawn and left in the layout it is read in.
Renderers ==
  [device: BOOLEAN, window: Surfaces \cup {Null}, surface: BOOLEAN,
   extent: Extents, fence: BOOLEAN, chain: Shaders,
   out: [size: Extents, is: {"none", "unbacked", "blank", "readable"}]]
NoImage == [size |-> 0, is |-> "none"]

Runnables ==
  [op: {"changed"}, arg: Sizes, waiter: {"nobody"}]
    \cup [op: {"gone"}, arg: Surfaces, waiter: {"ui", "nobody"}]
    \cup [op: {"shader"}, arg: Shaders, waiter: {"bridge", "nobody"}]

TypeOK ==
  /\ shown \subseteq Surfaces /\ told \subseteq shown
  /\ size \in [Surfaces -> Extents]
  /\ current \in Surfaces \cup {Null} /\ ui \in Surfaces \cup {Null}
  /\ events \in Seq(Runnables)
  /\ vkBound \in BOOLEAN /\ wanted \in Shaders /\ pending \in BOOLEAN
  /\ bridge \in {"idle", "look", "stage", "post", "wait"}
  /\ bound \in Surfaces \cup {Null}
  /\ loop \in [at: {"drain", "look", "bind", "shader", "apply", "frame", "hung"},
               want: Surfaces \cup {Null}]
  /\ view \in Extents /\ vk \in Renderers
  /\ faults \subseteq Kinds
  /\ raced \subseteq {"surface", "shader"} /\ lost \in BOOLEAN
  /\ released \subseteq Surfaces /\ hurried \subseteq Surfaces

Init ==
  /\ shown = {} /\ told = {} /\ size = [s \in Surfaces |-> 0]
  /\ current = Null /\ ui = Null /\ events = <<>>
  /\ vkBound = FALSE /\ wanted = Null /\ pending = FALSE /\ bridge = "idle"
  /\ bound = Null /\ loop = [at |-> "drain", want |-> Null] /\ view = 0
  /\ vk = [device |-> FALSE, window |-> Null, surface |-> FALSE, extent |-> 0,
           fence |-> TRUE, chain |-> Null, out |-> NoImage]
  /\ faults = {} /\ spent = 0
  /\ raced = {} /\ released = {} /\ hurried = {} /\ lost = FALSE

----------------------------------------------------------------------------
(* VulkanRenderer, as functions of its state.  `bad` holds the failure, if *)
(* any, that strikes the call.                                             *)

DestroyShaderChain(v) == [v EXCEPT !.chain = Null, !.out = NoImage]
DestroySwapchain(v)   == [v EXCEPT !.extent = 0]

\* The surface says how large it is; one that is gone says nothing.
CreateSwapchain(v, bad) ==
  IF v.window \in shown /\ "swapchain" \notin bad
  THEN [v EXCEPT !.extent = size[v.window]] ELSE v

SetSurface(v, s, bad) ==
  LET w == [v EXCEPT !.window = s] IN
  IF "window" \in bad THEN w
  ELSE CreateSwapchain([w EXCEPT !.surface = TRUE], bad)

OnResize(v, n, bad) ==
  IF v.surface /\ n # v.extent THEN CreateSwapchain(DestroySwapchain(v), bad)
  ELSE v

\* Bug: the native window is not released.
ClearSurfaceOnly(v) ==
  [DestroySwapchain(DestroyShaderChain(v)) EXCEPT !.surface = FALSE]

ClearSurface(v) ==
  [DestroySwapchain(DestroyShaderChain(v))
     EXCEPT !.surface = FALSE, !.window = Null]

SetShader(v, path, bad) ==
  IF ~v.device THEN v
  ELSE [DestroyShaderChain(v)
          EXCEPT !.chain = IF "preset" \in bad THEN Null ELSE path]

\* An image that cannot be backed by memory stays, and so does the old size.
EnsureShaderOutput(v, n, bad) ==
  IF v.out.is # "none" /\ v.out.size = n THEN v
  ELSE IF "image" \in bad THEN [v EXCEPT !.out.is = "unbacked"]
  ELSE [v EXCEPT !.out = [size |-> n, is |-> "blank"]]

Draws(v, draw) == draw /\ view # 0 /\ v.chain # Null

Shaded(v, bad) == IF Draws(v, TRUE) THEN EnsureShaderOutput(v, view, bad) ELSE v

\* Bug: the output image is not moved to the layout it is read from.
RecordWithoutBarrier(v, draw, bad) ==
  LET w == IF draw THEN Shaded(v, bad) ELSE v IN
  IF "submit" \in bad THEN [w EXCEPT !.fence = FALSE] ELSE w

\* What recordAndSubmit leaves: the fence is reset before, and a submission
\* that fails never signals it again.
RecordAndSubmit(v, draw, bad) ==
  LET w  == IF draw THEN Shaded(v, bad) ELSE v
  IN  IF "submit" \in bad THEN [w EXCEPT !.fence = FALSE]
      ELSE IF Draws(v, draw) /\ "filter" \notin bad /\ w.out.is = "blank"
      THEN [w EXCEPT !.out.is = "readable"] ELSE w

----------------------------------------------------------------------------
(* The UI thread: SurfaceHolder callbacks, one at a time. *)

Post(op, arg, waiter) ==
  Append(events, [op |-> op, arg |-> arg, waiter |-> waiter])

\* A caller that gives up leaves its Runnable behind, with a latch nobody
\* waits for.
Orphan(who) ==
  events' = [i \in DOMAIN events |->
               IF events[i].waiter = who THEN [events[i] EXCEPT !.waiter = "nobody"]
               ELSE events[i]]

\* The callback returns, and the surface and its window are no more.
Destroyed(s) ==
  /\ shown' = shown \ {s} /\ told' = told \ {s}
  /\ size' = [size EXCEPT ![s] = 0]

Spend == spent < MaxCalls /\ spent' = spent + 1

Callback == ui = Null /\ Spend

AttachSurface(s) ==
  /\ Callback /\ s \notin shown
  /\ \E n \in Sizes : size' = [size EXCEPT ![s] = n]
  /\ shown' = shown \cup {s} /\ told' = told \ {s}
  /\ current' = s
  /\ raced' = raced \cup (IF bound = s THEN {"surface"} ELSE {})
  /\ released' = released \ {s} /\ hurried' = hurried \ {s}
  /\ UNCHANGED <<ui, events, shaderVars, bound, loop, view, vk, faults, lost>>

\* The window takes its new size before the callback says so.
Resize(s) ==
  /\ Callback /\ s \in shown
  /\ \E n \in Sizes \ {size[s]} : size' = [size EXCEPT ![s] = n]
  /\ told' = told \ {s}
  /\ UNCHANGED <<shown, current, ui, events, shaderVars, bound, loop, view, vk,
                 faults, raced, released, hurried, lost>>

SurfaceChanged(s) ==
  /\ ui = Null /\ s \in shown \ told
  /\ told' = told \cup {s}
  /\ current' = s
  /\ events' = Post("changed", size[s], "nobody")
  /\ raced' = raced \cup (IF current # s /\ bound = s THEN {"surface"} ELSE {})
  /\ UNCHANGED <<shown, size, ui, shaderVars, bound, loop, view, vk, faults,
                 spent, released, hurried, lost>>

\* Bug: currentSurface is left in place.
DetachKeepsCurrent(s) ==
  /\ Callback /\ s \in shown
  /\ IF current # s
     THEN Destroyed(s) /\ hurried' = hurried \cup {s} /\ UNCHANGED <<ui, events>>
     ELSE /\ events' = Post("gone", s, "ui")
          /\ ui' = s
          /\ UNCHANGED <<shown, told, size, hurried>>
  /\ UNCHANGED <<current, shaderVars, bound, loop, view, vk, faults, raced,
                 released, lost>>

\* The callback of a view whose successor is already current returns at once.
DetachSurface(s) ==
  /\ Callback /\ s \in shown
  /\ IF current # s
     THEN /\ Destroyed(s) /\ hurried' = hurried \cup {s}
          /\ UNCHANGED <<current, ui, events>>
     ELSE /\ current' = Null
          /\ events' = Post("gone", s, "ui")
          /\ ui' = s
          /\ UNCHANGED <<shown, told, size, hurried>>
  /\ UNCHANGED <<shaderVars, bound, loop, view, vk, faults, raced, released,
                 lost>>

\* latch.await(2, SECONDS)
DetachTimesOut ==
  /\ ui # Null
  /\ Destroyed(ui) /\ ui' = Null
  /\ Orphan("ui")
  /\ raced' = raced \cup {"surface"} /\ hurried' = hurried \cup {ui}
  /\ UNCHANGED <<current, shaderVars, bound, loop, view, vk, faults, spent,
                 released, lost>>

----------------------------------------------------------------------------
(* The bridge thread: syncSetShader, one access at a time. *)

BeginSetShader ==
  /\ bridge = "idle" /\ Spend
  /\ wanted' \in Shaders /\ bridge' = "look"
  /\ raced' = raced \ {"shader"}
  /\ UNCHANGED <<uiVars, events, vkBound, pending, bound, loop, view, vk,
                 faults, released, hurried, lost>>

\* Bug: SetShader always goes to the renderer.
NeverStage ==
  /\ bridge = "look"
  /\ bridge' = "post"
  /\ UNCHANGED <<uiVars, events, vkBound, wanted, pending, bound, loop, view,
                 vk, history>>

LookAtBound ==
  /\ bridge = "look"
  /\ bridge' = IF vkBound THEN "post" ELSE "stage"
  /\ UNCHANGED <<uiVars, events, vkBound, wanted, pending, bound, loop, view,
                 vk, history>>

StageShader ==
  /\ bridge = "stage"
  /\ pending' = TRUE /\ bridge' = "idle"
  /\ UNCHANGED <<uiVars, events, vkBound, wanted, bound, loop, view, vk, history>>

PostShader ==
  /\ bridge = "post"
  /\ pending' = FALSE /\ bridge' = "wait"
  /\ events' = Post("shader", wanted, "bridge")
  /\ UNCHANGED <<uiVars, vkBound, wanted, bound, loop, view, vk, history>>

\* latch.await(10, SECONDS)
SetShaderTimesOut ==
  /\ bridge = "wait"
  /\ bridge' = "idle" /\ Orphan("bridge")
  /\ UNCHANGED <<uiVars, vkBound, wanted, pending, bound, loop, view, vk, history>>

----------------------------------------------------------------------------
(* The render thread: drain the queue, follow the surface, apply a staged  *)
(* shader, draw.                                                           *)

At(stage) == loop.at = stage
GoTo(stage) == loop' = [loop EXCEPT !.at = stage]

Strikes(kinds) ==
  {{}} \cup (IF Cardinality(faults) < MaxFaults
             THEN {{k} : k \in (kinds \cap Kinds) \ faults} ELSE {})

Struck(bad) == faults' = faults \cup bad

RunChanged ==
  /\ At("drain") /\ events # <<>> /\ Head(events).op = "changed"
  /\ events' = Tail(events)
  /\ view' = Head(events).arg
  /\ \E bad \in Strikes({"swapchain"}) :
       Struck(bad) /\ vk' = OnResize(vk, view', bad)
  /\ UNCHANGED <<uiVars, shaderVars, bound, loop, spent, raced, released,
                 hurried, lost>>

\* The latch lets the callback return, and the surface is gone.
RunGone ==
  /\ At("drain") /\ events # <<>> /\ Head(events).op = "gone"
  /\ events' = Tail(events)
  /\ vk' = ClearSurface(vk)
  /\ lost' = (lost \/ vk.chain # Null)
  /\ IF Head(events).waiter = "ui"
     THEN Destroyed(ui) /\ released' = released \cup {ui} /\ ui' = Null
     ELSE UNCHANGED <<shown, told, size, released, ui>>
  /\ UNCHANGED <<current, shaderVars, bound, loop, view, faults, spent, raced,
                 hurried>>

RunShader ==
  /\ At("drain") /\ events # <<>> /\ Head(events).op = "shader"
  /\ events' = Tail(events)
  /\ \E bad \in Strikes({"preset"}) :
       Struck(bad) /\ vk' = SetShader(vk, Head(events).arg, bad)
  /\ lost' = FALSE
  /\ bridge' = IF Head(events).waiter = "bridge" THEN "idle" ELSE bridge
  /\ UNCHANGED <<uiVars, vkBound, wanted, pending, bound, loop, view, spent,
                 raced, released, hurried>>

QueueEmpty ==
  /\ At("drain") /\ events = <<>>
  /\ GoTo("look")
  /\ UNCHANGED <<uiVars, events, shaderVars, bound, view, vk, history>>

\* Bug: only a new surface is followed, not the loss of one.
ReadSurfaceIfAny ==
  /\ At("look")
  /\ loop' = IF current \in {bound, Null} THEN [loop EXCEPT !.at = "shader"]
             ELSE [at |-> "bind", want |-> current]
  /\ UNCHANGED <<uiVars, events, shaderVars, bound, view, vk, history>>

ReadSurface ==
  /\ At("look")
  /\ loop' = IF current = bound THEN [loop EXCEPT !.at = "shader"]
             ELSE [at |-> "bind", want |-> current]
  /\ UNCHANGED <<uiVars, events, shaderVars, bound, view, vk, history>>

\* nativeSurfaceCreated: the device comes up with the first surface, and a
\* Surface that was released has no window.
SurfaceCreated(v, s, bad) ==
  LET w == IF v.device \/ "device" \notin bad THEN [v EXCEPT !.device = TRUE] ELSE v
  IN  IF w.device /\ s \in shown THEN SetSurface(w, s, bad) ELSE w

Unbound == IF bound = Null THEN vk ELSE ClearSurface(vk)

Bind ==
  /\ At("bind")
  /\ bound' = loop.want /\ vkBound' = (loop.want # Null)
  /\ lost' = (lost \/ (bound # Null /\ vk.chain # Null))
  /\ \E bad \in Strikes(IF loop.want = Null THEN {}
                        ELSE (IF vk.device THEN {} ELSE {"device"})
                               \cup {"window", "swapchain"}) :
       /\ Struck(bad)
       /\ vk' = IF loop.want = Null THEN Unbound
                ELSE SurfaceCreated(Unbound, loop.want, bad)
  /\ loop' = [at |-> "shader", want |-> Null]
  /\ raced' = IF \E i \in DOMAIN events :
                    events[i].waiter = "nobody" /\ events[i].op = "gone"
              THEN raced ELSE raced \ {"surface"}
  /\ UNCHANGED <<uiVars, events, wanted, pending, bridge, view, spent, released,
                 hurried>>

TakeShader ==
  /\ At("shader")
  /\ IF vkBound /\ pending THEN pending' = FALSE /\ GoTo("apply")
     ELSE pending' = pending /\ GoTo("frame")
  /\ raced' = IF vkBound /\ pending /\ \E i \in DOMAIN events : events[i].op = "shader"
              THEN raced \cup {"shader"} ELSE raced
  /\ UNCHANGED <<uiVars, events, vkBound, wanted, bridge, bound, view, vk,
                 faults, spent, released, hurried, lost>>

ApplyShader ==
  /\ At("apply")
  /\ \E bad \in Strikes({"preset"}) :
       Struck(bad) /\ vk' = SetShader(vk, wanted, bad)
  /\ lost' = FALSE
  /\ GoTo("frame")
  /\ UNCHANGED <<uiVars, events, shaderVars, bound, view, spent, raced,
                 released, hurried>>

\* Nothing bound, paused, or no tick since the last frame.
SkipFrame ==
  /\ At("frame") /\ GoTo("drain")
  /\ UNCHANGED <<uiVars, events, shaderVars, bound, view, vk, history>>

\* present() waits for the fence of this slot, without a limit.
PresentHangs ==
  /\ At("frame") /\ bound # Null /\ vk.extent # 0 /\ ~vk.fence
  /\ GoTo("hung")
  /\ UNCHANGED <<uiVars, events, shaderVars, bound, view, vk, history>>

\* Acquiring finds the swapchain out of date: no frame, and a new one if the
\* window has another size.
PresentOutOfDate ==
  /\ At("frame") /\ bound # Null /\ vk.extent # 0 /\ vk.fence
  /\ \E bad \in Strikes({"swapchain"}) :
       Struck(bad) /\ vk' = OnResize(vk, size[vk.window], bad)
  /\ GoTo("drain")
  /\ UNCHANGED <<uiVars, events, shaderVars, bound, view, spent, raced,
                 released, hurried, lost>>

\* draw: a frame was staged and the source image is there.
Present ==
  /\ At("frame") /\ bound # Null /\ vk.extent # 0 /\ vk.fence
  /\ \E draw, stale \in BOOLEAN :
     \E bad \in Strikes({"submit"} \cup (IF stale THEN {"swapchain"} ELSE {})
                          \cup (IF Draws(vk, draw) THEN {"image", "filter"} ELSE {})) :
     LET v == RecordAndSubmit(vk, draw, bad) IN
       /\ Struck(bad)
       /\ vk' = IF stale /\ v.fence THEN OnResize(v, size[v.window], bad) ELSE v
  /\ GoTo("drain")
  /\ UNCHANGED <<uiVars, events, shaderVars, bound, view, spent, raced,
                 released, hurried, lost>>

RenderThread ==
  \/ RunChanged \/ RunGone \/ RunShader \/ QueueEmpty
  \/ ReadSurface \/ Bind \/ TakeShader \/ ApplyShader
  \/ SkipFrame \/ PresentHangs \/ PresentOutOfDate \/ Present

Next ==
  \/ \E s \in Surfaces : AttachSurface(s) \/ Resize(s) \/ SurfaceChanged(s)
                           \/ DetachSurface(s)
  \/ DetachTimesOut
  \/ BeginSetShader \/ LookAtBound \/ StageShader \/ PostShader
  \/ SetShaderTimesOut
  \/ RenderThread

Spec == Init /\ [][Next]_vars

\* The render loop keeps running, callers go on and wait no longer than their
\* time-outs, and the window system calls surfaceChanged after it created or
\* resized a surface.
FairSpec ==
  /\ Spec
  /\ WF_vars(RenderThread)
  /\ WF_vars(LookAtBound \/ StageShader \/ PostShader)
  /\ WF_vars(DetachTimesOut) /\ WF_vars(SetShaderTimesOut)
  /\ \A s \in Surfaces : WF_vars(SurfaceChanged(s))

----------------------------------------------------------------------------
(* Properties *)

\* A surface whose destroy callback waited for the latch is not the renderer's
\* any more.  One whose callback did not wait, because its successor was
\* current already or the time ran out, breaks the promise of detachSurface
\* ("The Surface is invalid the moment this returns"), but only until the loop
\* next looks: the renderer then holds it as the surface that is bound and no
\* longer current, and no step hands it over anew.
WindowReleased ==
  /\ vk.window \notin released
  /\ vk.window \in hurried => bound = vk.window /\ current # bound

\* Once the loop has followed the surface and drained the queue, the swapchain
\* belongs to the view on screen and, when that view has told its size, has
\* its window's size, and so has the rectangle frames are drawn to; unless
\* the surface came back behind the loop's back or the driver failed.
SurfaceServed ==
  (/\ current # Null /\ bound = current /\ events = <<>>
   /\ loop.at \notin {"look", "bind", "hung"}
   /\ "surface" \notin raced /\ faults \cap {"device", "window", "swapchain"} = {})
  => /\ vk.window = current /\ vk.extent # 0
     /\ current \in told => vk.extent = size[current] /\ view = size[current]

\* Whatever order stagings, queued calls, time-outs and binds come in, the
\* preset drawn with is the last one asked for, unless that one was staged and
\* overtook a call that had timed out; none is drawn with only if none was
\* asked for, it failed to load, or its surface was lost since.
ShaderFollows ==
  (/\ bridge = "idle" /\ ~pending /\ "shader" \notin raced
   /\ loop.at # "apply" /\ \A i \in DOMAIN events : events[i].op # "shader")
  => vk.chain = wanted
     \/ (vk.chain = Null /\ (lost \/ faults \cap {"device", "preset"} # {}))

\* What screenshotPresented would read back, the output image of the filter
\* chain, exists, has memory and is readable, between any two frames; unless
\* the driver failed.
ShotReadable ==
  vk.chain # Null /\ faults \cap {"image", "filter", "submit"} = {}
  => vk.out.is \in {"none", "readable"}

\* When the callers fall silent every call has returned, by its time-out at
\* the latest; and unless the render thread hangs the queue is empty, no
\* staged shader is left and the loop has followed the surface, so that the
\* view on screen has the window unless the driver or a time-out kept it.
ScreenSettles ==
  <>[](/\ ui = Null /\ bridge = "idle"
       /\ "submit" \notin faults
          => /\ events = <<>> /\ (vkBound => ~pending) /\ bound = current
             /\ "surface" \notin raced /\ faults \cap {"device", "window", "swapchain"} = {}
                => vk.window = current)
=============================================================================
