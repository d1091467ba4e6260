---------------------------- MODULE VulkanProofs ----------------------------
(***************************************************************************)
(* Proofs about VulkanSurface, for any surfaces, sizes, presets, bounds    *)
(* and failures.                                                           *)
(*                                                                         *)
(* The argument follows a destroy request: while the UI thread waits for   *)
(* one nothing is current, one nobody waits for is recorded in raced, and  *)
(* so whenever the window was taken from the surface the loop has bound,   *)
(* the loop has a change of surface still to see.  It follows a preset     *)
(* from the call that sets it, through the queue or the stage.             *)
(***************************************************************************)
EXTENDS VulkanSurface, TLAPS

Broken == faults \cap {"device", "window", "swapchain"} # {}
Raced  == "surface" \in raced

GoneAt(i) == i \in DOMAIN events /\ events[i].op = "gone"

\* The destroy requests in the queue, and what they tell of the callers.
RequestsKnown ==
  /\ ui # Null => current = Null
  /\ \A i \in DOMAIN events : events[i].waiter = "ui" => ui # Null
  /\ \A i, j \in DOMAIN events :
       events[i].waiter = "ui" /\ events[j].waiter = "ui" => i = j
  /\ \A i \in DOMAIN events :
       events[i].op = "gone" /\ events[i].waiter = "nobody" => Raced

\* A released surface is nowhere in the render thread.
ReleasedGone ==
  /\ current # Null => current \in shown
  /\ released \cap shown = {} /\ hurried \cap shown = {}
  /\ vk.window \notin released
  /\ At("bind") => loop.want \notin released

\* A window goes with the surface the loop has bound.
WindowBound ==
  /\ vk.window # Null => vk.window = bound
  /\ vk.window = Null => vk.extent = 0 /\ ~vk.surface
  /\ bound # Null /\ vk.window # bound => Broken \/ Raced \/ current # bound

\* The swapchain has the window's size, or will when the queue is drained.
ExtentFollows ==
  /\ \A s \in shown : size[s] \in Sizes
  /\ vk.window \in shown => Broken \/ Raced \/ (vk.surface /\ vk.extent # 0)
  /\ vk.window \in told
     => Broken \/ Raced \/ vk.extent = size[vk.window]
        \/ \E i \in DOMAIN events :
             events[i].op = "changed" /\ events[i].arg = size[vk.window]

\* The size the last surfaceChanged told, once the queue is drained.
WillView(n) ==
  \/ (\A i \in DOMAIN events : events[i].op # "changed") /\ view = n
  \/ \E i \in DOMAIN events :
       /\ events[i].op = "changed" /\ events[i].arg = n
       /\ \A j \in DOMAIN events : j > i => events[j].op # "changed"

ViewFollows == current \in told => WillView(size[current])

SurfaceInv ==
  /\ TypeOK
  /\ RequestsKnown
  /\ ReleasedGone
  /\ WindowBound
  /\ ExtentFollows
  /\ ViewFollows
  /\ ShotReadable

-----------------------------------------------------------------------------
(* The renderer's functions.                                               *)

LEMMA DestroyTypes ==
  ASSUME NEW v \in Renderers
  PROVE  DestroyShaderChain(v) \in Renderers /\ DestroySwapchain(v) \in Renderers
         /\ ClearSurface(v) \in Renderers
BY SurfaceAssumption DEF Renderers, DestroyShaderChain, DestroySwapchain,
   ClearSurface, NoImage, Extents, Shaders

LEMMA CreateTypes ==
  ASSUME TypeOK, NEW v \in Renderers, NEW bad
  PROVE  CreateSwapchain(v, bad) \in Renderers
BY SurfaceAssumption DEF TypeOK, Renderers, CreateSwapchain, Extents, Shaders

LEMMA OnResizeFields ==
  ASSUME TypeOK, NEW v \in Renderers, NEW n, NEW bad
  PROVE  LET w == OnResize(v, n, bad) IN
         /\ w \in Renderers
         /\ w.device = v.device /\ w.window = v.window /\ w.fence = v.fence
         /\ w.surface = v.surface
         /\ w.chain = v.chain /\ w.out = v.out
         /\ ~v.surface => w = v
         /\ v.surface /\ "swapchain" \notin bad /\ v.window \in shown
            => w.extent = size[v.window] \/ (w = v /\ n = v.extent)
<1>1. DestroySwapchain(v) \in Renderers
  BY DestroyTypes
<1>2. OnResize(v, n, bad) \in Renderers
  BY <1>1, CreateTypes DEF OnResize
<1> QED BY <1>1, <1>2 DEF OnResize, CreateSwapchain, DestroySwapchain, Renderers

LEMMA SetShaderFields ==
  ASSUME NEW v \in Renderers, NEW path \in Shaders, NEW bad
  PROVE  LET w == SetShader(v, path, bad) IN
         /\ w \in Renderers
         /\ w.window = v.window /\ w.surface = v.surface /\ w.extent = v.extent
         /\ w = v \/ w.out.is = "none"
<1>1. DestroyShaderChain(v) \in Renderers
  BY DestroyTypes
<1> QED BY <1>1 DEF SetShader, DestroyShaderChain, NoImage, Renderers, Shaders

LEMMA EnsureFields ==
  ASSUME NEW v \in Renderers, NEW n \in Extents, NEW bad
  PROVE  LET w == EnsureShaderOutput(v, n, bad) IN
         /\ w \in Renderers /\ w.window = v.window /\ w.surface = v.surface
         /\ w.extent = v.extent /\ w.chain = v.chain
         /\ w = v \/ ("image" \notin bad => w.out.is # "unbacked")
<1>1. CASE v.out.is # "none" /\ v.out.size = n
  BY <1>1 DEF EnsureShaderOutput
<1>2. CASE ~(v.out.is # "none" /\ v.out.size = n) /\ "image" \in bad
  <2>1. [v.out EXCEPT !.is = "unbacked"]
          \in [size: Extents, is: {"none", "unbacked", "blank", "readable"}]
    BY DEF Renderers
  <2>2. EnsureShaderOutput(v, n, bad) = [v EXCEPT !.out = [v.out EXCEPT !.is = "unbacked"]]
    BY <1>2 DEF EnsureShaderOutput, Renderers
  <2> QED BY <1>2, <2>1, <2>2 DEF Renderers
<1>3. CASE ~(v.out.is # "none" /\ v.out.size = n) /\ "image" \notin bad
  BY <1>3 DEF EnsureShaderOutput, Renderers
<1> QED BY <1>1, <1>2, <1>3

LEMMA RecordFields ==
  ASSUME TypeOK, NEW v \in Renderers, NEW bad, NEW draw \in BOOLEAN
  PROVE  LET w == RecordAndSubmit(v, draw, bad) IN
         /\ w \in Renderers
         /\ w.window = v.window /\ w.surface = v.surface /\ w.extent = v.extent
         /\ w.chain = v.chain
         /\ bad \cap {"image", "filter", "submit"} = {}
            /\ v.out.is \in {"none", "readable"} => w.out.is \in {"none", "readable"}
<1> DEFINE s == IF draw THEN Shaded(v, bad) ELSE v
<1>1. /\ s \in Renderers /\ s.window = v.window /\ s.surface = v.surface
      /\ s.extent = v.extent /\ s.chain = v.chain
      /\ s = v \/ (draw /\ Draws(v, TRUE) /\ ("image" \notin bad => s.out.is # "unbacked"))
  <2>1. CASE ~draw \/ ~Draws(v, TRUE)
    BY <2>1 DEF Shaded
  <2>2. CASE draw /\ Draws(v, TRUE)
    <3> DEFINE e == EnsureShaderOutput(v, view, bad)
    <3>1. s = e
      BY <2>2 DEF Shaded
    <3>2. /\ e \in Renderers /\ e.window = v.window /\ e.surface = v.surface
          /\ e.extent = v.extent /\ e.chain = v.chain
          /\ e = v \/ ("image" \notin bad => e.out.is # "unbacked")
      BY EnsureFields DEF TypeOK
    <3> HIDE DEF s, e
    <3> QED BY <2>2, <3>1, <3>2
  <2> QED BY <2>1, <2>2
<1>2. RecordAndSubmit(v, draw, bad) \in Renderers
  BY <1>1 DEF Renderers, RecordAndSubmit
<1> QED BY <1>1, <1>2 DEF Renderers, RecordAndSubmit, Draws

LEMMA CreatedFields ==
  ASSUME TypeOK, NEW v \in Renderers, NEW s \in Surfaces, NEW bad,
         v.window = Null, v.extent = 0, ~v.surface
  PROVE  LET w == SurfaceCreated(v, s, bad) IN
         /\ w \in Renderers
         /\ w.window \in {Null, s}
         /\ w.window = Null => w.extent = 0 /\ ~w.surface
         /\ w.chain = v.chain /\ w.out = v.out
         /\ s \notin shown => w.window = Null
         /\ s \in shown /\ bad \cap {"device", "window", "swapchain"} = {}
            => w.window = s /\ w.surface /\ w.extent = size[s]
<1> DEFINE d == IF v.device \/ "device" \notin bad THEN [v EXCEPT !.device = TRUE] ELSE v
<1>1. /\ d \in Renderers /\ d.window = Null /\ d.extent = 0 /\ ~d.surface
      /\ d.chain = v.chain /\ d.out = v.out
      /\ "device" \notin bad => d.device
  BY DEF Renderers
<1>2. CASE ~(d.device /\ s \in shown)
  <2>1. SurfaceCreated(v, s, bad) = d
    BY <1>2 DEF SurfaceCreated
  <2> QED BY <1>1, <1>2, <2>1, SurfaceAssumption
<1>3. CASE d.device /\ s \in shown
  <2> DEFINE w1 == [d EXCEPT !.window = s]
             w2 == [w1 EXCEPT !.surface = TRUE]
  <2>1. SurfaceCreated(v, s, bad) = SetSurface(d, s, bad)
    BY <1>3 DEF SurfaceCreated
  <2>2. w1 \in Renderers /\ w1.window = s /\ w1.chain = v.chain /\ w1.out = v.out
    BY <1>1 DEF Renderers
  <2>3. w2 \in Renderers /\ w2.window = s /\ w2.chain = v.chain /\ w2.out = v.out
        /\ w2.surface
    BY <1>1, <2>2 DEF Renderers
  <2>4. CreateSwapchain(w2, bad) \in Renderers
    BY <2>3, CreateTypes
  <2>5. s # Null
    BY SurfaceAssumption
  <2> QED BY <1>3, <2>1, <2>2, <2>3, <2>4, <2>5 DEF SetSurface, CreateSwapchain, Renderers
<1> QED BY <1>2, <1>3

-----------------------------------------------------------------------------
(* The queue.                                                              *)

LEMMA QueueTypes ==
  ASSUME TypeOK
  PROVE  /\ Len(events) \in Nat /\ DOMAIN events = 1 .. Len(events)
         /\ \A i \in DOMAIN events : events[i] \in Runnables
BY DEF TypeOK

LEMMA Heads ==
  ASSUME TypeOK, events # <<>>, events' = Tail(events)
  PROVE  /\ events' \in Seq(Runnables)
         /\ Head(events) \in Runnables /\ Head(events) = events[1]
         /\ 1 \in DOMAIN events /\ DOMAIN events = 1 .. Len(events) /\ Len(events) \in Nat
         /\ DOMAIN events' = 1 .. Len(events) - 1
         /\ \A i \in DOMAIN events' : i + 1 \in DOMAIN events /\ events'[i] = events[i + 1]
BY DEF TypeOK

LEMMA Posts ==
  ASSUME TypeOK, NEW op, NEW arg, NEW waiter,
         [op |-> op, arg |-> arg, waiter |-> waiter] \in Runnables,
         events' = Post(op, arg, waiter)
  PROVE  /\ events' \in Seq(Runnables)
         /\ DOMAIN events = 1 .. Len(events) /\ Len(events) \in Nat
         /\ DOMAIN events' = 1 .. Len(events) + 1
         /\ \A i \in DOMAIN events : i \in DOMAIN events' /\ events'[i] = events[i]
         /\ events'[Len(events) + 1].op = op /\ events'[Len(events) + 1].arg = arg
         /\ events'[Len(events) + 1].waiter = waiter
BY DEF TypeOK, Post

LEMMA Orphans ==
  ASSUME TypeOK, NEW who, Orphan(who)
  PROVE  /\ events' \in Seq(Runnables) /\ DOMAIN events' = DOMAIN events
         /\ \A i \in DOMAIN events :
              /\ events'[i].op = events[i].op /\ events'[i].arg = events[i].arg
              /\ events'[i].waiter = IF events[i].waiter = who THEN "nobody"
                                     ELSE events[i].waiter
<1>1. Len(events) \in Nat /\ DOMAIN events = 1 .. Len(events)
      /\ \A i \in DOMAIN events : events[i] \in Runnables
  BY QueueTypes
<1>2. \A i \in DOMAIN events : [events[i] EXCEPT !.waiter = "nobody"] \in Runnables
  BY <1>1 DEF Runnables
<1>3. events' \in [1 .. Len(events) -> Runnables]
  BY <1>1, <1>2 DEF Orphan
<1>4. \A i \in DOMAIN events :
        events'[i] = IF events[i].waiter = who THEN [events[i] EXCEPT !.waiter = "nobody"]
                     ELSE events[i]
  BY <1>1 DEF Orphan
<1> QED BY <1>1, <1>3, <1>4 DEF Runnables

LEMMA WaiterOps ==
  ASSUME NEW r \in Runnables
  PROVE  /\ r.waiter = "ui" => r.op = "gone"
         /\ r.waiter = "bridge" => r.op = "shader"
         /\ r.op = "changed" => r.arg \in Sizes /\ r.waiter = "nobody"
         /\ r.op = "shader" => r.arg \in Shaders
         /\ r.op = "gone" => r.arg \in Surfaces /\ r.waiter \in {"ui", "nobody"}
         /\ r.op \in {"changed", "gone", "shader"}
BY DEF Runnables

-----------------------------------------------------------------------------
(* The initial states, and steps that touch neither queue nor renderer.    *)

LEMMA InitInv == Init => SurfaceInv
<1> SUFFICES ASSUME Init PROVE SurfaceInv
  OBVIOUS
<1>1. TypeOK
  <2>1. vk \in Renderers
    BY DEF Init, Extents, Shaders, Renderers, NoImage
  <2>2. size \in [Surfaces -> Extents] /\ view \in Extents /\ wanted \in Shaders
    BY DEF Init, Extents, Shaders
  <2>3. events \in Seq(Runnables)
    BY DEF Init
  <2>4. loop \in [at: {"drain", "look", "bind", "shader", "apply", "frame", "hung"},
                  want: Surfaces \cup {Null}]
    BY DEF Init
  <2>5. vkBound \in BOOLEAN /\ pending \in BOOLEAN /\ lost \in BOOLEAN
    BY DEF Init
  <2> QED BY <2>1, <2>2, <2>3, <2>4, <2>5 DEF Init, TypeOK
<1>2. DOMAIN events = {} /\ vk.window = Null /\ Null \notin shown
  BY DEF Init
<1> QED BY <1>1, <1>2 DEF Init, SurfaceInv, RequestsKnown, ReleasedGone, WindowBound,
  ExtentFollows, ViewFollows, ShotReadable, At

LEMMA QuietInv ==
  ASSUME SurfaceInv, TypeOK',
         UNCHANGED <<uiVars, events, bound, view, vk, faults, released, hurried>>,
         Raced => Raced',
         At("bind")' => loop'.want \notin released
  PROVE  SurfaceInv'
BY DEF SurfaceInv, uiVars, RequestsKnown, ReleasedGone, WindowBound, ExtentFollows,
   ViewFollows, WillView, ShotReadable, At, Raced, Broken

LEMMA StutterInv == SurfaceInv /\ UNCHANGED vars => SurfaceInv'
<1> SUFFICES ASSUME SurfaceInv, UNCHANGED vars PROVE SurfaceInv'
  OBVIOUS
<1>1. TypeOK'
  BY DEF SurfaceInv, TypeOK, vars, uiVars, shaderVars, history
<1> QED BY <1>1, QuietInv DEF vars, uiVars, shaderVars, history, SurfaceInv, ReleasedGone, At, Raced

LEMMA QuietActionsInv ==
  ASSUME SurfaceInv,
         BeginSetShader \/ LookAtBound \/ StageShader \/ QueueEmpty \/ ReadSurface
         \/ TakeShader \/ SkipFrame \/ PresentHangs
  PROVE  SurfaceInv'
<1> USE DEF SurfaceInv
<1>1. /\ UNCHANGED <<uiVars, events, bound, view, vk, faults, released, hurried>>
      /\ raced' \in {raced, raced \ {"shader"}, raced \cup {"shader"}}
  BY DEF BeginSetShader, LookAtBound, StageShader, QueueEmpty, ReadSurface,
     TakeShader, SkipFrame, PresentHangs, uiVars, shaderVars, history
<1>2. /\ vkBound' \in BOOLEAN /\ wanted' \in Shaders /\ pending' \in BOOLEAN
      /\ bridge' \in {"idle", "look", "stage", "post", "wait"} /\ lost' = lost
  BY DEF BeginSetShader, LookAtBound, StageShader, QueueEmpty, ReadSurface,
     TakeShader, SkipFrame, PresentHangs, TypeOK, shaderVars, history
<1>2a. loop' \in [at: {"drain", "look", "bind", "shader", "apply", "frame", "hung"},
                  want: Surfaces \cup {Null}]
  BY DEF BeginSetShader, LookAtBound, StageShader, QueueEmpty, ReadSurface,
     TakeShader, SkipFrame, PresentHangs, TypeOK, GoTo
<1>2b. TypeOK'
  BY <1>1, <1>2, <1>2a DEF TypeOK, uiVars
<1>3. current \notin released
  BY SurfaceAssumption DEF TypeOK, ReleasedGone
<1>4. At("bind")' => loop'.want \notin released
  BY <1>3 DEF BeginSetShader, LookAtBound, StageShader, QueueEmpty, ReadSurface,
     TakeShader, SkipFrame, PresentHangs, TypeOK, GoTo, At, ReleasedGone
<1> QED BY <1>1, <1>2b, <1>4, QuietInv DEF Raced

LEMMA PostShaderInv == SurfaceInv /\ PostShader => SurfaceInv'
<1> SUFFICES ASSUME SurfaceInv, PostShader PROVE SurfaceInv'
  OBVIOUS
<1> USE DEF SurfaceInv, PostShader, history
<1>1. [op |-> "shader", arg |-> wanted, waiter |-> "bridge"] \in Runnables
  BY DEF TypeOK, Runnables
<1>2. TypeOK'
  BY <1>1, Posts DEF TypeOK, uiVars
<1>3. RequestsKnown'
  BY <1>1, Posts DEF RequestsKnown, uiVars, Raced
<1>4. ReleasedGone' /\ WindowBound' /\ ShotReadable'
  BY DEF ReleasedGone, WindowBound, ShotReadable, uiVars, Raced, Broken, At
<1>5. ExtentFollows'
  BY <1>1, Posts DEF ExtentFollows, uiVars, Raced, Broken
<1>6. ViewFollows'
  BY <1>1, Posts DEF ViewFollows, WillView, uiVars
<1> QED BY <1>2, <1>3, <1>4, <1>5, <1>6

LEMMA SetShaderTimesOutInv == SurfaceInv /\ SetShaderTimesOut => SurfaceInv'
<1> SUFFICES ASSUME SurfaceInv, SetShaderTimesOut PROVE SurfaceInv'
  OBVIOUS
<1> USE DEF SurfaceInv, SetShaderTimesOut, history
<1>1. TypeOK'
  BY Orphans DEF TypeOK, uiVars
<1>2. Raced => Raced'
  BY DEF Raced
<1>3. RequestsKnown'
  <2>1. \A i \in DOMAIN events : events[i].waiter = "bridge" => events[i].op = "shader"
    BY QueueTypes, WaiterOps
  <2> QED BY <1>2, <2>1, Orphans DEF RequestsKnown, uiVars
<1>4. ReleasedGone' /\ WindowBound' /\ ShotReadable'
  BY <1>2 DEF ReleasedGone, WindowBound, ShotReadable, uiVars, Broken, At
<1>5. ExtentFollows'
  BY <1>2, Orphans DEF ExtentFollows, uiVars, Broken
<1>6. ViewFollows'
  BY Orphans DEF ViewFollows, WillView, uiVars
<1> QED BY <1>1, <1>3, <1>4, <1>5, <1>6

-----------------------------------------------------------------------------
(* The UI thread.                                                          *)

LEMMA AttachInv ==
  ASSUME SurfaceInv, NEW s \in Surfaces, AttachSurface(s)
  PROVE  SurfaceInv'
<1> USE DEF SurfaceInv, AttachSurface
<1>1. PICK n \in Sizes : size' = [size EXCEPT ![s] = n]
  OBVIOUS
<1>2. TypeOK'
  BY <1>1 DEF TypeOK, shaderVars, Extents
<1>3. s # Null /\ s \notin shown /\ ui = Null
  BY SurfaceAssumption DEF Callback
<1>4. RequestsKnown' /\ ReleasedGone' /\ WindowBound' /\ ShotReadable'
  BY <1>3 DEF RequestsKnown, ReleasedGone, WindowBound, ShotReadable, Raced, Broken, At
<1>5. ExtentFollows'
  <2>1. \A r \in shown' : size'[r] \in Sizes
    BY <1>1 DEF ExtentFollows, TypeOK
  <2>2. CASE vk.window = s
    BY <2>1, <2>2, <1>3 DEF ExtentFollows, WindowBound, Raced, Broken
  <2>3. CASE vk.window # s
    <3>1. vk.window \in told => size'[vk.window] = size[vk.window]
      BY <1>1, <2>3 DEF TypeOK
    <3> QED BY <2>1, <2>3, <3>1 DEF ExtentFollows, Raced, Broken
  <2> QED BY <2>2, <2>3
<1>6. ViewFollows'
  BY DEF ViewFollows
<1> QED BY <1>2, <1>4, <1>5, <1>6

LEMMA ResizeInv ==
  ASSUME SurfaceInv, NEW s \in Surfaces, Resize(s)
  PROVE  SurfaceInv'
<1> USE DEF SurfaceInv, Resize
<1>1. PICK n \in Sizes : size' = [size EXCEPT ![s] = n]
  OBVIOUS
<1>2. TypeOK'
  BY <1>1 DEF TypeOK, shaderVars, Extents
<1>3. \A r \in told' : size'[r] = size[r]
  BY <1>1 DEF TypeOK
<1>4. RequestsKnown' /\ ReleasedGone' /\ WindowBound' /\ ShotReadable'
  BY DEF RequestsKnown, ReleasedGone, WindowBound, ShotReadable, Raced, Broken, At
<1>5. ExtentFollows'
  BY <1>1, <1>3 DEF ExtentFollows, Raced, Broken, TypeOK
<1>6. ViewFollows'
  BY <1>3 DEF ViewFollows, WillView
<1> QED BY <1>2, <1>4, <1>5, <1>6

LEMMA ChangedInv ==
  ASSUME SurfaceInv, NEW s \in Surfaces, SurfaceChanged(s)
  PROVE  SurfaceInv'
<1> USE DEF SurfaceInv, SurfaceChanged
<1>1. [op |-> "changed", arg |-> size[s], waiter |-> "nobody"] \in Runnables
  BY DEF ExtentFollows, Runnables
<1>2. TypeOK'
  BY <1>1, Posts DEF TypeOK, shaderVars
<1>3. Raced => Raced'
  BY DEF Raced
<1>4. RequestsKnown'
  BY <1>1, <1>3, Posts DEF RequestsKnown
<1>5. ReleasedGone' /\ ShotReadable'
  BY SurfaceAssumption DEF ReleasedGone, ShotReadable, At
<1>6. WindowBound'
  BY <1>3 DEF WindowBound, Raced, Broken
<1>7. ExtentFollows'
  <2>1. CASE vk.window = s
    BY <1>1, <2>1, <1>3, Posts DEF ExtentFollows, Broken
  <2>2. CASE vk.window # s
    <3>1. vk.window \in told' => vk.window \in told
      BY <2>2
    <3>2. \A n : (\E i \in DOMAIN events : events[i].op = "changed" /\ events[i].arg = n)
            => \E i \in DOMAIN events' : events'[i].op = "changed" /\ events'[i].arg = n
      BY <1>1, Posts
    <3> QED BY <1>3, <3>1, <3>2 DEF ExtentFollows, Broken
  <2> QED BY <2>1, <2>2
<1>8. ViewFollows'
  <2>1. PICK m \in DOMAIN events' :
          /\ events'[m].op = "changed" /\ events'[m].arg = size[s]
          /\ \A j \in DOMAIN events' : j <= m
    BY <1>1, Posts
  <2>2. \A j \in DOMAIN events' : ~(j > m)
    BY <1>1, <2>1, Posts
  <2>3. current' = s /\ size' = size
    OBVIOUS
  <2> HIDE DEF SurfaceChanged, SurfaceInv
  <2> QED BY <2>1, <2>2, <2>3 DEF ViewFollows, WillView
<1> QED BY <1>2, <1>4, <1>5, <1>6, <1>7, <1>8

LEMMA DestroyedFields ==
  ASSUME TypeOK, NEW s \in Surfaces, Destroyed(s)
  PROVE  /\ shown' = shown \ {s} /\ told' = told \ {s}
         /\ size' \in [Surfaces -> Extents]
         /\ \A r \in Surfaces \ {s} : size'[r] = size[r]
BY DEF TypeOK, Destroyed, Extents

LEMMA DetachInv ==
  ASSUME SurfaceInv, NEW s \in Surfaces, DetachSurface(s)
  PROVE  SurfaceInv'
<1> USE DEF SurfaceInv, DetachSurface
<1>1. s # Null /\ Null \notin Surfaces
  BY SurfaceAssumption
<1>2. CASE current # s
  <2> USE <1>2
  <2>1. TypeOK'
    BY DestroyedFields DEF TypeOK, shaderVars
  <2>2. RequestsKnown' /\ ReleasedGone' /\ WindowBound' /\ ShotReadable'
    BY DestroyedFields DEF RequestsKnown, ReleasedGone, WindowBound, ShotReadable,
       Raced, Broken, At
  <2>3. ExtentFollows'
    BY DestroyedFields DEF ExtentFollows, Raced, Broken, TypeOK
  <2>4. ViewFollows'
    BY DestroyedFields DEF ViewFollows, WillView, TypeOK
  <2> QED BY <2>1, <2>2, <2>3, <2>4
<1>3. CASE current = s
  <2> USE <1>3
  <2>1. [op |-> "gone", arg |-> s, waiter |-> "ui"] \in Runnables
    BY DEF Runnables
  <2>2. TypeOK'
    BY <2>1, Posts DEF TypeOK, shaderVars
  <2>3. RequestsKnown'
    BY <1>1, <2>1, Posts DEF RequestsKnown, Callback, Raced
  <2>4. ReleasedGone' /\ WindowBound' /\ ShotReadable'
    BY DEF ReleasedGone, WindowBound, ShotReadable, Raced, Broken, At
  <2>5. ExtentFollows'
    BY <2>1, Posts DEF ExtentFollows, Raced, Broken
  <2>6. ViewFollows'
    BY <1>1 DEF ViewFollows, TypeOK
  <2> QED BY <2>2, <2>3, <2>4, <2>5, <2>6
<1> QED BY <1>2, <1>3

LEMMA DetachTimesOutInv == SurfaceInv /\ DetachTimesOut => SurfaceInv'
<1> SUFFICES ASSUME SurfaceInv, DetachTimesOut PROVE SurfaceInv'
  OBVIOUS
<1> USE DEF SurfaceInv, DetachTimesOut
<1>1. ui \in Surfaces /\ current = Null /\ Raced' /\ Null \notin Surfaces
  BY SurfaceAssumption DEF TypeOK, RequestsKnown, Raced
<1>2. TypeOK'
  BY <1>1, DestroyedFields, Orphans DEF TypeOK, shaderVars
<1>3. RequestsKnown'
  BY <1>1, Orphans DEF RequestsKnown
<1>4. ReleasedGone' /\ WindowBound' /\ ShotReadable'
  BY <1>1, DestroyedFields DEF ReleasedGone, WindowBound, ShotReadable, At
<1>5. ExtentFollows'
  BY <1>1, DestroyedFields DEF ExtentFollows, TypeOK
<1>6. ViewFollows'
  BY <1>1, DestroyedFields DEF ViewFollows, TypeOK
<1> QED BY <1>2, <1>3, <1>4, <1>5, <1>6

-----------------------------------------------------------------------------
(* The render thread.                                                      *)

\* A call that keeps the window: the swapchain is kept or made anew.
LEMMA NativeInv ==
  ASSUME SurfaceInv, TypeOK', RequestsKnown', ShotReadable',
         UNCHANGED <<uiVars, bound, raced, released, hurried>>,
         ~At("bind")',
         NEW bad, faults' = faults \cup bad,
         vk'.window = vk.window, vk'.surface = vk.surface,
         ~vk.surface => vk'.extent = vk.extent,
         vk.surface /\ "swapchain" \notin bad /\ vk.window \in shown
           => vk'.extent = size[vk.window]
              \/ (vk'.extent = vk.extent
                  /\ \A n : (\E i \in DOMAIN events :
                              events[i].op = "changed" /\ events[i].arg = n)
                             => n = vk.extent \/ (\E i \in DOMAIN events' :
                              events'[i].op = "changed" /\ events'[i].arg = n)),
         ViewFollows'
  PROVE  SurfaceInv'
<1> USE DEF SurfaceInv, uiVars
<1>1. ReleasedGone'
  BY DEF ReleasedGone
<1>2. WindowBound'
  BY DEF WindowBound, Broken, Raced
<1>3. ~Broken' => ~Broken /\ "swapchain" \notin bad
  BY DEF Broken
<1>4. ExtentFollows'
  <2>1. \A s \in shown' : size'[s] \in Sizes
    BY DEF ExtentFollows
  <2>2. vk'.window \in shown' => Broken' \/ Raced' \/ (vk'.surface /\ vk'.extent # 0)
    BY <1>3, SurfaceAssumption DEF ExtentFollows, Raced
  <2>3. ASSUME vk.window \in told, ~Broken', ~Raced'
        PROVE  \/ vk'.extent = size[vk.window]
               \/ \E i \in DOMAIN events' :
                    events'[i].op = "changed" /\ events'[i].arg = size[vk.window]
    <3>1. vk.window \in shown /\ vk.surface
      BY <1>3, <2>3 DEF TypeOK, ExtentFollows, Raced
    <3> QED BY <1>3, <2>3, <3>1 DEF ExtentFollows, Raced
  <2> QED BY <2>1, <2>2, <2>3 DEF ExtentFollows
<1> QED BY <1>1, <1>2, <1>4

LEMMA ApplyShaderInv == SurfaceInv /\ ApplyShader => SurfaceInv'
<1> SUFFICES ASSUME SurfaceInv, ApplyShader PROVE SurfaceInv'
  OBVIOUS
<1> USE DEF SurfaceInv, ApplyShader, GoTo
<1>1. PICK bad \in Strikes({"preset"}) : Struck(bad) /\ vk' = SetShader(vk, wanted, bad)
  OBVIOUS
<1>2. /\ vk' \in Renderers
      /\ vk'.window = vk.window /\ vk'.surface = vk.surface /\ vk'.extent = vk.extent
      /\ vk' = vk \/ vk'.out.is = "none"
  BY <1>1, SetShaderFields DEF TypeOK
<1>3. faults' = faults \cup bad /\ faults' \subseteq Kinds
  BY <1>1 DEF Strikes, Struck, TypeOK
<1>4. TypeOK'
  BY <1>2, <1>3 DEF TypeOK, uiVars, shaderVars
<1>5. RequestsKnown' /\ ViewFollows' /\ ShotReadable' /\ ~At("bind")'
  BY <1>2, <1>3 DEF RequestsKnown, ViewFollows, WillView, ShotReadable, At, Raced, uiVars, TypeOK
<1> QED BY <1>2, <1>3, <1>4, <1>5, NativeInv

LEMMA PresentOutOfDateInv == SurfaceInv /\ PresentOutOfDate => SurfaceInv'
<1> SUFFICES ASSUME SurfaceInv, PresentOutOfDate PROVE SurfaceInv'
  OBVIOUS
<1> USE DEF SurfaceInv, PresentOutOfDate, GoTo
<1>1. PICK bad \in Strikes({"swapchain"}) :
        Struck(bad) /\ vk' = OnResize(vk, size[vk.window], bad)
  OBVIOUS
<1>2. faults' = faults \cup bad /\ faults' \subseteq Kinds
  BY <1>1 DEF Strikes, Struck, TypeOK
<1>3. vk \in Renderers
  BY DEF TypeOK
<1>4. /\ vk' \in Renderers
      /\ vk'.window = vk.window /\ vk'.surface = vk.surface
      /\ vk'.chain = vk.chain /\ vk'.out = vk.out
      /\ ~vk.surface => vk' = vk
      /\ vk.surface /\ "swapchain" \notin bad /\ vk.window \in shown
         => vk'.extent = size[vk.window]
  BY <1>1, <1>3, OnResizeFields
<1>5. TypeOK'
  BY <1>2, <1>4 DEF TypeOK, uiVars, shaderVars
<1>6. RequestsKnown' /\ ViewFollows' /\ ShotReadable' /\ ~At("bind")'
  BY <1>2, <1>4 DEF RequestsKnown, ViewFollows, WillView, ShotReadable, At, Raced, uiVars, TypeOK
<1> QED BY <1>2, <1>4, <1>5, <1>6, NativeInv

LEMMA PresentInv == SurfaceInv /\ Present => SurfaceInv'
<1> SUFFICES ASSUME SurfaceInv, Present PROVE SurfaceInv'
  OBVIOUS
<1> USE DEF SurfaceInv, Present, GoTo
<1>1. PICK draw \in BOOLEAN, stale \in BOOLEAN :
      \E bad \in Strikes({"submit"} \cup (IF stale THEN {"swapchain"} ELSE {})
                     \cup (IF Draws(vk, draw) THEN {"image", "filter"} ELSE {})) :
        LET v == RecordAndSubmit(vk, draw, bad) IN
        Struck(bad) /\ vk' = IF stale /\ v.fence THEN OnResize(v, size[v.window], bad) ELSE v
  OBVIOUS
<1>2. PICK bad \in Strikes({"submit"} \cup (IF stale THEN {"swapchain"} ELSE {})
                     \cup (IF Draws(vk, draw) THEN {"image", "filter"} ELSE {})) :
        LET v == RecordAndSubmit(vk, draw, bad) IN
        Struck(bad) /\ vk' = IF stale /\ v.fence THEN OnResize(v, size[v.window], bad) ELSE v
  BY <1>1
<1> DEFINE v == RecordAndSubmit(vk, draw, bad)
<1>3. faults' = faults \cup bad /\ faults' \subseteq Kinds
  BY <1>2 DEF Strikes, Struck, TypeOK
<1>4. /\ v \in Renderers
      /\ v.window = vk.window /\ v.surface = vk.surface /\ v.extent = vk.extent
      /\ v.chain = vk.chain
      /\ bad \cap {"image", "filter", "submit"} = {}
         /\ vk.out.is \in {"none", "readable"} => v.out.is \in {"none", "readable"}
  BY RecordFields DEF TypeOK
<1>5. vk' = v \/ vk' = OnResize(v, size[v.window], bad)
  BY <1>2
<1> HIDE DEF v
<1>6. /\ vk' \in Renderers
      /\ vk'.window = vk.window /\ vk'.surface = vk.surface
      /\ vk'.chain = vk.chain /\ vk'.out = v.out
      /\ ~vk.surface => vk'.extent = vk.extent
      /\ vk.surface /\ "swapchain" \notin bad /\ vk.window \in shown
         => vk'.extent = size[vk.window] \/ vk'.extent = vk.extent
  BY <1>4, <1>5, OnResizeFields
<1>7. TypeOK'
  BY <1>3, <1>6 DEF TypeOK, uiVars, shaderVars
<1>8. RequestsKnown' /\ ViewFollows' /\ ~At("bind")'
  BY DEF RequestsKnown, ViewFollows, WillView, At, Raced, uiVars, TypeOK
<1>9. ShotReadable'
  BY <1>3, <1>4, <1>6 DEF ShotReadable
<1> QED BY <1>3, <1>6, <1>7, <1>8, <1>9, NativeInv

\* A request leaves the queue.
LEMMA PoppedRequests ==
  ASSUME SurfaceInv, events # <<>>, events' = Tail(events),
         UNCHANGED <<current, raced>>,
         (Head(events).waiter # "ui" /\ ui' = ui) \/ (current = Null /\ Head(events).waiter = "ui")
  PROVE  RequestsKnown'
<1> USE DEF SurfaceInv
<1>1. CASE Head(events).waiter # "ui" /\ ui' = ui
  BY <1>1, Heads DEF RequestsKnown, Raced
<1>2. CASE current = Null /\ Head(events).waiter = "ui"
  <2>1. \A i \in DOMAIN events' : events'[i].waiter # "ui"
    BY <1>2, Heads DEF RequestsKnown
  <2> QED BY <1>2, <2>1, Heads DEF RequestsKnown, Raced
<1> QED BY <1>1, <1>2

LEMMA PoppedView ==
  ASSUME SurfaceInv, events # <<>>, events' = Tail(events), NEW n, WillView(n),
         view' = IF Head(events).op = "changed" THEN Head(events).arg ELSE view
  PROVE  WillView(n)'
<1> USE DEF SurfaceInv, WillView
<1>1. CASE Head(events).op # "changed"
  <2>1. CASE \A i \in DOMAIN events : events[i].op # "changed"
    BY <1>1, <2>1, Heads
  <2>2. CASE \E i \in DOMAIN events : events[i].op = "changed"
    <3>1. PICK i \in DOMAIN events :
            /\ events[i].op = "changed" /\ events[i].arg = n
            /\ \A j \in DOMAIN events : j > i => events[j].op # "changed"
      BY <2>2
    <3>2. i # 1 /\ i - 1 \in DOMAIN events' /\ events'[i - 1] = events[i]
      BY <1>1, <3>1, Heads
    <3>3. \A j \in DOMAIN events' : j > i - 1 => events'[j].op # "changed"
      BY <3>1, Heads
    <3> QED BY <3>1, <3>2, <3>3
  <2> QED BY <2>1, <2>2
<1>2. CASE Head(events).op = "changed"
  <2>1. PICK i \in DOMAIN events :
          /\ events[i].op = "changed" /\ events[i].arg = n
          /\ \A j \in DOMAIN events : j > i => events[j].op # "changed"
    BY <1>2, Heads
  <2>2. CASE i = 1
    <3>1. \A j \in DOMAIN events' : events'[j].op # "changed"
      BY <2>1, <2>2, Heads
    <3> QED BY <1>2, <2>1, <2>2, <3>1, Heads
  <2>3. CASE i # 1
    <3>1. i - 1 \in DOMAIN events' /\ events'[i - 1] = events[i]
      BY <2>1, <2>3, Heads
    <3>2. \A j \in DOMAIN events' : j > i - 1 => events'[j].op # "changed"
      BY <2>1, Heads
    <3> QED BY <2>1, <3>1, <3>2
  <2> QED BY <2>2, <2>3
<1> QED BY <1>1, <1>2

LEMMA RunChangedInv == SurfaceInv /\ RunChanged => SurfaceInv'
<1> SUFFICES ASSUME SurfaceInv, RunChanged PROVE SurfaceInv'
  OBVIOUS
<1> USE DEF SurfaceInv, RunChanged
<1>1. PICK bad \in Strikes({"swapchain"}) :
        Struck(bad) /\ vk' = OnResize(vk, view', bad)
  OBVIOUS
<1>2. faults' = faults \cup bad /\ faults' \subseteq Kinds
  BY <1>1 DEF Strikes, Struck, TypeOK
<1>3. vk \in Renderers /\ Head(events).arg \in Sizes /\ Head(events).waiter # "ui"
  BY Heads, WaiterOps DEF TypeOK
<1>4. /\ vk' \in Renderers
      /\ vk'.window = vk.window /\ vk'.surface = vk.surface
      /\ vk'.chain = vk.chain /\ vk'.out = vk.out
      /\ ~vk.surface => vk' = vk
      /\ vk.surface /\ "swapchain" \notin bad /\ vk.window \in shown
         => vk'.extent = size[vk.window]
            \/ (vk'.extent = vk.extent /\ Head(events).arg = vk.extent)
  BY <1>1, <1>3, OnResizeFields
<1>5. TypeOK'
  BY <1>2, <1>3, <1>4, Heads DEF TypeOK, uiVars, shaderVars, Extents
<1>6. RequestsKnown'
  BY <1>3, PoppedRequests DEF uiVars
<1>7. ViewFollows'
  BY PoppedView DEF ViewFollows, uiVars
<1>8. ShotReadable' /\ ~At("bind")'
  BY <1>2, <1>4 DEF ShotReadable, At
<1>9. \A n : (\E i \in DOMAIN events : events[i].op = "changed" /\ events[i].arg = n)
        => n = Head(events).arg
           \/ \E i \in DOMAIN events' : events'[i].op = "changed" /\ events'[i].arg = n
  <2> SUFFICES ASSUME NEW n, NEW i \in DOMAIN events,
                      events[i].op = "changed", events[i].arg = n, n # Head(events).arg
               PROVE  \E j \in DOMAIN events' : events'[j].op = "changed" /\ events'[j].arg = n
    OBVIOUS
  <2>1. i # 1 /\ i - 1 \in DOMAIN events' /\ events'[i - 1] = events[i]
    BY Heads
  <2> QED BY <2>1
<1> QED BY <1>2, <1>4, <1>5, <1>6, <1>7, <1>8, <1>9, NativeInv

LEMMA RunShaderInv == SurfaceInv /\ RunShader => SurfaceInv'
<1> SUFFICES ASSUME SurfaceInv, RunShader PROVE SurfaceInv'
  OBVIOUS
<1> USE DEF SurfaceInv, RunShader
<1>1. PICK bad \in Strikes({"preset"}) :
        Struck(bad) /\ vk' = SetShader(vk, Head(events).arg, bad)
  OBVIOUS
<1>2. faults' = faults \cup bad /\ faults' \subseteq Kinds
  BY <1>1 DEF Strikes, Struck, TypeOK
<1>3. vk \in Renderers /\ Head(events).arg \in Shaders /\ Head(events).waiter # "ui"
  BY Heads, WaiterOps DEF TypeOK
<1>4. /\ vk' \in Renderers
      /\ vk'.window = vk.window /\ vk'.surface = vk.surface /\ vk'.extent = vk.extent
      /\ vk' = vk \/ vk'.out.is = "none"
  BY <1>1, <1>3, SetShaderFields
<1>5. TypeOK'
  BY <1>2, <1>4, Heads DEF TypeOK, uiVars
<1>6. RequestsKnown'
  BY <1>3, PoppedRequests DEF uiVars
<1>7. ViewFollows'
  BY PoppedView DEF ViewFollows, uiVars
<1>8. ShotReadable' /\ ~At("bind")'
  BY <1>2, <1>4 DEF ShotReadable, At
<1>9. \A n : (\E i \in DOMAIN events : events[i].op = "changed" /\ events[i].arg = n)
        => \E i \in DOMAIN events' : events'[i].op = "changed" /\ events'[i].arg = n
  <2> SUFFICES ASSUME NEW n, NEW i \in DOMAIN events,
                      events[i].op = "changed", events[i].arg = n
               PROVE  \E j \in DOMAIN events' : events'[j].op = "changed" /\ events'[j].arg = n
    OBVIOUS
  <2>1. i # 1 /\ i - 1 \in DOMAIN events' /\ events'[i - 1] = events[i]
    BY Heads
  <2> QED BY <2>1
<1> QED BY <1>2, <1>4, <1>5, <1>6, <1>7, <1>8, <1>9, NativeInv

LEMMA ClearFields ==
  ASSUME NEW v \in Renderers
  PROVE  LET w == ClearSurface(v) IN
         /\ w \in Renderers /\ w.window = Null /\ w.extent = 0 /\ ~w.surface
         /\ w.chain = Null /\ w.out = NoImage
<1>1. DestroySwapchain(DestroyShaderChain(v)) \in Renderers /\ ClearSurface(v) \in Renderers
  BY DestroyTypes
<1> QED BY <1>1 DEF ClearSurface, DestroySwapchain, DestroyShaderChain, Renderers

LEMMA RunGoneInv == SurfaceInv /\ RunGone => SurfaceInv'
<1> SUFFICES ASSUME SurfaceInv, RunGone PROVE SurfaceInv'
  OBVIOUS
<1> USE DEF SurfaceInv, RunGone
<1>1. /\ vk' \in Renderers /\ vk'.window = Null /\ vk'.extent = 0 /\ ~vk'.surface
      /\ vk'.chain = Null /\ Null \notin Surfaces
  BY ClearFields, SurfaceAssumption DEF TypeOK
<1>2. ShotReadable' /\ ~At("bind")'
  BY <1>1 DEF ShotReadable, At
<1>3. CASE Head(events).waiter = "ui"
  <2> USE <1>3
  <2>1. ui \in Surfaces /\ current = Null
    BY Heads DEF RequestsKnown, TypeOK
  <2>2. TypeOK'
    BY <1>1, <2>1, Heads, DestroyedFields DEF TypeOK, shaderVars
  <2>3. RequestsKnown'
    BY <2>1, PoppedRequests
  <2>4. ReleasedGone' /\ WindowBound'
    BY <1>1, <1>2, <2>1, <2>2, DestroyedFields DEF ReleasedGone, WindowBound, TypeOK
  <2>5. ExtentFollows'
    BY <1>1, <2>1, <2>2, DestroyedFields DEF ExtentFollows, TypeOK
  <2>6. ViewFollows'
    BY <1>1, <2>1, <2>2 DEF ViewFollows, TypeOK
  <2> QED BY <1>2, <2>2, <2>3, <2>4, <2>5, <2>6
<1>4. CASE Head(events).waiter # "ui"
  <2> USE <1>4
  <2>1. Raced
    BY Heads, WaiterOps DEF RequestsKnown
  <2>2. TypeOK'
    BY <1>1, Heads DEF TypeOK, shaderVars
  <2>3. RequestsKnown'
    BY PoppedRequests
  <2>4. ReleasedGone' /\ WindowBound'
    BY <1>1, <1>2, <2>1 DEF ReleasedGone, WindowBound, TypeOK, Raced
  <2>5. ExtentFollows'
    BY <1>1, <2>2 DEF ExtentFollows, TypeOK
  <2>6. ViewFollows'
    BY PoppedView DEF ViewFollows
  <2> QED BY <1>2, <2>2, <2>3, <2>4, <2>5, <2>6
<1> QED BY <1>3, <1>4

LEMMA BindInv == SurfaceInv /\ Bind => SurfaceInv'
<1> SUFFICES ASSUME SurfaceInv, Bind PROVE SurfaceInv'
  OBVIOUS
<1> USE DEF SurfaceInv, Bind
<1>1. PICK bad \in Strikes(IF loop.want = Null THEN {}
                        ELSE (IF vk.device THEN {} ELSE {"device"})
                               \cup {"window", "swapchain"}) :
        Struck(bad) /\ vk' = IF loop.want = Null THEN Unbound
                             ELSE SurfaceCreated(Unbound, loop.want, bad)
  OBVIOUS
<1>2. faults' = faults \cup bad /\ faults' \subseteq Kinds
  BY <1>1 DEF Strikes, Struck, TypeOK
<1>3. /\ Unbound \in Renderers /\ Unbound.window = Null /\ Unbound.extent = 0
      /\ ~Unbound.surface /\ (Unbound = vk \/ Unbound.out.is = "none")
  BY ClearFields DEF Unbound, TypeOK, WindowBound, NoImage
<1>4. /\ vk' \in Renderers /\ vk'.window \in {Null, loop.want}
      /\ vk'.window = Null => vk'.extent = 0 /\ ~vk'.surface
      /\ vk'.chain = Unbound.chain /\ vk'.out = Unbound.out
      /\ loop.want \notin shown => vk'.window = Null
      /\ loop.want \in shown /\ bad \cap {"device", "window", "swapchain"} = {}
         => vk'.window = loop.want /\ vk'.surface /\ vk'.extent = size[loop.want]
  <2>1. CASE loop.want = Null
    BY <1>1, <1>3, <2>1, SurfaceAssumption DEF TypeOK
  <2>2. CASE loop.want # Null
    <3>1. loop.want \in Surfaces
      BY <2>2 DEF TypeOK
    <3> HIDE DEF Unbound
    <3> QED BY <1>1, <1>3, <2>2, <3>1, CreatedFields
  <2> QED BY <2>1, <2>2
<1>5. TypeOK'
  <2>1. vkBound' \in BOOLEAN /\ lost' \in BOOLEAN
    OBVIOUS
  <2>2. bound' \in Surfaces \cup {Null} /\ raced' \subseteq {"surface", "shader"}
    BY DEF TypeOK
  <2>3. loop' \in [at: {"drain", "look", "bind", "shader", "apply", "frame", "hung"},
                   want: Surfaces \cup {Null}]
    OBVIOUS
  <2> QED BY <1>2, <1>4, <2>1, <2>2, <2>3 DEF TypeOK, uiVars
<1>6. ~At("bind")' /\ ShotReadable'
  BY <1>2, <1>3, <1>4 DEF At, ShotReadable
<1>7. RequestsKnown'
  BY DEF RequestsKnown, Raced, uiVars
<1>8. ReleasedGone'
  BY <1>4, <1>6, SurfaceAssumption DEF ReleasedGone, uiVars, TypeOK
<1>9. WindowBound'
  BY <1>2, <1>4 DEF WindowBound, ReleasedGone, Broken, uiVars
<1>10. ExtentFollows'
  BY <1>2, <1>4, SurfaceAssumption DEF ExtentFollows, Broken, uiVars, TypeOK
<1>11. ViewFollows'
  BY DEF ViewFollows, WillView, uiVars
<1> QED BY <1>5, <1>6, <1>7, <1>8, <1>9, <1>10, <1>11

-----------------------------------------------------------------------------
(* The theorems.                                                           *)

LEMMA NextInv == SurfaceInv /\ [Next]_vars => SurfaceInv'
BY StutterInv, QuietActionsInv, PostShaderInv, SetShaderTimesOutInv, AttachInv,
   ResizeInv, ChangedInv, DetachInv, DetachTimesOutInv, ApplyShaderInv,
   PresentOutOfDateInv, PresentInv, RunChangedInv, RunShaderInv, RunGoneInv, BindInv
DEF Next, RenderThread

\* The inductive invariant holds in every reachable state.
THEOREM SurfaceInvariant == Spec => []SurfaceInv
BY InitInv, NextInv, PTL DEF Spec

\* Every variable keeps its type.
THEOREM TypeCorrect == Spec => []TypeOK
BY SurfaceInvariant, PTL DEF SurfaceInv

\* A surface whose destroy callback waited is out of the renderer's hands; one
\* whose callback did not is the bound surface the loop is about to give up.
THEOREM WindowIsReleased == Spec => []WindowReleased
<1>1. SurfaceInv => WindowReleased
  <2> SUFFICES ASSUME SurfaceInv, vk.window \in hurried
               PROVE  bound = vk.window /\ current # bound
    BY DEF SurfaceInv, ReleasedGone, WindowReleased
  <2> USE DEF SurfaceInv
  <2>1. vk.window # Null /\ vk.window \notin shown
    BY SurfaceAssumption DEF TypeOK, ReleasedGone
  <2> QED BY <2>1 DEF WindowBound, ReleasedGone
<1> QED BY <1>1, SurfaceInvariant, PTL

\* The view on screen gets a swapchain of its own, of its size.
THEOREM SurfaceIsServed == Spec => []SurfaceServed
<1>1. SurfaceInv => SurfaceServed
  <2> SUFFICES ASSUME SurfaceInv, current # Null, bound = current, events = <<>>,
                      "surface" \notin raced, faults \cap {"device", "window", "swapchain"} = {}
               PROVE  /\ vk.window = current /\ vk.extent # 0
                      /\ current \in told => vk.extent = size[current] /\ view = size[current]
    BY DEF SurfaceServed
  <2> USE DEF SurfaceInv
  <2>1. ~Broken /\ ~Raced /\ DOMAIN events = {}
    BY DEF Broken, Raced
  <2>2. vk.window = current
    BY <2>1 DEF WindowBound
  <2>3. vk.extent # 0
    BY <2>1, <2>2 DEF ReleasedGone, ExtentFollows
  <2>4. current \in told => vk.extent = size[current]
    BY <2>1, <2>2 DEF ExtentFollows
  <2>5. current \in told => view = size[current]
    BY <2>1 DEF ViewFollows, WillView
  <2> QED BY <2>2, <2>3, <2>4, <2>5
<1> QED BY <1>1, SurfaceInvariant, PTL

\* A screenshot reads an image that was drawn.
THEOREM ShotsAreReadable == Spec => []ShotReadable
BY SurfaceInvariant, PTL DEF SurfaceInv
-----------------------------------------------------------------------------
(* The preset.  A call that is over was staged, or its Runnable is the     *)
(* last of its kind in the queue, or it took effect; what may go wrong is  *)
(* that a Runnable of an earlier call is still queued when a staged preset *)
(* is taken, which raced records.                                          *)

Failed     == faults \cap {"device", "preset"} # {}
Shows(p)   == vk.chain = p \/ (vk.chain = Null /\ (lost \/ Failed))
DeviceUp   == vk.device \/ "device" \in faults
Overtaken  == "shader" \in raced

NoneQueued == \A i \in DOMAIN events : events[i].op # "shader"

\* The i-th Runnable is the last that sets a shader.
LastShader(i) ==
  /\ i \in DOMAIN events /\ events[i].op = "shader"
  /\ \A j \in DOMAIN events : j > i => events[j].op # "shader"

LastAsked == \E i \in DOMAIN events : LastShader(i) /\ events[i].arg = wanted
Awaited   == \E i \in DOMAIN events :
               LastShader(i) /\ events[i].arg = wanted /\ events[i].waiter = "bridge"
OneWaiter == \A i \in DOMAIN events : events[i].waiter = "bridge" => LastShader(i)
NoWaiter  == \A i \in DOMAIN events : events[i].waiter # "bridge"

ShaderInv ==
  /\ vkBound \/ At("apply") \/ bridge = "post" \/ ~NoneQueued => DeviceUp
  /\ ~vk.device => vk.chain = Null
  /\ OneWaiter
  /\ bridge # "wait" => NoWaiter
  /\ bridge = "wait" => Awaited
  /\ bridge = "idle" =>
       Overtaken \/ pending \/ LastAsked
       \/ (NoneQueued /\ (At("apply") \/ Shows(wanted)))

LEMMA ShaderInit == Init => ShaderInv
BY DEF Init, ShaderInv, At, NoneQueued, OneWaiter, NoWaiter, Shows

\* The Runnables that set a shader stay what they are.
ShadersQueued ==
  /\ NoneQueued' <=> NoneQueued
  /\ LastAsked => LastAsked'
  /\ Awaited => Awaited'
  /\ OneWaiter => OneWaiter'
  /\ NoWaiter => NoWaiter'

LEMMA SameQueue ==
  ASSUME UNCHANGED <<events, wanted>> PROVE ShadersQueued
BY DEF ShadersQueued, NoneQueued, LastAsked, Awaited, OneWaiter, NoWaiter, LastShader

LEMMA OtherPosted ==
  ASSUME TypeOK, UNCHANGED wanted, NEW op \in {"changed", "gone"}, NEW arg,
         NEW waiter \in {"nobody", "ui"},
         [op |-> op, arg |-> arg, waiter |-> waiter] \in Runnables,
         events' = Post(op, arg, waiter)
  PROVE  ShadersQueued
<1> PICK n \in Nat : n = Len(events)
  BY QueueTypes
<1>1. /\ DOMAIN events = 1 .. n /\ DOMAIN events' = 1 .. n + 1
      /\ \A i \in DOMAIN events : events'[i] = events[i]
      /\ events'[n + 1].op # "shader" /\ events'[n + 1].waiter # "bridge"
  BY Posts
<1>2. NoneQueued' <=> NoneQueued
  BY <1>1 DEF NoneQueued
<1>3. \A i \in DOMAIN events : LastShader(i)' <=> LastShader(i)
  BY <1>1 DEF LastShader
<1>4. ~LastShader(n + 1)'
  BY <1>1 DEF LastShader
<1> QED BY <1>1, <1>2, <1>3, <1>4
        DEF ShadersQueued, LastAsked, Awaited, OneWaiter, NoWaiter

\* Other callers that give up change nothing here.
LEMMA OtherOrphans ==
  ASSUME TypeOK, UNCHANGED wanted, Orphan("ui") PROVE ShadersQueued
<1>1. /\ DOMAIN events' = DOMAIN events
      /\ \A i \in DOMAIN events :
           /\ events'[i].op = events[i].op /\ events'[i].arg = events[i].arg
           /\ events'[i].waiter = "bridge" <=> events[i].waiter = "bridge"
  BY Orphans
<1>2. NoneQueued' <=> NoneQueued
  BY <1>1 DEF NoneQueued
<1>3. \A i \in DOMAIN events : LastShader(i)' <=> LastShader(i)
  BY <1>1 DEF LastShader
<1> QED BY <1>1, <1>2, <1>3
        DEF ShadersQueued, LastAsked, Awaited, OneWaiter, NoWaiter

\* A Runnable leaves the queue: what comes later moves up.
LEMMA Popped ==
  ASSUME TypeOK, UNCHANGED wanted, events # <<>>, events' = Tail(events)
  PROVE  /\ \A i \in DOMAIN events : i # 1 =>
              i - 1 \in DOMAIN events' /\ (LastShader(i) => LastShader(i - 1)')
         /\ OneWaiter => OneWaiter'
         /\ NoWaiter => NoWaiter'
         /\ NoneQueued => NoneQueued'
         /\ LastShader(1) => NoneQueued'
         /\ Head(events).op # "shader" => ShadersQueued
<1>1. /\ DOMAIN events = 1 .. Len(events) /\ Len(events) \in Nat
      /\ DOMAIN events' = 1 .. Len(events) - 1
      /\ \A i \in DOMAIN events' : i + 1 \in DOMAIN events /\ events'[i] = events[i + 1]
      /\ Head(events) = events[1]
  BY Heads
<1>2. \A i \in DOMAIN events : i # 1 => i - 1 \in DOMAIN events' /\ events'[i - 1] = events[i]
  BY <1>1
<1>3. ASSUME NEW i \in DOMAIN events, i # 1, LastShader(i) PROVE LastShader(i - 1)'
  BY <1>1, <1>2, <1>3 DEF LastShader
<1>4. NoneQueued => NoneQueued'
  BY <1>1 DEF NoneQueued
<1>5. LastShader(1) => NoneQueued'
  BY <1>1 DEF LastShader, NoneQueued
<1>6. ASSUME OneWaiter, NEW i \in DOMAIN events', events'[i].waiter = "bridge"
      PROVE  LastShader(i)'
  <2>1. i + 1 \in DOMAIN events /\ i + 1 # 1 /\ LastShader(i + 1)
    BY <1>1, <1>6 DEF OneWaiter
  <2>2. LastShader((i + 1) - 1)'
    BY <1>3, <2>1
  <2>3. (i + 1) - 1 = i
    BY <1>1
  <2> QED BY <2>2, <2>3
<1>7. NoWaiter => NoWaiter'
  BY <1>1 DEF NoWaiter
<1>8. ASSUME Head(events).op # "shader" PROVE ShadersQueued
  <2>1. \A i \in DOMAIN events : LastShader(i) => i # 1
    BY <1>1, <1>8 DEF LastShader
  <2>2. LastAsked => LastAsked'
    BY <1>2, <1>3, <2>1 DEF LastAsked
  <2>3. Awaited => Awaited'
    BY <1>2, <1>3, <2>1 DEF Awaited
  <2>4. NoneQueued' => NoneQueued
    BY <1>1, <1>2, <1>8 DEF NoneQueued
  <2>5. OneWaiter => OneWaiter'
    BY <1>6 DEF OneWaiter
  <2> QED BY <1>4, <1>7, <2>2, <2>3, <2>4, <2>5 DEF ShadersQueued
<1>9. OneWaiter => OneWaiter'
  BY <1>6 DEF OneWaiter
<1> QED BY <1>2, <1>3, <1>4, <1>5, <1>7, <1>8, <1>9

\* Steps that neither set a shader nor bind.
LEMMA ShaderKept ==
  ASSUME ShaderInv, ShadersQueued, UNCHANGED shaderVars,
         At("apply")' <=> At("apply"), Overtaken => Overtaken',
         faults \subseteq faults',
         vk.device => vk'.device, ~vk'.device => vk'.chain = Null,
         Shows(wanted) => Shows(wanted)'
  PROVE  ShaderInv'
BY DEF ShaderInv, ShadersQueued, shaderVars, DeviceUp

-----------------------------------------------------------------------------
(* What each step does to the preset.                                      *)

LEMMA ShaderTypes ==
  ASSUME TypeOK
  PROVE  /\ vkBound \in BOOLEAN /\ pending \in BOOLEAN /\ lost \in BOOLEAN
         /\ wanted \in Shaders /\ vk \in Renderers /\ vk.device \in BOOLEAN
BY DEF TypeOK, Renderers

LEMMA StrikesAdd ==
  ASSUME NEW kinds, NEW bad \in Strikes(kinds), Struck(bad)
  PROVE  faults' = faults \cup bad /\ bad \subseteq kinds
BY DEF Strikes, Struck

LEMMA KeptActions ==
  ASSUME SurfaceInv, ShaderInv,
         \/ UNCHANGED vars
         \/ \E s \in Surfaces : AttachSurface(s) \/ Resize(s)
         \/ QueueEmpty \/ ReadSurface \/ SkipFrame \/ PresentHangs
  PROVE  ShaderInv'
<1>1. /\ UNCHANGED <<events, shaderVars, vk, faults, lost>>
      /\ Overtaken => Overtaken'
  BY DEF vars, uiVars, history, shaderVars, AttachSurface, Resize, QueueEmpty,
     ReadSurface, SkipFrame, PresentHangs, Overtaken
<1>2. At("apply")' <=> At("apply")
  BY DEF vars, AttachSurface, Resize, QueueEmpty, ReadSurface, SkipFrame,
     PresentHangs, At, GoTo, SurfaceInv, TypeOK
<1>3. ShadersQueued
  BY <1>1, SameQueue DEF shaderVars
<1>4. Shows(wanted) => Shows(wanted)'
  BY <1>1 DEF Shows, Failed, shaderVars
<1> QED BY <1>1, <1>2, <1>3, <1>4, ShaderKept DEF ShaderInv

LEMMA CallbackActions ==
  ASSUME SurfaceInv, ShaderInv,
         \/ \E s \in Surfaces : SurfaceChanged(s) \/ DetachSurface(s)
         \/ DetachTimesOut
  PROVE  ShaderInv'
<1>1. /\ UNCHANGED <<shaderVars, loop, vk, faults, lost>>
      /\ Overtaken => Overtaken'
  BY DEF SurfaceChanged, DetachSurface, DetachTimesOut, Overtaken
<1>2. UNCHANGED wanted /\ TypeOK
  BY <1>1 DEF shaderVars, SurfaceInv
<1>3. ShadersQueued
  <2>1. CASE DetachTimesOut
    BY <1>2, <2>1, OtherOrphans DEF DetachTimesOut
  <2>2. ASSUME NEW s \in Surfaces, SurfaceChanged(s) PROVE ShadersQueued
    <3>1. size[s] \in Sizes
      BY <2>2 DEF SurfaceChanged, SurfaceInv, ExtentFollows
    <3>2. [op |-> "changed", arg |-> size[s], waiter |-> "nobody"] \in Runnables
      BY <3>1 DEF Runnables
    <3> QED BY <1>2, <2>2, <3>2, OtherPosted DEF SurfaceChanged
  <2>3. ASSUME NEW s \in Surfaces, DetachSurface(s) PROVE ShadersQueued
    <3>1. [op |-> "gone", arg |-> s, waiter |-> "ui"] \in Runnables
      BY DEF Runnables
    <3>2. UNCHANGED events \/ events' = Post("gone", s, "ui")
      BY <2>3 DEF DetachSurface
    <3> QED BY <1>2, <3>1, <3>2, OtherPosted, SameQueue
  <2> QED BY <2>1, <2>2, <2>3
<1>4. At("apply")' <=> At("apply")
  BY <1>1 DEF At
<1>5. Shows(wanted) => Shows(wanted)'
  BY <1>1, <1>2 DEF Shows, Failed
<1> QED BY <1>1, <1>3, <1>4, <1>5, ShaderKept DEF ShaderInv

\* A call begins, and nothing is claimed until it has staged or queued.
LEMMA BridgeActions ==
  ASSUME SurfaceInv, ShaderInv, BeginSetShader \/ LookAtBound \/ StageShader
  PROVE  ShaderInv'
<1>1. UNCHANGED <<events, vkBound, loop, vk, faults>>
  BY DEF BeginSetShader, LookAtBound, StageShader, history
<1>2. /\ NoneQueued' <=> NoneQueued
      /\ OneWaiter => OneWaiter'
      /\ NoWaiter => NoWaiter'
      /\ At("apply")' <=> At("apply")
  BY <1>1 DEF NoneQueued, OneWaiter, NoWaiter, LastShader, At
<1>3. bridge # "wait" /\ bridge' # "wait" /\ (bridge' = "idle" => pending')
      /\ (bridge' = "post" => vkBound)
  BY DEF BeginSetShader, LookAtBound, StageShader
<1> QED BY <1>1, <1>2, <1>3 DEF ShaderInv, DeviceUp

LEMMA PostShaderKeeps ==
  ASSUME SurfaceInv, ShaderInv, PostShader PROVE ShaderInv'
<1> PICK n \in Nat : n = Len(events)
  BY QueueTypes DEF SurfaceInv
<1>1. [op |-> "shader", arg |-> wanted, waiter |-> "bridge"] \in Runnables
  BY DEF Runnables, SurfaceInv, TypeOK
<1>2. /\ DOMAIN events = 1 .. n /\ DOMAIN events' = 1 .. n + 1
      /\ \A i \in DOMAIN events : events'[i] = events[i]
      /\ events'[n + 1].op = "shader" /\ events'[n + 1].arg = wanted
      /\ events'[n + 1].waiter = "bridge"
  BY <1>1, Posts DEF PostShader, SurfaceInv
<1>3. LastShader(n + 1)' /\ n + 1 \in DOMAIN events' /\ wanted' = wanted
  BY <1>2 DEF LastShader, PostShader
<1>4. Awaited' /\ LastAsked'
  BY <1>2, <1>3 DEF Awaited, LastAsked
<1>5. NoWaiter /\ bridge = "post" /\ bridge' = "wait"
  BY DEF ShaderInv, PostShader
<1>6. OneWaiter'
  BY <1>2, <1>3, <1>5 DEF OneWaiter, NoWaiter
<1>7. UNCHANGED <<vkBound, loop, vk, faults>> /\ DeviceUp
  BY <1>5 DEF PostShader, ShaderInv, history
<1> QED BY <1>4, <1>5, <1>6, <1>7 DEF ShaderInv, DeviceUp

LEMMA SetShaderTimesOutKeeps ==
  ASSUME SurfaceInv, ShaderInv, SetShaderTimesOut PROVE ShaderInv'
<1>1. /\ DOMAIN events' = DOMAIN events
      /\ \A i \in DOMAIN events :
           /\ events'[i].op = events[i].op /\ events'[i].arg = events[i].arg
           /\ events'[i].waiter # "bridge"
  BY Orphans DEF SetShaderTimesOut, SurfaceInv
<1>2. /\ UNCHANGED <<vkBound, wanted, loop, vk, faults>>
      /\ bridge = "wait" /\ bridge' = "idle"
  BY DEF SetShaderTimesOut, history
<1>3. NoWaiter' /\ OneWaiter' /\ (NoneQueued' <=> NoneQueued)
  BY <1>1 DEF NoWaiter, OneWaiter, NoneQueued
<1>4. \A i \in DOMAIN events : LastShader(i)' <=> LastShader(i)
  BY <1>1 DEF LastShader
<1>5. LastAsked'
  BY <1>1, <1>2, <1>4 DEF ShaderInv, Awaited, LastAsked
<1>6. At("apply")' <=> At("apply")
  BY <1>2 DEF At
<1> QED BY <1>2, <1>3, <1>5, <1>6 DEF ShaderInv, DeviceUp

LEMMA SetShaderChain ==
  ASSUME NEW v \in Renderers, NEW path \in Shaders, NEW bad
  PROVE  LET w == SetShader(v, path, bad) IN
         /\ w.device = v.device
         /\ ~v.device => w = v
         /\ v.device => w.chain = path \/ ("preset" \in bad /\ w.chain = Null)
<1>1. DestroyShaderChain(v) \in Renderers /\ DestroyShaderChain(v).device = v.device
  BY DestroyTypes DEF DestroyShaderChain, Renderers
<1> QED BY <1>1 DEF SetShader, Renderers

LEMMA RecordDevice ==
  ASSUME TypeOK, NEW v \in Renderers, NEW bad, NEW draw \in BOOLEAN
  PROVE  RecordAndSubmit(v, draw, bad).device = v.device
<1> DEFINE s == IF draw THEN Shaded(v, bad) ELSE v
<1>1. s \in Renderers /\ s.device = v.device
  <2>1. EnsureShaderOutput(v, view, bad) \in Renderers
    BY EnsureFields DEF TypeOK
  <2>2. EnsureShaderOutput(v, view, bad).device = v.device
    BY DEF EnsureShaderOutput, Renderers
  <2> QED BY <2>1, <2>2 DEF Shaded
<1> QED BY <1>1 DEF RecordAndSubmit, Renderers

\* The size and the frames leave the preset alone.
LEMMA FrameActions ==
  ASSUME SurfaceInv, ShaderInv, RunChanged \/ PresentOutOfDate \/ Present
  PROVE  ShaderInv'
<1>1. TypeOK /\ vk \in Renderers
  BY DEF SurfaceInv, TypeOK
<1>2. vk'.chain = vk.chain /\ vk'.device = vk.device /\ faults \subseteq faults'
  <2>1. CASE RunChanged
    <3>1. PICK bad \in Strikes({"swapchain"}) :
            Struck(bad) /\ vk' = OnResize(vk, view', bad)
      BY <2>1 DEF RunChanged
    <3> QED BY <1>1, <3>1, OnResizeFields, StrikesAdd
  <2>2. CASE PresentOutOfDate
    <3>1. PICK bad \in Strikes({"swapchain"}) :
            Struck(bad) /\ vk' = OnResize(vk, size[vk.window], bad)
      BY <2>2 DEF PresentOutOfDate
    <3> QED BY <1>1, <3>1, OnResizeFields, StrikesAdd
  <2>3. CASE Present
    <3>0. PICK draw \in BOOLEAN, stale \in BOOLEAN :
            \E bad \in Strikes({"submit"} \cup (IF stale THEN {"swapchain"} ELSE {})
                                 \cup (IF Draws(vk, draw) THEN {"image", "filter"} ELSE {})) :
              LET v == RecordAndSubmit(vk, draw, bad) IN
              /\ Struck(bad)
              /\ vk' = IF stale /\ v.fence THEN OnResize(v, size[v.window], bad) ELSE v
      BY <2>3 DEF Present
    <3>1. PICK bad \in Strikes({"submit"} \cup (IF stale THEN {"swapchain"} ELSE {})
                                \cup (IF Draws(vk, draw) THEN {"image", "filter"} ELSE {})) :
            LET v == RecordAndSubmit(vk, draw, bad) IN
            /\ Struck(bad)
            /\ vk' = IF stale /\ v.fence THEN OnResize(v, size[v.window], bad) ELSE v
      BY <3>0
    <3> DEFINE v == RecordAndSubmit(vk, draw, bad)
    <3>2. v \in Renderers /\ v.chain = vk.chain /\ v.device = vk.device
      BY <1>1, RecordFields, RecordDevice
    <3>3. vk' = v \/ vk' = OnResize(v, size[v.window], bad)
      BY <3>1
    <3> HIDE DEF v
    <3> QED BY <1>1, <3>1, <3>2, <3>3, OnResizeFields DEF Struck
  <2> QED BY <2>1, <2>2, <2>3
<1>3. /\ UNCHANGED <<shaderVars, raced, lost>>
      /\ UNCHANGED events \/ (events # <<>> /\ events' = Tail(events)
                              /\ Head(events).op # "shader")
  BY DEF RunChanged, PresentOutOfDate, Present
<1>4. ShadersQueued
  BY <1>1, <1>3, SameQueue, Popped DEF shaderVars
<1>5. At("apply")' <=> At("apply")
  BY <1>1 DEF RunChanged, PresentOutOfDate, Present, At, GoTo, TypeOK
<1>6. Shows(wanted) => Shows(wanted)'
  BY <1>2, <1>3 DEF Shows, Failed, shaderVars
<1> QED BY <1>2, <1>3, <1>4, <1>5, <1>6, ShaderKept DEF ShaderInv, Overtaken

\* A surface that goes takes the chain with it, which lost records.
LEMMA RunGoneKeeps ==
  ASSUME SurfaceInv, ShaderInv, RunGone PROVE ShaderInv'
<1>1. /\ UNCHANGED <<shaderVars, loop, faults, raced>>
      /\ vk'.chain = Null /\ vk'.device = vk.device
      /\ lost' = (lost \/ vk.chain # Null)
  BY ClearFields DEF RunGone, ClearSurface, DestroySwapchain, DestroyShaderChain,
     SurfaceInv, TypeOK, Renderers
<1>2. ShadersQueued
  BY <1>1, Popped DEF RunGone, SurfaceInv, shaderVars
<1>3. Shows(wanted) => Shows(wanted)'
  BY <1>1, ShaderTypes DEF Shows, Failed, shaderVars, SurfaceInv
<1>4. At("apply")' <=> At("apply")
  BY <1>1 DEF At
<1> QED BY <1>1, <1>2, <1>3, <1>4, ShaderKept DEF Overtaken

LEMMA BindKeeps ==
  ASSUME SurfaceInv, ShaderInv, Bind PROVE ShaderInv'
<1>1. PICK bad \in Strikes(IF loop.want = Null THEN {}
                        ELSE (IF vk.device THEN {} ELSE {"device"})
                               \cup {"window", "swapchain"}) :
        Struck(bad) /\ vk' = IF loop.want = Null THEN Unbound
                             ELSE SurfaceCreated(Unbound, loop.want, bad)
  BY DEF Bind
<1>2. /\ UNCHANGED <<events, wanted, pending, bridge>>
      /\ vkBound' = (loop.want # Null) /\ At("bind") /\ ~At("apply")'
      /\ lost' = (lost \/ (bound # Null /\ vk.chain # Null))
      /\ Overtaken => Overtaken'
  BY DEF Bind, At, Overtaken
<1>3. faults' = faults \cup bad
  BY <1>1, StrikesAdd
<1>4. /\ Unbound \in Renderers /\ Unbound.device = vk.device
      /\ Unbound.window = Null /\ Unbound.extent = 0 /\ ~Unbound.surface
      /\ Unbound.chain = IF bound = Null THEN vk.chain ELSE Null
  BY ClearFields DEF Unbound, ClearSurface, DestroySwapchain, DestroyShaderChain,
     SurfaceInv, TypeOK, WindowBound, Renderers
<1> HIDE DEF Unbound
<1>5. /\ vk'.chain = Unbound.chain
      /\ vk.device => vk'.device
      /\ loop.want # Null => vk'.device \/ "device" \in bad
  <2>1. CASE loop.want = Null
    BY <1>1, <1>4, <2>1
  <2>2. CASE loop.want # Null
    <3>1. loop.want \in Surfaces
      BY <2>2 DEF SurfaceInv, TypeOK
    <3>2. vk'.chain = Unbound.chain
      BY <1>1, <1>4, <2>2, <3>1, CreatedFields DEF SurfaceInv
    <3> DEFINE d == IF Unbound.device \/ "device" \notin bad
                    THEN [Unbound EXCEPT !.device = TRUE] ELSE Unbound
    <3>3. /\ d \in Renderers /\ (vk.device => d.device)
          /\ d.device \/ "device" \in bad
      BY <1>4 DEF Renderers
    <3>4. vk' = IF d.device /\ loop.want \in shown THEN SetSurface(d, loop.want, bad)
                ELSE d
      BY <1>1, <2>2 DEF SurfaceCreated
    <3> HIDE DEF d
    <3>5. SetSurface(d, loop.want, bad).device = d.device
      BY <3>3 DEF SetSurface, CreateSwapchain, Renderers
    <3> QED BY <3>2, <3>3, <3>4, <3>5
  <2> QED BY <2>1, <2>2
<1>6. Shows(wanted) => Shows(wanted)'
  BY <1>2, <1>3, <1>4, <1>5, ShaderTypes DEF Shows, Failed, SurfaceInv
<1>7. ShadersQueued
  BY <1>2, SameQueue
<1>8. ~vk'.device => vk'.chain = Null
  BY <1>4, <1>5 DEF ShaderInv
<1>9. vkBound' \/ bridge' = "post" \/ ~NoneQueued' => DeviceUp'
  BY <1>2, <1>3, <1>5, <1>7 DEF ShaderInv, ShadersQueued, DeviceUp
<1> QED BY <1>2, <1>6, <1>7, <1>8, <1>9 DEF ShaderInv, ShadersQueued, At

\* A staged preset is taken; a Runnable still queued is recorded.
LEMMA TakeShaderKeeps ==
  ASSUME SurfaceInv, ShaderInv, TakeShader PROVE ShaderInv'
<1>1. /\ UNCHANGED <<events, vkBound, wanted, bridge, vk, faults, lost>>
      /\ At("shader") /\ ~At("apply")
  BY DEF TakeShader, At
<1>2. ShadersQueued
  BY <1>1, SameQueue
<1>3. Shows(wanted) => Shows(wanted)'
  BY <1>1 DEF Shows, Failed
<1>4. CASE vkBound /\ pending
  <2>1. At("apply")' /\ (~NoneQueued => Overtaken')
    BY <1>4 DEF TakeShader, GoTo, At, SurfaceInv, TypeOK, NoneQueued, Overtaken
  <2> QED BY <1>1, <1>2, <1>4, <2>1 DEF ShaderInv, ShadersQueued, DeviceUp
<1>5. CASE ~(vkBound /\ pending)
  <2>1. ~At("apply")' /\ pending' = pending /\ raced' = raced
    BY <1>5 DEF TakeShader, GoTo, At, SurfaceInv, TypeOK
  <2> QED BY <1>1, <1>2, <1>3, <2>1 DEF ShaderInv, ShadersQueued, DeviceUp, Overtaken
<1> QED BY <1>4, <1>5

\* A preset that is set shows, unless it fails to load.
LEMMA SetShows ==
  ASSUME SurfaceInv, ShaderInv, DeviceUp, NEW path \in Shaders, NEW bad,
         vk' = SetShader(vk, path, bad), faults' = faults \cup bad
  PROVE  /\ Shows(path)' /\ vk'.device = vk.device
         /\ ~vk'.device => vk'.chain = Null
<1>1. vk \in Renderers
  BY DEF SurfaceInv, TypeOK
<1> QED BY <1>1, SetShaderChain DEF Shows, Failed, ShaderInv, DeviceUp

LEMMA ApplyShaderKeeps ==
  ASSUME SurfaceInv, ShaderInv, ApplyShader PROVE ShaderInv'
<1>1. PICK bad \in Strikes({"preset"}) : Struck(bad) /\ vk' = SetShader(vk, wanted, bad)
  BY DEF ApplyShader
<1>2. /\ UNCHANGED <<events, shaderVars, raced>> /\ At("apply") /\ ~At("apply")'
  BY DEF ApplyShader, At, GoTo, SurfaceInv, TypeOK
<1>3. faults' = faults \cup bad
  BY <1>1, StrikesAdd
<1>4. DeviceUp /\ wanted \in Shaders
  BY <1>2, ShaderTypes DEF ShaderInv, SurfaceInv
<1>5. /\ Shows(wanted)' /\ vk'.device = vk.device
      /\ ~vk'.device => vk'.chain = Null
  <2>1. PICK path \in Shaders : path = wanted
    BY <1>4
  <2>2. Shows(path)' /\ vk'.device = vk.device /\ (~vk'.device => vk'.chain = Null)
    BY <1>1, <1>3, <1>4, <2>1, SetShows
  <2>3. wanted' = path
    BY <1>2, <2>1 DEF shaderVars
  <2> QED BY <2>2, <2>3 DEF Shows
<1>6. ShadersQueued
  BY <1>2, SameQueue DEF shaderVars
<1> QED BY <1>2, <1>3, <1>5, <1>6
        DEF ShaderInv, ShadersQueued, DeviceUp, Overtaken, shaderVars

\* The last Runnable of its kind shows what was asked for last.
LEMMA RunShaderKeeps ==
  ASSUME SurfaceInv, ShaderInv, RunShader PROVE ShaderInv'
<1>1. PICK bad \in Strikes({"preset"}) :
        Struck(bad) /\ vk' = SetShader(vk, Head(events).arg, bad)
  BY DEF RunShader
<1>2. /\ UNCHANGED <<vkBound, wanted, pending, raced, loop>>
      /\ events # <<>> /\ events' = Tail(events) /\ TypeOK
      /\ At("drain") /\ ~At("apply") /\ ~At("apply")'
      /\ bridge' = IF Head(events).waiter = "bridge" THEN "idle" ELSE bridge
  BY DEF RunShader, At, SurfaceInv
<1>3. faults' = faults \cup bad
  BY <1>1, StrikesAdd
<1>4. /\ Head(events) = events[1] /\ 1 \in DOMAIN events
      /\ events[1].op = "shader" /\ events[1].arg \in Shaders
  BY <1>2, Heads, WaiterOps DEF RunShader
<1>5. DeviceUp
  BY <1>4 DEF ShaderInv, NoneQueued
<1>6. PICK path \in Shaders : path = events[1].arg
  BY <1>4
<1>7. Shows(path)' /\ vk'.device = vk.device /\ (~vk'.device => vk'.chain = Null)
  BY <1>1, <1>3, <1>4, <1>5, <1>6, SetShows
<1>8. /\ \A i \in DOMAIN events : i # 1 =>
           i - 1 \in DOMAIN events' /\ (LastShader(i) => LastShader(i - 1)')
                                    /\ events'[i - 1] = events[i]
      /\ OneWaiter' /\ (NoWaiter => NoWaiter')
      /\ LastShader(1) => NoneQueued'
  <2>1. \A i \in DOMAIN events : i # 1 => events'[i - 1] = events[i]
    BY <1>2, Heads
  <2> QED BY <1>2, <2>1, Popped DEF ShaderInv
<1>9. DeviceUp'
  BY <1>3, <1>5, <1>7 DEF DeviceUp
<1>10. LastAsked => LastAsked' \/ (NoneQueued' /\ Shows(wanted)')
  <2> SUFFICES ASSUME NEW i \in DOMAIN events, LastShader(i), events[i].arg = wanted
               PROVE  LastAsked' \/ (NoneQueued' /\ Shows(wanted)')
    BY DEF LastAsked
  <2>1. CASE i = 1
    <3>1. wanted' = path
      BY <1>2, <1>6, <2>1
    <3> QED BY <1>7, <1>8, <2>1, <3>1 DEF Shows
  <2>2. CASE i # 1
    BY <1>2, <1>8, <2>2 DEF LastAsked
  <2> QED BY <2>1, <2>2
<1>11. CASE Head(events).waiter = "bridge"
  <2>1. bridge = "wait" /\ bridge' = "idle" /\ LastShader(1)
    BY <1>2, <1>4, <1>11 DEF ShaderInv, NoWaiter, OneWaiter
  <2>2. NoneQueued' /\ NoWaiter'
    BY <1>8, <2>1 DEF NoneQueued, NoWaiter, OneWaiter, LastShader
  <2>3. LastAsked
    BY <2>1 DEF ShaderInv, Awaited, LastAsked
  <2> QED BY <1>2, <1>7, <1>8, <1>9, <1>10, <2>1, <2>2, <2>3
          DEF ShaderInv, LastAsked, LastShader, NoneQueued
<1>12. CASE Head(events).waiter # "bridge"
  <2>1. bridge' = bridge
    BY <1>2, <1>12
  <2>2. Awaited => Awaited'
    <3>1. \A i \in DOMAIN events : events[i].waiter = "bridge" => i # 1
      BY <1>4, <1>12
    <3> QED BY <1>2, <1>8, <3>1 DEF Awaited
  <2>3. ~NoneQueued
    BY <1>4 DEF NoneQueued
  <2> QED BY <1>2, <1>7, <1>8, <1>9, <1>10, <2>1, <2>2, <2>3
          DEF ShaderInv, Overtaken
<1> QED BY <1>11, <1>12

LEMMA ShaderStep == SurfaceInv /\ ShaderInv /\ [Next]_vars => ShaderInv'
BY KeptActions, CallbackActions, BridgeActions, PostShaderKeeps,
   SetShaderTimesOutKeeps, FrameActions, RunGoneKeeps, BindKeeps,
   TakeShaderKeeps, ApplyShaderKeeps, RunShaderKeeps
DEF Next, RenderThread

\* The preset drawn with is the last one asked for, however calls, time-outs,
\* surfaces and the loop interleave, but for a staged preset that overtook a
\* call that had timed out, a lost surface and a failure to load.
THEOREM ShaderIsFollowed == Spec => []ShaderFollows
<1>1. ShaderInv => ShaderFollows
  BY DEF ShaderInv, ShaderFollows, LastAsked, LastShader, Overtaken, Shows, Failed, At
<1> QED BY <1>1, ShaderInit, ShaderStep, SurfaceInvariant, PTL DEF Spec

=============================================================================
