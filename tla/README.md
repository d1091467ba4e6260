# A TLA+ model of the retro emulator plugin

This directory models the control logic of the NativePHP retro emulator: the
native host that owns an emulation engine (`src/native/host`), the Android
session around it (`src/resources/android/src`) with its Vulkan renderer
(`src/android/app/src/main/cpp`), the loader of bring-your-own libretro cores
(`src/native/backends/libretro`), and the iOS renderer
(`src/resources/ios/Sources`). TLC checks each model on small instances; TLAPS
proves the main results for every value of the constants.

## The system

An application (PHP, or JavaScript through the same bridge) calls *bridge
functions* by surface name. The platform layer turns a call into operations on
one native host per process. The host drives one of several *backends* (ares,
mGBA, SameBoy, libretro cores), each of which runs one cartridge.

    PHP / JS ──bridge call──> EmulatorFunctions ──> EmulatorSession (Android)
                                                    EmulatorRenderer (iOS)
                                       queue, flags, or a lock │
                              render / loop thread ──> EmulatorHost ──> backend
    UI callbacks (surface, activity) ─────┘             │  │
    audio pump thread <── audio ring ───────────────────┘  └── battery and state files

| Component | State it keeps | Operations | What makes it hard | What makes it right |
|---|---|---|---|---|
| Host life cycle, `emulator_host.cpp` | staged and active backend and system, save prefix, slots, cheats, rewind, pause | stage, loadRom, reset, flush, cheats, state save/load, tick | half a boot may fail; two backends are alive during a swap; each field must be reset by whichever event ends a game | one game at a time, each battery file written only by its own game and damaged only by a write of its own that failed, nothing carried from one game to the next |
| Press latch, same file | three atomic masks per port | pressButton, setInput, sampleButton | bridge threads against the emulation thread, one atomic at a time | every tap is seen, no button sticks |
| Controllers, same file and `system_catalog.cpp` | device registrations, remaps, two dirty flags, the handle table | connectDevice, setInputMapping, tick's rebind, loadRom | flags raised while they are being cleared; a system staged over a running game; logical numbering through multitaps, written four times | the game reads exactly what is registered |
| Rewind and run-ahead, same file | capture counter, capacity, history, direction | rewindRun, toggle, jump, configure, tick | playback and capture share a counter; jumps, reconfiguration and loads of save states in the middle | history in the order it was played, within its game; playback ends |
| Android session, `EmulatorSession.kt` | pending ROM and prefix, event queue, status, surface, pause bookkeeping | load, pause, resume, stop, stage; surface and activity callbacks; doFrame | volatile fields read one by one by the render thread | session and core agree; background means saved; a queued ROM boots or is superseded |
| State slots, `EmulatorFunctions.kt` | slot and undo files, the slot to undo, one pending request | save, load, two undos, LoadRom | requests time out and are served later; failures and kills between steps | undo restores the right thing; replies are true |
| iOS renderers, `EmulatorRenderer.swift`, registry, pump | registry entry, a lock and a loop per renderer, one shared native context and pump | mount, dismantle, deinit, load, pause, resume, stop | two views of one name overlap; a loop keeps its view alive | calls reach the newest view; its game is ticked; the context is entered by one thread at a time |
| Audio and video output, boot skip, `emulator_host.cpp` | audio ring, high-pass, frame buffer, the skip's flags and preroll | pushAudioFrame, readAudio, pushFrame, withDirtyFrame, loadRom's skip, tick | the pump and screen workers run while the render thread boots; sound is discarded, then replayed; overflow at the cap | newest sound of this game, channels in step, skipped pictures hidden, every load returns |
| libretro backend, `libretro_backend.cpp` | `current_` and `pending_` CoreRefs, the callback target, options, pads, cheats | adopt, boot, unload, tick, environment calls, setEngineOption | a core adopted under a running game; libraries share globals between handles; failed boots in between | handles balance; the running core keeps its callbacks, format and options |
| Vulkan renderer and surface hand-off, `vulkan_renderer.cpp`, `EmulatorSession.kt` | `currentSurface`, event queue, staged shader, `boundSurface`; window, swapchain, chain, output image, fence | attach, changed, detach, SetShader; the loop's drain, follow, apply, present | three threads; callbacks that must not return early; time-outs; each Vulkan call may fail | no window held after a callback that waited, the view on screen is drawn to, the last preset asked for is used |
| Touch and gamepad input | pointers, held buttons | down, move, up, cancel | pointers that leave and return | what is pressed is released |
| PHP facade, install commands, pak shims | none of their own | | | |

## Modules

Each module states in its header which source it translates, and names its
state after the code's. `PROJECT.json` maps every definition to source lines.
`StateSlots` and `PressLatch` are extended together with a module of their
platform, so their specifications have names of their own (`SlotsSpec`,
`SlotsTypeOK`, `LatchSpec`, `LatchTypeOK`, and so on) where the other modules
say `Spec` and `TypeOK`.

| Module | Models | Composes / refines |
|---|---|---|
| `HostLifecycle` | `EmulatorHost`: staging, boots, teardown, reset, battery, cheats, states, pause | implements `BatteryContract` through `Battery`, an INSTANCE with a refinement mapping |
| `BatteryContract` | what a console with a battery promises: play, save, swap | abstract |
| `PressLatch` | `pressButton`, `setInput`, `sampleButton`, `unloadGame`'s clearing, one atomic operation per step | implements `TapContract` |
| `TapContract` | `HostPort`'s promise in `backend.hpp` | abstract |
| `ControllerBindings` | registrations, remaps, `resolveBindings`, `rebindPorts`, the ares handle cache | |
| `RewindTimeline` | `rewindRun`, `configureRewind`, `toggleRewind`, `rewindJump`, `stateLoad`, the run-ahead branch of `tick` | implements `TapeContract` |
| `TapeContract` | going back leads to a taped moment and forgets what followed | abstract |
| `AndroidSession` | bridge, UI and render threads of `EmulatorSession` | its `core` is `HostLifecycle` as a session sees it |
| `StateSlots` | the slot bridge functions, `pendingStateOp`, `stateSave`/`stateLoad` on files | |
| `IosRenderers` | renderers of one name, registry, loop threads, pump | |
| `LibretroCores` | `LibretroBackend`: adoption, boot, swap, unload, environment calls, options; the host calls that reach it; the globals of the cores' libraries | the host's staged and active backend, abstracted to "this loader" or "another" |
| `VulkanSurface` | UI callbacks, `syncSetShader`, the render loop, the JNI functions that guard `g_vk`, `VulkanRenderer` | composes the session's hand-off with the renderer |
| `HostOutput` | audio ring, high-pass, frame hand-off, the boot skip of `loadRom`, the pump, screen workers | |
| `MCHostLifecycle`, `MCPressLatch`, `MCControllerBindings`, `MCLibretroCores` | values of function-valued constants for TLC | |
| `HostLifecycleProofs`, `RewindProofs`, `LibretroProofs`, `VulkanProofs`, `HostOutputProofs`, `BindingsProofs` | theorems and proofs about the module of that name | |
| `AndroidProofs` | theorems about `AndroidSession` and `StateSlots` | extends both |
| `IosProofs` | theorems about `IosRenderers` and `PressLatch` (the latch under `emuLock`, as iOS callers hold it) | extends both |

How the code becomes steps:

* *Host calls* run on the one thread that owns the host, so a call is one step
  of `HostLifecycle` and `RewindTimeline`, with everything it does: a load that
  fails after teardown is one action that tears the old game down and leaves no
  new one. Where the host is entered from several threads, the call is cut at
  every atomic (`PressLatch`) or lock release (`ControllerBindings`).
* *Locks* are the difference between the platforms: iOS bridge calls hold
  `emuLock` around the latch and the registrations, Android callers enter
  through JNI directly. `PressLatch` has a constant `Locked` for presses,
  releases and samples; `setInput`, which a hardware pad's callback makes, takes
  no lock on either platform. `ControllerBindings` chooses the build in its
  initial state (`locked`), so that one run and each theorem covers both.
* *Android threads* (`AndroidSession`): a call is the sequence of accesses to
  volatile fields it has yet to make (`todo`), the render thread has a position
  in `doFrame` (`frame`). `StateSlots` looks at the frame more coarsely (before
  and after the boot step) and at the state files in detail.
* *iOS threads* (`IosRenderers`): as above, and an access under `emuLock` is two
  steps, one that takes the lock and one that makes the access and releases it.
  Since `emu_create` has one context to give, `Pump.detach`'s comparison of
  contexts always succeeds, and is modelled so.
* *Core libraries* (`LibretroCores`): a CoreRef is the backend's side; `opens`,
  `live`, `games` and `chosen` are the library's, which two handles on one
  library share, as `dlopen` shares its globals. A core is external: it may list
  any of its option lists, set any format, refuse any ROM.
* *The renderer* (`VulkanSurface`) is a record, and its methods are functions of
  that record: a call on the render thread is one step, and a set of failures
  says which driver call in it fails. The threads around it are cut at every
  access to a volatile field and every queue operation.
* *Output* (`HostOutput`): a tick makes one stereo pair with a number, so that
  the ring shows what was dropped or repeated; a picture says whose it is,
  whether it is blank and whether the skip was on. What the engine does in a
  boot (intro, sound, pictures) is a choice.
* *Files*: a battery file is opened with `fopen("wb")`, which truncates it, so a
  write that fails may leave it as it was, empty or torn, and what a game reads
  from a torn file is any progress. `fclose` is not looked at: `cut` records a
  state file whose last flush failed under an answer that said ok.
* *Data*: a ROM is its save prefix; battery memory is a progress number, a state
  file is the engine and the boot it came from (or torn); a cheat code is the
  set of addresses it patches; buttons are bits. Definitions marked "Bug:" are
  unused: each is the altered form of an action by which a property is tested.
* *History variables* record the past for a property and guard nothing but
  bounds: `boots` and `ioFault` (host), `shown` and `unseen` (latch),
  `boundFor` and `behind` (bindings), `asked` (session), `moved`, `restored` and
  `cut` (slots), `latest` (iOS), `reopened` (cores), `raced`, `released`,
  `hurried` and `lost` (surfaces), `heard` and `leaked` (output). A moment of
  `RewindTimeline` names the stretch of play it belongs to: a stretch begins
  with a game and with every load of a save state.

## Runs

`tlc -config X.cfg M` repeats a run. Deadlock checking is off where the bounds
or an idle application make the system stop legitimately, which is everywhere
but in `LatchLocked` and `CoresRuns`. Every module but the three contracts has a
type invariant, which a theorem proves; adding it to the cfg checks it as well.

| Run | Instance | Shows |
|---|---|---|
| `host_runs` | ares (pak copy) beside an engine read live, a saved game and an unsaved one, battery writes that fail, two codes that share an address, a slot cart, a button, a state file, two boots | the engine applies exactly the codes in force; the timeline stays within the game; tagged states stay with their engine; nothing carries over; `BatteryContract` |
| `latch_locked` | two buttons, three handles (two on one bit), teardowns, under the lock | no stuck button, every tap shown, `TapContract` |
| `bindings` | both builds; a console with a multitap, one with another pad, a handheld; three logical ports, two calls, any system staged at any time | the table is what is registered, with the two exceptions; no two pads follow one player; the four numbering loops agree; changes land |
| `rewind_plays` | captures every 10 ticks and playback every second one, as in the code; buffers of two or three captures, one save state, 30 frames, four calls, an engine that may refuse | history in the order played, playback ends, `TapeContract` |
| `session_runs` | two ROMs, four further calls, a queue of two | session and core agree; backgrounding saves; teardowns run without a surface; ROMs are taken but for one exception |
| `slots_runs` | two slots, two boots, four requests; rename, serialize, write, close, unserialize and boot may fail, the process may be killed | undo restores what the last save moved away, to its slot; replies are true |
| `ios_renderers` | two views of one name, two loads, three further calls | the newest view is reachable; its game has a loop; what booted is played |
| `libretro_cores` | three names on two libraries (one under a bare name and a path), one name without a library, two systems, two formats; unbounded | handles balance; the running core is served, alive, kept and told its options |
| `vulkan_surface` | two views, two sizes, one preset or none, four UI and SetShader calls in all, every kind of failure, one per behaviour | windows released; the view on screen served; the last preset followed; screenshots readable; all settles |
| `host_output` | two loads, ring of 3 pairs, preroll of 4, five listening ticks, two blank ticks | newest sound in step; attack replayed; skip hidden; loads return |
| `host_ares_swap` | the smallest instance that shows it | the first disagreement below |
| `rom_race` | two ROMs, two further calls | the second |

Why the bounds are enough: every hazard the properties are about needs at most
two games (an old and a new one), two buttons on shared bits, two views, or two
requests (one late, one current); one more of each is left as slack where the
state space allows. In `vulkan_surface` four calls suffice to remount a view over
another in either order (attach, attach, detach), with a resize or a preset in
between. A preset overtaken by the Runnable of a call that timed out needs a
view that goes and comes back and two SetShader calls: `ShaderFollows` was also
run with one view, one size, two presets, six calls and `Kinds = {"device",
"preset"}`. In `host_output` the ring is smaller than the preroll, as in the code
(12000 and 16384 floats), so that a replay overflows it. The rewind run is long
enough to fill the history, to play it back and to count through the ticks
between two steps of playback. In `bindings` two calls are a registration and a
change of it while a boot or a rebind is under way.

`MaxEvents`, `MaxCalls`, `MaxOps`, `MaxBoots`, `MaxNow`, `MaxProgress`,
`MaxFaults`, `MaxGames`, `MaxMade` and `Threads` bound counters in
guards and are not limits of the code; a caller at `MaxEvents` waits.
`MaxIntro`, `MaxExtra`, `MaxHold`, `RingCap` and `PrerollCap` are the code's own
limits (600, 180, 60, 12000 and 16384 floats), made small.

### Fairness

* `ControllerBindings`: the emulation thread keeps ticking, getting the lock now
  and then (strong fairness), and a bridge call that began raises its flag.
* `RewindTimeline`: ticks go on.
* `AndroidSession`: the render loop goes round (it waits at most 250 ms), and a
  call that began continues. No call is assumed to come.
* `VulkanSurface`: the render loop keeps going round, a bridge call that began
  continues, `latch.await` ends by its time-out at the latest, and the window
  system calls `surfaceChanged` after it created or resized a surface, as
  `SurfaceHolder` does. No view and no SetShader is assumed to come.
* `HostOutput`: the statements of the boot skip follow one another. The engine,
  the pump and the screen workers owe nothing.
* `IosRenderers`: threads run, and one that waits for `emuLock` gets it in the
  end (strong fairness, as the holder always releases it). SwiftUI and the
  application owe nothing.

## What is proved

TLAPS proves, for every value of the constants that satisfies the assumptions
beside their declarations, every safety property that a passing run checks, the
three refinements included. The one further hypothesis is `Locked`, in the
theorems about the press latch.

* `HostLifecycleProofs`. The invariant `IInv` joins the type, *one game* (an
  engine runs a game iff it is active and the host is loaded), *prefix* (the
  running game's prefix is `savePrefix`), *cheats* (lookup = merge of the codes
  in force = what the engine applies) and *timeline* (snapshots are of the
  running boot). None of these is inductive alone: a teardown flushes through
  `savePrefix` and clears the active engine, so each needs *one game*. One lemma
  per action; `TypeCorrect`, `OneGameAtATime`, `PrefixFollowsGame`,
  `CheatsExact`, `RewindStaysInGame` follow.
  - `TaggedStatesKeepHome`: a tagged state reaches only the engine that wrote it.
    It needs what the files say (`TagsAreTrue`: a tag names the engine that wrote
    the file); the property alone says nothing about files not yet loaded.
  - A step writes only the running game's file (`OwnFileOnly`), and what ends a
    game ends what belonged to it (`GamesLeaveNothing`). A swap away from an
    engine whose battery is read live saves its progress or its write failed
    (`SwapsSave`), whichever engine takes over; for ares it does not, which is
    the first disagreement below.
  - `BatteryRefinement`: the host implements `BatteryContract` for any mix of
    engines. The contract says what can be lost and no more: memory reaches the
    file of its own cartridge when it is saved and when another cartridge takes
    its place (the copy kept at the last save, on a console that keeps one), a
    write that fails may damage that file and no other, and a cartridge may be
    pulled without a save.
* `BindingsProofs`, without hypotheses: both builds, and systems staged over a
  running game at any time. `PadsStayApart`: by `BoundInv`, bindings about to be
  applied feed disjoint ports (`WellBound`) and are for the staged system.
  `SettledIsCurrent`: `CurrentInv` says that a game bound for its own system
  reads what was registered when the emulation thread last looked, and
  `LockInv` that under the lock a change it has not seen is still announced by
  the call that makes it or by its flag. The exceptions of the property are the
  code's own, the first observations on bindings below.
  `NumberingsAgree`: four definitions for the four loops of the code, equal for
  every catalog and registration. It rests on the fact that a multitap's system
  has the Gamepad for its own controller (`CatalogAssumption`); and with
  `CurrentInv` the players of a settled game's handles are the listed players
  that have buttons.
* `AndroidProofs`. `SessionInv` joins the type with `TakenRom` (a frame that
  boots holds the ROM it took) and the property: `SessionAgrees`, the session's
  `romLoaded` is the core's, through every interleaving of calls, callbacks and
  frames. About the slots: by `SlotsInvariant` the pending request is the waiting
  call's own, later than the request that was cut short, and an answer stays
  true until the call goes on; `RepliesAreTrue` whatever fails, but for a save
  whose last flush failed, which is answered like one that worked; `UndoIsExact`
  whatever fails, renaming included.
* `IosProofs`. `LatestIsReachable`: bridge calls reach the newest view, for any
  number of callers and threads, by comparing objects and not names when a view
  goes. `ShownGameIsTicked`, for any callers, until two of them are in a call at
  once (the bridge makes one call at a time; the declarative boot thread is the
  one that can be second, see the observations):
  in `IosInv` a call has one of the lists of accesses the code has (`CallInv`), a
  view that is reached lives (`ViewInv`), a view marked running has a loop or a
  call about to start one (`LoopInv`), the loaded game's view runs, is about to
  or is being stopped (`GameInv`), and there is a thread for every load that may
  still start one (`SpawnInv`).
  About the latch, assuming `Locked`: `LatchInvariant` says that at most one
  press, release or sample is under way (hardware input takes no lock and may
  come at any time) and that a button with a deferred release still has its
  latch set, or an operation under way that will deal with it; `NothingStuck`,
  `EveryTapShown` and `LatchRefinement` follow. Without the lock they are false.
* `RewindProofs`: `RewindInvariant` (a history of moments in the order they were
  played, each in a stretch that has begun, empty when rewind is off),
  `HistoryInOrder`, `OffLeavesNothing`, `CapturesFit` and `RewindRefinement`, for
  any interval, capacity, set of save states and failures of the engine. A load
  begins a new stretch and leaves the history, so order is by stretch before it
  is by frame: going back after a load leads to play from before it.
* `LibretroProofs`: `CoresInvariant` says who holds which library. It rests on
  one fact: a library outside `reopened` has at most one handle, so closing one
  cannot disturb another. `HandlesAreBalanced`, `RunningIsServed`,
  `CoreIsAlive`, `OptionsAreHeard`, `RunningCoreIsKept` and `StagedIsAdopted`
  follow, for any names, libraries and option lists.
* `VulkanProofs`: `SurfaceInvariant` relates the surface the loop has bound, the
  window the renderer holds, the Runnables that wait and who waits for them.
  A surface released or left in a hurry is not on screen, and the window is the
  bound surface's, so one left in a hurry is bound and no longer current.
  `WindowIsReleased` needs that a detach queues its Runnable before anything the
  loop can answer it by; `SurfaceIsServed` that whatever the swapchain lacks, a
  queued Runnable or an unfinished bind will bring; `ShotsAreReadable` is about
  the output image alone. `ShaderIsFollowed` needs `ShaderInv`: between two
  SetShader calls the preset asked for last is staged, or set by the last
  Runnable that sets one, or being applied or drawn with. Proving it showed that the order breaks in one case
  the small run does not reach: a staged preset overtakes the Runnable of a SetShader
  that timed out, which then undoes it. The property excepts that case (`raced`)
  until SetShader is called again.
* `HostOutputProofs`: `OutputInvariant` has the ring as one contiguous run of
  the game's floats that ends at the last pair pushed, and its length even;
  where the skip stands bounds what is still to be pushed. `RingKeepsNewest`,
  `StreamStaysInStep` and `AttackIsReplayed` follow for every even cap and
  buffer size, and `RawIsRestored` (a running game has the `rawAudio` it was
  configured with) and `FilterIsContinuous` (the high-pass never sees a jump).
  `SkipStaysHidden` counts what a worker may still let through: by `HiddenInv`
  nothing has leaked while the skip withholds pictures, and afterwards one late
  picture at most is in flight or in the buffer. It needs a skip that listens for
  a tick and a blank hold of two, as the code's limits of 180 and 60 allow.

The type theorem of each of these modules is `TypeCorrect`, and
`SessionTypeCorrect`, `SlotsTypeCorrect`, `RenderersTypeCorrect` and
`LatchTypeCorrect` where a proof module has two. `OneGame`,
`PrefixMatches`, `OnlyOwnBattery`, `LiveSwapsSave`, `NoLeftovers`, `CaptureWithinCap`,
`StagedMatches`, `RawRestored` and `FilterContinuous` are proved and not run:
they stay defined, and adding one to its cfg checks it.

Only model-checked are the liveness properties, since TLAPS does not prove
arguments from fairness, which rest on ENABLED: `BackgroundSaves`,
`TeardownHappens`, `RomsAreTaken`, `ChangesLand`, `RewindEnds`,
`BootsArePlayed`, `ScreenSettles` and `LoadReturns`. The disagreements below are
counterexamples and need no proof.

## Where code and documentation disagree

`host_ares_swap` ends with a counterexample: swapping ROMs on ares writes the
pak's copy of the battery without `System::save()` first, so progress since the
last flush is lost, where `src/native/host/backend.hpp:176` promises "Flushes
battery media before teardown".

`rom_race` ends with another: `doFrame` reads `pendingRomBytes` and clears it in
two steps (`EmulatorSession.kt:306-308`), so a ROM queued in between is wiped and
never loaded, where the doc of `queueRomLoad` (line 603) promises that it "executes
on the next render-loop pass after a system is staged". `RomsAreTaken` excepts
exactly that ROM (`asked.unseen`).

Further observations made while modelling, which no run checks (the setting that
shows one is named where there is one):

* Battery: `writeFile` truncates before it writes and ignores `fclose`, so a full
  disk during a flush or a swap leaves the previous save empty or torn
  (`BatteryContract` allows it).
* Bindings, Android: a registration stored while a boot or rebind resolves has
  its flag cleared and never reaches the game (`TableCurrent` without its last
  disjunct fails). Both builds: staging a system over a running game makes the
  next rebind use the staged system's layout (without the disjunct `boundFor #
  active` it and `PadsIndependent` fail). A remap keeps the bits it was given
  under the system staged then. An empty device on port 1 reconnects the default
  pad; a registration the next system does not know leaves port 1 empty.
* Rewind: a save state loaded over a game leaves the history of the play before
  it, so rewinding from there leads to moments the loaded one does not descend
  from, and continues a rewind that was under way.
* Slots: a `StateLoad` right after `LoadRom` may be served by the outgoing game;
  the undo snapshot `LoadRom` had deleted comes back and survives.
* iOS: `emuLock` belongs to a renderer, the native context to all; the loop of a
  dismantled view and the new view can be in the context together.
* libretro: `adoptDynamicCore` compares a new name with the pending core's only.
  Adopting the running core again while another waits, or its library under
  another name, opens the library a second time: `retro_init` runs under the
  running game, and closing either handle runs `retro_deinit` for both; the next
  `retro_load_game` is then made on a core that was deinitialised.
  (`reopened` in `LibretroCores`; the properties except such libraries.)
  `systemId_` already names the next system while the old game runs, so a rebind
  uses the next system's buttons; an option staged for the core that also runs
  reaches the running game; a core that lists its options again keeps a value
  its new list may not have.
* Surfaces: clearing a surface frees the filter chain, and binding the next does
  not load it again; `VK_ERROR_OUT_OF_DATE_KHR` with an unchanged size never
  rebuilds the swapchain; a submission that fails after the fence was reset
  leaves the next `present` waiting for good; an output image without memory is
  kept with the old size; a swapchain that could not be built is not tried again
  before the next surface event; the same Surface detached by time-out and
  attached again before the loop looked is never bound again; on a fast remount
  the old view's callback returns at once (`EmulatorSession.kt:524`), with its
  window perhaps still bound, though the comment below it says that the Surface
  is invalid then (`WindowReleased`, second conjunct; so it is after a time-out);
  a SetShader that timed out may be applied after a later one.
* Output: with a worker the second game's boot skip takes the outgoing game's
  picture as its baseline, for the wait at `emulator_host.cpp:433` only looks for
  an empty buffer; blank-screen ticks or a long preroll may push the replayed
  attack out of the ring before the pump runs; one late picture per boot can get
  past the flags that withhold it.
* Rumble: on Android pausing cancels the vibration, but `doFrame` goes on
  reading the core's last rumble state, so it starts again.
* Latch, Android: a sample between the two steps of a release leaves the button
  down, and a press between the sample's two reads is consumed unseen (set
  `Locked = FALSE` in `LatchLocked.cfg`; `NoStuckButton` and `TapsAreShown` fail).
* Session: the outgoing game's next frame may report `EmulatorStarted` with the
  incoming path; a second load between the reads of ROM and prefix boots the
  first ROM on the second's battery file; a frame in flight may put the status
  back after `EmulatorStopped`; a ROM loaded while paused runs unheard, for the
  pump stays paused (on iOS too).
* Rewind: a smaller buffer configured over a longer history leaves it too long
  for good; run-ahead on an engine that cannot serialize runs at double speed.
* States: an untagged file goes to whichever engine runs, though the comment
  says legacy files load as ares states.
* Slots: a save that fails leaves the slot empty and its old state in the undo
  file only. A first save to an empty slot, and a save whose rename failed, leave
  the undo of an earlier save on offer, perhaps for another slot, where
  `EmulatorFunctions.kt:720` says "Undo most recent state save" (`UndoRestores`
  says "that moved a state away"). A save that timed out may land after the undo
  of it. `stateSave` ignores `fclose` (line 1091): a disk that fills up at the
  last flush gives a torn slot and the answer "saved". Slots belong to a surface
  and not to a game, so a slot may hold another game's state.
* iOS: a late `deinit`, or that of a duplicate that never started, detaches the
  live game's pump; a stop followed by a load within one loop pass leaves two
  loops on one renderer; with the declarative boot thread as a second caller at
  the same time (`latest.overlap`) a failing and a succeeding load can leave a game
  without a loop; under unserialised access pause does not guarantee a flush.

## Limits of the models

* `PressLatch` and `ControllerBindings` interleave atomics in program order; the
  code uses relaxed ordering, which may show more.
* `IosRenderers` executes overlapping accesses one after the other. What a real
  overlap does to the context is undefined; that it happens is an observation
  above, and the properties are about the registry, loops and boots.
* `VulkanSurface`: one fence stands for the two in flight, one size for width
  and height; the picture itself, the source image and the blits are left out.
  A screenshot is what it would find, not a call. Failures strike between
  driver calls, at most once per kind. The end of the render thread
  (`nativeReleaseRenderer`) is left out, and so is `EmulatorSession.release`,
  which only the test harness calls and which leaves `romLoaded` set; `onPause`
  is modelled, though its only caller here is the harness activity.
* `LibretroCores`: calls on the backend from other threads (option queries) are
  left out; they read without a lock.
* `HostOutput`: volume, balance and the samples' values are left out, so is the
  threshold that makes a tick loud; a tick makes one pair.
* Memory errors (a vector read while it is refilled, a host deleted while JNI
  calls hold it) are outside what these models tell apart.

### Not modelled

Rumble, pointing-device axes and the aim cursor, memory watches, the touch pad,
parameter validation and all wording; file contents below "whole or torn"; the
Metal renderer (a pending frame under one lock, a filter chain under another,
nothing that follows a surface). The PHP facade
and install commands and the pak and mia shims convert data and keep no state
that a property is about. `libretro.h` is the vendored API header, half of the
C++ lines here: its declarations have no behaviour of their own, and what a core
does behind them is external.

## Plan

1. Proofs: the safety part under the liveness properties, such as the step that
   brings each nearer its end (`RewindEnds`: playback leaves the history shorter;
   `LoadReturns`: each tick of the skip counts towards its limit).
2. An abstract session (stopped, loading, running, paused) that `AndroidSession`
   and `IosRenderers` are shown to implement.
3. Rumble, with the session's pause; `AimCursor`: the cursor of physical against
   logical ports.
4. `TouchPad`: pointers and held directions of `DpadSurface`; what is pressed is
   released, across cancel and detach.
5. `MemoryWatch`: snapshot, compare and store on both platforms.
