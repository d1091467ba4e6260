--------------------------- MODULE HostLifecycle ---------------------------
(***************************************************************************)
(* The boot and teardown life cycle of EmuHost::EmulatorHost               *)
(* (src/native/host/emulator_host.cpp): staging a system, loading and      *)
(* swapping ROMs, stopping, battery saves, cheats and the state that       *)
(* belongs to one game.  Every call is made on the one thread that owns    *)
(* the host (the Android render thread, the iOS loop under its lock), so a *)
(* call is one step.  What other threads may touch while a call runs is    *)
(* the subject of PressLatch and ControllerBindings.                       *)
(*                                                                         *)
(* A ROM is identified with the save prefix the platform derives from it.  *)
(* Battery memory is a number that stands for the player's progress; an    *)
(* engine keeps it in `board`, and the engines in Mirrored (ares) also     *)
(* keep a copy in the cartridge pak, which only System::save() refreshes.  *)
(***************************************************************************)
EXTENDS Naturals

CONSTANTS
  Engines,     \* registered backends
  Mirrored,    \* the backends whose saves are written from a pak copy (ares)
  Systems,     \* catalog systems
  Serves,      \* pairs <<system, engine>> the registry accepts
  Prefixes,    \* save prefixes, one per ROM
  NoPrefix,    \* the empty prefix: persistence disabled
  Codes,       \* cheat codes
  AddrsOf,     \* the addresses each code patches
  SlotCarts,   \* slotted-media positions (two in the code)
  Buttons,     \* software buttons a caller may hold
  Paths,       \* save-state files
  Untagged,    \* the tag of a legacy state file
  Blank,       \* no battery file on disk, or an empty one
  Torn,        \* a battery file that a write left incomplete
  NoGame,      \* an engine that runs nothing
  NoFile,      \* a state file that does not exist
  Nothing,     \* a null stagedBackend_ or activeBackend_
  MaxBoots,    \* bound on boots
  MaxProgress  \* bound on the progress a battery can hold

Saveable == Prefixes \ {NoPrefix}
Progress == 0 .. MaxProgress
Boots    == 1 .. MaxBoots
Addrs    == UNION {AddrsOf[c] : c \in Codes}
Decls    == [system: Systems, engine: Engines]
Snaps    == [boot: Boots, board: Progress]

\* The cartridge an engine runs: the prefix and boot it was given, its battery
\* memory, the pak copy of it, and the cheats the engine currently applies.
Games == [prefix: Prefixes, boot: Boots, board: Progress, pak: Progress,
          cheats: SUBSET Addrs]
\* What a write that fails may leave: fopen("wb") truncates first.
Damage == {Blank, Torn}

StateFiles == [tag: Engines \cup {Untagged}, by: Engines, board: Progress]

ASSUME EnginesAssumption ==
  /\ Mirrored \subseteq Engines
  /\ Serves \subseteq Systems \X Engines
  /\ Untagged \notin Engines
ASSUME PrefixAssumption == NoPrefix \in Prefixes
ASSUME CodesAssumption == DOMAIN AddrsOf = Codes
ASSUME SentinelAssumption ==
  /\ NoGame \notin Games \cup Prefixes
  /\ Blank \notin Nat /\ Torn \notin Nat
  /\ NoFile \notin StateFiles
  /\ Nothing \notin Decls
ASSUME BoundAssumption == MaxBoots \in Nat /\ MaxProgress \in Nat

VARIABLES
  staged,        \* stagedBackend_, stagedSystem_
  active,        \* activeBackend_, activeSystem_
  loaded,        \* systemLoaded_ and romLoaded_, which are assigned together
  savePrefix,    \* savePrefix_
  stagedSlot,    \* slots with bytes in stagedSlot_
  slotConnected, \* slots of the running cartridge that are populated
  cheats,        \* cheats_
  cheatLookup,   \* addresses in cheatLookup_
  rewind,        \* rewind_: enabled, rewinding, history
  paused,        \* paused_
  pressed,       \* swMask_, unsampledPress_ and deferredRelease_
  engine,        \* what each backend instance runs
  disk,          \* "<prefix>.save.ram"
  states,        \* save-state files
  ioFault,       \* history: the last battery write failed
  boots          \* boots so far

hostVars  == <<staged, active, loaded, savePrefix, stagedSlot, slotConnected>>
gameVars  == <<cheats, cheatLookup, rewind, paused, pressed>>
diskVars  == <<disk, states, ioFault>>
vars == <<hostVars, gameVars, engine, diskVars, boots>>

NoRewind == [enabled |-> FALSE, rewinding |-> FALSE, history |-> {}]

TypeOK ==
  /\ staged \in Decls \cup {Nothing}
  /\ active \in Decls \cup {Nothing}
  /\ loaded \in BOOLEAN
  /\ savePrefix \in Prefixes
  /\ stagedSlot \subseteq SlotCarts
  /\ slotConnected \subseteq SlotCarts
  /\ cheats \subseteq Codes
  /\ cheatLookup \subseteq Addrs
  /\ rewind \in [enabled: BOOLEAN, rewinding: BOOLEAN, history: SUBSET Snaps]
  /\ paused \in BOOLEAN
  /\ pressed \subseteq Buttons
  /\ engine \in [Engines -> Games \cup {NoGame}]
  /\ disk \in [Saveable -> Progress \cup Damage]
  /\ states \in [Paths -> StateFiles \cup {NoFile}]
  /\ ioFault \in BOOLEAN
  /\ boots \in 0 .. MaxBoots

\* Any legacy state file may be lying around from an earlier version.
Init ==
  /\ staged = Nothing /\ active = Nothing /\ loaded = FALSE
  /\ savePrefix = NoPrefix
  /\ stagedSlot = {} /\ slotConnected = {}
  /\ cheats = {} /\ cheatLookup = {}
  /\ rewind = NoRewind
  /\ paused = FALSE /\ pressed = {}
  /\ engine = [e \in Engines |-> NoGame]
  /\ disk = [p \in Saveable |-> Blank]
  /\ states \in [Paths -> [tag: {Untagged}, by: Mirrored, board: {0}]
                          \cup {NoFile}]
  /\ ioFault = FALSE
  /\ boots = 0

----------------------------------------------------------------------------
(* Helpers *)

\* The engine whose game the host runs.
Runner == active.engine
Game   == engine[Runner]

\* The bytes collectSaveMedia writes for game g of engine e.
Collected(e, g) == IF e \in Mirrored THEN g.pak ELSE g.board

\* One SaveMediaIO write of game g through `prefix`: no file without a prefix.
\* A file that cannot be opened stays as it was; a short write, or a last
\* flush that fails in fclose, leaves a damaged one.
WriteBattery(prefix, value) ==
  IF prefix \in Saveable
    THEN \/ /\ disk' = [disk EXCEPT ![prefix] = value]
            /\ ioFault' = FALSE
         \/ /\ disk' \in {disk} \cup {[disk EXCEPT ![prefix] = d] : d \in Damage}
            /\ ioFault' = TRUE
    ELSE UNCHANGED <<disk, ioFault>>

\* Bug: the boot never reads the file.
SeedFresh(files, prefix) == {0}

\* The battery memory a boot through `prefix` may start with: what the bytes of
\* a damaged file mean to a game is anyone's guess.
SeedFrom(files, prefix) ==
  IF prefix \notin Saveable \/ files[prefix] = Blank THEN {0}
  ELSE IF files[prefix] = Torn THEN Progress
  ELSE {files[prefix]}

Merged(cs) == UNION {AddrsOf[c] : c \in cs}

\* Bug: the timeline outlives its game.
DropKeepsTimeline ==
  /\ pressed' = {} /\ cheats' = {} /\ cheatLookup' = {} /\ paused' = FALSE
  /\ UNCHANGED rewind

\* Bug: the next game starts paused.
DropKeepsPause ==
  /\ pressed' = {} /\ cheats' = {} /\ cheatLookup' = {}
  /\ rewind' = [rewind EXCEPT !.rewinding = FALSE, !.history = {}]
  /\ UNCHANGED paused

\* What unloadGame resets on the host side: all of it belongs to the game.
DropGameState ==
  /\ pressed' = {}
  /\ cheats' = {} /\ cheatLookup' = {}
  /\ rewind' = [rewind EXCEPT !.rewinding = FALSE, !.history = {}]
  /\ paused' = FALSE

\* The backend side of unloadGame(flushSaves).
UnloadBattery(flush) ==
  IF flush /\ Game # NoGame
    THEN WriteBattery(savePrefix, Collected(Runner, Game))
    ELSE UNCHANGED <<disk, ioFault>>

----------------------------------------------------------------------------
(* Staging *)

StageSystem(s, e) ==
  /\ <<s, e>> \in Serves
  /\ staged' = [system |-> s, engine |-> e]
  /\ UNCHANGED <<active, loaded, savePrefix, stagedSlot, slotConnected,
                 gameVars, engine, diskVars, boots>>

StageSlot(i) ==
  /\ \/ stagedSlot' = stagedSlot \cup {i}
     \/ stagedSlot' = stagedSlot \ {i}
  /\ UNCHANGED <<staged, active, loaded, savePrefix, slotConnected,
                 gameVars, engine, diskVars, boots>>

----------------------------------------------------------------------------
(* loadRom.  A load with nothing staged, an empty ROM or a ROM the analysis *)
(* refuses returns before any assignment, so it is a stuttering step.       *)

\* The teardown of the running game; without one nothing is torn down.
Teardown ==
  IF loaded
    THEN UnloadBattery(TRUE)
    ELSE UNCHANGED <<disk, ioFault>>

\* Every engine but the one that boots, as the teardown leaves it.
AfterTeardown ==
  [e \in Engines |-> IF loaded /\ e = Runner THEN NoGame ELSE engine[e]]

LoadRomBoots(p) ==
  /\ staged # Nothing
  /\ boots < MaxBoots
  /\ savePrefix' = p
  /\ Teardown
  /\ active' = staged
  /\ loaded' = TRUE
  /\ boots' = boots + 1
  /\ IF loaded THEN DropGameState ELSE UNCHANGED gameVars
  /\ \E consumed \in SUBSET stagedSlot :
       /\ stagedSlot' = stagedSlot \ consumed
       /\ slotConnected' \in SUBSET consumed
  /\ \E seed \in SeedFrom(disk', p) :
       engine' = [AfterTeardown EXCEPT ![staged.engine] =
                    [prefix |-> p, boot |-> boots + 1, board |-> seed, pak |-> seed,
                     cheats |-> cheatLookup']]
  /\ UNCHANGED <<staged, states>>

\* The engine refuses the boot: the old game is gone and nothing replaces it.
LoadRomFails(p) ==
  /\ staged # Nothing
  /\ savePrefix' = p
  /\ Teardown
  /\ active' = staged
  /\ loaded' = FALSE
  /\ slotConnected' = {}
  /\ DropGameState
  /\ engine' = [AfterTeardown EXCEPT ![staged.engine] = NoGame]
  /\ UNCHANGED <<staged, stagedSlot, states, boots>>

----------------------------------------------------------------------------
(* Stopping: reset() on iOS, destroy and a fresh host on Android.          *)

Reset ==
  /\ engine' = [e \in Engines |->
                  IF loaded /\ e = Runner THEN NoGame ELSE engine[e]]
  /\ staged' = Nothing /\ active' = Nothing /\ loaded' = FALSE
  /\ savePrefix' = NoPrefix
  /\ stagedSlot' = {} /\ slotConnected' = {}
  /\ cheats' = {} /\ cheatLookup' = {}
  /\ rewind' = NoRewind
  /\ paused' = FALSE /\ pressed' = {}
  /\ UNCHANGED <<diskVars, boots>>

----------------------------------------------------------------------------
(* Battery saves *)

\* syncSave makes the pak current, then collectSaveMedia writes it.
FlushSaves ==
  /\ loaded /\ savePrefix # NoPrefix
  /\ engine' = IF Runner \in Mirrored
                 THEN [engine EXCEPT ![Runner].pak = Game.board]
                 ELSE engine
  /\ WriteBattery(savePrefix, Game.board)
  /\ UNCHANGED <<hostVars, gameVars, states, boots>>

----------------------------------------------------------------------------
(* Running *)

\* rewindRun, ending with the progress the frame starts from.  The buffer is
\* abstracted to the set of its snapshots; its timing is RewindTimeline.
RewindRun(base) ==
  \/ base = Game.board /\ UNCHANGED rewind
  \/ /\ rewind.enabled /\ ~rewind.rewinding
     /\ base = Game.board
     /\ LET snap == [boot |-> Game.boot, board |-> Game.board] IN
        \E oldest \in rewind.history \cup {snap} :
          rewind' = [rewind EXCEPT !.history = (@ \ {oldest}) \cup {snap}]
  \/ /\ rewind.rewinding /\ rewind.history = {}
     /\ base = Game.board
     /\ rewind' = [rewind EXCEPT !.rewinding = FALSE]
  \/ /\ rewind.rewinding
     /\ \E s \in rewind.history :
        \E rest \in {rewind.history, rewind.history \ {s}} :
          /\ base \in {s.board, Game.board}
          /\ rewind' = [rewind EXCEPT !.history = rest,
                                      !.rewinding = (rest # {})]

\* One tick: the rewind step, then a frame in which the game may progress.
Tick ==
  /\ loaded /\ ~paused
  /\ \E base \in Progress :
       /\ RewindRun(base)
       /\ \E b \in {base, base + 1} \cap Progress :
            engine' = [engine EXCEPT ![Runner].board = b]
  /\ UNCHANGED <<hostVars, cheats, cheatLookup, paused, pressed, diskVars,
                 boots>>

Pause ==
  /\ paused' = TRUE
  /\ UNCHANGED <<hostVars, cheats, cheatLookup, rewind, pressed, engine,
                 diskVars, boots>>

Resume ==
  /\ paused' = FALSE
  /\ UNCHANGED <<hostVars, cheats, cheatLookup, rewind, pressed, engine,
                 diskVars, boots>>

PressButton(b) ==
  /\ \/ pressed' = pressed \cup {b}
     \/ pressed' = pressed \ {b}
  /\ UNCHANGED <<hostVars, cheats, cheatLookup, rewind, paused, engine,
                 diskVars, boots>>

ConfigureRewind(on) ==
  /\ rewind' = IF on THEN [rewind EXCEPT !.enabled = TRUE] ELSE NoRewind
  /\ UNCHANGED <<hostVars, cheats, cheatLookup, paused, pressed, engine,
                 diskVars, boots>>

ToggleRewind ==
  /\ rewind.enabled
  /\ rewind' = [rewind EXCEPT !.rewinding = ~@]
  /\ UNCHANGED <<hostVars, cheats, cheatLookup, paused, pressed, engine,
                 diskVars, boots>>

\* A jump keeps some older entries and restores one of the others.
RewindJump ==
  /\ rewind.enabled /\ active # Nothing
  /\ \E s \in rewind.history, kept \in SUBSET rewind.history :
       /\ s \notin kept
       /\ rewind' = [rewind EXCEPT !.rewinding = FALSE, !.history = kept]
       /\ engine' = [engine EXCEPT ![Runner] =
                       IF @ = NoGame THEN @ ELSE [@ EXCEPT !.board = s.board]]
  /\ UNCHANGED <<hostVars, cheats, cheatLookup, paused, pressed, diskVars,
                 boots>>

----------------------------------------------------------------------------
(* Cheats *)

\* rebuildCheatLookup: the merged table, pushed to the engine while it runs.
RebuildCheatLookup(cs) ==
  /\ cheatLookup' = Merged(cs)
  /\ engine' = IF loaded
                 THEN [engine EXCEPT ![Runner].cheats = Merged(cs)]
                 ELSE engine

AddCheat(c) ==
  /\ AddrsOf[c] # {}
  /\ cheats' = cheats \cup {c}
  /\ RebuildCheatLookup(cheats')
  /\ UNCHANGED <<hostVars, rewind, paused, pressed, diskVars, boots>>

\* Bug: removing a code removes its addresses, shared ones too.
RemoveErases(c) ==
  /\ c \in cheats
  /\ cheats' = cheats \ {c}
  /\ cheatLookup' = cheatLookup \ AddrsOf[c]
  /\ engine' = IF loaded THEN [engine EXCEPT ![Runner].cheats = cheatLookup']
                         ELSE engine
  /\ UNCHANGED <<hostVars, rewind, paused, pressed, diskVars, boots>>

RemoveCheat(c) ==
  /\ c \in cheats
  /\ cheats' = cheats \ {c}
  /\ RebuildCheatLookup(cheats')
  /\ UNCHANGED <<hostVars, rewind, paused, pressed, diskVars, boots>>

ClearCheats ==
  /\ cheats' = {}
  /\ RebuildCheatLookup({})
  /\ UNCHANGED <<hostVars, rewind, paused, pressed, diskVars, boots>>

----------------------------------------------------------------------------
(* Save states *)

\* A save that cannot be serialized or opened changes nothing.
StateSave(f) ==
  /\ loaded
  /\ states' = [states EXCEPT ![f] =
                  [tag |-> Runner, by |-> Runner, board |-> Game.board]]
  /\ UNCHANGED <<hostVars, gameVars, engine, disk, ioFault, boots>>

\* Bug: the tag is not compared.
StateLoadUnchecked(f) ==
  /\ loaded /\ states[f] # NoFile
  /\ engine' = [engine EXCEPT ![Runner].board = states[f].board]
  /\ UNCHANGED <<hostVars, gameVars, diskVars, boots>>

\* A file tagged by another engine is refused; an untagged one is handed to
\* whichever engine runs.  The engine may refuse what it is handed.
StateLoad(f) ==
  /\ loaded /\ states[f] # NoFile
  /\ states[f].tag \in {Untagged, Runner}
  /\ \/ engine' = [engine EXCEPT ![Runner].board = states[f].board]
     \/ UNCHANGED engine
  /\ UNCHANGED <<hostVars, gameVars, diskVars, boots>>

----------------------------------------------------------------------------

Staging ==
  \/ \E s \in Systems, e \in Engines : StageSystem(s, e)
  \/ \E i \in SlotCarts : StageSlot(i)

Loading ==
  \/ \E p \in Prefixes : LoadRomBoots(p)
  \/ \E p \in Prefixes : LoadRomFails(p)
  \/ Reset

Running ==
  \/ Tick
  \/ Pause
  \/ Resume
  \/ \E b \in Buttons : PressButton(b)
  \/ \E on \in BOOLEAN : ConfigureRewind(on)
  \/ ToggleRewind
  \/ RewindJump

Cheating ==
  \/ \E c \in Codes : AddCheat(c)
  \/ \E c \in Codes : RemoveCheat(c)
  \/ ClearCheats

Saving ==
  \/ FlushSaves
  \/ \E f \in Paths : StateSave(f)
  \/ \E f \in Paths : StateLoad(f)

Next == Staging \/ Loading \/ Running \/ Cheating \/ Saving

Spec == Init /\ [][Next]_vars

----------------------------------------------------------------------------
(* Properties *)

\* Exactly one backend runs a game, and it is the active one: a swap between
\* engines never leaves the outgoing engine holding its game.
OneGame ==
  /\ loaded => active # Nothing
  /\ \A e \in Engines : engine[e] # NoGame <=> loaded /\ e = Runner

\* The prefix the host would flush through is the one the running game was
\* booted with, through every order of loads, failed boots and resets.
PrefixMatches == loaded => Game.prefix = savePrefix

\* The table the engine applies is exactly the merge of the codes in force:
\* codes that patch the same address survive each other's removal, codes
\* added before a boot reach the engine, none outlives its game.
CheatTableExact ==
  /\ cheatLookup = Merged(cheats)
  /\ loaded => Game.cheats = cheatLookup

\* The rewind timeline holds snapshots of the running game only, so rewinding
\* never restores another cartridge's memory.
RewindWithinGame ==
  \A s \in rewind.history : loaded /\ s.boot = Game.boot

\* A tagged state reaches only the engine that wrote it, whatever was staged,
\* booted or swapped between the save and the load.
TaggedStatesStayHome ==
  [][\A f \in Paths :
       StateLoad(f) /\ states[f].tag # Untagged => states[f].by = Runner]_vars

\* The running game gives way to another boot, successful or not.
Swapped == loaded /\ active' # Nothing /\ (~loaded' \/ boots' # boots)

SavedOrFault ==
  Swapped /\ savePrefix \in Saveable => disk'[savePrefix] = Game.board \/ ioFault'

\* A ROM swap writes the outgoing game's progress to its own file, unless that
\* write fails.
SwapSavesProgress == [][SavedOrFault]_vars

\* That holds of the engines whose battery memory is read live.
LiveSwapsSave == [][Runner \notin Mirrored => SavedOrFault]_vars

WritesOwnFile ==
  \A p \in Saveable : disk'[p] # disk[p] => loaded /\ Game.prefix = p

\* Only the running game's own battery file is ever written.
OnlyOwnBattery == [][WritesOwnFile]_vars

LeavesNothing ==
  loaded /\ (Swapped \/ ~loaded') =>
    /\ cheats' = {} /\ cheatLookup' = {}
    /\ rewind'.history = {} /\ ~rewind'.rewinding
    /\ ~paused' /\ pressed' = {}

\* Whatever ends a game ends everything that belonged to it: no cheat, rewind
\* entry, pause or held button reaches the next game.
NothingCarriesOver == [][LeavesNothing]_vars

----------------------------------------------------------------------------
(* Refinement *)

\* The console of the contract is the active engine's cartridge.
Battery == INSTANCE BatteryContract WITH
  Carts    <- Prefixes,
  Unsaved  <- NoPrefix,
  Empty    <- NoGame,
  cart     <- IF loaded THEN Game.prefix ELSE NoGame,
  memory   <- IF loaded THEN Game.board ELSE 0,
  live     <- loaded => Runner \notin Mirrored,
  kept     <- IF loaded THEN Game.pak ELSE 0,
  files    <- disk,
  fault    <- ioFault

\* The host keeps the battery contract: every step is a step of the abstract
\* console or changes nothing it can see.
KeepsContract == Battery!Contract
============================================================================
