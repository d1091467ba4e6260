--------------------------- MODULE LibretroCores ---------------------------
(***************************************************************************)
(* The loader of bring-your-own cores, LibretroBackend, and the host calls *)
(* that reach it: staging a system, loading and unloading a ROM, ticking,  *)
(* rebinding pads, cheats and engine options.  All of them run on the      *)
(* render thread, so a call is one step.                                   *)
(*                                                                         *)
(* The backend holds two CoreRefs: current_ boots and ticks, pending_ is a *)
(* core adopted while a game runs.  A CoreRef is a dlopen handle and what  *)
(* the core declared through it; the core's own globals belong to the      *)
(* library, and two handles on one library share them.  That side of the   *)
(* API (libretro.h) is opens, live, games and chosen.                      *)
(***************************************************************************)
EXTENDS Naturals, Sequences

CONSTANTS
  Names,    \* names a config may ask for: bare names and paths
  Libs,     \* shared libraries
  LibOf,    \* the library each name opens, or NoLib
  Systems,  \* catalog systems
  Choices,  \* values of the one engine option a core may declare
  Lists,    \* per library, the lists of choices it may declare: default first
  Formats,  \* pixel formats
  Plain,    \* the format of a core that never sets one
  NoLib, NoName, NoSystem, NoChoice

ASSUME CoresAssumption ==
  /\ LibOf \in [Names -> Libs \cup {NoLib}] /\ NoLib \notin Libs
  /\ Lists \in [Libs -> SUBSET Seq(Choices)]
  /\ Plain \in Formats
  /\ NoName \notin Names /\ NoSystem \notin Systems /\ NoChoice \notin Choices

VARIABLES
  current,   \* CoreRef current_
  pending,   \* CoreRef pending_
  envTarget, \* whether environment calls are answered from current_
  sActive,   \* whether the callbacks find the backend
  systemId,  \* the system the adoption serves
  loaded,    \* a game is loaded on current_
  pads,      \* the system whose buttons keyHandles_ was built from
  cheats,    \* whether cheatWrites_ has entries
  staged,    \* the host's stagedBackend_ and stagedSystem_
  active,    \* the host's activeBackend_
  romLoaded, \* the host's romLoaded_
  opens,     \* per library: dlopen handles not closed
  live,      \* libraries whose globals retro_init set up
  games,     \* libraries with a game loaded
  chosen,    \* per library: the format it set and the option value it read
  reopened   \* history: libraries opened a second time while open

backend == <<current, pending, envTarget, sActive, systemId, loaded, pads, cheats>>
host    == <<staged, active, romLoaded>>
library == <<opens, live, games, chosen>>
vars    == <<backend, host, library, reopened>>

Engines == {"none", "libretro", "other"}
Refs == [name: Names \cup {NoName}, list: Seq(Choices),
         value: Choices \cup {NoChoice}, updated: BOOLEAN, format: Formats]
NoRef == [name |-> NoName, list |-> <<>>, value |-> NoChoice,
          updated |-> FALSE, format |-> Plain]
Fresh == [format |-> Plain, seen |-> NoChoice]

TypeOK ==
  /\ current \in Refs /\ pending \in Refs
  /\ envTarget \in BOOLEAN /\ sActive \in BOOLEAN
  /\ systemId \in Systems \cup {NoSystem}
  /\ loaded \in BOOLEAN
  /\ pads \in Systems \cup {NoSystem} /\ cheats \in BOOLEAN
  /\ staged \in [engine: Engines, system: Systems \cup {NoSystem}]
  /\ active \in Engines /\ romLoaded \in BOOLEAN
  /\ opens \in [Libs -> Nat]
  /\ live \subseteq Libs /\ games \subseteq Libs
  /\ chosen \in [Libs -> [format: Formats, seen: Choices \cup {NoChoice}]]
  /\ reopened \subseteq Libs

Init ==
  /\ current = NoRef /\ pending = NoRef
  /\ envTarget = FALSE /\ sActive = FALSE
  /\ systemId = NoSystem /\ loaded = FALSE
  /\ pads = NoSystem /\ cheats = FALSE
  /\ staged = [engine |-> "none", system |-> NoSystem]
  /\ active = "none" /\ romLoaded = FALSE
  /\ opens = [l \in Libs |-> 0]
  /\ live = {} /\ games = {}
  /\ chosen = [l \in Libs |-> Fresh]
  /\ reopened = {}

-----------------------------------------------------------------------------
(* Helpers: who holds a library.                                           *)

Lib(ref)   == LibOf[ref.name]
BootTarget == IF pending # NoRef THEN pending ELSE current

Holds(ref, l) == IF ref # NoRef /\ Lib(ref) = l THEN 1 ELSE 0

\* SET_VARIABLES: the new list replaces the old; a value already held is kept.
Declared(ref, list) ==
  [ref EXCEPT !.list = list,
              !.value = IF @ = NoChoice /\ list # <<>> THEN Head(list) ELSE @]
-----------------------------------------------------------------------------
(* Staging: EmulatorHost::stageSystem, which asks every backend to adopt a *)
(* name that is no engine's.                                               *)

StageCore(s) == staged' = [engine |-> "libretro", system |-> s]

\* The name is the staged core's already: only the system changes.
Held(n) == n = BootTarget.name

AdoptHeld(n, s) ==
  /\ Held(n)
  /\ systemId' = s
  /\ StageCore(s)
  /\ UNCHANGED <<current, pending, envTarget, sActive, loaded, pads, cheats,
                 active, romLoaded, library, reopened>>

\* No library by that name, or one without the entry points: nothing staged.
AdoptFails(n, s) ==
  /\ ~Held(n)
  /\ LibOf[n] = NoLib
  /\ UNCHANGED vars


\* The handles on a library an adoption closes: of what was pending, and of
\* an idle current_.
Shut(l) == Holds(pending, l) + (IF loaded THEN 0 ELSE Holds(current, l))

\* probeCore opens the library and runs retro_init, which sets its globals
\* up; then the adoption goes behind the running game, or takes the place of
\* whatever was adopted.  closeCore runs retro_deinit, whoever else holds the
\* library, and dlclose.
AdoptFresh(n, s, list) ==
  LET l     == LibOf[n]
      fresh == Declared([NoRef EXCEPT !.name = n], list)
  IN
  /\ ~Held(n)
  /\ l # NoLib /\ list \in Lists[l]
  /\ sActive' = TRUE
  /\ IF loaded
     THEN /\ pending' = fresh
          /\ UNCHANGED <<current, envTarget>>
     ELSE /\ pending' = NoRef
          /\ current' = fresh
          /\ envTarget' = FALSE
  /\ opens' = [k \in Libs |-> opens[k] + Holds(fresh, k) - Shut(k)]
  /\ live' = {k \in live \cup {l} : Shut(k) = 0}
  /\ chosen' = [k \in Libs |-> IF k = l \/ Shut(k) > 0 THEN Fresh ELSE chosen[k]]
  /\ reopened' = {k \in reopened \cup {l} : opens[k] > 0 /\ opens'[k] > 0}
  /\ systemId' = s
  /\ StageCore(s)
  /\ UNCHANGED <<loaded, pads, cheats, active, romLoaded, games>>

\* A bundled engine is staged: the adopted cores stay where they are.
StageOther(s) ==
  /\ staged' = [engine |-> "other", system |-> s]
  /\ UNCHANGED <<backend, active, romLoaded, library, reopened>>

-----------------------------------------------------------------------------
(* loadRom and unloadGame.                                                 *)

\* Bug: unload keeps the handles and the cheats of the last game.
ForgetLoaded ==
  /\ loaded' = FALSE /\ sActive' = FALSE
  /\ UNCHANGED <<pads, cheats>>

\* LibretroBackend::unload, by the host's unloadGame.
Forget ==
  /\ loaded' = FALSE /\ sActive' = FALSE
  /\ pads' = NoSystem /\ cheats' = FALSE

\* Bug: the game is left loaded in its core.
GamesLeft == games

\* After retro_unload_game on the running core's library.
GamesClosed == IF loaded THEN games \ {Lib(current)} ELSE games

UnloadCore ==
  /\ Forget
  /\ games' = GamesClosed
  /\ UNCHANGED <<current, pending, envTarget, systemId, opens, live, chosen>>

UnloadGame ==
  /\ active # "none"
  /\ IF active = "libretro" THEN UnloadCore ELSE UNCHANGED <<backend, library>>
  /\ romLoaded' = FALSE
  /\ UNCHANGED <<staged, active, reopened>>

\* analyze, and the check at the head of boot.
Adopted == BootTarget # NoRef /\ staged.system = systemId

\* Bug: the pending core takes over without closing the old one.
SwappedOpen(l) == 0

\* The handles on a library that boot closes: of the core the pending
\* adoption takes over from.
Swapped(l) == IF pending = NoRef THEN 0 ELSE Holds(current, l)

\* boot up to retro_load_game: the swap, after the host unloaded the game.
SwapIn ==
  /\ pending' = NoRef
  /\ envTarget' = TRUE
  /\ opens' = [l \in Libs |-> opens[l] - Swapped(l)]
  /\ live' = {l \in live : Swapped(l) = 0}
  /\ reopened' = {l \in reopened : opens'[l] > 0}
  /\ UNCHANGED <<systemId, staged>>

\* The globals after the swap.
Kept == [l \in Libs |-> IF Swapped(l) > 0 THEN Fresh ELSE chosen[l]]

\* loadRom with the loader staged; the core refuses the ROM, or there is no
\* path to stage a file for a core that needs one.
LoadRomRefused ==
  /\ staged.engine = "libretro" /\ Adopted
  /\ SwapIn
  /\ current' = BootTarget
  /\ games' = GamesClosed
  /\ chosen' = Kept
  /\ Forget
  /\ active' = "libretro" /\ romLoaded' = FALSE

\* Bug: the format the core sets goes to no CoreRef.
Unheard(ref, f) == ref

\* SET_PIXEL_FORMAT.
Formatted(ref, f) == [ref EXCEPT !.format = f]

\* The core takes the ROM; in retro_load_game it sets its pixel format and
\* reads its option.
LoadRom(f) ==
  /\ staged.engine = "libretro" /\ Adopted
  /\ SwapIn
  /\ current' = Formatted(BootTarget, f)
  /\ games' = GamesClosed \cup {Lib(BootTarget)}
  /\ chosen' = [Kept EXCEPT ![Lib(BootTarget)] =
                  [format |-> f, seen |-> BootTarget.value]]
  /\ loaded' = TRUE /\ sActive' = TRUE
  /\ pads' = systemId /\ cheats' = FALSE
  /\ active' = "libretro" /\ romLoaded' = TRUE

\* loadRom with a bundled engine staged: it boots, or it does not.
LoadRomOther(ok) ==
  /\ staged.engine = "other"
  /\ IF romLoaded /\ active = "libretro" THEN UnloadCore
     ELSE UNCHANGED <<backend, library>>
  /\ active' = "other" /\ romLoaded' = ok
  /\ UNCHANGED <<staged, reopened>>

-----------------------------------------------------------------------------
(* A running game.                                                         *)

Running == romLoaded /\ active = "libretro" /\ loaded

\* An environment call of the running core is answered.
Served == sActive /\ envTarget

\* retro_run: the core asks GET_VARIABLE_UPDATE, and reads its option when
\* it is told to.
Tick ==
  /\ Running
  /\ IF Served /\ current.updated
     THEN /\ current' = [current EXCEPT !.updated = FALSE]
          /\ chosen' = [chosen EXCEPT ![Lib(current)].seen = current.value]
     ELSE UNCHANGED <<current, chosen>>
  /\ UNCHANGED <<pending, envTarget, sActive, systemId, loaded, pads, cheats,
                 host, opens, live, games, reopened>>

\* retro_run: the core lists its options again and reads the one it has.
Redeclare(list) ==
  /\ Running /\ Served
  /\ list \in Lists[Lib(current)]
  /\ current' = Declared(current, list)
  /\ chosen' = [chosen EXCEPT ![Lib(current)].seen = Declared(current, list).value]
  /\ UNCHANGED <<pending, envTarget, sActive, systemId, loaded, pads, cheats,
                 host, opens, live, games, reopened>>

\* A device came or went: the handles are built again, for systemId_.
Rebind ==
  /\ Running
  /\ pads' = systemId
  /\ UNCHANGED <<current, pending, envTarget, sActive, systemId, loaded, cheats,
                 host, library, reopened>>

\* syncCheats, from the host's table.
SyncCheats(some) ==
  /\ Running
  /\ cheats' = some
  /\ UNCHANGED <<current, pending, envTarget, sActive, systemId, loaded, pads,
                 host, library, reopened>>

\* Bug: the core is not told of the new value.
SetQuietly(ref, v) == [ref EXCEPT !.value = v]

Set(ref, v) == [ref EXCEPT !.value = v, !.updated = TRUE]
Legal(ref, v) == \E i \in 1..Len(ref.list) : ref.list[i] = v

\* setEngineOption for the next boot goes to the staged backend's target.
StageOption(v) ==
  /\ \/ staged.engine = "libretro"
     \/ staged.engine = "none" /\ active = "libretro"
  /\ BootTarget # NoRef /\ Legal(BootTarget, v)
  /\ IF pending # NoRef
     THEN pending' = Set(pending, v) /\ UNCHANGED current
     ELSE current' = Set(current, v) /\ UNCHANGED pending
  /\ UNCHANGED <<envTarget, sActive, systemId, loaded, pads, cheats,
                 host, library, reopened>>

\* setEngineOption for the running game.
SetOption(v) ==
  /\ active = "libretro" /\ current # NoRef /\ loaded
  /\ Legal(current, v)
  /\ current' = Set(current, v)
  /\ UNCHANGED <<pending, envTarget, sActive, systemId, loaded, pads, cheats,
                 host, library, reopened>>

-----------------------------------------------------------------------------
Next ==
  \/ \E n \in Names, s \in Systems :
       \/ AdoptHeld(n, s)
       \/ AdoptFails(n, s)
       \/ \E list \in UNION {Lists[l] : l \in Libs} : AdoptFresh(n, s, list)
  \/ \E s \in Systems : StageOther(s)
  \/ UnloadGame
  \/ LoadRomRefused
  \/ \E f \in Formats : LoadRom(f)
  \/ \E ok \in BOOLEAN : LoadRomOther(ok)
  \/ Tick
  \/ \E list \in UNION {Lists[l] : l \in Libs} : Redeclare(list)
  \/ Rebind
  \/ \E some \in BOOLEAN : SyncCheats(some)
  \/ \E v \in Choices : StageOption(v) \/ SetOption(v)

Spec == Init /\ [][Next]_vars

-----------------------------------------------------------------------------
(* Properties.                                                             *)

\* Every handle dlopen returned is held by one CoreRef or was closed: no
\* adoption, failed boot or swap leaks a library or closes one in use.
HandlesBalanced ==
  \A l \in Libs : opens[l] = Holds(current, l) + Holds(pending, l)

\* The backend's view of a game and the host's agree, and while one runs
\* its core's callbacks and environment calls are answered: adopting other
\* cores, whose retro_init makes calls of its own, must not take them away.
\* When none runs no handle and no cheat of the last game is left.
RunningServed ==
  /\ loaded <=> romLoaded /\ active = "libretro"
  /\ loaded => current # NoRef /\ Served /\ Lib(current) \in games
  /\ ~loaded => pads = NoSystem /\ ~cheats

\* The core under a running game is initialised, and the host converts its
\* frames from the format it chose, unless its library was opened twice.
CoreAlive ==
  loaded /\ Lib(current) \notin reopened =>
    /\ Lib(current) \in live
    /\ chosen[Lib(current)].format = current.format

\* What stageSystem accepted, loadRom finds adopted: whatever was adopted,
\* refused, booted or staged in between.
StagedMatches == staged.engine = "libretro" => Adopted

\* A core that was given a new option value is told so, or reads it when
\* its game loads: no update is lost between setEngineOption and the core.
OptionHeard ==
  loaded /\ Lib(current) \notin reopened =>
    current.updated \/ chosen[Lib(current)].seen = current.value

\* "The swap lands at the next boot, never under the running game": what is
\* pending leaves the running core where it is, and no core is
\* deinitialised under its game, unless its library was opened twice.
RunningCoreKept ==
  [][ /\ loaded /\ pending' # NoRef => current'.name = current.name
      /\ live \ live' \subseteq (Libs \ games') \cup reopened' ]_vars
=============================================================================
