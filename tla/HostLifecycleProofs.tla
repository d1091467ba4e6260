------------------------ MODULE HostLifecycleProofs ------------------------
(***************************************************************************)
(* Proofs about HostLifecycle for every set of engines, games, codes and   *)
(* slots: its inductive invariant and what follows from it; what it does   *)
(* with battery files and with what belongs to a game; and that it         *)
(* implements BatteryContract with any mix of engines.                     *)
(***************************************************************************)
EXTENDS HostLifecycle, TLAPS

\* The inductive invariant.  TypeOK alone is not inductive: that the running
\* game is a game, not NoGame, needs OneGame.
IInv ==
  /\ TypeOK
  /\ OneGame
  /\ PrefixMatches
  /\ CheatTableExact
  /\ RewindWithinGame

USE DEF Saveable, Decls, Runner, Game

\* A running host has a declaration, an engine and a game.
LEMMA RunningGame ==
  ASSUME TypeOK, OneGame, loaded
  PROVE  /\ active \in Decls /\ Runner \in Engines
         /\ Game \in Games /\ Game # NoGame
<1>1. active \in Decls /\ Runner \in Engines
  BY DEF TypeOK, OneGame
<1>2. Game # NoGame
  BY <1>1 DEF OneGame
<1> QED BY <1>1, <1>2 DEF TypeOK

LEMMA MergedAddrs == ASSUME NEW cs \in SUBSET Codes PROVE Merged(cs) \subseteq Addrs
BY DEF Merged, Addrs

LEMMA InitIInv == Init => IInv
<1> SUFFICES ASSUME Init PROVE IInv OBVIOUS
<1>1. TypeOK
  <2>1. states \in [Paths -> StateFiles \cup {NoFile}]
    <3>1. 0 \in Progress
      BY BoundAssumption DEF Progress
    <3>2. [tag: {Untagged}, by: Mirrored, board: {0}] \subseteq StateFiles
      BY <3>1, EnginesAssumption DEF StateFiles
    <3> QED BY <3>2 DEF Init
  <2>2. rewind \in [enabled: BOOLEAN, rewinding: BOOLEAN, history: SUBSET Snaps]
    BY DEF Init, NoRewind
  <2>3. boots \in 0 .. MaxBoots
    BY BoundAssumption DEF Init
  <2> QED BY <2>1, <2>2, <2>3, PrefixAssumption DEF Init, TypeOK, Damage
<1>2. OneGame
  BY DEF Init, OneGame
<1>3. PrefixMatches /\ CheatTableExact /\ RewindWithinGame
  BY DEF Init, PrefixMatches, CheatTableExact, RewindWithinGame, NoRewind, Merged
<1> QED BY <1>1, <1>2, <1>3 DEF IInv

----------------------------------------------------------------------------
(* Each action preserves the invariant. *)

LEMMA StageSystemIInv ==
  ASSUME IInv, NEW s \in Systems, NEW e \in Engines, StageSystem(s, e)
  PROVE  IInv'
BY DEF IInv, StageSystem, hostVars, gameVars, diskVars, TypeOK,
       OneGame, PrefixMatches, CheatTableExact, RewindWithinGame

LEMMA StageSlotIInv ==
  ASSUME IInv, NEW i \in SlotCarts, StageSlot(i)
  PROVE  IInv'
BY DEF IInv, StageSlot, hostVars, gameVars, diskVars, TypeOK,
       OneGame, PrefixMatches, CheatTableExact, RewindWithinGame

LEMMA PauseIInv == ASSUME IInv, Pause PROVE IInv'
BY DEF IInv, Pause, hostVars, gameVars, diskVars, TypeOK,
       OneGame, PrefixMatches, CheatTableExact, RewindWithinGame

LEMMA ResumeIInv == ASSUME IInv, Resume PROVE IInv'
BY DEF IInv, Resume, hostVars, gameVars, diskVars, TypeOK,
       OneGame, PrefixMatches, CheatTableExact, RewindWithinGame

LEMMA PressButtonIInv ==
  ASSUME IInv, NEW b \in Buttons, PressButton(b) PROVE IInv'
BY DEF IInv, PressButton, hostVars, gameVars, diskVars, TypeOK,
       OneGame, PrefixMatches, CheatTableExact, RewindWithinGame

LEMMA ConfigureRewindIInv ==
  ASSUME IInv, NEW on \in BOOLEAN, ConfigureRewind(on) PROVE IInv'
BY DEF IInv, ConfigureRewind, NoRewind, hostVars, gameVars, diskVars,
       TypeOK, OneGame, PrefixMatches, CheatTableExact,
       RewindWithinGame

LEMMA ToggleRewindIInv == ASSUME IInv, ToggleRewind PROVE IInv'
BY DEF IInv, ToggleRewind, hostVars, gameVars, diskVars,
       TypeOK, OneGame, PrefixMatches, CheatTableExact,
       RewindWithinGame

LEMMA ResetIInv == ASSUME IInv, Reset PROVE IInv'
<1>1. rewind' \in [enabled: BOOLEAN, rewinding: BOOLEAN, history: SUBSET Snaps]
  BY DEF Reset, NoRewind
<1>2. \A e \in Engines : engine'[e] = NoGame
  BY DEF IInv, Reset, OneGame
<1>3. TypeOK'
  BY <1>1, <1>2, PrefixAssumption
  DEF IInv, Reset, TypeOK, diskVars
<1>4. OneGame' /\ PrefixMatches'
  BY <1>2 DEF Reset, OneGame, PrefixMatches
<1>5. CheatTableExact' /\ RewindWithinGame'
  BY DEF Reset, CheatTableExact, RewindWithinGame, Merged, NoRewind
<1> QED BY <1>3, <1>4, <1>5 DEF IInv

\* Editing the running game in place keeps everything about who runs what.
LEMMA EditGame ==
  ASSUME TypeOK, OneGame, PrefixMatches, loaded,
         NEW g \in Games, g.prefix = Game.prefix,
         engine' = [engine EXCEPT ![Runner] = g],
         UNCHANGED <<active, loaded, savePrefix>>
  PROVE  /\ engine' \in [Engines -> Games \cup {NoGame}]
         /\ OneGame' /\ PrefixMatches'
         /\ Game' = g
<1>1. /\ Runner \in Engines /\ Runner' = Runner
  BY RunningGame
<1>2. engine' \in [Engines -> Games \cup {NoGame}] /\ Game' = g
  BY <1>1 DEF TypeOK
<1>3. g # NoGame
  BY SentinelAssumption
<1>4. OneGame'
  BY <1>1, <1>3 DEF OneGame, TypeOK
<1>5. PrefixMatches'
  BY <1>2 DEF PrefixMatches
<1> QED BY <1>2, <1>4, <1>5

LEMMA WriteBatteryType ==
  ASSUME TypeOK, NEW p \in Prefixes, NEW v \in Progress, WriteBattery(p, v)
  PROVE  /\ disk' \in [Saveable -> Progress \cup Damage]
         /\ ioFault' \in BOOLEAN
BY DEF TypeOK, WriteBattery

LEMMA FlushSavesIInv == ASSUME IInv, FlushSaves PROVE IInv'
<1> USE DEF IInv
<1>1. /\ Game \in Games /\ Runner \in Engines /\ loaded
  BY RunningGame DEF FlushSaves
<1> DEFINE g == IF Runner \in Mirrored THEN [Game EXCEPT !.pak = Game.board]
                                       ELSE Game
<1>2. g \in Games /\ g.prefix = Game.prefix /\ g.boot = Game.boot
      /\ g.cheats = Game.cheats
  BY <1>1 DEF Games
<1>3. engine' = [engine EXCEPT ![Runner] = g]
  BY <1>1 DEF FlushSaves, TypeOK
<1>4. UNCHANGED <<active, loaded, savePrefix>>
  BY DEF FlushSaves, hostVars
<1> HIDE DEF g
<1>5. /\ engine' \in [Engines -> Games \cup {NoGame}]
      /\ OneGame' /\ PrefixMatches' /\ Game' = g
  BY <1>1, <1>2, <1>3, <1>4, EditGame
<1>6. /\ disk' \in [Saveable -> Progress \cup Damage] /\ ioFault' \in BOOLEAN
  BY <1>1, WriteBatteryType DEF FlushSaves, Games, TypeOK
<1>7. TypeOK'
  BY <1>5, <1>6 DEF FlushSaves, TypeOK, hostVars, gameVars
<1>8. CheatTableExact' /\ RewindWithinGame'
  BY <1>1, <1>2, <1>4, <1>5
  DEF FlushSaves, CheatTableExact, RewindWithinGame, gameVars
<1> QED BY <1>5, <1>7, <1>8

LEMMA StateSaveIInv ==
  ASSUME IInv, NEW f \in Paths, StateSave(f) PROVE IInv'
<1> USE DEF IInv
<1>1. Game \in Games /\ Runner \in Engines
  BY RunningGame DEF StateSave
<1>2. [tag |-> Runner, by |-> Runner, board |-> Game.board] \in StateFiles
  BY <1>1 DEF StateFiles, Games
<1>3. states' \in [Paths -> StateFiles \cup {NoFile}]
  BY <1>2 DEF StateSave, TypeOK
<1> QED BY <1>3 DEF StateSave, TypeOK, OneGame, PrefixMatches,
           CheatTableExact, RewindWithinGame, hostVars, gameVars

LEMMA StateLoadIInv ==
  ASSUME IInv, NEW f \in Paths, StateLoad(f) PROVE IInv'
<1> USE DEF IInv
<1>1. Game \in Games /\ Runner \in Engines /\ loaded
  BY RunningGame DEF StateLoad
<1>2. states[f] \in StateFiles
  BY DEF StateLoad, TypeOK
<1>3. UNCHANGED <<hostVars, gameVars, diskVars, boots>>
  BY DEF StateLoad
<1>4. CASE UNCHANGED engine
  BY <1>3, <1>4 DEF TypeOK, OneGame, PrefixMatches, CheatTableExact,
     RewindWithinGame, hostVars, gameVars, diskVars
<1>5. CASE engine' = [engine EXCEPT ![Runner].board = states[f].board]
  <2> DEFINE g == [Game EXCEPT !.board = states[f].board]
  <2>1. g \in Games /\ g.prefix = Game.prefix /\ g.boot = Game.boot
        /\ g.cheats = Game.cheats
    BY <1>1, <1>2 DEF Games, StateFiles
  <2>2. engine' = [engine EXCEPT ![Runner] = g]
    BY <1>1, <1>5 DEF TypeOK
  <2> HIDE DEF g
  <2>3. /\ engine' \in [Engines -> Games \cup {NoGame}]
        /\ OneGame' /\ PrefixMatches' /\ Game' = g
    BY <1>1, <1>3, <2>1, <2>2, EditGame DEF hostVars
  <2>4. TypeOK'
    BY <1>3, <2>3 DEF TypeOK, hostVars, gameVars, diskVars
  <2>5. CheatTableExact' /\ RewindWithinGame'
    BY <1>1, <1>3, <2>1, <2>3
    DEF CheatTableExact, RewindWithinGame, hostVars, gameVars
  <2> QED BY <2>3, <2>4, <2>5
<1> QED BY <1>4, <1>5 DEF StateLoad

\* A snapshot of the running game is a snapshot.
LEMMA GameSnap ==
  ASSUME TypeOK, OneGame, loaded
  PROVE  [boot |-> Game.boot, board |-> Game.board] \in Snaps
BY RunningGame DEF Games, Snaps

\* A rewind step keeps the timeline to the running game.
LEMMA RewindRunKeeps ==
  ASSUME TypeOK, OneGame, RewindWithinGame, loaded, NEW base, RewindRun(base)
  PROVE  /\ rewind' \in [enabled: BOOLEAN, rewinding: BOOLEAN,
                         history: SUBSET Snaps]
         /\ \A s \in rewind'.history : s.boot = Game.boot
<1> DEFINE snap == [boot |-> Game.boot, board |-> Game.board]
<1>1. snap \in Snaps /\ snap.boot = Game.boot
  BY GameSnap
<1>2. /\ rewind \in [enabled: BOOLEAN, rewinding: BOOLEAN, history: SUBSET Snaps]
      /\ \A s \in rewind.history : s.boot = Game.boot
  BY DEF TypeOK, RewindWithinGame
<1> HIDE DEF snap
<1>3. CASE UNCHANGED rewind
  BY <1>2, <1>3
<1>4. CASE \E oldest \in rewind.history \cup {snap} :
             rewind' = [rewind EXCEPT !.history = (@ \ {oldest}) \cup {snap}]
  BY <1>1, <1>2, <1>4
<1>5. CASE rewind' = [rewind EXCEPT !.rewinding = FALSE]
  BY <1>2, <1>5
<1>6. CASE \E s \in rewind.history :
             \E rest \in {rewind.history, rewind.history \ {s}} :
               rewind' = [rewind EXCEPT !.history = rest,
                                        !.rewinding = (rest # {})]
  BY <1>2, <1>6
<1> QED BY <1>3, <1>4, <1>5, <1>6 DEF RewindRun, snap

LEMMA TickIInv == ASSUME IInv, Tick PROVE IInv'
<1> USE DEF IInv
<1>1. /\ Game \in Games /\ Runner \in Engines /\ loaded
  BY RunningGame DEF Tick
<1>2. PICK base \in Progress :
        /\ RewindRun(base)
        /\ \E b \in {base, base + 1} \cap Progress :
             engine' = [engine EXCEPT ![Runner].board = b]
  BY DEF Tick
<1>3. PICK b \in Progress : engine' = [engine EXCEPT ![Runner].board = b]
  BY <1>2
<1> DEFINE g == [Game EXCEPT !.board = b]
<1>4. g \in Games /\ g.prefix = Game.prefix /\ g.boot = Game.boot
      /\ g.cheats = Game.cheats
  BY <1>1 DEF Games
<1>5. engine' = [engine EXCEPT ![Runner] = g]
  BY <1>1, <1>3 DEF TypeOK
<1>6. UNCHANGED <<hostVars, cheats, cheatLookup, paused, pressed, diskVars,
                  boots>>
  BY DEF Tick
<1> HIDE DEF g
<1>7. /\ engine' \in [Engines -> Games \cup {NoGame}]
      /\ OneGame' /\ PrefixMatches' /\ Game' = g
  BY <1>1, <1>4, <1>5, <1>6, EditGame DEF hostVars
<1>8. /\ rewind' \in [enabled: BOOLEAN, rewinding: BOOLEAN, history: SUBSET Snaps]
      /\ \A s \in rewind'.history : s.boot = Game.boot
  BY <1>1, <1>2, RewindRunKeeps
<1>9. TypeOK'
  BY <1>6, <1>7, <1>8 DEF TypeOK, hostVars, diskVars
<1>10. CheatTableExact' /\ RewindWithinGame'
  BY <1>1, <1>4, <1>6, <1>7, <1>8
  DEF CheatTableExact, RewindWithinGame, hostVars
<1> QED BY <1>7, <1>9, <1>10

LEMMA RewindJumpIInv == ASSUME IInv, RewindJump PROVE IInv'
<1> USE DEF IInv
<1>1. PICK s \in rewind.history, kept \in SUBSET rewind.history :
        /\ s \notin kept
        /\ rewind' = [rewind EXCEPT !.rewinding = FALSE, !.history = kept]
        /\ engine' = [engine EXCEPT ![Runner] =
                        IF @ = NoGame THEN @ ELSE [@ EXCEPT !.board = s.board]]
  BY DEF RewindJump
<1>2. loaded /\ s \in Snaps
  BY DEF RewindWithinGame, TypeOK
<1>3. Game \in Games /\ Game # NoGame /\ Runner \in Engines
  BY <1>2, RunningGame
<1> DEFINE g == [Game EXCEPT !.board = s.board]
<1>4. g \in Games /\ g.prefix = Game.prefix /\ g.boot = Game.boot
      /\ g.cheats = Game.cheats
  BY <1>2, <1>3 DEF Games, Snaps
<1>5. engine' = [engine EXCEPT ![Runner] = g]
  BY <1>1, <1>3 DEF TypeOK
<1>6. UNCHANGED <<hostVars, cheats, cheatLookup, paused, pressed, diskVars,
                  boots>>
  BY DEF RewindJump
<1> HIDE DEF g
<1>7. /\ engine' \in [Engines -> Games \cup {NoGame}]
      /\ OneGame' /\ PrefixMatches' /\ Game' = g
  BY <1>2, <1>4, <1>5, <1>6, EditGame DEF hostVars
<1>8. /\ rewind' \in [enabled: BOOLEAN, rewinding: BOOLEAN, history: SUBSET Snaps]
      /\ rewind'.history \subseteq rewind.history
  BY <1>1 DEF TypeOK
<1>9. TypeOK'
  BY <1>6, <1>7, <1>8 DEF TypeOK, hostVars, diskVars
<1>10. CheatTableExact' /\ RewindWithinGame'
  BY <1>2, <1>4, <1>6, <1>7, <1>8
  DEF CheatTableExact, RewindWithinGame, hostVars
<1> QED BY <1>7, <1>9, <1>10

----------------------------------------------------------------------------
(* Cheats *)

\* A rebuilt table reaches the running engine, and nothing else changes.
LEMMA RebuildKeepsIInv ==
  ASSUME IInv, NEW cs \in SUBSET Codes, cheats' = cs, RebuildCheatLookup(cs),
         UNCHANGED <<hostVars, rewind, paused, pressed, diskVars, boots>>
  PROVE  IInv'
<1> USE DEF IInv
<1>1. cheatLookup' = Merged(cs) /\ Merged(cs) \subseteq Addrs
  BY MergedAddrs DEF RebuildCheatLookup
<1>2. CASE ~loaded
  <2>1. UNCHANGED engine
    BY <1>2 DEF RebuildCheatLookup
  <2> QED BY <1>1, <1>2, <2>1 DEF TypeOK, OneGame, PrefixMatches,
       CheatTableExact, RewindWithinGame, hostVars, diskVars
<1>3. CASE loaded
  <2>1. Game \in Games /\ Runner \in Engines
    BY <1>3, RunningGame
  <2> DEFINE g == [Game EXCEPT !.cheats = Merged(cs)]
  <2>2. g \in Games /\ g.prefix = Game.prefix /\ g.boot = Game.boot
        /\ g.cheats = Merged(cs)
    BY <1>1, <2>1 DEF Games
  <2>3. engine' = [engine EXCEPT ![Runner] = g]
    BY <1>3, <2>1 DEF TypeOK, RebuildCheatLookup
  <2> HIDE DEF g
  <2>4. /\ engine' \in [Engines -> Games \cup {NoGame}]
        /\ OneGame' /\ PrefixMatches' /\ Game' = g
    BY <1>3, <2>2, <2>3, EditGame DEF hostVars
  <2>5. TypeOK'
    BY <1>1, <2>4 DEF TypeOK, hostVars, diskVars
  <2>6. CheatTableExact' /\ RewindWithinGame'
    BY <1>1, <1>3, <2>2, <2>4 DEF CheatTableExact, RewindWithinGame, hostVars
  <2> QED BY <2>4, <2>5, <2>6
<1> QED BY <1>2, <1>3

LEMMA AddCheatIInv == ASSUME IInv, NEW c \in Codes, AddCheat(c) PROVE IInv'
<1>1. cheats \cup {c} \in SUBSET Codes
  BY DEF IInv, TypeOK
<1> QED BY <1>1, RebuildKeepsIInv DEF AddCheat

LEMMA RemoveCheatIInv == ASSUME IInv, NEW c \in Codes, RemoveCheat(c) PROVE IInv'
<1>1. cheats \ {c} \in SUBSET Codes
  BY DEF IInv, TypeOK
<1> QED BY <1>1, RebuildKeepsIInv DEF RemoveCheat

LEMMA ClearCheatsIInv == ASSUME IInv, ClearCheats PROVE IInv'
BY RebuildKeepsIInv DEF ClearCheats

----------------------------------------------------------------------------
(* Booting.  The outgoing engine lets go of its game, the staged one takes *)
(* the new game, and they may be the same engine.                          *)

LEMMA TeardownType ==
  ASSUME TypeOK, OneGame, Teardown
  PROVE  /\ disk' \in [Saveable -> Progress \cup Damage]
         /\ ioFault' \in BOOLEAN
<1>1. CASE loaded /\ Game # NoGame
  <2>1. Collected(Runner, Game) \in Progress /\ savePrefix \in Prefixes
    BY <1>1, RunningGame DEF Collected, Games, TypeOK
  <2> QED BY <1>1, <2>1, WriteBatteryType DEF Teardown, UnloadBattery
<1>2. CASE ~(loaded /\ Game # NoGame)
  BY <1>2 DEF Teardown, UnloadBattery, TypeOK
<1> QED BY <1>1, <1>2

\* After the teardown no engine holds a game.
LEMMA AfterTeardownEmpty ==
  ASSUME TypeOK, OneGame
  PROVE  AfterTeardown = [e \in Engines |-> NoGame]
BY DEF AfterTeardown, TypeOK, OneGame

LEMMA SeedType ==
  ASSUME NEW fs \in [Saveable -> Progress \cup Damage], NEW p \in Prefixes
  PROVE  SeedFrom(fs, p) \subseteq Progress
BY BoundAssumption DEF SeedFrom, Progress, Damage

LEMMA LoadRomBootsIInv ==
  ASSUME IInv, NEW p \in Prefixes, LoadRomBoots(p) PROVE IInv'
<1> USE DEF IInv
<1>0. PICK seed \in SeedFrom(disk', p) :
        engine' = [AfterTeardown EXCEPT ![staged.engine] =
                     [prefix |-> p, boot |-> boots + 1, board |-> seed,
                      pak |-> seed, cheats |-> cheatLookup']]
  BY DEF LoadRomBoots
<1> DEFINE g == [prefix |-> p, boot |-> boots + 1, board |-> seed,
                 pak |-> seed, cheats |-> cheatLookup']
<1>1. /\ disk' \in [Saveable -> Progress \cup Damage]
      /\ ioFault' \in BOOLEAN
  BY TeardownType DEF LoadRomBoots
<1>2. staged \in Decls /\ staged.engine \in Engines
  BY DEF LoadRomBoots, TypeOK
<1>3. /\ active' = staged /\ savePrefix' = p /\ loaded' = TRUE
      /\ boots' = boots + 1
      /\ UNCHANGED <<staged, states>>
  BY DEF LoadRomBoots
<1>4. boots + 1 \in Boots /\ boots' \in 0 .. MaxBoots
  BY <1>3, BoundAssumption DEF LoadRomBoots, TypeOK, Boots
<1>5. /\ cheats' \subseteq Codes /\ cheatLookup' \subseteq Addrs
      /\ cheatLookup' = Merged(cheats')
      /\ paused' \in BOOLEAN /\ pressed' \subseteq Buttons
  BY DEF LoadRomBoots, DropGameState, gameVars, TypeOK, CheatTableExact, Merged
<1>6. /\ rewind' \in [enabled: BOOLEAN, rewinding: BOOLEAN,
                      history: SUBSET Snaps]
      /\ rewind'.history = {}
  BY DEF LoadRomBoots, DropGameState, gameVars, TypeOK, RewindWithinGame
<1>7. stagedSlot' \subseteq SlotCarts /\ slotConnected' \subseteq SlotCarts
  BY DEF LoadRomBoots, TypeOK
<1>8. /\ g \in Games /\ g # NoGame
  <2>1. seed \in Progress
    BY <1>1, SeedType
  <2> QED BY <1>4, <1>5, <2>1, SentinelAssumption DEF Games
<1>9. engine' = [[e \in Engines |-> NoGame] EXCEPT ![staged.engine] = g]
  BY <1>0, AfterTeardownEmpty
<1>10. g.prefix = p /\ g.cheats = cheatLookup'
  OBVIOUS
<1> HIDE DEF g
<1>11. /\ engine' \in [Engines -> Games \cup {NoGame}]
       /\ Game' = g
       /\ \A e \in Engines : engine'[e] # NoGame <=> e = staged.engine
  BY <1>2, <1>3, <1>8, <1>9
<1>12. TypeOK'
  BY <1>1, <1>2, <1>3, <1>4, <1>5, <1>6, <1>7, <1>11 DEF TypeOK
<1>13. OneGame'
  BY <1>2, <1>3, <1>11, SentinelAssumption DEF OneGame
<1>14. PrefixMatches' /\ CheatTableExact' /\ RewindWithinGame'
  BY <1>3, <1>5, <1>6, <1>10, <1>11
  DEF PrefixMatches, CheatTableExact, RewindWithinGame
<1> QED BY <1>12, <1>13, <1>14

LEMMA LoadRomFailsIInv ==
  ASSUME IInv, NEW p \in Prefixes, LoadRomFails(p) PROVE IInv'
<1> USE DEF IInv
<1>1. /\ disk' \in [Saveable -> Progress \cup Damage]
      /\ ioFault' \in BOOLEAN
  BY TeardownType DEF LoadRomFails
<1>2. engine' = [e \in Engines |-> NoGame]
  BY AfterTeardownEmpty DEF LoadRomFails
<1>3. TypeOK'
  BY <1>1, <1>2
  DEF LoadRomFails, TypeOK, DropGameState
<1>4. OneGame' /\ PrefixMatches'
  BY <1>2 DEF LoadRomFails, OneGame, PrefixMatches
<1>5. CheatTableExact' /\ RewindWithinGame'
  BY DEF LoadRomFails, DropGameState, CheatTableExact, RewindWithinGame,
         Merged, TypeOK
<1> QED BY <1>3, <1>4, <1>5

----------------------------------------------------------------------------

LEMMA NextIInv == IInv /\ [Next]_vars => IInv'
<1> SUFFICES ASSUME IInv, [Next]_vars PROVE IInv' OBVIOUS
<1>1. CASE Staging
  BY <1>1, StageSystemIInv, StageSlotIInv DEF Staging
<1>2. CASE Loading
  BY <1>2, LoadRomBootsIInv, LoadRomFailsIInv, ResetIInv DEF Loading
<1>3. CASE Running
  BY <1>3, TickIInv, PauseIInv, ResumeIInv, PressButtonIInv,
     ConfigureRewindIInv, ToggleRewindIInv, RewindJumpIInv DEF Running
<1>4. CASE Cheating
  BY <1>4, AddCheatIInv, RemoveCheatIInv, ClearCheatsIInv DEF Cheating
<1>5. CASE Saving
  BY <1>5, FlushSavesIInv, StateSaveIInv, StateLoadIInv DEF Saving
<1>6. CASE UNCHANGED vars
  BY <1>6 DEF IInv, TypeOK, OneGame, PrefixMatches, CheatTableExact,
     RewindWithinGame, vars, hostVars, gameVars, diskVars
<1> QED BY <1>1, <1>2, <1>3, <1>4, <1>5, <1>6 DEF Next

\* The life cycle keeps its inductive invariant for every set of engines,
\* games, codes and slots.
THEOREM Invariant == Spec => []IInv
BY InitIInv, NextIInv, PTL DEF Spec

\* Type correctness of the host's state.
THEOREM TypeCorrect == Spec => []TypeOK
<1>1. IInv => TypeOK BY DEF IInv
<1> QED BY Invariant, <1>1, PTL

\* Exactly the active engine runs a game, through every swap, failed boot and
\* stop of any number of engines.
THEOREM OneGameAtATime == Spec => []OneGame
<1>1. IInv => OneGame BY DEF IInv
<1> QED BY Invariant, <1>1, PTL

\* The host flushes through the prefix its running game was booted with.
THEOREM PrefixFollowsGame == Spec => []PrefixMatches
<1>1. IInv => PrefixMatches BY DEF IInv
<1> QED BY Invariant, <1>1, PTL

\* The cheats an engine applies are the merge of the codes in force.
THEOREM CheatsExact == Spec => []CheatTableExact
<1>1. IInv => CheatTableExact BY DEF IInv
<1> QED BY Invariant, <1>1, PTL

\* Rewinding never leaves the running game.
THEOREM RewindStaysInGame == Spec => []RewindWithinGame
<1>1. IInv => RewindWithinGame BY DEF IInv
<1> QED BY Invariant, <1>1, PTL

----------------------------------------------------------------------------
(* State files *)

\* A tagged state file names the engine that wrote it.
TagsAreTrue ==
  \A f \in Paths :
    states[f] # NoFile /\ states[f].tag # Untagged => states[f].by = states[f].tag

\* States are written by StateSave alone.
LEMMA TagsStep == IInv /\ TagsAreTrue /\ [Next]_vars => TagsAreTrue'
<1> SUFFICES ASSUME IInv, TagsAreTrue, [Next]_vars PROVE TagsAreTrue' OBVIOUS
<1> USE DEF TagsAreTrue
<1>1. CASE UNCHANGED states
  BY <1>1
<1>2. ASSUME NEW f \in Paths, StateSave(f) PROVE TagsAreTrue'
  BY <1>2 DEF StateSave, IInv, TypeOK
<1>3. CASE (\E f \in Paths : StateLoad(f)) \/ FlushSaves
  BY <1>1, <1>3 DEF StateLoad, FlushSaves, diskVars
<1>4. CASE Staging
  BY <1>1, <1>4 DEF Staging, StageSystem, StageSlot, diskVars
<1>5. CASE Loading
  BY <1>1, <1>5 DEF Loading, LoadRomBoots, LoadRomFails, Reset, diskVars
<1>6. CASE Running
  BY <1>1, <1>6 DEF Running, Tick, Pause, Resume, PressButton, ConfigureRewind,
     ToggleRewind, RewindJump, diskVars
<1>7. CASE Cheating
  BY <1>1, <1>7 DEF Cheating, AddCheat, RemoveCheat, ClearCheats, diskVars
<1>8. CASE UNCHANGED vars
  BY <1>1, <1>8 DEF vars, diskVars
<1> QED BY <1>2, <1>3, <1>4, <1>5, <1>6, <1>7, <1>8 DEF Next, Saving

\* A tagged state reaches only the engine that wrote it, whatever was staged,
\* booted or swapped between the save and the load.
THEOREM TaggedStatesKeepHome == Spec => TaggedStatesStayHome
<1>1. Init => TagsAreTrue
  BY DEF Init, TagsAreTrue
<1>2. IInv /\ TagsAreTrue /\ [Next]_vars => TagsAreTrue'
  BY TagsStep
<1>3. TagsAreTrue =>
        \A f \in Paths :
          StateLoad(f) /\ states[f].tag # Untagged => states[f].by = Runner
  BY DEF TagsAreTrue, StateLoad
<1> QED BY <1>1, <1>2, <1>3, Invariant, PTL DEF Spec, TaggedStatesStayHome

----------------------------------------------------------------------------
(* Battery files *)

\* The steps that neither end a game nor touch a file.
LEMMA QuietSteps ==
  ASSUME [Next]_vars,
         ~ \E p \in Prefixes : LoadRomBoots(p) \/ LoadRomFails(p),
         ~ Reset, ~ FlushSaves
  PROVE  UNCHANGED <<active, loaded, savePrefix, disk, ioFault, boots>>
<1> USE DEF hostVars, gameVars, diskVars
<1>1. CASE Staging
  BY <1>1 DEF Staging, StageSystem, StageSlot
<1>2. CASE Running
  BY <1>2 DEF Running, Tick, Pause, Resume, PressButton, ConfigureRewind,
     ToggleRewind, RewindJump
<1>3. CASE Cheating
  BY <1>3 DEF Cheating, AddCheat, RemoveCheat, ClearCheats
<1>4. CASE \E f \in Paths : StateSave(f) \/ StateLoad(f)
  BY <1>4 DEF StateSave, StateLoad
<1>5. CASE UNCHANGED vars
  BY <1>5 DEF vars
<1> QED BY <1>1, <1>2, <1>3, <1>4, <1>5 DEF Next, Loading, Saving

\* A teardown writes at most the file of the game it ends.
LEMMA TeardownWrites ==
  ASSUME IInv, Teardown
  PROVE  \A p \in Saveable : disk'[p] # disk[p] => loaded /\ Game.prefix = p
BY DEF IInv, TypeOK, PrefixMatches, Teardown, UnloadBattery, WriteBattery

LEMMA WritesOwnFileStep == IInv /\ [Next]_vars => WritesOwnFile
<1> SUFFICES ASSUME IInv, [Next]_vars PROVE WritesOwnFile OBVIOUS
<1>1. CASE \E p \in Prefixes : LoadRomBoots(p) \/ LoadRomFails(p)
  BY <1>1, TeardownWrites DEF LoadRomBoots, LoadRomFails, WritesOwnFile
<1>2. CASE Reset
  BY <1>2 DEF Reset, diskVars, WritesOwnFile
<1>3. CASE FlushSaves
  BY <1>3 DEF IInv, TypeOK, PrefixMatches, FlushSaves, WriteBattery,
     WritesOwnFile
<1>4. CASE UNCHANGED disk
  BY <1>4 DEF WritesOwnFile
<1> QED BY <1>1, <1>2, <1>3, <1>4, QuietSteps

\* Only the running game's own battery file is ever written.
THEOREM OwnFileOnly == Spec => OnlyOwnBattery
BY Invariant, WritesOwnFileStep, PTL DEF Spec, OnlyOwnBattery

LEMMA LeavesNothingStep == IInv /\ [Next]_vars => LeavesNothing
<1> SUFFICES ASSUME IInv, [Next]_vars PROVE LeavesNothing OBVIOUS
<1>1. CASE \E p \in Prefixes : LoadRomBoots(p) \/ LoadRomFails(p)
  BY <1>1 DEF LoadRomBoots, LoadRomFails, DropGameState, LeavesNothing,
     IInv, TypeOK
<1>2. CASE Reset
  BY <1>2 DEF Reset, NoRewind, LeavesNothing
<1>3. CASE UNCHANGED <<loaded, boots>>
  BY <1>3 DEF LeavesNothing, Swapped
<1>4. CASE FlushSaves
  BY <1>3, <1>4 DEF FlushSaves, hostVars
<1> QED BY <1>1, <1>2, <1>3, <1>4, QuietSteps

\* No cheat, rewind entry, pause or held button reaches the next game.
THEOREM GamesLeaveNothing == Spec => NothingCarriesOver
BY Invariant, LeavesNothingStep, PTL DEF Spec, NothingCarriesOver

LEMMA SavedOrFaultStep ==
  ASSUME IInv, [Next]_vars, Runner \notin Mirrored
  PROVE  SavedOrFault
<1> SUFFICES ASSUME Swapped, savePrefix \in Saveable
             PROVE  disk'[savePrefix] = Game.board \/ ioFault'
  BY DEF SavedOrFault
<1>1. CASE \E p \in Prefixes : LoadRomBoots(p) \/ LoadRomFails(p)
  <2>1. loaded /\ Game # NoGame /\ Collected(Runner, Game) = Game.board
    BY RunningGame DEF IInv, Swapped, Collected
  <2> QED BY <1>1, <2>1 DEF LoadRomBoots, LoadRomFails, Teardown,
             UnloadBattery, WriteBattery, IInv, TypeOK
<1>2. CASE Reset
  BY <1>2 DEF Reset, Swapped
<1>3. CASE UNCHANGED <<loaded, boots>>
  BY <1>3 DEF Swapped
<1>4. CASE FlushSaves
  BY <1>3, <1>4 DEF FlushSaves, hostVars
<1> QED BY <1>1, <1>2, <1>3, <1>4, QuietSteps

\* A ROM swap away from an engine whose battery is read live leaves the
\* outgoing game's progress in its file, or the write of it failed; which
\* engine takes over, and what else is registered, makes no difference.
THEOREM SwapsSave == Spec => LiveSwapsSave
<1>1. IInv /\ [Next]_vars => (Runner \notin Mirrored => SavedOrFault)
  BY SavedOrFaultStep
<1> QED BY <1>1, Invariant, PTL DEF Spec, LiveSwapsSave

----------------------------------------------------------------------------
(* Refinement of BatteryContract *)

USE DEF Battery!Keeps

\* A teardown ejects the cartridge.
LEMMA TeardownEjects == ASSUME IInv, Teardown PROVE Battery!Eject
<1>1. CASE loaded
  <2>1. /\ Game # NoGame /\ savePrefix = Game.prefix
        /\ Collected(Runner, Game) =
             IF Runner \notin Mirrored THEN Game.board ELSE Game.pak
    BY <1>1, RunningGame DEF IInv, Collected, PrefixMatches
  <2> QED BY <1>1, <2>1 DEF Teardown, UnloadBattery, WriteBattery, Damage,
             Battery!Eject, Battery!WriteBack
<1>2. CASE ~loaded
  BY <1>2, SentinelAssumption DEF Teardown, Battery!Eject, Battery!WriteBack
<1> QED BY <1>1, <1>2

LEMMA BootInserts ==
  ASSUME IInv, IInv', NEW p \in Prefixes, LoadRomBoots(p)
  PROVE  Battery!Insert(p)
<1>1. Battery!Eject
  BY TeardownEjects DEF LoadRomBoots
<1>2. staged.engine \in Engines
  BY DEF LoadRomBoots, IInv, TypeOK
<1>3. /\ loaded' /\ Game'.prefix = p /\ Game'.pak = Game'.board
      /\ Game'.board \in SeedFrom(disk', p)
  BY <1>2, AfterTeardownEmpty DEF LoadRomBoots, IInv
<1>4. SeedFrom(disk', p) = Battery!Seed(disk', p)
  BY DEF SeedFrom, Battery!Seed
<1>5. Battery!Eject /\ Game'.prefix = p
  BY <1>1, <1>3
<1> QED BY <1>3, <1>4, <1>5 DEF Battery!Insert

LEMMA FailInsertsNothing ==
  ASSUME IInv, NEW p \in Prefixes, LoadRomFails(p)
  PROVE  Battery!InsertFails
BY TeardownEjects DEF LoadRomFails, Battery!InsertFails, Battery!Removed

LEMMA ResetPulls == ASSUME IInv, Reset PROVE Battery!Pull
BY DEF Reset, diskVars, Battery!Pull, Battery!Removed

LEMMA FlushIsSave == ASSUME IInv, FlushSaves PROVE Battery!Save
<1>1. /\ loaded /\ Game.prefix = savePrefix /\ Game.prefix \in Saveable
      /\ UNCHANGED <<active, loaded>>
      /\ Game \in Games /\ Runner \in Engines
  BY RunningGame DEF FlushSaves, hostVars, IInv, TypeOK, PrefixMatches
<1>2. Battery!WriteBack(Game.board)
  BY <1>1 DEF FlushSaves, WriteBattery, Damage, Battery!WriteBack
<1>3. Game' = IF Runner \in Mirrored THEN [Game EXCEPT !.pak = Game.board] ELSE Game
  BY <1>1 DEF FlushSaves, IInv, TypeOK
<1>4. /\ Game'.prefix = Game.prefix /\ Game'.board = Game.board
      /\ Game'.pak = IF Runner \notin Mirrored THEN Game.pak ELSE Game.board
  BY <1>1, <1>3 DEF Games
<1> QED BY <1>1, <1>2, <1>4, SentinelAssumption DEF Battery!Save

\* A step that edits the board of the running game is play.
LEMMA BoardEditIsPlay ==
  ASSUME IInv, loaded, NEW b \in Progress,
         engine' = [engine EXCEPT ![Runner].board = b],
         UNCHANGED <<active, loaded, disk, ioFault>>
  PROVE  Battery!Play
<1>1. Game \in Games /\ Runner \in Engines
  BY RunningGame DEF IInv
<1>2. Game' = [Game EXCEPT !.board = b]
  BY <1>1 DEF IInv, TypeOK
<1>3. /\ Game'.prefix = Game.prefix /\ Game'.board = b /\ Game'.pak = Game.pak
      /\ Game.prefix \in Prefixes
  BY <1>1, <1>2 DEF Games
<1> QED BY <1>3, SentinelAssumption DEF Battery!Play

\* An edit of the running engine that leaves its cartridge's memory alone.
LEMMA SameCartridge ==
  ASSUME IInv, IInv', UNCHANGED <<active, loaded, savePrefix, disk, ioFault>>,
         loaded => Game'.board = Game.board /\ Game'.pak = Game.pak
  PROVE  UNCHANGED Battery!contractVars
BY DEF IInv, PrefixMatches, Battery!contractVars

LEMMA CheatsAreInvisible ==
  ASSUME IInv, IInv', NEW cs, RebuildCheatLookup(cs),
         UNCHANGED <<hostVars, diskVars>>
  PROVE  UNCHANGED Battery!contractVars
<1>1. CASE loaded
  <2>1. Game \in Games /\ Runner \in Engines
    BY <1>1, RunningGame DEF IInv
  <2>2. Game'.board = Game.board /\ Game'.pak = Game.pak
    BY <1>1, <2>1 DEF RebuildCheatLookup, hostVars, IInv, TypeOK, Games
  <2> QED BY <1>1, <2>2, SameCartridge DEF hostVars, diskVars
<1>2. CASE ~loaded
  BY <1>2, SameCartridge DEF hostVars, diskVars
<1> QED BY <1>1, <1>2

LEMMA TickPlays == ASSUME IInv, Tick PROVE Battery!Play
<1>1. PICK b \in Progress : engine' = [engine EXCEPT ![Runner].board = b]
  BY DEF Tick
<1> QED BY <1>1, BoardEditIsPlay DEF Tick, hostVars, diskVars

LEMMA JumpPlays == ASSUME IInv, RewindJump PROVE Battery!Play
<1>1. PICK s \in rewind.history :
        engine' = [engine EXCEPT ![Runner] =
                     IF @ = NoGame THEN @ ELSE [@ EXCEPT !.board = s.board]]
  BY DEF RewindJump
<1>2. loaded /\ s.board \in Progress
  BY DEF IInv, RewindWithinGame, TypeOK, Snaps
<1>3. Game # NoGame
  BY <1>2, RunningGame DEF IInv
<1>4. engine' = [engine EXCEPT ![Runner].board = s.board]
  BY <1>1, <1>3
<1> QED BY <1>2, <1>4, BoardEditIsPlay DEF RewindJump, hostVars, diskVars

LEMMA LoadPlays ==
  ASSUME IInv, IInv', NEW f \in Paths, StateLoad(f)
  PROVE  Battery!Play \/ UNCHANGED Battery!contractVars
<1>1. states[f].board \in Progress /\ loaded
  BY DEF IInv, TypeOK, StateFiles, StateLoad
<1>2. UNCHANGED <<active, loaded, savePrefix, disk, ioFault>>
  BY DEF StateLoad, hostVars, diskVars
<1>3. CASE UNCHANGED engine
  BY <1>2, <1>3, SameCartridge
<1>4. CASE engine' = [engine EXCEPT ![Runner].board = states[f].board]
  BY <1>1, <1>2, <1>4, BoardEditIsPlay
<1> QED BY <1>3, <1>4 DEF StateLoad

LEMMA RefinesNext ==
  IInv /\ IInv' /\ [Next]_vars =>
    [Battery!ContractNext]_(Battery!contractVars)
<1> SUFFICES ASSUME IInv, IInv', [Next]_vars
             PROVE  Battery!ContractNext \/ UNCHANGED Battery!contractVars
  OBVIOUS
<1> USE DEF Battery!ContractNext
<1>1. CASE Staging
  BY <1>1, SameCartridge DEF Staging, StageSystem, StageSlot, diskVars
<1>2. CASE Loading
  BY <1>2, BootInserts, FailInsertsNothing, ResetPulls DEF Loading
<1>3. CASE Running
  <2>1. CASE Tick \/ RewindJump
    BY <2>1, TickPlays, JumpPlays
  <2>2. CASE UNCHANGED <<hostVars, engine, diskVars>>
    BY <2>2, SameCartridge DEF hostVars, diskVars
  <2> QED BY <1>3, <2>1, <2>2 DEF Running, Pause, Resume, PressButton,
             ConfigureRewind, ToggleRewind
<1>4. CASE Cheating
  <2>1. PICK cs : RebuildCheatLookup(cs) /\ UNCHANGED <<hostVars, diskVars>>
    BY <1>4 DEF Cheating, AddCheat, RemoveCheat, ClearCheats
  <2> QED BY <2>1, CheatsAreInvisible
<1>5. CASE FlushSaves
  BY <1>5, FlushIsSave
<1>6. CASE \E f \in Paths : StateSave(f)
  BY <1>6, SameCartridge DEF StateSave, hostVars
<1>7. CASE \E f \in Paths : StateLoad(f)
  BY <1>7, LoadPlays
<1>8. CASE UNCHANGED vars
  BY <1>8, SameCartridge DEF vars, hostVars, diskVars
<1> QED BY <1>1, <1>2, <1>3, <1>4, <1>5, <1>6, <1>7, <1>8 DEF Next, Saving

\* The host implements the battery contract, whatever the engines, games and
\* order of calls: progress reaches the file of the game it was made in, and is
\* lost only to a pulled cartridge, a failed write or a copy kept too long.
THEOREM BatteryRefinement == Spec => KeepsContract
<1>1. Init => Battery!ContractInit
  BY DEF Init, Battery!ContractInit
<1>2. IInv /\ IInv' /\ [Next]_vars =>
        [Battery!ContractNext]_(Battery!contractVars)
  BY RefinesNext
<1> QED BY <1>1, <1>2, Invariant, PTL DEF Spec, KeepsContract, Battery!Contract
============================================================================
