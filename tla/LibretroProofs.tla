--------------------------- MODULE LibretroProofs ---------------------------
(***************************************************************************)
(* Proofs about LibretroCores, for any names, libraries, systems, option   *)
(* lists and formats.                                                      *)
(*                                                                         *)
(* The invariant says who holds which library.  A library outside reopened *)
(* has at most one handle, so closing that handle cannot disturb another;  *)
(* that is what keeps the running core alive while others come and go.     *)
(***************************************************************************)
EXTENDS LibretroCores, TLAPS

\* A CoreRef is empty, or names a library that was opened.
RefOK(ref) == ref = NoRef \/ (ref.name \in Names /\ LibOf[ref.name] \in Libs)

\* A library that is held and was opened once has one handle and is
\* initialised.
HoldersKnown ==
  \A l \in Libs \ reopened :
    /\ Holds(current, l) + Holds(pending, l) <= 1
    /\ Holds(current, l) + Holds(pending, l) = 1 => l \in live

\* The running core's library, and no other, has a game.
GamesKnown == games = IF loaded THEN {Lib(current)} ELSE {}

CoresInv ==
  /\ TypeOK
  /\ GamesKnown
  /\ RefOK(current) /\ RefOK(pending)
  /\ HandlesBalanced
  /\ HoldersKnown
  /\ RunningServed
  /\ CoreAlive
  /\ OptionHeard
  /\ StagedMatches

-----------------------------------------------------------------------------
(* The helpers have the types their uses need.                             *)

LEMMA NoRefType == NoRef \in Refs
BY CoresAssumption DEF NoRef, Refs

LEMMA DeclaredType ==
  ASSUME NEW ref \in Refs, NEW list \in Seq(Choices)
  PROVE  Declared(ref, list) \in Refs /\ Declared(ref, list).name = ref.name
         /\ Declared(ref, list).format = ref.format
<1>1. list # <<>> => Head(list) \in Choices
  OBVIOUS
<1> QED BY <1>1 DEF Declared, Refs

LEMMA HoldsType ==
  ASSUME NEW ref, NEW l
  PROVE  Holds(ref, l) \in {0, 1} /\ (Holds(ref, l) = 1 <=> ref # NoRef /\ Lib(ref) = l)
BY DEF Holds

LEMMA InitInv == Init => CoresInv
<1> SUFFICES ASSUME Init PROVE CoresInv
  OBVIOUS
<1>1. TypeOK /\ GamesKnown
  BY CoresAssumption, NoRefType DEF Init, TypeOK, GamesKnown, Engines, Fresh
<1>2. /\ RefOK(current) /\ RefOK(pending)
      /\ HandlesBalanced /\ HoldersKnown
  BY HoldsType DEF Init, RefOK, HandlesBalanced, HoldersKnown
<1>3. RunningServed /\ CoreAlive /\ OptionHeard /\ StagedMatches
  BY DEF Init, RunningServed, CoreAlive, OptionHeard, StagedMatches
<1> QED BY <1>1, <1>2, <1>3 DEF CoresInv

-----------------------------------------------------------------------------
(* The steps.                                                              *)

\* Steps that leave the libraries and the CoreRefs' names alone.
LEMMA AdoptHeldInv ==
  ASSUME CoresInv, NEW n \in Names, NEW s \in Systems, AdoptHeld(n, s)
  PROVE  CoresInv'
<1> USE DEF CoresInv, AdoptHeld, host, library
<1>1. TypeOK'
  BY DEF TypeOK, StageCore, Engines
<1>2. BootTarget # NoRef
  BY CoresAssumption DEF Held, BootTarget, NoRef
<1>3. StagedMatches'
  BY <1>2 DEF StagedMatches, Adopted, StageCore, BootTarget
<1> QED BY <1>1, <1>3 DEF GamesKnown, GamesClosed, RefOK, HandlesBalanced, HoldersKnown, Holds, RunningServed,
  Served, CoreAlive, OptionHeard, Lib

LEMMA StageOtherInv ==
  ASSUME CoresInv, NEW s \in Systems, StageOther(s)
  PROVE  CoresInv'
<1> USE DEF CoresInv, StageOther, backend, library
<1>1. TypeOK'
  BY DEF TypeOK, Engines
<1>2. StagedMatches'
  BY DEF StagedMatches
<1> QED BY <1>1, <1>2 DEF GamesKnown, GamesClosed, RefOK, HandlesBalanced, HoldersKnown, Holds, RunningServed,
  Served, CoreAlive, OptionHeard, Lib

LEMMA GamesClosedType == TypeOK => GamesClosed \subseteq Libs
BY DEF TypeOK, GamesClosed

LEMMA UnloadGameInv == CoresInv /\ UnloadGame => CoresInv'
<1> SUFFICES ASSUME CoresInv, UnloadGame PROVE CoresInv'
  OBVIOUS
<1> USE DEF CoresInv, UnloadGame
<1>1. CASE active = "libretro"
  <2> USE <1>1 DEF UnloadCore, Forget
  <2>1. TypeOK'
    BY GamesClosedType DEF TypeOK
  <2>2. (RunningServed /\ CoreAlive /\ OptionHeard /\ StagedMatches)'
    BY DEF RunningServed, CoreAlive, OptionHeard, StagedMatches, Adopted, BootTarget
  <2> QED BY <2>1, <2>2 DEF GamesKnown, GamesClosed, RefOK, HandlesBalanced, HoldersKnown, Holds, Lib
<1>2. CASE active # "libretro"
  <2> USE <1>2 DEF backend, library
  <2>1. TypeOK'
    BY DEF TypeOK
  <2>2. (RunningServed /\ StagedMatches)'
    BY DEF RunningServed, StagedMatches, Adopted, BootTarget
  <2> QED BY <2>1, <2>2 DEF GamesKnown, GamesClosed, RefOK, HandlesBalanced, HoldersKnown, Holds, Lib,
    CoreAlive, OptionHeard
<1> QED BY <1>1, <1>2

LEMMA LoadRomOtherInv ==
  ASSUME CoresInv, NEW ok \in BOOLEAN, LoadRomOther(ok)
  PROVE  CoresInv'
<1> USE DEF CoresInv, LoadRomOther
<1>1. CASE romLoaded /\ active = "libretro"
  <2> USE <1>1 DEF UnloadCore, Forget
  <2>1. TypeOK'
    BY GamesClosedType DEF TypeOK, Engines
  <2>2. (RunningServed /\ CoreAlive /\ OptionHeard /\ StagedMatches)'
    BY DEF RunningServed, CoreAlive, OptionHeard, StagedMatches, Adopted, BootTarget
  <2> QED BY <2>1, <2>2 DEF GamesKnown, GamesClosed, RefOK, HandlesBalanced, HoldersKnown, Holds, Lib
<1>2. CASE ~(romLoaded /\ active = "libretro")
  <2> USE <1>2 DEF backend, library
  <2>1. TypeOK'
    BY DEF TypeOK, Engines
  <2>2. (RunningServed /\ StagedMatches)'
    BY DEF RunningServed, StagedMatches, Adopted, BootTarget
  <2> QED BY <2>1, <2>2 DEF GamesKnown, GamesClosed, RefOK, HandlesBalanced, HoldersKnown, Holds, Lib,
    CoreAlive, OptionHeard
<1> QED BY <1>1, <1>2

LEMMA PadsInv ==
  ASSUME CoresInv, Rebind \/ (\E some \in BOOLEAN : SyncCheats(some))
  PROVE  CoresInv'
<1> USE DEF CoresInv, Rebind, SyncCheats, host, library, Running
<1>1. TypeOK'
  BY DEF TypeOK
<1>2. (RunningServed /\ StagedMatches)'
  BY DEF RunningServed, Served, StagedMatches, Adopted, BootTarget
<1> QED BY <1>1, <1>2 DEF GamesKnown, GamesClosed, RefOK, HandlesBalanced, HoldersKnown, Holds, Lib,
  CoreAlive, OptionHeard

\* A CoreRef whose name stays holds the library it held.
LEMMA SameHolder ==
  ASSUME NEW old, NEW new, RefOK(old), old # NoRef, new.name = old.name
  PROVE  /\ new # NoRef /\ RefOK(new) /\ Lib(new) = Lib(old) /\ Lib(old) \in Libs
         /\ \A l : Holds(new, l) = Holds(old, l)
BY CoresAssumption DEF RefOK, NoRef, Lib, Holds

LEMMA SetType ==
  ASSUME NEW ref \in Refs, NEW v \in Choices
  PROVE  /\ Set(ref, v) \in Refs /\ Set(ref, v).name = ref.name
         /\ Set(ref, v).format = ref.format /\ Set(ref, v).updated
BY DEF Set, Refs

LEMMA OptionInv ==
  ASSUME CoresInv, NEW v \in Choices, StageOption(v) \/ SetOption(v)
  PROVE  CoresInv'
<1> USE DEF CoresInv, host, library
<1>1. CASE current' = Set(current, v) /\ current # NoRef /\ UNCHANGED <<pending, envTarget,
            sActive, systemId, loaded, pads, cheats, host, library, reopened>>
  <2>1. /\ current' \in Refs /\ current'.name = current.name
        /\ current'.format = current.format /\ current'.updated
    BY <1>1, SetType DEF TypeOK
  <2>2. /\ current' # NoRef /\ RefOK(current') /\ Lib(current') = Lib(current)
        /\ \A l : Holds(current', l) = Holds(current, l)
    BY <1>1, <2>1, SameHolder
  <2>3. TypeOK'
    BY <1>1, <2>1 DEF TypeOK
  <2>4. (HandlesBalanced /\ HoldersKnown)'
    BY <1>1, <2>2 DEF HandlesBalanced, HoldersKnown, Holds
  <2>5. (RunningServed /\ CoreAlive /\ OptionHeard)'
    BY <1>1, <2>1, <2>2 DEF RunningServed, Served, CoreAlive, OptionHeard
  <2>6. StagedMatches'
    BY <1>1, <2>2 DEF StagedMatches, Adopted, BootTarget
  <2> QED BY <1>1, <2>2, <2>3, <2>4, <2>5, <2>6 DEF RefOK, GamesKnown, Lib
<1>2. CASE pending' = Set(pending, v) /\ pending # NoRef /\ UNCHANGED <<current, envTarget,
            sActive, systemId, loaded, pads, cheats, host, library, reopened>>
  <2>1. /\ pending' \in Refs /\ pending'.name = pending.name
    BY <1>2, SetType DEF TypeOK
  <2>2. /\ pending' # NoRef /\ RefOK(pending')
        /\ \A l : Holds(pending', l) = Holds(pending, l)
    BY <1>2, <2>1, SameHolder
  <2>3. TypeOK'
    BY <1>2, <2>1 DEF TypeOK
  <2>4. (HandlesBalanced /\ HoldersKnown)'
    BY <1>2, <2>2 DEF HandlesBalanced, HoldersKnown, Holds, Lib
  <2>5. (RunningServed /\ CoreAlive /\ OptionHeard)'
    BY <1>2 DEF RunningServed, Served, CoreAlive, OptionHeard, Lib
  <2>6. StagedMatches'
    BY <1>2, <2>2 DEF StagedMatches, Adopted, BootTarget
  <2> QED BY <1>2, <2>2, <2>3, <2>4, <2>5, <2>6 DEF RefOK, GamesKnown, Lib
<1>3. QED
  BY <1>1, <1>2 DEF StageOption, SetOption, BootTarget

\* What the core does in retro_run to its CoreRef and its globals.
LEMMA RunInv ==
  ASSUME CoresInv, Tick \/ (\E list \in UNION {Lists[l] : l \in Libs} : Redeclare(list))
  PROVE  CoresInv'
<1> USE DEF CoresInv, host
<1> DEFINE Ran ==
      /\ current' \in Refs /\ current'.name = current.name
      /\ current'.format = current.format
      /\ UNCHANGED <<pending, envTarget, sActive, systemId, loaded, pads, cheats,
                     staged, active, romLoaded, opens, live, games, reopened>>
      /\ chosen' \in [Libs -> [format: Formats, seen: Choices \cup {NoChoice}]]
      /\ chosen'[Lib(current)].format = chosen[Lib(current)].format
      /\ \/ current' = current /\ chosen' = chosen
         \/ chosen'[Lib(current)].seen = current'.value
<1>1. current # NoRef /\ Lib(current) \in Libs /\ loaded
  BY DEF Tick, Redeclare, Running, RunningServed, RefOK, Lib
<1>2. Ran
  <2>1. CASE Tick
    <3>1. CASE Served /\ current.updated
      <4>1. current.value \in Choices \cup {NoChoice}
        BY DEF TypeOK, Refs
      <4>2. current' \in Refs /\ current'.name = current.name
            /\ current'.format = current.format /\ current'.value = current.value
        BY <2>1, <3>1 DEF Tick, TypeOK, Refs
      <4> QED BY <1>1, <2>1, <3>1, <4>1, <4>2 DEF Tick, TypeOK
    <3>2. CASE ~(Served /\ current.updated)
      BY <2>1, <3>2 DEF Tick, TypeOK
    <3> QED BY <3>1, <3>2
  <2>2. ASSUME NEW list \in UNION {Lists[l] : l \in Libs}, Redeclare(list)
        PROVE  Ran
    <3>1. list \in Seq(Choices)
      BY CoresAssumption
    <3>2. current' \in Refs /\ current'.name = current.name
          /\ current'.format = current.format /\ current'.value = Declared(current, list).value
      BY <2>2, <3>1, DeclaredType DEF Redeclare, TypeOK
    <3>3. current'.value \in Choices \cup {NoChoice}
      BY <3>2 DEF Refs
    <3> QED BY <1>1, <2>2, <3>2, <3>3 DEF Redeclare, TypeOK
  <2> QED BY <2>1, <2>2
<1>3. /\ current' # NoRef /\ RefOK(current') /\ Lib(current') = Lib(current)
      /\ \A l : Holds(current', l) = Holds(current, l)
  BY <1>1, <1>2, SameHolder
<1>4. TypeOK'
  BY <1>2 DEF TypeOK
<1>5. (HandlesBalanced /\ HoldersKnown)'
  BY <1>2, <1>3 DEF HandlesBalanced, HoldersKnown, Holds
<1>6. (RunningServed /\ CoreAlive /\ OptionHeard)'
  BY <1>2, <1>3 DEF RunningServed, Served, CoreAlive, OptionHeard
<1>7. StagedMatches'
  BY <1>1, <1>2, <1>3 DEF StagedMatches, Adopted, BootTarget
<1> QED BY <1>2, <1>3, <1>4, <1>5, <1>6, <1>7 DEF RefOK, GamesKnown

-----------------------------------------------------------------------------
(* The steps that open and close libraries.                                *)

\* What opens, closes and forgets a handle stays a count.
LEMMA BalanceNat ==
  CoresInv => \A l \in Libs : /\ opens[l] - Shut(l) \in Nat
                             /\ opens[l] - Swapped(l) \in Nat
BY HoldsType DEF CoresInv, HandlesBalanced, Shut, Swapped, TypeOK

LEMMA AdoptFreshInv ==
  ASSUME CoresInv, NEW n \in Names, NEW s \in Systems,
         NEW list \in UNION {Lists[l] : l \in Libs}, AdoptFresh(n, s, list)
  PROVE  CoresInv'
<1> DEFINE l == LibOf[n]
           fresh == Declared([NoRef EXCEPT !.name = n], list)
<1>1. l \in Libs /\ list \in Seq(Choices)
  BY CoresAssumption DEF AdoptFresh
<1>2. /\ fresh \in Refs /\ fresh # NoRef /\ RefOK(fresh) /\ Lib(fresh) = l
  <2>1. [NoRef EXCEPT !.name = n] \in Refs /\ [NoRef EXCEPT !.name = n].name = n
    BY NoRefType DEF Refs, NoRef
  <2>2. fresh \in Refs /\ fresh.name = n
    BY <1>1, <2>1, DeclaredType
  <2> QED BY <1>1, <2>2, CoresAssumption DEF RefOK, Lib, NoRef
<1> HIDE DEF fresh
<1>3. /\ \A k : Holds(NoRef, k) = 0
      /\ RefOK(NoRef)
  BY DEF Holds, RefOK
<1>4. TypeOK'
  <2>1. opens' \in [Libs -> Nat]
    BY BalanceNat, HoldsType DEF AdoptFresh, fresh, l, CoresInv, TypeOK, Shut
  <2>2. chosen' \in [Libs -> [format: Formats, seen: Choices \cup {NoChoice}]]
    <3>1. Fresh \in [format: Formats, seen: Choices \cup {NoChoice}]
      BY CoresAssumption DEF Fresh
    <3>2. \A k \in Libs : chosen[k] \in [format: Formats, seen: Choices \cup {NoChoice}]
      BY DEF CoresInv, TypeOK
    <3> QED BY <3>1, <3>2 DEF AdoptFresh
  <2>3. live' \subseteq Libs /\ reopened' \subseteq Libs /\ games' \subseteq Libs
    BY <1>1 DEF AdoptFresh, CoresInv, TypeOK
  <2>4. current' \in Refs /\ pending' \in Refs
    BY <1>2, NoRefType DEF AdoptFresh, CoresInv, TypeOK, fresh
  <2> QED BY <2>1, <2>2, <2>3, <2>4 DEF AdoptFresh, StageCore, Engines, CoresInv, TypeOK
<1>5. RefOK(current)' /\ RefOK(pending)'
  BY <1>2, <1>3 DEF AdoptFresh, CoresInv, RefOK, fresh
<1>6. \A k \in Libs : /\ Holds(current, k)' + Holds(pending, k)'
                          = Holds(current, k) + Holds(pending, k) + Holds(fresh, k) - Shut(k)
                     /\ opens'[k] = opens[k] + Holds(fresh, k) - Shut(k)
  BY <1>3, HoldsType DEF AdoptFresh, Holds, Shut, Lib, fresh, l
<1>7. HandlesBalanced'
  BY <1>6, HoldsType DEF HandlesBalanced, CoresInv, Holds, Lib
<1>8. \A k \in Libs \ reopened' :
        /\ k \notin reopened \/ opens[k] = 0 \/ opens'[k] = 0
        /\ k = l => opens[k] = 0 \/ opens'[k] = 0
  <2>1. \A k \in Libs : opens'[k] \in Nat /\ opens[k] \in Nat
    BY <1>4 DEF TypeOK, CoresInv
  <2>2. reopened' = {k \in reopened \cup {l} : opens[k] > 0 /\ opens'[k] > 0}
    BY DEF AdoptFresh, l
  <2> QED BY <1>1, <2>1, <2>2
<1>9. HoldersKnown'
  <2> SUFFICES ASSUME NEW k \in Libs \ reopened'
               PROVE  /\ Holds(current, k)' + Holds(pending, k)' <= 1
                      /\ Holds(current, k)' + Holds(pending, k)' = 1 => k \in live'
    BY DEF HoldersKnown, Holds, Lib
  <2>1. CASE opens'[k] = 0
    BY <2>1, <1>7, HoldsType DEF HandlesBalanced, Holds, Lib
  <2>2. CASE opens'[k] # 0 /\ k = l
    BY <2>2, <1>2, <1>6, <1>8, HoldsType DEF AdoptFresh, CoresInv, HandlesBalanced, Shut
  <2>3. CASE opens'[k] # 0 /\ k # l
    <3>0. Holds(fresh, k) = 0
      BY <2>3, <1>2 DEF Holds
    <3>1. k \notin reopened
      BY <2>3, <3>0, <1>6, <1>8, HoldsType DEF CoresInv, HandlesBalanced, Shut
    <3> QED BY <2>3, <3>0, <3>1, <1>6, HoldsType DEF AdoptFresh, CoresInv, HandlesBalanced,
      HoldersKnown, Shut
  <2> QED BY <2>1, <2>2, <2>3
<1>10. RunningServed'
  BY DEF AdoptFresh, CoresInv, RunningServed, Served, Lib
<1>11. loaded /\ Lib(current) \notin reopened' =>
         Lib(current) # l /\ Shut(Lib(current)) = 0 /\ Lib(current) \notin reopened
  <2> SUFFICES ASSUME loaded, Lib(current) \notin reopened'
               PROVE  Lib(current) # l /\ Shut(Lib(current)) = 0
                      /\ Lib(current) \notin reopened
    OBVIOUS
  <2>1. current # NoRef /\ Lib(current) \in Libs /\ current' = current
    BY DEF AdoptFresh, CoresInv, RunningServed, RefOK, Lib
  <2>2. Holds(current, Lib(current)) = 1 /\ Holds(current, Lib(current))' = 1
    BY <2>1 DEF Holds, Lib
  <2>3. opens[Lib(current)] > 0 /\ opens'[Lib(current)] > 0
    BY <2>1, <2>2, <1>7, HoldsType DEF CoresInv, HandlesBalanced, Holds, Lib
  <2>4. Lib(current) # l /\ Lib(current) \notin reopened
    <3>1. opens[Lib(current)] # 0 /\ opens'[Lib(current)] # 0
      BY <2>3
    <3> QED BY <1>8, <2>1, <3>1
  <2>5. Shut(Lib(current)) = 0
    BY <2>1, <2>2, <2>4, HoldsType DEF CoresInv, HoldersKnown, Shut
  <2> QED BY <2>4, <2>5
<1>12. (CoreAlive /\ OptionHeard)'
  <2> SUFFICES ASSUME loaded, Lib(current) \notin reopened'
               PROVE  /\ Lib(current) \in live'
                      /\ chosen'[Lib(current)] = chosen[Lib(current)]
                      /\ current' = current
                      /\ Lib(current) \notin reopened
    BY <1>11 DEF AdoptFresh, CoresInv, CoreAlive, OptionHeard, Lib
  <2>1. Lib(current) \in Libs
    BY DEF CoresInv, RunningServed, RefOK, Lib
  <2> QED BY <1>11, <2>1 DEF AdoptFresh, CoresInv, CoreAlive, l
<1>13. StagedMatches'
  BY <1>2 DEF AdoptFresh, StagedMatches, Adopted, StageCore, BootTarget, fresh
<1>14. GamesKnown'
  BY DEF AdoptFresh, CoresInv, GamesKnown, Lib
<1> QED BY <1>4, <1>5, <1>7, <1>9, <1>10, <1>12, <1>13, <1>14 DEF CoresInv

\* What loadRom's swap leaves: the core it boots holds its library.
LEMMA SwapInv ==
  ASSUME CoresInv, Adopted, SwapIn, NEW new, new.name = BootTarget.name, current' = new
  PROVE  /\ new # NoRef /\ RefOK(new) /\ Lib(new) = Lib(BootTarget) /\ Lib(new) \in Libs
         /\ RefOK(pending')
         /\ opens' \in [Libs -> Nat] /\ live' \subseteq Libs /\ reopened' \subseteq Libs
         /\ HandlesBalanced'
         /\ HoldersKnown'
         /\ Lib(new) \notin reopened' => Lib(new) \in live' /\ Swapped(Lib(new)) = 0
         /\ StagedMatches'
<1> USE DEF SwapIn
<1>1. BootTarget # NoRef /\ RefOK(BootTarget)
  BY DEF Adopted, CoresInv, BootTarget
<1>2. /\ new # NoRef /\ RefOK(new) /\ Lib(new) = Lib(BootTarget) /\ Lib(new) \in Libs
      /\ \A l : Holds(new, l) = Holds(BootTarget, l)
  BY <1>1, SameHolder
<1>3. \A l : Holds(NoRef, l) = 0
  BY DEF Holds
<1>4. /\ opens' \in [Libs -> Nat] /\ live' \subseteq Libs /\ reopened' \subseteq Libs
  BY BalanceNat DEF CoresInv, TypeOK
<1>5. \A l : Holds(current, l)' + Holds(pending, l)'
               = Holds(current, l) + Holds(pending, l) - Swapped(l)
  <2>1. \A l : /\ Holds(current, l)' = Holds(BootTarget, l)
               /\ Holds(pending, l)' = 0
    BY <1>2, <1>3 DEF Holds, Lib
  <2> QED BY <2>1, <1>3, HoldsType DEF BootTarget, Swapped
<1>6. HandlesBalanced'
  BY <1>5, HoldsType DEF HandlesBalanced, CoresInv, Holds, Lib, Swapped
<1>7. HoldersKnown'
  <2> SUFFICES ASSUME NEW k \in Libs \ reopened'
               PROVE  /\ Holds(current, k)' + Holds(pending, k)' <= 1
                      /\ Holds(current, k)' + Holds(pending, k)' = 1 => k \in live'
    BY DEF HoldersKnown, Holds, Lib
  <2>1. CASE opens'[k] = 0
    BY <2>1, <1>6, HoldsType DEF HandlesBalanced, Holds, Lib
  <2>2. CASE opens'[k] # 0
    <3>1. k \notin reopened
      BY <2>2, <1>4
    <3> QED BY <2>2, <3>1, <1>5, <1>6, HoldsType DEF CoresInv, HandlesBalanced,
      HoldersKnown, Swapped
  <2> QED BY <2>1, <2>2
<1>8. Lib(new) \notin reopened' => Lib(new) \in live' /\ Swapped(Lib(new)) = 0
  <2> SUFFICES ASSUME Lib(new) \notin reopened'
               PROVE  Lib(new) \in live' /\ Swapped(Lib(new)) = 0
    OBVIOUS
  <2>1. Holds(current, Lib(new))' = 1 /\ Holds(pending, Lib(new))' = 0
    BY <1>2, <1>3 DEF Holds, Lib
  <2>2. Lib(new) \in live'
    BY <1>2, <1>7, <2>1 DEF HoldersKnown, Holds, Lib
  <2> QED BY <2>2, HoldsType DEF Swapped
<1>9. StagedMatches'
  BY <1>2 DEF StagedMatches, Adopted, BootTarget
<1> QED BY <1>2, <1>3, <1>4, <1>6, <1>7, <1>8, <1>9 DEF RefOK

LEMMA KeptType ==
  CoresInv => Kept \in [Libs -> [format: Formats, seen: Choices \cup {NoChoice}]]
<1>1. Fresh \in [format: Formats, seen: Choices \cup {NoChoice}]
  BY CoresAssumption DEF Fresh
<1> QED BY <1>1 DEF Kept, CoresInv, TypeOK

LEMMA LoadRomRefusedInv == CoresInv /\ LoadRomRefused => CoresInv'
<1> SUFFICES ASSUME CoresInv, LoadRomRefused PROVE CoresInv'
  OBVIOUS
<1> DEFINE new == BootTarget
<1>1. new \in Refs /\ new.name = BootTarget.name /\ current' = new
  BY DEF LoadRomRefused, CoresInv, TypeOK, BootTarget
<1>2. Adopted /\ SwapIn
  BY DEF LoadRomRefused
<1>3. TypeOK'
  BY <1>1, <1>2, SwapInv, KeptType, GamesClosedType, NoRefType
     DEF LoadRomRefused, SwapIn, Forget, CoresInv, TypeOK, Engines
<1>4. (RunningServed /\ CoreAlive /\ OptionHeard)'
  BY DEF LoadRomRefused, Forget, RunningServed, CoreAlive, OptionHeard
<1>5. GamesKnown'
  BY DEF LoadRomRefused, Forget, CoresInv, GamesKnown, GamesClosed
<1> QED BY <1>1, <1>2, <1>3, <1>4, <1>5, SwapInv DEF CoresInv

LEMMA LoadRomInv ==
  ASSUME CoresInv, NEW f \in Formats, LoadRom(f)
  PROVE  CoresInv'
<1> DEFINE new == Formatted(BootTarget, f)
<1>1. /\ new \in Refs /\ new.name = BootTarget.name /\ new.format = f
      /\ new.value = BootTarget.value /\ current' = new
      /\ BootTarget.value \in Choices \cup {NoChoice}
  BY DEF LoadRom, CoresInv, TypeOK, BootTarget, Formatted, Refs
<1> HIDE DEF new
<1>2. Adopted /\ SwapIn
  BY DEF LoadRom
<1>3. /\ new # NoRef /\ Lib(new) = Lib(BootTarget) /\ Lib(new) \in Libs
      /\ Lib(new) \notin reopened' => Lib(new) \in live'
  BY <1>1, <1>2, SwapInv
<1>4. /\ chosen' \in [Libs -> [format: Formats, seen: Choices \cup {NoChoice}]]
      /\ chosen'[Lib(new)] = [format |-> f, seen |-> BootTarget.value]
  BY <1>1, <1>3, KeptType DEF LoadRom
<1>6. TypeOK'
  BY <1>1, <1>2, <1>3, <1>4, SwapInv, GamesClosedType, NoRefType
     DEF LoadRom, SwapIn, CoresInv, TypeOK, Engines
<1>7. (RunningServed /\ CoreAlive /\ OptionHeard)'
  BY <1>1, <1>2, <1>3, <1>4 DEF LoadRom, SwapIn, RunningServed, Served, CoreAlive,
     OptionHeard, Lib
<1>8. GamesKnown'
  BY <1>1, <1>3 DEF LoadRom, CoresInv, GamesKnown, GamesClosed, Lib
<1> QED BY <1>1, <1>2, <1>6, <1>7, <1>8, SwapInv DEF CoresInv

-----------------------------------------------------------------------------
(* The theorems.                                                           *)

LEMMA StepInv == CoresInv /\ [Next]_vars => CoresInv'
<1> SUFFICES ASSUME CoresInv, [Next]_vars PROVE CoresInv'
  OBVIOUS
<1>1. CASE UNCHANGED vars
  BY <1>1 DEF vars, backend, host, library, CoresInv, TypeOK, GamesKnown, RefOK, HandlesBalanced,
     HoldersKnown, Holds, Lib, RunningServed, Served, CoreAlive, OptionHeard,
     StagedMatches, Adopted, BootTarget
<1>2. CASE Next
  BY <1>1, <1>2, AdoptHeldInv, AdoptFreshInv, StageOtherInv, UnloadGameInv,
     LoadRomRefusedInv, LoadRomInv, LoadRomOtherInv, RunInv, PadsInv, OptionInv
     DEF Next, AdoptFails
<1> QED BY <1>1, <1>2

\* The invariant of the loader: who holds which library, and that the core of
\* a running game is the one that is served.
THEOREM CoresInvariant == Spec => []CoresInv
BY InitInv, StepInv, PTL DEF Spec

\* Every state of the loader is well typed.
THEOREM TypeCorrect == Spec => []TypeOK
BY CoresInvariant, PTL DEF CoresInv

\* No adoption, refused boot or swap leaks a library handle.
THEOREM HandlesAreBalanced == Spec => []HandlesBalanced
BY CoresInvariant, PTL DEF CoresInv

\* A running game's callbacks are answered, and a stopped one leaves nothing.
THEOREM RunningIsServed == Spec => []RunningServed
BY CoresInvariant, PTL DEF CoresInv

\* The core under a game is initialised, and its frames are read in its own
\* format, unless its library was opened twice.
THEOREM CoreIsAlive == Spec => []CoreAlive
BY CoresInvariant, PTL DEF CoresInv

\* What was staged is what loadRom finds adopted.
THEOREM StagedIsAdopted == Spec => []StagedMatches
BY CoresInvariant, PTL DEF CoresInv

\* No option value set for a core is lost on the way to it.
THEOREM OptionsAreHeard == Spec => []OptionHeard
BY CoresInvariant, PTL DEF CoresInv

-----------------------------------------------------------------------------
\* Adoptions close no library of the running core, and boots unload the game
\* before they close it.
LEMMA KeptStep ==
  ASSUME CoresInv, CoresInv', [Next]_vars
  PROVE  /\ loaded /\ pending' # NoRef => current'.name = current.name
         /\ live \ live' \subseteq (Libs \ games') \cup reopened'
<1>1. loaded /\ pending' # NoRef => current'.name = current.name
  <2>1. LoadRomRefused \/ (\E f \in Formats : LoadRom(f)) => pending' = NoRef
    BY DEF LoadRomRefused, LoadRom, SwapIn
  <2>3. \A v \in Choices : StageOption(v) \/ SetOption(v) => current'.name = current.name
    BY SetType DEF StageOption, SetOption, CoresInv, TypeOK
  <2>4. \A list \in UNION {Lists[l] : l \in Libs} : Redeclare(list) => current'.name = current.name
    BY CoresAssumption, DeclaredType DEF Redeclare, CoresInv, TypeOK
  <2>5. Tick => current'.name = current.name
    BY DEF Tick, CoresInv, TypeOK, Refs
  <2>6. \A n \in Names, s \in Systems, list \in UNION {Lists[l] : l \in Libs} :
          AdoptFresh(n, s, list) /\ loaded => current' = current
    BY DEF AdoptFresh
  <2> QED BY <2>1, <2>3, <2>4, <2>5, <2>6
    DEF Next, AdoptHeld, AdoptFails, StageOther, UnloadGame, UnloadCore, LoadRomOther,
        Rebind, SyncCheats, vars, backend
<1>2. live \ live' \subseteq (Libs \ games') \cup reopened'
  BY DEF CoresInv, TypeOK, GamesKnown, CoreAlive
<1> QED BY <1>1, <1>2

\* The swap lands at the next boot, never under the running game.
THEOREM RunningCoreIsKept == Spec => RunningCoreKept
BY CoresInvariant, KeptStep, PTL DEF Spec, RunningCoreKept
=============================================================================
