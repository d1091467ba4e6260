------------------------------ MODULE IosProofs ------------------------------
(***************************************************************************)
(* Proofs about the iOS app, for any renderers, threads, buttons and       *)
(* remaps: the view mounted last is the one bridge calls reach, the game   *)
(* it shows is ticked as long as calls do not overlap                      *)
(* (IosRenderers), and under the lock every renderer takes around a call   *)
(* the press latch implements TapContract (PressLatch).                    *)
(***************************************************************************)
EXTENDS IosRenderers, PressLatch, FiniteSetTheorems, SequenceTheorems, TLAPS

-----------------------------------------------------------------------------
(* The renderers of one surface: IosRenderers.                             *)

\* What a call may have left to do, by what matters of it: a loop to start, a
\* thread to spawn, the end of a failed boot, a stop on its way to the reset.
ToStart == {Started, <<"arm", "startLoop">>, <<"startLoop">>}
ToSpawn == {<<"claim", "attach", "spawn">>, <<"attach", "spawn">>, <<"spawn">>}
ToFail  == {<<"stopLoop", "detach", "sayStopped">>}
ToReset == {<<"detach", "reset", "forget", "sayStopped">>,
            <<"reset", "forget", "sayStopped">>}
ToBoot  == {<<"boot">>}
ToStop  == {<<"stopLoop", "detach", "reset", "forget", "sayStopped">>}
Rests   == {<<>>, <<"stage">>, <<"detach", "sayStopped">>, <<"sayStopped">>,
            <<"forget", "sayStopped">>,
            <<"mute", "pause", "flush", "sayPaused">>, <<"pause", "flush", "sayPaused">>,
            <<"flush", "sayPaused">>, <<"sayPaused">>,
            <<"unmute", "resume", "sayRunning">>, <<"resume", "sayRunning">>,
            <<"sayRunning">>}
Lists == Rests \cup ToStart \cup ToSpawn \cup ToFail \cup ToReset \cup ToBoot \cup ToStop

CallInv ==
  \A c \in Callers : \/ call[c] = Idle
                     \/ /\ call[c].on \in Renderers
                        /\ call[c].todo \in Lists \ {<<>>}

\* A renderer that is reached lives, and one that is gone runs nothing.
ViewInv ==
  /\ surfaces # None => view[surfaces].life = "mounted"
  /\ \A c \in Callers : call[c].on # None =>
       view[call[c].on].life \in {"mounted", "dismantled"}
  /\ \A v \in Renderers : view[v].life \in {"unborn", "gone"} => ~view[v].running

\* A renderer that says it runs has a thread, or a call is about to spawn it.
LoopInv ==
  \A v \in Renderers : view[v].running =>
    \/ \E t \in Threads : loop[t].of = v
    \/ \E c \in Callers : call[c].on = v /\ call[c].todo \in ToSpawn

\* A game was booted by a renderer that runs, is about to, or is being stopped.
GameInv ==
  core.game # "none" =>
    /\ latest.booted \in Renderers
    /\ view[latest.booted].life # "unborn"
    /\ \A c \in Callers : call[c].todo \notin ToFail
    /\ view[latest.booted].life = "mounted" =>
         \/ view[latest.booted].running
         \/ \E c \in Callers : call[c].on = latest.booted /\ call[c].todo \in ToStart
         \/ \E c \in Callers : call[c].todo \in ToReset

Busy == {t \in Threads : loop[t] # Free}
Spawners == ToBoot \cup ToStart \cup ToSpawn

\* There is a thread for every ROM load that may still spawn one.
SpawnInv ==
  Cardinality(Busy) + (IF \E c \in Callers : call[c].todo \in Spawners THEN 1 ELSE 0)
    <= made.loads

\* One call is under way at a time, whichever thread makes it.
Serial == \A c, d \in Callers : call[c] # Idle /\ call[d] # Idle => c = d

\* What the invariants other than the types say, in one name.
Plays == Serial /\ CallInv /\ ViewInv /\ LoopInv /\ GameInv /\ SpawnInv

IosInv == TypeOK /\ (latest.overlap \/ Plays)

-----------------------------------------------------------------------------
(* The lists of accesses *)

LEMMA ListsTyped == Lists \subseteq Seq(Tags)
<1> USE DEF Tags, UnderLock, Started
<1>1. Rests \subseteq Seq(Tags)
  BY DEF Rests
<1>2. ToStart \cup ToSpawn \cup ToFail \cup ToReset \cup ToBoot \cup ToStop \subseteq Seq(Tags)
  BY DEF ToStart, ToSpawn, ToFail, ToReset, ToBoot, ToStop
<1> QED BY <1>1, <1>2 DEF Lists


\* What each access leaves, and of which list it is the first.
LEMMA StartTails ==
  /\ Head(Started) = "sayLoading" /\ Tail(Started) = <<"arm", "startLoop">>
  /\ Head(<<"arm", "startLoop">>) = "arm" /\ Tail(<<"arm", "startLoop">>) = <<"startLoop">>
  /\ Head(<<"startLoop">>) = "startLoop" /\ Tail(<<"startLoop">>) = <<>>
BY DEF Started

LEMMA ToStartStep ==
  ASSUME NEW l \in ToStart
  PROVE  /\ l # <<>>
         /\ Head(l) \in {"sayLoading", "arm", "startLoop"}
         /\ Head(l) = "startLoop" => Tail(l) = <<>>
         /\ Head(l) # "startLoop" => Tail(l) \in ToStart
<1>1. Started # <<>> /\ <<"arm", "startLoop">> # <<>> /\ <<"startLoop">> # <<>>
  BY DEF Started
<1>2. CASE l = Started
  BY <1>1, <1>2, StartTails, Zenon DEF ToStart
<1>3. CASE l = <<"arm", "startLoop">>
  BY <1>1, <1>3, StartTails, Zenon DEF ToStart
<1>4. CASE l = <<"startLoop">>
  BY <1>1, <1>4, StartTails, Zenon DEF ToStart
<1> QED BY <1>2, <1>3, <1>4 DEF ToStart

LEMMA SpawnTails ==
  /\ Head(<<"claim", "attach", "spawn">>) = "claim"
  /\ Tail(<<"claim", "attach", "spawn">>) = <<"attach", "spawn">>
  /\ Head(<<"attach", "spawn">>) = "attach" /\ Tail(<<"attach", "spawn">>) = <<"spawn">>
  /\ Head(<<"spawn">>) = "spawn" /\ Tail(<<"spawn">>) = <<>>
OBVIOUS

LEMMA ToSpawnStep ==
  ASSUME NEW l \in ToSpawn
  PROVE  /\ l # <<>>
         /\ Head(l) \in {"claim", "attach", "spawn"}
         /\ Head(l) = "spawn" => Tail(l) = <<>>
         /\ Head(l) # "spawn" => Tail(l) \in ToSpawn
<1>1. <<"claim", "attach", "spawn">> # <<>> /\ <<"attach", "spawn">> # <<>>
      /\ <<"spawn">> # <<>>
  OBVIOUS
<1>2. CASE l = <<"claim", "attach", "spawn">>
  BY <1>1, <1>2, SpawnTails, Zenon DEF ToSpawn
<1>3. CASE l = <<"attach", "spawn">>
  BY <1>1, <1>3, SpawnTails, Zenon DEF ToSpawn
<1>4. CASE l = <<"spawn">>
  BY <1>1, <1>4, SpawnTails, Zenon DEF ToSpawn
<1> QED BY <1>2, <1>3, <1>4 DEF ToSpawn

LEMMA StopTails ==
  /\ Head(<<"stopLoop", "detach", "reset", "forget", "sayStopped">>) = "stopLoop"
  /\ Tail(<<"stopLoop", "detach", "reset", "forget", "sayStopped">>)
       = <<"detach", "reset", "forget", "sayStopped">>
  /\ Head(<<"detach", "reset", "forget", "sayStopped">>) = "detach"
  /\ Tail(<<"detach", "reset", "forget", "sayStopped">>)
       = <<"reset", "forget", "sayStopped">>
  /\ Head(<<"reset", "forget", "sayStopped">>) = "reset"
  /\ Tail(<<"reset", "forget", "sayStopped">>) = <<"forget", "sayStopped">>
  /\ Head(<<"stopLoop", "detach", "sayStopped">>) = "stopLoop"
  /\ Tail(<<"stopLoop", "detach", "sayStopped">>) = <<"detach", "sayStopped">>
  /\ Head(<<"boot">>) = "boot" /\ Tail(<<"boot">>) = <<>>
<1>1. /\ Head(<<"stopLoop", "detach", "reset", "forget", "sayStopped">>) = "stopLoop"
      /\ Tail(<<"stopLoop", "detach", "reset", "forget", "sayStopped">>)
           = <<"detach", "reset", "forget", "sayStopped">>
  OBVIOUS
<1>2. /\ Head(<<"detach", "reset", "forget", "sayStopped">>) = "detach"
      /\ Tail(<<"detach", "reset", "forget", "sayStopped">>)
           = <<"reset", "forget", "sayStopped">>
  OBVIOUS
<1>3. /\ Head(<<"reset", "forget", "sayStopped">>) = "reset"
      /\ Tail(<<"reset", "forget", "sayStopped">>) = <<"forget", "sayStopped">>
  OBVIOUS
<1>4. /\ Head(<<"stopLoop", "detach", "sayStopped">>) = "stopLoop"
      /\ Tail(<<"stopLoop", "detach", "sayStopped">>) = <<"detach", "sayStopped">>
  OBVIOUS
<1>5. Head(<<"boot">>) = "boot" /\ Tail(<<"boot">>) = <<>>
  OBVIOUS
<1> QED BY <1>1, <1>2, <1>3, <1>4, <1>5, Zenon

LEMMA ToResetStep ==
  ASSUME NEW l \in ToReset
  PROVE  /\ l # <<>>
         /\ Head(l) \in {"detach", "reset"}
         /\ Head(l) = "reset" => Tail(l) \in Rests
         /\ Head(l) # "reset" => Tail(l) \in ToReset
<1>1. <<"detach", "reset", "forget", "sayStopped">> # <<>>
      /\ <<"reset", "forget", "sayStopped">> # <<>>
  OBVIOUS
<1>2. CASE l = <<"detach", "reset", "forget", "sayStopped">>
  BY <1>1, <1>2, StopTails, Zenon DEF ToReset
<1>3. CASE l = <<"reset", "forget", "sayStopped">>
  BY <1>1, <1>3, StopTails, Zenon DEF ToReset, Rests
<1> QED BY <1>2, <1>3 DEF ToReset

LEMMA EndsStep ==
  ASSUME NEW l
  PROVE  /\ l \in ToBoot => l # <<>> /\ Head(l) = "boot" /\ Tail(l) = <<>>
         /\ l \in ToFail => l # <<>> /\ Head(l) = "stopLoop" /\ Tail(l) \in Rests
         /\ l \in ToStop => l # <<>> /\ Head(l) = "stopLoop" /\ Tail(l) \in ToReset
<1>1. <<"boot">> # <<>> /\ <<"stopLoop", "detach", "sayStopped">> # <<>>
      /\ <<"stopLoop", "detach", "reset", "forget", "sayStopped">> # <<>>
  OBVIOUS
<1> QED BY <1>1, StopTails, Zenon DEF ToBoot, ToFail, ToStop, Rests, ToReset

\* The other lists, which neither boot, start, spawn nor stop anything.
LEMMA RestsStep ==
  ASSUME NEW l \in Rests, l # <<>>
  PROVE  /\ Head(l) \notin {"boot", "sayLoading", "arm", "startLoop", "claim",
                         "attach", "spawn", "stopLoop", "reset"}
         /\ Tail(l) \in Rests
<1>1. CASE l \in {<<"stage">>, <<"sayPaused">>, <<"sayRunning">>, <<"sayStopped">>}
  <2>1. Tail(<<"stage">>) = <<>> /\ Head(<<"stage">>) = "stage"
    OBVIOUS
  <2>2. Tail(<<"sayPaused">>) = <<>> /\ Head(<<"sayPaused">>) = "sayPaused"
    OBVIOUS
  <2>3. Tail(<<"sayRunning">>) = <<>> /\ Head(<<"sayRunning">>) = "sayRunning"
    OBVIOUS
  <2>4. Tail(<<"sayStopped">>) = <<>> /\ Head(<<"sayStopped">>) = "sayStopped"
    OBVIOUS
  <2> QED BY <1>1, <2>1, <2>2, <2>3, <2>4, Zenon DEF Rests
<1>2. CASE l = <<"detach", "sayStopped">>
  <2>1. Tail(<<"detach", "sayStopped">>) = <<"sayStopped">>
        /\ Head(<<"detach", "sayStopped">>) = "detach"
    OBVIOUS
  <2> QED BY <1>2, <2>1, Zenon DEF Rests
<1>3. CASE l = <<"forget", "sayStopped">>
  <2>1. Tail(<<"forget", "sayStopped">>) = <<"sayStopped">>
        /\ Head(<<"forget", "sayStopped">>) = "forget"
    OBVIOUS
  <2> QED BY <1>3, <2>1, Zenon DEF Rests
<1>4. CASE l = <<"mute", "pause", "flush", "sayPaused">>
  <2>1. Tail(<<"mute", "pause", "flush", "sayPaused">>)
          = <<"pause", "flush", "sayPaused">>
        /\ Head(<<"mute", "pause", "flush", "sayPaused">>) = "mute"
    OBVIOUS
  <2> QED BY <1>4, <2>1, Zenon DEF Rests
<1>5. CASE l = <<"pause", "flush", "sayPaused">>
  <2>1. Tail(<<"pause", "flush", "sayPaused">>) = <<"flush", "sayPaused">>
        /\ Head(<<"pause", "flush", "sayPaused">>) = "pause"
    OBVIOUS
  <2> QED BY <1>5, <2>1, Zenon DEF Rests
<1>6. CASE l = <<"flush", "sayPaused">>
  <2>1. Tail(<<"flush", "sayPaused">>) = <<"sayPaused">>
        /\ Head(<<"flush", "sayPaused">>) = "flush"
    OBVIOUS
  <2> QED BY <1>6, <2>1, Zenon DEF Rests
<1>7. CASE l = <<"unmute", "resume", "sayRunning">>
  <2>1. Tail(<<"unmute", "resume", "sayRunning">>) = <<"resume", "sayRunning">>
        /\ Head(<<"unmute", "resume", "sayRunning">>) = "unmute"
    OBVIOUS
  <2> QED BY <1>7, <2>1, Zenon DEF Rests
<1>8. CASE l = <<"resume", "sayRunning">>
  <2>1. Tail(<<"resume", "sayRunning">>) = <<"sayRunning">>
        /\ Head(<<"resume", "sayRunning">>) = "resume"
    OBVIOUS
  <2> QED BY <1>8, <2>1, Zenon DEF Rests
<1> QED BY <1>1, <1>2, <1>3, <1>4, <1>5, <1>6, <1>7, <1>8, Zenon DEF Rests

LEMMA Apart ==
  ASSUME NEW l
  PROVE  /\ l \in Rests => l \notin Spawners \cup ToFail \cup ToStop
         /\ l \in ToReset => l \notin Rests \cup Spawners \cup ToFail \cup ToStop
         /\ l \in ToStart \cup ToSpawn => l \notin ToFail
         /\ l = <<>> => l \notin Spawners \cup ToFail \cup ToReset
<1>1. l \in Spawners \cup ToFail \cup ToStop => l # <<>> /\ Head(l) \in
        {"boot", "sayLoading", "arm", "startLoop", "claim", "attach", "spawn", "stopLoop"}
  BY ToStartStep, ToSpawnStep, EndsStep, Zenon DEF Spawners
<1>2. l \in ToReset => l # <<>> /\ Head(l) \in {"detach", "reset"}
  BY ToResetStep
<1>3. l \in ToStart \cup ToSpawn => Head(l) # "stopLoop"
  BY ToStartStep, ToSpawnStep
<1>4. l \in Rests => l \notin Spawners \cup ToFail \cup ToStop
  BY <1>1, RestsStep
<1>5. l \in ToReset => l \notin Rests \cup Spawners \cup ToFail \cup ToStop
  <2>1. <<"reset", "forget", "sayStopped">> \notin Rests
    BY StopTails, <1>1, RestsStep, ToResetStep DEF ToReset
  <2>2. <<"detach", "reset", "forget", "sayStopped">> \notin Rests
    BY <2>1, StopTails, RestsStep, ToResetStep DEF ToReset
  <2> QED BY <1>1, <1>2, <2>1, <2>2 DEF ToReset
<1>6. l \in ToStart \cup ToSpawn => l \notin ToFail
  BY <1>3, EndsStep
<1> QED BY <1>1, <1>2, <1>4, <1>5, <1>6

-----------------------------------------------------------------------------
(* What an access makes of a call *)

\* The call of c goes on with rest, or ends.
Left(c, rest) ==
  call' = [call EXCEPT ![c] = IF rest = <<>> THEN Idle
                              ELSE [on |-> call[c].on, todo |-> rest]]

LEMMA DoneLeft ==
  ASSUME TypeOK, NEW c \in Callers, call[c].todo # <<>>, NEW more, Done(c, more)
  PROVE  Left(c, more \o Tail(call[c].todo))
<1>1. call[c] \in [on: Renderers \cup {None}, todo: Seq(Tags)]
  BY DEF TypeOK
<1> DEFINE rest == more \o Tail(call[c].todo)
<1> HIDE DEF rest
<1>2. [call[c] EXCEPT !.todo = rest] = [on |-> call[c].on, todo |-> rest]
  BY <1>1
<1>3. call' = [call EXCEPT ![c] = IF rest = <<>> THEN Idle
                                  ELSE [call[c] EXCEPT !.todo = rest]]
  BY DEF Done, rest
<1>4. Left(c, rest)
  BY <1>2, <1>3 DEF Left
<1> QED BY <1>4 DEF rest

\* An access that adds nothing leaves the tail.
LEMMA DoneTail ==
  ASSUME TypeOK, NEW c \in Callers, call[c].todo # <<>>, Done(c, <<>>)
  PROVE  Left(c, Tail(call[c].todo))
<1>1. Tail(call[c].todo) \in Seq(Tags)
  BY DEF TypeOK
<1>2. <<>> \o Tail(call[c].todo) = Tail(call[c].todo)
  BY <1>1, ConcatEmptySeq
<1> QED BY <1>2, DoneLeft

\* One that is the call's last leaves what it adds.
LEMMA DoneLast ==
  ASSUME TypeOK, NEW c \in Callers, call[c].todo # <<>>, Tail(call[c].todo) = <<>>,
         NEW more \in Seq(Tags), Done(c, more)
  PROVE  Left(c, more)
<1>1. more \o Tail(call[c].todo) = more
  BY ConcatEmptySeq
<1> QED BY <1>1, DoneLeft

LEMMA LeftTyped ==
  ASSUME TypeOK, NEW c \in Callers, NEW rest \in Seq(Tags), Left(c, rest)
  PROVE  call' \in [Callers -> [on: Renderers \cup {None}, todo: Seq(Tags)]]
<1>1. call \in [Callers -> [on: Renderers \cup {None}, todo: Seq(Tags)]]
  BY DEF TypeOK
<1>2. Idle \in [on: Renderers \cup {None}, todo: Seq(Tags)]
  BY DEF Idle
<1>3. [on |-> call[c].on, todo |-> rest] \in [on: Renderers \cup {None}, todo: Seq(Tags)]
  BY <1>1
<1> QED BY <1>1, <1>2, <1>3 DEF Left

LEMMA LeftCall ==
  ASSUME TypeOK, NEW c \in Callers, NEW rest, Left(c, rest)
  PROVE  /\ rest = <<>> => call'[c] = Idle
         /\ rest # <<>> => call'[c].on = call[c].on
         /\ call'[c].todo = rest
         /\ call'[c].on \in {call[c].on, None}
         /\ \A d \in Callers \ {c} : call'[d] = call[d]
<1>1. call \in [Callers -> [on: Renderers \cup {None}, todo: Seq(Tags)]]
  BY DEF TypeOK
<1>2. call'[c] = IF rest = <<>> THEN Idle ELSE [on |-> call[c].on, todo |-> rest]
  BY <1>1 DEF Left
<1>3. \A d \in Callers \ {c} : call'[d] = call[d]
  BY <1>1 DEF Left
<1> QED BY <1>2, <1>3 DEF Idle

-----------------------------------------------------------------------------
(* Every variable keeps its type. *)

Fields == [life: {"unborn", "mounted", "dismantled", "gone"}, staged: BOOLEAN,
           running: BOOLEAN, pendingStarted: BOOLEAN, status: Statuses]

\* TypeOK, in the parts that the steps change separately.
HostTypes == /\ surfaces \in Renderers \cup {None}
             /\ latest \in [mounted: Renderers \cup {None},
                            booted: Renderers \cup {None}, overlap: BOOLEAN]
             /\ made \in [loads: 0 .. Cardinality(Threads), others: 0 .. MaxCalls]
ViewTypes == view \in [Renderers -> Fields]
LockTypes == emuLock \in [Renderers -> Callers \cup Threads \cup {None}]
CoreTypes == /\ core \in [game: Games, paused: BOOLEAN, drawn: BOOLEAN]
             /\ pump \in [on: BOOLEAN, paused: BOOLEAN]
CallTypes == call \in [Callers -> [on: Renderers \cup {None}, todo: Seq(Tags)]]
LoopTypes == loop \in [Threads -> [of: Renderers \cup {None}, at: Places]]

LEMMA TypeParts ==
  /\ TypeOK <=> /\ HostTypes /\ ViewTypes /\ LockTypes
                /\ CoreTypes /\ CallTypes /\ LoopTypes
  /\ TypeOK' <=> /\ HostTypes' /\ ViewTypes' /\ LockTypes'
                 /\ CoreTypes' /\ CallTypes' /\ LoopTypes'
BY DEF TypeOK, HostTypes, ViewTypes, LockTypes, CoreTypes, CallTypes, LoopTypes, Fields

LEMMA TypesKept ==
  /\ HostTypes /\ UNCHANGED <<surfaces, latest, made>> => HostTypes'
  /\ ViewTypes /\ UNCHANGED view => ViewTypes'
  /\ LockTypes /\ UNCHANGED emuLock => LockTypes'
  /\ CoreTypes /\ UNCHANGED <<core, pump>> => CoreTypes'
  /\ CallTypes /\ UNCHANGED call => CallTypes'
  /\ LoopTypes /\ UNCHANGED loop => LoopTypes'
BY DEF HostTypes, ViewTypes, LockTypes, CoreTypes, CallTypes, LoopTypes

\* Fields of one renderer are written, whatever the renderer.
LEMMA FieldsWritten ==
  ASSUME ViewTypes, NEW v, NEW new,
         v \in Renderers => new \in Fields,
         view' = [view EXCEPT ![v] = new]
  PROVE  ViewTypes'
BY DEF ViewTypes

LEMMA FieldTyped ==
  ASSUME NEW r \in Fields
  PROVE  /\ \A x \in {"unborn", "mounted", "dismantled", "gone"} :
              [r EXCEPT !.life = x] \in Fields
         /\ \A x \in BOOLEAN : /\ [r EXCEPT !.staged = x] \in Fields
                               /\ [r EXCEPT !.running = x] \in Fields
                               /\ [r EXCEPT !.pendingStarted = x] \in Fields
         /\ \A x \in Statuses : [r EXCEPT !.status = x] \in Fields
BY DEF Fields

LEMMA InitTyped == Init => TypeOK
<1> SUFFICES ASSUME Init PROVE TypeOK OBVIOUS
<1>1. ViewTypes
  BY DEF Init, Unmounted, ViewTypes, Fields, Statuses
<1>2. CallTypes
  BY DEF Init, Idle, CallTypes
<1>3. LoopTypes
  BY DEF Init, Free, LoopTypes, Places
<1>4. Cardinality(Threads) \in Nat
  BY RenderersAssumption, FS_CardinalityType
<1>5. HostTypes /\ LockTypes /\ CoreTypes
  BY <1>4, RenderersAssumption DEF Init, HostTypes, LockTypes, CoreTypes, NoCore, Games
<1> QED BY <1>1, <1>2, <1>3, <1>5, TypeParts

LEMMA MountTyped ==
  ASSUME TypeOK, NEW v \in Renderers, Mount(v) \/ Dismantle(v) PROVE TypeOK'
<1>0. ViewTypes /\ HostTypes
  BY TypeParts
<1>1. CASE Mount(v)
  <2>1. ViewTypes'
    BY <1>0, <1>1 DEF Mount, ViewTypes, Fields
  <2>2. HostTypes'
    BY <1>0, <1>1 DEF Mount, HostTypes
  <2> QED BY <1>1, <2>1, <2>2, TypeParts, TypesKept DEF Mount
<1>2. CASE Dismantle(v)
  <2>1. ViewTypes'
    BY <1>0, <1>2 DEF Dismantle, ViewTypes, Fields
  <2>2. HostTypes'
    BY <1>0, <1>2 DEF Dismantle, Unregister, HostTypes
  <2> QED BY <1>2, <2>1, <2>2, TypeParts, TypesKept DEF Dismantle
<1> QED BY <1>1, <1>2

LEMMA DeinitTyped ==
  ASSUME TypeOK, NEW v \in Renderers, Deinit(v) PROVE TypeOK'
<1>0. ViewTypes /\ HostTypes /\ CoreTypes
  BY TypeParts
<1>1. ViewTypes'
  BY <1>0 DEF Deinit, ViewTypes, Fields
<1>2. HostTypes'
  BY <1>0 DEF Deinit, Unregister, HostTypes
<1>3. CoreTypes'
  BY <1>0 DEF Deinit, Detached, CoreTypes
<1> QED BY <1>1, <1>2, <1>3, TypeParts, TypesKept DEF Deinit

\* What a call that begins makes of the history.
LEMMA BeginLatest ==
  ASSUME TypeOK, NEW c \in Callers, NEW todo, Begin(c, todo)
  PROVE  /\ UNCHANGED surfaces
         /\ latest' \in [mounted: Renderers \cup {None},
                        booted: Renderers \cup {None}, overlap: BOOLEAN]
         /\ latest'.mounted = latest.mounted /\ latest'.booted = latest.booted
         /\ latest.overlap => latest'.overlap
         /\ ~latest'.overlap => \A d \in Callers : call[d] = Idle
<1>1. HostTypes
  BY TypeParts
<1> DEFINE o == latest.overlap \/ \E d \in Callers : call[d] # Idle
<1>2. o \in BOOLEAN /\ latest' = [latest EXCEPT !.overlap = o] /\ UNCHANGED surfaces
  BY <1>1 DEF Begin, HostTypes
<1>3. ~o => \A d \in Callers : call[d] = Idle
  OBVIOUS
<1>4. latest.overlap => o
  OBVIOUS
<1> HIDE DEF o
<1> QED BY <1>1, <1>2, <1>3, <1>4 DEF HostTypes

LEMMA BeginTyped ==
  ASSUME TypeOK, NEW c \in Callers, NEW todo \in Seq(Tags), Begin(c, todo)
  PROVE  ViewTypes' /\ LockTypes' /\ CoreTypes' /\ CallTypes' /\ LoopTypes'
<1>1. CallTypes /\ HostTypes
  BY TypeParts
<1>2. CallTypes'
  BY <1>1 DEF Begin, CallTypes, HostTypes
<1> QED BY <1>2, TypeParts, TypesKept DEF Begin

LEMMA CommandLists ==
  {<<"boot">>, <<"stage">>, <<"mute", "pause", "flush", "sayPaused">>,
   <<"unmute", "resume", "sayRunning">>,
   <<"stopLoop", "detach", "reset", "forget", "sayStopped">>} \subseteq Seq(Tags)
BY ListsTyped, Zenon DEF Lists, Rests, ToBoot, ToStop

LEMMA LoadRomTyped ==
  ASSUME TypeOK, NEW c \in Callers, LoadRom(c) PROVE TypeOK'
<1>1. Begin(c, <<"boot">>)
  BY DEF LoadRom
<1>2. Cardinality(Threads) \in Nat
  BY RenderersAssumption, FS_CardinalityType
<1>3. HostTypes'
  BY <1>1, <1>2, BeginLatest, TypeParts DEF LoadRom, HostTypes
<1> QED BY <1>1, <1>3, CommandLists, BeginTyped, TypeParts

LEMMA CommandTyped ==
  ASSUME TypeOK, NEW c \in Callers, Command(c) PROVE TypeOK'
<1>1. PICK todo \in Seq(Tags) : Begin(c, todo)
  BY CommandLists, Zenon DEF Command
<1>2. HostTypes'
  <2>1. /\ made' = [made EXCEPT !.others = @ + 1] /\ made.others < MaxCalls
        /\ Begin(c, todo)
    BY <1>1 DEF Command
  <2>2. UNCHANGED surfaces /\ latest' \in [mounted: Renderers \cup {None},
                                          booted: Renderers \cup {None},
                                          overlap: BOOLEAN]
    BY <2>1, BeginLatest
  <2> QED BY <2>1, <2>2, TypeParts, RenderersAssumption DEF HostTypes
<1> QED BY <1>1, <1>2, BeginTyped, TypeParts

\* The accesses a caller makes, in one name.
Accesses(c) ==
  \/ Stage(c) \/ Boots(c) \/ Rejected(c) \/ FailsToBoot(c) \/ Flush(c) \/ Reset(c)
  \/ Write(c) \/ Share(c) \/ StartLoop(c) \/ Spawn(c)

LEMMA AccessLeft ==
  ASSUME TypeOK, NEW c \in Callers, Accesses(c)
  PROVE  call[c].todo # <<>> /\ \E more \in Seq(Tags) : Done(c, more)
<1>1. /\ <<>> \in Seq(Tags) /\ <<"claim", "attach", "spawn">> \in Seq(Tags)
      /\ Started \in Seq(Tags) /\ <<"stopLoop", "detach", "sayStopped">> \in Seq(Tags)
  BY ListsTyped, Zenon DEF Lists, Rests, ToSpawn, ToStart, ToFail
<1>2. CASE Stage(c) \/ Boots(c) \/ Rejected(c)
  BY <1>1, <1>2, Zenon DEF Stage, Boots, Rejected, Doing
<1>3. CASE FailsToBoot(c) \/ Flush(c) \/ Reset(c)
  BY <1>1, <1>3, Zenon DEF FailsToBoot, Flush, Reset, Doing
<1>4. CASE Write(c)
  BY <1>1, <1>4, Zenon DEF Write, Doing
<1>5. CASE Share(c)
  BY <1>1, <1>5, Zenon DEF Share, Doing
<1>6. CASE StartLoop(c)
  BY <1>1, <1>6 DEF StartLoop, Doing
<1>7. CASE Spawn(c)
  BY <1>1, <1>7, Zenon DEF Spawn, Doing
<1> QED BY <1>2, <1>3, <1>4, <1>5, <1>6, <1>7 DEF Accesses

LEMMA AccessCallTyped ==
  ASSUME TypeOK, NEW c \in Callers, Accesses(c) PROVE CallTypes'
<1>1. PICK more \in Seq(Tags) : Done(c, more)
  BY AccessLeft
<1>2. call[c].todo # <<>> /\ call[c].todo \in Seq(Tags)
  BY AccessLeft DEF TypeOK
<1>3. Tail(call[c].todo) \in Seq(Tags)
  BY <1>2
<1>4. more \o Tail(call[c].todo) \in Seq(Tags)
  BY <1>3
<1>5. Left(c, more \o Tail(call[c].todo))
  BY <1>1, <1>2, DoneLeft
<1> QED BY <1>4, <1>5, LeftTyped DEF CallTypes

\* What a write to a renderer's own fields does to the fields the proofs need.
LEMMA WriteEffect ==
  ASSUME TypeOK, NEW c \in Callers, Write(c)
  PROVE  LET v == call[c].on IN
         \E new \in Fields :
           /\ view' = [view EXCEPT ![v] = new]
           /\ new.life = view[v].life
           /\ new.running = (Head(call[c].todo) # "stopLoop" /\ view[v].running)
           /\ Head(call[c].todo) \in {"sayLoading", "arm", "stopLoop", "forget",
                                      "sayStopped", "sayPaused", "sayRunning"}
<1> DEFINE v == call[c].on
           r == view[v]
<1>1. v \in Renderers /\ r \in Fields
  BY TypeParts DEF Write, ViewTypes, CallTypes
<1>2. CASE Doing(c, "sayLoading") /\ view' = [view EXCEPT ![v] = [r EXCEPT !.status = "loading"]]
  BY <1>1, <1>2 DEF Fields, Doing, Statuses
<1>3. CASE Doing(c, "arm") /\ view' = [view EXCEPT ![v] = [r EXCEPT !.pendingStarted = TRUE]]
  BY <1>1, <1>3 DEF Fields, Doing
<1>4. CASE Doing(c, "stopLoop") /\ view' = [view EXCEPT ![v] = [r EXCEPT !.running = FALSE]]
  BY <1>1, <1>4 DEF Fields, Doing
<1>5. CASE Doing(c, "forget") /\ view' = [view EXCEPT ![v] = [r EXCEPT !.staged = FALSE,
                                                              !.pendingStarted = FALSE]]
  BY <1>1, <1>5 DEF Fields, Doing
<1>6. CASE Doing(c, "sayStopped") /\ view' = [view EXCEPT ![v] = [r EXCEPT !.status = "stopped"]]
  BY <1>1, <1>6 DEF Fields, Doing, Statuses
<1>7. CASE Doing(c, "sayPaused") /\ view' = [view EXCEPT ![v] = [r EXCEPT !.status = "paused"]]
  BY <1>1, <1>7 DEF Fields, Doing, Statuses
<1>8. CASE Doing(c, "sayRunning") /\ view' = [view EXCEPT ![v] = [r EXCEPT !.status = "running"]]
  BY <1>1, <1>8 DEF Fields, Doing, Statuses
<1> QED BY <1>2, <1>3, <1>4, <1>5, <1>6, <1>7, <1>8 DEF Write

LEMMA GiveTyped ==
  ASSUME TypeOK, NEW c \in Callers, Take(c) \/ Give(c) PROVE LockTypes'
<1>1. LockTypes
  BY TypeParts
<1> QED BY <1>1 DEF LockTypes, Take, Give

LEMMA EmptyCore == NoCore \in [game: Games, paused: BOOLEAN, drawn: BOOLEAN]
BY DEF NoCore, Games

LEMMA LockedTyped ==
  ASSUME TypeOK, NEW c \in Callers,
         Stage(c) \/ Boots(c) \/ Rejected(c) \/ FailsToBoot(c) \/ Flush(c) \/ Reset(c)
  PROVE  TypeOK'
<1>1. call[c].on \in Renderers /\ Give(c)
  BY TypeParts DEF Stage, Boots, Rejected, FailsToBoot, Flush, Reset, CallTypes
<1>2. CallTypes' /\ LockTypes' /\ LoopTypes' /\ HostTypes /\ ViewTypes /\ CoreTypes
  BY <1>1, GiveTyped, AccessCallTyped, TypeParts, TypesKept DEF Accesses, Give
<1>3. UNCHANGED <<surfaces, pump, made>>
  BY <1>1 DEF Give
<1>4. CASE Stage(c)
  <2>1. PICK ok \in BOOLEAN : view' = [view EXCEPT ![call[c].on].staged = @ \/ ok]
    BY <1>4 DEF Stage
  <2>2. view' = [view EXCEPT ![call[c].on] =
                   [view[call[c].on] EXCEPT !.staged = view[call[c].on].staged \/ ok]]
    BY <2>1
  <2>3. (view[call[c].on].staged \/ ok) \in BOOLEAN
    OBVIOUS
  <2>4. [view[call[c].on] EXCEPT !.staged = view[call[c].on].staged \/ ok] \in Fields
    BY <1>1, <1>2, <2>3, FieldTyped, Zenon DEF ViewTypes
  <2>5. ViewTypes'
    BY <1>2, <2>2, <2>4, FieldsWritten
  <2>6. UNCHANGED <<core, latest>>
    BY <1>4 DEF Stage
  <2> QED BY <1>2, <1>3, <2>5, <2>6, TypeParts, TypesKept
<1>5. CASE Boots(c)
  <2>1. UNCHANGED view /\ latest' = [latest EXCEPT !.booted = call[c].on]
    BY <1>5 DEF Boots
  <2>2. core' = [NoCore EXCEPT !.game = "booted", !.drawn = core.drawn]
    BY <1>5 DEF Boots
  <2>3. CoreTypes'
    BY <1>2, <1>3, <2>2 DEF CoreTypes, NoCore, Games
  <2>4. HostTypes'
    BY <1>1, <1>2, <1>3, <2>1 DEF HostTypes
  <2> QED BY <1>2, <2>1, <2>3, <2>4, TypeParts, TypesKept
<1>6. CASE Rejected(c) \/ Flush(c)
  <2>1. UNCHANGED <<core, view, latest>>
    BY <1>6 DEF Rejected, Flush
  <2> QED BY <1>2, <1>3, <2>1, TypeParts, TypesKept
<1>7. CASE FailsToBoot(c) \/ Reset(c)
  <2>1. core' = [NoCore EXCEPT !.drawn = core.drawn] \/ core' = NoCore
    BY <1>7 DEF FailsToBoot, Reset
  <2>2. CoreTypes'
    <3>1. ASSUME core' = [NoCore EXCEPT !.drawn = core.drawn] PROVE CoreTypes'
      BY <1>2, <1>3, <3>1, EmptyCore DEF CoreTypes
    <3>2. ASSUME core' = NoCore PROVE CoreTypes'
      BY <1>2, <1>3, <3>2, EmptyCore DEF CoreTypes
    <3> QED BY <2>1, <3>1, <3>2
  <2>3. UNCHANGED <<view, latest>>
    BY <1>7 DEF FailsToBoot, Reset
  <2> QED BY <1>2, <1>3, <2>2, <2>3, TypeParts, TypesKept
<1> QED BY <1>4, <1>5, <1>6, <1>7

LEMMA UnlockedTyped ==
  ASSUME TypeOK, NEW c \in Callers, Write(c) \/ Share(c) \/ StartLoop(c) \/ Spawn(c)
  PROVE  TypeOK'
<1>1. CallTypes' /\ ViewTypes /\ CoreTypes /\ CallTypes /\ LoopTypes
  BY AccessCallTyped, TypeParts DEF Accesses
<1>2. CASE Write(c)
  <2>1. ViewTypes'
    BY <1>1, <1>2, WriteEffect, FieldsWritten
  <2> QED BY <1>1, <1>2, <2>1, TypeParts, TypesKept DEF Write
<1>3. CASE Share(c)
  <2>1. CoreTypes'
    BY <1>1, <1>3 DEF Share, CoreTypes, Detached
  <2> QED BY <1>1, <1>3, <2>1, TypeParts, TypesKept DEF Share
<1>4. CASE StartLoop(c)
  <2>1. view' = [view EXCEPT ![call[c].on] = [view[call[c].on] EXCEPT !.running = TRUE]]
    BY <1>4 DEF StartLoop
  <2>2. call[c].on \in Renderers =>
          [view[call[c].on] EXCEPT !.running = TRUE] \in Fields
    BY <1>1, FieldTyped DEF ViewTypes
  <2>3. ViewTypes'
    BY <1>1, <2>1, <2>2, FieldsWritten
  <2> QED BY <1>1, <1>4, <2>3, TypeParts, TypesKept DEF StartLoop
<1>5. CASE Spawn(c)
  <2> DEFINE t == CHOOSE x \in Threads : loop[x] = Free
  <2>1. loop' = [loop EXCEPT ![t] = [of |-> call[c].on, at |-> "spawned"]]
    BY <1>5 DEF Spawn
  <2> HIDE DEF t
  <2>2. LoopTypes'
    BY <1>1, <2>1 DEF LoopTypes, CallTypes, Places
  <2> QED BY <1>1, <1>5, <2>2, TypeParts, TypesKept DEF Spawn
<1> QED BY <1>2, <1>3, <1>4, <1>5

LEMMA ProceedTyped == ASSUME TypeOK, NEW c \in Callers, Proceed(c) PROVE TypeOK'
<1>1. CASE Take(c)
  BY <1>1, GiveTyped, TypeParts, TypesKept DEF Take
<1> QED BY <1>1, LockedTyped, UnlockedTyped DEF Proceed

LEMMA LoopTyped ==
  ASSUME TypeOK, NEW t \in Threads, EmulationLoop(t) PROVE TypeOK'
<1>0. ViewTypes /\ LockTypes /\ CoreTypes /\ LoopTypes
  BY TypeParts
<1>1. LoopTypes'
  <2>1. ASSUME NEW at \in Places, Goes(t, at) PROVE LoopTypes'
    BY <1>0, <2>1 DEF Goes, LoopTypes
  <2>2. ASSUME Ends(t) PROVE LoopTypes'
    BY <1>0, <2>2 DEF Ends, Free, LoopTypes, Places
  <2>3. CASE Enter(t) \/ CheckRunning(t)
    BY <2>1, <2>2, <2>3 DEF Enter, CheckRunning, Places
  <2>4. CASE LockTicks(t) \/ RunTicks(t) \/ Report(t) \/ SayStarted(t)
    BY <2>1, <2>4 DEF LockTicks, RunTicks, Report, SayStarted, Places
  <2> QED BY <2>3, <2>4 DEF EmulationLoop
<1>2. CASE Enter(t) \/ CheckRunning(t) \/ Report(t)
  BY <1>1, <1>2, TypeParts, TypesKept DEF Enter, CheckRunning, Report
<1>3. CASE LockTicks(t)
  <2>1. LockTypes'
    BY <1>0, <1>3 DEF LockTicks, LockTypes
  <2> QED BY <1>1, <1>3, <2>1, TypeParts, TypesKept DEF LockTicks
<1>4. CASE RunTicks(t)
  <2>1. LockTypes'
    BY <1>0, <1>4 DEF RunTicks, LockTypes
  <2>2. UNCHANGED pump
        /\ (core' = [core EXCEPT !.game = "played", !.drawn = TRUE] \/ UNCHANGED core)
    BY <1>4 DEF RunTicks
  <2>3. CoreTypes'
    BY <1>0, <2>2 DEF CoreTypes, Games
  <2> QED BY <1>1, <1>4, <2>1, <2>3, TypeParts, TypesKept DEF RunTicks
<1>5. CASE SayStarted(t)
  <2>1. ViewTypes'
    BY <1>0, <1>5 DEF SayStarted, ViewTypes, Fields, Statuses
  <2> QED BY <1>1, <1>5, <2>1, TypeParts, TypesKept DEF SayStarted
<1> QED BY <1>2, <1>3, <1>4, <1>5 DEF EmulationLoop

LEMMA StutterTyped == ASSUME TypeOK, UNCHANGED vars PROVE TypeOK'
BY TypeParts, TypesKept DEF vars

LEMMA NextTyped == TypeOK /\ [Next]_vars => TypeOK'
<1> SUFFICES ASSUME TypeOK, [Next]_vars PROVE TypeOK' OBVIOUS
<1>1. CASE Next
  BY <1>1, MountTyped, DeinitTyped, LoadRomTyped, CommandTyped, ProceedTyped, LoopTyped
     DEF Next
<1> QED BY <1>1, StutterTyped

\* Every variable keeps its type, however many calls are made at once.
THEOREM RenderersTypeCorrect == Spec => []TypeOK
BY InitTyped, NextTyped, PTL DEF Spec

-----------------------------------------------------------------------------
(* The surface registry *)

\* Neither a bridge call nor a loop mounts, dismantles or registers a view.
LEMMA CallsKeepLives ==
  ASSUME TypeOK, NEW c \in Callers, LoadRom(c) \/ Command(c) \/ Proceed(c)
  PROVE  /\ UNCHANGED surfaces /\ latest'.mounted = latest.mounted
         /\ \A v \in Renderers : view'[v].life = view[v].life
<1>1. ViewTypes /\ HostTypes
  BY TypeParts
<1>2. CASE LoadRom(c) \/ Command(c)
  <2>1. (\E todo : Begin(c, todo)) /\ UNCHANGED view
    BY <1>2 DEF LoadRom, Command, Begin
  <2> QED BY <2>1, BeginLatest
<1>3. CASE Take(c) \/ Rejected(c) \/ FailsToBoot(c) \/ Flush(c) \/ Reset(c)
           \/ Share(c) \/ Spawn(c)
  BY <1>3 DEF Take, Rejected, FailsToBoot, Flush, Reset, Share, Spawn, Give
<1>4. CASE Stage(c)
  BY <1>1, <1>4 DEF Stage, Give, ViewTypes, Fields
<1>5. CASE Boots(c)
  BY <1>1, <1>5 DEF Boots, Give, HostTypes
<1>6. CASE Write(c)
  <2>1. PICK new \in Fields : /\ view' = [view EXCEPT ![call[c].on] = new]
                              /\ new.life = view[call[c].on].life
    BY <1>6, WriteEffect
  <2> QED BY <1>1, <1>6, <2>1 DEF Write, ViewTypes
<1>7. CASE StartLoop(c)
  BY <1>1, <1>7 DEF StartLoop, ViewTypes, Fields
<1> QED BY <1>2, <1>3, <1>4, <1>5, <1>6, <1>7 DEF Proceed

LEMMA LoopsKeepLives ==
  ASSUME TypeOK, NEW t \in Threads, EmulationLoop(t)
  PROVE  /\ UNCHANGED <<surfaces, latest>>
         /\ \A v \in Renderers : /\ view'[v].life = view[v].life
                                 /\ view'[v].running = view[v].running
<1>1. ViewTypes
  BY TypeParts
<1>2. CASE SayStarted(t)
  BY <1>1, <1>2 DEF SayStarted, ViewTypes, Fields
<1>3. CASE Enter(t) \/ CheckRunning(t) \/ LockTicks(t) \/ RunTicks(t) \/ Report(t)
  BY <1>3 DEF Enter, CheckRunning, LockTicks, RunTicks, Report
<1> QED BY <1>2, <1>3 DEF EmulationLoop

LEMMA LatestNext == TypeOK /\ LatestReachable /\ [Next]_vars => LatestReachable'
<1> SUFFICES ASSUME TypeOK, LatestReachable, [Next]_vars PROVE LatestReachable' OBVIOUS
<1>1. ViewTypes /\ HostTypes
  BY TypeParts
<1>2. ASSUME NEW v \in Renderers, Mount(v) PROVE LatestReachable'
  BY <1>1, <1>2 DEF Mount, LatestReachable, HostTypes
<1>3. ASSUME NEW v \in Renderers, Dismantle(v) \/ Deinit(v) PROVE LatestReachable'
  <2>1. /\ surfaces' = IF surfaces = v THEN None ELSE surfaces
        /\ UNCHANGED latest /\ view'[v].life # "mounted"
        /\ \A w \in Renderers \ {v} : view'[w].life = view[w].life
    BY <1>1, <1>3 DEF Dismantle, Deinit, Unregister, ViewTypes, Fields
  <2> QED BY <1>1, <2>1 DEF LatestReachable, HostTypes
<1>4. ASSUME UNCHANGED surfaces, latest'.mounted = latest.mounted,
             \A v \in Renderers : view'[v].life = view[v].life
      PROVE  LatestReachable'
  BY <1>1, <1>4 DEF LatestReachable, HostTypes
<1>5. CASE UNCHANGED vars
  BY <1>5 DEF vars, LatestReachable
<1> QED BY <1>2, <1>3, <1>4, <1>5, CallsKeepLives, LoopsKeepLives DEF Next

\* However mounts, dismantles and late deinits of one name interleave, bridge
\* calls reach the view mounted last.
THEOREM LatestIsReachable == Spec => []LatestReachable
<1>1. Init => LatestReachable
  BY DEF Init, LatestReachable
<1> QED BY <1>1, InitTyped, NextTyped, LatestNext, PTL DEF Spec

-----------------------------------------------------------------------------
(* One bridge call at a time: the game shown is ticked. *)

\* Which list an access belongs to, and which it leaves.
LEMMA AccessClass ==
  ASSUME NEW l \in Lists, l # <<>>
  PROVE  /\ Head(l) = "boot" => l \in ToBoot /\ Tail(l) = <<>>
         /\ Head(l) = "startLoop" => l \in ToStart /\ Tail(l) = <<>>
         /\ Head(l) = "spawn" => l \in ToSpawn /\ Tail(l) = <<>>
         /\ Head(l) = "reset" => l \in ToReset /\ Tail(l) \in Rests
         /\ Head(l) = "stopLoop" => \/ l \in ToFail /\ Tail(l) \in Rests
                                    \/ l \in ToStop /\ Tail(l) \in ToReset
         /\ Head(l) \notin {"boot", "startLoop", "spawn", "reset", "stopLoop"} =>
              \/ l \in Rests /\ Tail(l) \in Rests
              \/ l \in ToStart /\ Tail(l) \in ToStart
              \/ l \in ToSpawn /\ Tail(l) \in ToSpawn
              \/ l \in ToReset /\ Tail(l) \in ToReset
<1>1. CASE l \in Rests
  BY <1>1, RestsStep, Zenon
<1>2. CASE l \in ToStart
  BY <1>2, ToStartStep
<1>3. CASE l \in ToSpawn
  BY <1>3, ToSpawnStep
<1>4. CASE l \in ToReset
  BY <1>4, ToResetStep
<1>5. CASE l \in ToBoot \cup ToFail \cup ToStop
  BY <1>5, EndsStep
<1> QED BY <1>1, <1>2, <1>3, <1>4, <1>5 DEF Lists

\* A step that moves nothing but calls, fields of no weight and the core's flags.
Frame ==
  /\ UNCHANGED <<surfaces, latest, loop>> /\ core'.game = core.game
  /\ made'.loads = made.loads
  /\ \A v \in Renderers : /\ view'[v].life = view[v].life
                          /\ view'[v].running = view[v].running

\* A call that goes on without a change of what it is about to do.
Moves(l, rest) ==
  \/ l \in Rests \cup ToBoot /\ rest \in Rests
  \/ l \in ToStart /\ rest \in ToStart
  \/ l \in ToSpawn /\ rest \in ToSpawn
  \/ l \in ToReset /\ rest \in ToReset

LEMMA CallOf ==
  ASSUME CallInv, NEW c \in Callers, call[c].todo # <<>>
  PROVE  call[c].on \in Renderers /\ call[c].todo \in Lists
BY DEF CallInv, Idle

LEMMA QuietAccess ==
  ASSUME TypeOK, CallInv, NEW c \in Callers,
         \/ Stage(c) \/ Rejected(c) \/ Flush(c) \/ Share(c)
         \/ Write(c) /\ ~Doing(c, "stopLoop")
  PROVE  \E rest \in Lists : /\ Left(c, rest) /\ Moves(call[c].todo, rest)
                             /\ Frame
<1> DEFINE l == call[c].todo
<1>1. /\ l # <<>> /\ Done(c, <<>>)
      /\ Head(l) \notin {"startLoop", "spawn", "reset", "stopLoop"}
  <2>1. CASE Stage(c) \/ Rejected(c) \/ Flush(c)
    BY <2>1, Zenon DEF Stage, Rejected, Flush, Doing
  <2>2. CASE Share(c)
    BY <2>2 DEF Share, Doing
  <2>3. CASE Write(c) /\ ~Doing(c, "stopLoop")
    <3>1. l # <<>> /\ Done(c, <<>>)
      BY <2>3, Zenon DEF Write, Doing
    <3> QED BY <2>3, <3>1, WriteEffect DEF Doing
  <2> QED BY <2>1, <2>2, <2>3
<1>2. l \in Lists /\ call[c].on \in Renderers
  BY <1>1, CallOf
<1>3. Left(c, Tail(l))
  BY <1>1, DoneTail
<1>4. Moves(l, Tail(l)) /\ Tail(l) \in Lists
  <2>1. <<>> \in Rests
    BY Zenon DEF Rests
  <2> QED BY <1>1, <1>2, <2>1, AccessClass DEF Moves, Lists
<1>5. Frame
  <2>0. ViewTypes
    BY TypeParts
  <2>1. CASE Stage(c)
    BY <1>2, <2>0, <2>1 DEF Stage, Give, Frame, ViewTypes, Fields
  <2>2. CASE Rejected(c) \/ Flush(c)
    BY <2>2 DEF Rejected, Flush, Give, Frame
  <2>3. CASE Share(c)
    BY <2>3, TypeParts DEF Share, Frame, CoreTypes
  <2>4. CASE Write(c) /\ ~Doing(c, "stopLoop")
    <3>1. PICK new \in Fields : /\ view' = [view EXCEPT ![call[c].on] = new]
                                /\ new.life = view[call[c].on].life
                                /\ new.running = (Head(l) # "stopLoop"
                                                    /\ view[call[c].on].running)
      BY <2>4, WriteEffect
    <3>2. new.running = view[call[c].on].running
      <4>1. view[call[c].on].running \in BOOLEAN
        BY <1>2, <2>0 DEF ViewTypes, Fields
      <4> QED BY <1>1, <3>1, <4>1
    <3> QED BY <2>0, <2>4, <3>1, <3>2 DEF Write, Frame, ViewTypes
  <2> QED BY <2>1, <2>2, <2>3, <2>4
<1> QED BY <1>3, <1>4, <1>5

\* A call of no weight: it is over, or was never made.
LEMMA IdleCall ==
  /\ Idle.on = None /\ Idle.todo = <<>>
  /\ Idle.todo \notin Spawners \cup ToFail \cup ToReset \cup ToStart \cup ToSpawn
BY Apart DEF Idle, Spawners

\* While c's call is under way the others are idle, and stay so.
LEMMA LeftPlays ==
  ASSUME TypeOK, Serial, CallInv, NEW c \in Callers, NEW rest \in Lists,
         Left(c, rest), call[c].todo # <<>>
  PROVE  /\ CallInv' /\ Serial'
         /\ call[c].on \in Renderers
         /\ call'[c].todo = rest
         /\ rest # <<>> => call'[c].on = call[c].on
         /\ call'[c].on \in {call[c].on, None}
         /\ \A d \in Callers \ {c} :
              /\ call'[d] = call[d] /\ call[d].on = None
              /\ call[d].todo \notin
                   Spawners \cup ToFail \cup ToReset \cup ToStart \cup ToSpawn
<1>1. /\ rest = <<>> => call'[c] = Idle
      /\ rest # <<>> => call'[c].on = call[c].on
      /\ call'[c].todo = rest
      /\ call'[c].on \in {call[c].on, None}
      /\ \A d \in Callers \ {c} : call'[d] = call[d]
  BY LeftCall
<1>2. call[c] # Idle
  BY IdleCall
<1>3. \A d \in Callers \ {c} : call[d] = Idle
  BY <1>2 DEF Serial
<1>4. call[c].on \in Renderers
  BY CallOf
<1>5. CallInv'
  BY <1>1, <1>4 DEF CallInv
<1>6. Serial'
  BY <1>1, <1>3 DEF Serial
<1> QED BY <1>1, <1>3, <1>4, <1>5, <1>6, IdleCall

LEMMA BusyFinite == IsFiniteSet(Busy) /\ Cardinality(Busy) \in Nat
<1>1. IsFiniteSet(Busy)
  BY RenderersAssumption, FS_Subset DEF Busy
<1> QED BY <1>1, FS_CardinalityType

\* No thread starts and no call comes to spawn one: there is still room.
LEMMA SpawnKept ==
  ASSUME TypeOK, SpawnInv, TypeOK', Busy' \subseteq Busy, made'.loads = made.loads,
         (\E c \in Callers : call'[c].todo \in Spawners) =>
            \E c \in Callers : call[c].todo \in Spawners
  PROVE  SpawnInv'
<1>1. Cardinality(Busy') <= Cardinality(Busy) /\ Cardinality(Busy') \in Nat
  BY BusyFinite, FS_Subset, FS_CardinalityType
<1>2. Cardinality(Busy) \in Nat /\ made.loads \in Nat
  BY BusyFinite, TypeParts, FS_CardinalityType, RenderersAssumption DEF HostTypes
<1>3. DEFINE before == IF \E c \in Callers : call[c].todo \in Spawners THEN 1 ELSE 0
             after == IF \E c \in Callers : call'[c].todo \in Spawners THEN 1 ELSE 0
<1>4. after <= before /\ after \in Nat /\ before \in Nat
  OBVIOUS
<1>5. Cardinality(Busy) + before <= made.loads
  BY DEF SpawnInv
<1> HIDE DEF before, after
<1>6. Cardinality(Busy') + after <= made'.loads
  BY <1>1, <1>2, <1>4, <1>5
<1> QED BY <1>6 DEF SpawnInv, after

LEMMA QuietPlays ==
  ASSUME TypeOK, TypeOK', Plays, NEW c \in Callers, NEW rest \in Lists,
         Left(c, rest), Moves(call[c].todo, rest), Frame, call[c].todo # <<>>
  PROVE  Plays'
<1> DEFINE l == call[c].todo
<1>1. /\ CallInv' /\ Serial' /\ call[c].on \in Renderers /\ call'[c].todo = rest
      /\ rest # <<>> => call'[c].on = call[c].on
      /\ call'[c].on \in {call[c].on, None}
      /\ \A d \in Callers \ {c} :
           /\ call'[d] = call[d] /\ call[d].on = None
           /\ call[d].todo \notin
                Spawners \cup ToFail \cup ToReset \cup ToStart \cup ToSpawn
  BY LeftPlays DEF Plays
<1>2. HostTypes
  BY TypeParts
<1>3. /\ rest \in Rests => rest \notin Spawners \cup ToFail
      /\ rest \in ToStart \cup ToSpawn \cup ToReset => rest \notin ToFail /\ rest # <<>>
      /\ rest \in ToReset => rest \notin Spawners
  BY Apart, ToStartStep, ToSpawnStep, ToResetStep
<1>4. ViewInv'
  BY <1>1, <1>2 DEF ViewInv, Plays, Frame, HostTypes
<1>5. LoopInv'
  <2>1. l \in ToSpawn => rest \in ToSpawn /\ rest # <<>>
    <3>1. l \in ToSpawn => l \notin Rests \cup ToBoot \cup ToStart \cup ToReset
      BY ToSpawnStep, ToStartStep, ToResetStep, Apart, EndsStep DEF Spawners
    <3> QED BY <1>3, <3>1 DEF Moves
  <2> QED BY <1>1, <2>1 DEF LoopInv, Plays, Frame
<1>6. GameInv'
  <2>1. /\ l \in ToStart => rest \in ToStart /\ rest # <<>>
        /\ l \in ToReset => rest \in ToReset
    <3>1. /\ l \in ToStart => l \notin Rests \cup ToBoot \cup ToSpawn \cup ToReset
          /\ l \in ToReset => l \notin Rests \cup ToBoot \cup ToSpawn \cup ToStart
      BY ToSpawnStep, ToStartStep, ToResetStep, Apart, EndsStep DEF Spawners
    <3> QED BY <1>3, <3>1 DEF Moves
  <2>2. rest \notin ToFail
    BY <1>3 DEF Moves
  <2> QED BY <1>1, <2>1, <2>2 DEF GameInv, Plays, Frame
<1>7. SpawnInv'
  <2>1. rest \in Spawners => l \in Spawners
    BY <1>3 DEF Moves, Spawners
  <2>2. Busy' = Busy /\ made'.loads = made.loads
    BY DEF Frame, Busy
  <2> QED BY <1>1, <2>1, <2>2, SpawnKept DEF Plays
<1> QED BY <1>1, <1>4, <1>5, <1>6, <1>7 DEF Plays

\* The accesses that boot, stop or free the game.
LEMMA BootsPlays ==
  ASSUME TypeOK, TypeOK', Plays, NEW c \in Callers,
         Boots(c) \/ FailsToBoot(c) \/ Reset(c)
  PROVE  Plays'
<1> DEFINE l == call[c].todo
           stop == <<"stopLoop", "detach", "sayStopped">>
<1>1. l # <<>> /\ l \in Lists /\ call[c].on \in Renderers /\ CallInv
  <2>1. l # <<>>
    BY DEF Boots, FailsToBoot, Reset, Doing
  <2> QED BY <2>1, CallOf DEF Plays
<1>2. /\ UNCHANGED <<surfaces, view, loop, made>>
      /\ latest'.mounted = latest.mounted
  BY TypeParts DEF Boots, FailsToBoot, Reset, Give, HostTypes
<1>3. PICK rest \in Lists : /\ Left(c, rest)
                            /\ Boots(c) => rest \in ToStart /\ rest # <<>>
                            /\ FailsToBoot(c) => rest \in ToFail
                            /\ Reset(c) => rest \in Rests
                            /\ l \notin ToStart \cup ToSpawn
                            /\ Reset(c) \/ l \in Spawners
                            /\ rest \notin ToSpawn
  <2>1. CASE Boots(c)
    <3>1. Head(l) = "boot" /\ Done(c, Started)
      BY <2>1 DEF Boots, Doing
    <3>2. Started \in ToStart /\ Started \in Lists /\ Started \in Seq(Tags)
      BY ListsTyped, Zenon DEF ToStart, Lists
    <3>3. l \in ToBoot /\ Left(c, Started)
      BY <1>1, <3>1, <3>2, AccessClass, DoneLast
    <3>4. ~FailsToBoot(c) /\ ~Reset(c)
      <4>1. ~Reset(c)
        BY <3>1 DEF Reset, Doing
      <4>2. call'[c].todo = Started
        BY <1>1, <3>3, LeftCall
      <4>3. FailsToBoot(c) => call'[c].todo = stop
        <5>1. ASSUME FailsToBoot(c) PROVE Left(c, stop)
          <6>1. Done(c, stop) /\ stop \in Seq(Tags)
            BY <5>1, ListsTyped, Zenon DEF FailsToBoot, ToFail, Lists
          <6> QED BY <1>1, <3>1, <6>1, AccessClass, DoneLast
        <5> QED BY <5>1, LeftCall
      <4>4. Started # stop
        BY StartTails, StopTails
      <4> QED BY <4>1, <4>2, <4>3, <4>4
    <3>5. /\ Started # <<>> /\ Started \notin ToSpawn
          /\ l \notin ToStart \cup ToSpawn /\ l \in Spawners
      BY <3>2, <3>3, ToStartStep, ToSpawnStep, EndsStep DEF Spawners
    <3> QED BY <2>1, <3>2, <3>3, <3>4, <3>5
  <2>2. CASE FailsToBoot(c)
    <3>1. Head(l) = "boot" /\ Done(c, stop)
      BY <2>2 DEF FailsToBoot, Doing
    <3>2. stop \in ToFail /\ stop \in Lists /\ stop \in Seq(Tags)
      BY ListsTyped, Zenon DEF ToFail, Lists
    <3>3. l \in ToBoot /\ Left(c, stop)
      BY <1>1, <3>1, <3>2, AccessClass, DoneLast
    <3>4. ~Reset(c)
      BY <3>1 DEF Reset, Doing
    <3>5. ~Boots(c)
      <4>1. ASSUME Boots(c) PROVE Left(c, Started)
        <5>1. Done(c, Started) /\ Started \in Seq(Tags)
          BY <4>1, ListsTyped, Zenon DEF Boots, ToStart, Lists
        <5> QED BY <1>1, <3>1, <5>1, AccessClass, DoneLast
      <4>2. Started # stop
        BY StartTails, StopTails
      <4> QED BY <3>3, <4>1, <4>2, LeftCall
    <3>6. stop \notin ToSpawn /\ l \notin ToStart \cup ToSpawn /\ l \in Spawners
      BY <3>2, <3>3, ToStartStep, ToSpawnStep, EndsStep DEF Spawners
    <3> QED BY <2>2, <3>2, <3>3, <3>4, <3>5, <3>6
  <2>3. CASE Reset(c)
    <3>1. Head(l) = "reset" /\ Done(c, <<>>)
      BY <2>3 DEF Reset, Doing
    <3>2. l \in ToReset /\ Tail(l) \in Rests /\ Tail(l) \in Lists /\ Left(c, Tail(l))
      BY <1>1, <3>1, AccessClass, DoneTail DEF Lists
    <3>3. ~Boots(c) /\ ~FailsToBoot(c)
      BY <3>1 DEF Boots, FailsToBoot, Doing
    <3>4. l \notin ToStart \cup ToSpawn /\ Tail(l) \notin ToSpawn
      BY <3>2, Apart DEF Spawners
    <3> QED BY <2>3, <3>2, <3>3, <3>4
  <2> QED BY <2>1, <2>2, <2>3
<1>4. /\ CallInv' /\ Serial' /\ call'[c].todo = rest
      /\ rest # <<>> => call'[c].on = call[c].on
      /\ call'[c].on \in {call[c].on, None}
      /\ \A d \in Callers \ {c} :
           /\ call'[d] = call[d] /\ call[d].on = None
           /\ call[d].todo \notin
                Spawners \cup ToFail \cup ToReset \cup ToStart \cup ToSpawn
  BY <1>1, <1>3, LeftPlays DEF Plays
<1>5. ViewInv' /\ LoopInv'
  BY <1>1, <1>2, <1>3, <1>4 DEF ViewInv, LoopInv, Plays
<1>6. GameInv'
  <2>1. CASE Boots(c)
    <3>1. latest'.booted = call[c].on
      BY <2>1, TypeParts DEF Boots, HostTypes
    <3>2. rest \notin ToFail
      BY <1>3, <2>1, Apart
    <3>3. view'[call[c].on].life # "unborn"
      BY <1>1, <1>2, RenderersAssumption DEF Plays, ViewInv
    <3> QED BY <1>1, <1>3, <1>4, <2>1, <3>1, <3>2, <3>3 DEF GameInv
  <2>2. CASE FailsToBoot(c) \/ Reset(c)
    <3>1. core'.game = "none"
      BY <2>2 DEF FailsToBoot, Reset, NoCore
    <3> QED BY <3>1 DEF GameInv
  <2> QED BY <2>1, <2>2
<1>7. SpawnInv'
  <2>1. rest \in Spawners => l \in Spawners
    BY <1>3, Apart
  <2>2. Busy' = Busy /\ made'.loads = made.loads
    BY <1>2 DEF Busy
  <2> QED BY <1>4, <2>1, <2>2, SpawnKept DEF Plays
<1> QED BY <1>4, <1>5, <1>6, <1>7 DEF Plays

LEMMA StopLoopPlays ==
  ASSUME TypeOK, TypeOK', Plays, NEW c \in Callers,
         Write(c), Doing(c, "stopLoop")
  PROVE  Plays'
<1> DEFINE l == call[c].todo
           rest == Tail(l)
<1>1. l # <<>> /\ l \in Lists /\ call[c].on \in Renderers /\ CallInv
  BY CallOf DEF Doing, Plays
<1>2. /\ Left(c, rest) /\ rest \in Lists
      /\ \/ l \in ToFail /\ rest \in Rests
         \/ l \in ToStop /\ rest \in ToReset
  BY <1>1, AccessClass, DoneTail DEF Write, Doing, Lists
<1>3. /\ UNCHANGED <<surfaces, core, loop, latest, made>>
      /\ \A v \in Renderers : /\ view'[v].life = view[v].life
                              /\ v # call[c].on => view'[v] = view[v]
      /\ ~view'[call[c].on].running
  <2>1. PICK new \in Fields : /\ view' = [view EXCEPT ![call[c].on] = new]
                              /\ new.life = view[call[c].on].life
                              /\ ~new.running
    <3>1. Head(l) = "stopLoop"
      BY DEF Doing
    <3> QED BY <3>1, WriteEffect
  <2>2. ViewTypes
    BY TypeParts
  <2> QED BY <1>1, <2>1, <2>2 DEF Write, ViewTypes
<1>4. /\ l \notin ToSpawn \cup ToStart \cup ToReset
      /\ rest \notin Spawners \cup ToFail
  BY <1>2, Apart, ToSpawnStep, ToStartStep, ToResetStep, EndsStep
<1> HIDE DEF rest
<1>5. /\ CallInv' /\ Serial' /\ call'[c].todo = rest
      /\ call'[c].on \in {call[c].on, None}
      /\ \A d \in Callers \ {c} :
           /\ call'[d] = call[d] /\ call[d].on = None
           /\ call[d].todo \notin
                Spawners \cup ToFail \cup ToReset \cup ToStart \cup ToSpawn
  BY <1>1, <1>2, LeftPlays DEF Plays
<1>6. ViewInv' /\ LoopInv'
  <2>1. ViewInv'
    BY <1>1, <1>3, <1>5, TypeParts DEF ViewInv, Plays, HostTypes
  <2>2. LoopInv'
    BY <1>1, <1>3, <1>4, <1>5 DEF LoopInv, Plays
  <2> QED BY <2>1, <2>2
<1>7. GameInv'
  BY <1>1, <1>2, <1>3, <1>4, <1>5 DEF GameInv, Plays
<1>8. SpawnInv'
  <2>1. Busy' = Busy
    BY <1>3 DEF Busy
  <2> QED BY <1>3, <1>4, <1>5, <2>1, SpawnKept DEF Plays
<1> QED BY <1>5, <1>6, <1>7, <1>8 DEF Plays

LEMMA StartLoopPlays ==
  ASSUME TypeOK, TypeOK', Plays, NEW c \in Callers, StartLoop(c)
  PROVE  Plays'
<1> DEFINE l == call[c].todo
           spawn == <<"claim", "attach", "spawn">>
<1>1. /\ l # <<>> /\ l \in Lists /\ call[c].on \in Renderers /\ CallInv
      /\ l \in ToStart /\ Tail(l) = <<>>
  BY CallOf, AccessClass DEF StartLoop, Doing, Plays
<1>2. PICK rest \in Lists :
        /\ Left(c, rest)
        /\ IF view[call[c].on].running THEN rest = <<>> ELSE rest \in ToSpawn
  <2>1. /\ <<>> \in Seq(Tags) /\ spawn \in Seq(Tags) /\ <<>> \in Lists
        /\ spawn \in Lists /\ spawn \in ToSpawn
    BY ListsTyped, Zenon DEF Lists, Rests, ToSpawn
  <2>2. CASE view[call[c].on].running
    <3>1. Done(c, <<>>)
      BY <2>2 DEF StartLoop
    <3> QED BY <1>1, <2>1, <2>2, <3>1, DoneLast
  <2>3. CASE ~view[call[c].on].running
    <3>1. Done(c, spawn)
      BY <2>3 DEF StartLoop
    <3> QED BY <1>1, <2>1, <2>3, <3>1, DoneLast
  <2> QED BY <2>2, <2>3
<1>3. /\ UNCHANGED <<surfaces, core, loop, latest, made>>
      /\ \A v \in Renderers : /\ view'[v].life = view[v].life
                              /\ v # call[c].on => view'[v] = view[v]
      /\ view'[call[c].on].running
  BY <1>1, TypeParts DEF StartLoop, ViewTypes, Fields
<1>4. /\ rest \notin ToFail
      /\ rest \in ToSpawn => rest # <<>>
      /\ l \notin ToSpawn \cup ToReset
  BY <1>1, <1>2, Apart, ToStartStep, ToSpawnStep DEF Spawners
<1>5. /\ CallInv' /\ Serial' /\ call'[c].todo = rest
      /\ rest # <<>> => call'[c].on = call[c].on
      /\ call'[c].on \in {call[c].on, None}
      /\ \A d \in Callers \ {c} :
           /\ call'[d] = call[d] /\ call[d].on = None
           /\ call[d].todo \notin
                Spawners \cup ToFail \cup ToReset \cup ToStart \cup ToSpawn
  BY <1>1, <1>2, LeftPlays DEF Plays
<1>6. ViewInv'
  BY <1>1, <1>3, <1>5, RenderersAssumption, TypeParts DEF ViewInv, Plays, HostTypes
<1>7. LoopInv'
  BY <1>1, <1>2, <1>3, <1>4, <1>5 DEF LoopInv, Plays
<1>8. GameInv'
  BY <1>1, <1>2, <1>3, <1>4, <1>5 DEF GameInv, Plays
<1>9. SpawnInv'
  <2>1. Busy' = Busy /\ l \in Spawners
    BY <1>1, <1>3 DEF Busy, Spawners
  <2> QED BY <1>3, <2>1, SpawnKept DEF Plays
<1> QED BY <1>5, <1>6, <1>7, <1>8, <1>9 DEF Plays

LEMMA SpawnPlays ==
  ASSUME TypeOK, TypeOK', Plays, NEW c \in Callers, Spawn(c)
  PROVE  Plays'
<1> DEFINE l == call[c].todo
<1>1. /\ l # <<>> /\ l \in Lists /\ call[c].on \in Renderers /\ CallInv
      /\ l \in ToSpawn /\ Tail(l) = <<>>
  BY CallOf, AccessClass DEF Spawn, Doing, Plays
<1>2. Left(c, <<>>) /\ <<>> \in Lists
  <2>1. <<>> \in Lists
    BY Zenon DEF Lists, Rests
  <2> QED BY <1>1, <2>1, DoneTail DEF Spawn
<1>3. UNCHANGED <<surfaces, view, core, latest, made>>
  BY DEF Spawn
<1>4. <<>> \notin Spawners \cup ToFail \cup ToReset /\ l \notin ToStart \cup ToReset
  BY <1>1, Apart, ToStartStep, ToSpawnStep, ToResetStep
<1>5. /\ CallInv' /\ Serial' /\ call'[c] = Idle
      /\ \A d \in Callers \ {c} :
           /\ call'[d] = call[d] /\ call[d].on = None
           /\ call[d].todo \notin
                Spawners \cup ToFail \cup ToReset \cup ToStart \cup ToSpawn
  BY <1>1, <1>2, LeftPlays, LeftCall, IdleCall DEF Plays
<1>6. Cardinality(Busy) + 1 <= made.loads /\ made.loads <= Cardinality(Threads)
      /\ Cardinality(Threads) \in Nat
      /\ made.loads \in Nat
  <2>1. \E d \in Callers : call[d].todo \in Spawners
    BY <1>1 DEF Spawners
  <2>2. Cardinality(Busy) + 1 <= made.loads
    BY <2>1 DEF SpawnInv, Plays
  <2>3. Cardinality(Threads) \in Nat
    BY RenderersAssumption, FS_CardinalityType
  <2> QED BY <2>2, <2>3, TypeParts DEF HostTypes
<1> DEFINE t == CHOOSE x \in Threads : loop[x] = Free
<1>7. t \in Threads /\ loop[t] = Free
  <2>1. Busy # Threads
    BY <1>6, BusyFinite
  <2>2. \E x \in Threads : loop[x] = Free
    BY <2>1 DEF Busy
  <2> QED BY <2>2
<1>8. loop' = [loop EXCEPT ![t] = [of |-> call[c].on, at |-> "spawned"]]
  BY DEF Spawn
<1> HIDE DEF t
<1>9. /\ loop'[t].of = call[c].on /\ loop'[t] # Free
      /\ \A s \in Threads \ {t} : loop'[s] = loop[s]
  BY <1>1, <1>7, <1>8, TypeParts, RenderersAssumption DEF LoopTypes, Free
<1>10. ViewInv'
  BY <1>3, <1>5, RenderersAssumption DEF ViewInv, Plays, Idle
<1>11. LoopInv'
  <2>1. loop[t].of = None
    BY <1>7 DEF Free
  <2> QED BY <1>3, <1>5, <1>7, <1>9, <2>1, RenderersAssumption DEF LoopInv, Plays
<1>12. GameInv'
  BY <1>1, <1>3, <1>4, <1>5 DEF GameInv, Plays, Idle
<1>13. SpawnInv'
  <2>1. Busy' = Busy \cup {t} /\ t \notin Busy
    BY <1>7, <1>9 DEF Busy
  <2>2. Cardinality(Busy') = Cardinality(Busy) + 1
    BY <2>1, BusyFinite, FS_AddElement
  <2>3. ~ \E d \in Callers : call'[d].todo \in Spawners
    BY <1>4, <1>5 DEF Idle
  <2>4. Cardinality(Busy') <= made'.loads /\ Cardinality(Busy') \in Nat
    BY <1>3, <1>6, <2>2, BusyFinite
  <2> QED BY <2>3, <2>4 DEF SpawnInv
<1> QED BY <1>5, <1>10, <1>11, <1>12, <1>13 DEF Plays

LEMMA BeginPlays ==
  ASSUME TypeOK, TypeOK', Plays, NEW c \in Callers, LoadRom(c) \/ Command(c),
         ~latest'.overlap
  PROVE  Plays'
<1>1. PICK l \in Lists : /\ Begin(c, l) /\ l # <<>>
                         /\ l \notin ToStart \cup ToSpawn \cup ToFail \cup ToReset
                         /\ l \in Spawners => made'.loads = made.loads + 1
                         /\ l \notin Spawners => made'.loads = made.loads
  <2>1. CASE LoadRom(c)
    <3>1. <<"boot">> \in ToBoot /\ <<"boot">> \in Lists /\ <<"boot">> \in Spawners
      BY Zenon DEF ToBoot, Lists, Spawners
    <3>2. /\ <<"boot">> # <<>>
          /\ <<"boot">> \notin ToStart \cup ToSpawn \cup ToFail \cup ToReset
      BY StopTails, ToStartStep, ToSpawnStep, ToResetStep, EndsStep
    <3>3. Begin(c, <<"boot">>) /\ made'.loads = made.loads + 1
      BY <2>1, TypeParts DEF LoadRom, HostTypes
    <3> QED BY <3>1, <3>2, <3>3
  <2>2. CASE Command(c)
    <3>1. made'.loads = made.loads
      BY <2>2, TypeParts DEF Command, HostTypes
    <3>2. PICK l : /\ Begin(c, l)
                   /\ \/ l \in Rests /\ l \in {<<"stage">>,
                             <<"mute", "pause", "flush", "sayPaused">>,
                             <<"unmute", "resume", "sayRunning">>}
                      \/ l \in ToStop
      BY <2>2, Zenon DEF Command, Rests, ToStop
    <3>3. l \in Lists /\ l # <<>>
      BY <3>2, EndsStep DEF Lists
    <3>4. l \notin Spawners \cup ToFail \cup ToReset
      <4>1. l \in Rests => l \notin Spawners \cup ToFail \cup ToReset
        BY Apart
      <4>2. l \in ToStop => l \notin Spawners \cup ToReset
        BY EndsStep, ToStartStep, ToSpawnStep, ToResetStep DEF Spawners
      <4>3. l \in ToStop => l \notin ToFail
        BY EndsStep, Apart
      <4> QED BY <3>2, <4>1, <4>2, <4>3
    <3> QED BY <3>1, <3>2, <3>3, <3>4 DEF Spawners
  <2> QED BY <2>1, <2>2
<1>2. /\ call[c] = Idle /\ surfaces \in Renderers
      /\ call'[c] = [on |-> surfaces, todo |-> l]
      /\ UNCHANGED <<surfaces, view, core, loop>>
      /\ latest'.mounted = latest.mounted /\ latest'.booted = latest.booted
      /\ \A d \in Callers : call[d] = Idle
      /\ \A d \in Callers \ {c} : call'[d] = call[d]
  BY <1>1, TypeParts DEF Begin, HostTypes, CallTypes
<1>3. CallInv' /\ Serial'
  BY <1>1, <1>2 DEF CallInv, Serial
<1>4. ViewInv'
  BY <1>1, <1>2 DEF ViewInv, Plays
<1>5. /\ <<>> \notin Spawners \cup ToFail \cup ToReset
      /\ call[c].todo = <<>> /\ call'[c].todo = l
  BY <1>2, Apart DEF Idle
<1>6. LoopInv'
  BY <1>2, <1>5 DEF LoopInv, Plays, Spawners
<1>7. GameInv'
  BY <1>1, <1>2, <1>5 DEF GameInv, Plays, Spawners
<1>8. SpawnInv'
  <2>1. Busy' = Busy
    BY <1>2 DEF Busy
  <2>2. made.loads \in Nat /\ Cardinality(Busy) \in Nat
    BY BusyFinite, TypeParts, FS_CardinalityType, RenderersAssumption DEF HostTypes
  <2>3. Cardinality(Busy) <= made.loads
    BY <1>2, <1>5, <2>2 DEF SpawnInv, Plays
  <2>4. CASE l \in Spawners
    BY <1>1, <2>1, <2>2, <2>3, <2>4 DEF SpawnInv
  <2>5. CASE l \notin Spawners
    <3>1. ~ \E d \in Callers : call'[d].todo \in Spawners
      BY <1>2, <1>5, <2>5
    <3> QED BY <1>1, <2>1, <2>2, <2>3, <2>5, <3>1 DEF SpawnInv
  <2> QED BY <2>4, <2>5
<1> QED BY <1>3, <1>4, <1>6, <1>7, <1>8 DEF Plays

\* What the lock, the pump and the bounds do is of no weight here.
LEMMA FramePlays ==
  ASSUME TypeOK, TypeOK', Plays, Frame, UNCHANGED call PROVE Plays'
<1>1. CallInv' /\ Serial' /\ ViewInv' /\ LoopInv' /\ GameInv'
  <2>1. CallInv' /\ Serial'
    BY DEF Plays, CallInv, Serial
  <2>2. ViewInv'
    BY TypeParts DEF Plays, ViewInv, Frame, HostTypes, CallTypes
  <2>3. LoopInv'
    BY DEF Plays, LoopInv, Frame
  <2>4. GameInv'
    BY DEF Plays, GameInv, Frame
  <2> QED BY <2>1, <2>2, <2>3, <2>4
<1>2. SpawnInv'
  BY SpawnKept DEF Plays, Frame, Busy
<1> QED BY <1>1, <1>2 DEF Plays

LEMMA ProceedPlays ==
  ASSUME TypeOK, TypeOK', Plays, NEW c \in Callers, Proceed(c)
  PROVE  Plays'
<1>1. CASE Take(c)
  BY <1>1, FramePlays DEF Take, Frame
<1>2. CASE \/ Stage(c) \/ Rejected(c) \/ Flush(c) \/ Share(c)
           \/ Write(c) /\ ~Doing(c, "stopLoop")
  <2>1. PICK rest \in Lists : /\ Left(c, rest) /\ Moves(call[c].todo, rest)
                              /\ Frame
    BY <1>2, QuietAccess DEF Plays
  <2>2. call[c].todo # <<>>
    BY <1>2, AccessLeft DEF Accesses
  <2> QED BY <2>1, <2>2, QuietPlays
<1> QED BY <1>1, <1>2, BootsPlays, StopLoopPlays, StartLoopPlays, SpawnPlays
        DEF Proceed

LEMMA LoopPlays ==
  ASSUME TypeOK, TypeOK', Plays, NEW t \in Threads, EmulationLoop(t)
  PROVE  Plays'
<1>1. /\ UNCHANGED <<surfaces, latest, call, made>>
      /\ \A v \in Renderers : /\ view'[v].life = view[v].life
                              /\ view'[v].running = view[v].running
  <2>1. UNCHANGED <<call, made>>
    BY DEF EmulationLoop, Enter, CheckRunning, LockTicks, RunTicks, Report, SayStarted
  <2> QED BY <2>1, LoopsKeepLives
<1>2. (core'.game = "none") = (core.game = "none")
  <2>1. CASE RunTicks(t)
    BY <2>1, TypeParts DEF RunTicks, CoreTypes
  <2>2. CASE Enter(t) \/ CheckRunning(t) \/ LockTicks(t) \/ Report(t) \/ SayStarted(t)
    BY <2>2 DEF Enter, CheckRunning, LockTicks, Report, SayStarted
  <2> QED BY <2>1, <2>2 DEF EmulationLoop
<1>3. \/ \E at \in Places : Goes(t, at)
      \/ Ends(t) /\ (loop[t].of \in Renderers => ~view[loop[t].of].running)
  <2>1. CASE Enter(t)
    BY <2>1 DEF Enter, Mine, Places, Plays, ViewInv
  <2>2. CASE CheckRunning(t)
    BY <2>2 DEF CheckRunning, Mine, Places
  <2>3. CASE LockTicks(t) \/ RunTicks(t) \/ Report(t) \/ SayStarted(t)
    BY <2>3 DEF LockTicks, RunTicks, Report, SayStarted, Places
  <2> QED BY <2>1, <2>2, <2>3 DEF EmulationLoop
<1>4. /\ \A s \in Threads \ {t} : loop'[s] = loop[s]
      /\ loop'[t].of = loop[t].of
           \/ (loop[t].of \in Renderers => ~view[loop[t].of].running)
  BY <1>3, TypeParts DEF Goes, Ends, LoopTypes
<1>5. CallInv' /\ Serial' /\ ViewInv' /\ LoopInv' /\ GameInv'
  <2>1. CallInv' /\ Serial'
    BY <1>1 DEF Plays, CallInv, Serial
  <2>2. ViewInv'
    BY <1>1, TypeParts DEF Plays, ViewInv, HostTypes, CallTypes
  <2>3. LoopInv'
    BY <1>1, <1>4 DEF Plays, LoopInv
  <2>4. GameInv'
    BY <1>1, <1>2 DEF Plays, GameInv
  <2> QED BY <2>1, <2>2, <2>3, <2>4
<1>6. SpawnInv'
  <2>1. loop[t] # Free
    BY DEF EmulationLoop, Enter, CheckRunning, LockTicks, RunTicks, Report,
           SayStarted, Stands, Free
  <2>2. Busy' \subseteq Busy
    BY <1>4, <2>1 DEF Busy
  <2> QED BY <1>1, <2>2, SpawnKept DEF Plays
<1> QED BY <1>5, <1>6 DEF Plays

LEMMA MountPlays ==
  ASSUME TypeOK, TypeOK', Plays, NEW v \in Renderers,
         Mount(v) \/ Dismantle(v) \/ Deinit(v)
  PROVE  Plays'
<1>1. UNCHANGED <<core, call, loop, made>>
  BY DEF Mount, Dismantle, Deinit
<1>2. ViewTypes /\ HostTypes /\ CallTypes
  BY TypeParts
<1>3. /\ \A w \in Renderers \ {v} : view'[w] = view[w]
      /\ latest'.booted = latest.booted
  BY <1>2 DEF Mount, Dismantle, Deinit, ViewTypes, HostTypes
<1>4. \/ /\ view[v].life = "unborn" /\ view'[v].life = "mounted"
         /\ view'[v].running = view[v].running /\ surfaces' = v
      \/ /\ view[v].life = "mounted" /\ view'[v].life = "dismantled"
         /\ view'[v].running = view[v].running
         /\ surfaces' = IF surfaces = v THEN None ELSE surfaces
      \/ /\ view[v].life = "dismantled" /\ view'[v].life = "gone"
         /\ ~view'[v].running /\ surfaces' = IF surfaces = v THEN None ELSE surfaces
         /\ \A c \in Callers : call[c].on # v
  BY <1>2 DEF Mount, Dismantle, Deinit, Unregister, ViewTypes, Fields
<1>5. ViewInv'
  BY <1>1, <1>2, <1>3, <1>4 DEF Plays, ViewInv, HostTypes, CallTypes
<1>6. LoopInv'
  BY <1>1, <1>3, <1>4 DEF Plays, LoopInv
<1>7. GameInv'
  BY <1>1, <1>3, <1>4 DEF Plays, GameInv
<1>8. CallInv' /\ Serial'
  BY <1>1 DEF Plays, CallInv, Serial
<1>9. SpawnInv'
  BY <1>1, SpawnKept DEF Plays, Busy
<1> QED BY <1>5, <1>6, <1>7, <1>8, <1>9 DEF Plays

LEMMA InitPlays == Init => Plays
<1> SUFFICES ASSUME Init PROVE Plays OBVIOUS
<1>1. CallInv /\ Serial /\ ViewInv /\ LoopInv /\ GameInv
  BY DEF Init, Serial, CallInv, ViewInv, LoopInv, GameInv, Idle, Unmounted, NoCore
<1>2. SpawnInv
  <2>1. Busy = {}
    BY DEF Init, Busy, Free
  <2>2. ~ \E c \in Callers : call[c].todo \in Spawners
    BY Apart DEF Init, Idle
  <2>3. Cardinality(Busy) = 0 /\ made.loads = 0
    BY <2>1, FS_EmptySet DEF Init
  <2> QED BY <2>2, <2>3 DEF SpawnInv
<1> QED BY <1>1, <1>2 DEF Plays

\* That two calls overlapped is never forgotten.
LEMMA OverlapKept == TypeOK /\ [Next]_vars /\ latest.overlap => latest'.overlap
<1> SUFFICES ASSUME TypeOK, [Next]_vars, latest.overlap PROVE latest'.overlap
  OBVIOUS
<1>1. HostTypes
  BY TypeParts
<1>2. ASSUME NEW c \in Callers, LoadRom(c) \/ Command(c) \/ Proceed(c)
      PROVE  latest'.overlap
  BY <1>1, <1>2 DEF HostTypes, LoadRom, Command, Begin, Proceed, Take, Give, Stage,
     Boots, Rejected, FailsToBoot, Flush, Reset, Write, Share, StartLoop, Spawn
<1>3. ASSUME NEW v \in Renderers, Mount(v) \/ Dismantle(v) \/ Deinit(v)
      PROVE  latest'.overlap
  BY <1>1, <1>3 DEF HostTypes, Mount, Dismantle, Deinit
<1> QED BY <1>2, <1>3, LoopsKeepLives DEF Next, vars

LEMMA NextIosInv == IosInv /\ [Next]_vars => IosInv'
<1> SUFFICES ASSUME TypeOK, TypeOK', Plays, ~latest'.overlap, [Next]_vars
             PROVE  Plays'
  BY NextTyped, OverlapKept DEF IosInv
<1>1. CASE UNCHANGED vars
  BY <1>1, FramePlays DEF vars, Frame
<1> QED BY <1>1, MountPlays, BeginPlays, ProceedPlays, LoopPlays DEF Next

\* Between bridge calls, the view that booted the loaded game has a loop that
\* ticks it, whatever duplicates of the view were stopped or torn down and
\* whichever threads made the calls: startLoop and the loop's own exit never
\* leave it without one before two calls are under way at once.
THEOREM ShownGameIsTicked == Spec => []GameIsTicked
<1>1. Init => IosInv
  BY InitTyped, InitPlays DEF IosInv
<1>2. IosInv /\ [Next]_vars => IosInv'
  BY NextIosInv
<1>3. IosInv => GameIsTicked
  <2> SUFFICES ASSUME IosInv, GameShown, NoCalls, ~latest.overlap
               PROVE  /\ view[latest.booted].running
                      /\ \E t \in Threads : loop[t].of = latest.booted
    BY DEF GameIsTicked
  <2>1. \A c \in Callers : call[c].todo \notin Spawners \cup ToFail \cup ToReset
    BY Apart DEF NoCalls, Idle
  <2> QED BY <2>1 DEF IosInv, Plays, GameInv, LoopInv, GameShown, Spawners
<1> QED BY <1>1, <1>2, <1>3, PTL DEF Spec

-----------------------------------------------------------------------------
(* The press latch under the lock, which iOS holds around every call:      *)
(* PressLatch.                                                             *)

\* One operation at a time, and what a caller's next step may rely on.
Alone ==
  /\ poll # Resting => \A b \in Buttons : calls[b] = "idle"
  /\ \A a, b \in Buttons : calls[a] # "idle" /\ calls[b] # "idle" => a = b
  /\ \A b \in Buttons :
       /\ calls[b] \in {"latchPress", "cancelRelease"} => b \in swMask
       /\ calls[b] \in {"cancelRelease", "defer"} => b \in unsampledPress
       /\ calls[b] = "release" => b \notin unsampledPress

\* How the masks relate between the steps of the emulation thread.
Latched ==
  poll \notin Drops =>
    \A b \in Buttons :
      /\ b \in unsampledPress => b \in swMask
      /\ b \in deferredRelease =>
           b \in unsampledPress \/ calls[b] = "latchPress" \/ poll = <<"drop", b>>
      /\ b \in unseen => b \in unsampledPress \/ calls[b] = "latchPress"
      /\ poll \in {"latch", "consume"} \X {b} => b \notin unseen
      /\ poll \in {"drop", "clear"} \X {b} => b \notin unsampledPress
      /\ poll = <<"clear", b>> => b \notin deferredRelease

\* A teardown has emptied what it has passed.
Emptied ==
  /\ poll \in Drops => swMask = {}
  /\ poll = <<"dropDeferred">> => unsampledPress = {}

\* The inductive invariant.
LatchInv == LatchTypeOK /\ Alone /\ Latched /\ Emptied

USE DEF Resting, Drops, PollSteps, CallSteps

LEMMA InitLatch == LatchInit => LatchInv
BY DEF LatchInit, LatchInv, LatchTypeOK, Alone, Latched, Emptied

LEMMA StartQuiet == ASSUME Locked, MayStart PROVE Quiet
BY DEF MayStart

----------------------------------------------------------------------------
(* Each step preserves the invariant. *)

LEMMA SetInputLatch ==
  ASSUME LatchInv, NEW mask \in SUBSET Buttons, SetInput(mask) PROVE LatchInv'
BY DEF LatchInv, LatchTypeOK, Alone, Latched, Emptied, SetInput, masks

LEMMA CallLatch ==
  ASSUME Locked, LatchInv, NEW b \in Buttons, Press(b) \/ Release(b) \/ Caller(b)
  PROVE  LatchInv'
<1> USE DEF LatchInv, LatchTypeOK, Alone, Latched, Emptied, Goto, masks
<1>1. CASE Press(b)
  <2>1. Quiet BY <1>1, StartQuiet DEF Press
  <2> QED BY <1>1, <2>1 DEF Press, Quiet
<1>2. CASE Release(b)
  <2>1. Quiet BY <1>2, StartQuiet DEF Release
  <2> QED BY <1>2, <2>1 DEF Release, Quiet
<1>3. CASE LatchPress(b)
  BY <1>3 DEF LatchPress
<1>4. CASE CancelRelease(b)
  BY <1>4 DEF CancelRelease
<1>5. CASE DeferRelease(b)
  BY <1>5 DEF DeferRelease
<1>6. CASE ReleaseNow(b)
  BY <1>6 DEF ReleaseNow
<1> QED BY <1>1, <1>2, <1>3, <1>4, <1>5, <1>6 DEF Caller

LEMMA SampleLatch ==
  ASSUME Locked, LatchInv, NEW h \in Handles, Sample(h) PROVE LatchInv'
<1>1. Quiet /\ Bit[h] \in Buttons
  BY StartQuiet, LatchAssumption DEF Sample
<1>2. shown' \in {<<>>} \cup (Buttons \X BOOLEAN)
  <2>1. (Bit[h] \in hwMask \cup swMask) \in BOOLEAN
    OBVIOUS
  <2> DEFINE v == Bit[h] \in hwMask \cup swMask
  <2>2. shown' = <<Bit[h], v>>
    BY DEF Sample
  <2> HIDE DEF v
  <2> QED BY <1>1, <2>1, <2>2 DEF v
<1>3. /\ poll' = <<"latch", Bit[h]>> /\ poll = Resting
      /\ UNCHANGED <<hwMask, masks, calls>>
      /\ Bit[h] \notin unseen' /\ unseen' \subseteq unseen
  BY <1>1 DEF Sample, LatchInv, Latched, Quiet
<1> HIDE DEF Sample
<1>4. LatchTypeOK'
  BY <1>1, <1>2, <1>3 DEF LatchInv, LatchTypeOK, masks
<1>5. Alone' /\ Latched' /\ Emptied'
  BY <1>1, <1>3 DEF LatchInv, LatchTypeOK, Alone, Latched, Emptied, masks, Quiet
<1> QED BY <1>4, <1>5 DEF LatchInv

LEMMA PollerLatch == ASSUME LatchInv, NEW b \in Buttons, Poller(b) PROVE LatchInv'
<1> USE DEF LatchInv, LatchTypeOK, Alone, Latched, Emptied, masks
<1>1. CASE LoadLatch(b)
  BY <1>1 DEF LoadLatch
<1>2. CASE ConsumeLatch(b)
  BY <1>2 DEF ConsumeLatch
<1>3. CASE TakeDeferred(b)
  BY <1>3 DEF TakeDeferred
<1>4. CASE ClearPress(b)
  BY <1>4 DEF ClearPress
<1> QED BY <1>1, <1>2, <1>3, <1>4 DEF Poller

LEMMA DropLatchInv == ASSUME Locked, LatchInv, DropMask \/ Dropper PROVE LatchInv'
<1> USE DEF LatchInv, LatchTypeOK, Alone, Latched, Emptied, masks
<1>1. CASE DropMask
  <2>1. Quiet BY <1>1, StartQuiet DEF DropMask
  <2> QED BY <1>1, <2>1 DEF DropMask, Quiet
<1>2. CASE DropLatch
  BY <1>2 DEF DropLatch
<1>3. CASE DropDeferred
  BY <1>3 DEF DropDeferred
<1> QED BY <1>1, <1>2, <1>3 DEF Dropper

LEMMA NextLatch == Locked => (LatchInv /\ [LatchNext]_latchVars => LatchInv')
<1> SUFFICES ASSUME Locked, LatchInv, [LatchNext]_latchVars PROVE LatchInv' OBVIOUS
<1>1. CASE UNCHANGED latchVars
  BY <1>1 DEF latchVars, masks, LatchInv, LatchTypeOK, Alone, Latched, Emptied
<1> QED BY <1>1, SetInputLatch, CallLatch, SampleLatch, PollerLatch, DropLatchInv
        DEF LatchNext

\* Under the lock the latch keeps its invariant, for every set of buttons and
\* every remap of the handles onto them.
THEOREM LatchInvariant == ASSUME Locked PROVE LatchSpec => []LatchInv
<1>1. LatchInv /\ [LatchNext]_latchVars => LatchInv'
  BY NextLatch
<1> QED BY <1>1, InitLatch, PTL DEF LatchSpec

\* The masks hold buttons, and a thread is at a statement it has.
THEOREM LatchTypeCorrect == ASSUME Locked PROVE LatchSpec => []LatchTypeOK
<1>1. LatchInv => LatchTypeOK
  BY DEF LatchInv
<1> QED BY <1>1, LatchInvariant, PTL

\* A released button is never held down by a release nobody will apply.
THEOREM NothingStuck == ASSUME Locked PROVE LatchSpec => []NoStuckButton
<1>1. LatchInv => NoStuckButton
  BY DEF LatchInv, LatchTypeOK, Latched, NoStuckButton, Quiet
<1> QED BY <1>1, LatchInvariant, PTL

\* Every tap is visible for one poll.
THEOREM EveryTapShown == ASSUME Locked PROVE LatchSpec => []TapsAreShown
<1>1. LatchInv => TapsAreShown
  BY DEF LatchInv, LatchTypeOK, Alone, Latched, TapsAreShown
<1> QED BY <1>1, LatchInvariant, PTL

----------------------------------------------------------------------------
(* Refinement of TapContract *)

USE DEF Pressing, Showing, Releasing, Held, Unshown

\* Between operations the software mask holds what is held or still owed.
LEMMA QuietMask ==
  ASSUME LatchInv, Quiet
  PROVE  /\ Held \cup Unshown = swMask
         /\ Unshown = unsampledPress
         /\ Held = swMask \ deferredRelease
BY DEF LatchInv, LatchTypeOK, Latched, Quiet

\* A step that changes neither what is held nor what is owed is not seen.
LEMMA UnseenStep ==
  ASSUME poll \notin Drops, poll' \notin Drops, Held' = Held,
         Unshown' = Unshown, UNCHANGED <<hwMask, shown>>
  PROVE  UNCHANGED Taps!contractVars
<1> HIDE DEF Held, Unshown
<1> QED BY DEF Taps!contractVars

LEMMA ReleaseMapped ==
  ASSUME poll = Resting, NEW b \in Buttons, Held' = Held \ {b},
         Unshown' = Unshown, UNCHANGED <<hwMask, poll, shown>>
  PROVE  Taps!ContractNext
<1> HIDE DEF Held, Unshown
<1>1. Taps!Release(b)
  BY DEF Taps!Release
<1> QED BY <1>1 DEF Taps!ContractNext

LEMMA CallRefines ==
  ASSUME Locked, LatchInv, NEW b \in Buttons, Press(b) \/ Release(b) \/ Caller(b)
  PROVE  Taps!ContractNext \/ UNCHANGED Taps!contractVars
<1> USE DEF LatchInv, LatchTypeOK, Alone, Latched, Goto, masks
<1>1. CASE Press(b)
  <2>1. Quiet BY <1>1, StartQuiet DEF Press
  <2>2. Taps!Press(b)
    BY <1>1, <2>1 DEF Press, Quiet, Taps!Press
  <2> QED BY <2>2 DEF Taps!ContractNext
<1>2. CASE Release(b)
  <2>1. Quiet BY <1>2, StartQuiet DEF Release
  <2> QED BY <1>2, <2>1 DEF Release, Quiet, Taps!contractVars
<1>3. CASE LatchPress(b)
  <2>1. poll = Resting /\ Held' = Held /\ Unshown' = Unshown
        /\ UNCHANGED <<hwMask, poll, shown>>
    BY <1>3 DEF LatchPress
  <2> QED BY <2>1, UnseenStep
<1>4. CASE CancelRelease(b)
  <2>1. poll = Resting /\ b \in swMask /\ b \in unsampledPress
        /\ UNCHANGED <<hwMask, poll, shown>>
    BY <1>4 DEF CancelRelease
  <2>2. Held' = Held
    BY <1>4, <2>1 DEF CancelRelease
  <2>3. Unshown' = Unshown
    BY <1>4, <2>1 DEF CancelRelease
  <2> QED BY <2>1, <2>2, <2>3, UnseenStep
<1>5. CASE DeferRelease(b)
  <2>1. poll = Resting /\ UNCHANGED <<hwMask, poll, shown>>
        /\ Pressing = {} /\ Pressing' = {}
    BY <1>5 DEF DeferRelease
  <2>2. Held' = Held \ {b} /\ Unshown' = Unshown
    BY <1>5, <2>1 DEF DeferRelease
  <2> QED BY <2>1, <2>2, ReleaseMapped
<1>6. CASE ReleaseNow(b)
  <2>1. poll = Resting /\ UNCHANGED <<hwMask, poll, shown>>
        /\ Pressing = {} /\ Pressing' = {}
    BY <1>6 DEF ReleaseNow
  <2>2. Held' = Held \ {b} /\ Unshown' = Unshown
    BY <1>6, <2>1 DEF ReleaseNow
  <2> QED BY <2>1, <2>2, ReleaseMapped
<1> QED BY <1>1, <1>2, <1>3, <1>4, <1>5, <1>6 DEF Caller

LEMMA SampleRefines ==
  ASSUME Locked, LatchInv, NEW h \in Handles, Sample(h)
  PROVE  Taps!Sample(Bit[h])
<1>1. Quiet /\ Bit[h] \in Buttons
  BY StartQuiet, LatchAssumption DEF Sample
<1>2. /\ poll' = <<"latch", Bit[h]>> /\ poll = Resting
      /\ UNCHANGED <<hwMask, masks, calls>>
  BY <1>1 DEF Sample
<1>3. shown' = <<Bit[h], Bit[h] \in hwMask \cup swMask>>
  BY DEF Sample
<1>4. Held' = Held /\ Unshown' = Unshown \ {Bit[h]}
  BY <1>1, <1>2 DEF LatchInv, LatchTypeOK, Quiet, masks
<1>5. hwMask \cup swMask = hwMask \cup Held \cup Unshown
  BY <1>1, QuietMask
<1> HIDE DEF Held, Unshown
<1>6. shown' = <<Bit[h], Bit[h] \in hwMask \cup Held \cup Unshown>>
  BY <1>3, <1>5, Zenon
<1>7. poll \notin Drops /\ poll' \notin Drops
  BY <1>2
<1> QED BY <1>2, <1>4, <1>6, <1>7, Zenon DEF Taps!Sample

LEMMA PollerRefines ==
  ASSUME LatchInv, NEW b \in Buttons, Poller(b)
  PROVE  UNCHANGED Taps!contractVars
<1> USE DEF LatchInv, LatchTypeOK, Alone, Latched, masks
<1> SUFFICES /\ poll \notin Drops /\ poll' \notin Drops
             /\ Held' = Held /\ Unshown' = Unshown
             /\ UNCHANGED <<hwMask, shown>>
  BY UnseenStep
<1>1. CASE LoadLatch(b)
  BY <1>1 DEF LoadLatch
<1>2. CASE ConsumeLatch(b)
  BY <1>2 DEF ConsumeLatch
<1>3. CASE TakeDeferred(b)
  BY <1>3 DEF TakeDeferred
<1>4. CASE ClearPress(b)
  BY <1>4 DEF ClearPress
<1> QED BY <1>1, <1>2, <1>3, <1>4 DEF Poller

LEMMA DropRefines ==
  ASSUME Locked, LatchInv, DropMask \/ Dropper
  PROVE  Taps!DropAll \/ UNCHANGED Taps!contractVars
<1> USE DEF LatchInv, LatchTypeOK, Alone, Emptied, masks
<1>1. CASE DropMask
  BY <1>1 DEF DropMask, Taps!DropAll
<1>2. CASE DropLatch
  BY <1>2 DEF DropLatch, Taps!contractVars
<1>3. CASE DropDeferred
  BY <1>3 DEF DropDeferred, Taps!contractVars
<1> QED BY <1>1, <1>2, <1>3 DEF Dropper

LEMMA RefinesNext ==
  Locked => (LatchInv /\ [LatchNext]_latchVars => [Taps!ContractNext]_(Taps!contractVars))
<1> SUFFICES ASSUME Locked, LatchInv, [LatchNext]_latchVars
             PROVE  Taps!ContractNext \/ UNCHANGED Taps!contractVars
  OBVIOUS
<1>1. CASE \E mask \in SUBSET Buttons : SetInput(mask)
  <2>1. PICK mask \in SUBSET Buttons : SetInput(mask)
    BY <1>1
  <2>2. Taps!SetInput(mask)
    BY <2>1 DEF SetInput, masks, Taps!SetInput
  <2> QED BY <2>2 DEF Taps!ContractNext
<1>2. CASE \E b \in Buttons : Press(b) \/ Release(b) \/ Caller(b)
  BY <1>2, CallRefines
<1>3. CASE \E h \in Handles : Sample(h)
  <2>1. PICK h \in Handles : Sample(h)
    BY <1>3
  <2>2. Bit[h] \in Buttons
    BY LatchAssumption
  <2> QED BY <2>1, <2>2, SampleRefines DEF Taps!ContractNext
<1>4. CASE \E b \in Buttons : Poller(b)
  BY <1>4, PollerRefines
<1>5. CASE DropMask \/ Dropper
  BY <1>5, DropRefines DEF Taps!ContractNext
<1>6. CASE UNCHANGED latchVars
  BY <1>6 DEF latchVars, masks, Taps!contractVars
<1> QED BY <1>1, <1>2, <1>3, <1>4, <1>5, <1>6 DEF LatchNext

\* Under the lock the three masks implement the tap contract, for every set
\* of buttons and every remap: whatever an engine samples is what HostPort
\* promises it.
THEOREM LatchRefinement == ASSUME Locked PROVE LatchSpec => KeepsTaps
<1>1. LatchInit => Taps!ContractInit
  BY DEF LatchInit, Taps!ContractInit
<1>2. LatchInv /\ [LatchNext]_latchVars => [Taps!ContractNext]_(Taps!contractVars)
  BY RefinesNext
<1> QED BY <1>1, <1>2, LatchInvariant, PTL DEF KeepsTaps, Taps!Contract, LatchSpec
=============================================================================
