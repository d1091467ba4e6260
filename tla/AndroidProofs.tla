---------------------------- MODULE AndroidProofs ----------------------------
(***************************************************************************)
(* Proofs about the Android bridge: for any ROMs, any number of calls and  *)
(* any bounds, the session's idea of a loaded game agrees with the core's  *)
(* (AndroidSession), a reply about a state slot is true unless the last    *)
(* flush of the very save it is for failed, and an undo gives back what    *)
(* the last save that moved a state away moved, whatever fails             *)
(* (StateSlots).                                                           *)
(***************************************************************************)
EXTENDS AndroidSession, StateSlots, TLAPS

-----------------------------------------------------------------------------
(* The session: AndroidSession.                                            *)

CallSteps == [tag: Tags, rom: MaybeRom]
Cores     == [game: MaybeRom, prefix: MaybeRom, paused: BOOLEAN, drawn: BOOLEAN,
              unsaved: BOOLEAN]

\* The types, by the groups the actions leave alone.
LoadTypes ==
  /\ pendingRomBytes \in MaybeRom /\ pendingSavePrefix \in MaybeRom
  /\ loadedRomPath \in MaybeRom /\ firstFrameSent \in BOOLEAN
StateTypes ==
  /\ stagedSystemId \in BOOLEAN /\ systemStaged \in BOOLEAN
  /\ romLoaded \in BOOLEAN /\ audioStarted \in BOOLEAN /\ currentStatus \in Statuses
WindowTypes ==
  surface \in BOOLEAN /\ threadPaused \in BOOLEAN /\ pausedByDetach \in BOOLEAN
NativeTypes  == core \in Cores /\ pump \in [on: BOOLEAN, paused: BOOLEAN]
EventTypes   == events \in Seq(Runnables)
CallTypes    == todo \in [Posters -> Seq(CallSteps)]
FrameTypes   == frame \in [at: Stages, rom: MaybeRom]
AskedTypes   == asked \in [roms: SUBSET Roms, calls: 0 .. MaxCalls,
                           handed: SUBSET Roms, unseen: SUBSET Roms]

SessionTypes ==
  /\ LoadTypes /\ StateTypes /\ WindowTypes /\ NativeTypes /\ EventTypes
  /\ CallTypes /\ FrameTypes /\ AskedTypes

LEMMA TypeParts == TypeOK <=> SessionTypes
BY DEF TypeOK, SessionTypes, LoadTypes, StateTypes, WindowTypes, NativeTypes, EventTypes,
       CallTypes, FrameTypes, AskedTypes, CallSteps, Cores

\* A ROM that was taken is one to boot.
TakenRom == At("clear") \/ At("boot") => frame.rom \in Roms

SessionInv == SessionTypes /\ TakenRom /\ SessionMatchesCore

LEMMA Kept ==
  /\ UNCHANGED loadVars /\ LoadTypes => LoadTypes'
  /\ UNCHANGED stateVars /\ StateTypes => StateTypes'
  /\ UNCHANGED windowVars /\ WindowTypes => WindowTypes'
  /\ UNCHANGED nativeVars /\ NativeTypes => NativeTypes'
  /\ UNCHANGED events /\ EventTypes => EventTypes'
  /\ UNCHANGED todo /\ CallTypes => CallTypes'
  /\ UNCHANGED frame /\ FrameTypes => FrameTypes'
  /\ UNCHANGED asked /\ AskedTypes => AskedTypes'
<1>1. UNCHANGED loadVars /\ LoadTypes => LoadTypes'
  BY DEF loadVars, LoadTypes
<1>2. UNCHANGED stateVars /\ StateTypes => StateTypes'
  BY DEF stateVars, StateTypes
<1>3. UNCHANGED windowVars /\ WindowTypes => WindowTypes'
  BY DEF windowVars, WindowTypes
<1>4. UNCHANGED nativeVars /\ NativeTypes => NativeTypes'
  BY DEF nativeVars, NativeTypes
<1>5. /\ UNCHANGED events /\ EventTypes => EventTypes'
      /\ UNCHANGED todo /\ CallTypes => CallTypes'
      /\ UNCHANGED frame /\ FrameTypes => FrameTypes'
      /\ UNCHANGED asked /\ AskedTypes => AskedTypes'
  BY DEF EventTypes, CallTypes, FrameTypes, AskedTypes
<1> QED BY <1>1, <1>2, <1>3, <1>4, <1>5

\* What the other parts of the invariant read.
LEMMA SameGame ==
  ASSUME romLoaded' = romLoaded, core'.game = core.game, UNCHANGED frame,
         TakenRom, SessionMatchesCore
  PROVE  (TakenRom /\ SessionMatchesCore)'
BY DEF TakenRom, SessionMatchesCore, At

LEMMA CallsTyped ==
  /\ PauseCall \in Seq(CallSteps) /\ ResumeCall \in Seq(CallSteps)
  /\ StopCall \in Seq(CallSteps)
  /\ \A r \in Roms : LoadRomCall(r) \in Seq(CallSteps)
  /\ \A tag \in Tags : <<Access(tag)>> \in Seq(CallSteps)
<1>1. \A tag \in Tags : Access(tag) \in CallSteps
  BY DEF Access, CallSteps, MaybeRom
<1>2. \A r \in Roms, tag \in Tags : [tag |-> tag, rom |-> r] \in CallSteps
  BY DEF CallSteps, MaybeRom
<1>3. /\ "name" \in Tags /\ "rearm" \in Tags /\ "prefix" \in Tags /\ "rom" \in Tags
      /\ "mute" \in Tags /\ "pause" \in Tags /\ "flush" \in Tags
      /\ "sayPaused" \in Tags /\ "unmute" \in Tags /\ "resume" \in Tags
      /\ "sayResumed" \in Tags /\ "detach" \in Tags /\ "teardown" \in Tags
      /\ "sayStopped" \in Tags
  BY DEF Tags
<1>4. PauseCall \in Seq(CallSteps)
  BY <1>1, <1>3 DEF PauseCall
<1>5. ResumeCall \in Seq(CallSteps)
  BY <1>1, <1>3 DEF ResumeCall
<1>6. StopCall \in Seq(CallSteps)
  BY <1>1, <1>3 DEF StopCall
<1>7. \A r \in Roms : LoadRomCall(r) \in Seq(CallSteps)
  <2> TAKE r \in Roms
  <2>1. /\ [tag |-> "name", rom |-> r] \in CallSteps /\ Access("rearm") \in CallSteps
        /\ [tag |-> "prefix", rom |-> r] \in CallSteps
        /\ [tag |-> "rom", rom |-> r] \in CallSteps
    BY <1>1, <1>2, <1>3
  <2> HIDE DEF CallSteps
  <2> QED BY <2>1 DEF LoadRomCall
<1>8. \A tag \in Tags : <<Access(tag)>> \in Seq(CallSteps)
  BY <1>1
<1> QED BY <1>4, <1>5, <1>6, <1>7, <1>8

\* A call begins with steps, and goes on with those that remain.
LEMMA BeginTyped ==
  ASSUME CallTypes, NEW t \in Posters, NEW s \in Seq(CallSteps), Begin(t, s)
  PROVE  todo' \in [Posters -> Seq(CallSteps)]
BY DEF CallTypes, Begin

LEMMA DoesTyped ==
  ASSUME CallTypes, NEW t \in Posters, NEW tag, Does(t, tag)
  PROVE  /\ todo' \in [Posters -> Seq(CallSteps)]
         /\ Head(todo[t]) \in CallSteps
<1>1. todo[t] \in Seq(CallSteps) /\ todo[t] # <<>>
  BY DEF CallTypes, Does
<1>2. Tail(todo[t]) \in Seq(CallSteps) /\ Head(todo[t]) \in CallSteps
  BY <1>1
<1> QED BY <1>2 DEF CallTypes, Does

LEMMA SessionInit == Init => SessionInv
<1> SUFFICES ASSUME Init PROVE SessionInv
  OBVIOUS
<1>1. LoadTypes /\ WindowTypes
  BY Zenon DEF Init, LoadTypes, WindowTypes, MaybeRom
<1>2. StateTypes /\ EventTypes
  <2>1. currentStatus \in Statuses /\ EventTypes
    BY DEF Init, Statuses, EventTypes
  <2> QED BY <2>1, Zenon DEF Init, StateTypes
<1>3. NativeTypes
  BY DEF Init, NativeTypes, Cores, NoCore, MaybeRom
<1>4. CallTypes /\ FrameTypes /\ AskedTypes
  BY SessionAssumption DEF Init, CallTypes, FrameTypes, AskedTypes, Stages, MaybeRom
<1>5. TakenRom /\ SessionMatchesCore
  BY DEF Init, TakenRom, SessionMatchesCore, At, NoCore
<1> QED BY <1>1, <1>2, <1>3, <1>4, <1>5 DEF SessionInv, SessionTypes

LEMMA CallsStep ==
  ASSUME SessionInv, Calls
  PROVE  SessionInv'
<1> USE DEF SessionInv, SessionTypes
<1>1. "bridge" \in Posters /\ "ui" \in Posters
  BY DEF Posters
<1>2. AskedTypes'
  <2>1. Spend => AskedTypes'
    BY SessionAssumption DEF AskedTypes, Spend
  <2>2. ASSUME NEW r \in Roms, LoadRom(r) PROVE AskedTypes'
    BY <2>2 DEF AskedTypes, LoadRom
  <2> QED BY <2>1, <2>2 DEF Calls, StageSystem, Command, AttachSurface, DetachSurface,
                            OnPause, OnResume
<1>3. CallTypes'
  <2>1. \A r \in Roms : LoadRom(r) => CallTypes'
    BY <1>1, CallsTyped, BeginTyped DEF LoadRom, CallTypes
  <2>2. \A tag \in {"stage", "attached", "flush", "gone"} : <<Access(tag)>> \in Seq(CallSteps)
    BY CallsTyped DEF Tags
  <2>3. StageSystem \/ AttachSurface \/ OnPause => CallTypes'
    BY <1>1, <2>2, BeginTyped DEF StageSystem, AttachSurface, OnPause, CallTypes
  <2>4. Command => CallTypes'
    BY <1>1, CallsTyped, BeginTyped DEF Command, CallTypes
  <2>5. ASSUME DetachSurface PROVE CallTypes'
    <3> DEFINE pausing == romLoaded /\ currentStatus = "running"
               steps == (IF pausing THEN PauseCall ELSE <<>>) \o <<Access("gone")>>
    <3>1. Begin("ui", steps)
      BY <2>5 DEF DetachSurface
    <3>2. (IF pausing THEN PauseCall ELSE <<>>) \in Seq(CallSteps)
      BY CallsTyped
    <3>3. steps \in Seq(CallSteps)
      BY <2>2, <3>2
    <3> HIDE DEF steps
    <3> QED BY <1>1, <3>1, <3>3, BeginTyped DEF CallTypes
  <2>6. <<>> \in Seq(CallSteps)
    OBVIOUS
  <2>7. OnResume => CallTypes'
    BY <1>1, <2>6, BeginTyped DEF OnResume, CallTypes
  <2> QED BY <2>1, <2>3, <2>4, <2>5, <2>7 DEF Calls
<1>4. /\ UNCHANGED <<loadVars, nativeVars, events, frame>>
      /\ romLoaded' = romLoaded
  BY DEF Calls, LoadRom, StageSystem, Command, AttachSurface, DetachSurface, OnPause,
         OnResume, stateVars
<1>5. StateTypes'
  BY DEF Calls, LoadRom, StageSystem, Command, AttachSurface, DetachSurface, OnPause,
         OnResume, stateVars, StateTypes
<1>6. WindowTypes'
  <2>1. CASE \/ StageSystem \/ Command \/ \E r \in Roms : LoadRom(r)
    BY <2>1, Kept DEF StageSystem, Command, LoadRom
  <2>2. CASE AttachSurface \/ OnPause \/ OnResume
    BY <2>2 DEF AttachSurface, OnPause, OnResume, WindowTypes
  <2>3. CASE DetachSurface
    BY <2>3 DEF DetachSurface, WindowTypes
  <2> QED BY <2>1, <2>2, <2>3 DEF Calls
<1>7. core' = core
  BY <1>4 DEF nativeVars
<1> QED BY <1>2, <1>3, <1>4, <1>5, <1>6, <1>7, Kept, SameGame

LEMMA ProceedStep ==
  ASSUME SessionInv, NEW t \in Posters, Proceed(t)
  PROVE  SessionInv'
<1> USE DEF SessionInv, SessionTypes
<1>1. CASE WriteLoad(t)
  <2>1. CallTypes' /\ Head(todo[t]).rom \in MaybeRom
    BY <1>1, DoesTyped DEF WriteLoad, CallSteps, CallTypes
  <2>2. LoadTypes'
    BY <1>1, <2>1 DEF WriteLoad, LoadTypes
  <2>3. romLoaded' = romLoaded /\ core' = core
    BY <1>1 DEF WriteLoad, stateVars, nativeVars
  <2> QED BY <1>1, <2>1, <2>2, <2>3, Kept, SameGame DEF WriteLoad
<1>2. CASE Post(t)
  <2>1. CallTypes'
    BY <1>2, DoesTyped DEF Post, CallTypes
  <2>2. EventTypes'
    BY <1>2 DEF Post, EventTypes
  <2>3. romLoaded' = romLoaded /\ core' = core
    BY <1>2 DEF Post, stateVars, nativeVars
  <2> QED BY <1>2, <2>1, <2>2, <2>3, Kept, SameGame DEF Post
<1>3. CASE TouchNative(t)
  <2>1. CallTypes'
    BY <1>3, DoesTyped DEF TouchNative, CallTypes
  <2>2. NativeTypes' /\ core'.game = core.game
    BY <1>3 DEF TouchNative, NativeTypes, Cores
  <2>3. romLoaded' = romLoaded
    BY <1>3 DEF TouchNative, stateVars
  <2> QED BY <1>3, <2>1, <2>2, <2>3, Kept, SameGame DEF TouchNative
<1>4. CASE SayStatus(t)
  <2>1. CallTypes'
    BY <1>4, DoesTyped DEF SayStatus, CallTypes
  <2>2. StateTypes'
    BY <1>4 DEF SayStatus, StateTypes, Statuses
  <2>3. romLoaded' = romLoaded /\ core' = core
    BY <1>4 DEF SayStatus, nativeVars
  <2> QED BY <1>4, <2>1, <2>2, <2>3, Kept, SameGame DEF SayStatus
<1>5. CASE SurfaceSettles(t)
  <2>1. CallTypes'
    <3>1. CASE Does(t, "gone")
      BY <3>1, DoesTyped DEF CallTypes
    <3>2. CASE /\ todo[t] # <<>>
               /\ todo' = [todo EXCEPT ![t] =
                      Tail(@) \o (IF pausedByDetach THEN ResumeCall ELSE <<>>)]
      <4>1. todo[t] \in Seq(CallSteps)
        BY DEF CallTypes
      <4>2. Tail(todo[t]) \in Seq(CallSteps)
        BY <3>2, <4>1
      <4>3. (IF pausedByDetach THEN ResumeCall ELSE <<>>) \in Seq(CallSteps)
        BY CallsTyped
      <4>4. Tail(todo[t]) \o (IF pausedByDetach THEN ResumeCall ELSE <<>>) \in Seq(CallSteps)
        BY <4>2, <4>3
      <4> QED BY <3>2, <4>4 DEF CallTypes
    <3> QED BY <1>5, <3>1, <3>2 DEF SurfaceSettles
  <2>2. WindowTypes'
    BY <1>5 DEF SurfaceSettles, WindowTypes
  <2>3. romLoaded' = romLoaded /\ core' = core
    BY <1>5 DEF SurfaceSettles, stateVars, nativeVars
  <2> QED BY <1>5, <2>1, <2>2, <2>3, Kept, SameGame DEF SurfaceSettles
<1> QED BY <1>1, <1>2, <1>3, <1>4, <1>5 DEF Proceed

LEMMA RenderStep ==
  ASSUME SessionInv, Render
  PROVE  SessionInv'
<1> USE DEF SessionInv, SessionTypes
<1>1. CASE RunEvent
  <2>1. EventTypes' /\ Head(events) \in Runnables
    BY <1>1 DEF RunEvent, EventTypes
  <2>2. UNCHANGED <<windowVars, todo, frame, asked>> /\ At("events")
    BY <1>1 DEF RunEvent
  <2>3. CASE Head(events) = "flush"
    <3>1. /\ core' = [core EXCEPT !.unsaved = FALSE] /\ pump' = pump
          /\ UNCHANGED <<loadVars, stateVars>>
      BY <1>1, <2>3 DEF RunEvent, loadVars, stateVars
    <3>2. NativeTypes' /\ core'.game = core.game
      BY <3>1 DEF NativeTypes, Cores
    <3>3. romLoaded' = romLoaded
      BY <3>1 DEF stateVars
    <3> QED BY <2>1, <2>2, <3>1, <3>2, <3>3, Kept, SameGame
  <2>4. CASE Head(events) = "stage"
    <3>1. /\ systemStaged' \in BOOLEAN
          /\ UNCHANGED <<loadVars, nativeVars, romLoaded, audioStarted, currentStatus,
                         stagedSystemId>>
      BY <1>1, <2>4 DEF RunEvent, loadVars, nativeVars
    <3>2. StateTypes'
      BY <3>1 DEF StateTypes
    <3>3. core' = core
      BY <3>1 DEF nativeVars
    <3> QED BY <2>1, <2>2, <3>1, <3>2, <3>3, Kept, SameGame
  <2>5. CASE Head(events) = "teardown"
    <3>1. /\ core' = NoCore /\ pump' = pump /\ romLoaded' = FALSE
          /\ systemStaged' = FALSE /\ audioStarted' = FALSE /\ firstFrameSent' = FALSE
          /\ UNCHANGED <<currentStatus, stagedSystemId, pendingRomBytes,
                         pendingSavePrefix, loadedRomPath>>
      BY <1>1, <2>5 DEF RunEvent
    <3>2. NativeTypes'
      BY <3>1 DEF NativeTypes, Cores, NoCore, MaybeRom
    <3>3. LoadTypes' /\ StateTypes'
      BY <3>1 DEF LoadTypes, StateTypes
    <3>4. (TakenRom /\ SessionMatchesCore)'
      BY <2>2, <3>1 DEF TakenRom, SessionMatchesCore, At, NoCore
    <3> QED BY <2>1, <2>2, <3>2, <3>3, <3>4, Kept
  <2> QED BY <2>1, <2>3, <2>4, <2>5 DEF Runnables
<1> DEFINE Still == UNCHANGED <<windowVars, todo, events>>
<1>2. ASSUME BeginFrame \/ DoFrame, Still
      PROVE  (WindowTypes /\ CallTypes /\ AskedTypes /\ EventTypes)'
  <2>1. Boots \/ Rejected \/ FailedStopped => AskedTypes'
    <3>1. Boots \/ Rejected \/ FailedStopped => frame.rom \in Roms /\ HandOver
      BY DEF TakenRom, Boots, Rejected, FailedStopped
    <3>2. frame.rom \in Roms /\ HandOver => AskedTypes'
      BY DEF HandOver, AskedTypes
    <3> QED BY <3>1, <3>2
  <2>2. ClearPending => AskedTypes'
    BY DEF ClearPending, AskedTypes, LoadTypes, MaybeRom
  <2>3. AskedTypes'
    BY <1>2, <2>1, <2>2, Kept
      DEF BeginFrame, DoFrame, TakeRom, StartAudio, RunTicks, ReportFrame
  <2> QED BY <1>2, <2>3, Kept
<1>3. CASE BeginFrame \/ TakeRom \/ Rejected
  <2>1. UNCHANGED <<loadVars, stateVars, nativeVars>> /\ Still
    BY <1>3 DEF BeginFrame, TakeRom, Rejected
  <2>2. FrameTypes' /\ TakenRom'
    BY <1>3 DEF BeginFrame, TakeRom, Rejected, At, GoTo, FrameTypes, TakenRom, Stages,
                MaybeRom, LoadTypes
  <2>3. SessionMatchesCore'
    <3>1. romLoaded' = romLoaded /\ core' = core
      BY <2>1 DEF stateVars, nativeVars
    <3>2. frame'.at \in {"take", "clear", "audio"}
      BY <1>3 DEF BeginFrame, TakeRom, Rejected, At, GoTo, FrameTypes
    <3> QED BY <3>1, <3>2 DEF SessionMatchesCore, At
  <2> QED BY <1>2, <1>3, <2>1, <2>2, <2>3, Kept DEF DoFrame
<1>4. CASE ClearPending
  <2>1. /\ UNCHANGED <<stateVars, nativeVars>> /\ Still /\ LoadTypes'
    BY <1>4 DEF ClearPending, LoadTypes, MaybeRom
  <2>2. romLoaded' = romLoaded /\ core' = core
    BY <2>1 DEF stateVars, nativeVars
  <2>3. FrameTypes' /\ frame'.at = "boot" /\ frame'.rom = frame.rom /\ At("clear")
    BY <1>4 DEF ClearPending, GoTo, FrameTypes, Stages
  <2>4. (TakenRom /\ SessionMatchesCore)'
    BY <2>2, <2>3 DEF TakenRom, SessionMatchesCore, At
  <2> QED BY <1>2, <1>4, <2>1, <2>3, <2>4, Kept DEF DoFrame
<1>5. CASE Boots
  <2>1. frame.rom \in Roms /\ frame.rom # None
    BY <1>5, SessionAssumption DEF Boots, TakenRom
  <2>2. /\ core' = [core EXCEPT !.game = frame.rom, !.prefix = pendingSavePrefix,
                                !.paused = FALSE, !.unsaved = FALSE]
        /\ pump' = pump /\ romLoaded' = TRUE /\ currentStatus' = "loading"
        /\ UNCHANGED <<loadVars, stagedSystemId, systemStaged, audioStarted>> /\ Still
    BY <1>5 DEF Boots
  <2>3. NativeTypes' /\ core'.game # None
    BY <2>1, <2>2 DEF NativeTypes, LoadTypes, Cores, MaybeRom
  <2>4. StateTypes'
    BY <2>2 DEF StateTypes, Statuses
  <2>5. FrameTypes' /\ frame'.at = "audio"
    BY <1>5 DEF Boots, GoTo, FrameTypes, Stages
  <2>6. (TakenRom /\ SessionMatchesCore)'
    BY <2>2, <2>3, <2>5 DEF TakenRom, SessionMatchesCore, At
  <2> QED BY <1>2, <1>5, <2>2, <2>3, <2>4, <2>5, <2>6, Kept DEF DoFrame
<1>6. CASE FailedStopped
  <2>1. /\ core' = [core EXCEPT !.game = None, !.prefix = None, !.paused = FALSE,
                                !.unsaved = FALSE]
        /\ pump' = [pump EXCEPT !.on = FALSE]
        /\ romLoaded' = FALSE /\ audioStarted' = FALSE /\ currentStatus' = "stopped"
        /\ UNCHANGED <<loadVars, stagedSystemId, systemStaged>> /\ Still
    BY <1>6 DEF FailedStopped
  <2>2. NativeTypes' /\ core'.game = None
    BY <2>1 DEF NativeTypes, Cores, MaybeRom
  <2>3. StateTypes'
    BY <2>1 DEF StateTypes, Statuses
  <2>4. FrameTypes' /\ frame'.at = "audio"
    BY <1>6 DEF FailedStopped, GoTo, FrameTypes, Stages
  <2>5. (TakenRom /\ SessionMatchesCore)'
    BY <2>1, <2>2, <2>4 DEF TakenRom, SessionMatchesCore, At
  <2> QED BY <1>2, <1>6, <2>1, <2>2, <2>3, <2>4, <2>5, Kept DEF DoFrame
<1>7. CASE StartAudio
  <2>1. /\ UNCHANGED <<loadVars, core, stagedSystemId, systemStaged, romLoaded,
                       currentStatus>> /\ Still
        /\ audioStarted' = (audioStarted \/ romLoaded)
        /\ pump' \in {[on |-> TRUE, paused |-> FALSE], pump}
    BY <1>7 DEF StartAudio
  <2>2. StateTypes'
    <3>1. audioStarted' \in BOOLEAN
      BY <2>1
    <3> QED BY <2>1, <3>1 DEF StateTypes
  <2>5. NativeTypes'
    <3>1. [on |-> TRUE, paused |-> FALSE] \in [on: BOOLEAN, paused: BOOLEAN]
      OBVIOUS
    <3>2. pump' \in [on: BOOLEAN, paused: BOOLEAN]
      BY <2>1, <3>1, Zenon DEF NativeTypes
    <3> QED BY <2>1, <3>2 DEF NativeTypes
  <2>3. FrameTypes' /\ frame'.at = IF romLoaded THEN "tick" ELSE "events"
    BY <1>7 DEF StartAudio, GoTo, FrameTypes, Stages
  <2>4. (TakenRom /\ SessionMatchesCore)'
    BY <2>1, <2>3 DEF TakenRom, SessionMatchesCore, At
  <2> QED BY <1>2, <1>7, <2>1, <2>2, <2>3, <2>4, <2>5, Kept DEF DoFrame
<1>8. CASE RunTicks
  <2>1. /\ UNCHANGED <<loadVars, stateVars, pump>> /\ Still /\ At("tick")
        /\ \/ core' = core
           \/ core' = [core EXCEPT !.unsaved = FALSE]
           \/ core' = [core EXCEPT !.drawn = TRUE, !.unsaved = TRUE]
    BY <1>8 DEF RunTicks
  <2>2. NativeTypes' /\ core'.game = core.game
    BY <2>1 DEF NativeTypes, Cores
  <2>3. FrameTypes' /\ frame'.at = "report" /\ romLoaded' = romLoaded
    BY <1>8, <2>1 DEF RunTicks, GoTo, FrameTypes, Stages, stateVars
  <2>4. (TakenRom /\ SessionMatchesCore)'
    BY <2>1, <2>2, <2>3 DEF TakenRom, SessionMatchesCore, At
  <2> QED BY <1>2, <1>8, <2>1, <2>2, <2>3, <2>4, Kept DEF DoFrame
<1>9. CASE ReportFrame
  <2>1. /\ UNCHANGED <<nativeVars, pendingRomBytes, pendingSavePrefix, loadedRomPath,
                       stagedSystemId, systemStaged, romLoaded, audioStarted>> /\ Still
        /\ firstFrameSent' \in {firstFrameSent, TRUE}
        /\ currentStatus' \in {currentStatus, "running"}
        /\ frame' = [at |-> "events", rom |-> None]
    BY <1>9 DEF ReportFrame
  <2>2. LoadTypes' /\ StateTypes'
    BY <2>1 DEF LoadTypes, StateTypes, Statuses
  <2>3. FrameTypes'
    BY <2>1 DEF FrameTypes, Stages, MaybeRom
  <2>4. (TakenRom /\ SessionMatchesCore)'
    BY <2>1 DEF TakenRom, SessionMatchesCore, At, nativeVars
  <2> QED BY <1>2, <1>9, <2>1, <2>2, <2>3, <2>4, Kept DEF DoFrame
<1> QED BY <1>1, <1>3, <1>4, <1>5, <1>6, <1>7, <1>8, <1>9 DEF Render, DoFrame

LEMMA SessionStep == SessionInv /\ [Next]_vars => SessionInv'
<1> SUFFICES ASSUME SessionInv, [Next]_vars PROVE SessionInv'
  OBVIOUS
<1>1. CASE UNCHANGED vars
  <2>1. UNCHANGED <<loadVars, stateVars, windowVars, nativeVars, events, todo, frame, asked>>
    BY <1>1 DEF vars
  <2>2. romLoaded' = romLoaded /\ core' = core
    BY <2>1 DEF stateVars, nativeVars
  <2> QED BY <2>1, <2>2, Kept, SameGame DEF SessionInv, SessionTypes
<1> QED BY <1>1, CallsStep, ProceedStep, RenderStep DEF Next

\* Queued loads, calls and events keep their types.
THEOREM SessionTypeCorrect == Spec => []TypeOK
<1>1. SessionInv => TypeOK
  BY TypeParts DEF SessionInv
<1> QED BY <1>1, SessionInit, SessionStep, PTL DEF Spec

\* Session and core agree on whether a game is loaded.
THEOREM SessionAgrees == Spec => []SessionMatchesCore
<1>1. SessionInv => SessionMatchesCore
  BY DEF SessionInv
<1> QED BY <1>1, SessionInit, SessionStep, PTL DEF Spec

-----------------------------------------------------------------------------
(* The state slots: StateSlots.                                            *)

\* A frame that reaches its end has a game, and the undo file is never the
\* target of a request.
Frames ==
  /\ frameAt = "late" => running # 0
  /\ pendingStateOp # Null => pendingStateOp.file # "undo_save"

\* What a call waits for is the request it made last.
Waiting ==
  /\ call.of = "none" => call = Idle /\ answer = "none"
  /\ call.of \in {"save", "snapshot", "load"} => call.slot \in Slots
  /\ call.of # "none" /\ answer = "none" /\ pendingStateOp # Null =>
       /\ pendingStateOp.id = call.id
       /\ call.of = "save" => pendingStateOp.save /\ pendingStateOp.file = call.slot
       /\ call.of = "load" => ~pendingStateOp.save /\ pendingStateOp.file = call.slot

\* A game that runs in a call ran before it or was queued after its request.
GameOrder ==
  /\ running <= boots /\ pendingRom <= boots /\ call.since <= boots
  /\ pendingRom # 0 => running < pendingRom /\ call.since < pendingRom
  /\ running # 0 => call.since <= running

\* The file holds what this call wrote, or the flush of this call failed.
Saved(c) ==
  IF c.id = cut THEN files[c.slot] = Torn
  ELSE /\ files[c.slot] \in States
       /\ files[c.slot].op = c.id
       /\ files[c.slot].boot >= c.since

\* What an answered request left behind stays until the call goes on.
Answered ==
  answer = "ok" =>
    /\ pendingStateOp = Null
    /\ call.of = "save" => Saved(call)
    /\ call.of = "load" => restored = files[call.slot]

\* What a reply says stays true until the next call.
Replied ==
  reply.of # "none" =>
    /\ pendingStateOp = Null /\ call = Idle
    /\ reply.of \in {"save", "load"} => reply.slot \in Slots
    /\ reply.of = "save" => Saved(reply)
    /\ reply.of = "load" => restored = files[reply.slot]

\* A request that was cut short was made before the one that waits.
CutMade ==
  /\ cut <= posted
  /\ pendingStateOp # Null => cut < pendingStateOp.id /\ pendingStateOp.id <= posted

SlotsRest == Frames /\ Waiting /\ GameOrder /\ CutMade /\ Answered /\ Replied

SlotsInv == SlotsTypeOK /\ SlotsRest
----------------------------------------------------------------------------

USE SlotsAssumption

LEMMA SlotsStart == SlotsInit => SlotsInv
<1> SUFFICES ASSUME SlotsInit PROVE SlotsInv
  OBVIOUS
<1>1. SlotsTypeOK
  <2>1. /\ files \in [Files -> Contents]
        /\ moved \in [slot: Slots \cup {Null}, state: Contents, boots: 0 .. MaxBoots]
    BY DEF SlotsInit, Contents
  <2>2. Idle \in CallsInProgress
    BY DEF Idle, CallKinds, CallsInProgress
  <2>3. drawing \in BOOLEAN
    BY Zenon DEF SlotsInit
  <2> QED BY <2>1, <2>2, <2>3 DEF SlotsInit, SlotsTypeOK
<1>2. SlotsRest
  BY DEF SlotsInit, SlotsRest, Frames, Waiting, GameOrder, CutMade, Answered, Replied, Idle
<1> QED BY <1>1, <1>2 DEF SlotsInv

\* Each action keeps the type.
LEMMA SlotsTypeStep == SlotsInv /\ [SlotsNext]_slotsVars => SlotsTypeOK'
<1> SUFFICES ASSUME SlotsInv, [SlotsNext]_slotsVars PROVE SlotsTypeOK'
  OBVIOUS
<1> USE DEF SlotsInv, SlotsRest, SlotsTypeOK, Files, Contents, Requests, CallKinds,
            CallsInProgress, Idle
<1>1. CASE Call
  <2>1. ASSUME NEW s \in Slots, StateSave(s) PROVE SlotsTypeOK'
    BY <2>1 DEF StateSave, MoveAway, Request, machineVars
  <2>2. ASSUME NEW s \in Slots, StateLoad(s) PROVE SlotsTypeOK'
    BY <2>2 DEF StateLoad, Request, machineVars, ghostVars
  <2>3. CASE UndoStateSave
    BY <2>3 DEF UndoStateSave, machineVars, ghostVars
  <2>4. CASE UndoStateLoad
    BY <2>4 DEF UndoStateLoad, Request, machineVars, ghostVars
  <2>5. CASE QueueRom
    BY <2>5 DEF QueueRom, ghostVars
  <2> QED BY <1>1, <2>1, <2>2, <2>3, <2>4, <2>5 DEF Call
<1>2. CASE Wake
  <2>1. CASE TimeOut
    BY <2>1 DEF TimeOut, bridgeVars, machineVars, ghostVars
  <2>2. CASE GoOnLoading
    BY <2>2 DEF GoOnLoading, Request, machineVars, ghostVars, Waiting
  <2>3. CASE SlotEmpty
    BY <2>3 DEF SlotEmpty, machineVars, ghostVars
  <2>4. CASE Finish
    BY <2>4 DEF Finish, machineVars, ghostVars
  <2> QED BY <1>2, <2>1, <2>2, <2>3, <2>4 DEF Wake
<1>3. CASE ServeFrame
  <2>1. CASE TopOfFrame
    BY <2>1 DEF TopOfFrame, bridgeVars, ghostVars
  <2>2. CASE ServeOp
    <3>1. PICK outcome \in {"ok", "failed"} :
            /\ IF pendingStateOp.save
                 THEN /\ HostSaves(pendingStateOp.file, pendingStateOp.id, outcome)
                      /\ UNCHANGED restored
                 ELSE HostLoads(pendingStateOp.file, outcome) /\ UNCHANGED <<files, cut>>
            /\ answer' = IF call.id = pendingStateOp.id /\ answer = "none"
                           THEN outcome ELSE answer
      BY <2>2 DEF ServeOp
    <3>2. /\ pendingStateOp \in Requests /\ running \in 1 .. MaxBoots
          /\ pendingStateOp' = Null /\ frameAt' = "top"
          /\ UNCHANGED <<bridgeVars, running, pendingRom, drawing, boots, posted, moved>>
      BY <2>2 DEF ServeOp, Frames
    <3>3. files' \in [Files -> Contents]
      BY <3>1, <3>2 DEF HostSaves, States
    <3>4. restored' \in States \cup {Null}
      BY <3>1, <3>2 DEF HostLoads
    <3>5. cut' \in 0 .. MaxOps
      BY <3>1, <3>2 DEF HostSaves
    <3> QED BY <3>1, <3>2, <3>3, <3>4, <3>5 DEF bridgeVars
  <2>3. CASE NothingToServe
    BY <2>3 DEF NothingToServe, bridgeVars, ghostVars
  <2> QED BY <1>3, <2>1, <2>2, <2>3 DEF ServeFrame
<1>4. CASE Teardown
  BY <1>4 DEF Teardown, bridgeVars, ghostVars
<1>5. CASE Foreground
  BY <1>5 DEF Foreground, bridgeVars, ghostVars
<1>6. CASE Killed
  <2>1. files' \in [Files -> Contents]
    BY <1>6 DEF Killed
  <2>2. Idle \in CallsInProgress
    OBVIOUS
  <2>3. call' = Idle /\ reply' = Idle
    BY <1>6 DEF Killed
  <2>4. drawing' \in BOOLEAN
    BY <1>6, Zenon DEF Killed
  <2> HIDE DEF Idle, Contents, Requests, CallKinds, CallsInProgress
  <2> QED BY <1>6, <2>1, <2>2, <2>3, <2>4 DEF Killed, ghostVars
<1>7. CASE UNCHANGED slotsVars
  BY <1>7 DEF slotsVars, bridgeVars, machineVars, ghostVars
<1> QED BY <1>1, <1>2, <1>3, <1>4, <1>5, <1>6, <1>7 DEF SlotsNext

\* What the order of games and requests needs of a step that makes none.
LEMMA OrderStep == SlotsInv /\ [SlotsNext]_slotsVars => (Frames /\ GameOrder /\ CutMade)'
<1> SUFFICES ASSUME SlotsInv, [SlotsNext]_slotsVars
             PROVE (Frames /\ GameOrder /\ CutMade)'
  OBVIOUS
<1>1. /\ running \in Nat /\ pendingRom \in Nat /\ boots \in Nat /\ call.since \in Nat
      /\ posted \in Nat /\ cut \in Nat /\ Idle.since = 0
      /\ pendingStateOp # Null => pendingStateOp.id \in Nat
      /\ frameAt \in {"top", "late"}
  BY DEF SlotsInv, SlotsTypeOK, CallsInProgress, Requests, Idle
<1> USE DEF SlotsInv, SlotsRest, Frames, GameOrder, CutMade
<1>2. ASSUME NEW save, NEW file \in Files \ {"undo_save"}, NEW of, NEW slot,
             Request(save, file, of, slot), UNCHANGED machineVars, cut' = cut
      PROVE  (Frames /\ GameOrder /\ CutMade)'
  BY <1>1, <1>2 DEF Request, machineVars
<1>3. Slots \subseteq Files \ {"undo_save"} /\ "undo_load" \in Files \ {"undo_save"}
  BY DEF Files
<1>4. CASE Call
  <2>1. CASE UndoStateSave
    BY <1>1, <2>1 DEF UndoStateSave, machineVars, ghostVars
  <2>2. CASE QueueRom
    BY <1>1, <2>2 DEF QueueRom, ghostVars, Idle
  <2> QED BY <1>2, <1>3, <1>4, <2>1, <2>2
        DEF Call, StateSave, MoveAway, StateLoad, UndoStateLoad, ghostVars
<1>5. CASE Wake
  <2>1. CASE TimeOut
    BY <1>1, <2>1 DEF TimeOut, bridgeVars, machineVars, ghostVars
  <2>2. CASE GoOnLoading
    BY <1>2, <1>3, <2>2 DEF GoOnLoading, ghostVars, Waiting
  <2>3. CASE SlotEmpty \/ Finish
    BY <1>1, <2>3 DEF SlotEmpty, Finish, machineVars, ghostVars
  <2> QED BY <1>5, <2>1, <2>2, <2>3 DEF Wake
<1>6. CASE ServeFrame
  <2>1. CASE TopOfFrame
    BY <1>1, <2>1 DEF TopOfFrame, bridgeVars, ghostVars
  <2>2. CASE ServeOp
    BY <1>1, <2>2 DEF ServeOp, bridgeVars, HostSaves, HostLoads
  <2>3. CASE NothingToServe
    BY <1>1, <2>3 DEF NothingToServe, bridgeVars, ghostVars
  <2> QED BY <1>6, <2>1, <2>2, <2>3 DEF ServeFrame
<1>7. CASE Teardown \/ Foreground
  BY <1>1, <1>7 DEF Teardown, Foreground, bridgeVars, ghostVars
<1>8. CASE Killed
  BY <1>1, <1>8 DEF Killed, ghostVars, Idle
<1>9. CASE UNCHANGED slotsVars
  BY <1>1, <1>9 DEF slotsVars, bridgeVars, machineVars, ghostVars
<1> QED BY <1>4, <1>5, <1>6, <1>7, <1>8, <1>9 DEF SlotsNext

\* A save or a load that leaves its slot alone keeps what a call said of it.
LEMMA SavedKept ==
  ASSUME NEW c, UNCHANGED <<files, cut>>, Saved(c)
  PROVE  Saved(c)'
BY DEF Saved

\* What a call waits for, what it was told and what it said, action by action.
LEMMA SlotsRestStep ==
  SlotsInv /\ [SlotsNext]_slotsVars => (Waiting /\ Answered /\ Replied)'
<1> SUFFICES ASSUME SlotsInv, [SlotsNext]_slotsVars
             PROVE (Waiting /\ Answered /\ Replied)'
  OBVIOUS
<1> USE DEF SlotsInv, SlotsRest, Frames, Waiting, Answered, Replied, Idle
<1>1. CASE Call
  <2>1. ASSUME NEW s \in Slots, StateSave(s) PROVE (Waiting /\ Answered /\ Replied)'
    BY <2>1 DEF StateSave, Request, machineVars
  <2>2. ASSUME NEW s \in Slots, StateLoad(s) PROVE (Waiting /\ Answered /\ Replied)'
    BY <2>2 DEF StateLoad, Request, machineVars, ghostVars
  <2>3. CASE UndoStateSave
    BY <2>3 DEF UndoStateSave, machineVars, ghostVars
  <2>4. CASE UndoStateLoad
    BY <2>4 DEF UndoStateLoad, Request, machineVars, ghostVars
  <2>5. CASE QueueRom
    BY <2>5 DEF QueueRom, ghostVars
  <2> QED BY <1>1, <2>1, <2>2, <2>3, <2>4, <2>5 DEF Call
<1>2. CASE Wake
  <2>1. CASE TimeOut
    BY <2>1, SavedKept DEF TimeOut, bridgeVars, machineVars, ghostVars
  <2>2. CASE GoOnLoading
    BY <2>2 DEF GoOnLoading, Request, machineVars, ghostVars
  <2>3. CASE SlotEmpty
    BY <2>3 DEF SlotEmpty, machineVars, ghostVars
  <2>4. CASE Finish
    <3>1. /\ cut' = cut /\ restored' = restored /\ pendingStateOp' = pendingStateOp
          /\ call' = Idle /\ answer' = "none" /\ reply' \in {reply, call}
          /\ call.of # "none" /\ (reply' = call => answer = "ok" \/ reply = call)
      BY <2>4 DEF Finish, ghostVars
    <3>2. reply.of = "none"
      BY <3>1
    <3>3. CASE reply' = reply
      BY <3>1, <3>2, <3>3
    <3>4. CASE answer = "ok" /\ reply' = call
      <4>1. CASE call.of = "undoLoad"
        BY <3>1, <3>4, <4>1
      <4>2. CASE call.of \in {"save", "load"}
        <5>1. files' = files
          BY <2>4, <4>2 DEF Finish
        <5>2. call.of = "save" => Saved(reply)'
          BY <3>1, <3>4, <5>1 DEF Saved
        <5> QED BY <3>1, <3>4, <4>2, <5>1, <5>2
      <4> QED BY <2>4, <4>1, <4>2 DEF Finish
    <3> QED BY <3>1, <3>2, <3>3, <3>4
  <2> QED BY <1>2, <2>1, <2>2, <2>3, <2>4 DEF Wake
<1>3. CASE ServeFrame
  <2>1. CASE TopOfFrame
    BY <2>1 DEF TopOfFrame, bridgeVars, ghostVars, Saved
  <2>2. CASE ServeOp
    <3>1. PICK outcome \in {"ok", "failed"} :
            /\ IF pendingStateOp.save
                 THEN /\ HostSaves(pendingStateOp.file, pendingStateOp.id, outcome)
                      /\ UNCHANGED restored
                 ELSE HostLoads(pendingStateOp.file, outcome) /\ UNCHANGED <<files, cut>>
            /\ answer' = IF call.id = pendingStateOp.id /\ answer = "none"
                           THEN outcome ELSE answer
      BY <2>2 DEF ServeOp
    <3>2. /\ pendingStateOp # Null /\ pendingStateOp' = Null /\ frameAt' = "top"
          /\ UNCHANGED <<bridgeVars, running, pendingRom, drawing, boots, posted, moved>>
      BY <2>2 DEF ServeOp
    <3>3. pendingStateOp.id # 0 /\ pendingStateOp.file \in Files
      BY <3>2 DEF SlotsTypeOK, Requests
    <3>4. Waiting'
      BY <3>1, <3>2, <3>3 DEF bridgeVars
    <3>5. Answered'
      <4>1. answer # "ok"
        BY <3>2
      <4> SUFFICES ASSUME answer' = "ok" PROVE Answered'
        OBVIOUS
      <4>2. /\ call.id = pendingStateOp.id /\ answer = "none" /\ outcome = "ok"
            /\ call.of # "none"
        BY <3>1, <3>3, <4>1
      <4>3. call' = call
        BY <3>2 DEF bridgeVars
      <4>4. CASE call.of = "save"
        <5>1. pendingStateOp.save /\ pendingStateOp.file = call.slot
          BY <3>2, <4>2, <4>4
        <5>2. CASE /\ files' = [files EXCEPT ![call.slot] = [boot |-> running, op |-> call.id]]
                   /\ cut' = cut
          <6>1. files'[call.slot] = [boot |-> running, op |-> call.id]
            BY <3>3, <5>1, <5>2 DEF SlotsTypeOK
          <6>2. running \in 1 .. MaxBoots /\ call.id \in 1 .. MaxOps
            BY <2>2, <3>2, <4>2 DEF SlotsTypeOK, Requests, ServeOp
          <6>3. running >= call.since /\ cut # call.id
            <7>1. cut \in Nat /\ pendingStateOp.id \in Nat /\ call.since \in Nat
              BY <3>2 DEF SlotsTypeOK, Requests, CallsInProgress
            <7> QED BY <3>2, <4>2, <6>2, <7>1 DEF GameOrder, CutMade
          <6>4. Saved(call)'
            BY <4>3, <5>2, <6>1, <6>2, <6>3 DEF Saved, States
          <6> QED BY <3>2, <4>3, <4>4, <6>4
        <5>3. CASE files' = [files EXCEPT ![call.slot] = Torn] /\ cut' = call.id
          <6>1. files'[call.slot] = Torn
            BY <3>3, <5>1, <5>3 DEF SlotsTypeOK
          <6>2. Saved(call)'
            BY <4>3, <5>3, <6>1 DEF Saved
          <6> QED BY <3>2, <4>3, <4>4, <6>2
        <5> QED BY <3>1, <4>2, <5>1, <5>2, <5>3 DEF HostSaves
      <4>5. CASE call.of = "load"
        <5>1. ~pendingStateOp.save /\ pendingStateOp.file = call.slot
          BY <3>2, <4>2, <4>5
        <5>2. restored' = files[call.slot] /\ files' = files
          BY <3>1, <4>2, <5>1 DEF HostLoads
        <5> QED BY <3>2, <4>3, <4>5, <5>2
      <4> QED BY <3>2, <4>3, <4>4, <4>5
    <3>6. Replied'
      BY <3>1, <3>2 DEF bridgeVars
    <3> QED BY <3>4, <3>5, <3>6
  <2>3. CASE NothingToServe
    BY <2>3 DEF NothingToServe, bridgeVars, ghostVars, Saved
  <2> QED BY <1>3, <2>1, <2>2, <2>3 DEF ServeFrame
<1>4. CASE Teardown
  BY <1>4 DEF Teardown, bridgeVars, ghostVars, Saved
<1>5. CASE Foreground
  BY <1>5 DEF Foreground, bridgeVars, ghostVars, Saved
<1>6. CASE Killed
  BY <1>6 DEF Killed, ghostVars
<1>7. CASE UNCHANGED slotsVars
  BY <1>7 DEF slotsVars, bridgeVars, machineVars, ghostVars, Saved
<1> QED BY <1>1, <1>2, <1>3, <1>4, <1>5, <1>6, <1>7 DEF SlotsNext

\* The inductive invariant holds of every behaviour.
THEOREM SlotsInvariant == SlotsSpec => []SlotsInv
<1>1. SlotsInit => SlotsInv
  BY SlotsStart
<1>2. SlotsInv /\ [SlotsNext]_slotsVars => SlotsInv'
  BY SlotsTypeStep, OrderStep, SlotsRestStep DEF SlotsInv, SlotsRest
<1> QED BY <1>1, <1>2, PTL DEF SlotsSpec

----------------------------------------------------------------------------

\* The files, the pending request and the call that waits keep their types.
THEOREM SlotsTypeCorrect == SlotsSpec => []SlotsTypeOK
<1>1. SlotsInv => SlotsTypeOK
  BY DEF SlotsInv
<1> QED BY <1>1, SlotsInvariant, PTL

\* A call that answers "saved" or "loaded" did it, whatever timed out, failed
\* or was served late, unless the last flush of this very save failed
\* (emulator_host.cpp's stateSave, EmulatorFunctions.kt's replies).
THEOREM RepliesAreTrue == SlotsSpec => []RepliesTrue
<1>1. SlotsInv => RepliesTrue
  BY DEF SlotsInv, SlotsRest, Replied, RepliesTrue, Saved
<1> QED BY <1>1, SlotsInvariant, PTL

\* UndoStateSave gives back what the latest save that moved a state away
\* moved, to the slot it was in, and no LoadRom lies in between, whatever
\* fails, File.renameTo included.
THEOREM UndoIsExact == SlotsSpec => []UndoRestores
<1>1. SlotsInit => UndoRestores
  BY DEF SlotsInit, UndoRestores
<1>2. SlotsInv /\ UndoRestores /\ [SlotsNext]_slotsVars => UndoRestores'
  <2> SUFFICES ASSUME SlotsInv, UndoRestores, [SlotsNext]_slotsVars PROVE UndoRestores'
    OBVIOUS
  <2> USE DEF UndoRestores, SlotsInv, SlotsTypeOK, Files
  <2>1. ASSUME NEW s \in Slots, StateSave(s) PROVE UndoRestores'
    BY <2>1 DEF StateSave, MoveAway, machineVars
  <2>2. ASSUME UNCHANGED <<files, undoSaveSlot, moved, boots>> PROVE UndoRestores'
    BY <2>2
  <2>3. CASE UndoStateSave \/ QueueRom \/ Killed
    BY <2>3 DEF UndoStateSave, QueueRom, Killed, machineVars, ghostVars
  <2>4. CASE Finish
    BY <2>4 DEF Finish, machineVars, ghostVars
  <2>5. CASE ServeOp
    BY <2>5 DEF ServeOp, HostSaves, bridgeVars, SlotsRest, Frames
  <2>6. CASE \E s \in Slots : StateLoad(s)
    BY <2>2, <2>6 DEF StateLoad, machineVars, ghostVars
  <2>7. CASE UndoStateLoad \/ TimeOut \/ GoOnLoading \/ SlotEmpty
    BY <2>2, <2>7 DEF UndoStateLoad, TimeOut, GoOnLoading, SlotEmpty, bridgeVars,
                      machineVars, ghostVars
  <2>8. CASE TopOfFrame \/ NothingToServe \/ Teardown \/ Foreground \/ UNCHANGED slotsVars
    BY <2>2, <2>8 DEF TopOfFrame, NothingToServe, Teardown, Foreground, slotsVars,
                      bridgeVars, machineVars, ghostVars
  <2> QED BY <2>1, <2>3, <2>4, <2>5, <2>6, <2>7, <2>8 DEF SlotsNext, Call, Wake, ServeFrame
<1> QED BY <1>1, <1>2, SlotsInvariant, PTL DEF SlotsSpec
=============================================================================
