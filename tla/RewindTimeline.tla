--------------------------- MODULE RewindTimeline ---------------------------
(***************************************************************************)
(* Rewind and run-ahead of EmulatorHost (src/native/host/emulator_host.cpp *)
(* rewindRun, tick, configureRewind, toggleRewind, rewindJump, stateLoad), *)
(* all on the emulation thread.  A snapshot is identified with the moment  *)
(* it was taken: the stretch of play it belongs to (a stretch begins when  *)
(* a game is swapped in or a save state is loaded) and the frames the      *)
(* machine had run.  A loaded state may be any number of frames old; it    *)
(* replaces the present and leaves the history as it is.  Ticks while      *)
(* paused do nothing and are left out.                                     *)
(***************************************************************************)
EXTENDS Naturals, Sequences

CONSTANTS
  Frequency,  \* ticks between captures (10 in the code)
  PerSecond,  \* captures per second of buffer (6)
  Stock,      \* capacity when no buffer size is given (100)
  Seconds,    \* buffer sizes and jumps a caller asks for
  SavedAt,    \* the frames save states were made at
  Fails,      \* the engine calls that may fail
  MaxNow,     \* bound: no new frame is begun later than this
  MaxCalls    \* bound on calls

ASSUME RewindAssumption ==
  /\ Frequency \in Nat \ {0} /\ PerSecond \in Nat \ {0} /\ Stock \in Nat \ {0}
  /\ Seconds \subseteq Nat /\ SavedAt \subseteq Nat
  /\ Fails \subseteq {"serialize", "unserialize"}
  /\ MaxNow \in Nat /\ MaxCalls \in Nat

VARIABLES
  enabled, rewinding, counter, length, history,
  runAhead, fastForward,
  now,      \* the moment the machine is in
  begun,    \* stretches of play begun so far
  calls     \* bound

rewind == <<enabled, rewinding, counter, length, history>>
vars == <<rewind, runAhead, fastForward, now, begun, calls>>

Moment == [stretch : Nat, frame : Nat]

\* s was played before t: in an earlier stretch, or earlier in the same one.
Before(s, t) ==
  \/ s.stretch < t.stretch
  \/ s.stretch = t.stretch /\ s.frame < t.frame

On(s, n) == [s EXCEPT !.frame = @ + n]

Works(call) == IF call \in Fails THEN BOOLEAN ELSE {TRUE}

PlaybackEvery == IF Frequency \div 5 = 0 THEN 1 ELSE Frequency \div 5

Most == {Stock} \cup {s * PerSecond : s \in Seconds \ {0}}

TypeOK ==
  /\ enabled \in BOOLEAN /\ rewinding \in BOOLEAN
  /\ runAhead \in BOOLEAN /\ fastForward \in BOOLEAN
  /\ counter \in 0 .. Frequency
  /\ length \in Most
  /\ history \in Seq(Moment)
  /\ now \in Moment /\ begun \in Nat /\ calls \in 0 .. MaxCalls

Init ==
  /\ enabled = FALSE /\ rewinding = FALSE /\ counter = 0
  /\ length = Stock /\ history = <<>>
  /\ runAhead = FALSE /\ fastForward = FALSE
  /\ now = [stretch |-> 0, frame |-> 0] /\ begun = 0 /\ calls = 0

Newest == history[Len(history)]
Older  == SubSeq(history, 1, Len(history) - 1)

----------------------------------------------------------------------------
(* rewindRun, by case; `base` is the moment the frame will start from.      *)

Off(base) ==
  /\ ~enabled
  /\ base = now
  /\ UNCHANGED <<rewinding, counter, history>>

CountUp(base) ==
  /\ enabled
  /\ \/ ~rewinding /\ counter + 1 < Frequency
     \/ rewinding /\ history # <<>> /\ counter + 1 < PlaybackEvery
  /\ counter' = counter + 1
  /\ base = now
  /\ UNCHANGED <<rewinding, history>>

\* The oldest entry makes room before the capture, which may fail.
Capture(base) ==
  /\ enabled /\ ~rewinding /\ counter + 1 >= Frequency
  /\ counter' = 0
  /\ LET room == IF Len(history) >= length THEN Tail(history) ELSE history IN
     \E ok \in Works("serialize") :
       history' = IF ok THEN Append(room, now) ELSE room
  /\ base = now
  /\ UNCHANGED rewinding

RunDry(base) ==
  /\ enabled /\ rewinding /\ history = <<>>
  /\ rewinding' = FALSE
  /\ counter' = 0
  /\ base = now
  /\ UNCHANGED history

\* Bug: the entry that was played back stays in the history.
StepBackKeeps(base) ==
  /\ enabled /\ rewinding /\ history # <<>> /\ counter + 1 >= PlaybackEvery
  /\ counter' = 0
  /\ base = Newest
  /\ UNCHANGED <<rewinding, history>>

\* The newest entry is restored and gone, whether or not the engine took it.
StepBack(base) ==
  /\ enabled /\ rewinding /\ history # <<>> /\ counter + 1 >= PlaybackEvery
  /\ counter' = 0
  /\ \E ok \in Works("unserialize") : base = IF ok THEN Newest ELSE now
  /\ history' = Older
  /\ rewinding' = (Older # <<>>)

RewindRun(base) ==
  \/ Off(base)
  \/ CountUp(base)
  \/ Capture(base)
  \/ RunDry(base)
  \/ StepBack(base)

\* With run-ahead the frame is run twice and rolled back in between; a state
\* that could not be saved cannot be rolled back to.
Frames(base) ==
  IF runAhead /\ ~rewinding' /\ ~fastForward
    THEN \E saved \in Works("serialize"), restored \in Works("unserialize") :
           now' = On(base, IF saved /\ restored THEN 1 ELSE 2)
    ELSE now' = On(base, 1)

Tick ==
  /\ rewinding \/ now.frame < MaxNow
  /\ \E base \in {now} \cup {history[i] : i \in DOMAIN history} :
       RewindRun(base) /\ Frames(base)
  /\ UNCHANGED <<enabled, length, runAhead, fastForward, begun, calls>>

----------------------------------------------------------------------------
(* Calls *)

Called == calls < MaxCalls /\ calls' = calls + 1

ConfigureRewind(on, seconds) ==
  /\ Called
  /\ enabled' = on
  /\ length' = IF seconds > 0 THEN seconds * PerSecond ELSE Stock
  /\ IF on THEN UNCHANGED <<rewinding, counter, history>>
           ELSE rewinding' = FALSE /\ counter' = 0 /\ history' = <<>>
  /\ UNCHANGED <<runAhead, fastForward, now, begun>>

ToggleRewind ==
  /\ Called
  /\ enabled
  /\ rewinding' = ~rewinding
  /\ counter' = 0
  /\ UNCHANGED <<enabled, length, history, runAhead, fastForward, now, begun>>

\* Where a jump of this many seconds lands.
JumpTo(seconds) ==
  LET back == IF seconds * PerSecond = 0 THEN 1 ELSE seconds * PerSecond IN
  IF Len(history) > back THEN Len(history) - back + 1 ELSE 1

\* Bug: the jump keeps the entries it went back over.
JumpKeeps(seconds) ==
  /\ Called
  /\ enabled /\ history # <<>> /\ seconds > 0
  /\ now' = history[JumpTo(seconds)]
  /\ rewinding' = FALSE /\ counter' = 0
  /\ UNCHANGED <<enabled, length, history, runAhead, fastForward, begun>>

\* A jump the engine refuses changes nothing.
RewindJump(seconds) ==
  /\ Called
  /\ enabled /\ history # <<>> /\ seconds > 0
  /\ now' = history[JumpTo(seconds)]
  /\ history' = SubSeq(history, 1, JumpTo(seconds) - 1)
  /\ rewinding' = FALSE /\ counter' = 0
  /\ UNCHANGED <<enabled, length, runAhead, fastForward, begun>>

SetRunAhead(on) ==
  /\ Called
  /\ runAhead' = on
  /\ UNCHANGED <<rewind, fastForward, now, begun>>

SetFastForward(on) ==
  /\ Called
  /\ fastForward' = on
  /\ UNCHANGED <<rewind, runAhead, now, begun>>

\* A new stretch of play, from a state that many frames old.
BeginAt(frame) ==
  /\ begun' = begun + 1
  /\ now' = [stretch |-> begun + 1, frame |-> frame]

\* unloadGame, then the next game from its first frame.
SwapGame ==
  /\ Called
  /\ rewinding' = FALSE /\ counter' = 0 /\ history' = <<>>
  /\ BeginAt(0)
  /\ UNCHANGED <<enabled, length, runAhead, fastForward>>

\* The timeline is not looked at: the history, and a rewind that is going on,
\* stay as they are.  A load that is refused changes nothing.
StateLoad(frame) ==
  /\ Called
  /\ BeginAt(frame)
  /\ UNCHANGED <<rewind, runAhead, fastForward>>

Next ==
  \/ Tick
  \/ \E on \in BOOLEAN, s \in Seconds : ConfigureRewind(on, s)
  \/ ToggleRewind
  \/ \E s \in Seconds : RewindJump(s)
  \/ \E on \in BOOLEAN : SetRunAhead(on)
  \/ \E on \in BOOLEAN : SetFastForward(on)
  \/ SwapGame
  \/ \E f \in SavedAt : StateLoad(f)

Spec == Init /\ [][Next]_vars

\* The loop keeps ticking.
FairSpec == Spec /\ WF_vars(Tick)

----------------------------------------------------------------------------
(* Properties *)

Ascending == \A i, j \in DOMAIN history : i < j => Before(history[i], history[j])
AllPast   == \A i \in DOMAIN history : Before(history[i], now)

\* Through every mix of capturing, playing back, jumping, loading states and
\* reconfiguring, the history is in the order it was played in and holds only
\* what was played before the present: going back always goes back, further
\* each time.  A loaded state begins a stretch of its own, and going back from
\* it leads to what was played before the load, whatever its frame.
Chronological == Ascending /\ AllPast

\* Rewind goes on only while capture is enabled, and nothing captured before
\* it was turned off is left behind.
NoLeftovers == ~enabled => ~rewinding /\ history = <<>>

\* A capture never grows the history past its capacity.
CaptureWithinCap ==
  [][Len(history') > Len(history) => Len(history') <= length]_vars

\* "Play resumes automatically when history runs out."
RewindEnds == rewinding ~> ~rewinding

Tape == INSTANCE TapeContract WITH
  tape    <- {history[i] : i \in DOMAIN history},
  Strides <- IF Fails = {} THEN {1} ELSE {1, 2}

\* Rewinding keeps the tape contract, state loads and refusals of the engine
\* included; only a preview that cannot be taken back makes a frame two.
KeepsTape == Tape!Contract
=============================================================================
