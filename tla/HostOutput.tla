---------------------------- MODULE HostOutput ----------------------------
(***************************************************************************)
(* What the emulator host puts out: the audio ring and the frame hand-off  *)
(* (src/native/host/emulator_host.cpp), with the boot skip of loadRom that *)
(* runs the engine silently until the game itself starts.                  *)
(*                                                                         *)
(* Three threads meet here.  The render thread boots a game, runs the      *)
(* boot skip, ticks and presents, one thing after the other (step).  The   *)
(* audio pump drains the ring whenever it likes.  An engine with threaded  *)
(* screens hands its picture over from a worker, some time after the tick  *)
(* that rendered it (inFlight); other engines do so inside the tick.       *)
(*                                                                         *)
(* One tick of the engine makes one stereo pair.  Pairs are numbered per   *)
(* game; the floats of pair n are 2n-1 (left) and 2n (right).              *)
(***************************************************************************)
EXTENDS Integers, Sequences

CONSTANTS RingCap,        \* kAudioCap, in floats
          PrerollCap,     \* cap of the boot skip's preroll, in pairs
          Capacities,     \* buffer sizes the pump reads with, in floats
          MaxIntro,       \* the intro loop's guard
          MaxExtra,       \* the listening loop's bound
          MaxHold,        \* the blank-screen loop's bound
          MaxGames,       \* bound: loads
          MaxMade         \* bound: ticks of one game while it plays

\* Both caps are whole pairs and hold the two loud ticks that end a skip; the
\* platforms read into buffers of whole pairs.  The skip listens for a tick at
\* least and holds a blank screen for two (180 and 60 in the code).
ASSUME OutputAssumption ==
  /\ RingCap \in Nat /\ RingCap >= 4 /\ RingCap % 2 = 0
  /\ PrerollCap \in Nat /\ PrerollCap >= 2
  /\ Capacities \subseteq {c \in Nat : c > 0 /\ c % 2 = 0}
  /\ MaxIntro \in Nat
  /\ MaxExtra \in Nat /\ MaxExtra >= 1 /\ MaxHold \in Nat /\ MaxHold >= 2
  /\ MaxGames \in Nat /\ MaxMade \in Nat

VARIABLES step,       \* where the render thread is
          game,       \* the load the engine runs; 0 = nothing booted
          loads,      \* loads so far
          threaded,   \* the engine's screens hand over from a worker
          highpass,   \* the host filters this game's sound
          raw,        \* the host's rawAudio_, as configured
          engineRaw,  \* the engine's own rawAudio toggle
          made,       \* pairs the engine has made since its boot
          ring,       \* audioRing_: <<game, float>>
          heard,      \* number of the last float the pump took from this game
          filtered,   \* last pair the high-pass saw; 0 = hpPrimed_ is false
          discard,    \* bootSkipDiscard_
          videoHold,  \* bootSkipVideoHold_
          count,      \* the running loop's counter (guard, extra, hold)
          loudTicks,  \* loud ticks in a row
          sound,      \* the skip ended on sound
          preroll,    \* pairs buffered while listening
          baseline,   \* game whose picture the skip compares with; 0 = none
          frame,      \* frameBuffer_
          dirty,      \* frameDirty_
          inFlight,   \* picture a screen worker has not delivered yet
          leaked      \* pictures on screen since boot that no play tick drew

audio  == <<ring, heard, filtered>>
video  == <<frame, dirty, inFlight>>
setup  == <<game, loads, threaded, highpass, raw>>
skip   == <<discard, videoHold, count, loudTicks, sound, preroll, baseline>>
vars   == <<step, setup, engineRaw, made, audio, skip, video, leaked>>

\* A picture: whose it is, whether it is blank, whether the boot skip was on
\* when it was drawn, and whether a worker delivers it.
NoFrame == [game |-> 0, blank |-> TRUE, skipped |-> FALSE, late |-> FALSE]
Frames  == [game : 0..MaxGames, blank : BOOLEAN, skipped : BOOLEAN, late : BOOLEAN]
Steps   == {"idle", "ticked", "intro", "baseline", "listen", "replay", "hold"}

Init ==
  /\ step = "idle" /\ game = 0 /\ loads = 0
  /\ threaded = FALSE /\ highpass = FALSE /\ raw = FALSE /\ engineRaw = FALSE
  /\ made = 0 /\ ring = <<>> /\ heard = 0 /\ filtered = 0
  /\ discard = FALSE /\ videoHold = FALSE
  /\ count = 0 /\ loudTicks = 0 /\ sound = FALSE /\ preroll = <<>> /\ baseline = 0
  /\ frame = NoFrame /\ dirty = FALSE /\ inFlight = NoFrame /\ leaked = 0

-----------------------------------------------------------------------------
(* Sound. *)

\* Bug: one element too many is dropped at the cap.
NewestLess(s, n) == IF Len(s) > n THEN SubSeq(s, Len(s) - n + 2, Len(s)) ELSE s

\* The newest n elements of s.
Newest(s, n) == IF Len(s) > n THEN SubSeq(s, Len(s) - n + 1, Len(s)) ELSE s

\* pushAudioFrame of pair n outside a discard: filter, then insert both floats
\* and drop the oldest beyond the cap.
Push(n) ==
  /\ filtered' = IF highpass /\ ~raw THEN n ELSE filtered
  /\ ring' = Newest(ring \o << <<game, 2 * n - 1>>, <<game, 2 * n>> >>, RingCap)
  /\ heard' = heard

\* readAudio by the pump: at most `capacity` floats from the front.
ReadAudio(capacity) ==
  LET n == IF capacity < Len(ring) THEN capacity ELSE Len(ring) IN
  /\ ring # <<>>
  /\ heard' = ring[n][2]
  /\ ring' = SubSeq(ring, n + 1, Len(ring))
  /\ UNCHANGED <<step, setup, engineRaw, made, filtered, skip, video, leaked>>

-----------------------------------------------------------------------------
(* Pictures. *)

\* Bug: the hold withholds nothing.
PushFrameInHold(f) ==
  /\ frame' = f
  /\ dirty' = ~discard

\* pushFrame: the buffer takes the picture; it is to be presented unless the
\* boot skip withholds pictures at this moment.
PushFrame(f) ==
  /\ frame' = f
  /\ dirty' = (~discard /\ ~videoHold)

\* The picture of a tick.  A worker that still holds the picture before
\* delivers that one first.
Render(blank) ==
  LET f == [game |-> game, blank |-> blank, skipped |-> discard \/ videoHold,
            late |-> threaded] IN
  IF threaded
  THEN /\ inFlight' = f
       /\ IF inFlight # NoFrame THEN PushFrame(inFlight) ELSE UNCHANGED <<frame, dirty>>
  ELSE /\ PushFrame(f)
       /\ inFlight' = inFlight

\* A screen worker delivers.
Deliver ==
  /\ inFlight # NoFrame
  /\ PushFrame(inFlight)
  /\ inFlight' = NoFrame
  /\ UNCHANGED <<step, setup, engineRaw, made, audio, skip, leaked>>

-----------------------------------------------------------------------------
(* loadRom. *)

\* Bug: the outgoing game's sound stays in the ring.
KeepOutput ==
  /\ heard' = 0 /\ UNCHANGED <<ring, frame, dirty>>
  /\ inFlight' = NoFrame

\* What unloadGame clears of the output: the ring, not the frame buffer.  The
\* engine's worker is joined, after a last delivery or without.
ClearOutput ==
  /\ ring' = <<>> /\ heard' = 0
  /\ \/ inFlight # NoFrame /\ PushFrame(inFlight)
     \/ UNCHANGED <<frame, dirty>>
  /\ inFlight' = NoFrame

\* The filter will be primed by the first pair it sees.
ResetFilter == filtered' = 0

\* A boot: the filter starts afresh.  Without bootAnimation the skip begins
\* on cleaned sound.
LoadRom(th, hp, r, play) ==
  /\ step = "idle" /\ loads < MaxGames
  /\ ClearOutput
  /\ loads' = loads + 1 /\ game' = loads + 1
  /\ threaded' = th /\ highpass' = hp /\ raw' = r
  /\ engineRaw' = (r /\ play)
  /\ made' = 0 /\ ResetFilter /\ leaked' = 0
  /\ step' = IF play THEN "idle" ELSE "intro"
  /\ count' = 0 /\ loudTicks' = 0 /\ sound' = FALSE /\ preroll' = <<>> /\ baseline' = 0
  /\ UNCHANGED <<discard, videoHold>>

\* A boot that fails leaves nothing running.
LoadRomFails ==
  /\ step = "idle" /\ loads < MaxGames
  /\ ClearOutput
  /\ loads' = loads + 1 /\ game' = 0 /\ made' = 0 /\ ResetFilter /\ leaked' = 0
  /\ UNCHANGED <<step, threaded, highpass, raw, engineRaw, skip>>

\* Bug: the guard starts over where it should end the loop.
IntroTickForever ==
  /\ step = "intro"
  /\ count' = (count % MaxIntro) + 1
  /\ UNCHANGED <<step, setup, engineRaw, made, audio, discard, videoHold, loudTicks,
                 sound, preroll, baseline, video, leaked>>

\* Phase 1: hidden ticks until the boot ROM hands over, which the engine
\* decides, or until the guard.  Hidden ticks put nothing out.
IntroTick ==
  /\ step = "intro" /\ count < MaxIntro
  /\ count' = count + 1
  /\ UNCHANGED <<step, setup, engineRaw, made, audio, discard, videoHold, loudTicks,
                 sound, preroll, baseline, video, leaked>>

\* applyRuntimeToggle("rawAudio", true) when that was configured.
RestoreRaw == engineRaw' = raw

\* The engine was never in an intro: nothing to skip.
NoIntro ==
  /\ step = "intro" /\ count = 0
  /\ step' = "idle" /\ RestoreRaw
  /\ UNCHANGED <<setup, made, audio, skip, video, leaked>>

\* Phase 2 begins: from here the engine's output is discarded; its first
\* tick draws the handoff screen.
IntroOver ==
  /\ step = "intro" /\ count > 0
  /\ step' = "baseline" /\ discard' = TRUE /\ count' = 0
  /\ made' = made + 1
  /\ UNCHANGED <<setup, engineRaw, audio, videoHold, loudTicks, sound, preroll,
                 baseline, leaked>>
  /\ LET f == [game |-> game, blank |-> FALSE, skipped |-> TRUE, late |-> threaded] IN
     IF threaded
     THEN inFlight' = f /\ UNCHANGED <<frame, dirty>>
     ELSE frame' = f /\ dirty' = FALSE /\ UNCHANGED inFlight

\* captureFrame(baseline).  The skip waits for a first picture only while the
\* buffer is empty, and not for ever.
TakeBaseline ==
  /\ step = "baseline"
  /\ step' = "listen" /\ baseline' = frame.game
  /\ UNCHANGED <<setup, engineRaw, made, audio, discard, videoHold, count, loudTicks,
                 sound, preroll, video, leaked>>

\* Bug: only the tick that tripped the guard is buffered.
BufferedLast(n) == <<n>>

\* The preroll with pair n.
Buffered(n) == Newest(Append(preroll, n), PrerollCap)

\* A tick while listening: its pair goes to the preroll, whose oldest fall
\* off.  Two loud ticks in a row are sound.
Listen(loud, blank) ==
  /\ step = "listen" /\ count < MaxExtra
  /\ made' = made + 1 /\ count' = count + 1
  /\ preroll' = Buffered(made + 1)
  /\ loudTicks' = IF loud THEN loudTicks + 1 ELSE 0
  /\ sound' = (loudTicks' >= 2)
  /\ discard' = ~sound'
  /\ step' = IF sound' THEN "replay" ELSE "listen"
  /\ Render(blank)
  /\ UNCHANGED <<setup, engineRaw, audio, videoHold, baseline, leaked>>

\* The listening ends without sound: the pictures decide, which takes a
\* baseline and a picture to compare, or the bound is reached.  What was
\* buffered is not replayed.
ListenOver ==
  /\ step = "listen"
  /\ \/ count = MaxExtra
     \/ count > 0 /\ baseline # 0 /\ frame # NoFrame
  /\ discard' = FALSE /\ step' = "replay" /\ preroll' = <<>>
  /\ UNCHANGED <<setup, engineRaw, made, audio, videoHold, count, loudTicks, sound,
                 baseline, video, leaked>>

\* The buffered pairs go to the ring one by one, the pump reading meanwhile.
Replay ==
  /\ step = "replay" /\ preroll # <<>>
  /\ Push(Head(preroll))
  /\ preroll' = Tail(preroll)
  /\ UNCHANGED <<step, setup, engineRaw, made, discard, videoHold, count, loudTicks,
                 sound, baseline, video, leaked>>

StartHold ==
  /\ step = "replay" /\ preroll = <<>>
  /\ step' = "hold" /\ videoHold' = TRUE /\ count' = 0
  /\ UNCHANGED <<setup, engineRaw, made, audio, discard, loudTicks, sound, preroll,
                 baseline, video, leaked>>

\* A blank screen is ticked past, heard but not shown.
HoldTick(blank) ==
  /\ step = "hold" /\ count < MaxHold
  /\ frame # NoFrame /\ frame.blank
  /\ count' = count + 1 /\ made' = made + 1
  /\ Push(made + 1)
  /\ Render(blank)
  /\ UNCHANGED <<step, setup, engineRaw, discard, videoHold, loudTicks, sound, preroll,
                 baseline, leaked>>

\* The game is on: its picture is shown from the next tick on, and its
\* rawAudio toggle is what was configured.
HoldOver ==
  /\ step = "hold"
  /\ count = MaxHold \/ frame = NoFrame \/ ~frame.blank
  /\ step' = "idle" /\ videoHold' = FALSE /\ RestoreRaw
  /\ UNCHANGED <<setup, made, audio, discard, count, loudTicks, sound, preroll,
                 baseline, video, leaked>>

-----------------------------------------------------------------------------
(* A pass of the frame loop: some ticks, then one present. *)

Tick(blank) ==
  /\ step \in {"idle", "ticked"} /\ game # 0 /\ made < MaxMade
  /\ step' = "ticked" /\ made' = made + 1
  /\ Push(made + 1)
  /\ Render(blank)
  /\ UNCHANGED <<setup, engineRaw, skip, leaked>>

\* withDirtyFrame by the renderer.  The ticks before it do nothing while the
\* host is paused.
Present ==
  /\ step \in {"idle", "ticked"} /\ game # 0
  /\ step' = "idle" /\ dirty' = FALSE
  /\ leaked' = IF dirty /\ (frame.skipped \/ frame.game # game) THEN leaked + 1 ELSE leaked
  /\ UNCHANGED <<setup, engineRaw, made, audio, skip, frame, inFlight>>

-----------------------------------------------------------------------------
\* The statements of the boot skip.
BootSkip ==
  \/ IntroTick \/ NoIntro \/ IntroOver \/ TakeBaseline \/ ListenOver
  \/ Replay \/ StartHold \/ HoldOver
  \/ \E loud, blank \in BOOLEAN : Listen(loud, blank)
  \/ \E blank \in BOOLEAN : HoldTick(blank)

Next ==
  \/ BootSkip
  \/ \E th, hp, r, play \in BOOLEAN : LoadRom(th, hp, r, play)
  \/ LoadRomFails
  \/ \E blank \in BOOLEAN : Tick(blank)
  \/ Present
  \/ Deliver
  \/ \E capacity \in Capacities : ReadAudio(capacity)

Spec == Init /\ [][Next]_vars

\* The statements of loadRom follow one another on the render thread.
FairSpec == Spec /\ WF_vars(BootSkip)

-----------------------------------------------------------------------------
(* Properties. *)

\* The number of the newest pair that went to the ring.
Pushed == IF step = "replay" THEN made - Len(preroll) ELSE made

TypeOK ==
  /\ step \in Steps /\ game \in 0..MaxGames /\ loads \in 0..MaxGames
  /\ threaded \in BOOLEAN /\ highpass \in BOOLEAN /\ raw \in BOOLEAN
  /\ engineRaw \in BOOLEAN
  /\ made \in Nat /\ heard \in Nat /\ filtered \in Nat
  /\ ring \in Seq((0..MaxGames) \X Nat)
  /\ discard \in BOOLEAN /\ videoHold \in BOOLEAN
  /\ count \in Nat /\ loudTicks \in 0..2 /\ sound \in BOOLEAN
  /\ preroll \in Seq(Nat) /\ baseline \in 0..MaxGames
  /\ frame \in Frames /\ dirty \in BOOLEAN /\ inFlight \in Frames /\ leaked \in Nat

\* The ring holds the newest sound of the game that runs and nothing else:
\* consecutive floats up to the last pair pushed, within the cap.  What is lost
\* at the cap is the oldest, and no sound of a game outlives it
\* (pushAudioFrame, unloadGame).
RingIsNewest ==
  /\ Len(ring) <= RingCap
  /\ \A i \in 1..Len(ring) : ring[i] = <<game, 2 * Pushed - Len(ring) + i>>

\* The pump's stream never loses step: the next float it will read is a left
\* one, and comes after all it has heard.  One float dropped or read alone
\* would swap the channels for the rest of the game.
StreamInStep ==
  ring # <<>> => ring[1][2] % 2 = 1 /\ ring[1][2] > heard

\* "Replay, or the skip eats the triggering sound's attack"
\* (emulator_host.cpp:491): when sound ends the skip, both loud ticks are in
\* the ring or already heard before the game runs on.
AttackReplayed ==
  step = "hold" /\ sound /\ count = 0 =>
    \A k \in (2 * made - 3)..(2 * made) :
      k <= heard \/ \E i \in 1..Len(ring) : ring[i] = <<game, k>>

\* Pictures the skip withheld are "never presented" (emulator_host.cpp:1464),
\* nor are those of another game.  Only a worker's late picture can get
\* through, and only one for each boot.
SkipIsHidden ==
  /\ dirty /\ ~frame.late => frame.game = game /\ ~frame.skipped
  /\ leaked <= 1

\* Whatever the skip did, a running game has the rawAudio it was configured with.
RawRestored == step \in {"idle", "ticked"} /\ game # 0 => engineRaw = raw

\* The high-pass never sees a jump: it starts afresh or takes the pair after
\* the one it took last.  A gap or another game's history would be heard.
FilterContinuous ==
  [][filtered' # filtered => filtered = 0 \/ filtered' \in {0, filtered + 1}]_vars

\* Every load comes to an end, the engine that never leaves its intro included.
LoadReturns == step \notin {"idle", "ticked"} ~> step = "idle"
=============================================================================
