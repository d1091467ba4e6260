-------------------------- MODULE HostOutputProofs --------------------------
(***************************************************************************)
(* Proofs about HostOutput, for every cap, loop bound and reader: the ring *)
(* holds the newest sound of the running game in step, the replay keeps    *)
(* the attack that ended a skip, the filter never sees a jump, and a       *)
(* running game has its configured rawAudio.                               *)
(***************************************************************************)
EXTENDS HostOutput, TLAPS, SequenceTheorems

\* The ring with p as the newest pair pushed.
RingUpTo(p) ==
  /\ Len(ring) <= RingCap /\ Len(ring) % 2 = 0
  /\ \A i \in 1..Len(ring) : ring[i] = <<game, 2 * p - Len(ring) + i>>
  /\ heard <= 2 * p - Len(ring)

\* The preroll is the newest run of what the engine made.
PrerollShape ==
  /\ Len(preroll) <= made /\ Len(preroll) <= PrerollCap
  /\ \A i \in 1..Len(preroll) : preroll[i] = made - Len(preroll) + i

\* Nothing is put out before the skip ends, and the preroll exists only
\* while it is filled or replayed.
StepShape ==
  /\ step \in {"intro", "baseline", "listen"} =>
       ring = <<>> /\ heard = 0 /\ filtered = 0 /\ ~sound
  /\ step \notin {"listen", "replay"} => preroll = <<>>
  /\ step \in {"intro", "baseline"} => loudTicks = 0
  /\ step = "listen" => loudTicks <= 1 /\ Len(preroll) >= loudTicks

\* The filter has taken the newest pair pushed, or none.
FilterShape == filtered # 0 => filtered = Pushed /\ highpass /\ ~raw

\* While the attack is replayed nothing of it is lost: all that was pushed is
\* heard or still there, or enough of it is.
AttackShape ==
  sound /\ (step = "replay" \/ (step = "hold" /\ count = 0)) =>
    \/ heard = 2 * Pushed - Len(ring)
    \/ Len(ring) + 2 * Len(preroll) >= 4

OInv ==
  /\ TypeOK /\ RingUpTo(Pushed) /\ PrerollShape /\ StepShape /\ FilterShape
  /\ AttackShape /\ RawRestored
-----------------------------------------------------------------------------
LEMMA Caps == /\ RingCap \in Nat /\ RingCap >= 4 /\ RingCap % 2 = 0
              /\ PrerollCap \in Nat /\ PrerollCap >= 2
  BY OutputAssumption DEF OutputAssumption

LEMMA Readers == \A c \in Capacities : c \in Nat /\ c > 0 /\ c % 2 = 0
  BY OutputAssumption DEF OutputAssumption

LEMMA EvenPlus == \A a \in Nat : a % 2 = 0 => (a + 2) % 2 = 0
  OBVIOUS

LEMMA EvenMinus == \A a \in Nat, b \in Nat :
                     a % 2 = 0 /\ b % 2 = 0 /\ b <= a => (a - b) % 2 = 0
  OBVIOUS

LEMMA OddFirst == \A p \in Nat, a \in Nat : a % 2 = 0 => (2 * p - a + 1) % 2 = 1
  OBVIOUS

LEMMA EmptyLen == Len(<<>>) = 0
  OBVIOUS

LEMMA NewestProperties ==
  ASSUME NEW S, NEW s \in Seq(S), NEW n \in Nat
  PROVE  /\ Newest(s, n) \in Seq(S)
         /\ Len(Newest(s, n)) = IF Len(s) > n THEN n ELSE Len(s)
         /\ \A i \in 1..Len(Newest(s, n)) :
              Newest(s, n)[i] = s[Len(s) - Len(Newest(s, n)) + i]
<1>0. Len(s) \in Nat /\ \A i \in 1..Len(s) : s[i] \in S
  BY ElementOfSeq, LenProperties
<1>1. CASE Len(s) > n
  <2> DEFINE m == Len(s) - n + 1
  <2>1. m \in Int /\ Len(s) \in Int /\ \A i \in m..Len(s) : s[i] \in S
    BY <1>0, <1>1
  <2>2. /\ SubSeq(s, m, Len(s)) \in Seq(S)
        /\ Len(SubSeq(s, m, Len(s))) = IF m <= Len(s) THEN Len(s) - m + 1 ELSE 0
        /\ \A i \in 1..(Len(s) - m + 1) : SubSeq(s, m, Len(s))[i] = s[m + i - 1]
    BY <2>1, SubSeqProperties
  <2>3. Newest(s, n) = SubSeq(s, m, Len(s))
    BY <1>1 DEF Newest
  <2>4. Len(Newest(s, n)) = n
    BY <1>0, <1>1, <2>2, <2>3
  <2>5. ASSUME NEW i \in 1..n PROVE Newest(s, n)[i] = s[Len(s) - n + i]
    <3>1. i \in 1..(Len(s) - m + 1) /\ m + i - 1 = Len(s) - n + i
      BY <1>0
    <3> QED BY <2>2, <2>3, <3>1
  <2> QED BY <1>1, <2>2, <2>3, <2>4, <2>5
<1>2. CASE ~(Len(s) > n)
  BY <1>0, <1>2 DEF Newest
<1> QED BY <1>1, <1>2

\* What a push leaves in the ring.
LEMMA PushKeepsRing ==
  ASSUME TypeOK, NEW p \in Nat, RingUpTo(p), Push(p + 1), game' = game
  PROVE  /\ ring' \in Seq((0..MaxGames) \X Nat)
         /\ heard' = heard
         /\ Len(ring') = IF Len(ring) + 2 > RingCap THEN RingCap ELSE Len(ring) + 2
         /\ RingUpTo(p + 1)'
<1> DEFINE S     == (0..MaxGames) \X Nat
           left  == <<game, 2 * (p + 1) - 1>>
           right == <<game, 2 * (p + 1)>>
           pair  == <<left, right>>
           long  == ring \o pair
<1>1. ring \in Seq(S) /\ Len(ring) \in Nat
  BY LenProperties DEF TypeOK
<1>2. /\ Len(ring) <= RingCap /\ Len(ring) % 2 = 0
      /\ heard \in Nat /\ heard <= 2 * p - Len(ring)
  BY DEF RingUpTo, TypeOK
<1>r. \A i \in 1..Len(ring) : ring[i] = <<game, 2 * p - Len(ring) + i>>
  BY DEF RingUpTo
<1>3. /\ long \in Seq(S) /\ Len(long) = Len(ring) + 2
      /\ \A i \in 1..(Len(ring) + 2) :
           long[i] = IF i <= Len(ring) THEN ring[i] ELSE pair[i - Len(ring)]
  <2>1. game \in 0..MaxGames /\ 2 * (p + 1) - 1 \in Nat /\ 2 * (p + 1) \in Nat
    BY DEF TypeOK
  <2>2. left \in S /\ right \in S
    BY <2>1
  <2> HIDE DEF left, right, S
  <2>3. pair \in Seq(S) /\ Len(pair) = 2
    BY <2>2
  <2> HIDE DEF pair
  <2>4. /\ ring \o pair \in Seq(S)
        /\ Len(ring \o pair) = Len(ring) + Len(pair)
        /\ \A i \in 1 .. Len(ring) + Len(pair) : (ring \o pair)[i] =
             IF i <= Len(ring) THEN ring[i] ELSE pair[i - Len(ring)]
    BY <1>1, <2>3, ConcatProperties
  <2> QED BY <1>1, <2>3, <2>4
<1>4. \A i \in 1..(Len(ring) + 2) : long[i] = <<game, 2 * p - Len(ring) + i>>
  <2> SUFFICES ASSUME NEW i \in 1..(Len(ring) + 2)
               PROVE  long[i] = <<game, 2 * p - Len(ring) + i>>
    OBVIOUS
  <2>0. pair[1] = left /\ pair[2] = right
    OBVIOUS
  <2> HIDE DEF long, pair
  <2>1. CASE i <= Len(ring)
    <3>1. i \in 1..Len(ring) /\ long[i] = ring[i]
      BY <1>1, <1>3, <2>1
    <3> QED BY <1>r, <3>1
  <2>2. CASE i = Len(ring) + 1
    <3>1. i - Len(ring) = 1 /\ ~(i <= Len(ring))
          /\ 2 * p - Len(ring) + i = 2 * (p + 1) - 1
      BY <1>1, <2>2
    <3>2. long[i] = pair[1]
      BY <1>3, <3>1
    <3> QED BY <2>0, <3>1, <3>2
  <2>3. CASE i = Len(ring) + 2
    <3>1. i - Len(ring) = 2 /\ ~(i <= Len(ring))
          /\ 2 * p - Len(ring) + i = 2 * (p + 1)
      BY <1>1, <2>3
    <3>2. long[i] = pair[2]
      BY <1>3, <3>1
    <3> QED BY <2>0, <3>1, <3>2
  <2>4. i <= Len(ring) \/ i = Len(ring) + 1 \/ i = Len(ring) + 2
    <3>1. Len(ring) \in Nat
      BY <1>1
    <3> QED BY <3>1
  <2> QED BY <2>1, <2>2, <2>3, <2>4
<1>5. ring' = Newest(long, RingCap) /\ heard' = heard
  BY DEF Push
<1> HIDE DEF long, pair
<1>6. /\ ring' \in Seq(S)
      /\ Len(ring') = IF Len(long) > RingCap THEN RingCap ELSE Len(long)
      /\ \A i \in 1..Len(ring') : ring'[i] = long[Len(long) - Len(ring') + i]
  BY <1>3, <1>5, NewestProperties, Caps
<1>7. Len(ring') = IF Len(ring) + 2 > RingCap THEN RingCap ELSE Len(ring) + 2
  BY <1>3, <1>6
<1>8. Len(ring') % 2 = 0 /\ Len(ring') <= RingCap /\ Len(ring') <= Len(ring) + 2
      /\ Len(ring') \in Nat
  <2>1. (Len(ring) + 2) % 2 = 0
    BY <1>1, <1>2, EvenPlus
  <2>2. CASE Len(ring) + 2 > RingCap
    BY <1>1, <1>2, <1>7, <2>2, Caps
  <2>3. CASE ~(Len(ring) + 2 > RingCap)
    BY <1>1, <1>2, <1>7, <2>1, <2>3, Caps
  <2> QED BY <2>2, <2>3
<1>s. Len(ring) \in Nat /\ Len(ring') \in Nat /\ Len(ring') <= Len(ring) + 2
  BY <1>1, <1>8
<1>9. ASSUME NEW i \in 1..Len(ring')
      PROVE  ring'[i] = <<game, 2 * (p + 1) - Len(ring') + i>>
  <2>0. Len(long) = Len(ring) + 2
    BY <1>3
  <2>1. Len(long) - Len(ring') + i \in 1..(Len(ring) + 2)
    BY <1>s, <2>0
  <2>2. 2 * p - Len(ring) + (Len(long) - Len(ring') + i) = 2 * (p + 1) - Len(ring') + i
    BY <1>s, <2>0
  <2> QED BY <1>4, <1>6, <2>1, <2>2
<1>10. heard' <= 2 * (p + 1) - Len(ring')
  <2>1. heard \in Nat /\ heard <= 2 * p - Len(ring) /\ heard' = heard
    BY <1>2, <1>5
  <2> QED BY <1>s, <2>1
<1> QED BY <1>5, <1>6, <1>7, <1>8, <1>9, <1>10 DEF RingUpTo

\* What a read leaves in the ring.
LEMMA ReadKeepsRing ==
  ASSUME TypeOK, NEW p \in Nat, RingUpTo(p), NEW capacity \in Capacities,
         ReadAudio(capacity)
  PROVE  /\ ring' \in Seq((0..MaxGames) \X Nat)
         /\ heard' = 2 * p - Len(ring')
         /\ heard' \in Nat
         /\ RingUpTo(p)'
<1> DEFINE S == (0..MaxGames) \X Nat
           n == IF capacity < Len(ring) THEN capacity ELSE Len(ring)
<1>1. ring \in Seq(S) /\ Len(ring) \in Nat /\ ring # <<>> /\ game' = game
  BY LenProperties DEF TypeOK, ReadAudio, setup
<1>2. Len(ring) > 0 /\ \A i \in 1..Len(ring) : ring[i] \in S
  BY <1>1, EmptySeq, ElementOfSeq
<1>r. /\ Len(ring) % 2 = 0 /\ Len(ring) <= RingCap
      /\ \A i \in 1..Len(ring) : ring[i] = <<game, 2 * p - Len(ring) + i>>
      /\ heard \in Nat /\ heard <= 2 * p - Len(ring)
  BY DEF RingUpTo, TypeOK
<1>3. capacity \in Nat /\ capacity > 0 /\ capacity % 2 = 0
  BY Readers
<1>4. n \in 1..Len(ring) /\ n % 2 = 0
  <2>1. CASE capacity < Len(ring)
    BY <1>1, <1>2, <1>3, <2>1
  <2>2. CASE ~(capacity < Len(ring))
    BY <1>1, <1>2, <1>r, <2>2
  <2> QED BY <2>1, <2>2
<1>5. heard' = ring[n][2] /\ ring' = SubSeq(ring, n + 1, Len(ring))
  BY DEF ReadAudio
<1> HIDE DEF n
<1>6. heard' = 2 * p - Len(ring) + n
  BY <1>4, <1>5, <1>r
<1>7. /\ ring' \in Seq(S) /\ Len(ring') = Len(ring) - n
      /\ \A i \in 1..(Len(ring) - n) : ring'[i] = ring[n + i]
  <2>1. n + 1 \in Int /\ Len(ring) \in Int /\ \A i \in (n + 1)..Len(ring) : ring[i] \in S
    BY <1>1, <1>2, <1>4
  <2>2. /\ SubSeq(ring, n + 1, Len(ring)) \in Seq(S)
        /\ Len(SubSeq(ring, n + 1, Len(ring)))
             = IF n + 1 <= Len(ring) THEN Len(ring) - (n + 1) + 1 ELSE 0
        /\ \A i \in 1..(Len(ring) - (n + 1) + 1) :
             SubSeq(ring, n + 1, Len(ring))[i] = ring[n + 1 + i - 1]
    BY <2>1, SubSeqProperties
  <2>3. Len(ring') = Len(ring) - n
    BY <1>1, <1>4, <1>5, <2>2
  <2>4. ASSUME NEW i \in 1..(Len(ring) - n) PROVE ring'[i] = ring[n + i]
    <3>1. i \in 1..(Len(ring) - (n + 1) + 1) /\ n + 1 + i - 1 = n + i
      BY <1>1, <1>4
    <3> QED BY <1>5, <2>2, <3>1
  <2> QED BY <1>5, <2>2, <2>3, <2>4
<1>8. Len(ring') \in Nat /\ Len(ring') % 2 = 0 /\ Len(ring') <= RingCap
  <2>1. n \in Nat /\ n <= Len(ring)
    BY <1>1, <1>4
  <2>2. (Len(ring) - n) % 2 = 0
    BY <1>1, <1>4, <1>r, <2>1, EvenMinus
  <2> QED BY <1>1, <1>7, <1>r, <2>1, <2>2, Caps
<1>9. ASSUME NEW i \in 1..Len(ring')
      PROVE  ring'[i] = <<game, 2 * p - Len(ring') + i>>
  <2>1. n + i \in 1..Len(ring) /\ i \in 1..(Len(ring) - n)
        /\ 2 * p - Len(ring) + (n + i) = 2 * p - Len(ring') + i
    BY <1>1, <1>4, <1>7
  <2> QED BY <1>7, <2>1, <1>r
<1>10. heard' = 2 * p - Len(ring')
  BY <1>1, <1>4, <1>6, <1>7
<1>11. heard' \in Nat
  BY <1>1, <1>4, <1>6, <1>r
<1> QED BY <1>1, <1>7, <1>8, <1>9, <1>10, <1>11 DEF RingUpTo
-----------------------------------------------------------------------------
(* The ring, step by step. *)

LEMMA PushedNat ==
  ASSUME TypeOK, PrerollShape
  PROVE  Pushed \in Nat /\ Len(preroll) \in Nat
BY LenProperties DEF TypeOK, PrerollShape, Pushed

LEMMA RingSame ==
  ASSUME RingUpTo(Pushed), ring' = ring, heard' = heard, game' = game, Pushed' = Pushed
  PROVE  RingUpTo(Pushed)'
BY DEF RingUpTo

LEMMA RingEmpty ==
  ASSUME ring' = <<>>, heard' = 0, Pushed' \in Nat
  PROVE  RingUpTo(Pushed)'
<1>1. Len(ring') = 0
  BY EmptyLen
<1>2. 0 % 2 = 0 /\ 0 <= RingCap
  BY Caps
<1>3. heard' <= 2 * Pushed' - Len(ring')
  <2> DEFINE p == Pushed'
  <2>1. p \in Nat /\ heard' = 0
    OBVIOUS
  <2> HIDE DEF p
  <2>2. 0 <= 2 * p - 0
    BY <2>1
  <2> QED BY <1>1, <2>1, <2>2 DEF p
<1>4. \A i \in 1..Len(ring') : ring'[i] = <<game', 2 * Pushed' - Len(ring') + i>>
  BY <1>1
<1> QED BY <1>1, <1>2, <1>3, <1>4 DEF RingUpTo

\* A push of the pair after the newest one.
LEMMA PushStep ==
  ASSUME TypeOK, PrerollShape, RingUpTo(Pushed), FilterShape,
         Push(Pushed + 1), game' = game, highpass' = highpass, raw' = raw,
         Pushed' = Pushed + 1
  PROVE  /\ ring' \in Seq((0..MaxGames) \X Nat)
         /\ heard' = heard
         /\ filtered' \in Nat
         /\ Len(ring') = IF Len(ring) + 2 > RingCap THEN RingCap ELSE Len(ring) + 2
         /\ RingUpTo(Pushed)'
         /\ FilterShape'
         /\ filtered' # filtered => filtered = 0 \/ filtered' = filtered + 1
<1>1. PICK p \in Nat : p = Pushed
  BY PushedNat
<1>2. RingUpTo(p) /\ Push(p + 1)
  BY <1>1
<1>3. /\ ring' \in Seq((0..MaxGames) \X Nat)
      /\ heard' = heard
      /\ Len(ring') = IF Len(ring) + 2 > RingCap THEN RingCap ELSE Len(ring) + 2
      /\ RingUpTo(p + 1)'
  BY <1>1, <1>2, PushKeepsRing
<1>4. Pushed' = p + 1
  BY <1>1
<1>5. RingUpTo(Pushed)'
  BY <1>3, <1>4 DEF RingUpTo
<1>6. filtered' = IF highpass /\ ~raw THEN p + 1 ELSE filtered
  BY <1>2 DEF Push
<1>7. filtered \in Nat
  BY DEF TypeOK
<1>8. CASE highpass /\ ~raw
  <2>1. filtered' = p + 1
    BY <1>6, <1>8
  <2>2. filtered = 0 \/ filtered = p
    BY <1>1 DEF FilterShape
  <2>3. FilterShape'
    BY <1>4, <1>8, <2>1 DEF FilterShape
  <2> QED BY <1>3, <1>5, <2>1, <2>2, <2>3
<1>9. CASE ~(highpass /\ ~raw)
  <2>1. filtered' = filtered /\ filtered = 0
    BY <1>6, <1>7, <1>9 DEF FilterShape
  <2>2. FilterShape'
    BY <2>1 DEF FilterShape
  <2> QED BY <1>3, <1>5, <1>7, <2>1, <2>2
<1> QED BY <1>8, <1>9

\* A read.
LEMMA ReadStep ==
  ASSUME TypeOK, PrerollShape, RingUpTo(Pushed), NEW capacity \in Capacities,
         ReadAudio(capacity)
  PROVE  /\ ring' \in Seq((0..MaxGames) \X Nat)
         /\ heard' \in Nat
         /\ heard' = 2 * Pushed' - Len(ring')
         /\ RingUpTo(Pushed)'
<1>1. PICK p \in Nat : p = Pushed
  BY PushedNat
<1>2. /\ ring' \in Seq((0..MaxGames) \X Nat)
      /\ heard' = 2 * p - Len(ring')
      /\ heard' \in Nat
      /\ RingUpTo(p)'
  BY <1>1, ReadKeepsRing
<1>3. Pushed' = p
  BY <1>1 DEF Pushed, ReadAudio, skip
<1>4. RingUpTo(Pushed)'
  BY <1>2, <1>3 DEF RingUpTo
<1> QED BY <1>2, <1>3, <1>4

-----------------------------------------------------------------------------
(* Each statement keeps the invariant. *)

LEMMA NoFrameType == NoFrame \in Frames
BY OutputAssumption DEF OutputAssumption, NoFrame, Frames

LEMMA Start == Init => OInv
<1> SUFFICES ASSUME Init PROVE OInv
  OBVIOUS
<1>1. TypeOK
  <2>1. /\ step \in Steps /\ game \in 0..MaxGames /\ loads \in 0..MaxGames
        /\ baseline \in 0..MaxGames
    BY OutputAssumption DEF Init, Steps, OutputAssumption
  <2>2. /\ made \in Nat /\ heard \in Nat /\ filtered \in Nat /\ leaked \in Nat
        /\ count \in Nat /\ loudTicks \in 0..2
    BY DEF Init
  <2>3. ring \in Seq((0..MaxGames) \X Nat) /\ preroll \in Seq(Nat)
    BY DEF Init
  <2>4. /\ threaded \in BOOLEAN /\ highpass \in BOOLEAN /\ raw \in BOOLEAN
        /\ engineRaw \in BOOLEAN /\ discard \in BOOLEAN /\ videoHold \in BOOLEAN
        /\ sound \in BOOLEAN /\ dirty \in BOOLEAN
    BY Zenon DEF Init
  <2>5. frame \in Frames /\ inFlight \in Frames
    BY NoFrameType DEF Init
  <2> QED BY <2>1, <2>2, <2>3, <2>4, <2>5 DEF TypeOK
<1>2. RingUpTo(Pushed)
  BY Caps, EmptyLen DEF Init, RingUpTo, Pushed
<1>3. PrerollShape
  BY Caps, EmptyLen DEF Init, PrerollShape
<1> QED BY <1>1, <1>2, <1>3
        DEF Init, OInv, StepShape, FilterShape, AttackShape, RawRestored

\* What a picture's delivery leaves of the type.
LEMMA PushFrameType ==
  ASSUME TypeOK, NEW f \in Frames, PushFrame(f)
  PROVE  frame' \in Frames /\ dirty' \in BOOLEAN
BY DEF PushFrame

LEMMA RenderType ==
  ASSUME TypeOK, NEW blank \in BOOLEAN, Render(blank)
  PROVE  frame' \in Frames /\ dirty' \in BOOLEAN /\ inFlight' \in Frames
<1> DEFINE f == [game |-> game, blank |-> blank, skipped |-> discard \/ videoHold,
                 late |-> threaded]
<1>1. f \in Frames
  BY DEF TypeOK, Frames
<1> HIDE DEF f
<1>2. CASE threaded
  <2>1. inFlight' = f /\ (PushFrame(inFlight) \/ UNCHANGED <<frame, dirty>>)
    BY <1>2 DEF Render, f
  <2> QED BY <1>1, <2>1, PushFrameType DEF TypeOK
<1>3. CASE ~threaded
  <2>1. PushFrame(f) /\ inFlight' = inFlight
    BY <1>3 DEF Render, f
  <2> QED BY <1>1, <2>1, PushFrameType DEF TypeOK
<1> QED BY <1>2, <1>3

\* A load, whether it boots or fails.
LEMMA ClearType ==
  ASSUME TypeOK, ClearOutput
  PROVE  /\ ring' = <<>> /\ heard' = 0
         /\ frame' \in Frames /\ dirty' \in BOOLEAN /\ inFlight' \in Frames
<1>1. ring' = <<>> /\ heard' = 0 /\ inFlight' = NoFrame
  BY DEF ClearOutput
<1>2. frame \in Frames /\ dirty \in BOOLEAN /\ inFlight \in Frames
  BY DEF TypeOK
<1>3. PushFrame(inFlight) \/ UNCHANGED <<frame, dirty>>
  BY DEF ClearOutput
<1>4. frame' \in Frames /\ dirty' \in BOOLEAN
  BY <1>2, <1>3, PushFrameType
<1> QED BY <1>1, <1>4, NoFrameType

LEMMA LoadStep ==
  ASSUME OInv, NEW th \in BOOLEAN, NEW hp \in BOOLEAN, NEW r \in BOOLEAN,
         NEW play \in BOOLEAN, LoadRom(th, hp, r, play) \/ LoadRomFails
  PROVE  OInv' /\ (filtered' # filtered => filtered' = 0)
<1>0. TypeOK /\ step = "idle" /\ preroll = <<>>
  BY DEF OInv, LoadRom, LoadRomFails, StepShape
<1>1. /\ ring' = <<>> /\ heard' = 0 /\ made' = 0 /\ filtered' = 0
      /\ preroll' = <<>> /\ step' \in {"idle", "intro"}
      /\ frame' \in Frames /\ dirty' \in BOOLEAN /\ inFlight' \in Frames
  BY <1>0, ClearType DEF LoadRom, LoadRomFails, ResetFilter, skip
<1>2. TypeOK'
  <2>1. CASE LoadRomFails
    <3>1. loads' = loads + 1 /\ game' = 0 /\ loads < MaxGames
      BY <2>1 DEF LoadRomFails
    <3>2. loads' \in 0..MaxGames /\ game' \in 0..MaxGames
      BY <1>0, <3>1, OutputAssumption DEF TypeOK, OutputAssumption
    <3>3. /\ threaded' = threaded /\ highpass' = highpass /\ raw' = raw
          /\ engineRaw' = engineRaw /\ sound' = sound
          /\ discard' = discard /\ videoHold' = videoHold /\ count' = count
          /\ loudTicks' = loudTicks /\ baseline' = baseline /\ leaked' = 0
          /\ step' = step
      BY <2>1 DEF LoadRomFails, skip
    <3>4. ring' \in Seq((0..MaxGames) \X Nat) /\ preroll' \in Seq(Nat)
      BY <1>1
    <3> QED BY <1>0, <1>1, <3>2, <3>3, <3>4 DEF TypeOK
  <2>2. CASE LoadRom(th, hp, r, play)
    <3>1. loads' = loads + 1 /\ game' = loads + 1 /\ loads < MaxGames
      BY <2>2 DEF LoadRom
    <3>2. loads' \in 0..MaxGames /\ game' \in 0..MaxGames
      BY <1>0, <3>1, OutputAssumption DEF TypeOK, OutputAssumption
    <3>3. /\ threaded' \in BOOLEAN /\ highpass' \in BOOLEAN /\ raw' \in BOOLEAN
          /\ engineRaw' \in BOOLEAN /\ sound' \in BOOLEAN
      BY <2>2 DEF LoadRom
    <3>4. /\ discard' = discard /\ videoHold' = videoHold /\ count' = 0
          /\ loudTicks' = 0 /\ baseline' = 0 /\ leaked' = 0
      BY <2>2 DEF LoadRom
    <3>5. ring' \in Seq((0..MaxGames) \X Nat) /\ preroll' \in Seq(Nat)
      BY <1>1
    <3>6. baseline' \in 0..MaxGames
      BY <3>4, OutputAssumption DEF OutputAssumption
    <3> QED BY <1>0, <1>1, <3>2, <3>3, <3>4, <3>5, <3>6 DEF TypeOK, Steps
  <2> QED BY <2>1, <2>2
<1>3. Pushed' = 0
  BY <1>1 DEF Pushed
<1>4. RingUpTo(Pushed)'
  BY <1>1, <1>3, RingEmpty
<1>5. PrerollShape'
  BY <1>1, Caps, EmptyLen DEF PrerollShape
<1>6. StepShape'
  BY <1>0, <1>1 DEF StepShape, LoadRom, LoadRomFails, skip
<1>7. FilterShape' /\ AttackShape'
  BY <1>1 DEF FilterShape, AttackShape
<1>8. RawRestored'
  BY <1>0 DEF RawRestored, LoadRom, LoadRomFails
<1> QED BY <1>1, <1>2, <1>4, <1>5, <1>6, <1>7, <1>8 DEF OInv

\* The steps that touch neither the ring nor the preroll.
LEMMA QuietStep ==
  ASSUME OInv,
         IntroTick \/ NoIntro \/ TakeBaseline \/ HoldOver \/ Present \/ Deliver
           \/ UNCHANGED vars
  PROVE  OInv' /\ filtered' = filtered
<1> USE DEF OInv, setup, audio, video, skip, vars
<1>1. /\ ring' = ring /\ heard' = heard /\ filtered' = filtered /\ preroll' = preroll
      /\ made' = made /\ game' = game /\ highpass' = highpass /\ raw' = raw
      /\ sound' = sound /\ loudTicks' = loudTicks
      /\ (step = "replay" <=> step' = "replay")
  BY DEF IntroTick, NoIntro, TakeBaseline, HoldOver, Present, Deliver
<1>2. TypeOK'
  <2>1. CASE IntroTick \/ NoIntro \/ HoldOver
    <3>1. CASE IntroTick
      BY <3>1 DEF IntroTick, TypeOK
    <3>2. CASE NoIntro
      BY <3>2 DEF NoIntro, RestoreRaw, TypeOK, Steps
    <3>3. CASE HoldOver
      BY <3>3 DEF HoldOver, RestoreRaw, TypeOK, Steps
    <3> QED BY <2>1, <3>1, <3>2, <3>3
  <2>2. CASE TakeBaseline
    <3>1. frame.game \in 0..MaxGames
      BY DEF TypeOK, Frames
    <3> QED BY <2>2, <3>1 DEF TakeBaseline, TypeOK, Steps
  <2>3. CASE Present
    <3>1. leaked' \in Nat /\ dirty' \in BOOLEAN /\ step' \in Steps
      <4>1. leaked' = leaked + 1 \/ leaked' = leaked
        BY <2>3 DEF Present
      <4>2. leaked \in Nat
        BY DEF TypeOK
      <4>3. dirty' \in BOOLEAN
        BY <2>3 DEF Present
      <4>4. step' \in Steps
        BY <2>3 DEF Present, Steps
      <4>5. leaked' \in Nat
        BY <4>1, <4>2
      <4> QED BY <4>3, <4>4, <4>5
    <3> QED BY <2>3, <3>1 DEF Present, TypeOK
  <2>4. CASE Deliver
    <3>1. frame' \in Frames /\ dirty' \in BOOLEAN /\ inFlight' \in Frames
      <4>1. inFlight \in Frames /\ PushFrame(inFlight) /\ inFlight' = NoFrame
        BY <2>4 DEF Deliver, TypeOK
      <4> QED BY <4>1, PushFrameType, NoFrameType
    <3> QED BY <2>4, <3>1 DEF Deliver, TypeOK
  <2>5. CASE UNCHANGED vars
    BY <2>5 DEF TypeOK
  <2> QED BY <2>1, <2>2, <2>3, <2>4, <2>5
<1>3. Pushed' = Pushed
  BY <1>1 DEF Pushed
<1>4. RingUpTo(Pushed)' /\ PrerollShape' /\ FilterShape'
  BY <1>1, <1>3, RingSame DEF PrerollShape, FilterShape
<1>5. StepShape'
  BY <1>1 DEF StepShape, IntroTick, NoIntro, TakeBaseline, HoldOver, Present, Deliver, TypeOK
<1>6. AttackShape'
  BY <1>1, <1>3 DEF AttackShape, IntroTick, NoIntro, TakeBaseline, HoldOver, Present, Deliver
<1>7. RawRestored'
  BY DEF RawRestored, IntroTick, NoIntro, TakeBaseline, HoldOver, Present, Deliver, RestoreRaw
<1> QED BY <1>1, <1>2, <1>4, <1>5, <1>6, <1>7

LEMMA IntroOverStep ==
  ASSUME OInv, IntroOver
  PROVE  OInv' /\ filtered' = filtered
<1> DEFINE f == [game |-> game, blank |-> FALSE, skipped |-> TRUE, late |-> threaded]
<1>0. TypeOK /\ ring = <<>> /\ heard = 0 /\ preroll = <<>> /\ loudTicks = 0
  BY DEF OInv, StepShape, IntroOver
<1>1. f \in Frames
  BY <1>0 DEF TypeOK, Frames
<1> HIDE DEF f
<1>2. /\ ring' = <<>> /\ heard' = 0 /\ filtered' = filtered /\ preroll' = <<>>
      /\ step' = "baseline" /\ made' = made + 1 /\ game' = game /\ loudTicks' = 0
      /\ sound' = sound /\ highpass' = highpass /\ raw' = raw /\ engineRaw' = engineRaw
      /\ count' = 0 /\ discard' = TRUE
  BY <1>0 DEF IntroOver, audio, setup
<1>3. frame' \in Frames /\ dirty' \in BOOLEAN /\ inFlight' \in Frames
  BY <1>0, <1>1 DEF IntroOver, TypeOK, f
<1>4. TypeOK'
  BY <1>0, <1>2, <1>3 DEF IntroOver, TypeOK, Steps, setup
<1>5. Pushed' \in Nat
  BY <1>0, <1>2 DEF Pushed, TypeOK
<1>6. RingUpTo(Pushed)'
  BY <1>2, <1>5, RingEmpty
<1>7. PrerollShape'
  BY <1>0, <1>2, Caps, EmptyLen DEF PrerollShape, TypeOK
<1>8. filtered = 0 /\ ~sound
  BY DEF OInv, StepShape, IntroOver
<1>9. StepShape' /\ FilterShape' /\ AttackShape' /\ RawRestored'
  BY <1>2, <1>8 DEF StepShape, FilterShape, AttackShape, RawRestored
<1> QED BY <1>2, <1>4, <1>6, <1>7, <1>9 DEF OInv

\* The preroll after one more pair.
LEMMA BufferedShape ==
  ASSUME TypeOK, PrerollShape, preroll' = Buffered(made + 1), made' = made + 1
  PROVE  /\ preroll' \in Seq(Nat)
         /\ Len(preroll') = IF Len(preroll) + 1 > PrerollCap THEN PrerollCap
                            ELSE Len(preroll) + 1
         /\ PrerollShape'
<1> DEFINE long == Append(preroll, made + 1)
<1>1. preroll \in Seq(Nat) /\ Len(preroll) \in Nat /\ made \in Nat /\ made + 1 \in Nat
  BY LenProperties DEF TypeOK
<1>2. Len(preroll) <= made /\ \A i \in 1..Len(preroll) : preroll[i] = made - Len(preroll) + i
  BY DEF PrerollShape
<1>3. /\ long \in Seq(Nat) /\ Len(long) = Len(preroll) + 1
      /\ \A i \in 1..Len(preroll) : long[i] = preroll[i]
      /\ long[Len(preroll) + 1] = made + 1
  BY <1>1, AppendProperties
<1>4. preroll' = Newest(long, PrerollCap)
  BY DEF Buffered
<1> HIDE DEF long
<1>5. /\ preroll' \in Seq(Nat)
      /\ Len(preroll') = IF Len(long) > PrerollCap THEN PrerollCap ELSE Len(long)
      /\ \A i \in 1..Len(preroll') : preroll'[i] = long[Len(long) - Len(preroll') + i]
  <2>1. PrerollCap \in Nat /\ long \in Seq(Nat)
    BY <1>3, Caps
  <2>2. /\ Newest(long, PrerollCap) \in Seq(Nat)
        /\ Len(Newest(long, PrerollCap)) = IF Len(long) > PrerollCap THEN PrerollCap ELSE Len(long)
        /\ \A i \in 1..Len(Newest(long, PrerollCap)) :
             Newest(long, PrerollCap)[i] = long[Len(long) - Len(Newest(long, PrerollCap)) + i]
    BY <2>1, NewestProperties
  <2> QED BY <1>4, <2>2
<1>6. Len(preroll') = IF Len(preroll) + 1 > PrerollCap THEN PrerollCap ELSE Len(preroll) + 1
  BY <1>3, <1>5
<1>7. Len(preroll') \in Nat /\ Len(preroll') <= PrerollCap /\ Len(preroll') <= Len(preroll) + 1
  BY <1>1, <1>6, Caps
<1>8. ASSUME NEW i \in 1..Len(preroll')
      PROVE  preroll'[i] = made + 1 - Len(preroll') + i
  <2> DEFINE j == Len(long) - Len(preroll') + i
  <2>1. j \in 1..(Len(preroll) + 1) /\ j = Len(preroll) + 1 - Len(preroll') + i
    BY <1>1, <1>3, <1>7
  <2>2. preroll'[i] = long[j]
    BY <1>5
  <2> HIDE DEF j
  <2>3. CASE j = Len(preroll) + 1
    BY <1>1, <1>3, <1>7, <2>1, <2>2, <2>3
  <2>4. CASE j # Len(preroll) + 1
    <3>1. j \in 1..Len(preroll)
      BY <1>1, <2>1, <2>4
    <3>2. preroll'[i] = made - Len(preroll) + j
      BY <1>2, <1>3, <2>2, <3>1
    <3> QED BY <1>1, <1>7, <2>1, <3>2
  <2> QED BY <2>3, <2>4
<1>9. Len(preroll') <= made'
  BY <1>1, <1>2, <1>7
<1>10. PrerollShape'
  <2>1. \A i \in 1..Len(preroll') : preroll'[i] = made' - Len(preroll') + i
    <3> SUFFICES ASSUME NEW i \in 1..Len(preroll')
                 PROVE  preroll'[i] = made' - Len(preroll') + i
      OBVIOUS
    <3>1. preroll'[i] = made + 1 - Len(preroll') + i
      BY <1>8
    <3>2. made' = made + 1 /\ made \in Nat /\ Len(preroll') \in Nat /\ i \in Nat
      BY <1>1, <1>7
    <3>3. made + 1 - Len(preroll') + i = made' - Len(preroll') + i
      BY <3>2
    <3> QED BY <3>1, <3>3
  <2> QED BY <1>7, <1>9, <2>1 DEF PrerollShape
<1> QED BY <1>5, <1>6, <1>10

LEMMA ListenStep ==
  ASSUME OInv, NEW loud \in BOOLEAN, NEW blank \in BOOLEAN, Listen(loud, blank)
  PROVE  OInv' /\ filtered' = filtered
<1>0. /\ TypeOK /\ PrerollShape /\ ring = <<>> /\ heard = 0 /\ filtered = 0 /\ ~sound
      /\ loudTicks \in 0..1 /\ Len(preroll) >= loudTicks /\ Len(preroll) \in Nat
  BY PushedNat DEF OInv, StepShape, Listen, TypeOK
<1>1. /\ ring' = <<>> /\ heard' = 0 /\ filtered' = 0 /\ made' = made + 1
      /\ game' = game /\ loads' = loads /\ threaded' = threaded
      /\ highpass' = highpass /\ raw' = raw /\ engineRaw' = engineRaw
      /\ videoHold' = videoHold /\ baseline' = baseline /\ leaked' = leaked
      /\ count' = count + 1
  BY <1>0 DEF Listen, audio, setup
<1>2. /\ preroll' \in Seq(Nat) /\ PrerollShape'
      /\ Len(preroll') = IF Len(preroll) + 1 > PrerollCap THEN PrerollCap
                         ELSE Len(preroll) + 1
  BY <1>0, BufferedShape DEF Listen
<1>3. frame' \in Frames /\ dirty' \in BOOLEAN /\ inFlight' \in Frames
  BY <1>0, RenderType DEF Listen
<1>4. /\ loudTicks' = (IF loud THEN loudTicks + 1 ELSE 0)
      /\ sound' = (loudTicks' >= 2) /\ discard' = ~sound'
      /\ step' = IF sound' THEN "replay" ELSE "listen"
  BY DEF Listen
<1>5. loudTicks' \in 0..2 /\ Len(preroll') >= loudTicks' /\ Len(preroll') \in Nat
  BY <1>0, <1>2, <1>4, Caps
<1>6. step' \in {"replay", "listen"} /\ (step' = "replay" <=> sound')
      /\ (sound' <=> loudTicks' >= 2)
  BY <1>4
<1>7. TypeOK'
  <2>1. sound' \in BOOLEAN /\ discard' \in BOOLEAN
    BY <1>4
  <2>2. made' \in Nat /\ count' \in Nat
    BY <1>0, <1>1 DEF TypeOK
  <2>3. ring' \in Seq((0..MaxGames) \X Nat)
    BY <1>1
  <2> QED BY <1>0, <1>1, <1>2, <1>3, <1>5, <1>6, <2>1, <2>2, <2>3 DEF TypeOK, Steps
<1>8. Pushed' \in Nat
  BY <1>2, <1>7, PushedNat DEF Pushed, PrerollShape, TypeOK
<1>9. RingUpTo(Pushed)'
  BY <1>1, <1>8, RingEmpty
<1>10. StepShape'
  <2>1. CASE sound'
    BY <1>6, <2>1 DEF StepShape
  <2>2. CASE ~sound'
    BY <1>1, <1>5, <1>6, <2>2 DEF StepShape
  <2> QED BY <2>1, <2>2
<1>11. AttackShape'
  <2> SUFFICES ASSUME sound' PROVE Len(ring') + 2 * Len(preroll') >= 4
    BY DEF AttackShape
  <2>1. Len(preroll') >= 2 /\ Len(ring') = 0
    BY <1>1, <1>5, <1>6, EmptyLen
  <2> QED BY <1>5, <2>1
<1>12. FilterShape' /\ RawRestored'
  BY <1>1, <1>6 DEF FilterShape, RawRestored
<1> QED BY <1>0, <1>1, <1>2, <1>7, <1>9, <1>10, <1>11, <1>12 DEF OInv

LEMMA ListenOverStep ==
  ASSUME OInv, ListenOver
  PROVE  OInv' /\ filtered' = filtered
<1>0. TypeOK /\ ring = <<>> /\ heard = 0 /\ filtered = 0 /\ ~sound
  BY DEF OInv, StepShape, ListenOver
<1>1. /\ ring' = <<>> /\ heard' = 0 /\ filtered' = 0 /\ preroll' = <<>>
      /\ step' = "replay" /\ made' = made /\ sound' = sound /\ discard' = FALSE
  BY <1>0 DEF ListenOver, audio
<1>2. TypeOK'
  <2>1. ring' \in Seq((0..MaxGames) \X Nat) /\ preroll' \in Seq(Nat)
    BY <1>1
  <2>2. /\ game' = game /\ loads' = loads /\ threaded' = threaded
        /\ highpass' = highpass /\ raw' = raw /\ engineRaw' = engineRaw
        /\ videoHold' = videoHold /\ count' = count /\ loudTicks' = loudTicks
        /\ baseline' = baseline /\ leaked' = leaked
        /\ frame' = frame /\ dirty' = dirty /\ inFlight' = inFlight
    BY DEF ListenOver, setup, video
  <2> QED BY <1>0, <1>1, <2>1, <2>2 DEF TypeOK, Steps
<1>3. Pushed' \in Nat
  BY <1>0, <1>1, EmptyLen DEF Pushed, TypeOK
<1>4. RingUpTo(Pushed)'
  BY <1>1, <1>3, RingEmpty
<1>5. PrerollShape'
  BY <1>0, <1>1, Caps, EmptyLen DEF PrerollShape, TypeOK
<1>6. StepShape' /\ FilterShape' /\ AttackShape' /\ RawRestored'
  BY <1>0, <1>1 DEF StepShape, FilterShape, AttackShape, RawRestored
<1> QED BY <1>0, <1>1, <1>2, <1>4, <1>5, <1>6 DEF OInv

LEMMA ReplayStep ==
  ASSUME OInv, Replay
  PROVE  OInv' /\ (filtered' # filtered => filtered = 0 \/ filtered' = filtered + 1)
<1>0. TypeOK /\ PrerollShape /\ RingUpTo(Pushed) /\ FilterShape /\ step = "replay"
      /\ preroll # <<>>
  BY DEF OInv, Replay
<1>1. preroll \in Seq(Nat) /\ Len(preroll) \in Nat /\ made \in Nat
      /\ Len(preroll) <= made /\ Len(preroll) <= PrerollCap
      /\ \A i \in 1..Len(preroll) : preroll[i] = made - Len(preroll) + i
  BY <1>0, LenProperties DEF TypeOK, PrerollShape
<1>2. Len(preroll) > 0
  BY <1>0, <1>1, EmptySeq
<1>3. /\ Tail(preroll) \in Seq(Nat) /\ Len(Tail(preroll)) = Len(preroll) - 1
      /\ \A i \in 1..Len(Tail(preroll)) : Tail(preroll)[i] = preroll[i + 1]
      /\ Head(preroll) = preroll[1]
  BY <1>0, <1>1, HeadTailProperties
<1>4. preroll' = Tail(preroll) /\ step' = "replay" /\ made' = made
      /\ game' = game /\ highpass' = highpass /\ raw' = raw /\ sound' = sound
  BY <1>0 DEF Replay, setup
<1>5. Pushed = made - Len(preroll) /\ Pushed' = made - (Len(preroll) - 1)
  BY <1>0, <1>3, <1>4 DEF Pushed
<1>6. Head(preroll) = Pushed + 1 /\ Pushed' = Pushed + 1
  BY <1>1, <1>2, <1>3, <1>5
<1>7. Push(Pushed + 1)
  BY <1>6 DEF Replay
<1>8. /\ ring' \in Seq((0..MaxGames) \X Nat)
      /\ heard' = heard
      /\ filtered' \in Nat
      /\ Len(ring') = IF Len(ring) + 2 > RingCap THEN RingCap ELSE Len(ring) + 2
      /\ RingUpTo(Pushed)'
      /\ FilterShape'
      /\ filtered' # filtered => filtered = 0 \/ filtered' = filtered + 1
  BY <1>0, <1>4, <1>6, <1>7, PushStep
<1>9. TypeOK'
  BY <1>0, <1>3, <1>4, <1>8 DEF TypeOK, Replay, setup, video
<1>10. PrerollShape'
  <2>1. \A i \in 1..Len(preroll') : preroll'[i] = made' - Len(preroll') + i
    <3> SUFFICES ASSUME NEW i \in 1..Len(preroll')
                 PROVE  preroll'[i] = made' - Len(preroll') + i
      OBVIOUS
    <3>1. i + 1 \in 1..Len(preroll) /\ made - Len(preroll) + (i + 1) = made' - Len(preroll') + i
      BY <1>1, <1>2, <1>3, <1>4
    <3> QED BY <1>1, <1>3, <1>4, <3>1
  <2>2. Len(preroll') <= made' /\ Len(preroll') <= PrerollCap
    BY <1>1, <1>3, <1>4, Caps
  <2> QED BY <2>1, <2>2 DEF PrerollShape
<1>11. StepShape' /\ RawRestored'
  BY <1>4 DEF StepShape, RawRestored
<1>12. AttackShape'
  <2> SUFFICES ASSUME sound'
               PROVE  heard' = 2 * Pushed' - Len(ring') \/ Len(ring') + 2 * Len(preroll') >= 4
    BY DEF AttackShape
  <2>1. heard = 2 * Pushed - Len(ring) \/ Len(ring) + 2 * Len(preroll) >= 4
    BY <1>0, <1>4 DEF OInv, AttackShape
  <2>2. Len(ring) \in Nat /\ heard \in Nat /\ Pushed \in Nat
    BY <1>0, LenProperties, PushedNat DEF TypeOK
  <2>3. Len(preroll') = Len(preroll) - 1 /\ Pushed' = Pushed + 1
    BY <1>3, <1>4, <1>6
  <2>4. CASE Len(ring) + 2 > RingCap
    BY <1>1, <1>2, <1>8, <2>3, <2>4, Caps
  <2>5. CASE ~(Len(ring) + 2 > RingCap)
    <3>1. Len(ring') = Len(ring) + 2 /\ heard' = heard
      BY <1>8, <2>5
    <3> QED BY <1>1, <2>1, <2>2, <2>3, <3>1
  <2> QED BY <2>4, <2>5
<1> QED BY <1>8, <1>9, <1>10, <1>11, <1>12 DEF OInv

LEMMA StartHoldStep ==
  ASSUME OInv, StartHold
  PROVE  OInv' /\ filtered' = filtered
<1>0. TypeOK /\ step = "replay" /\ preroll = <<>> /\ made \in Nat
  BY DEF OInv, StartHold, TypeOK
<1>1. /\ ring' = ring /\ heard' = heard /\ filtered' = filtered /\ preroll' = preroll
      /\ step' = "hold" /\ made' = made /\ sound' = sound /\ game' = game
      /\ highpass' = highpass /\ raw' = raw /\ engineRaw' = engineRaw
  BY DEF StartHold, audio, setup
<1>2. TypeOK'
  <2>1. /\ loads' = loads /\ threaded' = threaded /\ discard' = discard
        /\ videoHold' = TRUE /\ count' = 0 /\ loudTicks' = loudTicks
        /\ baseline' = baseline /\ leaked' = leaked
        /\ frame' = frame /\ dirty' = dirty /\ inFlight' = inFlight
    BY DEF StartHold, setup, video
  <2> QED BY <1>0, <1>1, <2>1 DEF TypeOK, Steps
<1>3. Pushed' = Pushed
  BY <1>0, <1>1, EmptyLen DEF Pushed
<1>4. RingUpTo(Pushed)' /\ PrerollShape' /\ FilterShape'
  BY <1>1, <1>3, RingSame DEF OInv, PrerollShape, FilterShape
<1>5. StepShape' /\ RawRestored'
  BY <1>0, <1>1 DEF StepShape, RawRestored
<1>6. AttackShape'
  BY <1>0, <1>1, <1>3 DEF OInv, AttackShape
<1> QED BY <1>1, <1>2, <1>4, <1>5, <1>6 DEF OInv

\* A tick that is heard: in the hold, or as the game plays.
LEMMA TickStep ==
  ASSUME OInv, NEW blank \in BOOLEAN, HoldTick(blank) \/ Tick(blank)
  PROVE  OInv' /\ (filtered' # filtered => filtered = 0 \/ filtered' = filtered + 1)
<1>0. /\ TypeOK /\ PrerollShape /\ RingUpTo(Pushed) /\ FilterShape
      /\ step \in {"hold", "idle", "ticked"} /\ preroll = <<>> /\ made \in Nat
  BY DEF OInv, StepShape, HoldTick, Tick, TypeOK
<1>1. /\ preroll' = preroll /\ made' = made + 1 /\ game' = game /\ highpass' = highpass
      /\ raw' = raw /\ engineRaw' = engineRaw /\ sound' = sound
      /\ Push(made + 1) /\ Render(blank) /\ loads' = loads /\ threaded' = threaded
      /\ discard' = discard /\ videoHold' = videoHold /\ loudTicks' = loudTicks
      /\ baseline' = baseline /\ leaked' = leaked
  BY DEF HoldTick, Tick, setup, skip
<1>2. /\ step = "hold" => step' = "hold" /\ count' = count + 1
      /\ step # "hold" => step' = "ticked" /\ count' = count
  BY DEF HoldTick, Tick, skip
<1>3. step' \in {"hold", "ticked"}
  BY <1>0, <1>2
<1>4. Pushed = made /\ Pushed' = made + 1
  BY <1>0, <1>1, <1>3 DEF Pushed
<1>5. /\ ring' \in Seq((0..MaxGames) \X Nat)
      /\ heard' = heard
      /\ filtered' \in Nat
      /\ RingUpTo(Pushed)'
      /\ FilterShape'
      /\ filtered' # filtered => filtered = 0 \/ filtered' = filtered + 1
  BY <1>0, <1>1, <1>4, PushStep
<1>6. frame' \in Frames /\ dirty' \in BOOLEAN /\ inFlight' \in Frames
  BY <1>0, <1>1, RenderType
<1>7. TypeOK'
  <2>1. made' \in Nat /\ count' \in Nat /\ step' \in Steps
    BY <1>0, <1>1, <1>2, <1>3 DEF TypeOK, Steps
  <2> QED BY <1>0, <1>1, <1>5, <1>6, <2>1 DEF TypeOK
<1>8. PrerollShape'
  BY <1>0, <1>1, Caps, EmptyLen DEF PrerollShape
<1>9. StepShape'
  BY <1>0, <1>1, <1>3 DEF StepShape
<1>10. AttackShape'
  <2>1. step' = "hold" => count' # 0
    <3>1. count \in Nat
      BY <1>0 DEF TypeOK
    <3> QED BY <1>0, <1>2, <3>1
  <2> QED BY <1>3, <2>1 DEF AttackShape
<1>11. RawRestored'
  BY <1>0, <1>1, <1>2 DEF OInv, RawRestored
<1> QED BY <1>5, <1>7, <1>8, <1>9, <1>10, <1>11 DEF OInv

LEMMA ReadAudioStep ==
  ASSUME OInv, NEW capacity \in Capacities, ReadAudio(capacity)
  PROVE  OInv' /\ filtered' = filtered
<1>0. TypeOK /\ PrerollShape /\ RingUpTo(Pushed) /\ ring # <<>>
  BY DEF OInv, ReadAudio
<1>1. /\ step' = step /\ game' = game /\ loads' = loads /\ threaded' = threaded
      /\ highpass' = highpass /\ raw' = raw /\ engineRaw' = engineRaw /\ made' = made
      /\ filtered' = filtered /\ discard' = discard /\ videoHold' = videoHold
      /\ count' = count /\ loudTicks' = loudTicks /\ sound' = sound
      /\ preroll' = preroll /\ baseline' = baseline
      /\ frame' = frame /\ dirty' = dirty /\ inFlight' = inFlight /\ leaked' = leaked
  BY DEF ReadAudio, setup, skip, video
<1>2. /\ ring' \in Seq((0..MaxGames) \X Nat)
      /\ heard' \in Nat
      /\ heard' = 2 * Pushed' - Len(ring')
      /\ RingUpTo(Pushed)'
  BY <1>0, ReadStep
<1>3. TypeOK'
  BY <1>0, <1>1, <1>2 DEF TypeOK
<1>4. Pushed' = Pushed
  BY <1>1 DEF Pushed
<1>5. PrerollShape' /\ FilterShape' /\ RawRestored'
  BY <1>1, <1>4 DEF OInv, PrerollShape, FilterShape, RawRestored
<1>6. StepShape'
  BY <1>0, <1>1 DEF OInv, StepShape
<1>7. AttackShape'
  BY <1>2 DEF AttackShape
<1> QED BY <1>1, <1>2, <1>3, <1>5, <1>6, <1>7 DEF OInv

-----------------------------------------------------------------------------
(* The theorems. *)

\* A step of the system keeps the invariant, and the filter sees no jump.
LEMMA Step ==
  ASSUME OInv, [Next]_vars
  PROVE  /\ OInv'
         /\ filtered' # filtered => filtered = 0 \/ filtered' \in {0, filtered + 1}
<1>1. CASE BootSkip
  <2>1. CASE IntroTick \/ NoIntro \/ TakeBaseline \/ HoldOver
    BY <2>1, QuietStep
  <2>2. CASE IntroOver
    BY <2>2, IntroOverStep
  <2>3. CASE ListenOver
    BY <2>3, ListenOverStep
  <2>4. CASE Replay
    BY <2>4, ReplayStep
  <2>5. CASE StartHold
    BY <2>5, StartHoldStep
  <2>6. CASE \E loud, blank \in BOOLEAN : Listen(loud, blank)
    BY <2>6, ListenStep
  <2>7. CASE \E blank \in BOOLEAN : HoldTick(blank)
    BY <2>7, TickStep
  <2> QED BY <1>1, <2>1, <2>2, <2>3, <2>4, <2>5, <2>6, <2>7 DEF BootSkip
<1>2. CASE \E th, hp, r, play \in BOOLEAN : LoadRom(th, hp, r, play)
  <2> PICK th, hp, r, play \in BOOLEAN : LoadRom(th, hp, r, play)
    BY <1>2
  <2> QED BY LoadStep
<1>3. CASE LoadRomFails
  <2>1. TRUE \in BOOLEAN
    OBVIOUS
  <2> QED BY <1>3, <2>1, LoadStep
<1>4. CASE \E blank \in BOOLEAN : Tick(blank)
  BY <1>4, TickStep
<1>5. CASE Present \/ Deliver \/ UNCHANGED vars
  BY <1>5, QuietStep
<1>6. CASE \E capacity \in Capacities : ReadAudio(capacity)
  BY <1>6, ReadAudioStep
<1> QED BY <1>1, <1>2, <1>3, <1>4, <1>5, <1>6 DEF Next

THEOREM OutputInvariant == Spec => []OInv
<1>1. OInv /\ [Next]_vars => OInv'
  BY Step
<1> QED BY Start, <1>1, PTL DEF Spec

\* Every variable stays in its type.
THEOREM TypeCorrect == Spec => []TypeOK
<1>1. OInv => TypeOK
  BY DEF OInv
<1> QED BY OutputInvariant, <1>1, PTL

\* At every moment the ring holds the newest sound of the running game and
\* nothing else (pushAudioFrame, readAudio, unloadGame), for every cap.
THEOREM RingKeepsNewest == Spec => []RingIsNewest
<1>1. OInv => RingIsNewest
  BY DEF OInv, RingUpTo, RingIsNewest
<1> QED BY OutputInvariant, <1>1, PTL

\* The pump's stream never swaps its channels nor repeats a float, whatever
\* is dropped at the cap and however the reads fall.
THEOREM StreamStaysInStep == Spec => []StreamInStep
<1>1. ASSUME OInv, ring # <<>> PROVE ring[1][2] % 2 = 1 /\ ring[1][2] > heard
  <2>1. /\ Len(ring) \in Nat /\ Len(ring) > 0 /\ heard \in Nat
        /\ ring \in Seq((0..MaxGames) \X Nat)
    BY <1>1, LenProperties, EmptySeq DEF OInv, TypeOK
  <2>2. PICK p \in Nat : p = Pushed
    BY <1>1, PushedNat DEF OInv
  <2>3. /\ Len(ring) % 2 = 0 /\ heard <= 2 * p - Len(ring)
        /\ \A i \in 1..Len(ring) : ring[i] = <<game, 2 * p - Len(ring) + i>>
    BY <1>1, <2>2 DEF OInv, RingUpTo
  <2>4. ring[1] = <<game, 2 * p - Len(ring) + 1>>
    <3>1. 1 \in 1..Len(ring)
      BY <2>1
    <3> QED BY <2>3, <3>1
  <2>5. ring[1][2] = 2 * p - Len(ring) + 1
    BY <2>4
  <2>6. (2 * p - Len(ring) + 1) % 2 = 1
    BY <2>1, <2>3, OddFirst
  <2>7. 2 * p - Len(ring) + 1 > heard
    BY <2>1, <2>2, <2>3
  <2> QED BY <2>5, <2>6, <2>7
<1>2. OInv => StreamInStep
  BY <1>1 DEF StreamInStep
<1> QED BY OutputInvariant, <1>2, PTL

\* When sound ends the skip, both loud ticks reach the ring before the game
\* runs on, whatever the caps (of two ticks at least) and the pump's reads.
THEOREM AttackIsReplayed == Spec => []AttackReplayed
<1>1. ASSUME OInv, step = "hold", sound, count = 0,
             NEW k \in (2 * made - 3)..(2 * made)
      PROVE  k <= heard \/ \E i \in 1..Len(ring) : ring[i] = <<game, k>>
  <2>1. /\ Len(ring) \in Nat /\ heard \in Nat /\ made \in Nat
        /\ preroll = <<>> /\ Pushed = made
    BY <1>1, LenProperties DEF OInv, TypeOK, StepShape, Pushed
  <2>2. \A i \in 1..Len(ring) : ring[i] = <<game, 2 * made - Len(ring) + i>>
    BY <1>1, <2>1 DEF OInv, RingUpTo
  <2>3. heard = 2 * made - Len(ring) \/ Len(ring) >= 4
    <3>1. heard = 2 * Pushed - Len(ring) \/ Len(ring) + 2 * Len(preroll) >= 4
      BY <1>1 DEF OInv, AttackShape
    <3>2. Len(preroll) = 0
      BY <2>1, EmptyLen
    <3> QED BY <2>1, <3>1, <3>2
  <2>4. CASE k <= heard
    BY <2>4
  <2>5. CASE ~(k <= heard)
    <3> DEFINE i == k - 2 * made + Len(ring)
    <3>1. i \in 1..Len(ring) /\ 2 * made - Len(ring) + i = k
      BY <2>1, <2>3, <2>5
    <3>2. ring[i] = <<game, 2 * made - Len(ring) + i>>
      BY <2>2, <3>1
    <3>3. ring[i] = <<game, k>>
      BY <3>1, <3>2
    <3> QED BY <3>1, <3>3
  <2> QED BY <2>4, <2>5
<1>2. OInv => AttackReplayed
  BY <1>1 DEF AttackReplayed
<1> QED BY OutputInvariant, <1>2, PTL

\* No skip leaves a running game with the cleaned sound it did not ask for.
THEOREM RawIsRestored == Spec => []RawRestored
<1>1. OInv => RawRestored
  BY DEF OInv
<1> QED BY OutputInvariant, <1>1, PTL

\* The high-pass sees an unbroken run of each game's sound, through every
\* skip and replay.
THEOREM FilterIsContinuous == Spec => FilterContinuous
<1>1. OInv /\ [Next]_vars =>
        [filtered' # filtered => filtered = 0 \/ filtered' \in {0, filtered + 1}]_vars
  BY Step
<1> QED BY OutputInvariant, <1>1, PTL DEF Spec, FilterContinuous

-----------------------------------------------------------------------------
(* Pictures. *)

\* A picture no play tick of the running game drew.
Alien(f) == f.skipped \/ f.game # game

\* The alien pictures that were shown or can still be shown.
Shown == leaked + (IF dirty /\ Alien(frame) THEN 1 ELSE 0)
                + (IF inFlight # NoFrame /\ Alien(inFlight) THEN 1 ELSE 0)

Skipping == {"intro", "baseline", "listen", "replay", "hold"}

\* Where the skip stands decides what it withholds.
Withheld ==
  /\ discard <=> step \in {"baseline", "listen"}
  /\ videoHold <=> step = "hold"

\* Only a worker delivers late, and outside a pass of the frame loop only a
\* late picture can wait to be shown.
LateOnly ==
  /\ inFlight # NoFrame => inFlight.late
  /\ dirty /\ step # "ticked" => frame.late
  /\ dirty /\ ~frame.late => ~Alien(frame)

\* During a skip at most one picture waits: a stale one, until the handoff
\* screen or the listening withholds what follows; in the hold one of the
\* replay's, until the second blank tick.
OneWaits ==
  /\ step = "intro" => inFlight = NoFrame
  /\ step = "baseline" => count = 0
  /\ step \in {"baseline", "listen"} /\ dirty => inFlight # NoFrame
  /\ step = "listen" /\ count > 0 => ~dirty
  /\ step = "replay" /\ dirty => inFlight = NoFrame
  /\ step = "hold" /\ dirty =>
       \/ count = 0 /\ inFlight = NoFrame
       \/ count = 1 /\ inFlight # NoFrame /\ frame # NoFrame /\ frame.blank

HiddenInv ==
  /\ Withheld /\ LateOnly /\ OneWaits
  /\ step \in Skipping => leaked = 0
  /\ step \notin Skipping => Shown <= 1

LEMMA HiddenTypes ==
  ASSUME OInv
  PROVE  /\ discard \in BOOLEAN /\ videoHold \in BOOLEAN /\ dirty \in BOOLEAN
         /\ threaded \in BOOLEAN /\ leaked \in Nat /\ count \in Nat
         /\ game \in Nat /\ loads \in Nat /\ step \in Steps
         /\ frame \in Frames /\ inFlight \in Frames
BY OutputAssumption DEF OInv, TypeOK

LEMMA HiddenInit == Init => HiddenInv
BY DEF Init, HiddenInv, Withheld, LateOnly, OneWaits, Skipping, Shown, Alien,
       NoFrame

\* A worker's delivery shows no more than what it held.
LEMMA DeliveryShape ==
  ASSUME OInv, HiddenInv, inFlight # NoFrame, PushFrame(inFlight)
  PROVE  /\ frame' = inFlight /\ frame'.late
         /\ dirty' = (~discard /\ ~videoHold)
BY DEF PushFrame, HiddenInv, LateOnly

\* What a tick's picture does to the hand-off.
LEMMA RenderShape ==
  ASSUME OInv, HiddenInv, NEW blank \in BOOLEAN, Render(blank)
  PROVE  \/ /\ threaded /\ inFlight = NoFrame
            /\ UNCHANGED <<frame, dirty>>
            /\ inFlight' # NoFrame /\ inFlight'.late
            /\ inFlight'.game = game /\ (inFlight'.skipped <=> discard \/ videoHold)
         \/ /\ threaded /\ inFlight # NoFrame
            /\ frame' = inFlight /\ frame'.late /\ dirty' = (~discard /\ ~videoHold)
            /\ inFlight'.late
            /\ inFlight'.game = game /\ (inFlight'.skipped <=> discard \/ videoHold)
         \/ /\ ~threaded /\ UNCHANGED inFlight
            /\ dirty' = (~discard /\ ~videoHold)
            /\ frame'.game = game /\ (frame'.skipped <=> discard \/ videoHold)
<1> DEFINE f == [game |-> game, blank |-> blank, skipped |-> discard \/ videoHold,
                 late |-> threaded]
<1>1. /\ f.game = game /\ (f.skipped <=> discard \/ videoHold)
      /\ f.late <=> threaded
  BY HiddenTypes
<1>2. /\ threaded => inFlight' = f
      /\ threaded /\ inFlight # NoFrame => PushFrame(inFlight)
      /\ threaded /\ inFlight = NoFrame => UNCHANGED <<frame, dirty>>
      /\ ~threaded => PushFrame(f) /\ UNCHANGED inFlight
  BY DEF Render
<1> HIDE DEF f
<1>3. threaded => f.late /\ f # NoFrame
  BY <1>1, HiddenTypes DEF NoFrame
<1>4. CASE threaded /\ inFlight = NoFrame
  BY <1>1, <1>2, <1>3, <1>4
<1>5. CASE threaded /\ inFlight # NoFrame
  BY <1>1, <1>2, <1>3, <1>5, DeliveryShape
<1>6. CASE ~threaded
  BY <1>1, <1>2, <1>6 DEF PushFrame
<1> QED BY <1>4, <1>5, <1>6

\* The steps of a skip that draw nothing.
LEMMA HiddenQuiet ==
  ASSUME OInv, HiddenInv,
         \/ IntroTick \/ NoIntro \/ TakeBaseline \/ ListenOver \/ Replay
         \/ StartHold \/ HoldOver
         \/ \E capacity \in Capacities : ReadAudio(capacity)
         \/ UNCHANGED vars
  PROVE  HiddenInv'
<1> USE HiddenTypes, OutputAssumption
    DEF HiddenInv, Withheld, LateOnly, OneWaits, Skipping, Shown, Alien
<1> USE DEF setup, audio, skip, video
<1>1. CASE IntroTick
  BY <1>1 DEF IntroTick
<1>2. CASE NoIntro
  BY <1>2 DEF NoIntro
<1>3. CASE TakeBaseline
  BY <1>3 DEF TakeBaseline
<1>4. CASE ListenOver
  BY <1>4 DEF ListenOver
<1>5. CASE Replay
  BY <1>5 DEF Replay
<1>6. CASE StartHold
  BY <1>6 DEF StartHold
<1>7. CASE HoldOver
  BY <1>7 DEF HoldOver
<1>8. CASE \E capacity \in Capacities : ReadAudio(capacity)
  BY <1>8 DEF ReadAudio
<1>9. CASE UNCHANGED vars
  BY <1>9 DEF vars
<1> QED BY <1>1, <1>2, <1>3, <1>4, <1>5, <1>6, <1>7, <1>8, <1>9

\* A load starts with nothing shown and at most one stale picture waiting.
LEMMA HiddenLoad ==
  ASSUME OInv, HiddenInv, NEW th \in BOOLEAN, NEW hp \in BOOLEAN,
         NEW r \in BOOLEAN, NEW play \in BOOLEAN,
         LoadRom(th, hp, r, play) \/ LoadRomFails
  PROVE  HiddenInv'
<1>1. /\ step = "idle" /\ step' \in {"idle", "intro"} /\ leaked' = 0
      /\ UNCHANGED <<discard, videoHold>> /\ inFlight' = NoFrame
  BY DEF LoadRom, LoadRomFails, ClearOutput, skip
<1>2. dirty' => frame'.late
  <2>1. CASE inFlight # NoFrame /\ PushFrame(inFlight)
    BY <2>1, DeliveryShape
  <2>2. CASE UNCHANGED <<frame, dirty>>
    BY <1>1, <2>2 DEF HiddenInv, LateOnly
  <2> QED BY <2>1, <2>2 DEF LoadRom, LoadRomFails, ClearOutput
<1> QED BY <1>1, <1>2
  DEF HiddenInv, Withheld, LateOnly, OneWaits, Skipping, Shown

LEMMA HiddenIntroOver == ASSUME OInv, HiddenInv, IntroOver PROVE HiddenInv'
<1>1. /\ step = "intro" /\ step' = "baseline" /\ discard' = TRUE /\ count' = 0
      /\ UNCHANGED <<game, threaded, videoHold, leaked>>
      /\ inFlight = NoFrame
  BY DEF IntroOver, setup, HiddenInv, OneWaits
<1> DEFINE f == [game |-> game, blank |-> FALSE, skipped |-> TRUE, late |-> threaded]
<1>2. f # NoFrame /\ (threaded => f.late)
  BY DEF NoFrame
<1>3. /\ threaded => inFlight' = f /\ UNCHANGED <<frame, dirty>>
      /\ ~threaded => dirty' = FALSE /\ UNCHANGED inFlight
  BY DEF IntroOver
<1> HIDE DEF f
<1> QED BY <1>1, <1>2, <1>3, HiddenTypes
  DEF HiddenInv, Withheld, LateOnly, OneWaits, Skipping

\* Listening withholds every picture, the handoff screen first.
LEMMA HiddenListen ==
  ASSUME OInv, HiddenInv, NEW loud \in BOOLEAN, NEW blank \in BOOLEAN,
         Listen(loud, blank)
  PROVE  HiddenInv'
<1>1. /\ step = "listen" /\ step' \in {"listen", "replay"}
      /\ (discard' <=> step' = "listen") /\ count' = count + 1
      /\ UNCHANGED <<game, videoHold, leaked>> /\ discard
      /\ count \in Nat /\ Render(blank)
  BY HiddenTypes DEF Listen, setup, HiddenInv, Withheld
<1>2. ~dirty' /\ (inFlight' # NoFrame => inFlight'.late)
  BY <1>1, RenderShape, HiddenTypes DEF HiddenInv, LateOnly, OneWaits
<1> QED BY <1>1, <1>2, HiddenTypes
  DEF HiddenInv, Withheld, LateOnly, OneWaits, Skipping

\* The second blank tick of a hold withholds what the replay let through.
LEMMA HiddenHold ==
  ASSUME OInv, HiddenInv, NEW blank \in BOOLEAN, HoldTick(blank)
  PROVE  HiddenInv'
<1>1. /\ step = "hold" /\ step' = "hold" /\ count' = count + 1
      /\ UNCHANGED <<game, discard, videoHold, leaked>> /\ videoHold
      /\ frame # NoFrame /\ frame.blank /\ count \in Nat /\ Render(blank)
  BY HiddenTypes DEF HoldTick, setup, HiddenInv, Withheld
<1>2. inFlight' # NoFrame => inFlight'.late
  BY <1>1, RenderShape DEF HiddenInv, LateOnly
<1>3. ~dirty' \/ (count = 0 /\ inFlight' # NoFrame /\ UNCHANGED <<frame, dirty>>)
  BY <1>1, RenderShape, HiddenTypes DEF HiddenInv, OneWaits
<1> QED BY <1>1, <1>2, <1>3, HiddenTypes
  DEF HiddenInv, Withheld, LateOnly, OneWaits, Skipping

\* A tick of the game draws a picture of its own, and what a worker still
\* held takes the place of what waited.
LEMMA HiddenTick ==
  ASSUME OInv, HiddenInv, NEW blank \in BOOLEAN, Tick(blank)
  PROVE  HiddenInv'
<1>1. /\ step \in {"idle", "ticked"} /\ step' = "ticked"
      /\ UNCHANGED <<game, discard, videoHold, leaked>>
      /\ ~discard /\ ~videoHold /\ leaked \in Nat /\ Render(blank)
  BY HiddenTypes DEF Tick, setup, skip, HiddenInv, Withheld
<1>2. Shown <= 1
  BY <1>1 DEF HiddenInv, Skipping
<1>3. LateOnly /\ Alien(frame) \in BOOLEAN /\ Alien(inFlight) \in BOOLEAN
  BY DEF HiddenInv, Alien
<1>4. Withheld' /\ OneWaits'
  BY <1>1 DEF HiddenInv, Withheld, OneWaits
<1>5. LateOnly' /\ Shown' <= 1
  <2>1. CASE threaded /\ inFlight = NoFrame
    <3>1. /\ UNCHANGED <<frame, dirty>> /\ inFlight'.late /\ ~Alien(inFlight)'
      BY <1>1, <2>1, RenderShape DEF Alien
    <3> QED BY <1>1, <1>2, <1>3, <2>1, <3>1 DEF LateOnly, Shown, Alien
  <2>2. CASE threaded /\ inFlight # NoFrame
    <3>1. /\ frame' = inFlight /\ frame'.late /\ inFlight'.late
          /\ ~Alien(inFlight)'
      BY <1>1, <2>2, RenderShape DEF Alien
    <3>2. Alien(frame)' <=> Alien(inFlight)
      BY <1>1, <3>1 DEF Alien
    <3> QED BY <1>1, <1>2, <1>3, <2>2, <3>1, <3>2 DEF LateOnly, Shown
  <2>3. CASE ~threaded
    <3>1. UNCHANGED inFlight /\ ~Alien(frame)'
      BY <1>1, <2>3, RenderShape DEF Alien
    <3> QED BY <1>1, <1>2, <1>3, <2>3, <3>1 DEF LateOnly, Shown, Alien
  <2> QED BY <2>1, <2>2, <2>3
<1> QED BY <1>1, <1>4, <1>5 DEF HiddenInv, Skipping

LEMMA HiddenPresent == ASSUME OInv, HiddenInv, Present PROVE HiddenInv'
<1>1. /\ step \in {"idle", "ticked"} /\ step' = "idle" /\ dirty' = FALSE
      /\ UNCHANGED <<game, discard, videoHold, inFlight>>
      /\ leaked' = IF dirty /\ Alien(frame) THEN leaked + 1 ELSE leaked
      /\ leaked \in Nat
  BY HiddenTypes DEF Present, setup, skip, Alien
<1>2. Shown <= 1
  BY <1>1 DEF HiddenInv, Skipping
<1>3. Shown' <= 1
  BY <1>1, <1>2 DEF Shown, Alien
<1> QED BY <1>1, <1>3
  DEF HiddenInv, Withheld, LateOnly, OneWaits, Skipping

LEMMA HiddenDeliver == ASSUME OInv, HiddenInv, Deliver PROVE HiddenInv'
<1>1. /\ inFlight # NoFrame /\ inFlight' = NoFrame
      /\ UNCHANGED <<step, game, discard, videoHold, count, leaked>>
      /\ leaked \in Nat
  BY HiddenTypes DEF Deliver, setup, skip
<1>2. frame' = inFlight /\ frame'.late /\ dirty' = (~discard /\ ~videoHold)
  BY <1>1, DeliveryShape DEF Deliver
<1>3. Alien(frame)' <=> Alien(inFlight)
  BY <1>1, <1>2 DEF Alien
<1>4. step \notin Skipping => Shown' <= 1
  BY <1>1, <1>2, <1>3 DEF HiddenInv, Shown
<1> QED BY <1>1, <1>2, <1>4
  DEF HiddenInv, Withheld, LateOnly, OneWaits, Skipping

LEMMA HiddenStep == ASSUME OInv, HiddenInv, [Next]_vars PROVE HiddenInv'
<1>1. CASE BootSkip
  BY <1>1, HiddenQuiet, HiddenIntroOver, HiddenListen, HiddenHold DEF BootSkip
<1>2. CASE \E th, hp, r, play \in BOOLEAN : LoadRom(th, hp, r, play)
  BY <1>2, HiddenLoad
<1>3. CASE LoadRomFails
  <2>1. TRUE \in BOOLEAN
    OBVIOUS
  <2> QED BY <1>3, <2>1, HiddenLoad
<1>4. CASE \E blank \in BOOLEAN : Tick(blank)
  BY <1>4, HiddenTick
<1>5. CASE Present \/ Deliver
  BY <1>5, HiddenPresent, HiddenDeliver
<1>6. CASE UNCHANGED vars \/ \E capacity \in Capacities : ReadAudio(capacity)
  BY <1>6, HiddenQuiet
<1> QED BY <1>1, <1>2, <1>3, <1>4, <1>5, <1>6 DEF Next

\* Of the pictures a skip withheld and those of the game before, the screen
\* shows at most one in the whole life of a game, and only a late one,
\* whenever the workers deliver and however often the screen is presented.
THEOREM SkipStaysHidden == Spec => []SkipIsHidden
<1>1. OInv /\ HiddenInv /\ [Next]_vars => HiddenInv'
  BY HiddenStep
<1>2. OInv /\ HiddenInv => SkipIsHidden
  <2> SUFFICES ASSUME OInv, HiddenInv PROVE SkipIsHidden
    OBVIOUS
  <2>1. leaked <= 1
    BY HiddenTypes DEF HiddenInv, Skipping, Shown
  <2> QED BY <2>1, HiddenTypes DEF HiddenInv, LateOnly, Alien, SkipIsHidden
<1> QED BY HiddenInit, <1>1, <1>2, OutputInvariant, PTL DEF Spec

=============================================================================
