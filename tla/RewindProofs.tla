--------------------------- MODULE RewindProofs ---------------------------
(***************************************************************************)
(* Rewinding, proved for every capture interval, capacity, buffer size and *)
(* set of saved states: the history is in the order it was played in and   *)
(* in the past, whatever is loaded and whatever the engine refuses,        *)
(* captures respect the capacity, and the host keeps the tape contract.    *)
(* The inductive invariant is the type, the order of the history, the      *)
(* emptiness of a disabled one, and that the present belongs to a stretch  *)
(* of play that has begun.                                                 *)
(***************************************************************************)
EXTENDS RewindTimeline, SequenceTheorems, TLAPS

IInv == TypeOK /\ Chronological /\ NoLeftovers /\ now.stretch <= begun

\* A history that is in order and all before `to`.
Ordered(h, to) ==
  /\ h \in Seq(Moment)
  /\ \A i, j \in DOMAIN h : i < j => Before(h[i], h[j])
  /\ \A i \in DOMAIN h : Before(h[i], to)

\* The present played on, or not at all.
UpTo(s, t) == s = t \/ Before(s, t)

----------------------------------------------------------------------------
(* The history operations *)

LEMMA OrderedPrefix ==
  ASSUME NEW h \in Seq(Moment), NEW to \in Moment, Ordered(h, to), NEW n \in 0 .. Len(h)
  PROVE  /\ Ordered(SubSeq(h, 1, n), to)
         /\ Len(SubSeq(h, 1, n)) = n
         /\ \A i \in 1 .. n : SubSeq(h, 1, n)[i] = h[i]
<1>1. /\ SubSeq(h, 1, n) \in Seq(Moment) /\ Len(SubSeq(h, 1, n)) = n
      /\ \A i \in 1 .. n : SubSeq(h, 1, n)[i] = h[i]
  BY SubSeqProperties
<1>2. DOMAIN SubSeq(h, 1, n) = 1 .. n /\ DOMAIN h = 1 .. Len(h)
  BY <1>1
<1> QED BY <1>1, <1>2 DEF Ordered

LEMMA OrderedTail ==
  ASSUME NEW h \in Seq(Moment), NEW to \in Moment, Ordered(h, to), h # <<>>
  PROVE  Ordered(Tail(h), to) /\ Len(Tail(h)) = Len(h) - 1
<1>1. /\ Tail(h) \in Seq(Moment) /\ Len(Tail(h)) = Len(h) - 1
      /\ \A i \in 1 .. Len(Tail(h)) : Tail(h)[i] = h[i + 1]
  BY HeadTailProperties
<1>2. DOMAIN Tail(h) = 1 .. Len(Tail(h)) /\ DOMAIN h = 1 .. Len(h)
  BY <1>1
<1> QED BY <1>1, <1>2 DEF Ordered

LEMMA BeforeTransitive ==
  ASSUME NEW r \in Moment, NEW s \in Moment, NEW t \in Moment,
         Before(r, s), UpTo(s, t)
  PROVE  Before(r, t)
BY DEF Before, UpTo, Moment

\* A frame played on from a moment is after it.
LEMMA OnIsLater ==
  ASSUME NEW s \in Moment, NEW n \in Nat
  PROVE  /\ On(s, n) \in Moment
         /\ n > 0 => Before(s, On(s, n))
         /\ On(s, 0) = s
         /\ On(s, n).stretch = s.stretch
BY DEF On, Before, Moment

LEMMA OrderedLater ==
  ASSUME NEW h, NEW s \in Moment, NEW t \in Moment, UpTo(s, t), Ordered(h, s)
  PROVE  Ordered(h, t)
<1>1. h \in Seq(Moment) /\ \A i \in DOMAIN h : h[i] \in Moment
  BY DEF Ordered
<1>2. ASSUME NEW i \in DOMAIN h PROVE Before(h[i], t)
  BY <1>1, BeforeTransitive DEF Ordered
<1> QED BY <1>2 DEF Ordered

LEMMA OrderedAppend ==
  ASSUME NEW h \in Seq(Moment), NEW t \in Moment, Ordered(h, t)
  PROVE  /\ Ordered(Append(h, t), On(t, 1))
         /\ Len(Append(h, t)) = Len(h) + 1
<1>1. /\ Append(h, t) \in Seq(Moment) /\ Len(Append(h, t)) = Len(h) + 1
      /\ \A i \in 1 .. Len(h) : Append(h, t)[i] = h[i]
      /\ Append(h, t)[Len(h) + 1] = t
  BY AppendProperties
<1>2. /\ DOMAIN Append(h, t) = 1 .. Len(h) + 1 /\ DOMAIN h = 1 .. Len(h)
      /\ Len(h) \in Nat
  BY <1>1, LenProperties
<1>3. /\ Before(t, On(t, 1)) /\ On(t, 1) \in Moment
  BY OnIsLater
<1>4. Ordered(h, On(t, 1))
  BY <1>3, OrderedLater DEF UpTo
<1>5. ASSUME NEW i \in DOMAIN Append(h, t) PROVE Before(Append(h, t)[i], On(t, 1))
  BY <1>1, <1>2, <1>3, <1>4, <1>5 DEF Ordered
<1>6. ASSUME NEW i \in DOMAIN Append(h, t), NEW j \in DOMAIN Append(h, t), i < j
      PROVE  Before(Append(h, t)[i], Append(h, t)[j])
  <2>1. i \in DOMAIN h /\ Append(h, t)[i] = h[i]
    BY <1>1, <1>2, <1>6
  <2>2. CASE j = Len(h) + 1
    BY <1>1, <2>1, <2>2 DEF Ordered
  <2>3. CASE j \in DOMAIN h
    BY <1>1, <1>2, <1>6, <2>1, <2>3 DEF Ordered
  <2> QED BY <1>2, <2>2, <2>3
<1> QED BY <1>1, <1>5, <1>6 DEF Ordered

LEMMA OrderedHistory ==
  ASSUME TypeOK
  PROVE  Chronological <=> Ordered(history, now)
BY DEF TypeOK, Chronological, Ascending, AllPast, Ordered

----------------------------------------------------------------------------
(* One tick *)

LEMMA Intervals ==
  ASSUME TypeOK
  PROVE  PlaybackEvery \in 1 .. Frequency
BY RewindAssumption DEF PlaybackEvery

LEMMA EmptyOrdered == \A t \in Moment : Ordered(<<>>, t)
BY DEF Ordered

\* What rewindRun leaves: an ordered history before the frame it will run.
LEMMA RewindRunOrdered ==
  ASSUME IInv, NEW base, RewindRun(base)
  PROVE  /\ base \in Moment /\ base.stretch <= begun
         /\ Ordered(history', On(base, 1))
         /\ counter' \in 0 .. Frequency
         /\ rewinding' \in BOOLEAN
         /\ ~enabled => ~rewinding' /\ history' = <<>>
<1>1. Ordered(history, now) /\ now \in Moment /\ now.stretch <= begun
  BY OrderedHistory DEF IInv, TypeOK
<1>2. /\ Ordered(history, On(now, 1)) /\ On(now, 1) \in Moment
      /\ Before(now, On(now, 1))
  BY <1>1, OnIsLater, OrderedLater DEF UpTo
<1>3. PlaybackEvery \in 1 .. Frequency /\ Frequency \in Nat \ {0}
  BY Intervals, RewindAssumption DEF IInv
<1>4. /\ counter \in 0 .. Frequency /\ rewinding \in BOOLEAN
      /\ ~enabled => ~rewinding /\ history = <<>>
  BY DEF IInv, TypeOK, NoLeftovers
<1>5. CASE Off(base)
  BY <1>1, <1>2, <1>4, <1>5 DEF Off
<1>6. CASE CountUp(base)
  BY <1>1, <1>2, <1>3, <1>4, <1>6 DEF CountUp
<1>7. CASE Capture(base)
  <2> DEFINE room == IF Len(history) >= length THEN Tail(history) ELSE history
  <2>1. length \in Nat \ {0}
    BY RewindAssumption DEF IInv, TypeOK, Most
  <2>2. history \in Seq(Moment) /\ (Len(history) >= length => history # <<>>)
    BY <1>1, <2>1 DEF Ordered
  <2>3. Ordered(room, now)
    <3>1. CASE Len(history) >= length
      BY <1>1, <2>2, <3>1, OrderedTail
    <3>2. CASE ~(Len(history) >= length)
      BY <1>1, <3>2
    <3> QED BY <3>1, <3>2
  <2>4. Ordered(Append(room, now), On(now, 1)) /\ Ordered(room, On(now, 1))
    BY <1>1, <1>2, <2>3, OrderedAppend, OrderedLater DEF Ordered, UpTo
  <2>5. history' \in {Append(room, now), room}
    BY <1>7 DEF Capture
  <2> QED BY <1>1, <1>3, <1>4, <1>7, <2>4, <2>5 DEF Capture
<1>8. CASE RunDry(base)
  <2>1. base = now /\ history' = history /\ counter' = 0 /\ rewinding' = FALSE /\ enabled
    BY <1>8 DEF RunDry
  <2>2. Ordered(history', On(base, 1))
    BY <1>2, <2>1
  <2>3. counter' \in 0 .. Frequency
    BY <1>3, <2>1
  <2> QED BY <1>1, <2>1, <2>2, <2>3
<1>9. CASE StepBack(base)
  <2>1. history \in Seq(Moment) /\ history # <<>> /\ Len(history) \in Nat \ {0}
    BY <1>1, <1>9, EmptySeq, LenProperties DEF StepBack, Ordered
  <2>2. Newest \in Moment /\ Before(Newest, now) /\ Newest.stretch <= begun
    <3>1. Len(history) \in DOMAIN history
      BY <2>1
    <3>2. Newest \in Moment /\ Before(Newest, now)
      BY <1>1, <2>1, <3>1 DEF Newest, Ordered
    <3> QED BY <1>1, <3>2 DEF Before, Moment, IInv, TypeOK
  <2>3. /\ Ordered(Older, now) /\ Len(Older) = Len(history) - 1
        /\ \A i \in 1 .. Len(history) - 1 : Older[i] = history[i]
    <3>1. Len(history) - 1 \in 0 .. Len(history)
      BY <2>1
    <3> QED BY <1>1, <2>1, <3>1, OrderedPrefix DEF Older
  <2>4. Ordered(Older, Newest)
    <3>1. DOMAIN Older = 1 .. Len(history) - 1 /\ DOMAIN history = 1 .. Len(history)
      BY <2>1, <2>3 DEF Ordered
    <3>2. /\ Older \in Seq(Moment)
          /\ \A i, j \in DOMAIN Older : i < j => Before(Older[i], Older[j])
      BY <2>3 DEF Ordered
    <3>3. ASSUME NEW i \in DOMAIN Older PROVE Before(Older[i], Newest)
      <4>1. i \in DOMAIN history /\ Len(history) \in DOMAIN history /\ i < Len(history)
        BY <2>1, <3>1
      <4>2. Before(history[i], history[Len(history)])
        BY <1>1, <4>1 DEF Ordered
      <4> QED BY <2>3, <3>1, <4>2 DEF Newest
    <3> QED BY <3>2, <3>3 DEF Ordered
  <2>5. Ordered(Older, On(Newest, 1)) /\ Ordered(Older, On(now, 1))
    <3>1. /\ Before(Newest, On(Newest, 1)) /\ On(Newest, 1) \in Moment
      BY <2>2, OnIsLater
    <3> QED BY <1>1, <1>2, <2>2, <2>3, <2>4, <3>1, OrderedLater DEF UpTo
  <2>6. base \in {Newest, now}
    BY <1>9 DEF StepBack
  <2> QED BY <1>1, <1>3, <1>4, <1>9, <2>2, <2>5, <2>6 DEF StepBack
<1> QED BY <1>5, <1>6, <1>7, <1>8, <1>9 DEF RewindRun

\* A jump lands in the history, which keeps what is older.
LEMMA JumpInside ==
  ASSUME IInv, NEW s \in Seconds, history # <<>>
  PROVE  JumpTo(s) \in 1 .. Len(history)
<1>1. s * PerSecond \in Nat
  BY RewindAssumption
<1>2. Len(history) \in Nat \ {0}
  BY EmptySeq, LenProperties DEF IInv, TypeOK
<1> DEFINE back == IF s * PerSecond = 0 THEN 1 ELSE s * PerSecond
<1>3. back \in Nat \ {0}
  BY <1>1
<1>4. JumpTo(s) = IF Len(history) > back THEN Len(history) - back + 1 ELSE 1
  BY DEF JumpTo
<1> HIDE DEF back
<1> QED BY <1>2, <1>3, <1>4

----------------------------------------------------------------------------
(* The invariant *)

LEMMA NoHistory == <<>> \in Seq(Moment) /\ 0 \in 0 .. Frequency
BY RewindAssumption, EmptySeq

LEMMA InitOrdered == Init => IInv
<1>1. Init => TypeOK
  <2>1. Init => length \in Most /\ calls \in 0 .. MaxCalls /\ now \in Moment /\ begun \in Nat
    BY RewindAssumption DEF Init, Most, Moment
  <2>2. Init => history \in Seq(Moment) /\ counter \in 0 .. Frequency
    BY NoHistory DEF Init
  <2> QED BY <2>1, <2>2 DEF Init, TypeOK
<1> QED BY <1>1 DEF Init, IInv, Chronological, Ascending, AllPast, NoLeftovers

\* Whatever the engine refuses, a frame takes the game on from `base`.
LEMMA FramesForward ==
  ASSUME NEW base, Frames(base)
  PROVE  now' \in {On(base, 1), On(base, 2)}
BY DEF Frames

LEMMA TickOrdered == IInv /\ Tick => IInv'
<1> SUFFICES ASSUME IInv, Tick PROVE IInv'
  OBVIOUS
<1>1. PICK base : RewindRun(base) /\ Frames(base)
  BY DEF Tick
<1>2. /\ base \in Moment /\ base.stretch <= begun /\ Ordered(history', On(base, 1))
      /\ counter' \in 0 .. Frequency /\ rewinding' \in BOOLEAN
      /\ ~enabled => ~rewinding' /\ history' = <<>>
  BY <1>1, RewindRunOrdered
<1>3. /\ now' \in Moment /\ UpTo(On(base, 1), now') /\ On(base, 1) \in Moment
      /\ now'.stretch <= begun
  BY <1>1, <1>2, FramesForward DEF On, Moment, UpTo, Before
<1>4. Ordered(history', now')
  BY <1>2, <1>3, OrderedLater
<1>5. TypeOK'
  BY <1>2, <1>3, <1>4 DEF Tick, IInv, TypeOK, Ordered
<1>6. Chronological'
  BY <1>4 DEF Chronological, Ascending, AllPast, Ordered
<1>7. NoLeftovers'
  BY <1>2 DEF Tick, NoLeftovers
<1>8. begun' = begun
  BY DEF Tick
<1> QED BY <1>3, <1>5, <1>6, <1>7, <1>8 DEF IInv

LEMMA JumpOrdered ==
  ASSUME IInv, NEW s \in Seconds, RewindJump(s) PROVE IInv'
<1>1. Ordered(history, now) /\ history # <<>> /\ now \in Moment
  BY OrderedHistory DEF IInv, TypeOK, RewindJump
<1>2. JumpTo(s) \in 1 .. Len(history)
  BY <1>1, JumpInside
<1> DEFINE at == JumpTo(s)
<1>3. /\ now' = history[at] /\ history' = SubSeq(history, 1, at - 1)
      /\ rewinding' = FALSE /\ counter' = 0 /\ Called
      /\ UNCHANGED <<enabled, length, runAhead, fastForward, begun>>
  BY DEF RewindJump
<1> HIDE DEF at
<1>4. at \in 1 .. Len(history) /\ at - 1 \in 0 .. Len(history)
      /\ Len(history) \in Nat /\ history \in Seq(Moment)
  BY <1>1, <1>2, LenProperties DEF at, Ordered
<1>5. /\ Ordered(history', now) /\ Len(history') = at - 1
      /\ \A i \in 1 .. at - 1 : history'[i] = history[i]
  BY <1>1, <1>3, <1>4, OrderedPrefix
<1>6. now' \in Moment /\ now'.stretch <= begun'
  <2>1. now' \in Moment /\ Before(now', now)
    BY <1>1, <1>3, <1>4 DEF Ordered
  <2> QED BY <1>3, <2>1 DEF Before, Moment, IInv, TypeOK
<1>7. Ordered(history', now')
  <2>1. ASSUME NEW i \in DOMAIN history' PROVE Before(history'[i], now')
    <3>1. i \in 1 .. at - 1
      BY <1>4, <1>5 DEF Ordered
    <3>2. i \in DOMAIN history /\ at \in DOMAIN history /\ i < at
      BY <1>4, <3>1
    <3>3. Before(history[i], history[at])
      BY <1>1, <3>2 DEF Ordered
    <3> QED BY <1>3, <1>5, <3>1, <3>3
  <2> QED BY <1>5, <2>1 DEF Ordered
<1>8. TypeOK'
  <2>1. calls' \in 0 .. MaxCalls
    BY <1>3, RewindAssumption DEF IInv, TypeOK, Called
  <2>2. history' \in Seq(Moment)
    BY <1>7 DEF Ordered
  <2> QED BY <1>3, <1>6, <2>1, <2>2, NoHistory DEF IInv, TypeOK
<1>9. Chronological'
  BY <1>7 DEF Chronological, Ascending, AllPast, Ordered
<1>10. NoLeftovers'
  BY <1>3 DEF RewindJump, NoLeftovers
<1> QED BY <1>6, <1>8, <1>9, <1>10 DEF IInv

\* A stretch that has just begun is after everything that was played.
LEMMA BeginIsLater ==
  ASSUME IInv, NEW frame \in Nat, BeginAt(frame)
  PROVE  /\ now' \in Moment /\ begun' \in Nat /\ now'.stretch = begun'
         /\ now'.frame = frame /\ Before(now, now')
         /\ Ordered(history, now')
<1>1. Ordered(history, now) /\ now \in Moment /\ begun \in Nat /\ now.stretch <= begun
  BY OrderedHistory DEF IInv, TypeOK
<1>2. /\ now' \in Moment /\ begun' \in Nat /\ now'.stretch = begun'
      /\ now'.frame = frame /\ Before(now, now')
  BY <1>1 DEF BeginAt, Before, Moment
<1> QED BY <1>1, <1>2, OrderedLater DEF UpTo

LEMMA NextOrdered == IInv /\ [Next]_vars => IInv'
<1> SUFFICES ASSUME IInv, [Next]_vars PROVE IInv'
  OBVIOUS
<1> USE RewindAssumption DEF IInv, TypeOK, Called
<1>1. CASE Tick
  BY <1>1, TickOrdered
<1>2. ASSUME NEW on \in BOOLEAN, NEW s \in Seconds, ConfigureRewind(on, s)
      PROVE  IInv'
  <2>1. length' \in Most
    BY <1>2 DEF ConfigureRewind, Most
  <2>2. CASE on
    BY <1>2, <2>1, <2>2
      DEF ConfigureRewind, Chronological, Ascending, AllPast, NoLeftovers, Most
  <2>3. CASE ~on
    <3>1. /\ enabled' = FALSE /\ rewinding' = FALSE /\ counter' = 0 /\ history' = <<>>
          /\ now' = now /\ begun' = begun /\ runAhead' = runAhead /\ fastForward' = fastForward
      BY <1>2, <2>3 DEF ConfigureRewind
    <3>2. TypeOK'
      <4>1. calls' \in 0 .. MaxCalls
        BY <1>2 DEF ConfigureRewind
      <4> QED BY <1>2, <2>1, <3>1, <4>1, NoHistory
    <3> QED BY <3>1, <3>2 DEF Chronological, Ascending, AllPast, NoLeftovers
  <2> QED BY <2>2, <2>3
<1>3. CASE ToggleRewind
  BY <1>3 DEF ToggleRewind, Chronological, Ascending, AllPast, NoLeftovers, Most
<1>4. ASSUME NEW s \in Seconds, RewindJump(s) PROVE IInv'
  BY <1>4, JumpOrdered
<1>5. ASSUME NEW on \in BOOLEAN, SetRunAhead(on) PROVE IInv'
  BY <1>5 DEF SetRunAhead, rewind, Chronological, Ascending, AllPast, NoLeftovers, Most
<1>6. ASSUME NEW on \in BOOLEAN, SetFastForward(on) PROVE IInv'
  BY <1>6 DEF SetFastForward, rewind, Chronological, Ascending, AllPast, NoLeftovers, Most
<1>7. CASE SwapGame
  <2>1. /\ rewinding' = FALSE /\ counter' = 0 /\ history' = <<>>
        /\ UNCHANGED <<enabled, length, runAhead, fastForward>>
        /\ calls' \in 0 .. MaxCalls
    BY <1>7 DEF SwapGame
  <2>2. now' \in Moment /\ begun' \in Nat /\ now'.stretch <= begun'
    BY <1>7, BeginIsLater DEF SwapGame
  <2>3. TypeOK'
    BY <2>1, <2>2, NoHistory
  <2> QED BY <2>1, <2>2, <2>3 DEF Chronological, Ascending, AllPast, NoLeftovers
<1>9. ASSUME NEW f \in SavedAt, StateLoad(f) PROVE IInv'
  <2>1. /\ now' \in Moment /\ begun' \in Nat /\ now'.stretch <= begun'
        /\ Ordered(history, now')
    BY <1>9, BeginIsLater DEF StateLoad
  <2>2. /\ UNCHANGED <<enabled, rewinding, counter, length, history, runAhead, fastForward>>
        /\ calls' \in 0 .. MaxCalls
    BY <1>9 DEF StateLoad, rewind
  <2>3. TypeOK'
    BY <2>1, <2>2
  <2>4. Chronological' /\ NoLeftovers'
    BY <2>1, <2>2 DEF Ordered, Chronological, Ascending, AllPast, NoLeftovers
  <2> QED BY <2>1, <2>3, <2>4
<1>8. CASE UNCHANGED vars
  BY <1>8 DEF vars, rewind, Chronological, Ascending, AllPast, NoLeftovers, Most
<1> QED BY <1>1, <1>2, <1>3, <1>4, <1>5, <1>6, <1>7, <1>8, <1>9 DEF Next

\* The inductive invariant: emulator_host.cpp's rewind handlers keep the
\* history ordered, in the past and empty when rewind is off, through state
\* loads that replace the present and leave the history (stateLoad).
THEOREM RewindInvariant == Spec => []IInv
BY InitOrdered, NextOrdered, PTL DEF Spec

\* The Rewind struct keeps its types, its counter within the capture interval.
THEOREM TypeCorrect == Spec => []TypeOK
<1>1. IInv => TypeOK
  BY DEF IInv
<1> QED BY <1>1, RewindInvariant, PTL

\* The history is in the order it was played in and in the past, even when
\* save states are loaded in between and when the engine refuses to save or
\* restore (rewindRun, rewindJump, stateLoad, tick).
THEOREM HistoryInOrder == Spec => []Chronological
<1>1. IInv => Chronological
  BY DEF IInv
<1> QED BY <1>1, RewindInvariant, PTL

\* Turning rewind off leaves nothing behind (configureRewind).
THEOREM OffLeavesNothing == Spec => []NoLeftovers
<1>1. IInv => NoLeftovers
  BY DEF IInv
<1> QED BY <1>1, RewindInvariant, PTL

----------------------------------------------------------------------------
(* Captures, and the tape *)

\* However rewind is configured and used, a capture never grows the history
\* past its capacity (rewindRun makes room before it captures).
THEOREM CapturesFit == Spec => CaptureWithinCap
<1> DEFINE Fits == Len(history') > Len(history) => Len(history') <= length
<1>1. IInv /\ [Next]_vars => [Fits]_vars
  <2> SUFFICES ASSUME IInv, Next PROVE Fits
    BY DEF vars
  <2>1. /\ history \in Seq(Moment) /\ Len(history) \in Nat /\ length \in Nat
        /\ Ordered(history, now) /\ now \in Moment
    BY RewindAssumption, OrderedHistory, LenProperties DEF IInv, TypeOK, Most
  <2>2. ASSUME NEW base, Capture(base) PROVE Fits
    <3>1. CASE Len(history) >= length /\ history # <<>>
      <4>1. Len(Tail(history)) = Len(history) - 1 /\ Ordered(Tail(history), now)
        BY <2>1, <3>1, OrderedTail
      <4>2. Len(Append(Tail(history), now)) = Len(history)
        BY <2>1, <4>1, OrderedAppend DEF Ordered
      <4>3. history' \in {Append(Tail(history), now), Tail(history)}
        BY <2>2, <3>1 DEF Capture
      <4>4. Len(history') = Len(history) \/ Len(history') = Len(history) - 1
        BY <4>1, <4>2, <4>3
      <4> QED BY <2>1, <4>4
    <3>2. CASE ~(Len(history) >= length)
      <4>1. Len(Append(history, now)) = Len(history) + 1
        BY <2>1, OrderedAppend
      <4>2. history' \in {Append(history, now), history}
        BY <2>2, <3>2 DEF Capture
      <4> QED BY <2>1, <3>2, <4>1, <4>2
    <3>3. length \in Nat \ {0}
      BY RewindAssumption DEF IInv, TypeOK, Most
    <3>4. Len(history) >= length => history # <<>>
      BY <3>3
    <3> QED BY <3>1, <3>2, <3>4
  <2>3. ASSUME NEW base, StepBack(base) PROVE Len(history') <= Len(history)
    <3>1. Len(history) - 1 \in 0 .. Len(history)
      BY <2>1, <2>3, EmptySeq, LenProperties DEF StepBack
    <3>2. Len(SubSeq(history, 1, Len(history) - 1)) = Len(history) - 1
      BY <2>1, <3>1, OrderedPrefix
    <3> QED BY <2>1, <2>3, <3>2 DEF StepBack, Older
  <2>4. ASSUME Tick PROVE Fits
    <3>1. PICK base : RewindRun(base)
      BY <2>4 DEF Tick
    <3>2. CASE history' = history
      BY <2>1, <3>2
    <3> QED BY <2>1, <2>2, <2>3, <3>1, <3>2
          DEF RewindRun, Off, CountUp, RunDry
  <2>5. ASSUME NEW s \in Seconds, RewindJump(s) PROVE Len(history') <= Len(history)
    <3>1. JumpTo(s) \in 1 .. Len(history)
      BY <2>5, JumpInside DEF RewindJump
    <3>2. JumpTo(s) - 1 \in 0 .. Len(history)
      BY <2>1, <3>1
    <3>3. Len(SubSeq(history, 1, JumpTo(s) - 1)) = JumpTo(s) - 1
      BY <2>1, <3>2, OrderedPrefix
    <3> QED BY <2>1, <2>5, <3>1, <3>3 DEF RewindJump
  <2>6. CASE history' \in {history, <<>>}
    BY <2>1, <2>6, EmptySeq
  <2> QED BY <2>1, <2>4, <2>5, <2>6
        DEF Next, ConfigureRewind, ToggleRewind, SetRunAhead, SetFastForward, SwapGame,
            StateLoad, rewind
<1> QED BY <1>1, RewindInvariant, PTL DEF Spec, CaptureWithinCap

LEMMA TapeOf ==
  ASSUME NEW h \in Seq(Moment), NEW n \in 0 .. Len(h)
  PROVE  {SubSeq(h, 1, n)[i] : i \in DOMAIN SubSeq(h, 1, n)} = {h[i] : i \in 1 .. n}
<1>1. DOMAIN SubSeq(h, 1, n) = 1 .. n /\ \A i \in 1 .. n : SubSeq(h, 1, n)[i] = h[i]
  BY SubSeqProperties
<1> QED BY <1>1

\* The tape and the strides the contract is instantiated with.
tape == {history[i] : i \in DOMAIN history}
Strides == IF Fails = {} THEN {1} ELSE {1, 2}

LEMMA OneTick ==
  ASSUME NEW base, Frames(base)
  PROVE  \E n \in Strides : now' = On(base, n)
<1>1. CASE Fails = {}
  BY <1>1 DEF Frames, Works, Strides
<1>2. CASE Fails # {}
  BY <1>2 DEF Frames, Works, Strides
<1> QED BY <1>1, <1>2

\* Rewinding keeps the tape contract: every tick plays on or goes back to a
\* taped moment, whatever the engine refuses, a jump goes back, a state load
\* begins a stretch over the same tape and a swap over an empty one.
THEOREM RewindRefinement == Spec => KeepsTape
<1>1. Init => Tape!TapeInit
  BY DEF Init, Tape!TapeInit
<1>2. IInv /\ [Next]_vars => [Tape!TapeNext]_(<<now, tape>>)
  <2> SUFFICES ASSUME IInv, Next
               PROVE  Tape!TapeNext \/ UNCHANGED <<now, tape>>
    BY DEF vars, rewind, tape
  <2>1. /\ history \in Seq(Moment) /\ Len(history) \in Nat /\ Ordered(history, now)
        /\ now \in Moment /\ DOMAIN history = 1 .. Len(history)
    BY OrderedHistory, LenProperties DEF IInv, TypeOK
  <2>2. ASSUME NEW base, Frames(base), base = now, tape' \subseteq tape \cup {now}
        PROVE  Tape!Play
    BY <2>2, OneTick DEF Tape!Play, Tape!Later, On, Strides, tape
  <2>3. ASSUME NEW base, Capture(base) PROVE base = now /\ tape' \subseteq tape \cup {now}
    <3> DEFINE room == IF Len(history) >= length THEN Tail(history) ELSE history
    <3>1. length \in Nat \ {0}
      BY RewindAssumption DEF IInv, TypeOK, Most
    <3>2. \A i \in DOMAIN room : room[i] \in tape
      <4>1. CASE Len(history) >= length
        <5>1. history # <<>>
          BY <2>1, <3>1, <4>1
        <5>2. /\ \A i \in 1 .. Len(Tail(history)) : Tail(history)[i] = history[i + 1]
              /\ Len(Tail(history)) = Len(history) - 1 /\ DOMAIN Tail(history) = 1 .. Len(Tail(history))
          BY <2>1, <5>1, HeadTailProperties
        <5>3. ASSUME NEW i \in DOMAIN Tail(history) PROVE Tail(history)[i] \in tape
          <6>1. i + 1 \in DOMAIN history /\ Tail(history)[i] = history[i + 1]
            BY <2>1, <5>2
          <6> QED BY <6>1 DEF tape
        <5> QED BY <4>1, <5>3
      <4>2. CASE ~(Len(history) >= length)
        BY <4>2 DEF tape
      <4> QED BY <4>1, <4>2
    <3>3. room \in Seq(Moment)
      BY <2>1, <3>1, OrderedTail DEF Ordered
    <3> HIDE DEF room
    <3>4. \A i \in DOMAIN Append(room, now) : Append(room, now)[i] \in tape \cup {now}
      <4>1. /\ DOMAIN Append(room, now) = 1 .. Len(room) + 1 /\ DOMAIN room = 1 .. Len(room)
            /\ \A i \in 1 .. Len(room) : Append(room, now)[i] = room[i]
            /\ Append(room, now)[Len(room) + 1] = now
        BY <2>1, <3>3, AppendProperties, LenProperties
      <4> QED BY <3>2, <3>3, <4>1, LenProperties
    <3>5. history' \in {Append(room, now), room} /\ base = now
      BY <2>3 DEF Capture, room
    <3>6. \A i \in DOMAIN history' : history'[i] \in tape \cup {now}
      BY <3>2, <3>4, <3>5
    <3> QED BY <3>5, <3>6 DEF tape
  <2>4. ASSUME NEW base, Frames(base), StepBack(base) PROVE Tape!TapeNext
    <3>1. history # <<>> /\ base \in {Newest, now} /\ history' = Older
      BY <2>4 DEF StepBack
    <3>2. Len(history) \in DOMAIN history /\ Newest \in tape
          /\ Len(history) - 1 \in 0 .. Len(history)
      BY <2>1, <3>1, EmptySeq, LenProperties DEF Newest, tape
    <3>3. tape' = {history[i] : i \in 1 .. Len(history) - 1}
      BY <2>1, <3>1, <3>2, TapeOf DEF Older, tape
    <3>4. \A i \in 1 .. Len(history) - 1 : Before(history[i], Newest) /\ history[i] \in tape
      BY <2>1, <3>2 DEF Newest, Ordered, tape
    <3>5. tape' \subseteq {t \in tape : Tape!Earlier(t, Newest)}
      BY <3>3, <3>4 DEF Before, Tape!Earlier
    <3>6. CASE base = Newest
      BY <2>4, <3>2, <3>5, <3>6, OneTick
        DEF Tape!TapeNext, Tape!Back, Tape!Later, On, Strides, tape
    <3>7. CASE base = now
      BY <2>2, <2>4, <3>5, <3>7 DEF Tape!TapeNext
    <3> QED BY <3>1, <3>6, <3>7
  <2>5. CASE Tick
    <3>1. PICK base : RewindRun(base) /\ Frames(base)
      BY <2>5 DEF Tick
    <3>2. CASE base = now /\ history' = history
      <4>1. tape' \subseteq tape \cup {now}
        BY <3>2 DEF tape
      <4> QED BY <2>2, <3>1, <3>2, <4>1 DEF Tape!TapeNext
    <3>3. CASE Capture(base)
      BY <2>2, <2>3, <3>1, <3>3 DEF Tape!TapeNext
    <3> QED BY <2>4, <3>1, <3>2, <3>3 DEF RewindRun, Off, CountUp, RunDry
  <2>6. ASSUME NEW s \in Seconds, RewindJump(s) PROVE Tape!Back
    <3> DEFINE at == JumpTo(s)
    <3>1. history # <<>> /\ now' = history[at] /\ history' = SubSeq(history, 1, at - 1)
      BY <2>6 DEF RewindJump
    <3>2. at \in 1 .. Len(history)
      BY <3>1, JumpInside
    <3> HIDE DEF at
    <3>3. at \in DOMAIN history /\ history[at] \in tape /\ at - 1 \in 0 .. Len(history)
      BY <2>1, <3>2 DEF tape
    <3>4. tape' = {history[i] : i \in 1 .. at - 1}
      BY <2>1, <3>1, <3>3, TapeOf DEF tape
    <3>5. \A i \in 1 .. at - 1 : Before(history[i], history[at]) /\ history[i] \in tape
      BY <2>1, <3>2 DEF Ordered, tape
    <3>6. tape' \subseteq {t \in tape : Tape!Earlier(t, history[at])}
      BY <3>4, <3>5 DEF Before, Tape!Earlier
    <3>7. now' = Tape!Later(history[at], 0)
      <4>1. history[at] \in Moment
        BY <2>1, <3>3
      <4> QED BY <3>1, <4>1 DEF Tape!Later, Moment
    <3> QED BY <3>3, <3>6, <3>7 DEF Tape!Back, tape
  <2>7. ASSUME NEW f \in Nat, BeginAt(f), history' \in {history, <<>>}, history' = history \/ f = 0
        PROVE  Tape!Begin
    <3>1. now'.frame = f /\ Before(now, now') /\ Ordered(history, now')
      BY <2>7, BeginIsLater
    <3>2. \A s \in tape \cup {now} : Tape!Earlier(s, now')
      BY <3>1 DEF Ordered, Before, Tape!Earlier, tape
    <3>3. tape' = tape \/ (tape' = {} /\ now'.frame = 0)
      BY <2>7, <3>1 DEF tape
    <3> QED BY <3>2, <3>3 DEF Tape!Begin, tape
  <2>8. CASE SwapGame
    BY <2>7, <2>8 DEF SwapGame, Tape!TapeNext
  <2>9. ASSUME NEW f \in SavedAt, StateLoad(f) PROVE Tape!TapeNext
    BY <2>7, <2>9, RewindAssumption DEF StateLoad, rewind, Tape!TapeNext
  <2>10. CASE now' = now /\ history' = <<>>
    BY <2>10 DEF Tape!TapeNext, Tape!Erase, tape
  <2>11. CASE now' = now /\ history' = history
    BY <2>11 DEF tape
  <2> QED BY <2>5, <2>6, <2>8, <2>9, <2>10, <2>11
        DEF Next, ConfigureRewind, ToggleRewind, SetRunAhead, SetFastForward,
            rewind, Tape!TapeNext
<1> QED BY <1>1, <1>2, RewindInvariant, PTL
      DEF Spec, KeepsTape, Tape!Contract, Tape!tapeVars, tape
=============================================================================
