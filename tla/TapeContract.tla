---------------------------- MODULE TapeContract ----------------------------
(***************************************************************************)
(* What rewinding promises a player: the game plays on a frame at a time,  *)
(* some of the moments it passed are on a tape, and going back leads to a  *)
(* moment on the tape and forgets everything that was played after it.     *)
(* Loading a save state goes anywhere and leaves the tape alone, so going  *)
(* back from there undoes the load.                                        *)
(***************************************************************************)
EXTENDS Naturals

CONSTANT Strides  \* the frames a tick may take the game on

VARIABLES
  now,   \* the moment the game is in: a stretch of play, a frame
  tape   \* moments that can be gone back to

tapeVars == <<now, tape>>

Earlier(s, t) ==
  \/ s.stretch < t.stretch
  \/ s.stretch = t.stretch /\ s.frame < t.frame

Later(s, n) == [s EXCEPT !.frame = @ + n]

TapeInit == now = [stretch |-> 0, frame |-> 0] /\ tape = {}

\* One tick; the moment it starts from may be taped, others dropped.
Play ==
  /\ \E n \in Strides : now' = Later(now, n)
  /\ tape' \subseteq tape \cup {now}

\* Back to a taped moment, and possibly one tick on from it.
Back ==
  \E s \in tape :
    /\ \E n \in Strides \cup {0} : now' = Later(s, n)
    /\ tape' \subseteq {t \in tape : Earlier(t, s)}

Erase == now' = now /\ tape' = {}

\* A new stretch of play: a loaded state, or a new game on an empty tape.
Begin ==
  /\ \A s \in tape \cup {now} : Earlier(s, now')
  /\ \/ tape' = tape
     \/ tape' = {} /\ now'.frame = 0

TapeNext == Play \/ Back \/ Erase \/ Begin

Contract == TapeInit /\ [][TapeNext]_tapeVars
=============================================================================
