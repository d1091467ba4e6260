\* Two loads with and without boot skip.  The ring (3 pairs) is
\* smaller than the preroll (4 pairs), as in the code (12000 and 16384 floats).
SPECIFICATION FairSpec
CONSTANTS
  RingCap = 6
  PrerollCap = 4
  Capacities = {2, 4}
  MaxIntro = 2
  MaxExtra = 5
  MaxHold = 2
  MaxGames = 2
  MaxMade = 9
INVARIANTS
  RingIsNewest
  StreamInStep
  AttackReplayed
  SkipIsHidden
PROPERTIES
  LoadReturns
CHECK_DEADLOCK FALSE
