\* Two renderers of one name, two ROM loads and three other calls.
SPECIFICATION FairSpec
CONSTANTS
  Renderers = {r1, r2}
  Callers = {php}
  Threads = {t1, t2}
  None = None
  MaxCalls = 3
INVARIANTS
  LatestReachable
  GameIsTicked
PROPERTIES
  BootsArePlayed
CHECK_DEADLOCK FALSE
