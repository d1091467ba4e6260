\* Rewind, jumps, state loads and run-ahead on an engine that may refuse.
SPECIFICATION FairSpec
CONSTANTS
  Frequency = 10
  PerSecond = 1
  Stock = 3
  Seconds = {0, 2}
  SavedAt = {15}
  Fails = {"serialize", "unserialize"}
  MaxNow = 30
  MaxCalls = 4
INVARIANTS
  Chronological
PROPERTIES
  RewindEnds
  KeepsTape
CHECK_DEADLOCK FALSE
