\* A ROM queued while the loop takes the one before it.
SPECIFICATION FairSpec
CONSTANTS
  Roms = {r1, r2}
  None = None
  MaxEvents = 1
  MaxCalls = 2
PROPERTIES
  QueuedRomsExecute
CHECK_DEADLOCK FALSE
