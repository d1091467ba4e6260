\* The latch under emuLock (iOS).
SPECIFICATION LatchSpec
CONSTANTS
  A = A
  B = B
  hA = hA
  hB = hB
  hRemapped = hRemapped
  Buttons = {A, B}
  Handles = {hA, hB, hRemapped}
  Bit <- MCBit
  Unloads = TRUE
  Locked = TRUE
INVARIANTS
  NoStuckButton
  TapsAreShown
PROPERTIES
  KeepsTaps
