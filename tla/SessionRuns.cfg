\* Two ROMs and four other calls, from both threads, in every interleaving.
SPECIFICATION FairSpec
CONSTANTS
  Roms = {r1, r2}
  None = None
  MaxEvents = 2
  MaxCalls = 4
INVARIANTS
  SessionMatchesCore
PROPERTIES
  BackgroundSaves
  TeardownHappens
  RomsAreTaken
CHECK_DEADLOCK FALSE
