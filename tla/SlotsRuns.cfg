\* Two slots, two boots, four requests, anything may fail.
SPECIFICATION SlotsSpec
CONSTANTS
  Slots = {s1, s2}
  Null = Null
  NoFile = NoFile
  Torn = Torn
  Fails = {"rename", "serialize", "write", "close", "unserialize", "boot"}
  MaxOps = 4
  MaxBoots = 2
INVARIANTS
  UndoRestores
  RepliesTrue
CHECK_DEADLOCK FALSE
