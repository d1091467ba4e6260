\* ares, which saves from a copy, beside an engine read live; a saved game and
\* an unsaved one, overlapping cheats, a slot cart, a button, a state file.
SPECIFICATION Spec
CONSTANTS
  Engines     = {ares, mgba}
  Mirrored    = {ares}
  Systems     = {gb}
  Serves      <- MCServes
  Prefixes    = {zelda, none}
  NoPrefix    = none
  Codes       = {c1, c2}
  AddrsOf     <- MCAddrs
  SlotCarts   = {slotA}
  Buttons     = {A}
  Paths       = {f1}
  Untagged    = Untagged
  Blank       = Blank
  Torn        = Torn
  NoGame      = NoGame
  NoFile      = NoFile
  Nothing     = Nothing
  MaxBoots    = 2
  MaxProgress = 1
  c1 = c1
  c2 = c2
  x = x
  y = y
INVARIANTS
  CheatTableExact
  RewindWithinGame
PROPERTIES
  TaggedStatesStayHome
  KeepsContract
  NothingCarriesOver
CHECK_DEADLOCK FALSE
