\* ares alone: its battery memory reaches the file through the pak copy.
SPECIFICATION Spec
CONSTANTS
  Engines     = {ares}
  Mirrored    = {ares}
  Systems     = {gb}
  Serves      <- MCServes
  Prefixes    = {zelda, none}
  NoPrefix    = none
  Codes       = {}
  AddrsOf     <- MCNoAddrs
  SlotCarts   = {}
  Buttons     = {}
  Paths       = {}
  Untagged    = Untagged
  Blank       = Blank
  Torn        = Torn
  NoGame      = NoGame
  NoFile      = NoFile
  Nothing     = Nothing
  MaxBoots    = 2
  MaxProgress = 1
  c1 = c1
  c2 = c2
  x = x
  y = y
PROPERTY SwapSavesProgress
CHECK_DEADLOCK FALSE
