\* Both builds, systems staged at any time.
SPECIFICATION FairSpec
CONSTANTS
  sfc = sfc
  md = md
  gb = gb
  Gamepad = Gamepad
  Mouse = Mouse
  Tap = Tap
  FightingPad = FightingPad
  NoTap = NoTap
  Pad = Gamepad
  NoDevice = NoDevice
  NoSystem = NoSystem
  Systems = {sfc, md, gb}
  Catalog <- ConsolesAndHandheld
  MaxPorts = 3
  MaxCalls = 2
INVARIANTS
  TableCurrent
  PadsIndependent
  DescriptorsAgree
PROPERTY ChangesLand
CHECK_DEADLOCK FALSE
