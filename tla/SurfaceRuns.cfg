\* Two views, two sizes, one preset or none, four calls in all, any one failure.
SPECIFICATION FairSpec
CONSTANTS
  Surfaces = {s1, s2}
  Presets = {crt}
  Null = Null
  Sizes = {1, 2}
  MaxCalls = 4
  MaxFaults = 1
  Kinds = {"device", "window", "swapchain", "image", "preset", "filter", "submit"}
INVARIANTS
  WindowReleased
  SurfaceServed
  ShaderFollows
  ShotReadable
PROPERTIES
  ScreenSettles
CHECK_DEADLOCK FALSE
