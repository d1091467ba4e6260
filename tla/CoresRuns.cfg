\* Three names on two libraries and one name without, two systems, two formats.
SPECIFICATION Spec
CONSTANTS
  nes = nes
  nespath = nespath
  gba = gba
  ghost = ghost
  libnes = libnes
  libgba = libgba
  smooth = smooth
  sharp = sharp
  Names = {nes, nespath, gba, ghost}
  Libs = {libnes, libgba}
  LibOf <- MCLibOf
  Systems = {sysA, sysB}
  Choices = {smooth, sharp}
  Lists <- MCLists
  Formats = {rgb1555, xrgb8888}
  Plain = rgb1555
  NoLib = NoLib
  NoName = NoName
  NoSystem = NoSystem
  NoChoice = NoChoice
INVARIANTS
  HandlesBalanced
  RunningServed
  CoreAlive
  OptionHeard
PROPERTIES
  RunningCoreKept
