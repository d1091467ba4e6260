-------------------------- MODULE MCLibretroCores --------------------------
(* Two libraries, one of them under a bare name and a path, and a name     *)
(* without one; options that are listed, listed in another order, or not.  *)
EXTENDS LibretroCores, TLC

CONSTANTS nes, nespath, gba, ghost, libnes, libgba, smooth, sharp

MCLibOf == nes :> libnes @@ nespath :> libnes @@ gba :> libgba @@ ghost :> NoLib
MCLists == libnes :> {<<smooth, sharp>>, <<sharp>>} @@ libgba :> {<<>>, <<sharp, smooth>>}
=============================================================================
