---------------------------- MODULE MCPressLatch ----------------------------
(***************************************************************************)
(* Small instances of PressLatch: A and B on one port, and a third handle  *)
(* remapped to read A's bit.                                               *)
(***************************************************************************)
EXTENDS PressLatch, TLC

CONSTANTS A, B, hA, hB, hRemapped

MCBit == (hA :> A @@ hB :> B @@ hRemapped :> A)
============================================================================
