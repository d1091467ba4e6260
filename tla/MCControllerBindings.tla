------------------------ MODULE MCControllerBindings ------------------------
(***************************************************************************)
(* Small catalogs for ControllerBindings: the shapes of the code's catalog *)
(* with two buttons a pad, a multitap of two and three players.            *)
(***************************************************************************)
EXTENDS ControllerBindings, TLC

CONSTANTS sfc, md, gb, Gamepad, Mouse, Tap, FightingPad, NoTap

Sfc == [ports |-> 2, device |-> Gamepad, buttons |-> ("B" :> 1 @@ "Y" :> 2),
        extra |-> (Mouse :> ("Left" :> 1) @@ Tap :> <<>>),
        multitap |-> Tap, block |-> 2]
Md  == [ports |-> 2, device |-> FightingPad, buttons |-> ("B" :> 1 @@ "A" :> 2),
        extra |-> <<>>, multitap |-> NoTap, block |-> 1]
Gb  == [ports |-> 0, device |-> NoDevice, buttons |-> ("B" :> 1 @@ "A" :> 4),
        extra |-> <<>>, multitap |-> NoTap, block |-> 1]

ConsolesAndHandheld == (sfc :> Sfc @@ md :> Md @@ gb :> Gb)
============================================================================
