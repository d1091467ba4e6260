-------------------------- MODULE MCHostLifecycle --------------------------
(***************************************************************************)
(* Small instances of HostLifecycle.                                       *)
(***************************************************************************)
EXTENDS HostLifecycle, FiniteSets, TLC

CONSTANTS c1, c2, x, y

\* Two codes that patch one address in common.
MCAddrs == (c1 :> {x, y} @@ c2 :> {y})
MCNoAddrs == [c \in {} |-> {}]

\* Every engine serves every system: the registry's answer when both claim it.
MCServes == Systems \X Engines
============================================================================
