---------------------------- MODULE TapContract ----------------------------
(***************************************************************************)
(* What HostPort promises an engine about buttons (backend.hpp): a sample  *)
(* shows a button that is held, and a software tap shorter than one poll   *)
(* stays visible for exactly one sample, its release landing right after.  *)
(***************************************************************************)
CONSTANT Buttons

VARIABLES
  hw,     \* buttons held on hardware pads
  down,   \* software buttons held now
  owed,   \* software presses no sample has shown yet
  shown   \* the last sample: a button and whether it read as pressed

contractVars == <<hw, down, owed, shown>>

ContractInit == hw = {} /\ down = {} /\ owed = {} /\ shown = <<>>

SetInput(mask) == hw' = mask /\ UNCHANGED <<down, owed, shown>>

Press(b) ==
  /\ down' = down \cup {b}
  /\ owed' = owed \cup {b}
  /\ UNCHANGED <<hw, shown>>

Release(b) ==
  /\ down' = down \ {b}
  /\ UNCHANGED <<hw, owed, shown>>

Sample(b) ==
  /\ shown' = <<b, b \in hw \cup down \cup owed>>
  /\ owed' = owed \ {b}
  /\ UNCHANGED <<hw, down>>

\* A device teardown drops held buttons.
DropAll == down' = {} /\ owed' = {} /\ UNCHANGED <<hw, shown>>

ContractNext ==
  \/ \E mask \in SUBSET Buttons : SetInput(mask)
  \/ \E b \in Buttons : Press(b) \/ Release(b) \/ Sample(b)
  \/ DropAll

Contract == ContractInit /\ [][ContractNext]_contractVars
============================================================================
