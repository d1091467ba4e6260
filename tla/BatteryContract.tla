-------------------------- MODULE BatteryContract --------------------------
(***************************************************************************)
(* What EmulatorHost promises a player about battery memory, without       *)
(* engines, staging or threads: a console holds at most one cartridge, its *)
(* memory changes while it plays, and memory reaches the cartridge's own   *)
(* file when it is saved and when another cartridge takes its place.  A    *)
(* console either reads the memory itself at that moment (live), or a copy *)
(* of it that was kept when it was last saved.  A write that fails may     *)
(* damage the file it was for, and no other.                               *)
(***************************************************************************)
EXTENDS Naturals

CONSTANTS Carts, Unsaved, Empty, Blank, Torn, Progress

VARIABLES cart, memory, live, kept, files, fault

contractVars == <<cart, memory, live, kept, files, fault>>

Keeps == Carts \ {Unsaved}

Seed(fs, c) ==
  IF c \notin Keeps \/ fs[c] = Blank THEN {0}
  ELSE IF fs[c] = Torn THEN Progress
  ELSE {fs[c]}

ContractInit ==
  /\ cart = Empty
  /\ memory = 0 /\ kept = 0 /\ live = TRUE
  /\ files = [c \in Keeps |-> Blank]
  /\ fault = FALSE

\* The cartridge in the console, if it keeps anything, is written back; the
\* fault says whether that failed.
WriteBack(value) ==
  IF cart \in Keeps
    THEN \/ files' = [files EXCEPT ![cart] = value] /\ fault' = FALSE
         \/ /\ files' \in {files} \cup {[files EXCEPT ![cart] = d] : d \in {Blank, Torn}}
            /\ fault' = TRUE
    ELSE UNCHANGED <<files, fault>>

Eject == WriteBack(IF live THEN memory ELSE kept)

Insert(c) ==
  /\ Eject
  /\ cart' = c
  /\ memory' \in Seed(files', c) /\ kept' = memory'
  /\ live' \in BOOLEAN

Removed == cart' = Empty /\ memory' = 0 /\ kept' = 0 /\ live' = TRUE

InsertFails == Eject /\ Removed

Play ==
  /\ cart # Empty
  /\ memory' \in Progress
  /\ UNCHANGED <<cart, live, kept, files, fault>>

Save ==
  /\ cart # Empty
  /\ WriteBack(memory)
  /\ kept' = IF live THEN kept ELSE memory
  /\ UNCHANGED <<cart, memory, live>>

Pull == Removed /\ UNCHANGED <<files, fault>>

ContractNext ==
  \/ \E c \in Carts : Insert(c)
  \/ InsertFails
  \/ Play
  \/ Save
  \/ Pull

Contract == ContractInit /\ [][ContractNext]_contractVars
============================================================================
