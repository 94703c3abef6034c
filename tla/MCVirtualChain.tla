--------------------------- MODULE MCVirtualChain ---------------------------
(* Instances of VirtualChain for TLC: block trees and fault budgets.       *)
EXTENDS VirtualChain

Faults(drop, handshake, rpc, crash, block, shutdown, prune) ==
    [k \in FaultKinds |->
       CASE k = "drop" -> drop [] k = "handshake" -> handshake [] k = "rpc" -> rpc
         [] k = "crash" -> crash [] k = "block" -> block [] k = "shutdown" -> shutdown
         [] k = "prune" -> prune]

\* Block 2 abandons block 1, block 3 goes back to it.
Fork == [b \in Blocks |-> CASE b = 2 -> {2} [] b = 3 -> {1, 3} [] OTHER -> 1..b]

\* A behaviour has the faults of one of these bounds.
DropCrash  == Faults(1, 0, 0, 1, 0, 0, 0)
Refusals   == Faults(0, 1, 1, 0, 1, 0, 0)
Restarts   == Faults(0, 0, 1, 1, 0, 0, 1)
Either     == {DropCrash, Refusals, Restarts}

OneFailure == {Faults(0, 1, 0, 0, 0, 0, 0)}
Live       == {Faults(1, 0, 1, 0, 0, 1, 0)}
=============================================================================
