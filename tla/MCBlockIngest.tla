--------------------------- MODULE MCBlockIngest ---------------------------
(* Instances of BlockIngest for TLC: the fault budgets of the runs.        *)
EXTENDS BlockIngest

Faults(drop, handshake, rpc, crash, vcc, shutdown) ==
    [k \in FaultKinds |->
       CASE k = "drop" -> drop [] k = "handshake" -> handshake [] k = "rpc" -> rpc
         [] k = "crash" -> crash [] k = "vcc" -> vcc [] k = "shutdown" -> shutdown]

Everything  == Faults(1, 1, 1, 1, 0, 0)
NoFault     == Faults(0, 0, 0, 0, 1, 1)
OneDrop     == Faults(1, 0, 0, 0, 0, 0)
DropAndStop == Faults(1, 0, 0, 0, 0, 1)
=============================================================================
