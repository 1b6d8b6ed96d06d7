-------------------------- MODULE MCParkingSystem --------------------------
(* Finite instances of ParkingSystem for TLC. *)
EXTENDS ParkingSystem, TLC

MCSlots == 0..2
MCWindows == {[start |-> 0, end |-> 1], [start |-> 1, end |-> 2]}
MCOneWindow == {[start |-> 1, end |-> 2]}
MCMultipliers == {70, 150}
MCOneArm == {150}
MCBases == {400}

MCSymmetry == Permutations(Workers) \cup Permutations(PricingWorkers)
=============================================================================
