---------------------------- MODULE MCMobileApp ----------------------------
(* Finite instances of MobileApp for TLC. *)
EXTENDS MobileApp, TLC

MCSlots == {0, 2, 3}
MCWindows == {[start |-> 0, end |-> 2], [start |-> 2, end |-> 3]}
MCFirst == [start |-> 2, end |-> 3]
MCOneArm == {150}
MCBases == {400}
CONSTANTS alice
MCAccount == [p \in Phones |-> alice]

MCSymmetry == Permutations(Workers) \cup Permutations(PricingWorkers)
=============================================================================
