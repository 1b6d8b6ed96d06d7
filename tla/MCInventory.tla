---------------------------- MODULE MCInventory ----------------------------
(* Finite instances of Inventory for TLC. *)
EXTENDS Inventory

MCSlots == 0..3

\* Three windows share instant 1, and one is refused as empty.
MCWindows == {[start |-> 0, end |-> 2], [start |-> 1, end |-> 3],
              [start |-> 0, end |-> 3], [start |-> 1, end |-> 1]}

\* Two that overlap.
MCFewWindows == {[start |-> 0, end |-> 2], [start |-> 1, end |-> 3]}
=============================================================================
