-------------------------- MODULE MCSensorPipeline --------------------------
(* Finite instances of SensorPipeline for TLC. *)
EXTENDS SensorPipeline

\* The clock stands still, because 1 is no slot: all it does is to refuse late
\* cancellations, and a state less is a third of the states.
MCSlots == {0, 2, 3}

\* Two that overlap; a reservation of the second can be cancelled.
MCWindows == {[start |-> 0, end |-> 3], [start |-> 2, end |-> 3]}
=============================================================================
