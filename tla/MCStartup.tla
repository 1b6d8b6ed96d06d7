----------------------------- MODULE MCStartup -----------------------------
(* Finite instances of Startup for TLC. *)
EXTENDS Startup

MCLots == <<1, 2>>
=============================================================================
