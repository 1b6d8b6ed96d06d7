----------------------------- MODULE MCPricing -----------------------------
(* Finite instances of Pricing for TLC: prices in cents. *)
EXTENDS Pricing

MCMultipliers == {70, 150}
\* The operator lowers the base price from $4.00 to $1.00, or raises it again.
MCBases == {100, 400}
=============================================================================
