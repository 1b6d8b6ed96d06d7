----------------------------- MODULE MCAccounts -----------------------------
(* Finite instances of Accounts for TLC. *)
EXTENDS Accounts, TLC

CONSTANTS alice, bob

\* Phones, threads, e-mails and the names that are not blank are interchangeable.
MCSymmetry == Permutations(Workers) \cup Permutations(Devices)
                \cup Permutations({alice, bob}) \cup Permutations(Emails)
=============================================================================
