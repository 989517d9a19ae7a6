-------------------------- MODULE MCAccountStatuses --------------------------
(* Constants for TLC: accounts are interchangeable. *)
EXTENDS AccountStatuses, TLC

Symmetry == Permutations(Accounts)
=============================================================================
