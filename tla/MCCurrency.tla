----------------------------- MODULE MCCurrency -----------------------------
(* Currency on a small instance: values of its constants for TLC. *)
EXTENDS Currency, TLC

CONSTANTS genesis, reserved, alice, p1, p2, nobody

\* Nothing tells the producers apart.
Symmetry == Permutations(Producers)
=============================================================================
