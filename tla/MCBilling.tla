----------------------------- MODULE MCBilling ------------------------------
(* Values of the constants of Billing for TLC. *)
EXTENDS Billing, TLC

CallSymmetry == Permutations(Calls)
=============================================================================
