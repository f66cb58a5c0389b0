---------------------------- MODULE MCEmailTokens ----------------------------
(* Symmetry of EmailTokens for TLC. *)
EXTENDS EmailTokens, TLC

Symmetries ==
  Permutations(Addresses) \cup Permutations(Changes)
  \cup Permutations(Opens)
=============================================================================
