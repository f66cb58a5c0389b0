---------------------------- MODULE MCMemberCodes ----------------------------
(* Values of the constants of MemberCodes for TLC. *)
EXTENDS MemberCodes, TLC

Old(code, role) == [code |-> code, role |-> role, gone |-> FALSE]

\* Nobody; a customer of the shop alone; or an admin and a customer without a
\* code, and one of the staff who has one.
MCLegacy ==
  {<< >>, <<Old(4, "customer")>>,
   <<Old(0, "admin"), Old(4, "staff"), Old(0, "customer")>>}

Symmetries == Permutations(Starts)
=============================================================================
